----------------------------- MODULE Telemetry -----------------------------
(***************************************************************************)
(* What the charm tells Prometheus and Grafana: MetricsEndpointProvider    *)
(* (lib/charms/prometheus_k8s/v0/prometheus_scrape.py) and                 *)
(* GrafanaDashboardProvider (lib/charms/grafana_k8s/v0/grafana_dashboard.  *)
(* py) as charm.py drives them, and what MetricsEndpointConsumer and       *)
(* GrafanaDashboardConsumer of the same libraries make of it.              *)
(*                                                                         *)
(* Every unit writes its address, the leader alone what the application    *)
(* shares: the scrape jobs, with the scheme of Patroni's API, the alert    *)
(* rules and the dashboards of its charm's revision.  The jobs are written *)
(* again when a unit starts, when Prometheus joins, and when update_config *)
(* finds that TLS is not yet as PostgreSQL has it -- on the primary.       *)
(***************************************************************************)
EXTENDS Naturals, FiniteSets

CONSTANTS
    N,              \* units 0 .. N - 1
    None,           \* nothing written
    MaxToggles,     \* TLS turned on or off
    MaxRefreshes,   \* upgrades of the charm
    MaxIncidents,   \* changes of the Juju leader or of the primary, restarts of pods
    MayRelateBoth,  \* Prometheus and Grafana, which share nothing, in one behaviour
    MayOverlap      \* these may happen during one another, and the primary's
                    \* certificate may come before the leader's

Units == 0 .. N - 1
Ports == {"metrics", "pgbackrest", "patroni"}     \* METRICS_PORT, PGBACKREST_METRICS_PORT, 8008

VARIABLES
    leader, primary,
    wanted,      \* TLS is related
    files,       \* is_tls_enabled: the units that have the TLS files
    ssl,         \* PostgreSQL's "ssl" on each unit
    up,          \* the units whose workload runs
    revision,    \* of the charm, as deployed
    rev,         \* of the charm, as each unit runs it
    address,     \* of each pod
    due,         \* the hooks each unit is owed
    prometheus, grafana,   \* these are related
    unitBag,     \* metrics-endpoint, unit bags: "prometheus_scrape_unit_address"
    appBag,      \* its application bag: "scrape_jobs" and "alert_rules"
    dashboards,  \* grafana-dashboard, application bag: "dashboards"
    scraped,     \* the jobs Prometheus runs
    rules,       \* the alert rules it evaluates
    shown,       \* the dashboards in Grafana
    toggles, incidents     \* counters for the bounds

roles == <<leader, primary>>
tls == <<wanted, files, ssl>>
charm == <<revision, rev>>
bags == <<unitBag, appBag, dashboards>>
others == <<prometheus, grafana, scraped, rules, shown>>
counters == <<toggles, incidents>>
vars == <<roles, tls, up, charm, address, due, bags, others, counters>>

Hooks == {"tls", "upgrade", "config", "start", "elected", "joined", "created"}
Revisions == 0 .. MaxRefreshes
Addresses == 0 .. MaxIncidents + MaxRefreshes

-----------------------------------------------------------------------------
\* No round of certificates, upgrade, restart or election is under way.
Quiet ==
    /\ \A u \in Units : (u \in files) = wanted /\ rev[u] = revision
    /\ up = Units
    /\ \A u \in Units : due[u] = {}

\* A hook of u runs: the earlier ones of an upgrade come first.
Runs(u, h) ==
    /\ h \in due[u]
    /\ h = "config" => "upgrade" \notin due[u]
    /\ h = "start" => "config" \notin due[u]
    /\ due' = [due EXCEPT ![u] = @ \ {h}]

\* _generate_metrics_jobs: only Patroni's API is served over TLS.
MetricsJobs(tlsEnabled) ==
    [p \in Ports |-> IF p = "patroni" /\ tlsEnabled THEN "https" ELSE "http"]

\* Mutant: who is not the leader returns before its address is set.
SetByLeader(u, tlsEnabled) ==
    IF ~prometheus \/ u # leader THEN UNCHANGED <<unitBag, appBag>>
    ELSE /\ unitBag' = [unitBag EXCEPT ![u] = address[u]]
         /\ appBag' = [jobs |-> MetricsJobs(tlsEnabled), rules |-> rev[u]]

\* set_scrape_job_spec: the address by every unit, the rest by the leader.
SetScrapeJobSpec(u, tlsEnabled) ==
    IF ~prometheus THEN UNCHANGED <<unitBag, appBag>>
    ELSE /\ unitBag' = [unitBag EXCEPT ![u] = address[u]]
         /\ appBag' = IF u = leader
                      THEN [jobs |-> MetricsJobs(tlsEnabled), rules |-> rev[u]] ELSE appBag

\* PostgreSQL.is_tls_enabled, of the primary; FALSE when it cannot be asked.
PrimaryHasTLS == primary \in ssl \cap up

\* update_config, down to _handle_postgresql_restart_need; the jobs are set only
\* when PostgreSQL is to be restarted.
UpdateConfig(u) ==
    LET enabled == u \in files'
    IN  IF u \notin up THEN UNCHANGED <<ssl, unitBag, appBag>>
        ELSE /\ ssl' = IF enabled THEN ssl \cup {u} ELSE ssl \ {u}
             /\ IF enabled # PrimaryHasTLS THEN SetScrapeJobSpec(u, enabled)
                ELSE UNCHANGED <<unitBag, appBag>>

\* load_dashboards_from_dir: those of the charm's revision.
FromDir(u) == rev[u]

\* _update_all_dashboards_from_dir: the leader sends them; StoredState has no others.
UpdateDashboards(u) == dashboards' = IF u = leader /\ grafana THEN FromDir(u) ELSE dashboards

-----------------------------------------------------------------------------
\* The units are alike: the leader is unit 0.
Init ==
    /\ leader = 0 /\ primary \in Units
    /\ wanted = FALSE /\ files = {} /\ ssl = {} /\ up = Units
    /\ revision = 0 /\ rev = [u \in Units |-> 0]
    /\ address = [u \in Units |-> 0]
    /\ due = [u \in Units |-> {}]
    /\ prometheus = FALSE /\ grafana = FALSE
    /\ unitBag = [u \in Units |-> None] /\ appBag = None /\ dashboards = None
    /\ scraped = {} /\ rules = None /\ shown = None
    /\ toggles = 0 /\ incidents = 0

\* The certificates of a unit are there, or were taken back: the files, and
\* update_config.
OnTLS(u) ==
    /\ u \in up /\ Runs(u, "tls")
    /\ u = primary => MayOverlap \/ u = leader \/ (leader \in files) = wanted
    /\ files' = IF wanted THEN files \cup {u} ELSE files \ {u}
    /\ UpdateConfig(u)
    /\ UNCHANGED <<roles, wanted, up, charm, address, dashboards, others, counters>>

\* Any other handler that ends in update_config
Reconfigure(u) ==
    /\ u \in up
    /\ UNCHANGED files /\ UpdateConfig(u)
    /\ UNCHANGED <<roles, wanted, up, charm, address, due, dashboards, others, counters>>

\* upgrade-charm and config-changed: GrafanaDashboardProvider's handlers, and
\* the second's update_config
OnUpgradeCharm(u) ==
    /\ Runs(u, "upgrade")
    /\ UpdateDashboards(u)
    /\ UNCHANGED <<roles, tls, up, charm, address, unitBag, appBag, others, counters>>

OnConfigChanged(u) ==
    /\ Runs(u, "config")
    /\ UpdateDashboards(u)
    /\ UNCHANGED files /\ UpdateConfig(u)
    /\ UNCHANGED <<roles, wanted, up, charm, address, others, counters>>

\* start, the refresh event of MetricsEndpointProvider: the jobs are those that
\* __init__ made in this hook.
OnStart(u) ==
    /\ Runs(u, "start")
    /\ SetScrapeJobSpec(u, u \in files)
    /\ UNCHANGED <<roles, tls, up, charm, address, dashboards, others, counters>>

\* leader-elected: of the two libraries only Grafana's observes it.
OnLeaderElected(u) ==
    /\ Runs(u, "elected")
    /\ UpdateDashboards(u)
    /\ UNCHANGED <<roles, tls, up, charm, address, unitBag, appBag, others, counters>>

\* relation-joined, of a unit of Prometheus
OnJoined(u) ==
    /\ Runs(u, "joined")
    /\ SetScrapeJobSpec(u, u \in files)
    /\ UNCHANGED <<roles, tls, up, charm, address, dashboards, others, counters>>

\* _on_grafana_dashboard_relation_created
OnCreated(u) ==
    /\ Runs(u, "created")
    /\ IF u = leader THEN UpdateDashboards(u) ELSE UNCHANGED dashboards
    /\ UNCHANGED <<roles, tls, up, charm, address, unitBag, appBag, others, counters>>

-----------------------------------------------------------------------------
\* The other sides.
\* _relation_hosts
Hosts == {u \in Units : unitBag[u] # None}

\* expand_wildcard_targets_into_individual_jobs: each job, whose target is a
\* wildcard, once for each host; the jobs of a unit have one name.
Expanded(jobs) ==
    {[name |-> <<h[1], None>>, unit |-> h[1], address |-> unitBag[h[1]], port |-> h[2],
      scheme |-> jobs[h[2]]] : h \in Hosts \X Ports}

StaticScrapeConfig == IF appBag = None THEN {} ELSE Expanded(appBag.jobs)

\* Mutant: the names stay as they are.
AsNamed(jobs) == jobs

\* _dedupe_job_names: jobs of the same name get a digest of themselves.
Deduped(jobs) ==
    {IF \E k \in jobs \ {j} : k.name = j.name
     THEN [j EXCEPT !.name = <<j.unit, j.port>>] ELSE j : j \in jobs}

Jobs == Deduped(StaticScrapeConfig)
Alerts == IF appBag = None THEN None ELSE appBag.rules

\* MetricsEndpointConsumer: the charm of Prometheus takes jobs() and alerts.
PrometheusChanged ==
    /\ prometheus
    /\ scraped # Jobs \/ rules # Alerts
    /\ scraped' = Jobs /\ rules' = Alerts
    /\ UNCHANGED <<roles, tls, up, charm, address, due, bags, prometheus, grafana, shown, counters>>

\* _render_dashboards_and_signal_changed: only what differs is stored.
Differs == dashboards # None /\ shown # dashboards

\* GrafanaDashboardConsumer
GrafanaChanged ==
    /\ grafana /\ Differs
    /\ shown' = dashboards
    /\ UNCHANGED <<roles, tls, up, charm, address, due, bags, prometheus, grafana, scraped, rules, counters>>

Owe(units, hooks) == due' = [u \in Units |-> IF u \in units THEN due[u] \cup hooks ELSE due[u]]

RelatePrometheus ==
    /\ ~prometheus /\ prometheus' = TRUE
    /\ MayRelateBoth \/ ~grafana
    /\ Owe(Units, {"joined"})
    /\ UNCHANGED <<roles, tls, up, charm, address, bags, grafana, scraped, rules, shown, counters>>

RelateGrafana ==
    /\ ~grafana /\ grafana' = TRUE
    /\ MayRelateBoth \/ ~prometheus
    /\ Owe(Units, {"created"})
    /\ UNCHANGED <<roles, tls, up, charm, address, bags, prometheus, scraped, rules, shown, counters>>

\* TLS is related or removed; one round at a time.
Toggle ==
    /\ toggles < MaxToggles /\ toggles' = toggles + 1
    /\ MayOverlap \/ Quiet
    /\ wanted' = ~wanted
    /\ Owe(Units, {"tls"})
    /\ UNCHANGED <<roles, files, ssl, up, charm, address, bags, others, incidents>>

\* juju refresh
Refresh ==
    /\ revision < MaxRefreshes
    /\ MayOverlap \/ Quiet
    /\ revision' = revision + 1
    /\ UNCHANGED <<roles, tls, up, rev, address, due, bags, others, counters>>

Incident == incidents < MaxIncidents /\ incidents' = incidents + 1

\* A pod restarts, by itself or with the charm's next revision.
PodRestarts(u) ==
    /\ MayOverlap \/ \A v \in Units : (v \in files) = wanted
    /\ IF rev[u] < revision THEN UNCHANGED incidents ELSE Incident
    /\ rev' = [rev EXCEPT ![u] = revision]
    /\ address' = [address EXCEPT ![u] = @ + 1]
    /\ up' = up \ {u}
    /\ Owe({u}, {"start"} \cup (IF rev[u] < revision THEN {"upgrade", "config"} ELSE {}))
    /\ UNCHANGED <<roles, tls, revision, bags, others, toggles>>

\* The workload is up: PostgreSQL reads the configuration of its files.
WorkloadUp(u) ==
    /\ u \notin up
    /\ up' = up \cup {u}
    /\ ssl' = IF u \in files THEN ssl \cup {u} ELSE ssl \ {u}
    /\ UNCHANGED <<roles, wanted, files, charm, address, due, bags, others, counters>>

Elect(u) ==
    /\ u # leader /\ Incident
    /\ MayOverlap \/ Quiet
    /\ leader' = u
    /\ Owe({u}, {"elected"})
    /\ UNCHANGED <<primary, tls, up, charm, address, bags, others, toggles>>

Switchover(u) ==
    /\ u # primary /\ u \in up /\ Incident
    /\ MayOverlap \/ \A v \in Units : (v \in files) = wanted
    /\ primary' = u
    /\ UNCHANGED <<leader, tls, up, charm, address, due, bags, others, toggles>>

Hook(u) ==
    \/ OnTLS(u) \/ OnUpgradeCharm(u) \/ OnConfigChanged(u) \/ OnStart(u)
    \/ OnLeaderElected(u) \/ OnJoined(u) \/ OnCreated(u)

Next ==
    \/ \E u \in Units :
          \/ Hook(u) \/ Reconfigure(u)
          \/ PodRestarts(u) \/ WorkloadUp(u) \/ Elect(u) \/ Switchover(u)
    \/ PrometheusChanged \/ GrafanaChanged
    \/ RelatePrometheus \/ RelateGrafana \/ Toggle \/ Refresh

Spec == Init /\ [][Next]_vars

\* Every hook that is due runs, here and on the other sides; Kubernetes restarts
\* the pods of an old revision and brings the workloads up.
Fairness ==
    /\ \A u \in Units :
          /\ WF_vars(Hook(u)) /\ WF_vars(OnTLS(u)) /\ WF_vars(WorkloadUp(u))
          /\ WF_vars(rev[u] < revision /\ PodRestarts(u))
    /\ WF_vars(PrometheusChanged) /\ WF_vars(GrafanaChanged)

FairSpec == Spec /\ Fairness

-----------------------------------------------------------------------------
JobSet == [name : Units \X (Ports \cup {None}), unit : Units, address : Addresses,
           port : Ports, scheme : {"http", "https"}]

\* The values that bags, files and what is scraped take.
TypeOK ==
    /\ {leader, primary} \subseteq Units /\ {wanted, prometheus, grafana} \subseteq BOOLEAN
    /\ files \subseteq Units /\ ssl \subseteq Units /\ up \subseteq Units
    /\ revision \in Revisions /\ rev \in [Units -> Revisions]
    /\ address \in [Units -> Addresses] /\ due \in [Units -> SUBSET Hooks]
    /\ unitBag \in [Units -> Addresses \cup {None}]
    /\ appBag = None \/ appBag \in [jobs : [Ports -> {"http", "https"}], rules : Revisions]
    /\ {dashboards, rules, shown} \subseteq Revisions \cup {None}
    /\ scraped \subseteq JobSet
    /\ toggles \in 0 .. MaxToggles /\ incidents \in 0 .. MaxIncidents

\* Prometheus refuses a configuration in which two jobs have one name: though
\* the charm names none of its jobs, all that the units' are expanded to differ,
\* and no endpoint of a unit is scraped twice.
NamesDiffer ==
    \A j, k \in scraped :
        j.name = k.name \/ (j.unit = k.unit /\ j.port = k.port) => j = k

\* TypeOK and NamesDiffer.
Inv == TypeOK /\ NamesDiffer

\* Prometheus scrapes each endpoint of each unit, at the address of its pod and
\* by the scheme it is served with.
Scraped ==
    prometheus =>
        {<<j.unit, j.port, j.address, j.scheme>> : j \in scraped} =
        {<<h[1], h[2], address[h[1]], MetricsJobs(h[1] \in files)[h[2]]>> : h \in Units \X Ports}

\* Prometheus has the alert rules, Grafana the dashboards, of the charm's revision.
Current ==
    /\ prometheus => rules = revision
    /\ grafana => shown = revision

\* However the relations, the rounds of certificates, the upgrades and the
\* restarts of pods interleave with the hooks of units of which one alone may
\* write for all, Prometheus ends up scraping every unit as it is, and both have
\* the rules and dashboards of the revision deployed.
Settles == <>[](Scraped /\ Current)
=============================================================================
