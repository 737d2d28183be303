# A TLA+ model of the PostgreSQL K8s operator

This directory holds a specification of the charm in this repository
(`src/`, and the libraries under `lib/charms/` whose protocols it runs), the
TLC configurations that check it on small instances, and proofs checked by TLAPS.

    tlc -config rolling_faults.cfg RollingOps.tla
    tlapm RollingOps_proofs.tla

`PROJECT.json` lists the runs, the theorems, the hazards, the mutants and, for each
definition, the lines it models.

## The system

One application has units `0 .. n-1`. Each is a pod of a stateful set with two
containers: the charm, and PostgreSQL under Patroni. Juju starts the charm for
one event at a time on each unit (a hook); the hooks of different units overlap.
Units share nothing but relation data (each writes its own bag, the leader also
that of the application), Kubernetes objects and Patroni's configuration. What a
hook writes in a bag is seen when it ends, and lost if it fails; what it does to
Kubernetes, Patroni and PostgreSQL is done at once. A hook first re-emits what was
deferred. The Juju leader and Patroni's primary are chosen apart and are often
different units. Nearly everything that can go wrong comes from these sentences.

| component | state | operations | talks to |
|---|---|---|---|
| rolling restart lock (`rollingops.py`, `_restart`) | `state` of a unit, its grant in the application bag, the deferred `RunWithLock` | acquire, process locks, run with lock, release | peer relation; `update_config` asks for restarts; the upgrade resets its status after one |
| in-place upgrade (`upgrade.py` twice) | `state` of a unit, `upgrade-stack`, `dependencies`, the partition of the stateful set | pre-upgrade-check, resume-upgrade, upgrade-charm, pebble-ready, relation changed, recovery | Kubernetes, Patroni (health, switchover), restart lock |
| membership (`charm.py`, `patroni.py`) | `endpoints`, `cluster_initialised`, pod labels, Patroni's leader object, synchronous node count | leader-elected, pebble-ready, peer changed and departed, storage detaching | Kubernetes, Patroni |
| asynchronous replication (`async_replication.py`) | `promoted-cluster-counter`, `unit-promoted-cluster-counter`, `stopped`, secrets | create-replication, promote, relation created, changed, broken | the same charm in another model; membership (initialisation) |
| backup repository (`backups.py`, `s3.py`) | `stanza`, `s3-initialization-start/-done/-block-message` in both bags | credentials changed and gone, stanza initialisation and check | leader and primary, which differ |
| backup and restore (`backups.py`, `charm.py`) | `restoring-backup`, `restore-to-time`, `restore-stanza`, `restore-timeline`, the on-failure override | create-backup, restore, update-status | membership (Patroni objects deleted) |
| client relations (`postgresql_provider.py`, `db.py`) | a user per relation, `departing`, `user_hash`, pg_hba.conf | requested or changed, departed, broken | database, `update_config`, authorisation rules observer |
| secrets (`charm.py`, `DataPeerData`) | a data bag, a secret and its label | get, set, remove; migrations on the first write after an upgrade | every component that has passwords, keys or certificates |
| configuration (`update_config`, `config.py`) | `config_hash`, patroni.yml, the values in Patroni's DCS, extensions | validate, render, patch, reload, enable and disable plugins | restart lock, LDAP (`ldap.py`) |
| TLS (`postgresql_tls.py`, `tls_certificates.py`, `tls_transfer.py`) | key, request and certificate in secrets, files, flags in the bags | request, available, expiring, broken, set-tls-private-key, transferred CA | `update_config`, restart lock, client relations, scrape jobs |
| observability (`loki_push_api.py`, `prometheus_scrape.py`, `grafana_dashboard.py`) | promtail's plan, file and binary; addresses, jobs, rules and dashboards in bags | relation joined, changed, departed, pebble-ready, upgrade | Loki, Prometheus, Grafana; `update_config` |

What is hard, and what makes each part correct:

- Restart lock: a leader that works on stale data, hooks that fail after the
  restart, units that come back under an old name, callbacks that defer. Correct: one grant
  at a time, no request lost, every request served.
- Upgrade: the partition acts at once and the bags later; the stack is cached;
  failures and rollbacks; a leader that changes. Correct: pods move one by one
  from the top, each after the last is healthy and the operator agreed; the primary
  last; the end is declared once and is reached.
- Membership: three records of who is a member (Juju's hosts, the list, the labels)
  that change at different times; a bootstrap that must happen once.
  Correct: one database, everybody who stays is in, and the number of synchronous
  standbys fits.
- Replication between clusters: two counters compared from both sides, and units that
  wait for each other with their data deleted. Correct: both sides agree on the primary
  cluster, nothing is deleted but for a primary that has the data, and both end up replicating.
- S3 and restore: results that belong to an earlier request, a failure between two
  of several flags. Correct: a round tells the truth about the repository of the last
  credentials; a restore never makes a database of its own and is over at some time.
- Client relations: the removal of a unit looks like that of a client; credentials must not
  come before every unit lets the user in. Correct: a user lives exactly as long as its
  relation, with the password that is in the bag.
- Secrets: three places where a value may be. Correct: a read returns the last write.
- Configuration: three ways (file, DCS, restart) that options take, with hashes that say
  which was taken. Correct: every server runs in the end what is configured, or its unit says
  that it is refused.
- TLS: requests that are superseded while their answers are on the way. Correct: the key and
  the certificate belong together, the last request is served, nothing passes through plain text.
- Observability: what only the leader may write is triggered on other units. Correct: logs,
  metrics, rules and dashboards arrive, from the addresses that are.

## Modules

| module | models | with |
|---|---|---|
| `RollingOps` | `rolling_ops/v0/rollingops.py` and `_restart` | |
| `RestartLock` | what that library promises, as a lock | `RollingOps` instantiates it with a refinement mapping |
| `Upgrade` | `data_platform_libs/v0/upgrade.py` and `src/upgrade.py` | |
| `Membership` | the hooks of `src/charm.py` that make and unmake the cluster, with the calls of `src/patroni.py` | |
| `AsyncReplication` | `src/relations/async_replication.py` of two clusters | |
| `Backups` | `src/backups.py`, `data_platform_libs/v0/s3.py`, the restore checks of `src/charm.py` | |
| `PeerSecrets` | `get_secret`, `set_secret`, `remove_secret` and `DataPeerData` | |
| `SecretStore` | what these three promise, one value per key | `PeerSecrets` instantiates it with a refinement mapping |
| `ClientRelations` | `postgresql_provider.py`, `db.py`, the observer of authorisation rules, events of `data_interfaces.py` | |
| `Certificates` | `postgresql_tls.py`, `tls_certificates.py` (both sides), `tls_transfer.py`, `certificate_transfer.py` | |
| `Configuration` | `update_config`, `config.py`, worker processes, plugins, `ldap.py` | |
| `LogProxy` | `loki_push_api.py`: the log proxy of a unit and the provider of Loki | |
| `Telemetry` | `prometheus_scrape.py` and `grafana_dashboard.py`, both sides | |
| `Observability` | `LogProxy` and `Telemetry` side by side | instantiates both |
| `RollingOps_proofs`, `Upgrade_proofs`, `Membership_proofs`, `AsyncReplication_proofs`, `Backups_proofs`, `PeerSecrets_proofs`, `ClientRelations_proofs`, `Certificates_proofs` | the theorems about these modules | EXTEND them and TLAPS |

Each is parameterised by constants that bound counters (faults, requests,
scalings) or let a kind of event happen (`May...`); the configurations give them values, and
every module that has constants names its assumption. An operator whose comment says "Mutant" or
"Slip" is not part of the model: it is a plausible bug in the operator after it,
to be put in its place, which shows that a property would notice. `external` in the map stands for
Juju, Kubernetes, Patroni, PostgreSQL, Pebble, the provider of certificates and the
operator, as the charm uses them.

### RollingOps

A hook is several steps: `Begin` reads the bags into `ctx[u]` and
lays the handlers on a stack `todo[u]`; each handler (`OnAcquireLock`,
`OnRelationChanged`, `Process...`, `Run...`, `RestartPostgresql`, `RestartEnds`,
`ReleaseLock`) works on `ctx[u]` and may put the handlers it emits on top, as
`emit()` runs them before it returns; `End` commits. `Crash` and `Refused` drop
the context and make the hook due again. The state of the operations framework is
in Juju, so a deferral is dropped too. A loop over the units is one step with the
outcomes its orders allow (`ProcessHeld`, `ProcessGrant`). `RestartPostgresql`
and `RestartEnds` are apart because the restart takes time: the unit is
`Restarting` between them, and Patroni then shows it as not ready.

Not in the model: `callback_override`, which the charm does not use; statuses; a
relation-changed that shows the unit nothing new.

### Upgrade

A hook is one step, but for pebble-ready: `HealthCheck` patches the partition,
`PebbleReadyEnds` commits the state, and Kubernetes, other hooks or a crash may
come in between. `OnUpgradeChanged` is `on_upgrade_changed` as a function on what
the hook knows, the cached stack included. The template of the stateful set is a
number that a refresh increases (we take it that each changes the template).
`history` variables record which units were found healthy, whether the operator
resumed, and whether this is a rollback.

Patroni moves the primary when its pod goes and when the charm asks for it, not by
itself. The dependencies check and the health check are choices. Not in the
model: the steps from legacy revisions, the "ready" state and the stack of machine charms, the
list of synchronous standbys that `is_no_sync_member` reads.

### Membership

The handling of an event is one step (`OnLeaderElected`, `OnPeerChangedEarly`,
`OnPeerChanged`, `OnPeerDeparted`, `OnPebbleReady`); `Begin` puts the
deferred events and the one of the hook in `todo[u]`. A handler works on a context
(`View`), and then either ends, which commits the bags, or dies, which keeps what it did
to Kubernetes and Patroni alone. That a bag is seen at the end of a handler rather than of the
hook is an abstraction: it lets another unit see the first of two handlers before
the second. Waiting for PostgreSQL inside a handler is a deferral, and the early
returns on a blocked status or a TLS server that is not up are left out. `endpoints` counts
copies, since the list may hold a unit twice.
`AddMembers` is `_add_members` with the outcomes of its loop, which may stop
where a member is found not ready. A member of Patroni's cluster is a labelled pod.

Patroni is outside `src/`: `PostgresUp` starts, copies or bootstraps,
`TakeLock` gives the lock to a running member. `lock = NoUnit` is an object with no
leader annotation, `Absent` no object. Juju elects leaders at any time between the
hooks of the new one, runs leader-elected first, and reuses the name of a removed
unit only when all were told it departed (`AddUnit`). Removal starts
when the cluster is initialised.

### AsyncReplication

Two clusters, "offer" and "consumer", each with its counter in the peer relation (`counter`) and
in the relation with the other (`offered`). `Own`, `Highest` and `PrimaryCluster` are the three
functions that compare them. relation-changed is split by its early returns:
`ChangedIgnored`, `ChangedPrimary`, `ChangedWaits` (data stopped and deleted, then deferred),
`ChangedStarts` (Patroni started as standby leader or replica) and `ChangedStarted`. The
promotion actions take minutes between reading the counters and writing theirs
(`PromoteBegins`, `PromoteEnds`). promote_standby_cluster first removes the standby cluster from Patroni's
configuration (`dcs` is "leaving" until Patroni's leader is a primary, `PatroniPromotes`) and raises RetryError when that
takes more than a minute (patroni.py:523-537). Nobody catches it: the action dies with Patroni changed and the
counters not written (`PromoteDies`, `PromoteDetachedDies`; `unfinished` remembers it). `UpdateConfig` names the
primary cluster that a unit reads to Patroni again and so undoes such a promotion. In `PromoteEnds` Patroni's change
and the counters are one step: an `UpdateConfig` of another unit between the two is left out. `OnBroken`, `OnSecretChanged` and `SetPassword` are one step
each. Data are an identity that replication copies (`Replicate`). The Juju leader of each
cluster stays, and is Patroni's leader.

### Backups

Rounds are numbered by the history variable `rounds`, and each bag remembers the round it is
of. `OnCredentials` is credentials-changed with the trial of the repository and the
stanza on the primary; `OnPeerChanged` has `coordinate_stanza_fields`; `OnGone`, `OnPeerRestoring`, `UpdateStatus`,
`CreateBackup` and `Restore` are the other handlers and actions. A handler is a function on a record
(`Work`) that is then committed, since the same calls are made from several handlers. A repository is this
cluster's own, empty, another cluster's, or denied. Time is a small clock, timelines are numbered, a restore bootstraps
from a backup onto a new one (`Bootstraps`, `BootstrapFails`); the recovery that fails is found by
`CheckFails` and `CheckSucceeds`.

### PeerSecrets

A store is the bag, the secret's label and its content; `work` is what the present hook sees and
`saved` what Juju goes back to. `SetSecret`, `RemoveSecret` and `Get` follow charm.py into the
library: which field goes to the secret, the fall back to the bag, the migration of the label and of the
content by the first write. An upgrade of the charm or of Juju, a leader change and a failed hook are actions. Two keys are
enough: one whose name never changed, and "ca", which is translated to "cauth" in the secret.

### ClientRelations

A hook is `Begin` (it takes the deferred events, then its own), one `Handle` per event and
the rest at its end. `users`, `granted`, `bag`, `hba` and `hash` are what PostgreSQL, the relation and the
units hold; `incidents` are the faults and changes that happened, each at most once. Each pod runs its hooks
whatever the others do: handlers of different units interleave. The observer of authorisation rules is
a process of each unit: `Observe` compares the databases with those it saw (`watched`) and dispatches an event, while
the unit is the primary. It dies (`ObserverDies`) when no member of the cluster answers or patroni.yml cannot be read
(scripts/authorisation_rules_observer.py:42-44, 106-107). `StartObserver` is the part of `__init__`, run by every hook,
that starts another where the unit is active and no process has the pid in the peer bag; that one remembers
nothing (64-65). stop_authorisation_rules_observer is called by nothing. All units learn of
a relation at the same time, and users are replicated at once.

### Certificates

A request is a number, and the name of the certificate for it; `keyOf` is its key. The unit's
bag is the set of its requests, the provider's the sequence of its answers, in order, as the library goes
through them. `Handle` runs an event of the unit: `OnCertificateAvailable`,
`OnCertificateExpiring`, the relation events, the transferred CA, pebble-ready. `UpdateConfig` renders `conf`, and
`serving` is what PostgreSQL shows after the reload or restart that follows.

### Configuration

`config` is what the operator set, `file[u]` the patroni.yml that unit u rendered, `read[u]` what its server has
read of it, `dcs` the value patched in Patroni's configuration of the cluster, `running[u]` what the server was
started with, `hash[u]` the config_hash. `Hook(u)` runs config-changed, peer-changed, pebble-ready, update-status
or an ldap event, each through `UpdateConfig`; `Server(u)` is Patroni's part and the restart. The worker processes are computed as in the source
(`Workers`, `BaseOf`, `ParallelOf`: the values of the options, the caps of `10 * vCores`, and their
interdependence), and plugins are a set with a dependency, enabled in the order in which the code lists them (`Ordered`).

### LogProxy, Telemetry and Observability

In `LogProxy` one unit has a container with the plan, the file, the binary and the clients that promtail
runs with, and Loki units write and withdraw their endpoints. In `Telemetry` each unit writes its
address, and the leader the jobs with the scheme of Patroni's API, the alert rules and the dashboards;
Prometheus and Grafana read them in hooks of their own. `Observability` is both, for which they share
nothing but time: one behaviour is of one of them (`half`), as the product would only
multiply their states.

## Runs

| run | module | instance | states | shows |
|---|---|---|---|---|
| `rolling_faults` | `RollingOps` | N 2, MaxRequests 2, MaxCrashes 1, MaxElections 1, MaxScalings 2; MayDefer, MayAskAgain | 893 926 | Two units, with a crash, a leader change, scaling and callbacks that defer: one grant at a time with the invariant that makes it so, and no restart request lost. |
| `rolling_live` | `RollingOps` | N 3, MaxRequests 2, MaxCrashes 1, MaxElections 0, MaxScalings 0 | 38 521 | Three units and a crash under fair hooks, none asking again before its release is processed: a unit that needs a restart gets one, and the protocol refines a plain lock, restarts never overlapping. |
| `upgrade` | `Upgrade` | N 3, MaxRefreshes 2, MaxFailures 1, MaxRestarts 1, MaxElections 1; MayDefer | 274 939 | Three units, an upgrade and a rollback or a second upgrade, with a failure, a rolling restart and a leader change: the order in which pods move, when the upgrade is declared over, and that it ends. |
| `membership` | `Membership` | N 2, Start 1, Policy Majority, MaxFailures 0, MaxCrashes 0, MaxElections 0, MaxScalings 2, MaxDeaths 1; MayRelease | 17 176 | One unit that is joined by another or left, with a lost pod: every unit becomes a member, the number of synchronous standbys fits, and the deferrals come to an end. |
| `membership_faults` | `Membership` | N 2, Start 2, Policy All, MaxFailures 0, MaxCrashes 1, MaxElections 1, MaxScalings 0, MaxDeaths 1; MayRelease | 321 972 | A leader change, a lost pod and a hook that dies, in any order: the units never hold two different databases. |
| `async` | `AsyncReplication` | K 2, MaxPromotions 2, MaxChanges 1, MaxFailures 1 | 32 147 | Two clusters of two units, two promotions, a removed relation or a changed password, and a failure, such as a promotion that dies after it changed Patroni: one primary cluster, data thrown away only for it, and both end up replicating. |
| `backups` | `Backups` | K 2, MaxRounds 2, MaxChanges 3, MaxBackups 1, MaxIncidents 1; MayLinger | 203 751 | Two units, two rounds of credentials, a backup and restores, with a failure or a change of leader or primary: each round ends with the truth about its repository, and no restore makes a new database. |
| `secrets` | `PeerSecrets` | Values {v1, v2}, Absent absent, Deleted deleted, MaxOperations 4 | 9 338 | Two keys and two values over upgrades of the charm, changes of the leader and hooks that fail: the migrating secrets implement a store of one value per key. |
| `clients` | `ClientRelations` | N 2, R 2, MaxIncidents 2; MayMix | 322 903 | Two units whose hooks overlap and two relations of any endpoints, with two incidents: users live as long as their relation, with the password that was published, every unit lets them in, those that clients make included, and an observer that died is started again. |
| `certificates` | `Certificates` | MaxRequests 5, MaxIncidents 3 | 152 596 | A unit and its provider through relations, expiry, a new key, revocation and restarts: what is served matches the files and the last certificate, and no step goes through plain text. |
| `configuration` | `Configuration` | N 2, MaxChanges 2, MaxIncidents 1, Faults {} | 84 421 | Two units, two changes of the options and one incident: what the units do not refuse ends up running everywhere, and a refused plugin is reported. |
| `observability` | `Observability` | L 2, MaxRelations 2, MaxRestarts 2, MaxOutages 1, MaxScalings 1, MaxMoves 2, N 2, MaxToggles 2, MaxRefreshes 1, MaxIncidents 1 | 300 181 | Promtail with two Loki units, and two units with Prometheus and Grafana, through relations, restarts, moves, an outage, TLS and a refresh: logs, metrics, rules and dashboards arrive where they should. |

The kinds of events that a configuration leaves out (`May...` and `MidHookElection`) are FALSE where they are not named.

Every property has a mutant, an operator of the module that stands for a plausible bug, under which the
run finds it violated (`PROJECT.json`, "mutants").

Why these bounds are enough to meet the interesting cases: two units have a holder or leader,
one that is not, and a second request; one crash and one election
at every point of every hook give each hook a run that was lost and a leader that is
new; two scalings remove a unit and add its namesake. An upgrade needs three units
to have one that goes first (waits for the operator), one in the middle and the last; two refreshes have an
upgrade after another or a rollback. In `Membership` a unit that joins while the other's pod is lost is added late,
and two scalings add and remove. Two units of a cluster have a leader and a replica that wait for each other;
two promotions make a switchover, or a promotion of a cluster that was detached; one failure makes
either of them die. Two rounds of
credentials have one that overtakes another, and the changes left run two restores. Two client relations, of the
same or different endpoints, interfere in user hash, status and the endpoints check; two incidents have
pairs of faults meet, a database that is made and an observer that dies among them. Three incidents in `Certificates` have a renewal meet a new key and a removed
relation. In `Configuration` two changes include a change and its revert, on two units one of which is the
primary. In `Observability` two endpoints have one come and one go.
`CHECK_DEADLOCK FALSE`: with the bounds used up and all done, nothing is left to do.

Fairness. Everywhere: Juju runs the hooks a unit is owed, deferred events with them (`update-status` comes
round every few minutes), handlers end, Kubernetes and Patroni do what they retry for ever.
Strong fairness is used where a step is enabled again and again rather than all the time, because other
hooks of the unit come in between (`Membership`, the deferred relation-changed of `AsyncReplication`) or
the container does (`Certificates`). In `RollingOps` a cluster asked for readiness
again and again is at last found ready, and an application has a leader in the end. In `Upgrade` the
operator, once a refresh was made, resumes and rolls back as the guide says. Nothing is
assumed of faults, which the bounds make stop.

## What does not hold

The passing runs exclude behaviour of the code that breaks the properties; the constant that lets it in is
named where there is one. Each was met while modelling, and TLC shows it when the
constant is raised or the excuse in the property is dropped.

Rolling restarts
- `_restart` defers when not all members are ready (charm.py:1974), the library releases the lock all the same
  (rollingops.py:417), and the deferred event runs without it: two units restart together, against
  rollingops.py:17-19, "no two units execute the restart at the same time" (`RestartsAsLocked` with `MayDefer`).
- The same happens when a unit that released the lock asks again while its grant is still there (`MayAskAgain`, two units, three
  requests): a hook of the leader clears that grant in its copy of the bag and lets the leader restart, and the
  unit, whose new "acquire" next to the old "granted" reads as granted (rollingops.py:177-186), restarts too. Both pass
  `are_all_members_ready` before either has stopped. Also when the leader runs under a grant it has not committed and
  loses the leadership meanwhile, and when a unit is removed and created again while a hook of the leader grants its name.
- `GrantInv` with `MidHookElection`: a unit that becomes leader during its own hook works on a bag it read before.
- A unit removed with the lock: relation-departed is not observed, the next request waits for another
  event on the leader, and the unit that is created under the same name restarts although it never asked.

Upgrade
- pre-upgrade-check goes on when the state of the cluster is "idle", the first of `STATES` that any unit has
  (upgrade.py:637-654, 794): it is accepted in the middle of an upgrade, against "cluster already
  upgrading" (795), and sets the partition back (`MayRepeat`).
- `MayDefer` with two units: a leader that was elected during the upgrade and whose pebble-ready was deferred goes idle
  early; a refresh that follows meets an "idle" cluster and no partition, so pods move out of turn. With three units, as in
  the run, the third holds the upgrade back; the theorems therefore ask for `~MayDefer`.
- A single unit that is refreshed a second time before its upgrade-charm hook is idle before it runs the last template
  (`IdleAgain` with one unit; the theorem asks for two).
- A rolling restart of an upgraded unit calls set_unit_completed again (charm.py:1948-1968), which sets the partition
  to that unit's number minus one, above the partition of later units, although upgrade.py:1081 says that it
  should be decremented. With a failure and rollback the upgrade may not end (excused in `UpgradeEnds`).
- A change of the leader can lose the upgrade-relation-changed that makes it pop the stack (excused in `UpgradeEnds`); a
  new leader whose pebble-ready was deferred reads the old stack and goes idle early (excused in `IdleAgain`).

Membership
- When a pod is gone before its unit's departure is told, the leader takes it for a new member and lists its
  endpoint again (charm.py:840); the departed hook removes one copy, so the other stays on the list.
- The labels of a pod and the list are not written together; if the hook dies, or the patch fails, in between,
  neither is repaired (`MaxCrashes`, `MaxFailures` above 0 break `AllMembers`).
- With two leader changes (`MaxElections`), a unit that is elected handles its deferred pebble-ready before leader-elected:
  it finds itself the leader and `_initialize_cluster` labels its pod (charm.py:1052), though it is not listed. If the
  leader changes again before it lists itself, `_add_members` compares Juju's hosts with the labelled pods only, so the
  unit is never listed (`AllMembers`).
- `OneSystem` with `MayElectEarly`, or with two elections and a lost pod whose primary released the lock (`MayRelease`):
  `_cleanup_old_cluster_resources` deletes the objects of a cluster that lives.
- `Converges` with an election and a lost pod: `fix_leader_annotation` drops
  `cluster_initialised` and no event of the leader follows.
- `SyncFits` when the leader itself is removed (excused): the count is updated by the leader's departed
  hook, and there is none. Under a numeric policy, a list with double entries as well.

Asynchronous replication
- `MayRace`: two promotions at the same time reach the same counter, each side follows the other, and both delete
  their data, which remove-or-recover-a-cluster.md:32-34 does not expect.
- A cluster promoted before it followed: a unit that was stopped stays stopped. A relation removed while
  units are stopped: the data are deleted and nothing starts them (`caught` excuses both in `Settles`).
- A promotion whose promote_standby_cluster runs out of time (patroni.py:534-537, not caught at
  async_replication.py:124-133 and 157-159) dies with Patroni changed and nothing written. In a pair of clusters
  both are then writable until the action is run again, which succeeds, or an update_config makes the cluster a standby
  again. A detached cluster becomes writable and stays marked and blocked as read-only; running the action again
  fails with "No relation and no standby leader found" (`unfinished` in `ReadOnlyMarked` and `Settles`).
- A relation removed between set-password and the consumer's secret-changed leaves the old password in its secret.
- "system-id" is written inside primary-cluster-data and read as a key of its own (line 194).
- relation-created after the promotion takes the highest counter and keeps the old data (542-548).

Backups
- "s3-initialization-done" and "stanza" of an earlier round stay in the unit bag: a primary skips
  the new round, or the leader copies the old result and archives to another cluster's repository (`UpToDate` excuses).
- `MayLinger`: peer-changed configures archiving from the unit's own "stanza" (charm.py:596) and then clears it
  (654-662). With three units, one that was the primary in an earlier round goes on archiving when the present one failed,
  and when it is the primary again, it does so to a repository that may be another cluster's (`ArchivesToOwn`). Nobody
  configures it again until the next change of the peer data.
- A former leader that is blocked for S3 leaves peer-changed early: the new leader's round is never tried.
- `MayRush`: a second restore while the first bootstraps makes `_restart_database` start Patroni on an empty
  volume, which is a new database.
- After a failed backup, ExecError without output and `backups[::-1]` of a dict raise TypeError and the
  connectivity stays off. A "Failed to restore backup" status is never left.
- A restore that gives up leaves restore-stanza, restore-timeline and the on-failure override.
- When the credentials go, the leader does not update the configuration and archiving stays on.
- When the credentials change while a restored database bootstraps, or archiving is off, the new timeline is in no
  repository; a restore to an instant on it, before the first backup of it, takes the timeline before
  (`TimelineOfTarget` therefore asks for an entry that is not later).
- `max(timelines.values())` compares hexadecimal timelines as strings, and fails when there is none.

Secrets
- `MayRemoveOld`: remove_secret deletes only the translated name (charm.py:385-395), get_secret reads the old name
  first (354-367): the removed "ca" is read again (`WritesTake`).

Client relations
- After a change of the leader, a database-requested that was deferred is not run by the new leader: no credentials. One
  deferred until its relation was removed makes a user without a database and blocks the unit.
- Legacy: each unit bag may have another password after a leader change; relation-changed of a relation that was removed
  or refused is deferred for ever; a client blocked for several endpoints is not tried again.
- `MayMissRules`: relations_user_databases_map has only system users when the listing fails (charm.py:2591-2593),
  and a reload that fails is only logged (2402-2406); user_hash is written all the same (`LetInEverywhere`).
- `MayStayUnready`: a legacy relation-departed waits for the database before it sets the flag "departing" (db.py:294-305). Deferred
  in its own hook and once more in that of relation-broken, which then finds the database ready, it comes too late: a
  leader that is removed deletes the user of a relation that goes on (`CredentialsWork`).
- departed reads "allowed_units", which is written as "allowed-units"; a failed delete_user or create_database is never
  retried.
- What an observer finds at its first look is no change to it. A database made between the death of one and the first
  look of the next, or before the first one of a new primary, has its users let in on no unit until an update_config
  for another reason (`missed` in `Settles`). A unit that is blocked starts no observer.

Certificates
- `MayRevokeMidway`: a certificate revoked while a new key waits makes renewals for ever; one revoked before the unit
  saw it is never replaced. `MayRestartMidway`: between set-tls-private-key and its certificate PostgreSQL
  cannot start. `MayOvertake`: a deferred certificate-available after relation-broken turns TLS on again.
- set-tls-private-key and a second relation-joined leave the old request in the bag, and relation-joined overwrites
  the operator's key. request_certificate_revocation is given a certificate for a request (tls_certificates.py:1908, 1950).
  The files stay when the relation goes.
- enable-tls.md names "external-key" and "internal-key"; the code reads "private-key".

Configuration
- config-changed and the ldap handlers ignore the result of update_config, and peer-changed of a blocked unit is not
  deferred: the change is lost ("lost"). The hash is stored although the wait for a pending restart ran
  out ("slow"), or the server was restarted with a later value before a revert ("reverted"). A hook with an old view of the options patches
  an old value ("stale"); units on different nodes overwrite each other's ("uneven").
- After a change of leader or primary between hooks the extensions and the LDAP flag are not applied, ldap-sync is not started
  and the former leader's status stays ("missed"). update-status, pebble-ready and ldap-ready replace the status "Existing objects
  depend on it" although nothing is retried ("hidden").
- Disabling a plugin and the one it depends on in one change fails. A new database with a plugin whose
  dependency is off raises an error that nobody catches.
- config.yaml:45 says "Cannot exceed max_parallel_workers", which nothing enforces; config.yaml:67 that a value
  is capped, where the code raises ValueError.

Observability
- `MayDepartEarly`: relation-departed stops or restarts promtail without asking whether it is in the plan
  (loki_push_api.py:2031-2052, unlike 2017): the hook fails for good.
- A failed download adds the layer without a binary: the binary is not tried again, and the restart at 2026
  raises ChangeError; lines 338-341 promise a PromtailDigestError. `MayCorrupt`: the
  digest of the downloaded file is never compared.
- `MayOverlap`: a leader that changes while Prometheus joins leaves the application bag empty; a leader that is not the
  primary and gets its certificate after it never rewrites the scrape jobs; one that changes during the upgrade
  leaves the old alert rules.

## Proofs

TLAPS proves, for every value of the constants and from the named assumptions alone:

| theorem | states |
|---|---|
| `RollingOps_proofs!TypeCorrect` | `Spec => []TypeOK` |
| `RollingOps_proofs!GrantsKnown`, `GrantsSerialized` | `~MidHookElection => (Spec => []GrantInv)`, and `SingleGrant` |
| `RollingOps_proofs!RestartsKept` | `Spec => []NoRestartForgotten` |
| `RollingOps_proofs!RestartsImplementLock` | `~MayDefer /\ ~MayAskAgain /\ ~MidHookElection`: `Spec /\ [][Orderly]_vars => RestartsAsLocked`, the refinement |
| `Upgrade_proofs!TypeCorrect` | `Spec => []TypeOK` |
| `Upgrade_proofs!InTurn`, `PrimaryIsLast` | `~MayRepeat /\ ~MayDefer`: `Spec => PodsInTurn`, `Spec => PrimaryLast` |
| `Upgrade_proofs!EndsTogether` | the same and `N > 1`: `Spec => IdleAgain` |
| `Membership_proofs!NeverTwoDatabases` | `~MayElectEarly /\ ~MayRelease`: `Spec => []OneSystem` |
| `Membership_proofs!EveryUnitJoins` | the same and no failed call, no hook that dies, no leader change but by removal: `Spec => []Inv`, which is types and `AllMembers` |
| `Membership_proofs!StandbysFit` | `Policy \in {All, Majority}`, no leader change but by removal, no hook that dies: `Spec => SyncFits` |
| `AsyncReplication_proofs!TypeCorrect`, `PrimaryAgreed` | `~MayRace`: `Spec => []TypeOK`, `Spec => []AgreeOnPrimary` |
| `AsyncReplication_proofs!FollowersCopied` | `~MayRace`: `Spec => []Inv`, which is types and `OneDatabase` |
| `AsyncReplication_proofs!DiscardsAreSafe`, `DetachedMarked` | `~MayRace`: `Spec => DiscardsForAPrimary`, `Spec => []ReadOnlyMarked` |
| `Backups_proofs!NeverNew` | `~MayRush => (Spec => []NoNewDatabase)` |
| `Backups_proofs!FailuresSeen` | `~MayRush => (Spec => []Inv)`, which is types and `FailureSeen` |
| `Backups_proofs!TypeCorrect`, `TimelineTaken` | `Spec => []TypeOK`, `Spec => TimelineOfTarget` |
| `Backups_proofs!OutcomeIsPresent` | `Spec => []OutcomeOfRound` |
| `Backups_proofs!RoundsEndWell` | `~MayLinger => (Spec => []RoundOutcome)`, the same and `ArchivesToOwn` |
| `PeerSecrets_proofs!NeverTwice` | `Spec => []Inv` |
| `PeerSecrets_proofs!StoreImplemented` | `~MayRemoveOld => (Spec => ImplementsStore)`, the refinement |
| `PeerSecrets_proofs!WritesAreRead` | `~MayRemoveOld => (Spec => WritesTake)` |
| `PeerSecrets_proofs!IntactUntilWrite` | `Spec => KeptUntilWrite` |
| `ClientRelations_proofs!CredentialsStay` | `~MayStayUnready => (Spec => []CredentialsWork)` |
| `ClientRelations_proofs!LetInFirst` | `~MayMissRules => (Spec => []LetInEverywhere)` |
| `ClientRelations_proofs!StatusesHaveReasons` | `Spec => []Inv`, which is types and `BlockedForAReason` |
| `Certificates_proofs!NeverPlainText` | `~MayOvertake`: `Spec => StaysOn` |
| `Certificates_proofs!KeysFit` | `~MayOvertake /\ ~MayRestartMidway`: `Spec => []Inv`, which is types and `FilesMatch` |

The conditions are those without which TLC refutes the property (see above). Three are there for the
proof: `~MayRelease` in `EveryUnitJoins`, which builds on `OneSystem` (with `MayRelease` the run `membership` finds
nothing against `AllMembers`), and in `StandbysFit` that no hook dies, as what a dead hook leaves to be handled is a
`SelectSeq`, which is recursive, and that the leader stays: three units with one leader change, or one hook that dies,
give no counterexample. Where the bounds are small enough for a property to hold without its condition, as for
one leader change with `MayRelease` in `membership_faults`, the run covers what the theorem does not. `rolling_live`
has two requests and `MayAskAgain` matters from three on, `backups` two units and `MayLinger` matters from three on.

- `SingleGrant` is not inductive: a leader in a hook may hold a grant in its
  context, and would commit it next to another. `GrantInv` adds what it knows
  (`LeaderView`): outside the keys it wrote its copy of the application bag is the
  bag, as nobody else may write it; within the units it lists one grant at most
  will result, and the units it does not list (they joined after it began) have none. Units
  with an inherited grant are set apart, as `Add` may make any number. The step
  that needs care is `Elect`: a new leader must not have a hook open, hence the condition.
- `NoRestartForgotten` is about the times between hooks. `RestartInv` says for each stack of
  handlers what a unit that needs a restart still has: an "acquire" in its context that no later handler on
  the stack will overwrite, a deferral, or a hook to be run again.
- `RestartsAsLocked`: a step of the protocol is a step of `RestartLock` or none, and what has to be shown is that no unit starts
  while another restarts (`OneActive`). `LockInv` relates four copies of a lock: the bags, what its unit knows in a hook
  (`InHook`), what the leader in a hook knows (`Sees`) and the stack of handlers, one of a dozen (`Shapes`). A unit in
  `_on_run_with_lock` has its grant in the bag, or is the leader; the leader's copy lacks a grant that the bag has only
  where it read "release", and such a unit has nothing left to run and cannot ask again (`Spent`). `Orderly` is the
  condition on Juju that the constants do not state: a leader stays one until its hook ends, and no unit is
  created under the name of a removed one. Without deferrals no run is ever skipped, which the proof shows too.
- The upgrade: `OrderInv` says, of a rollout that is under way (`TurnInv`), that a recreated unit has only healthy ones above it,
  that those below the highest are not recreated before resume-upgrade, and that the partition lets Kubernetes go no further
  than the unit below the last healthy one. For that it needs what the others say of themselves: a unit that is still to be
  recreated is idle or recovering, and one that completed is healthy (`StatesInv`), also when its pebble-ready is about to
  say so (`VerdictInv`); a stack while all are idle is that of a pre-upgrade-check, with the primary on unit 0 (`IdleInv`);
  before resume-upgrade at most the highest unit is off the stack (`StackInv`); the primary leaves unit 0 when unit 1 is
  done (`PrimaryInv`). `BottomInv`, for `IdleAgain`, adds that the last unit is on the stack until all are recreated. Lemmas
  say what a stack is after it is popped.
- `OneSystem` from `Single`: the configuration object of Patroni names the one system there is, whoever has the lock; before
  the cluster is initialised only the leader has a system or was started at all, which is why the leader may
  delete the objects then. `~MayRelease` keeps the leader object from naming nobody, on which `fix_leader_annotation` would have
  the cluster initialised again.
- `AllMembers` from `JoinInv`: a unit that is not a member is not forgotten (`NobodyForgotten`), because the leader has still to
  handle leader-elected or a change of the relation, or the unit its own pebble-ready, after which it labels itself or writes
  `config_hash` and so tells the leader. For that a labelled pod is listed, or is the leader's (`LabelsListed`), the leader
  is listed or about to be (`LeaderListed`), and before the cluster is initialised the others wait (`OthersWait`). What each
  handler may do to the list, the labels and the queue is one lemma (`Handled`); what it leaves for later another (`Follows`).
- `SyncFits` from `StandbyInv`: while the leader stays, what Patroni was told fits the number of units, or the leader has still to
  hear of a departure, and then tells Patroni again or defers (`Tells`). Failed calls, lost pods and released locks do not
  matter. That `SyncFits` speaks of a leader that is never removed is a hypothesis of the temporal step.
- `AgreeOnPrimary` follows from `CountersInv`: related clusters have in the relation the counter of their peer
  relation, different ones once there is a primary, and an action under way goes above both. It needs the types, and
  these need `SharedInv`: the password that the consumer takes is there when it takes it.
- `OneDatabase` from `CopyInv`: a unit that is stopped with data of its own, or that starts, does so only where the data of the two leaders
  agree (`CopiedInv`); a leader without data is about to copy from the other one, which has some (`DataInv`); what a unit
  follows is never a counter of the future (`FollowedInv`). `DiscardsForAPrimary` is the step that deletes, read against
  `DataInv`. `MarkInv`: once the relation has ended, every leader that ran relation-broken has the mark that its
  counter asks for, and every database runs, unless the end caught one; a mark goes only with the standby cluster it
  is for, or stays after an action that died, and Patroni leaves a standby cluster only in these ways (`LeavingInv`).
- `NoNewDatabase` from `RestoreInv`: the volume is empty exactly while the restored database is not there, the fields of the
  restore are then set, and a recovery that failed is known, or will be, before another restore clears them. The
  handlers that every hook shares are lemmas on the record they work on (`Handled`). `FailureSeen` is part of it.
- `TimelineOfTarget`: the cluster goes through the timelines 1, 2, ... in order (`ActiveInv`), and an entry of a repository is
  of the timeline of its instant, unless the repository was another cluster's from the start and has that cluster's
  backup only (`EntriesInv`). So the last entry before the target lies between one of the target's timeline and the target.
  That a set of entries has a last one is induction: it is taken from the least-element theorem of the library
  (`WFMin` with `NatLessThanWellFounded`), whose parameters are sets.
- `RoundOutcome`: what says in a bag that it is of the present round suits the repository (`OutcomeInv`; in the application bag
  as far as a restore has not taken the message away). A unit that archives to a repository
  that does not suit has a peer-changed to come, in which it configures itself again (`ArchivesInv`); every handler that ends
  a round on its own unit has configured it with what it then writes (`Clear`). Without `~MayLinger` that
  fails where a unit clears its fields after it configured itself with them.
- The secrets: `Good` says of a store that a value is in one place and under the right name, and every
  migration keeps it, so that a read before and after a migration is the same (`ValueIn`); `OneCa`, which needs
  `~MayRemoveOld`, that the old name never covers a later value.
- `CredentialsWork` rests on two orders. A request is in the queues of the units once, is emitted only for a relation
  whose data the leader then saves, and nothing is published before it is handled (`OnceInv`, `RequestInv`): the first
  password that is published is the last. And a unit that is removed handles relation-departed, which sets its flag,
  before it sees relations end that go on for the others (`LeaveInv`). That event may be deferred, but then it comes
  before the relation-broken that is due, and without `MayStayUnready` it is not deferred again. `LetInEverywhere`
  adds that a hash names nobody whom the unit does not let in (`FilesInv`), so that `Synced` means what the leader
  takes it for. `RolesInv` and `EndpointsInv`, for the statuses, say of a unit that still has something to do that the
  hook which ends the relation in question is on its way. `MayMix` is free in all three,
  `MayStayUnready` in the last two; the incidents are those of the model, each once.
- TLS: the request in use is signed with the key in use (`RequestInv`). Where the unit has no relation, and no hook that says
  that it is broken is on its way, all is off and no event is on its way that turns it on (`RelationInv`); so what is
  on where the relation is there is on because of a certificate the unit has, or is about to be given again by
  a hook that died (`OnInv`), and no update of the configuration can find it missing (`StaysOn`). `FilesMatch`, from `FilesInv`,
  needs that the service is not started between a new key and its certificate, `FitsInv`: the certificate is of the key and no
  key is on its way, or the service runs and no pebble-ready is on its way. What each handler
  does to the queues of events, to the files and to the configuration are lemmas of their own.

Each inductive invariant was checked by TLC before it was proved; its conclusion is checked in the runs. Only
model-checked: liveness (`RestartHappens`, `UpgradeEnds`, `Converges`, `Settles`, `BothEnd`, `AppliedInTheEnd`,
`ExtensionsInTheEnd`, `Delivers`), which is beyond the prover; `SyncFits` under a numeric policy, whose
count adds up the list, by induction; and all of `Configuration` and `Observability`. `Certificates` says which certificates answer a request by
what the result is (`Answers`) rather than with `SelectSeq`, which is recursive and of which nothing can be proved.

## Not modelled

- The architecture check (no state), unit statuses, logs and rendered text, except where a property is about a
  block message; the SQL of the client library beyond users, databases and extensions.
- The parts of the libraries that this charm does not use: the machine-charm upgrade, the other data
  interfaces (Kafka, OpenSearch, requirer sides that the charm never instantiates), the aggregators of Prometheus and
  Grafana, LogForwarder.
- `_on_stop` and the removal of the last unit, Kubernetes services, get-primary, list-backups and other actions
  that only read, the version in the client bags.
- In `AsyncReplication`: scaling, a change of the Juju leader, a replica that takes Patroni's lead while the
  objects are deleted. In `ClientRelations`: read-only endpoints; units that learn of a
  relation at different times; replication lag. In `Upgrade`: migration from legacy revisions.
- Time-outs are choices: a wait that can run out ends either way.
