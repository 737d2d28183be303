--------------------------- MODULE Observability ---------------------------
(***************************************************************************)
(* The two halves of the charm's observability: the logs it pushes to Loki *)
(* (LogProxy) and the metrics, alert rules and dashboards it offers to     *)
(* Prometheus and Grafana (Telemetry).  The charm instantiates both in its *)
(* __init__; they share no state, no relation and no handler.  A behaviour *)
(* is one of either: what the one does, the other neither sees nor undoes. *)
(***************************************************************************)
EXTENDS Naturals, FiniteSets

CONSTANTS
    L, MaxRelations, MaxRestarts, MaxOutages, MaxScalings, MaxMoves,
    MayCorrupt, MayDepartEarly,
    N, MaxToggles, MaxRefreshes, MaxIncidents, MayRelateBoth, MayOverlap,
    None

ASSUME ObservabilityAssumption ==
    /\ {L, N} \subseteq Nat \ {0}
    /\ {MaxRelations, MaxRestarts, MaxOutages, MaxScalings, MaxMoves} \subseteq Nat
    /\ {MaxToggles, MaxRefreshes, MaxIncidents} \subseteq Nat
    /\ {MayCorrupt, MayDepartEarly, MayRelateBoth, MayOverlap} \subseteq BOOLEAN

VARIABLES
    half,     \* the half this behaviour is about
    related, loki, endpoint, zipUrl, seen, owed, failing, connected, cached,
    binary, plan, file, running, relations, restarts, outages, scalings, moves,
    leader, primary, wanted, files, ssl, up, revision, rev, address, due,
    prometheus, grafana, unitBag, appBag, dashboards, scraped, rules, shown,
    toggles, incidents

Logs == INSTANCE LogProxy WITH due <- owed
Metrics == INSTANCE Telemetry

logs == <<related, loki, endpoint, zipUrl, seen, owed, failing, connected, cached,
          binary, plan, file, running, relations, restarts, outages, scalings, moves>>
metrics == <<leader, primary, wanted, files, ssl, up, revision, rev, address, due,
             prometheus, grafana, unitBag, appBag, dashboards, scraped, rules, shown,
             toggles, incidents>>
vars == <<half, logs, metrics>>

Init == half \in {"logs", "metrics"} /\ Logs!Init /\ Metrics!Init

LogsNext == half = "logs" /\ Logs!Next /\ UNCHANGED <<half, metrics>>
MetricsNext == half = "metrics" /\ Metrics!Next /\ UNCHANGED <<half, logs>>

Next == LogsNext \/ MetricsNext

Spec == Init /\ [][Next]_vars

\* What each half may rely on; the one that does not move has nothing to do.
FairSpec == Spec /\ Logs!Fairness /\ Metrics!Fairness

-----------------------------------------------------------------------------
\* The invariants of both: promtail runs with the clients on file and no hook
\* fails but for an outage (LogProxyConsumer), and no two jobs of Prometheus
\* collide (MetricsEndpointConsumer).
Inv == Logs!Inv /\ Metrics!Inv

\* In the end each unit pushes its logs to exactly the endpoints of Loki, and
\* Prometheus and Grafana have every unit as it is and the rules and dashboards
\* of the revision deployed (LogProxy's Ships, Telemetry's Settles).
Delivers == Logs!Ships /\ Metrics!Settles
=============================================================================
