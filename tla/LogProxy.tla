------------------------------ MODULE LogProxy ------------------------------
(***************************************************************************)
(* The forwarding of PostgreSQL's logs to Loki: LogProxyConsumer of        *)
(* lib/charms/loki_k8s/v1/loki_push_api.py, as charm.py instantiates it,   *)
(* and the LokiPushApiProvider at the other end of the relation.           *)
(*                                                                         *)
(* Each Loki unit writes its endpoint into its bag, their leader where     *)
(* promtail can be downloaded into the application's.  A unit of           *)
(* PostgreSQL installs promtail in its workload container, writes its      *)
(* configuration and adds it to the container's plan.  A restart of the    *)
(* container loses all three.  The units do not interact: the module has   *)
(* one, and the relation ("limit: 1") it has at most once.                 *)
(*                                                                         *)
(* An exception leaves a hook failed; Juju retries it before any other.    *)
(***************************************************************************)
EXTENDS Naturals, FiniteSets

CONSTANTS
    L,              \* Loki units 0 .. L - 1
    None,           \* nothing there
    MaxRelations,   \* relations with Loki, one after another
    MaxRestarts,    \* restarts of the workload container
    MaxOutages,     \* downloads that fail
    MaxScalings,    \* Loki units that leave while the relation stays
    MaxMoves,       \* Loki units put behind the ingress they share
    MayCorrupt,     \* a download may bring another file than was asked for
    MayDepartEarly  \* a Loki unit may leave a unit whose plan lacks promtail

LokiUnits == 0 .. L - 1
Ingress == L
URLs == LokiUnits \cup {Ingress}      \* a unit's own URL, and the ingress

VARIABLES
    related,     \* "no", "yes", or "dying": removed, the last hooks not yet run
    loki,        \* the Loki units in the relation
    endpoint,    \* their bags: "endpoint"
    zipUrl,      \* Loki's application bag has "promtail_binary_zip_url"
    seen,        \* relation.units: the Loki units whose joined hook has run here
    due,         \* hooks owed to the unit: "created", "changed", "ready"
    failing,     \* the hook that failed, to be retried
    connected,   \* container.can_connect()
    cached,      \* promtail in the charm's container: None, "good" or "bad"
    binary,      \* promtail in the workload's container
    plan,        \* "promtail" is in the container's plan
    file,        \* the clients in promtail's configuration file
    running,     \* the clients promtail runs with
    relations, restarts, outages, scalings, moves   \* counters for the bounds

remote == <<related, loki, endpoint, zipUrl>>
hooks == <<seen, due, failing>>
workload == <<connected, cached, binary, plan, file, running>>
counters == <<relations, restarts, outages, scalings, moves>>
vars == <<remote, hooks, workload, counters>>

Clients == SUBSET (LokiUnits \X URLs)
Hooks == {"created", "changed", "ready"}
Files == {None, "good", "bad"}

-----------------------------------------------------------------------------
\* Mutant: a client for each unit.
EveryEndpoint(units) == {<<l, endpoint[l]>> : l \in {m \in units : endpoint[m] # None}}

\* ConsumerBase.loki_endpoints: one client for each URL, though several units
\* of Loki advertise it.
loki_endpoints(units) ==
    {<<l, endpoint[l]>> : l \in {m \in units :
        /\ endpoint[m] # None
        /\ \A k \in units : k < m => endpoint[k] # endpoint[m]}}

\* promtail exits at once when two of its clients are the same.
Starts(bin, clients) ==
    /\ bin = "good"
    /\ \A c, d \in clients : c[2] = d[2] => c = d

\* The hook may run: no failed one is in its way.
May(h) == failing = None /\ h \in due

Entered == related # "no" /\ "created" \notin due

\* What a download brings.
Fetched ==
    {"good"} \cup (IF outages < MaxOutages THEN {None} ELSE {})
             \cup (IF MayCorrupt THEN {"bad"} ELSE {})

\* _promtail_must_be_downloaded
MustBeDownloaded == cached # "good"

\* _obtain_promtail: downloaded, or pushed from the charm's container.
Obtain ==
    IF MustBeDownloaded
    THEN \E f \in Fetched :
            /\ binary' = f
            /\ cached' = IF f = None THEN cached ELSE f
            /\ outages' = outages + (IF f = None THEN 1 ELSE 0)
    ELSE binary' = cached /\ UNCHANGED <<cached, outages>>

\* _ensure_promtail_binary: an installed file is kept whatever it holds, and a
\* download that fails is only reported.
EnsureBinary == IF binary # None THEN UNCHANGED <<cached, binary, outages>> ELSE Obtain

\* Mutant: the service is started unless it runs.
Started(clients) ==
    running' = IF running # None THEN running
               ELSE IF Starts(binary', clients) THEN clients ELSE None

\* container.restart, of a service in the plan: the running one is stopped first.
Restarted(clients) ==
    running' = IF Starts(binary', clients) THEN clients ELSE None

AddPebbleLayer == plan' = TRUE

\* _setup_promtail: the failed start is caught.
Setup(units) ==
    IF ~zipUrl THEN UNCHANGED <<cached, binary, plan, file, running, outages>>
    ELSE LET clients == loki_endpoints(units)
         IN  /\ EnsureBinary
             /\ file' = clients
             /\ AddPebbleLayer
             /\ IF clients = {} THEN UNCHANGED running ELSE Restarted(clients)

\* _promtail_config, pushed when it differs from the file's
Push(clients) == file' = clients

\* _on_relation_changed: sets promtail up unless it is in the plan, else writes
\* its configuration and restarts it; that failure is not caught.
OnChanged(units) ==
    LET clients == loki_endpoints(units)
    IN  IF ~connected
        THEN failing' = None /\ UNCHANGED <<cached, binary, plan, file, running, outages>>
        ELSE IF ~plan THEN failing' = None /\ Setup(units)
        ELSE /\ Push(clients)
             /\ UNCHANGED <<cached, binary, plan, outages>>
             /\ IF clients = {} THEN failing' = None /\ UNCHANGED running
                ELSE /\ Restarted(clients)
                     /\ failing' = IF running' = None THEN "changed" ELSE None

\* _on_relation_departed: like it, but does not ask for the plan first.  The
\* relation is still there: its first branch is never taken.
OnDeparted(units) ==
    LET clients == loki_endpoints(units)
    IN  IF ~connected
        THEN failing' = None /\ UNCHANGED <<cached, binary, plan, file, running, outages>>
        ELSE /\ Push(clients)
             /\ UNCHANGED <<cached, binary, plan, outages>>
             /\ IF clients = {} THEN running' = None ELSE Restarted(clients)
             /\ failing' = IF ~plan \/ (clients # {} /\ running' = None)
                           THEN "departed" ELSE None

-----------------------------------------------------------------------------
Init ==
    /\ related = "no" /\ loki = {} /\ zipUrl = FALSE
    /\ endpoint = [l \in LokiUnits |-> None]
    /\ seen = {} /\ due = {} /\ failing = None
    /\ connected = TRUE /\ plan = FALSE
    /\ cached = None /\ binary = None /\ file = None /\ running = None
    /\ relations = 0 /\ restarts = 0 /\ outages = 0 /\ scalings = 0 /\ moves = 0

\* LogProxyConsumer._on_relation_created
RelationCreated ==
    /\ May("created")
    /\ due' = due \ {"created"}
    /\ IF connected THEN Setup(seen)
       ELSE UNCHANGED <<cached, binary, plan, file, running, outages>>
    /\ UNCHANGED <<remote, seen, failing, connected, relations, restarts, scalings, moves>>

\* Of a Loki unit that joins, or of any when a bag of theirs changed.
RelationChanged ==
    /\ related = "yes" /\ Entered /\ failing = None
    /\ \/ /\ May("changed")
          /\ due' = due \ {"changed"}
          /\ UNCHANGED seen
       \/ \E l \in loki \ seen :
             /\ seen' = seen \cup {l}
             /\ UNCHANGED due
    /\ OnChanged(seen')
    /\ UNCHANGED <<remote, connected, relations, restarts, scalings, moves>>

RelationDeparted(l) ==
    /\ failing = None
    /\ l \in seen \ loki
    /\ MayDepartEarly \/ ~connected \/ plan
    /\ seen' = seen \ {l}
    /\ OnDeparted(seen')
    /\ UNCHANGED <<remote, due, connected, relations, restarts, scalings, moves>>

\* Juju runs the hook that failed again.
Retry ==
    /\ \/ failing = "changed" /\ OnChanged(seen)
       \/ failing = "departed" /\ OnDeparted(seen)
    /\ UNCHANGED <<remote, seen, due, connected, relations, restarts, scalings, moves>>

\* The bags of a relation that is gone
Gone == zipUrl' = FALSE /\ endpoint' = [l \in LokiUnits |-> None]

\* relation-broken has no handler.
RelationBroken ==
    /\ related = "dying" /\ seen = {} /\ failing = None
    /\ related' = "no" /\ Gone
    /\ UNCHANGED <<loki, hooks, workload, counters>>

\* _on_pebble_ready
PebbleReady ==
    /\ May("ready") /\ connected
    /\ due' = due \ {"ready"}
    /\ IF related # "no" /\ Entered THEN Setup(seen)
       ELSE UNCHANGED <<cached, binary, plan, file, running, outages>>
    /\ UNCHANGED <<remote, seen, failing, connected, relations, restarts, scalings, moves>>

\* The workload's container restarts, alone or with its pod.
ContainerRestarts ==
    /\ connected /\ restarts < MaxRestarts
    /\ restarts' = restarts + 1
    /\ connected' = FALSE /\ plan' = FALSE
    /\ binary' = None /\ file' = None /\ running' = None
    /\ cached' \in {cached, None}
    /\ due' = due \cup {"ready"}
    /\ UNCHANGED <<remote, seen, failing, relations, outages, scalings, moves>>

ContainerUp ==
    /\ ~connected
    /\ connected' = TRUE
    /\ UNCHANGED <<remote, hooks, cached, binary, plan, file, running, counters>>

-----------------------------------------------------------------------------
\* The Loki side.
Relate ==
    /\ related = "no" /\ relations < MaxRelations
    /\ relations' = relations + 1
    /\ related' = "yes"
    /\ loki' \in SUBSET LokiUnits \ {{}}
    /\ due' = due \cup {"created"}
    /\ UNCHANGED <<endpoint, zipUrl, seen, failing, workload, restarts, outages, scalings, moves>>

\* LokiPushApiProvider._on_logging_relation_joined, of their leader
PublishesZip ==
    /\ related = "yes" /\ loki # {} /\ ~zipUrl
    /\ zipUrl' = TRUE
    /\ due' = due \cup {"changed"}
    /\ UNCHANGED <<related, loki, endpoint, seen, failing, workload, counters>>

\* update_endpoint, of each relation-changed: the unit's own URL unless the
\* charm has given another.
UpdateEndpoint(l) ==
    /\ related = "yes" /\ l \in loki /\ endpoint[l] = None
    /\ endpoint' = [endpoint EXCEPT ![l] = l]
    /\ due' = due \cup {"changed"}
    /\ UNCHANGED <<related, loki, zipUrl, seen, failing, workload, counters>>

\* update_endpoint(url), of the Loki charm: the URL sticks.
Moves(l) ==
    /\ related = "yes" /\ l \in loki /\ endpoint[l] # Ingress
    /\ moves < MaxMoves /\ moves' = moves + 1
    /\ endpoint' = [endpoint EXCEPT ![l] = Ingress]
    /\ due' = due \cup {"changed"}
    /\ UNCHANGED <<related, loki, zipUrl, seen, failing, workload, relations, restarts, outages, scalings>>

Joins(l) ==
    /\ related = "yes" /\ l \notin loki \cup seen
    /\ loki' = loki \cup {l}
    /\ endpoint' = [endpoint EXCEPT ![l] = None]
    /\ UNCHANGED <<related, zipUrl, hooks, workload, counters>>

\* promtail is in the plan, or will be before a departure is seen.
Installed == zipUrl /\ Entered /\ (plan \/ "ready" \in due)

\* Its bag can be read until the unit has seen it depart.
Leaves(l) ==
    /\ related = "yes" /\ l \in loki /\ loki # {l}
    /\ MayDepartEarly \/ Installed
    /\ scalings < MaxScalings /\ scalings' = scalings + 1
    /\ loki' = loki \ {l}
    /\ UNCHANGED <<related, endpoint, zipUrl, hooks, workload, relations, restarts, outages, moves>>

\* The relation is removed, before this unit entered it or after.
Unrelate ==
    /\ related = "yes"
    /\ \/ ~Entered /\ related' = "no" /\ Gone
       \/ /\ Entered /\ (MayDepartEarly \/ Installed)
          /\ related' = "dying"
          /\ UNCHANGED <<zipUrl, endpoint>>
    /\ loki' = {}
    /\ due' = due \ {"created", "changed"}
    /\ UNCHANGED <<seen, failing, workload, counters>>

Hook ==
    \/ RelationCreated \/ RelationChanged \/ Retry \/ RelationBroken \/ PebbleReady
    \/ \E l \in LokiUnits : RelationDeparted(l)

Next ==
    \/ Hook \/ ContainerRestarts \/ ContainerUp
    \/ Relate \/ Unrelate \/ PublishesZip
    \/ \E l \in LokiUnits : UpdateEndpoint(l) \/ Moves(l) \/ Joins(l) \/ Leaves(l)

Spec == Init /\ [][Next]_vars

\* Juju runs every hook that is due, on both sides; Kubernetes starts the
\* container again.
Fairness ==
    /\ WF_vars(Hook) /\ WF_vars(ContainerUp) /\ WF_vars(PublishesZip)
    /\ \A l \in LokiUnits : WF_vars(RelationDeparted(l)) /\ WF_vars(UpdateEndpoint(l))
    /\ WF_vars(RelationChanged) /\ WF_vars(PebbleReady)

FairSpec == Spec /\ Fairness

-----------------------------------------------------------------------------
TypeOK ==
    /\ related \in {"no", "yes", "dying"} /\ loki \subseteq LokiUnits
    /\ endpoint \in [LokiUnits -> URLs \cup {None}] /\ zipUrl \in BOOLEAN
    /\ seen \subseteq LokiUnits /\ due \subseteq Hooks
    /\ failing \in {None, "changed", "departed"}
    /\ {connected, plan} \subseteq BOOLEAN /\ {cached, binary} \subseteq Files
    /\ {file, running} \subseteq Clients \cup {None}
    /\ relations \in 0 .. MaxRelations /\ restarts \in 0 .. MaxRestarts
    /\ scalings \in 0 .. MaxScalings /\ moves \in 0 .. MaxMoves
    /\ outages \in 0 .. MaxOutages

\* promtail runs with the configuration that is on file and with clients to
\* push to: whichever hook changed the file also restarted or stopped it, so
\* that logs never go on to an endpoint that was taken away.
RunsItsFile == running # None => plan /\ running = file /\ running # {}

\* A hook of the integration fails, and with it every later hook of the unit
\* waits, only where a download of promtail has failed: no join, departure,
\* restart or change of URLs, in any order, raises by itself.
OnlyOutagesFail == failing # None => outages > 0

\* TypeOK, and the two above.
Inv == TypeOK /\ RunsItsFile /\ OnlyOutagesFail

\* The unit pushes its logs to each URL the Loki units advertise, and to none
\* when there is no relation.
Pushes ==
    /\ connected
    /\ IF related = "yes"
       THEN running # None /\ {c[2] : c \in running} = {endpoint[l] : l \in loki}
       ELSE running = None

\* However the container restarts and the Loki units come, move and go, a unit
\* ends up pushing its logs to exactly the endpoints of Loki, unless promtail
\* could not be downloaded: then nothing tries again (_on_relation_changed
\* finds promtail in the plan), and a hook may fail for good.
Ships == <>[](Pushes \/ failing # None \/ (plan /\ binary = None))
=============================================================================
