----------------------------- MODULE Membership -----------------------------
(***************************************************************************)
(* How units become members of the PostgreSQL cluster and cease to be:     *)
(* src/charm.py, with the parts of src/patroni.py that it calls.           *)
(*                                                                         *)
(* The Juju leader bootstraps PostgreSQL, marks the cluster initialised in *)
(* the data bag of the application, and adds the other units to the list   *)
(* of endpoints in that bag while it labels their pods; a labelled pod is  *)
(* a member of the Patroni cluster.  It takes units that departed off the  *)
(* list, and tells Patroni how many synchronous standbys to keep.          *)
(*                                                                         *)
(* A hook first emits the deferred events again (todo); the handling of an *)
(* event is one step.  Labels and Patroni's configuration change at once;  *)
(* the data bags do when the handler ends, not at all when it dies.        *)
(***************************************************************************)
EXTENDS Integers, Sequences, FiniteSetsExt, SequencesExt

CONSTANTS
    N,              \* the most units the application ever has
    Start,          \* the units it is deployed with
    All, Majority,  \* "all" and "majority"
    Policy,         \* synchronous_node_count: All, Majority or a number
    MaxFailures,    \* failed calls of the Kubernetes API
    MaxCrashes,     \* hooks that die half way
    MaxElections,   \* changes of the Juju leader
    MaxScalings,    \* units added or removed
    MaxDeaths,      \* pods that are deleted
    MayElectEarly,  \* the leader may change before the cluster is initialised
    MayRelease      \* a primary whose pod is deleted may release the lock

ASSUME MembershipAssumption ==
    /\ N \in Nat \ {0} /\ Start \in 1 .. N
    /\ {All, Majority} \cap Nat = {} /\ Policy \in {All, Majority} \cup (Nat \ {0})
    /\ {MaxFailures, MaxCrashes, MaxElections, MaxScalings, MaxDeaths} \subseteq Nat
    /\ {MayElectEarly, MayRelease} \subseteq BOOLEAN

Units == 0 .. N - 1
NoUnit == -1
\* The object that holds the lock of Patroni's leader does not exist.
Absent == -2

Events == {"elected", "ready", "changed", "departed"}

VARIABLES
    scale,        \* units 0 .. scale - 1 are planned, and exist
    leader,       \* the Juju leader, or NoUnit
    endpoints,    \* peer relation, application bag: the copies of each unit in the list
    initialised,  \* same bag: "cluster_initialised"
    configured,   \* the units with "config_hash" in their own bag
    labelled,     \* the pods with the labels of the Patroni cluster
    started,      \* the units whose Patroni was started
    running,      \* those whose PostgreSQL answers
    system,       \* the database system in the volume of each unit, 0 for none
    lock,         \* the unit that Patroni's leader object names
    key,          \* the database system that Patroni's configuration object names
    sync,         \* synchronous_node_count and synchronous_mode_strict in it
    due,          \* the hooks Juju owes to a unit
    departed,     \* the units whose departure it has not been told of
    deferred,     \* the events it deferred, oldest first
    todo,         \* the events that the hook it is running has still to handle
    failures, crashes, elections, scalings, deaths   \* counters for the bounds

juju == <<scale, leader>>
databags == <<endpoints, initialised, configured>>
patroni == <<started, running, system, lock, key>>
events == <<due, departed, deferred, todo>>
counters == <<failures, crashes, elections, scalings, deaths>>
vars == <<juju, databags, labelled, patroni, sync, events, counters>>

Present == 0 .. scale - 1

\* The values that lists, labels, Patroni's objects and hooks take.
TypeOK ==
    /\ scale \in 1 .. N
    /\ leader \in Present \cup {NoUnit}
    /\ endpoints \in [Units -> Nat]
    /\ initialised \in BOOLEAN
    /\ configured \subseteq Present
    /\ labelled \subseteq Present
    /\ running \subseteq started /\ started \subseteq Present
    /\ system \in [Units -> Nat]
    /\ lock \in Units \cup {NoUnit, Absent}
    /\ key \in Nat
    /\ sync \in [count : Nat, strict : BOOLEAN]
    /\ due \in [Units -> SUBSET Events]
    /\ departed \in [Units -> SUBSET Units]
    /\ \A u \in Units :
          /\ deferred[u] \in Seq(Events)
          /\ todo[u] \in Seq(Events)

\* A deployment: the first leader is elected, the containers come up.
Init ==
    /\ scale = Start
    /\ leader \in 0 .. Start - 1
    /\ endpoints = [u \in Units |-> 0]
    /\ initialised = FALSE
    /\ configured = {}
    /\ labelled = {} /\ started = {} /\ running = {}
    /\ system = [u \in Units |-> 0]
    /\ lock = Absent /\ key = 0
    /\ sync = [count |-> 0, strict |-> FALSE]
    /\ due = [u \in Units |-> IF u = leader THEN {"elected", "ready"}
                              ELSE IF u < Start THEN {"ready"} ELSE {}]
    /\ departed = [u \in Units |-> {}]
    /\ deferred = [u \in Units |-> <<>>]
    /\ todo = [u \in Units |-> <<>>]
    /\ failures = 0 /\ crashes = 0 /\ elections = 0 /\ scalings = 0 /\ deaths = 0

-----------------------------------------------------------------------------
(* Hooks. *)

\* "other": any hook that only emits the deferred events again (update-status).
\* Juju runs leader-elected before any other hook.
\* A unit stays in the relation, for u, until u is told that it departed.
Begin(u, e) ==
    /\ u \in Present /\ todo[u] = <<>>
    /\ IF e = "other" THEN deferred[u] # <<>> ELSE e \in due[u]
    /\ "elected" \in due[u] => e = "elected"
    /\ todo' = [todo EXCEPT ![u] = deferred[u] \o IF e = "other" THEN <<>> ELSE <<e>>]
    /\ deferred' = [deferred EXCEPT ![u] = <<>>]
    /\ \E x \in IF e = "departed" THEN departed[u] ELSE {NoUnit} :
          /\ departed' = [departed EXCEPT ![u] = @ \ {x}]
          /\ due' = [due EXCEPT ![u] =
                        (@ \ {e}) \cup IF departed'[u] = {} THEN {} ELSE {"departed"}]
    /\ UNCHANGED <<juju, databags, labelled, patroni, sync, counters>>

\* What a handler reads and writes: the units it lists, the application bag,
\* whether it wrote "config_hash", and whether it defers the event.
View(u) == [hosts |-> Present \cup departed[u], endpoints |-> endpoints,
            init |-> initialised, configured |-> FALSE, again |-> FALSE]

\* The event comes again when the handler deferred it.  When it died it comes again with
\* those that were to follow, and what was written is lost.
Again(u, e) == [deferred EXCEPT ![u] = IF e \in Range(@) THEN @ ELSE Append(@, e)]
AllAgain(u) ==
    [deferred EXCEPT ![u] = @ \o SelectSeq(todo[u], LAMBDA e : e \notin Range(deferred[u]))]

HandlerEnds(u, c) ==
    /\ endpoints' = c.endpoints
    /\ initialised' = c.init
    /\ configured' = IF c.configured THEN configured \cup {u} ELSE configured
    /\ deferred' = IF c.again THEN Again(u, Head(todo[u])) ELSE deferred
    /\ todo' = [todo EXCEPT ![u] = Tail(@)]
    /\ due' = [x \in Units |-> IF x \in Present \ {u} /\ databags' # databags
                               THEN due[x] \cup {"changed"} ELSE due[x]]
    /\ UNCHANGED crashes

HandlerDies(u) ==
    /\ crashes < MaxCrashes /\ crashes' = crashes + 1
    /\ deferred' = AllAgain(u)
    /\ todo' = [todo EXCEPT ![u] = <<>>]
    /\ UNCHANGED <<databags, due>>

-----------------------------------------------------------------------------
(* The list, the labels, and Patroni's configuration. *)

Listed(c) == {x \in Units : c.endpoints[x] > 0}

\* _update_endpoints, which does nothing on a unit that is not the leader.
AddEndpoints(c, A) ==
    [c EXCEPT !.endpoints = [x \in Units |-> c.endpoints[x] + IF x \in A THEN 1 ELSE 0]]

\* Mutant: the endpoints to remove are not looked for in the list.
RemoveAbsent(u, c) ==
    [c EXCEPT !.endpoints = [x \in Units |->
        IF leader = u /\ x \notin c.hosts THEN c.endpoints[x] - 1 ELSE c.endpoints[x]]]

\* One copy of every endpoint that is no host's is removed.
RemoveGone(u, c) ==
    IF leader = u
    THEN [c EXCEPT !.endpoints = [x \in Units |->
              IF x \in Listed(c) \ c.hosts THEN c.endpoints[x] - 1 ELSE c.endpoints[x]]]
    ELSE c

Defer(c) == [c EXCEPT !.again = TRUE]

MembersCount(c) == FoldFunction(+, 0, c.endpoints)

\* _synchronous_node_count.  scale is Juju's planned units.
SyncCount(c) ==
    IF Policy = All THEN scale - 1
    ELSE IF Policy = Majority THEN scale \div 2
    ELSE IF Policy < MembersCount(c) - 1 THEN Policy ELSE scale - 1

\* Patched through the Patroni of u: by update_config, when its PostgreSQL runs,
\* and by update_synchronous_node_count.
SyncConfig(c) ==
    [count |-> SyncCount(c), strict |-> MembersCount(c) > 1 /\ SyncCount(c) > 0]

CanPatch(u) == u \in running

\* The unit that the primary endpoint leads to answers.
PrimaryEndpointReady == lock \in running

AllMembersReady == labelled \subseteq running /\ PrimaryEndpointReady

Outcome(c, l, y, f, ok) == [ctx |-> c, labelled |-> l, sync |-> y, fails |-> f, ok |-> ok]

\* Mutant: the event is not deferred.
AddDropped(c) == Outcome(c, labelled, sync, 0, TRUE)

\* A member is not ready: the addition is put off.
AddLater(c) == Outcome(Defer(c), labelled, sync, 0, TRUE)

\* What _add_members may make of the context c: members are added until one is
\* found not to be ready.  A pod may fail to get its labels, or be gone.
AddMembers(u, c) ==
    LET missing == c.hosts \ labelled
        Added(A, F) ==
            LET d == AddEndpoints(c, A)
                l == labelled \cup ((A \ F) \cap Present)
            IN  IF A = missing /\ CanPatch(u)
                THEN Outcome(d, l, SyncConfig(d), Cardinality(F), TRUE)
                ELSE Outcome(Defer(d), l, sync, Cardinality(F), TRUE)
    IN  IF leader # u \/ ~c.init \/ (c.hosts = labelled /\ started # {})
        THEN {Outcome(c, labelled, sync, 0, TRUE)}
        ELSE IF started = {} \/ (missing # {} /\ ~AllMembersReady)
        THEN {AddLater(c)}
        ELSE UNION {{Added(A, F) : F \in SUBSET (A \cap Present)} :
                      A \in {B \in SUBSET missing : B # {} \/ missing = {}}}

\* _initialize_cluster: ok when it returns true.
Initialize(u, c) ==
    LET l == labelled \cup {u} IN
    {Outcome(c, labelled, sync, 1, FALSE), Outcome(c, l, sync, 1, FALSE)}
    \cup {IF PrimaryEndpointReady
          THEN Outcome([c EXCEPT !.init = TRUE], l, sync, 0, TRUE)
          ELSE Outcome(Defer(c), l, sync, 0, FALSE)}

\* u handles its next event e, to the outcome r.
Takes(u, e, r) ==
    /\ todo[u] # <<>> /\ Head(todo[u]) = e
    /\ labelled' = r.labelled
    /\ sync' = r.sync
    /\ failures + r.fails <= MaxFailures /\ failures' = failures + r.fails
    /\ HandlerEnds(u, r.ctx) \/ HandlerDies(u)
    /\ UNCHANGED <<juju, departed, elections, scalings, deaths>>

\* update_config on a unit whose PostgreSQL runs.
Configured(r) ==
    Outcome([r.ctx EXCEPT !.configured = TRUE], r.labelled, SyncConfig(r.ctx), r.fails, r.ok)

-----------------------------------------------------------------------------
(* The handlers. *)

\* The objects of Patroni, of an earlier deployment, are deleted.
CleanupOldClusterResources(c) ==
    [lock |-> IF c.init THEN lock ELSE Absent, key |-> IF c.init THEN key ELSE 0]

\* A leader object that names nobody is to name u, and the cluster is to be
\* initialised again: c after it is found so.
FixLeaderAnnotation(u, c) ==
    IF ~c.init \/ lock # NoUnit THEN c
    ELSE IF leader = u THEN [c EXCEPT !.init = FALSE] ELSE Defer(c)

\* The leader lists itself, deletes the objects of Patroni while the cluster is not
\* initialised, repairs the leader object, and lists who is there.
OnLeaderElected(u) ==
    LET c == View(u)
        listed == IF leader = u /\ u \notin Listed(c) THEN AddEndpoints(c, {u}) ELSE c
        fixed == FixLeaderAnnotation(u, listed)
        objects == CleanupOldClusterResources(c)
    IN  /\ lock' = IF objects.lock = NoUnit THEN u ELSE objects.lock
        /\ key' = objects.key
        /\ \E r \in {Outcome(fixed, labelled, sync, 1, FALSE)}
                    \cup AddMembers(u, RemoveGone(u, fixed)) :
              Takes(u, "elected", r)
        /\ UNCHANGED <<started, running, system>>

\* Before the cluster is initialised.
OnPeerChangedEarly(u) ==
    LET c == View(u) IN
    /\ ~c.init
    /\ \E r \in IF leader = u THEN Initialize(u, c)
                ELSE {Outcome(c, labelled, sync, 0, FALSE)} :
          Takes(u, "changed", IF r.ok THEN [r EXCEPT !.ctx = Defer(@)] ELSE r)
    /\ UNCHANGED patroni

OnPeerChanged(u) ==
    LET c == View(u) IN
    /\ c.init
    /\ \E r \in AddMembers(u, c) :
          Takes(u, "changed",
                IF u \notin Listed(r.ctx) THEN r
                ELSE IF u \in running THEN Configured(r)
                ELSE [r EXCEPT !.ctx = Defer(@)])
    /\ UNCHANGED patroni

\* Mutant: Patroni is not told.
DepartedUntold(u) ==
    LET c == View(u)
        d == IF leader # u THEN c
             ELSE IF ~c.init \/ ~CanPatch(u) THEN Defer(c)
             ELSE RemoveGone(u, c)
    IN  /\ Takes(u, "departed", Outcome(d, labelled, sync, 0, TRUE))
        /\ UNCHANGED patroni

OnPeerDeparted(u) ==
    LET c == View(u) IN
    /\ Takes(u, "departed",
             IF leader # u THEN Outcome(c, labelled, sync, 0, TRUE)
             ELSE IF ~c.init \/ ~CanPatch(u)
             THEN Outcome(Defer(c), labelled, sync, 0, TRUE)
             ELSE Outcome(RemoveGone(u, c), labelled, SyncConfig(c), 0, TRUE))
    /\ UNCHANGED patroni

\* Mutant: replicas do not wait.
MayStartAtOnce(u, c) == TRUE

\* Replicas wait for the cluster to be initialised.
MayStart(u, c) == leader = u \/ c.init

\* A listed unit labels its own pod.
FixPod(u, c) ==
    IF u \notin Listed(c) THEN {Outcome(c, labelled, sync, 0, TRUE)}
    ELSE {Outcome(c, labelled \cup {u}, sync, 0, TRUE), Outcome(c, labelled, sync, 1, TRUE)}

\* Patroni is started; then its PostgreSQL is
\* waited for, on the leader the cluster initialised, and update_config run.
OnPebbleReady(u) ==
    LET c == View(u)
        up == MayStart(u, c) /\ u \in running
    IN  /\ started' = IF MayStart(u, c) THEN started \cup {u} ELSE started
        /\ \/ /\ ~up
              /\ \E r \in FixPod(u, c) : Takes(u, "ready", [r EXCEPT !.ctx = Defer(@)])
           \/ /\ up
              /\ \E r \in IF leader = u THEN Initialize(u, c) ELSE FixPod(u, c) :
                    Takes(u, "ready", IF r.ok THEN Configured(r) ELSE r)
        /\ UNCHANGED <<running, system, lock, key>>

-----------------------------------------------------------------------------
(* Patroni, which no action of the charm waits for but through the tests above. *)

\* PostgreSQL comes up on u: on the data in its volume, unless it is of another
\* system than the cluster's; on a copy of the primary; or, when no cluster is
\* there, as a new one.
PostgresUp(u) ==
    /\ u \in started \ running
    /\ \/ /\ system[u] # 0 /\ key \in {0, system[u]}
          /\ UNCHANGED <<system, key, lock>>
       \/ /\ system[u] = 0 /\ key # 0 /\ lock \in running /\ system[lock] = key
          /\ system' = [system EXCEPT ![u] = key]
          /\ UNCHANGED <<key, lock>>
       \/ /\ system[u] = 0 /\ key = 0
          /\ system' = [system EXCEPT ![u] = 1 + Max({system[v] : v \in Units})]
          /\ key' = system'[u]
          /\ lock' = u
    /\ running' = running \cup {u}
    /\ UNCHANGED <<juju, databags, labelled, started, sync, events, counters>>

\* The lock of a primary that stopped goes to another member; a running primary
\* restores the objects that were deleted.
TakeLock(u) ==
    /\ u \in running \cap labelled /\ lock \notin running
    /\ key \in {0, system[u]}
    /\ lock' = u
    /\ key' = system[u]
    /\ UNCHANGED <<juju, databags, labelled, started, running, system, sync, events, counters>>

-----------------------------------------------------------------------------
(* Juju and Kubernetes. *)

Elect(u) ==
    /\ u \in Present /\ leader # u /\ todo[u] = <<>>
    /\ initialised \/ MayElectEarly
    /\ IF leader = NoUnit THEN UNCHANGED elections
       ELSE elections < MaxElections /\ elections' = elections + 1
    /\ leader' = u
    /\ due' = [due EXCEPT ![u] = @ \cup {"elected"}]
    /\ UNCHANGED <<scale, databags, labelled, patroni, sync, departed, deferred, todo,
                   failures, crashes, scalings, deaths>>

\* The pod of u is deleted and comes again, without its labels, its volume kept.
\* A primary may release the lock before.
PodDies(u) ==
    /\ u \in Present /\ todo[u] = <<>>
    /\ deaths < MaxDeaths /\ deaths' = deaths + 1
    /\ labelled' = labelled \ {u}
    /\ started' = started \ {u}
    /\ running' = running \ {u}
    /\ lock' = lock \/ (MayRelease /\ lock = u /\ lock' = NoUnit)
    /\ due' = [x \in Units |-> IF x = u THEN due[x] \cup {"ready"}
                               ELSE IF x \in Present THEN due[x] \cup {"changed"} ELSE due[x]]
    /\ UNCHANGED <<juju, databags, system, key, sync, departed, deferred, todo,
                   failures, crashes, elections, scalings>>

\* Patroni.switchover, to whom Patroni chooses
Switchover(x) == lock = x /\ AllMembersReady /\ lock' \in labelled \ {x}

\* The last unit is removed, its volume too.  When it is the primary it hands the
\* lock over first if all members are ready, and takes those that departed off the
\* list (pgdata-storage-detaching).
RemoveUnit ==
    LET x == scale - 1 IN
    /\ scale > 1 /\ initialised /\ todo[x] = <<>>
    /\ scalings < MaxScalings /\ scalings' = scalings + 1
    /\ scale' = x
    /\ leader' = IF leader = x THEN NoUnit ELSE leader
    /\ \/ UNCHANGED <<lock, endpoints>>
       \/ /\ Switchover(x)
          /\ endpoints' = RemoveGone(x, View(x)).endpoints
    /\ labelled' = labelled \ {x}
    /\ started' = started \ {x}
    /\ running' = running \ {x}
    /\ system' = [system EXCEPT ![x] = 0]
    /\ configured' = configured \ {x}
    /\ due' = [u \in Units |-> IF u = x THEN {}
                               ELSE IF u > x THEN due[u]
                               ELSE due[u] \cup {"departed"} \cup
                                    IF endpoints' # endpoints THEN {"changed"} ELSE {}]
    /\ departed' = [u \in Units |-> IF u = x THEN {}
                                    ELSE IF u < x THEN departed[u] \cup {x} ELSE departed[u]]
    /\ deferred' = [deferred EXCEPT ![x] = <<>>]
    /\ UNCHANGED <<initialised, key, sync, todo, failures, crashes, elections, deaths>>

\* A unit is added, once every other knows that its last namesake departed.
AddUnit ==
    /\ scale < N /\ \A u \in Units : scale \notin departed[u]
    /\ scalings < MaxScalings /\ scalings' = scalings + 1
    /\ scale' = scale + 1
    /\ due' = [u \in Units |-> IF u = scale THEN {"ready"}
                               ELSE IF u < scale THEN due[u] \cup {"changed"} ELSE due[u]]
    /\ UNCHANGED <<leader, databags, labelled, patroni, sync, departed, deferred, todo,
                   failures, crashes, elections, deaths>>

Handlers(u) ==
    \/ OnLeaderElected(u) \/ OnPeerChangedEarly(u) \/ OnPeerChanged(u)
    \/ OnPeerDeparted(u) \/ OnPebbleReady(u)

Unit(u) ==
    \/ \E e \in Events : Begin(u, e)
    \/ Handlers(u)
    \/ PostgresUp(u) \/ TakeLock(u)

Next ==
    \/ \E u \in Units : Unit(u) \/ Begin(u, "other") \/ Elect(u) \/ PodDies(u)
    \/ RemoveUnit
    \/ AddUnit

Spec == Init /\ [][Next]_vars

\* Juju dispatches each hook in the end, and update-status for ever; Patroni acts.
Fairness ==
    \A u \in Units :
        /\ WF_vars(Handlers(u))
        /\ \A e \in Events \cup {"other"} : SF_vars(Begin(u, e))
        /\ WF_vars(PostgresUp(u)) /\ WF_vars(TakeLock(u))
        /\ WF_vars(leader = NoUnit /\ Elect(u))

FairSpec == Spec /\ Fairness

-----------------------------------------------------------------------------
(* Properties. *)

\* Nothing is left to do but what an event to come may start.
Quiet ==
    /\ leader # NoUnit /\ initialised
    /\ \A u \in Present : due[u] = {} /\ deferred[u] = <<>> /\ todo[u] = <<>>

\* There is one database: the volumes of no two units hold different systems
\* (_on_postgresql_pebble_ready: "Otherwise, each unit will create a different
\* cluster").
OneSystem ==
    \A u, v \in Present : system[u] # 0 /\ system[v] # 0 => system[u] = system[v]

\* Every unit ends up in the list, and its pod in the cluster (_add_members).
AllMembers ==
    Quiet => Present \subseteq labelled /\ \A u \in Present : endpoints[u] > 0

\* TypeOK and AllMembers.
Inv == TypeOK /\ AllMembers

\* Patroni is never left to wait for more standbys than there are, and a lone unit
\* can commit, as long as the Juju leader is not the unit that is removed
\* (_on_peer_relation_departed, update_config).
SyncFits ==
    [](leader # NoUnit) =>
        [](Quiet => sync.count <= scale - 1 /\ (sync.strict => scale > 1))

\* Once the faults are over every event is handled, and the units are the members
\* for good (the deferrals of _add_members, _on_peer_relation_changed and
\* _on_postgresql_pebble_ready).
Converges == <>[](Quiet /\ Present \subseteq running \cap labelled)
=============================================================================
