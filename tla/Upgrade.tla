------------------------------- MODULE Upgrade -------------------------------
(***************************************************************************)
(* The in-place upgrade on Kubernetes: DataUpgrade of                      *)
(* lib/charms/data_platform_libs/v0/upgrade.py as PostgreSQLUpgrade        *)
(* (src/upgrade.py) specialises it.                                        *)
(*                                                                         *)
(* pre-upgrade-check builds the stack of units still to upgrade and sets   *)
(* the partition of the stateful set to its highest unit.  `juju refresh`  *)
(* changes the pod template: Kubernetes recreates, highest first, the pods *)
(* at or above the partition.  A recreated unit declares itself upgrading, *)
(* then, its workload healthy, completed, and lowers the partition to the  *)
(* unit below it; the leader takes completed units off the stack.  The     *)
(* operator alone lets the second unit go (resume-upgrade), and rolls back *)
(* when a unit failed.                                                     *)
(*                                                                         *)
(* A hook is one step, except that pebble-ready patches the stateful set   *)
(* (HealthCheck) before what it writes can be seen (PebbleReadyEnds).      *)
(***************************************************************************)
EXTENDS Integers, Sequences, SequencesExt

CONSTANTS
    N,              \* units 0 .. N - 1
    MaxRefreshes,   \* uses of `juju refresh`, rollbacks included
    MaxFailures,    \* failed version checks, health checks, partition patches
    MaxRestarts,    \* rolling restarts of upgraded units during an upgrade
    MaxElections,   \* changes of the Juju leader
    MayRepeat,      \* pre-upgrade-check and resume-upgrade may be run again during
                    \* an upgrade
    MayDefer        \* pebble-ready may be deferred up to an upgrade-relation-changed

ASSUME UpgradeAssumption ==
    /\ N \in Nat \ {0}
    /\ {MaxRefreshes, MaxFailures, MaxRestarts, MaxElections} \subseteq Nat
    /\ {MayRepeat, MayDefer} \subseteq BOOLEAN

Units == 0 .. N - 1
Highest == N - 1

\* DataUpgrade.STATES: the state of the cluster is the first that a unit has.
\* "ready" is of machine charms only.
States == <<"recovery", "failed", "idle", "upgrading", "completed">>

VARIABLES
    leader,      \* the Juju leader
    state,       \* upgrade relation, unit bags: "state"
    stack,       \* upgrade relation, application bag: "upgrade-stack"
    deps,        \* same bag: "dependencies", as the template they were read in
    template,    \* the pod template of the stateful set, counting refreshes
    pod,         \* the template each pod was made from
    partition,   \* of the stateful set
    primary,     \* the unit whose PostgreSQL is the primary
    charmDue,    \* the units owed an upgrade-charm hook
    pebbleDue,   \* the units owed a pebble-ready hook, or that deferred it
    notify,      \* the units owed an upgrade-relation-changed hook
    verdict,     \* what the running pebble-ready hook of a unit will write
    checked,     \* history: the units found healthy on their present pod
    resumed,     \* history: resume-upgrade was accepted since the last refresh
    rollback,    \* history: the last refresh was a rollback
    failures, restarts, elections   \* counters for the bounds

databags == <<state, stack, deps>>
kubernetes == <<template, pod, partition>>
due == <<charmDue, pebbleDue, notify>>
counters == <<failures, restarts, elections>>
history == <<checked, resumed, rollback>>
vars == <<leader, databags, kubernetes, primary, due, verdict, history, counters>>

-----------------------------------------------------------------------------
StateIndex(s) == CHOOSE i \in DOMAIN States : States[i] = s

ClusterState(st) ==
    CHOOSE s \in {st[u] : u \in Units} :
        \A v \in Units : StateIndex(s) <= StateIndex(st[v])

IsIdle == \A u \in Units : state[u] = "idle"

\* Types; the stack, which repairs add to and completions pop, names no unit twice.
TypeOK ==
    /\ leader \in Units
    /\ state \in [Units -> {States[i] : i \in DOMAIN States}]
    /\ stack \in Seq(Units) /\ IsInjective(stack)
    /\ template \in 0 .. MaxRefreshes
    /\ deps \in 0 .. template
    /\ pod \in [Units -> 0 .. template]
    /\ partition \in Units
    /\ primary \in Units
    /\ charmDue \subseteq Units
    /\ pebbleDue \subseteq Units
    /\ notify \subseteq Units
    /\ verdict \in [Units -> {"none", "completed", "failed"}]
    /\ checked \subseteq Units
    /\ resumed \in BOOLEAN /\ rollback \in BOOLEAN
    /\ \A c \in {failures, restarts, elections} : c \in Nat

\* A fresh deployment: every unit has run upgrade-relation-created.
Init ==
    /\ leader \in Units
    /\ state = [u \in Units |-> "idle"]
    /\ stack = <<>>
    /\ deps = 0
    /\ template = 0
    /\ pod = [u \in Units |-> 0]
    /\ partition = 0
    /\ primary \in Units
    /\ charmDue = {} /\ pebbleDue = {} /\ notify = {}
    /\ verdict = [u \in Units |-> "none"]
    /\ checked = {}
    /\ resumed = FALSE /\ rollback = FALSE
    /\ failures = 0 /\ restarts = 0 /\ elections = 0

-----------------------------------------------------------------------------
(* on_upgrade_changed, as a function of what its hook knows: the stack it   *)
(* has cached, the stack in the data bag, the states, the dependencies.     *)

Completed(st, s) == {i \in DOMAIN s : \A j \in i .. Len(s) : st[s[j]] = "completed"}

\* Mutant: the unit on top is taken off whatever its state.
UndoneBlindly(st, s) == Front(s)

\* The stack without the completed units on top of it.
Undone(st, s) == SubSeq(s, 1, Len(s) - Cardinality(Completed(st, s)))

\* No stack (left): a completed unit becomes idle.
Settle(u, k) ==
    IF k.state[u] = "completed" /\ ClusterState(k.state) \in {"idle", "completed"}
    THEN [k EXCEPT !.state[u] = "idle", !.deps = IF u = leader THEN pod[u] ELSE @]
    ELSE k

\* The unit on top is popped off the cached stack whatever its state; the
\* leader writes the stack back, and goes on, when it was completed.
OnUpgradeChanged(u, k) ==
    LET rest == Undone(k.state, k.cache) IN
    IF ClusterState(k.state) = "failed" THEN k
    ELSE IF k.cache = <<>> THEN Settle(u, k)
    ELSE IF u # leader \/ rest = k.cache THEN [k EXCEPT !.cache = Front(@)]
    ELSE IF rest = <<>> THEN Settle(u, [k EXCEPT !.cache = rest, !.stack = rest])
    ELSE [k EXCEPT !.cache = Front(rest), !.stack = rest]

Known(st) == [cache |-> stack, stack |-> stack, state |-> st, deps |-> deps]

\* The hook of u writes what it knows; the others hear of it.  heard: the hook
\* is upgrade-relation-changed itself.
Write(u, k, heard) ==
    /\ state' = [state EXCEPT ![u] = k.state[u]]
    /\ stack' = k.stack
    /\ deps' = k.deps
    /\ notify' = (IF heard THEN notify \ {u} ELSE notify)
                 \cup (IF databags' # databags THEN Units \ {u} ELSE {})

\* No hook of the unit is running, nor due before the others.
Free(u) == verdict[u] = "none" /\ u \notin charmDue

UpgradeRelationChanged(u) ==
    /\ u \in notify /\ Free(u)
    /\ Write(u, OnUpgradeChanged(u, Known(state)), TRUE)
    /\ UNCHANGED <<leader, kubernetes, primary, charmDue, pebbleDue, verdict, history, counters>>

-----------------------------------------------------------------------------
(* The actions of the operator, run on the leader. *)

\* Mutant: the partition is left where it was.
FirstPartitionForgotten == partition
\* Mutant: the primary stays where it is.
NoSwitchover == UNCHANGED primary

\* _set_first_rolling_update_partition
FirstPartition == Highest

\* pre_upgrade_check passes once unit 0 is the primary, after a switchover if it
\* was a synchronous standby.
UnitZeroPrimary == primary' = 0

\* What the check asks for beside (ready members, no backup) leaves no trace here.
PreUpgradeCheck ==
    /\ Free(leader) /\ ClusterState(state) = "idle"
    /\ MayRepeat \/ (IsIdle /\ charmDue = {} /\ \A u \in Units : pod[u] = template)
    /\ UnitZeroPrimary
    /\ partition' = FirstPartition
    /\ Write(leader, [Known(state) EXCEPT !.stack = [i \in 1 .. N |-> i - 1]], FALSE)
    /\ UNCHANGED <<leader, template, pod, charmDue, pebbleDue, verdict, history, counters>>

\* Mutant: the units that are still in the stack are put in again.
RepairedTwice ==
    IF stack = <<>> \/ Range(stack) = Units THEN {stack}
    ELSE {Front(stack) \o s \o <<Last(stack)>> : s \in SetToSeqs(Units)}

\* The stacks that _repair_upgrade_stack may build: the units that are not in it
\* go, in the order of a set, right below the top.
Repaired ==
    LET missing == Units \ Range(stack) IN
    IF stack = <<>> \/ missing = {} THEN {stack}
    ELSE {Front(stack) \o s \o <<Last(stack)>> : s \in SetToSeqs(missing)}

\* pre-upgrade-check after a failure, once Juju and Kubernetes have no pod left
\* to set up.
EnterRecovery ==
    /\ Free(leader) /\ ClusterState(state) = "failed"
    /\ charmDue \cup pebbleDue = {} /\ \A u \in Units : u >= partition => pod[u] = template
    /\ \E s \in Repaired :
          Write(leader, [Known([state EXCEPT ![leader] = "recovery"]) EXCEPT !.stack = s],
                FALSE)
    /\ UNCHANGED <<leader, kubernetes, primary, charmDue, pebbleDue, verdict, history, counters>>

ResumeUpgrade ==
    /\ Free(leader) /\ (MayRepeat \/ partition = Highest)
    /\ stack # <<>> /\ Len(stack) = N - 1
    /\ partition' = Last(stack)
    /\ resumed' = TRUE
    /\ UNCHANGED <<leader, databags, template, pod, primary, due, verdict, checked, rollback, counters>>

\* `juju refresh`, to upgrade after a successful check or to roll back.  (The
\* bound keeps one for each failure to come.)
Refresh ==
    /\ template < MaxRefreshes
    /\ \/ /\ IsIdle /\ stack # <<>> /\ \A u \in Units : pod[u] = template
          /\ template < MaxRefreshes - (MaxFailures - failures)
       \/ ClusterState(state) = "recovery"
    /\ template' = template + 1
    /\ resumed' = FALSE
    /\ rollback' = (ClusterState(state) = "recovery")
    /\ UNCHANGED <<leader, databags, pod, partition, primary, due, verdict, checked, counters>>

-----------------------------------------------------------------------------
(* Kubernetes and Juju. *)

\* The stateful set controller goes down from the highest pod to the partition.
\* Patroni elects another primary when it loses its own.
RecreatePod(u) ==
    /\ pod[u] # template /\ u >= partition
    /\ \A v \in Units : v > u => pod[v] = template
    /\ pod' = [pod EXCEPT ![u] = template]
    /\ IF u = primary /\ N > 1 THEN primary' \in Units \ {u} ELSE UNCHANGED primary
    /\ charmDue' = charmDue \cup {u}
    /\ pebbleDue' = pebbleDue \cup {u}
    /\ verdict' = [verdict EXCEPT ![u] = "none"]
    /\ checked' = checked \ {u}
    /\ UNCHANGED <<leader, databags, template, partition, notify, resumed, rollback, counters>>

Elect(u) ==
    /\ u # leader /\ elections < MaxElections
    /\ verdict[leader] = "none"
    /\ leader' = u
    /\ elections' = elections + 1
    /\ UNCHANGED <<databags, kubernetes, primary, due, verdict, history,
                   failures, restarts>>

-----------------------------------------------------------------------------
(* The recreated unit. *)

Fails == failures < MaxFailures /\ failures' = failures + 1

\* The highest unit also checks that the stored dependencies allow the upgrade.
UpgradeCharm(u) ==
    /\ u \in charmDue
    /\ charmDue' = charmDue \ {u}
    /\ \/ stack = <<>> /\ UNCHANGED <<databags, notify, failures>>
       \/ /\ stack # <<>>
          /\ \/ /\ Write(u, Known([state EXCEPT ![u] = "upgrading"]), FALSE)
                /\ UNCHANGED failures
             \/ /\ u = Highest /\ Fails
                /\ Write(u, Known([state EXCEPT ![u] = "failed"]), FALSE)
    /\ UNCHANGED <<leader, kubernetes, primary, pebbleDue, verdict, history,
                   restarts, elections>>

\* Mutant: the first unit does not wait for the operator.
LowersAtOnce(u) == u # 0

\* _on_upgrade_finished: not on the unit that goes first, nor on the last.
Lowers(u) == u \notin {0, Highest}

\* Mutant: the next partition is read off the stack.
CompleteByStack(u) ==
    \/ /\ verdict' = [verdict EXCEPT ![u] = "completed"]
       /\ partition' = IF Lowers(u) /\ stack # <<>> THEN Last(stack) ELSE partition
       /\ UNCHANGED failures
    \/ /\ Lowers(u) /\ Fails
       /\ verdict' = [verdict EXCEPT ![u] = "failed"]
       /\ UNCHANGED partition

\* set_unit_completed up to the patch of the partition, which may be refused.
Complete(u) ==
    \/ /\ verdict' = [verdict EXCEPT ![u] = "completed"]
       /\ partition' = IF Lowers(u) THEN u - 1 ELSE partition
       /\ UNCHANGED failures
    \/ /\ Lowers(u) /\ Fails
       /\ verdict' = [verdict EXCEPT ![u] = "failed"]
       /\ UNCHANGED partition

\* _handle_label_change: unit 1 moves the primary, from unit 0 that is still to
\* upgrade; that this failed is only logged.
LabelChange(u) == IF u = 1 THEN primary' \in Units ELSE UNCHANGED primary

\* The test of pebble-ready: the member is in the cluster and replicates.
HealthCheck(u) ==
    /\ u \in pebbleDue /\ Free(u)
    /\ state[u] \in {"upgrading", "recovery"}
    /\ Complete(u)
    /\ checked' = checked \cup {u}
    /\ LabelChange(u)
    /\ UNCHANGED <<leader, databags, template, pod, due, resumed, rollback,
                   restarts, elections>>

\* The rest of the hook.  On the leader the completion emits
\* upgrade-relation-changed, seeing the unit completed even when the patch then
\* fails.  When the event had been deferred, the hook that emits it again may
\* be upgrade-relation-changed itself, whose handlers find the stack as the
\* first run left it in the cache.
PebbleReadyEnds(u) ==
    LET k == Known([state EXCEPT ![u] = "completed"])
        k1 == IF u = leader THEN OnUpgradeChanged(u, k) ELSE k
        k2 == IF verdict[u] = "failed"
              THEN [k1 EXCEPT !.state[u] = "failed", !.cache = IF u = leader THEN k1.stack ELSE @]
              ELSE k1
    IN  /\ verdict[u] # "none"
        /\ \/ Write(u, k2, FALSE)
           \/ MayDefer /\ u \in notify \cap pebbleDue /\ Write(u, OnUpgradeChanged(u, k2), TRUE)
        /\ verdict' = [verdict EXCEPT ![u] = "none"]
        /\ pebbleDue' = pebbleDue \ {u}
        /\ UNCHANGED <<leader, kubernetes, primary, charmDue, history, counters>>

\* The hook dies after the patch: it is run again.
PebbleReadyCrashes(u) ==
    /\ verdict[u] # "none" /\ Fails
    /\ verdict' = [verdict EXCEPT ![u] = "none"]
    /\ UNCHANGED <<leader, databags, kubernetes, primary, due, history,
                   restarts, elections>>

\* The six attempts are over.
Unhealthy(u) ==
    /\ u \in pebbleDue /\ Free(u)
    /\ state[u] \in {"upgrading", "recovery"}
    /\ Fails
    /\ Write(u, Known([state EXCEPT ![u] = "failed"]), FALSE)
    /\ pebbleDue' = pebbleDue \ {u}
    /\ UNCHANGED <<leader, kubernetes, primary, charmDue, verdict, history,
                   restarts, elections>>

\* Any other pebble-ready.
PebbleReadyIgnored(u) ==
    /\ u \in pebbleDue /\ Free(u)
    /\ state[u] \notin {"upgrading", "recovery"}
    /\ pebbleDue' = pebbleDue \ {u}
    /\ UNCHANGED <<leader, databags, kubernetes, primary, charmDue, notify, verdict,
                   history, counters>>

\* _reset_upgrade_statuses, at the end of a rolling restart: a completed unit,
\* other than the highest, completes once more.
Restarted(u) ==
    /\ restarts < MaxRestarts /\ restarts' = restarts + 1
    /\ Free(u) /\ u \notin pebbleDue
    /\ state[u] = "completed" /\ (u # Highest \/ N = 1)
    /\ Complete(u)
    /\ UNCHANGED <<leader, databags, template, pod, primary, due, history,
                   elections>>

Unit(u) ==
    \/ UpgradeRelationChanged(u) \/ UpgradeCharm(u) \/ HealthCheck(u)
    \/ PebbleReadyEnds(u) \/ PebbleReadyIgnored(u)

Operator == PreUpgradeCheck \/ EnterRecovery \/ ResumeUpgrade \/ Refresh

Next ==
    \/ Operator
    \/ \E u \in Units :
          \/ Unit(u) \/ RecreatePod(u) \/ Elect(u)
          \/ PebbleReadyCrashes(u) \/ Unhealthy(u) \/ Restarted(u)

Spec == Init /\ [][Next]_vars

\* Kubernetes and Juju do what they owe; the operator follows the guide once a
\* refresh was made: and rolls back after a failure.
Fairness ==
    /\ \A u \in Units : WF_vars(Unit(u)) /\ WF_vars(RecreatePod(u))
    /\ WF_vars(ResumeUpgrade) /\ WF_vars(EnterRecovery)
    /\ WF_vars(ClusterState(state) = "recovery" /\ Refresh)

FairSpec == Spec /\ Fairness

-----------------------------------------------------------------------------
(* Properties.  In a rollback Kubernetes alone orders the units that had been *)
(* upgraded: the first ones are about upgrades.                               *)

AllDone == \A u \in Units : pod[u] = template

\* A pod is moved to the new template only when every unit above it proved
\* healthy on its own -- the upgrade stops at the first unit that does not come back
\* (_on_postgresql_pebble_ready lowers the partition after the health check) -- and,
\* below the first one, only once resume-upgrade was accepted: the operator decides
\* on that one (_on_upgrade_finished, _on_resume_upgrade_action).
PodsInTurn ==
    [][\A u \in Units : pod'[u] # pod[u] /\ ~rollback =>
          /\ \A v \in Units : v > u => v \in checked
          /\ u # Highest => resumed]_vars

\* The upgrade costs one switch of the primary: its pod is recreated last
\* (pre_upgrade_check and _handle_label_change move it in time).
PrimaryLast ==
    [][\A u \in Units :
          pod'[u] # pod[u] /\ u = primary /\ ~rollback => \A v \in Units : pod'[v] = template]_vars

\* A unit leaves the upgrade (is idle again), and the leader records the
\* dependencies of the new revision, only when every unit runs it and is off the
\* stack ("All units completed upgrade", on_upgrade_changed).  Not on a new leader
\* whose pebble-ready was deferred: it reads the stack as of before.
IdleAgain ==
    [][~rollback /\ ~(MayDefer /\ elections > 0)
       /\ (deps' # deps \/ \E u \in Units : state[u] # "idle" /\ state'[u] = "idle")
          => AllDone /\ stack' = <<>>]_vars

\* Every refresh, once rolled back if a unit failed, comes to its end: all pods on
\* the last template and all units idle, ready for another check.  Not under a
\* change of the leader: it can lose the upgrade-relation-changed that made it
\* take a completed unit off the stack.  Nor when a rolling restart, which makes
\* units complete once more, meets a unit that failed.
UpgradeEnds ==
    template > 0 ~> \/ AllDone /\ IsIdle
                    \/ elections > 0
                    \/ restarts > 0 /\ failures > 0
=============================================================================
