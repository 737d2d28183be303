----------------------------- MODULE RollingOps -----------------------------
(***************************************************************************)
(* The rolling-restart lock of the charm: the lock manager of              *)
(* lib/charms/rolling_ops/v0/rollingops.py together with the callback      *)
(* PostgresqlOperatorCharm._restart that it runs.                          *)
(*                                                                         *)
(* A unit asks for the lock by writing "acquire" in its own data bag of    *)
(* the peer relation, the Juju leader grants it by writing "granted" under *)
(* the name of the unit in the application data bag, the unit runs the     *)
(* callback and writes "release", the leader clears the grant.             *)
(*                                                                         *)
(* All of it happens in Juju hooks.  A hook works on the relation data it  *)
(* read (ctx), its writes become visible to the other units only when the  *)
(* hook ends, and are dropped, the hook being run again, when it fails.    *)
(* Hooks of different units overlap, those of one unit do not.  The        *)
(* handlers an event runs, and those that the events it emits run, are a   *)
(* stack (todo): emit() runs the handler of the new event before the rest  *)
(* of the handler that emits it.                                           *)
(***************************************************************************)
EXTENDS Integers, Sequences

CONSTANTS
    N,               \* the most units the application ever has
    MaxRequests,     \* how often some unit finds that it needs a restart
    MaxCrashes,      \* how many hooks die half way
    MaxElections,    \* how often leadership moves from a live unit
    MaxScalings,     \* how many units are added or removed
    MayDefer,        \* are_all_members_ready may fail for reasons of its own
    MidHookElection, \* a unit may become leader while one of its hooks runs
    MayAskAgain      \* a unit may ask for the lock before its last release is processed

ASSUME RollingOpsAssumption ==
    /\ N \in Nat \ {0}
    /\ {MaxRequests, MaxCrashes, MaxElections, MaxScalings} \subseteq Nat
    /\ {MayDefer, MidHookElection, MayAskAgain} \subseteq BOOLEAN

Units == 0 .. N - 1
NoUnit == -1

\* The hooks that matter here: one that finds that PostgreSQL must be
\* restarted, the relation-changed of the peer relation, leader-elected, and
\* any other, which only re-emits the deferred event.
Triggers == {"config", "changed", "elected", "other"}
Handlers == {"acquire", "changed", "process", "run", "restart", "restarting", "release"}

VARIABLES
    scale,      \* units 0 .. scale - 1 exist (Kubernetes stateful set)
    leader,     \* the Juju leader, or NoUnit
    unitState,  \* relation.data[u]["state"]
    appState,   \* relation.data[app][u]
    deferred,   \* u has a deferred RunWithLock
    queue,      \* the hooks Juju owes to u
    failed,     \* the hook of u that failed and is to be run again
    hook,       \* the hook u is running
    todo,       \* the handlers it still has to run, innermost first
    ctx,        \* the data it works on
    inherited,  \* history: u was created under a name that still had a grant
    needed,     \* history: u found that it needs a restart, and has had none since
    requests, crashes, elections, scalings   \* counters for the bounds

counters == <<requests, crashes, elections, scalings>>
databags == <<unitState, appState>>
cluster == <<scale, leader>>
execution == <<hook, todo, ctx>>
history == <<inherited, needed>>
vars == <<cluster, databags, deferred, queue, failed, execution, history, counters>>

Present == 0 .. scale - 1

\* What a hook sees and what it is about to write: the units it lists, the
\* state of each in its own bag and in the bag of the application, the keys of
\* the latter it has written, and whether it defers RunWithLock.
Context == [units : SUBSET Units,
            unit : [Units -> {"idle", "acquire", "release"}],
            app : [Units -> {"idle", "granted"}],
            wrote : SUBSET Units,
            deferred : BOOLEAN]

Idle == [u \in Units |-> "idle"]
NoContext == [units |-> {}, unit |-> Idle, app |-> Idle, wrote |-> {}, deferred |-> FALSE]

-----------------------------------------------------------------------------
(* The state of a lock, from the two data bags. *)

\* Slip: a grant hides the request to release it.
LockStateGrantFirst(c, u) ==
    IF c.app[u] = "idle" /\ c.unit[u] = "acquire" THEN "acquire" ELSE c.app[u]

LockState(c, u) ==
    IF c.app[u] = "granted" /\ c.unit[u] = "release" THEN "release"
    ELSE IF c.app[u] = "idle" /\ c.unit[u] = "acquire" THEN "acquire"
    ELSE c.app[u]

IsHeld(c, u) == LockState(c, u) = "granted"
ReleaseRequested(c, u) == LockState(c, u) = "release"
IsPending(c, u) == LockState(c, u) = "acquire"

\* Slip: the two data bags have one vocabulary.
SetUnitOneVocabulary(c, u, s) ==
    [c EXCEPT !.unit[u] = IF s = "acquire" THEN "granted" ELSE s]
SetUnit(c, u, s) == [c EXCEPT !.unit[u] = s]

\* The application bag after the grants of C are cleared and those of G given.
Regrant(c, C, G) ==
    [c EXCEPT !.app = [x \in Units |-> IF x \in G THEN "granted"
                                       ELSE IF x \in C THEN "idle" ELSE c.app[x]],
              !.wrote = @ \cup C \cup G]

-----------------------------------------------------------------------------
TypeOK ==
    /\ scale \in 1 .. N
    /\ leader \in Units \cup {NoUnit}
    /\ unitState \in [Units -> {"idle", "acquire", "release"}]
    /\ appState \in [Units -> {"idle", "granted"}]
    /\ deferred \in [Units -> BOOLEAN]
    /\ queue \in [Units -> SUBSET {"changed", "elected"}]
    /\ failed \in [Units -> Triggers \cup {"none"}]
    /\ hook \in [Units -> Triggers \cup {"none"}]
    /\ todo \in [Units -> Seq(Handlers)]
    /\ ctx \in [Units -> Context]
    /\ inherited \in SUBSET Units
    /\ needed \in [Units -> BOOLEAN]
    /\ requests \in Nat
    /\ crashes \in Nat
    /\ elections \in Nat
    /\ scalings \in Nat

Init ==
    /\ scale = N
    /\ leader = 0
    /\ unitState = Idle
    /\ appState = Idle
    /\ deferred = [u \in Units |-> FALSE]
    /\ queue = [u \in Units |-> {}]
    /\ failed = [u \in Units |-> "none"]
    /\ hook = [u \in Units |-> "none"]
    /\ todo = [u \in Units |-> <<>>]
    /\ ctx = [u \in Units |-> NoContext]
    /\ inherited = {}
    /\ needed = [u \in Units |-> FALSE]
    /\ requests = 0
    /\ crashes = 0
    /\ elections = 0
    /\ scalings = 0

-----------------------------------------------------------------------------
(* Hooks. *)

\* Nothing in the code keeps u from asking while its last grant is still to be
\* cleared: its own "acquire" then makes that grant good again.
Asks(u) == MayAskAgain \/ ~(appState[u] = "granted" /\ unitState[u] = "release")

\* The hooks Juju may run next on u.  A relation-changed that shows u nothing
\* new (two units changed, the first of two hooks saw both) is left out: its
\* handlers would do nothing.
Due(u, t) ==
    /\ u \in Present /\ hook[u] = "none"
    /\ failed[u] # "none" => t = failed[u]
    /\ t = "config" => failed[u] = t \/ (requests < MaxRequests /\ Asks(u))
    /\ t \in {"changed", "elected"} => failed[u] = t \/ t \in queue[u]
    /\ t = "other" => failed[u] = t \/ deferred[u]

MainHandlers(t) ==
    CASE t = "config" -> <<"acquire">>
      [] t = "changed" -> <<"changed">>
      [] t = "elected" -> <<"process">>
      [] t = "other" -> <<>>

\* The framework first emits the deferred event again, then the one of the hook.
Begin(u, t) ==
    /\ Due(u, t)
    /\ hook' = [hook EXCEPT ![u] = t]
    /\ todo' = [todo EXCEPT ![u] = (IF deferred[u] THEN <<"run">> ELSE <<>>) \o MainHandlers(t)]
    /\ ctx' = [ctx EXCEPT ![u] = [units |-> Present, unit |-> unitState, app |-> appState,
                                  wrote |-> {}, deferred |-> FALSE]]
    /\ queue' = [queue EXCEPT ![u] = @ \ {t}]
    /\ failed' = [failed EXCEPT ![u] = "none"]
    /\ requests' = IF t = "config" /\ failed[u] # t THEN requests + 1 ELSE requests
    /\ UNCHANGED <<cluster, databags, deferred, history, crashes, elections, scalings>>

Leave(u) ==
    /\ hook' = [hook EXCEPT ![u] = "none"]
    /\ todo' = [todo EXCEPT ![u] = <<>>]
    /\ ctx' = [ctx EXCEPT ![u] = NoContext]

\* The hook succeeds: its writes reach the data bags and Juju owes a
\* relation-changed to the other units.
End(u) ==
    LET c == ctx[u] IN
    /\ hook[u] # "none" /\ todo[u] = <<>>
    /\ c.wrote # {} => leader = u
    /\ unitState' = [unitState EXCEPT ![u] = c.unit[u]]
    /\ appState' = [x \in Units |-> IF x \in c.wrote THEN c.app[x] ELSE appState[x]]
    /\ deferred' = [deferred EXCEPT ![u] = c.deferred]
    /\ queue' = [x \in Units |->
                    IF x \in Present \ {u} /\ databags' # databags
                    THEN queue[x] \cup {"changed"} ELSE queue[x]]
    /\ inherited' = {x \in inherited : appState'[x] = "granted"}
    /\ Leave(u)
    /\ UNCHANGED <<cluster, failed, needed, counters>>

\* The hook fails, and will be run again: nothing it wrote is kept.
Fail(u) ==
    /\ hook[u] # "none"
    /\ failed' = [failed EXCEPT ![u] = hook[u]]
    /\ Leave(u)
    /\ UNCHANGED <<cluster, databags, deferred, queue, history, requests, elections, scalings>>

\* Juju refuses the application data of a unit that is no longer the leader.
Refused(u) ==
    /\ todo[u] = <<>> /\ ctx[u].wrote # {} /\ leader # u
    /\ Fail(u)
    /\ UNCHANGED crashes

Crash(u) ==
    /\ crashes < MaxCrashes
    /\ crashes' = crashes + 1
    /\ Fail(u)

-----------------------------------------------------------------------------
(* The handlers. *)

\* u runs its innermost handler h, which leaves the context c and runs the
\* handlers next before what was left to do.
Handle(u, h, c, next) ==
    /\ todo[u] # <<>> /\ Head(todo[u]) = h
    /\ todo' = [todo EXCEPT ![u] = next \o Tail(@)]
    /\ ctx' = [ctx EXCEPT ![u] = c]
    /\ UNCHANGED <<cluster, databags, deferred, queue, failed, hook, inherited, counters>>

\* What relation-changed runs.  It emits process_locks on the leader only, and
\* the handler of process_locks returns at once anywhere else.
RelationChanged(c, u) == (IF IsHeld(c, u) THEN <<"run">> ELSE <<>>) \o <<"process">>

OnRelationChanged(u) ==
    /\ Handle(u, "changed", ctx[u], RelationChanged(ctx[u], u))
    /\ UNCHANGED needed

OnAcquireLock(u) ==
    LET c == SetUnit(ctx[u], u, "acquire")
    IN  /\ Handle(u, "acquire", c, RelationChanged(c, u))
        /\ needed' = [needed EXCEPT ![u] = TRUE]

ProcessNotLeader(u) ==
    /\ leader # u
    /\ Handle(u, "process", ctx[u], <<>>)

\* Slip: a lock that is held does not stop the loop.
HeldOverlooked(c) == {}
Held(c) == {x \in c.units : IsHeld(c, x)}
Released(c) == {x \in c.units : ReleaseRequested(c, x)}
Pending(c) == {x \in c.units : IsPending(c, x)}

\* A lock is held: the loop over relation.units, which is in no particular
\* order and has the leader last, stops there; what it had met is cleared.
ProcessHeld(u) ==
    /\ leader = u
    /\ Held(ctx[u]) # {}
    /\ \E C \in SUBSET (Released(ctx[u]) \ {u}) :
          /\ Held(ctx[u]) = {u} => C = Released(ctx[u])
          /\ Handle(u, "process", Regrant(ctx[u], C, {}), <<>>)

\* The lock goes to another unit if there is one, to the leader otherwise, and
\* the leader runs at once.
ProcessGrant(u) ==
    /\ leader = u
    /\ Held(ctx[u]) = {}
    /\ \E x \in Pending(ctx[u]) :
          /\ x = u => Pending(ctx[u]) = {u}
          /\ Handle(u, "process", Regrant(ctx[u], Released(ctx[u]), {x}),
                    IF x = u THEN <<"run">> ELSE <<>>)

ProcessIdle(u) ==
    /\ leader = u
    /\ Held(ctx[u]) = {} /\ Pending(ctx[u]) = {}
    /\ Handle(u, "process", Regrant(ctx[u], Released(ctx[u]), {}), <<>>)

Restarting(u) == todo[u] # <<>> /\ Head(todo[u]) = "restarting"

\* _on_run_with_lock and the test at the start of _restart: Patroni shows a
\* member that restarts as not running.
RunReady(u) ==
    /\ \A v \in Units : ~Restarting(v)
    /\ Handle(u, "run", ctx[u], <<"restart", "release">>)
    /\ UNCHANGED needed

\* Slip: an early return that forgets event.defer().
RunSkipped(u) ==
    /\ MayDefer \/ \E v \in Units : Restarting(v)
    /\ Handle(u, "run", ctx[u], <<"release">>)
    /\ UNCHANGED needed

RunDeferred(u) ==
    /\ MayDefer \/ \E v \in Units : Restarting(v)
    /\ Handle(u, "run", [ctx[u] EXCEPT !.deferred = TRUE], <<"release">>)
    /\ UNCHANGED needed

\* POST /restart, or a RetryError after which the callback returns and the unit
\* is blocked.
RestartPostgresql(u) ==
    /\ \E next \in {<<"restarting">>, <<>>} : Handle(u, "restart", ctx[u], next)
    /\ needed' = [needed EXCEPT ![u] = FALSE]

\* PostgreSQL answers again, or 300 s have gone by.
RestartEnds(u) ==
    /\ Handle(u, "restarting", ctx[u], <<>>)
    /\ UNCHANGED needed

\* The rest of _on_run_with_lock, whatever the callback did.
ReleaseLock(u) ==
    /\ Handle(u, "release", SetUnit(ctx[u], u, "release"), <<"process">>)
    /\ UNCHANGED needed

-----------------------------------------------------------------------------
(* What happens around the charm. *)

Elect(u) ==
    /\ u \in Present /\ leader # u
    /\ MidHookElection \/ hook[u] = "none"
    /\ IF leader = NoUnit
       THEN UNCHANGED elections
       ELSE elections < MaxElections /\ elections' = elections + 1
    /\ leader' = u
    /\ queue' = [queue EXCEPT ![u] = @ \cup {"elected"}]
    /\ UNCHANGED <<scale, databags, deferred, failed, execution, history,
                   requests, crashes, scalings>>

\* The unit with the highest number goes, and its data bag with it.  The lock
\* manager does not observe relation-departed.
Remove ==
    LET x == scale - 1 IN
    /\ scale > 1 /\ hook[x] = "none"
    /\ scalings < MaxScalings
    /\ scalings' = scalings + 1
    /\ scale' = x
    /\ leader' = IF leader = x THEN NoUnit ELSE leader
    /\ unitState' = [unitState EXCEPT ![x] = "idle"]
    /\ deferred' = [deferred EXCEPT ![x] = FALSE]
    /\ queue' = [queue EXCEPT ![x] = {}]
    /\ failed' = [failed EXCEPT ![x] = "none"]
    /\ needed' = [needed EXCEPT ![x] = FALSE]
    /\ UNCHANGED <<appState, execution, inherited, requests, crashes, elections>>

\* A unit is added, under the name of one that was removed if there was one.
Add ==
    LET x == scale IN
    /\ scale < N
    /\ scalings < MaxScalings
    /\ scalings' = scalings + 1
    /\ scale' = scale + 1
    /\ queue' = [y \in Units |-> IF y \in Present \cup {x} THEN queue[y] \cup {"changed"} ELSE queue[y]]
    /\ inherited' = IF appState[x] = "granted" THEN inherited \cup {x} ELSE inherited
    /\ UNCHANGED <<leader, databags, deferred, failed, execution, needed,
                   requests, crashes, elections>>

Process(u) ==
    /\ ProcessNotLeader(u) \/ ProcessHeld(u) \/ ProcessGrant(u) \/ ProcessIdle(u)
    /\ UNCHANGED needed

RunWithLock(u) == RunReady(u) \/ RunDeferred(u)
Restart(u) == RestartPostgresql(u) \/ RestartEnds(u)

\* The steps that the hook u is in takes by itself.
Step(u) ==
    \/ OnAcquireLock(u) \/ OnRelationChanged(u) \/ Process(u)
    \/ RunWithLock(u) \/ Restart(u) \/ ReleaseLock(u)
    \/ End(u) \/ Refused(u)

Next ==
    \/ \E u \in Units : Step(u) \/ Crash(u) \/ Elect(u) \/ \E t \in Triggers : Begin(u, t)
    \/ Remove
    \/ Add

Spec == Init /\ [][Next]_vars

\* The agent of a unit that has a hook to run, or to go on with, does not idle
\* (update-status comes round while an event is deferred); there is a leader;
\* and a cluster that is asked again and again is found ready at last.
Work(u) ==
    \/ Step(u)
    \/ \E t \in Triggers : (failed[u] = t \/ t \in queue[u] \/ t = "other") /\ Begin(u, t)

Fairness ==
    /\ \A u \in Units : WF_vars(Work(u)) /\ SF_vars(RunReady(u))
    /\ WF_vars(leader = NoUnit /\ \E u \in Units : Elect(u))

FairSpec == Spec /\ Fairness

-----------------------------------------------------------------------------
(* Properties. *)

\* Of the units whose name carried no grant when they were created, at most
\* one has the lock in the application data bag, through elections, crashes
\* and scaling: the leader grants a lock only when it sees no other held, and
\* nobody else writes that bag.
SingleGrant ==
    \A x, y \in Present \ inherited :
        appState[x] = "granted" /\ appState[y] = "granted" => x = y

\* Why, as an inductive invariant (leadership does not reach a unit in the
\* middle of a hook).  A leader in a hook knows the application bag as it is,
\* but for the keys it is about to write, all of them of units it sees; of these
\* one at most will have the lock, and those it does not see have none.
LeaderView(u) ==
    LET c == ctx[u] IN
    /\ c.wrote \subseteq c.units
    /\ \A x \in Units \ c.wrote : c.app[x] = appState[x]
    /\ \A x, y \in c.units \ inherited :
          c.app[x] = "granted" /\ c.app[y] = "granted" => x = y
    /\ \A x \in (Present \ c.units) \ inherited : c.app[x] = "idle"

\* One grant at a time (_on_process_locks), with what makes it inductive: what the leader
\* knows, and that a hook that is over left nothing to do.
GrantInv ==
    /\ SingleGrant
    /\ \A x \in inherited : appState[x] = "granted"
    /\ \A u \in Units : hook[u] = "none" => todo[u] = <<>>
    /\ \A u \in Units : leader = u /\ hook[u] # "none" => LeaderView(u)

\* No restart is forgotten: between hooks, a unit that needs a restart either
\* still asks for the lock, or keeps the deferred event, or has the hook that
\* found it to run again.  The lock is released even when the callback was put
\* off, and an old deferred event may release a newer request.
NoRestartForgotten ==
    \A u \in Units :
        needed[u] /\ hook[u] = "none"
            => unitState[u] = "acquire" \/ deferred[u] \/ failed[u] = "config"

\* A unit that needs a restart gets one, or is blocked.
RestartHappens ==
    \A u \in Units : needed[u] ~> ~needed[u]

-----------------------------------------------------------------------------
(* What the lock is for: one unit at a time restarts, of those that asked.  *)

\* The requests not yet served: those visible, those a running hook has made,
\* and the restarts that the hook, failing, may run once more.
Wanted ==
    {u \in Units : \/ needed[u] \/ unitState[u] = "acquire" \/ failed[u] = "config"
                   \/ hook[u] = "config"}

RestartLock == INSTANCE RestartLock WITH
    wanted <- Wanted, running <- {u \in Units : Restarting(u)}

\* The protocol, seen through Wanted and Restarting, is the lock of RestartLock: no two
\* units restart at the same time, and none that did not ask.
RestartsAsLocked == RestartLock!Spec
=============================================================================
