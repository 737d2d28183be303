-------------------------- MODULE RollingOps_proofs --------------------------
(***************************************************************************)
(* Theorems about the rolling-restart lock, for any number of units and    *)
(* any number of requests, crashes, elections and scalings.                *)
(***************************************************************************)
EXTENDS RollingOps, SequenceTheorems, TLAPS

\* What a handler that does nothing but its own bookkeeping keeps.
LEMMA HandleType ==
    ASSUME TypeOK, NEW u \in Units, NEW h, NEW c \in Context, NEW next \in Seq(Handlers),
           Handle(u, h, c, next)
    PROVE  /\ todo' \in [Units -> Seq(Handlers)]
           /\ ctx' \in [Units -> Context]
           /\ todo[u] # <<>>
  <1>1. todo[u] \in Seq(Handlers) /\ todo[u] # <<>>
    BY DEF TypeOK, Handle
  <1>2. next \o Tail(todo[u]) \in Seq(Handlers)
    BY <1>1
  <1>. QED
    BY <1>1, <1>2 DEF TypeOK, Handle

LEMMA RegrantType ==
    ASSUME NEW c \in Context, NEW C, NEW G, C \subseteq Units, G \subseteq Units
    PROVE  /\ Regrant(c, C, G) \in Context
           /\ Regrant(c, C, G).units = c.units
           /\ Regrant(c, C, G).wrote = c.wrote \cup C \cup G
           /\ \A x \in Units : Regrant(c, C, G).app[x] =
                 IF x \in G THEN "granted" ELSE IF x \in C THEN "idle" ELSE c.app[x]
  BY DEF Regrant, Context

LEMMA SetUnitType ==
    ASSUME NEW c \in Context, NEW u \in Units, NEW s \in {"acquire", "release"}
    PROVE  /\ SetUnit(c, u, s) \in Context
           /\ SetUnit(c, u, s).units = c.units
           /\ SetUnit(c, u, s).wrote = c.wrote
           /\ SetUnit(c, u, s).app = c.app
  BY DEF SetUnit, Context

\* A handler leaves its hook with a context of the right type, and only adds
\* units it sees to those whose application data it writes.
LEMMA ProcessType ==
    ASSUME TypeOK, NEW u \in Units, Process(u)
    PROVE  todo' \in [Units -> Seq(Handlers)] /\ ctx' \in [Units -> Context]
  <1>. DEFINE c == ctx[u]
  <1>1. c \in Context /\ Released(c) \subseteq Units /\ Pending(c) \subseteq Units
    BY DEF TypeOK, Context, Released, Pending
  <1>2. <<>> \in Seq(Handlers) /\ <<"run">> \in Seq(Handlers)
    BY DEF Handlers
  <1>3. CASE ProcessNotLeader(u)
    BY <1>1, <1>2, <1>3, HandleType DEF ProcessNotLeader
  <1>4. CASE ProcessHeld(u)
    <2>1. PICK C \in SUBSET (Released(c) \ {u}) : Handle(u, "process", Regrant(c, C, {}), <<>>)
      BY <1>4 DEF ProcessHeld
    <2>2. Regrant(c, C, {}) \in Context
      BY <1>1, RegrantType
    <2>. QED
      BY <1>2, <2>1, <2>2, HandleType
  <1>5. CASE ProcessGrant(u)
    <2>1. PICK x \in Pending(c) :
             Handle(u, "process", Regrant(c, Released(c), {x}), IF x = u THEN <<"run">> ELSE <<>>)
      BY <1>5 DEF ProcessGrant
    <2>2. Regrant(c, Released(c), {x}) \in Context
      BY <1>1, RegrantType
    <2>3. (IF x = u THEN <<"run">> ELSE <<>>) \in Seq(Handlers)
      BY <1>2
    <2>. QED
      BY <2>1, <2>2, <2>3, HandleType
  <1>6. CASE ProcessIdle(u)
    <2>1. Regrant(c, Released(c), {}) \in Context
      BY <1>1, RegrantType
    <2>. QED
      BY <1>2, <1>6, <2>1, HandleType DEF ProcessIdle
  <1>. QED
    BY <1>3, <1>4, <1>5, <1>6 DEF Process

LEMMA RelationChangedType ==
    ASSUME NEW c, NEW u
    PROVE  RelationChanged(c, u) \in Seq(Handlers)
  <1>1. <<"run">> \o <<"process">> \in Seq(Handlers) /\ <<>> \o <<"process">> \in Seq(Handlers)
    BY DEF Handlers
  <1>. QED
    BY <1>1 DEF RelationChanged

\* The handlers of one hook, without its end.
Handler(u) ==
    \/ OnAcquireLock(u) \/ OnRelationChanged(u) \/ Process(u)
    \/ RunWithLock(u) \/ Restart(u) \/ ReleaseLock(u)

LEMMA HandlerType ==
    ASSUME TypeOK, NEW u \in Units, Handler(u)
    PROVE  TypeOK'
  <1>. DEFINE c == ctx[u]
  <1>1. c \in Context
    BY DEF TypeOK
  <1>2. /\ todo' \in [Units -> Seq(Handlers)]
        /\ ctx' \in [Units -> Context]
        /\ needed' \in [Units -> BOOLEAN]
        /\ UNCHANGED <<cluster, databags, deferred, queue, failed, hook, inherited, counters>>
    <2>1. CASE OnAcquireLock(u)
      BY <2>1, <1>1, SetUnitType, HandleType, RelationChangedType
         DEF OnAcquireLock, Handle, TypeOK
    <2>2. CASE OnRelationChanged(u)
      BY <2>2, <1>1, HandleType, RelationChangedType DEF OnRelationChanged, Handle, TypeOK
    <2>3. CASE Process(u)
      BY <2>3, ProcessType
         DEF Process, ProcessNotLeader, ProcessHeld, ProcessGrant, ProcessIdle, Handle, TypeOK
    <2>4. CASE RunWithLock(u)
      <3>1. <<"restart", "release">> \in Seq(Handlers) /\ <<"release">> \in Seq(Handlers)
        BY DEF Handlers
      <3>2. [c EXCEPT !.deferred = TRUE] \in Context
        BY <1>1 DEF Context
      <3>. QED
        BY <2>4, <1>1, <3>1, <3>2, HandleType
           DEF RunWithLock, RunReady, RunDeferred, Handle, TypeOK
    <2>5. CASE Restart(u)
      <3>1. <<"restarting">> \in Seq(Handlers) /\ <<>> \in Seq(Handlers)
        BY DEF Handlers
      <3>. QED
        BY <2>5, <1>1, <3>1, HandleType DEF Restart, RestartPostgresql, RestartEnds, Handle, TypeOK
    <2>6. CASE ReleaseLock(u)
      <3>1. <<"process">> \in Seq(Handlers)
        BY DEF Handlers
      <3>. QED
        BY <2>6, <1>1, <3>1, SetUnitType, HandleType DEF ReleaseLock, Handle, TypeOK
    <2>. QED
      BY <2>1, <2>2, <2>3, <2>4, <2>5, <2>6 DEF Handler
  <1>. QED
    BY <1>2 DEF TypeOK, cluster, databags, counters

LEMMA LeaveType ==
    ASSUME TypeOK, NEW u \in Units, Leave(u)
    PROVE  /\ hook' \in [Units -> Triggers \cup {"none"}]
           /\ todo' \in [Units -> Seq(Handlers)]
           /\ ctx' \in [Units -> Context]
  <1>1. NoContext \in Context /\ <<>> \in Seq(Handlers)
    BY DEF NoContext, Context, Idle
  <1>. QED
    BY <1>1 DEF Leave, TypeOK

LEMMA FailType ==
    ASSUME TypeOK, NEW u \in Units, Fail(u), crashes' \in Nat
    PROVE  TypeOK'
  <1>1. failed' \in [Units -> Triggers \cup {"none"}]
    BY DEF TypeOK, Fail
  <1>. QED
    BY <1>1, LeaveType DEF Fail, TypeOK, cluster, databags, history

LEMMA BeginType ==
    ASSUME TypeOK, NEW u \in Units, NEW t \in Triggers, Begin(u, t)
    PROVE  TypeOK'
  <1>1. MainHandlers(t) \in Seq(Handlers)
    <2>1. {<<"acquire">>, <<"changed">>, <<"process">>, <<>>} \subseteq Seq(Handlers)
      BY DEF Handlers
    <2>. QED
      BY <2>1 DEF MainHandlers, Triggers
  <1>2. (IF deferred[u] THEN <<"run">> ELSE <<>>) \o MainHandlers(t) \in Seq(Handlers)
    <2>1. <<"run">> \in Seq(Handlers) /\ <<>> \in Seq(Handlers)
      BY DEF Handlers
    <2>. QED
      BY <1>1, <2>1
  <1>3. Present \subseteq Units
    BY RollingOpsAssumption DEF Present, Units, TypeOK
  <1>4. [units |-> Present, unit |-> unitState, app |-> appState,
         wrote |-> {}, deferred |-> FALSE] \in Context
    BY <1>3 DEF TypeOK, Context
  <1>5. requests' \in Nat
    BY DEF Begin, TypeOK
  <1>6. queue' \in [Units -> SUBSET {"changed", "elected"}]
    BY DEF Begin, TypeOK
  <1>7. /\ hook' \in [Units -> Triggers \cup {"none"}]
        /\ failed' \in [Units -> Triggers \cup {"none"}]
    BY DEF Begin, TypeOK
  <1>8. todo' \in [Units -> Seq(Handlers)]
    BY <1>2 DEF Begin, TypeOK
  <1>9. ctx' \in [Units -> Context]
    BY <1>4 DEF Begin, TypeOK
  <1>. QED
    BY <1>5, <1>6, <1>7, <1>8, <1>9 DEF Begin, TypeOK, cluster, databags, history

LEMMA EndType ==
    ASSUME TypeOK, NEW u \in Units, End(u)
    PROVE  TypeOK'
  <1>1. ctx[u] \in Context
    BY DEF TypeOK
  <1>2. unitState' \in [Units -> {"idle", "acquire", "release"}]
    BY <1>1 DEF End, TypeOK, Context
  <1>3. appState' \in [Units -> {"idle", "granted"}]
    BY <1>1 DEF End, TypeOK, Context
  <1>4. deferred' \in [Units -> BOOLEAN]
    BY <1>1 DEF End, TypeOK, Context
  <1>5. queue' \in [Units -> SUBSET {"changed", "elected"}]
    BY DEF End, TypeOK
  <1>6. inherited' \in SUBSET Units
    BY DEF End, TypeOK
  <1>. QED
    BY <1>2, <1>3, <1>4, <1>5, <1>6, LeaveType DEF End, TypeOK, cluster, counters

LEMMA ClusterType ==
    ASSUME TypeOK, (\E u \in Units : Elect(u)) \/ Remove \/ Add
    PROVE  TypeOK'
  <1>1. ASSUME NEW u \in Units, Elect(u)
        PROVE  TypeOK'
    <2>1. elections' \in Nat
      BY <1>1 DEF Elect, TypeOK
    <2>2. queue' \in [Units -> SUBSET {"changed", "elected"}]
      BY <1>1 DEF Elect, TypeOK
    <2>. QED
      BY <1>1, <2>1, <2>2 DEF Elect, TypeOK, databags, execution, history
  <1>2. CASE Remove
    <2>1. scale' \in 1 .. N /\ scale - 1 \in Units
      BY <1>2, RollingOpsAssumption DEF Remove, TypeOK, Units
    <2>. QED
      BY <1>2, <2>1 DEF Remove, TypeOK, execution
  <1>3. CASE Add
    <2>1. scale' \in 1 .. N /\ scale \in Units
      BY <1>3, RollingOpsAssumption DEF Add, TypeOK, Units
    <2>. QED
      BY <1>3, <2>1 DEF Add, TypeOK, databags, execution
  <1>. QED
    BY <1>1, <1>2, <1>3

\* The variables keep their types, whatever the bounds.
THEOREM TypeCorrect == Spec => []TypeOK
  <1>1. Init => TypeOK
    <2>1. NoContext \in Context /\ <<>> \in Seq(Handlers)
      BY DEF NoContext, Context, Idle
    <2>. QED
      BY <2>1, RollingOpsAssumption DEF Init, TypeOK, Units, Idle
  <1>2. TypeOK /\ [Next]_vars => TypeOK'
    <2>. SUFFICES ASSUME TypeOK, [Next]_vars
                  PROVE  TypeOK'
      OBVIOUS
    <2>1. ASSUME NEW u \in Units, Step(u)
          PROVE  TypeOK'
      <3>1. CASE Handler(u)
        BY <3>1, HandlerType
      <3>2. CASE End(u)
        BY <3>2, EndType
      <3>3. CASE Refused(u)
        BY <3>3, FailType DEF Refused, TypeOK
      <3>. QED
        BY <2>1, <3>1, <3>2, <3>3 DEF Step, Handler
    <2>2. ASSUME NEW u \in Units, Crash(u)
          PROVE  TypeOK'
      BY <2>2, FailType DEF Crash, TypeOK
    <2>3. ASSUME NEW u \in Units, NEW t \in Triggers, Begin(u, t)
          PROVE  TypeOK'
      BY <2>3, BeginType
    <2>4. CASE UNCHANGED vars
      BY <2>4 DEF vars, TypeOK, cluster, databags, execution, history, counters
    <2>. QED
      BY <2>1, <2>2, <2>3, <2>4, ClusterType DEF Next
  <1>. QED
    BY <1>1, <1>2, PTL DEF Spec

-----------------------------------------------------------------------------
(* At most one grant. *)

\* A handler other than process_locks leaves the application data as it is.
LEMMA OtherHandlerView ==
    ASSUME TypeOK, NEW u \in Units, Handler(u), ~Process(u)
    PROVE  /\ ctx'[u].units = ctx[u].units
           /\ ctx'[u].wrote = ctx[u].wrote
           /\ ctx'[u].app = ctx[u].app
  <1>. DEFINE c == ctx[u]
  <1>1. c \in Context
    BY DEF TypeOK
  <1>2. CASE OnAcquireLock(u)
    BY <1>1, <1>2, SetUnitType DEF OnAcquireLock, Handle, TypeOK
  <1>3. CASE OnRelationChanged(u)
    BY <1>3 DEF OnRelationChanged, Handle, TypeOK
  <1>4. CASE RunWithLock(u)
    BY <1>1, <1>4 DEF RunWithLock, RunReady, RunDeferred, Handle, TypeOK, Context
  <1>5. CASE Restart(u)
    BY <1>5 DEF Restart, RestartPostgresql, RestartEnds, Handle, TypeOK
  <1>6. CASE ReleaseLock(u)
    BY <1>1, <1>6, SetUnitType DEF ReleaseLock, Handle, TypeOK
  <1>. QED
    BY <1>2, <1>3, <1>4, <1>5, <1>6 DEF Handler

\* process_locks keeps the leader's view: it gives a grant only when no other is
\* left among the units it sees.
LEMMA ProcessView ==
    ASSUME TypeOK, NEW u \in Units, Process(u), leader = u, LeaderView(u)
    PROVE  LeaderView(u)'
  <1>. DEFINE c == ctx[u]
  <1>1. /\ c \in Context
        /\ Released(c) \subseteq c.units /\ Pending(c) \subseteq c.units
        /\ c.units \subseteq Units
    BY DEF TypeOK, Context, Released, Pending
  <1>2. /\ UNCHANGED <<scale, appState, inherited>>
        /\ Present' = Present
    BY DEF Process, ProcessNotLeader, ProcessHeld, ProcessGrant, ProcessIdle, Handle,
           cluster, databags, Present
  <1>3. ASSUME NEW C, C \subseteq Released(c), ctx'[u] = Regrant(c, C, {})
        PROVE  LeaderView(u)'
    <2>1. /\ ctx'[u].units = c.units
          /\ ctx'[u].wrote = c.wrote \cup C
          /\ \A x \in Units : ctx'[u].app[x] = IF x \in C THEN "idle" ELSE c.app[x]
      BY <1>1, <1>3, RegrantType
    <2>2. C \subseteq c.units /\ C \subseteq Units /\ Present \subseteq Units
      BY <1>1, <1>3, RollingOpsAssumption DEF Present, Units, TypeOK
    <2>3. ctx'[u].wrote \subseteq ctx'[u].units
      BY <2>1, <2>2 DEF LeaderView
    <2>4. \A x \in Units \ ctx'[u].wrote : ctx'[u].app[x] = appState[x]
      BY <2>1 DEF LeaderView
    <2>5. \A x, y \in c.units \ inherited :
             ctx'[u].app[x] = "granted" /\ ctx'[u].app[y] = "granted" => x = y
      BY <1>1, <2>1 DEF LeaderView
    <2>6. \A x \in (Present \ c.units) \ inherited : ctx'[u].app[x] = "idle"
      BY <2>1, <2>2 DEF LeaderView
    <2>. QED
      BY <1>2, <2>1, <2>3, <2>4, <2>5, <2>6 DEF LeaderView
  <1>4. CASE ProcessHeld(u) \/ ProcessIdle(u)
    <2>1. PICK C : C \subseteq Released(c) /\ ctx'[u] = Regrant(c, C, {})
      BY <1>4 DEF ProcessHeld, ProcessIdle, Handle, TypeOK
    <2>. QED
      BY <1>3, <2>1
  <1>5. CASE ProcessGrant(u)
    <2>1. PICK y \in Pending(c) : ctx'[u] = Regrant(c, Released(c), {y})
      BY <1>5 DEF ProcessGrant, Handle, TypeOK
    <2>2. y \in c.units /\ {y} \subseteq Units
      BY <1>1, <2>1
    <2>3. /\ ctx'[u].units = c.units
          /\ ctx'[u].wrote = c.wrote \cup Released(c) \cup {y}
          /\ \A x \in Units : ctx'[u].app[x] =
                IF x \in {y} THEN "granted" ELSE IF x \in Released(c) THEN "idle" ELSE c.app[x]
      BY <1>1, <2>1, <2>2, RegrantType
    <2>4. \A x \in c.units : c.app[x] = "granted" => x \in Released(c)
      <3>1. ~ \E x \in c.units : IsHeld(c, x)
        BY <1>5 DEF ProcessGrant, Held
      <3>. QED
        BY <3>1 DEF IsHeld, Released, ReleaseRequested, LockState
    <2>5. \A x \in c.units : ctx'[u].app[x] = "granted" => x = y
      BY <1>1, <2>3, <2>4
    <2>6. \A x \in Units \ ctx'[u].wrote : ctx'[u].app[x] = appState[x]
      BY <2>3 DEF LeaderView
    <2>7. \A x \in (Present \ c.units) \ inherited : ctx'[u].app[x] = "idle"
      <3>1. Present \subseteq Units
        BY RollingOpsAssumption DEF Present, Units, TypeOK
      <3>. QED
        BY <1>1, <2>2, <2>3, <3>1 DEF LeaderView
    <2>8. ctx'[u].wrote \subseteq ctx'[u].units
      BY <1>1, <2>2, <2>3 DEF LeaderView
    <2>. QED
      BY <1>1, <1>2, <2>3, <2>5, <2>6, <2>7, <2>8 DEF LeaderView
  <1>. QED
    BY <1>4, <1>5 DEF Process, ProcessNotLeader

\* The view of a leader depends on its own context and on the data bags only.
LEMMA SameView ==
    ASSUME TypeOK, NEW u \in Units, LeaderView(u),
           ctx'[u].units = ctx[u].units, ctx'[u].wrote = ctx[u].wrote, ctx'[u].app = ctx[u].app,
           UNCHANGED <<scale, appState, inherited>>
    PROVE  LeaderView(u)'
  BY DEF LeaderView, Present

LEMMA HandlerGrant ==
    ASSUME TypeOK, GrantInv, NEW u \in Units, Handler(u)
    PROVE  GrantInv'
  <1>1. /\ UNCHANGED <<scale, leader, appState, inherited, hook>>
        /\ todo[u] # <<>>
        /\ \A v \in Units \ {u} : ctx'[v] = ctx[v] /\ todo'[v] = todo[v]
    BY DEF Handler, OnAcquireLock, OnRelationChanged, Process, ProcessNotLeader, ProcessHeld,
           ProcessGrant, ProcessIdle, RunWithLock, RunReady, RunDeferred, Restart,
           RestartPostgresql, RestartEnds, ReleaseLock, Handle, TypeOK, cluster, databags
  <1>2. hook[u] # "none"
    BY <1>1 DEF GrantInv
  <1>3. ASSUME NEW v \in Units, leader' = v, hook'[v] # "none"
        PROVE  LeaderView(v)'
    <2>1. LeaderView(v)
      BY <1>1, <1>3 DEF GrantInv
    <2>2. CASE v # u
      BY <1>1, <2>1, <2>2, SameView
    <2>3. CASE v = u /\ Process(u)
      BY <1>1, <1>3, <2>1, <2>3, ProcessView
    <2>4. CASE v = u /\ ~Process(u)
      BY <1>1, <2>1, <2>4, OtherHandlerView, SameView
    <2>. QED
      BY <2>2, <2>3, <2>4
  <1>4. SingleGrant'
    BY <1>1 DEF GrantInv, SingleGrant, Present
  <1>5. \A v \in Units : hook'[v] = "none" => todo'[v] = <<>>
    BY <1>1, <1>2 DEF GrantInv
  <1>. QED
    BY <1>1, <1>3, <1>4, <1>5 DEF GrantInv

LEMMA FailGrant ==
    ASSUME TypeOK, GrantInv, NEW u \in Units, Fail(u)
    PROVE  GrantInv'
  <1>1. /\ UNCHANGED <<scale, leader, appState, inherited>>
        /\ hook'[u] = "none" /\ todo'[u] = <<>>
        /\ \A v \in Units \ {u} :
              ctx'[v] = ctx[v] /\ todo'[v] = todo[v] /\ hook'[v] = hook[v]
    BY DEF Fail, Leave, TypeOK, cluster, databags, history
  <1>2. SingleGrant'
    BY <1>1 DEF GrantInv, SingleGrant, Present
  <1>3. ASSUME NEW v \in Units, leader' = v, hook'[v] # "none"
        PROVE  LeaderView(v)'
    <2>1. v # u /\ LeaderView(v)
      BY <1>1, <1>3 DEF GrantInv
    <2>. QED
      BY <1>1, <2>1, SameView
  <1>. QED
    BY <1>1, <1>2, <1>3 DEF GrantInv

LEMMA BeginGrant ==
    ASSUME TypeOK, GrantInv, NEW u \in Units, NEW t \in Triggers, Begin(u, t)
    PROVE  GrantInv'
  <1>1. /\ UNCHANGED <<scale, leader, appState, inherited>>
        /\ hook'[u] = t /\ hook[u] = "none"
        /\ ctx'[u] = [units |-> Present, unit |-> unitState, app |-> appState,
                      wrote |-> {}, deferred |-> FALSE]
        /\ \A v \in Units \ {u} :
              ctx'[v] = ctx[v] /\ todo'[v] = todo[v] /\ hook'[v] = hook[v]
    BY DEF Begin, Due, TypeOK, cluster, databags, history
  <1>2. SingleGrant'
    BY <1>1 DEF GrantInv, SingleGrant, Present
  <1>3. ASSUME NEW v \in Units, leader' = v, hook'[v] # "none"
        PROVE  LeaderView(v)'
    <2>1. CASE v # u
      BY <1>1, <1>3, <2>1, SameView DEF GrantInv
    <2>2. CASE v = u
      <3>1. Present' = Present
        BY <1>1 DEF Present
      <3>2. /\ ctx'[u].units = Present /\ ctx'[u].app = appState /\ ctx'[u].wrote = {}
        BY <1>1
      <3>. QED
        BY <1>1, <2>2, <3>1, <3>2 DEF LeaderView, GrantInv, SingleGrant
    <2>. QED
      BY <2>1, <2>2
  <1>4. t # "none"
    BY DEF Triggers
  <1>. QED
    BY <1>1, <1>2, <1>3, <1>4 DEF GrantInv

LEMMA EndGrant ==
    ASSUME TypeOK, GrantInv, NEW u \in Units, End(u)
    PROVE  GrantInv'
  <1>. DEFINE c == ctx[u]
  <1>1. /\ UNCHANGED <<scale, leader>>
        /\ c.wrote # {} => leader = u
        /\ hook[u] # "none"
        /\ \A x \in Units : appState'[x] = IF x \in c.wrote THEN c.app[x] ELSE appState[x]
        /\ appState' = [x \in Units |-> IF x \in c.wrote THEN c.app[x] ELSE appState[x]]
        /\ inherited' = {x \in inherited : appState'[x] = "granted"}
        /\ hook'[u] = "none" /\ todo'[u] = <<>>
        /\ \A v \in Units \ {u} :
              ctx'[v] = ctx[v] /\ todo'[v] = todo[v] /\ hook'[v] = hook[v]
    BY DEF End, Leave, TypeOK, cluster
  <1>2. Present \subseteq Units /\ Present' = Present
    BY <1>1, RollingOpsAssumption DEF Present, Units, TypeOK
  <1>3. CASE leader = u
    <2>1. LeaderView(u)
      BY <1>1, <1>3 DEF GrantInv
    <2>2. \A x \in Units : appState'[x] = c.app[x]
      BY <1>1, <2>1 DEF LeaderView
    <2>3. SingleGrant'
      BY <1>1, <1>2, <2>1, <2>2 DEF SingleGrant, LeaderView
    <2>. QED
      BY <1>1, <1>3, <2>3 DEF GrantInv
  <1>4. CASE leader # u
    <2>1. appState' = appState
      BY <1>1, <1>4 DEF TypeOK
    <2>2. inherited' = inherited
      BY <1>1, <2>1 DEF GrantInv
    <2>3. SingleGrant'
      BY <1>2, <2>1, <2>2 DEF GrantInv, SingleGrant
    <2>4. ASSUME NEW v \in Units, leader' = v, hook'[v] # "none"
          PROVE  LeaderView(v)'
      <3>1. v # u /\ LeaderView(v)
        BY <1>1, <2>4 DEF GrantInv
      <3>. QED
        BY <1>1, <2>1, <2>2, <3>1, SameView
    <2>. QED
      BY <1>1, <2>1, <2>2, <2>3, <2>4 DEF GrantInv
  <1>. QED
    BY <1>3, <1>4

LEMMA ElectGrant ==
    ASSUME TypeOK, GrantInv, ~MidHookElection, NEW u \in Units, Elect(u)
    PROVE  GrantInv'
  <1>1. UNCHANGED <<scale, appState, inherited, hook, todo, ctx>> /\ leader' = u /\ hook[u] = "none"
    BY DEF Elect, databags, execution, history
  <1>. QED
    BY <1>1 DEF GrantInv, SingleGrant, Present

LEMMA RemoveGrant ==
    ASSUME TypeOK, GrantInv, Remove
    PROVE  GrantInv'
  <1>1. /\ UNCHANGED <<appState, inherited, hook, todo, ctx>>
        /\ leader' \in {leader, NoUnit}
        /\ Present' \subseteq Present
    BY DEF Remove, execution, Present, TypeOK
  <1>2. SingleGrant'
    BY <1>1 DEF GrantInv, SingleGrant
  <1>3. ASSUME NEW v \in Units, leader' = v, hook'[v] # "none"
        PROVE  LeaderView(v)'
    <2>1. LeaderView(v)
      BY <1>1, <1>3 DEF GrantInv, NoUnit, Units
    <2>. QED
      BY <1>1, <2>1 DEF LeaderView
  <1>. QED
    BY <1>1, <1>2, <1>3 DEF GrantInv

LEMMA AddGrant ==
    ASSUME TypeOK, GrantInv, Add
    PROVE  GrantInv'
  <1>1. /\ UNCHANGED <<leader, appState, hook, todo, ctx>>
        /\ Present' = Present \cup {scale}
        /\ scale \in Units /\ scale \notin Present
        /\ inherited' = IF appState[scale] = "granted" THEN inherited \cup {scale} ELSE inherited
    BY RollingOpsAssumption DEF Add, databags, execution, Present, Units, TypeOK
  <1>2. SingleGrant'
    BY <1>1 DEF GrantInv, SingleGrant
  <1>3. ASSUME NEW v \in Units, leader' = v, hook'[v] # "none"
        PROVE  LeaderView(v)'
    <2>1. LeaderView(v)
      BY <1>1, <1>3 DEF GrantInv
    <2>2. appState[scale] \in {"idle", "granted"}
      BY <1>1 DEF TypeOK
    <2>. QED
      BY <1>1, <2>1, <2>2 DEF LeaderView
  <1>. QED
    BY <1>1, <1>2, <1>3 DEF GrantInv

\* A leader in a hook knows the grants, but for those it is about to write, for any
\* number of units and any faults, if no unit becomes leader in mid hook.
THEOREM GrantsKnown == ~MidHookElection => (Spec => []GrantInv)
  <1>. SUFFICES ASSUME ~MidHookElection
                PROVE  Spec => []GrantInv
    OBVIOUS
  <1>1. Init => GrantInv
    BY DEF Init, GrantInv, SingleGrant, Idle, Present, Units
  <1>2. TypeOK /\ GrantInv /\ [Next]_vars => GrantInv'
    <2>. SUFFICES ASSUME TypeOK, GrantInv, [Next]_vars
                  PROVE  GrantInv'
      OBVIOUS
    <2>1. ASSUME NEW u \in Units, Step(u)
          PROVE  GrantInv'
      BY <2>1, HandlerGrant, EndGrant, FailGrant DEF Step, Handler, Refused
    <2>2. ASSUME NEW u \in Units, Crash(u)
          PROVE  GrantInv'
      BY <2>2, FailGrant DEF Crash
    <2>3. ASSUME NEW u \in Units, NEW t \in Triggers, Begin(u, t)
          PROVE  GrantInv'
      BY <2>3, BeginGrant
    <2>4. ASSUME NEW u \in Units, Elect(u)
          PROVE  GrantInv'
      BY <2>4, ElectGrant
    <2>5. CASE UNCHANGED vars
      BY <2>5 DEF vars, GrantInv, SingleGrant, LeaderView, Present, cluster, databags,
                  execution, history
    <2>. QED
      BY <2>1, <2>2, <2>3, <2>4, <2>5, RemoveGrant, AddGrant DEF Next
  <1>. QED
    BY <1>1, <1>2, TypeCorrect, PTL DEF Spec

\* At most one of the units created under a fresh name holds a grant.
THEOREM GrantsSerialized == ~MidHookElection => (Spec => []SingleGrant)
  <1>1. GrantInv => SingleGrant
    BY DEF GrantInv
  <1>. QED
    BY <1>1, GrantsKnown, PTL

-----------------------------------------------------------------------------
(* No restart is forgotten. *)

Has(s, h) == \E i \in 1 .. Len(s) : s[i] = h

\* What keeps the request of unit u alive if its hook fails, and if it succeeds: there
\* is an "acquire" it still has to run, or it has asked with no release to come, or it
\* has deferred the restart, or is about to restart or to defer.
KeptByFailure(u) == unitState[u] = "acquire" \/ deferred[u] \/ hook[u] = "config"
KeptBySuccess(u) ==
    \/ ctx[u].deferred
    \/ Has(todo[u], "acquire")
    \/ ctx[u].unit[u] = "acquire" /\ ~Has(todo[u], "release")
    \/ todo[u] # <<>> /\ Head(todo[u]) \in {"run", "restart"}

\* The handler that asks for the lock is the last one of its hook.
AcquireLast(u) ==
    \A i \in 1 .. Len(todo[u]) :
        todo[u][i] = "acquire" => i = Len(todo[u]) /\ hook[u] = "config"

RestartInv ==
    /\ NoRestartForgotten
    /\ \A u \in Units :
          /\ AcquireLast(u)
          /\ hook[u] = "none" => todo[u] = <<>>
          /\ needed[u] /\ hook[u] # "none" => KeptByFailure(u) /\ KeptBySuccess(u)

\* What the handlers emit: never the request, and a release only with a restart.
LEMMA Emitted ==
    ASSUME NEW c, NEW u
    PROVE  /\ \A next \in {<<>>, <<"run">>, <<"process">>, <<"restarting">>, RelationChanged(c, u)} :
                 ~Has(next, "acquire") /\ ~Has(next, "release")
           /\ ~Has(<<"release">>, "acquire")
           /\ ~Has(<<"restart", "release">>, "acquire")
  <1>1. ~Has(<<>>, "acquire") /\ ~Has(<<>>, "release")
    BY DEF Has
  <1>2. ~Has(<<"run">>, "acquire") /\ ~Has(<<"run">>, "release")
    BY DEF Has
  <1>3. ~Has(<<"process">>, "acquire") /\ ~Has(<<"process">>, "release")
    BY DEF Has
  <1>4. ~Has(<<"restarting">>, "acquire") /\ ~Has(<<"restarting">>, "release")
    BY DEF Has
  <1>5. ~Has(RelationChanged(c, u), "acquire") /\ ~Has(RelationChanged(c, u), "release")
    <2>1. /\ ~Has(<<"run">> \o <<"process">>, "acquire")
          /\ ~Has(<<"run">> \o <<"process">>, "release")
      BY DEF Has
    <2>2. /\ ~Has(<<>> \o <<"process">>, "acquire")
          /\ ~Has(<<>> \o <<"process">>, "release")
      BY DEF Has
    <2>. QED
      BY <2>1, <2>2 DEF RelationChanged
  <1>6. ~Has(<<"release">>, "acquire")
    BY DEF Has
  <1>7. ~Has(<<"restart", "release">>, "acquire")
    BY DEF Has
  <1>. QED
    BY <1>1, <1>2, <1>3, <1>4, <1>5, <1>6, <1>7

\* The handlers next run before the rest of the stack s.
LEMMA Stacked ==
    ASSUME NEW s \in Seq(Handlers), s # <<>>, NEW next \in Seq(Handlers)
    PROVE  LET t == next \o Tail(s) IN
           /\ Len(t) = Len(next) + Len(s) - 1
           /\ \A i \in 1 .. Len(next) : t[i] = next[i]
           /\ \A i \in Len(next) + 1 .. Len(t) : t[i] = s[i - Len(next) + 1]
           /\ \A h : Has(t, h) => Has(next, h) \/ Has(s, h)
           /\ \A h : Has(s, h) /\ Head(s) # h => Has(t, h)
           /\ next # <<>> => t # <<>> /\ Head(t) = Head(next)
  <1>. DEFINE t == next \o Tail(s)
  <1>1. /\ Len(t) = Len(next) + Len(s) - 1
        /\ \A i \in 1 .. Len(next) : t[i] = next[i]
        /\ \A i \in Len(next) + 1 .. Len(t) : t[i] = s[i - Len(next) + 1]
    OBVIOUS
  <1>2. ASSUME NEW h, Has(t, h)
        PROVE  Has(next, h) \/ Has(s, h)
    <2>1. PICK i \in 1 .. Len(t) : t[i] = h
      BY <1>2 DEF Has
    <2>2. CASE i \in 1 .. Len(next)
      BY <1>1, <2>1, <2>2 DEF Has
    <2>3. CASE i \in Len(next) + 1 .. Len(t)
      <3>1. i - Len(next) + 1 \in 1 .. Len(s)
        BY <1>1, <2>3
      <3>. QED
        BY <1>1, <2>1, <2>3, <3>1 DEF Has
    <2>. QED
      BY <2>2, <2>3
  <1>3. ASSUME NEW h, Has(s, h), Head(s) # h
        PROVE  Has(t, h)
    <2>1. PICK i \in 1 .. Len(s) : s[i] = h
      BY <1>3 DEF Has
    <2>2. i # 1
      BY <1>3, <2>1
    <2>3. /\ i + Len(next) - 1 \in Len(next) + 1 .. Len(t)
          /\ (i + Len(next) - 1) - Len(next) + 1 = i
      BY <1>1, <2>1, <2>2
    <2>4. t[i + Len(next) - 1] = h
      BY <1>1, <2>1, <2>3
    <2>5. i + Len(next) - 1 \in 1 .. Len(t)
      BY <1>1, <2>3
    <2>. QED
      BY <2>4, <2>5 DEF Has
  <1>4. next # <<>> => t # <<>> /\ Head(t) = Head(next)
    OBVIOUS
  <1>. QED
    BY <1>1, <1>2, <1>3, <1>4

\* A handler that emits no "acquire" leaves the other units alone, and "acquire" last.
LEMMA HandledLast ==
    ASSUME TypeOK, RestartInv, NEW u \in Units, NEW h, NEW c \in Context,
           NEW next \in Seq(Handlers), ~Has(next, "acquire"), Handle(u, h, c, next),
           needed' \in [Units -> BOOLEAN], \A v \in Units \ {u} : needed'[v] = needed[v],
           needed'[u] /\ hook[u] # "none" => KeptByFailure(u) /\ KeptBySuccess(u)'
    PROVE  RestartInv'
  <1>. DEFINE s == todo[u]
              t == next \o Tail(s)
  <1>1. /\ s \in Seq(Handlers) /\ s # <<>> /\ Head(s) = h
        /\ todo'[u] = t /\ ctx'[u] = c
        /\ \A v \in Units \ {u} : todo'[v] = todo[v] /\ ctx'[v] = ctx[v]
        /\ UNCHANGED <<unitState, deferred, failed, hook>>
    BY DEF Handle, TypeOK, databags
  <1>2. /\ Len(t) = Len(next) + Len(s) - 1
        /\ \A i \in 1 .. Len(next) : t[i] = next[i]
        /\ \A i \in Len(next) + 1 .. Len(t) : t[i] = s[i - Len(next) + 1]
    BY <1>1, Stacked
  <1>3. ASSUME NEW i \in 1 .. Len(t), t[i] = "acquire"
        PROVE  i = Len(t) /\ hook[u] = "config"
    <2>1. i \in Len(next) + 1 .. Len(t)
      BY <1>2, <1>3 DEF Has
    <2>2. i - Len(next) + 1 \in 1 .. Len(s) /\ s[i - Len(next) + 1] = "acquire"
      BY <1>2, <1>3, <2>1
    <2>3. i - Len(next) + 1 = Len(s) /\ hook[u] = "config"
      BY <2>2 DEF RestartInv, AcquireLast
    <2>. QED
      BY <1>1, <1>2, <2>3
  <1>4. AcquireLast(u)'
    BY <1>1, <1>3 DEF AcquireLast
  <1>5. ASSUME NEW v \in Units \ {u}
        PROVE  /\ AcquireLast(v)'
               /\ needed'[v] /\ hook'[v] # "none" => (KeptByFailure(v) /\ KeptBySuccess(v))'
    BY <1>1 DEF RestartInv, AcquireLast, KeptByFailure, KeptBySuccess
  <1>6. KeptByFailure(u)' = KeptByFailure(u)
    BY <1>1 DEF KeptByFailure
  <1>7. hook[u] # "none"
    BY <1>1 DEF RestartInv
  <1>8. NoRestartForgotten'
    <2>1. ASSUME NEW v \in Units \ {u}, needed'[v], hook'[v] = "none"
          PROVE  unitState'[v] = "acquire" \/ deferred'[v] \/ failed'[v] = "config"
      BY <1>1, <2>1 DEF RestartInv, NoRestartForgotten
    <2>. QED
      BY <1>1, <1>7, <2>1 DEF NoRestartForgotten
  <1>. QED
    BY <1>1, <1>4, <1>5, <1>6, <1>7, <1>8 DEF RestartInv

\* A handler that keeps the state of its unit's own lock, and needs no restart itself.
LEMMA HandledAlike ==
    ASSUME TypeOK, RestartInv, NEW u \in Units, NEW h, NEW c \in Context,
           NEW next \in Seq(Handlers), Handle(u, h, c, next), UNCHANGED needed,
           h \notin {"run", "restart", "acquire"},
           c.unit = ctx[u].unit, c.deferred = ctx[u].deferred,
           ~Has(next, "acquire"), ~Has(next, "release")
    PROVE  RestartInv'
  <1>. DEFINE s == todo[u]
              t == next \o Tail(s)
  <1>1. /\ s \in Seq(Handlers) /\ s # <<>> /\ Head(s) = h
        /\ todo'[u] = t /\ ctx'[u] = c /\ hook' = hook
    BY DEF Handle, TypeOK
  <1>2. ASSUME needed[u], hook[u] # "none"
        PROVE  KeptByFailure(u) /\ KeptBySuccess(u)'
    <2>1. KeptByFailure(u) /\ KeptBySuccess(u)
      BY <1>2 DEF RestartInv
    <2>2. /\ Has(s, "acquire") => Has(t, "acquire")
          /\ Has(t, "release") => Has(s, "release")
      BY <1>1, Stacked
    <2>. QED
      BY <1>1, <2>1, <2>2 DEF KeptBySuccess
  <1>. QED
    BY <1>2, HandledLast DEF TypeOK

LEMMA HandlerRestart ==
    ASSUME TypeOK, RestartInv, NEW u \in Units, Handler(u)
    PROVE  RestartInv'
  <1>. DEFINE c == ctx[u]
              s == todo[u]
  <1>1. c \in Context
    BY DEF TypeOK
  <1>2. /\ <<>> \in Seq(Handlers) /\ <<"run">> \in Seq(Handlers)
        /\ <<"restart", "release">> \in Seq(Handlers) /\ <<"release">> \in Seq(Handlers)
        /\ <<"restarting">> \in Seq(Handlers) /\ <<"process">> \in Seq(Handlers)
    BY DEF Handlers
  <1>3. CASE OnRelationChanged(u)
    <2>1. /\ ~Has(RelationChanged(c, u), "acquire") /\ ~Has(RelationChanged(c, u), "release")
          /\ RelationChanged(c, u) \in Seq(Handlers)
      BY Emitted, RelationChangedType
    <2>. QED
      BY <1>1, <1>3, <2>1, HandledAlike DEF OnRelationChanged
  <1>4. CASE Process(u)
    <2>1. \E d \in Context, next \in {<<>>, <<"run">>} :
             /\ d.unit = c.unit /\ d.deferred = c.deferred
             /\ Handle(u, "process", d, next)
      <3>1. ASSUME NEW C, NEW G, C \subseteq Units, G \subseteq Units
            PROVE  /\ Regrant(c, C, G) \in Context
                   /\ Regrant(c, C, G).unit = c.unit
                   /\ Regrant(c, C, G).deferred = c.deferred
        BY <1>1, <3>1 DEF Regrant, Context
      <3>2. Released(c) \subseteq Units /\ Pending(c) \subseteq Units
        BY <1>1 DEF Released, Pending, Context
      <3>3. CASE ProcessNotLeader(u)
        BY <1>1, <3>3 DEF ProcessNotLeader
      <3>4. CASE ProcessHeld(u)
        BY <3>1, <3>2, <3>4 DEF ProcessHeld
      <3>5. CASE ProcessGrant(u)
        <4>1. PICK x \in Pending(c) :
                 Handle(u, "process", Regrant(c, Released(c), {x}),
                        IF x = u THEN <<"run">> ELSE <<>>)
          BY <3>5 DEF ProcessGrant
        <4>. QED
          BY <3>1, <3>2, <4>1
      <3>6. CASE ProcessIdle(u)
        BY <3>1, <3>2, <3>6 DEF ProcessIdle
      <3>. QED
        BY <1>4, <3>3, <3>4, <3>5, <3>6 DEF Process
    <2>2. \A next \in {<<>>, <<"run">>} :
             next \in Seq(Handlers) /\ ~Has(next, "acquire") /\ ~Has(next, "release")
      BY <1>2, Emitted
    <2>3. UNCHANGED needed
      BY <1>4 DEF Process
    <2>. QED
      BY <2>1, <2>2, <2>3, HandledAlike
  <1>5. CASE RestartEnds(u)
    <2>1. ~Has(<<>>, "acquire") /\ ~Has(<<>>, "release")
      BY Emitted
    <2>. QED
      BY <1>1, <1>2, <1>5, <2>1, HandledAlike DEF RestartEnds
  <1>6. CASE RestartPostgresql(u)
    <2>1. PICK next \in {<<"restarting">>, <<>>} : Handle(u, "restart", c, next)
      BY <1>6 DEF RestartPostgresql
    <2>2. next \in Seq(Handlers) /\ ~Has(next, "acquire")
      BY <1>2, Emitted
    <2>3. /\ needed' \in [Units -> BOOLEAN] /\ ~needed'[u]
          /\ \A v \in Units \ {u} : needed'[v] = needed[v]
      BY <1>6 DEF RestartPostgresql, TypeOK
    <2>. QED
      BY <1>1, <2>1, <2>2, <2>3, HandledLast
  <1>7. CASE RunReady(u)
    <2>1. /\ ~Has(<<"restart", "release">>, "acquire")
          /\ Handle(u, "run", c, <<"restart", "release">>) /\ UNCHANGED needed
      BY <1>7, Emitted DEF RunReady
    <2>2. Head(todo'[u]) = "restart" /\ todo'[u] # <<>>
      BY <1>2, <2>1, Stacked DEF Handle, TypeOK
    <2>3. needed[u] /\ hook[u] # "none" => KeptByFailure(u) /\ KeptBySuccess(u)'
      BY <2>2 DEF RestartInv, KeptBySuccess
    <2>. QED
      BY <1>1, <1>2, <2>1, <2>3, HandledLast DEF TypeOK
  <1>8. CASE RunDeferred(u)
    <2>. DEFINE d == [c EXCEPT !.deferred = TRUE]
    <2>1. /\ ~Has(<<"release">>, "acquire") /\ d \in Context /\ d.deferred
          /\ Handle(u, "run", d, <<"release">>) /\ UNCHANGED needed
      BY <1>1, <1>8, Emitted DEF RunDeferred, Context
    <2>2. ctx'[u].deferred
      BY <2>1 DEF Handle, TypeOK
    <2>3. needed[u] /\ hook[u] # "none" => KeptByFailure(u) /\ KeptBySuccess(u)'
      BY <2>2 DEF RestartInv, KeptBySuccess
    <2>. QED
      BY <1>2, <2>1, <2>3, HandledLast DEF TypeOK
  <1>9. CASE ReleaseLock(u)
    <2>. DEFINE d == SetUnit(c, u, "release")
                t == <<"process">> \o Tail(s)
    <2>1. /\ ~Has(<<"process">>, "acquire") /\ d \in Context
          /\ d.deferred = c.deferred
          /\ Handle(u, "release", d, <<"process">>) /\ UNCHANGED needed
      BY <1>1, <1>9, Emitted DEF ReleaseLock, Context, SetUnit
    <2>2. /\ s \in Seq(Handlers) /\ s # <<>> /\ Head(s) = "release" /\ s[1] = "release"
          /\ todo'[u] = t /\ ctx'[u] = d
      BY <2>1 DEF Handle, TypeOK
    <2>3. ASSUME needed[u], hook[u] # "none"
          PROVE  KeptByFailure(u) /\ KeptBySuccess(u)'
      <3>1. Has(s, "release")
        BY <2>2 DEF Has
      <3>2. KeptByFailure(u) /\ (c.deferred \/ Has(s, "acquire"))
        BY <2>2, <2>3, <3>1 DEF RestartInv, KeptBySuccess
      <3>3. Has(s, "acquire") => Has(t, "acquire")
        <4>1. \A g : Has(s, g) /\ Head(s) # g => Has(t, g)
          BY <1>2, <2>2, Stacked
        <4>. QED
          BY <2>2, <4>1
      <3>. QED
        BY <2>1, <2>2, <3>2, <3>3 DEF KeptBySuccess
    <2>. QED
      BY <1>2, <2>1, <2>3, HandledLast DEF TypeOK
  <1>10. CASE OnAcquireLock(u)
    <2>. DEFINE d == SetUnit(c, u, "acquire")
                next == RelationChanged(d, u)
                t == next \o Tail(s)
    <2>1. /\ ~Has(next, "acquire") /\ ~Has(next, "release") /\ next \in Seq(Handlers)
      BY Emitted, RelationChangedType
    <2>2. /\ d \in Context /\ d.unit[u] = "acquire"
          /\ Handle(u, "acquire", d, next)
          /\ needed' \in [Units -> BOOLEAN] /\ \A v \in Units \ {u} : needed'[v] = needed[v]
      <3>1. d \in Context
        BY <1>1, SetUnitType
      <3>2. d.unit[u] = "acquire"
        BY <1>1 DEF SetUnit, Context
      <3>3. Handle(u, "acquire", d, next) /\ needed' = [needed EXCEPT ![u] = TRUE]
        BY <1>10 DEF OnAcquireLock
      <3>. QED
        BY <3>1, <3>2, <3>3 DEF TypeOK
    <2>3. /\ s \in Seq(Handlers) /\ s # <<>> /\ s[1] = "acquire"
          /\ todo'[u] = t /\ ctx'[u] = d
      BY <2>2 DEF Handle, TypeOK
    <2>4. Len(s) = 1 /\ hook[u] = "config"
      <3>1. 1 \in 1 .. Len(s)
        BY <2>3
      <3>. QED
        BY <2>3, <3>1 DEF RestartInv, AcquireLast
    <2>5. ~Has(t, "release")
      <3>1. ~Has(s, "release")
        BY <2>3, <2>4 DEF Has
      <3>. QED
        BY <2>1, <2>3, <3>1, Stacked
    <2>6. KeptByFailure(u) /\ KeptBySuccess(u)'
      BY <2>2, <2>3, <2>4, <2>5 DEF KeptByFailure, KeptBySuccess
    <2>. QED
      BY <2>1, <2>2, <2>6, HandledLast
  <1>. QED
    BY <1>3, <1>4, <1>5, <1>6, <1>7, <1>8, <1>9, <1>10 DEF Handler, RunWithLock, Restart

LEMMA BeginRestart ==
    ASSUME TypeOK, RestartInv, NEW u \in Units, NEW t \in Triggers, Begin(u, t)
    PROVE  RestartInv'
  <1>. DEFINE s == (IF deferred[u] THEN <<"run">> ELSE <<>>) \o MainHandlers(t)
  <1>1. /\ todo'[u] = s /\ hook'[u] = t /\ t # "none"
        /\ ctx'[u].unit = unitState /\ ~ctx'[u].deferred
        /\ \A v \in Units \ {u} : /\ todo'[v] = todo[v] /\ ctx'[v] = ctx[v]
                                  /\ hook'[v] = hook[v] /\ failed'[v] = failed[v]
        /\ UNCHANGED <<unitState, deferred, needed>>
        /\ hook[u] = "none" /\ (failed[u] # "none" => t = failed[u])
    BY DEF Begin, Due, TypeOK, Triggers, databags, history
  <1>2. /\ \A i \in 1 .. Len(s) : s[i] = "acquire" => i = Len(s) /\ t = "config"
        /\ ~Has(s, "release")
        /\ t = "config" => Has(s, "acquire")
        /\ deferred[u] => s # <<>> /\ Head(s) = "run"
    <2>. DEFINE m == IF t = "config" THEN "acquire" ELSE IF t = "changed" THEN "changed" ELSE "process"
    <2>1. MainHandlers(t) = IF t = "other" THEN <<>> ELSE <<m>>
      BY DEF MainHandlers, Triggers
    <2>2. m \notin {"run", "release"} /\ (m = "acquire" <=> t = "config")
      OBVIOUS
    <2>0. <<>> \in Seq(Handlers) /\ <<"run">> \in Seq(Handlers) /\ <<m>> \in Seq(Handlers)
      BY DEF Handlers
    <2>. HIDE DEF m, s
    <2>3. CASE deferred[u] /\ t # "other"
      <3>1. s = <<"run">> \o <<m>>
        BY <2>1, <2>3 DEF s
      <3>2. Len(s) = 2 /\ s[1] = "run" /\ s[2] = m
        BY <3>1
      <3>. QED
        BY <2>2, <2>3, <3>1, <3>2 DEF Has
    <2>4. CASE ~deferred[u] /\ t # "other"
      <3>1. s = <<m>>
        BY <2>0, <2>1, <2>4, ConcatEmptySeq DEF s
      <3>2. Len(s) = 1 /\ s[1] = m /\ 1 \in 1 .. Len(s)
        BY <3>1
      <3>. QED
        BY <2>2, <2>4, <3>2 DEF Has
    <2>5. CASE deferred[u] /\ t = "other"
      <3>1. s = <<"run">>
        BY <2>0, <2>1, <2>5, ConcatEmptySeq DEF s
      <3>2. Len(s) = 1 /\ s[1] = "run"
        BY <3>1
      <3>. QED
        BY <2>2, <2>5, <3>1, <3>2 DEF Has
    <2>6. CASE ~deferred[u] /\ t = "other"
      <3>1. s = <<>> \o <<>>
        BY <2>1, <2>6 DEF s
      <3>2. Len(s) = 0
        BY <3>1
      <3>. QED
        BY <2>6, <3>2 DEF Has
    <2>. QED
      BY <2>3, <2>4, <2>5, <2>6
  <1>3. AcquireLast(u)'
    BY <1>1, <1>2 DEF AcquireLast
  <1>4. needed[u] => KeptByFailure(u)' /\ KeptBySuccess(u)'
    <2>. SUFFICES ASSUME needed[u]
                  PROVE  KeptByFailure(u)' /\ KeptBySuccess(u)'
      OBVIOUS
    <2>1. unitState[u] = "acquire" \/ deferred[u] \/ failed[u] = "config"
      BY <1>1 DEF RestartInv, NoRestartForgotten
    <2>. QED
      BY <1>1, <1>2, <2>1 DEF KeptByFailure, KeptBySuccess
  <1>5. ASSUME NEW v \in Units \ {u}
        PROVE  /\ AcquireLast(v)'
               /\ hook'[v] = "none" => todo'[v] = <<>>
               /\ needed'[v] /\ hook'[v] # "none" => (KeptByFailure(v) /\ KeptBySuccess(v))'
    BY <1>1 DEF RestartInv, AcquireLast, KeptByFailure, KeptBySuccess
  <1>6. NoRestartForgotten'
    <2>1. ASSUME NEW v \in Units, needed'[v], hook'[v] = "none"
          PROVE  unitState'[v] = "acquire" \/ deferred'[v] \/ failed'[v] = "config"
      <3>1. v # u
        BY <1>1, <2>1
      <3>. QED
        BY <1>1, <2>1, <3>1 DEF RestartInv, NoRestartForgotten
    <2>. QED
      BY <2>1 DEF NoRestartForgotten
  <1>. QED
    BY <1>1, <1>3, <1>4, <1>5, <1>6 DEF RestartInv

\* A hook is left by unit u, which then keeps the request it needs.
LEMMA LeaveRestart ==
    ASSUME TypeOK, RestartInv, NEW u \in Units, Leave(u), UNCHANGED needed,
           \A v \in Units \ {u} : /\ unitState'[v] = unitState[v]
                                  /\ deferred'[v] = deferred[v] /\ failed'[v] = failed[v],
           needed[u] => unitState'[u] = "acquire" \/ deferred'[u] \/ failed'[u] = "config"
    PROVE  RestartInv'
  <1>1. /\ todo'[u] = <<>> /\ hook'[u] = "none"
        /\ \A v \in Units \ {u} : todo'[v] = todo[v] /\ ctx'[v] = ctx[v] /\ hook'[v] = hook[v]
    BY DEF Leave, TypeOK
  <1>2. AcquireLast(u)'
    BY <1>1 DEF AcquireLast
  <1>3. ASSUME NEW v \in Units \ {u}
        PROVE  /\ AcquireLast(v)'
               /\ hook'[v] = "none" => todo'[v] = <<>>
               /\ needed'[v] /\ hook'[v] # "none" => (KeptByFailure(v) /\ KeptBySuccess(v))'
    BY <1>1 DEF RestartInv, AcquireLast, KeptByFailure, KeptBySuccess
  <1>4. NoRestartForgotten'
    BY <1>1 DEF RestartInv, NoRestartForgotten
  <1>. QED
    BY <1>1, <1>2, <1>3, <1>4 DEF RestartInv

LEMMA EndRestart ==
    ASSUME TypeOK, RestartInv, NEW u \in Units, End(u)
    PROVE  RestartInv'
  <1>1. /\ todo[u] = <<>> /\ hook[u] # "none"
        /\ unitState'[u] = ctx[u].unit[u] /\ deferred'[u] = ctx[u].deferred
        /\ \A v \in Units \ {u} : unitState'[v] = unitState[v] /\ deferred'[v] = deferred[v]
        /\ UNCHANGED <<needed, failed>> /\ Leave(u)
    BY DEF End, TypeOK
  <1>2. ~Has(todo[u], "acquire")
    BY <1>1 DEF Has
  <1>3. needed[u] => unitState'[u] = "acquire" \/ deferred'[u]
    BY <1>1, <1>2 DEF RestartInv, KeptBySuccess
  <1>. QED
    BY <1>1, <1>3, LeaveRestart

LEMMA FailRestart ==
    ASSUME TypeOK, RestartInv, NEW u \in Units, Fail(u)
    PROVE  RestartInv'
  <1>1. /\ hook[u] # "none" /\ failed'[u] = hook[u] /\ Leave(u)
        /\ UNCHANGED <<needed, unitState, deferred>>
        /\ \A v \in Units \ {u} : failed'[v] = failed[v]
    BY DEF Fail, TypeOK, databags, history
  <1>2. needed[u] => unitState'[u] = "acquire" \/ deferred'[u] \/ failed'[u] = "config"
    BY <1>1 DEF RestartInv, KeptByFailure
  <1>. QED
    BY <1>1, <1>2, LeaveRestart

\* A unit that needs a restart asks for it, has deferred it or will find it again, for
\* any number of units, whatever fails, and whoever leads, when hooks overlap.
THEOREM RestartsKept == Spec => []NoRestartForgotten
  <1>1. Init => RestartInv
    BY DEF Init, RestartInv, NoRestartForgotten, AcquireLast
  <1>2. TypeOK /\ RestartInv /\ [Next]_vars => RestartInv'
    <2>. SUFFICES ASSUME TypeOK, RestartInv, [Next]_vars
                  PROVE  RestartInv'
      OBVIOUS
    <2>1. ASSUME NEW u \in Units, Step(u)
          PROVE  RestartInv'
      BY <2>1, HandlerRestart, EndRestart, FailRestart DEF Step, Handler, Refused
    <2>2. ASSUME NEW u \in Units, Crash(u)
          PROVE  RestartInv'
      BY <2>2, FailRestart DEF Crash
    <2>3. ASSUME NEW u \in Units, NEW t \in Triggers, Begin(u, t)
          PROVE  RestartInv'
      BY <2>3, BeginRestart
    <2>4. ASSUME UNCHANGED <<hook, todo, ctx>>,
                 \A v \in Units : \/ ~needed'[v] /\ hook[v] = "none"
                                  \/ /\ needed'[v] = needed[v] /\ unitState'[v] = unitState[v]
                                     /\ deferred'[v] = deferred[v] /\ failed'[v] = failed[v]
          PROVE  RestartInv'
      BY <2>4 DEF RestartInv, NoRestartForgotten, AcquireLast, KeptByFailure, KeptBySuccess
    <2>5. ASSUME NEW u \in Units, Elect(u)
          PROVE  RestartInv'
      BY <2>4, <2>5 DEF Elect, databags, execution, history
    <2>6. CASE Remove
      BY <2>4, <2>6 DEF Remove, execution, TypeOK
    <2>7. CASE Add
      BY <2>4, <2>7 DEF Add, databags, execution
    <2>8. CASE UNCHANGED vars
      BY <2>4, <2>8 DEF vars, databags, execution, history
    <2>. QED
      BY <2>1, <2>2, <2>3, <2>5, <2>6, <2>7, <2>8 DEF Next
  <1>3. RestartInv => NoRestartForgotten
    BY DEF RestartInv
  <1>. QED
    BY <1>1, <1>2, <1>3, TypeCorrect, PTL DEF Spec
-----------------------------------------------------------------------------
(* The protocol implements the lock of RestartLock. *)

\* What the lock needs of Juju: no unit takes the name of one that was removed, and
\* none loses the leadership in the middle of a hook.
Orderly ==
    /\ scale' <= scale
    /\ \A u \in Units : leader = u /\ hook[u] # "none" => leader' = u

\* With no event deferred, what a hook has left to do is one of these.
Shapes ==
    {<<>>, <<"acquire">>, <<"changed">>, <<"process">>, <<"process", "process">>,
     <<"run">>, <<"run", "process">>,
     <<"restart", "release">>, <<"restart", "release", "process">>,
     <<"restarting", "release">>, <<"restarting", "release", "process">>,
     <<"release">>, <<"release", "process">>}

\* u is in _on_run_with_lock.
Acting(s) == s # <<>> /\ Head(s) \in {"run", "restart", "restarting", "release"}
Active(u) == Acting(todo[u])

\* u has the lock, if only in the context of its own hook when it is the leader.
Holder(u) == leader = u \/ appState[u] = "granted"

\* A release that is not processed yet, and that no hook of u is about to undo.
Spent(u) ==
    /\ hook[u] # "config" /\ failed[u] # "config"
    /\ hook[u] # "none" => ctx[u].unit[u] = "release"

\* What a unit in a hook knows of its own lock.
InHook(u) ==
    LET c == ctx[u] IN
    /\ u \in Present /\ u \in c.units /\ failed[u] = "none"
    /\ c.unit[u] = "acquire" => unitState[u] = "acquire" \/ hook[u] = "config"
    /\ c.unit[u] = "idle" => unitState[u] = "idle" /\ c.app[u] = "idle"
    /\ c.unit[u] = "release" => unitState[u] = "release" \/ Holder(u)
    /\ c.app[u] = "granted" /\ c.unit[u] # "release" => Holder(u)
    /\ Active(u) => c.unit[u] = "acquire" /\ c.app[u] = "granted"
    /\ todo[u] = <<"acquire">> =>
          hook[u] = "config" /\ ~(c.app[u] = "granted" /\ c.unit[u] = "release")

Settled(u) ==
    /\ todo[u] \in Shapes /\ ~deferred[u] /\ ~ctx[u].deferred
    /\ u \notin Present => unitState[u] = "idle"
    /\ u \in Present /\ appState[u] = "granted" => unitState[u] # "idle"
    /\ appState[u] = "granted" /\ unitState[u] = "release" => Spent(u)

\* What the leader l in a hook knows of the lock of another unit v.
Sees(l, v) ==
    LET c == ctx[l] IN
    /\ appState[v] = "granted" /\ c.app[v] = "idle" => c.unit[v] = "release"
    /\ appState[v] = "idle" /\ c.app[v] = "granted" => c.unit[v] = "acquire"
    /\ v \in Present /\ appState[v] = "granted" /\ c.unit[v] = "release" => unitState[v] = "release"
    /\ v \in Present /\ appState[v] = "idle" /\ c.unit[v] = "acquire" => unitState[v] = "acquire"

LockInv ==
    /\ inherited = {}
    /\ \A u \in Units : Settled(u) /\ (hook[u] # "none" => InHook(u))
    /\ \A l, v \in Units : leader = l /\ hook[l] # "none" /\ v # l => Sees(l, v)

LEMMA ShortTuples ==
    /\ \A a : Head(<<a>>) = a /\ Tail(<<a>>) = <<>> /\ <<a>> # <<>>
    /\ \A a, b : Head(<<a, b>>) = a /\ Tail(<<a, b>>) = <<b>> /\ <<a, b>> # <<>>
    /\ \A a, b, c : /\ Head(<<a, b, c>>) = a /\ Tail(<<a, b, c>>) = <<b, c>>
                    /\ <<a, b, c>> # <<>>
  <1>1. \A a : Head(<<a>>) = a /\ Tail(<<a>>) = <<>> /\ <<a>> # <<>>
    OBVIOUS
  <1>2. \A a, b : Head(<<a, b>>) = a /\ Tail(<<a, b>>) = <<b>> /\ <<a, b>> # <<>>
    OBVIOUS
  <1>3. \A a, b, c : /\ Head(<<a, b, c>>) = a /\ Tail(<<a, b, c>>) = <<b, c>>
                     /\ <<a, b, c>> # <<>>
    OBVIOUS
  <1>. QED
    BY <1>1, <1>2, <1>3

LEMMA JoinedTuples ==
    ASSUME NEW S, NEW a \in S, NEW b \in S, NEW c \in S
    PROVE  /\ <<a>> \o <<b>> = <<a, b>>
           /\ <<a>> \o <<b, c>> = <<a, b, c>> /\ <<a, b>> \o <<c>> = <<a, b, c>>
  <1>1. /\ <<a>> \in Seq(S) /\ <<b>> \in Seq(S) /\ <<c>> \in Seq(S)
        /\ <<a, b>> \in Seq(S) /\ <<b, c>> \in Seq(S) /\ <<a, b, c>> \in Seq(S)
    OBVIOUS
  <1>2. ASSUME NEW s \in Seq(S), Len(s) = 2, s[1] = a, s[2] = b
        PROVE  s = <<a, b>>
    <2>1. \A i \in 1 .. Len(s) : s[i] = <<a, b>>[i]
      BY <1>2
    <2>. QED
      BY <1>1, <1>2, <2>1, SeqEqual
  <1>3. ASSUME NEW s \in Seq(S), Len(s) = 3, s[1] = a, s[2] = b, s[3] = c
        PROVE  s = <<a, b, c>>
    <2>1. \A i \in 1 .. Len(s) : s[i] = <<a, b, c>>[i]
      BY <1>3
    <2>. QED
      BY <1>1, <1>3, <2>1, SeqEqual
  <1>4. /\ <<a>> \o <<b>> \in Seq(S) /\ Len(<<a>> \o <<b>>) = 2
        /\ (<<a>> \o <<b>>)[1] = a /\ (<<a>> \o <<b>>)[2] = b
    BY <1>1
  <1>5. /\ <<a>> \o <<b, c>> \in Seq(S) /\ Len(<<a>> \o <<b, c>>) = 3
        /\ (<<a>> \o <<b, c>>)[1] = a /\ (<<a>> \o <<b, c>>)[2] = b /\ (<<a>> \o <<b, c>>)[3] = c
    BY <1>1
  <1>6. /\ <<a, b>> \o <<c>> \in Seq(S) /\ Len(<<a, b>> \o <<c>>) = 3
        /\ (<<a, b>> \o <<c>>)[1] = a /\ (<<a, b>> \o <<c>>)[2] = b /\ (<<a, b>> \o <<c>>)[3] = c
    BY <1>1
  <1>. QED
    BY <1>2, <1>3, <1>4, <1>5, <1>6

\* What is left of a hook after its innermost handler.
LEMMA ShapeTail ==
    ASSUME NEW s \in Shapes, s # <<>>
    PROVE  /\ Head(s) = "acquire" => s = <<"acquire">> /\ Tail(s) = <<>>
           /\ Head(s) = "changed" => Tail(s) = <<>>
           /\ Head(s) \in {"process", "run", "release"} => Tail(s) \in {<<>>, <<"process">>}
           /\ Head(s) \in {"restart", "restarting"}
                 => Tail(s) \in {<<"release">>, <<"release", "process">>}
  <1>1. CASE s \in {<<"acquire">>, <<"changed">>, <<"process">>, <<"run">>, <<"release">>}
    BY <1>1, ShortTuples
  <1>2. ASSUME NEW h \in {"process", "run", "release"}, s = <<h, "process">>
        PROVE  Head(s) = h /\ Tail(s) = <<"process">>
    BY <1>2, ShortTuples
  <1>3. ASSUME NEW h \in {"restart", "restarting"}, s = <<h, "release">>
        PROVE  Head(s) = h /\ Tail(s) = <<"release">>
    BY <1>3, ShortTuples
  <1>4. ASSUME NEW h \in {"restart", "restarting"}, s = <<h, "release", "process">>
        PROVE  Head(s) = h /\ Tail(s) = <<"release", "process">>
    BY <1>4, ShortTuples
  <1>5. \/ s \in {<<"acquire">>, <<"changed">>, <<"process">>, <<"run">>, <<"release">>}
        \/ \E h \in {"process", "run", "release"} : s = <<h, "process">>
        \/ \E h \in {"restart", "restarting"} : s = <<h, "release">>
        \/ \E h \in {"restart", "restarting"} : s = <<h, "release", "process">>
    BY DEF Shapes
  <1>. QED
    BY <1>1, <1>2, <1>3, <1>4, <1>5

\* What the handlers put before it.
LEMMA Joined ==
    /\ \A r \in {<<>>, <<"process">>, <<"release">>, <<"release", "process">>} :
          <<>> \o r = r
    /\ \A r \in {<<>>, <<"process">>} :
          /\ <<"process">> \o r \in {<<"process">>, <<"process", "process">>}
          /\ <<"run">> \o r \in {<<"run">>, <<"run", "process">>}
          /\ <<"restart", "release">> \o r
                \in {<<"restart", "release">>, <<"restart", "release", "process">>}
          /\ <<"release">> \o r \in {<<"release">>, <<"release", "process">>}
    /\ \A r \in {<<"release">>, <<"release", "process">>} :
          <<"restarting">> \o r
             \in {<<"restarting", "release">>, <<"restarting", "release", "process">>}
    /\ (<<"run">> \o <<"process">>) \o <<>> = <<"run", "process">>
    /\ (<<>> \o <<"process">>) \o <<>> = <<"process">>
  <1>1. /\ <<>> \in Seq(Handlers) /\ <<"process">> \in Seq(Handlers) /\ <<"run">> \in Seq(Handlers)
        /\ <<"release">> \in Seq(Handlers) /\ <<"release", "process">> \in Seq(Handlers)
        /\ <<"restart", "release">> \in Seq(Handlers) /\ <<"run", "process">> \in Seq(Handlers)
    BY DEF Handlers
  <1>2. \A r \in Seq(Handlers) : <<>> \o r = r /\ r \o <<>> = r
    BY ConcatEmptySeq
  <1>3. /\ <<"process">> \o <<"process">> = <<"process", "process">>
        /\ <<"run">> \o <<"process">> = <<"run", "process">>
        /\ <<"restart", "release">> \o <<"process">> = <<"restart", "release", "process">>
        /\ <<"release">> \o <<"process">> = <<"release", "process">>
        /\ <<"restarting">> \o <<"release">> = <<"restarting", "release">>
        /\ <<"restarting">> \o <<"release", "process">> = <<"restarting", "release", "process">>
    <2>1. \A a, b, c \in Handlers : /\ <<a>> \o <<b>> = <<a, b>>
                                    /\ <<a>> \o <<b, c>> = <<a, b, c>>
                                    /\ <<a, b>> \o <<c>> = <<a, b, c>>
      BY JoinedTuples
    <2>2. {"process", "run", "restart", "release", "restarting"} \subseteq Handlers
      BY DEF Handlers
    <2>. QED
      BY <2>1, <2>2
  <1>. QED
    BY <1>1, <1>2, <1>3

LEMMA ActingShapes ==
    /\ \A s \in {<<>>, <<"process">>, <<"process", "process">>} :
          s \in Shapes /\ ~Acting(s) /\ s # <<"acquire">>
    /\ \A s \in {<<"run">>, <<"run", "process">>} :
          s \in Shapes /\ Acting(s) /\ s # <<"acquire">> /\ Head(s) = "run"
    /\ \A s \in {<<"restart", "release">>, <<"restart", "release", "process">>} :
          s \in Shapes /\ Acting(s) /\ s # <<"acquire">> /\ Head(s) = "restart"
    /\ \A s \in {<<"restarting", "release">>, <<"restarting", "release", "process">>} :
          s \in Shapes /\ Acting(s) /\ s # <<"acquire">> /\ Head(s) = "restarting"
    /\ \A s \in {<<"release">>, <<"release", "process">>} :
          s \in Shapes /\ Acting(s) /\ s # <<"acquire">> /\ Head(s) = "release"
  <1>1. \A h : h \in {"run", "restart", "restarting", "release"} <=> h = "run" \/ h = "restart"
                  \/ h = "restarting" \/ h = "release"
    OBVIOUS
  <1>2. \A h : h # "acquire" => \A b : <<h>> # <<"acquire">> /\ <<h, b>> # <<"acquire">>
    OBVIOUS
  <1>3. \A h, b, c : <<h, b, c>> # <<"acquire">>
    OBVIOUS
  <1>. QED
    BY <1>1, <1>2, <1>3, ShortTuples DEF Shapes, Acting

\* Two units are never both in _on_run_with_lock: a leader that runs has seen no other
\* grant, but for those it cleared, whose units had released them.
LEMMA OneActive ==
    ASSUME TypeOK, GrantInv, LockInv, NEW u \in Units, NEW v \in Units, Active(u), Active(v)
    PROVE  u = v
  <1>. SUFFICES ASSUME u # v
                PROVE  FALSE
    OBVIOUS
  <1>1. ASSUME NEW w \in Units, Active(w)
        PROVE  /\ hook[w] # "none" /\ w \in Present /\ w \in ctx[w].units
               /\ ctx[w].unit[w] = "acquire" /\ ctx[w].app[w] = "granted" /\ Holder(w)
    <2>1. hook[w] # "none"
      BY <1>1 DEF GrantInv, Active, Acting
    <2>2. InHook(w)
      BY <2>1 DEF LockInv
    <2>. QED
      BY <1>1, <2>1, <2>2 DEF InHook
  <1>2. ASSUME NEW l \in Units, NEW w \in Units, Active(l), Active(w), leader = l, l # w
        PROVE  FALSE
    <2>. DEFINE c == ctx[l]
    <2>1. /\ hook[l] # "none" /\ l \in c.units /\ c.app[l] = "granted"
          /\ w \in Present /\ ctx[w].unit[w] = "acquire" /\ appState[w] = "granted"
          /\ hook[w] # "none"
      BY <1>1, <1>2 DEF Holder
    <2>2. LeaderView(l) /\ inherited = {}
      BY <1>2, <2>1 DEF GrantInv, LockInv
    <2>3. c.app[w] # "granted"
      BY <1>2, <2>1, <2>2 DEF LeaderView
    <2>4. c.app[w] = "idle"
      BY <2>3 DEF TypeOK, Context
    <2>5. Sees(l, w) /\ Settled(w)
      BY <1>2, <2>1 DEF LockInv
    <2>6. unitState[w] = "release"
      BY <2>1, <2>4, <2>5 DEF Sees
    <2>. QED
      BY <2>1, <2>5, <2>6 DEF Settled, Spent
  <1>3. leader # u /\ leader # v
    BY <1>2
  <1>4. appState[u] = "granted" /\ appState[v] = "granted" /\ u \in Present /\ v \in Present
    BY <1>1, <1>3 DEF Holder
  <1>5. inherited = {}
    BY DEF LockInv
  <1>. QED
    BY <1>4, <1>5 DEF GrantInv, SingleGrant

\* What a handler of u has to keep.
LEMMA HandledLock ==
    ASSUME TypeOK, LockInv, NEW u \in Units, NEW h, NEW c \in Context, NEW next,
           Handle(u, h, c, next), hook[u] # "none",
           todo'[u] \in Shapes, ~c.deferred,
           \A v \in Units \ {u} : c.unit[v] = ctx[u].unit[v],
           appState[u] = "granted" /\ unitState[u] = "release" => c.unit[u] = "release",
           InHook(u)',
           leader = u => \A v \in Units \ {u} :
              /\ appState[v] = "granted" /\ c.app[v] = "idle" => c.unit[v] = "release"
              /\ appState[v] = "idle" /\ c.app[v] = "granted" => c.unit[v] = "acquire"
    PROVE  LockInv'
  <1>1. /\ UNCHANGED <<scale, leader, unitState, appState, deferred, failed, hook, inherited>>
        /\ ctx'[u] = c
        /\ \A v \in Units \ {u} : ctx'[v] = ctx[v] /\ todo'[v] = todo[v]
        /\ Present' = Present
    BY DEF Handle, TypeOK, cluster, databags, Present
  <1>2. ASSUME NEW v \in Units
        PROVE  Settled(v)'
    <2>1. Settled(v)
      BY DEF LockInv
    <2>2. CASE v = u
      BY <1>1, <2>1, <2>2 DEF Settled, Spent
    <2>3. CASE v # u
      BY <1>1, <2>1, <2>3 DEF Settled, Spent
    <2>. QED
      BY <2>2, <2>3
  <1>3. ASSUME NEW v \in Units, v # u, hook'[v] # "none"
        PROVE  InHook(v)'
    <2>1. InHook(v)
      BY <1>1, <1>3 DEF LockInv
    <2>. QED
      BY <1>1, <1>3, <2>1 DEF InHook, Holder, Active
  <1>4. ASSUME NEW l \in Units, NEW v \in Units, leader' = l, hook'[l] # "none", v # l
        PROVE  Sees(l, v)'
    <2>1. Sees(l, v)
      BY <1>1, <1>4 DEF LockInv
    <2>2. CASE l = u
      BY <1>1, <1>4, <2>1, <2>2 DEF Sees
    <2>3. CASE l # u
      BY <1>1, <1>4, <2>1, <2>3 DEF Sees
    <2>. QED
      BY <2>2, <2>3
  <1>. QED
    BY <1>1, <1>2, <1>3, <1>4 DEF LockInv

\* A handler that changes nothing its unit knows.
LEMMA HandledSame ==
    ASSUME TypeOK, LockInv, NEW u \in Units, NEW h, NEW next,
           Handle(u, h, ctx[u], next), hook[u] # "none",
           todo'[u] \in Shapes, todo'[u] # <<"acquire">>,
           Acting(todo'[u]) => ctx[u].unit[u] = "acquire" /\ ctx[u].app[u] = "granted"
    PROVE  LockInv'
  <1>. DEFINE c == ctx[u]
  <1>1. /\ UNCHANGED <<scale, leader, unitState, appState, failed, hook>>
        /\ ctx'[u] = c /\ Present' = Present
    BY DEF Handle, TypeOK, cluster, databags, Present
  <1>2. InHook(u) /\ Settled(u) /\ c \in Context
    BY DEF LockInv, TypeOK
  <1>3. InHook(u)'
    BY <1>1, <1>2 DEF InHook, Holder, Active
  <1>4. leader = u => \A v \in Units \ {u} :
              /\ appState[v] = "granted" /\ c.app[v] = "idle" => c.unit[v] = "release"
              /\ appState[v] = "idle" /\ c.app[v] = "granted" => c.unit[v] = "acquire"
    BY DEF LockInv, Sees
  <1>5. appState[u] = "granted" /\ unitState[u] = "release" => c.unit[u] = "release"
    BY <1>2 DEF Settled, Spent
  <1>6. ~c.deferred
    BY <1>2 DEF Settled
  <1>. QED
    BY <1>2, <1>3, <1>4, <1>5, <1>6, HandledLock

\* process_locks clears the grants of units that released them, and gives one to a unit
\* that asks.
LEMMA ProcessLock ==
    ASSUME TypeOK, LockInv, NEW u \in Units, Process(u), hook[u] # "none"
    PROVE  LockInv'
  <1>. DEFINE c == ctx[u]
              s == todo[u]
  <1>1. /\ c \in Context /\ s \in Shapes /\ s # <<>> /\ Head(s) = "process"
        /\ InHook(u) /\ Settled(u)
    <2>1. s # <<>> /\ Head(s) = "process"
      BY DEF Process, ProcessNotLeader, ProcessHeld, ProcessGrant, ProcessIdle, Handle
    <2>. QED
      BY <2>1 DEF LockInv, Settled, TypeOK
  <1>2. Tail(s) \in {<<>>, <<"process">>}
    BY <1>1, ShapeTail
  <1>3. CASE ProcessNotLeader(u)
    <2>1. Handle(u, "process", c, <<>>)
      BY <1>3 DEF ProcessNotLeader
    <2>2. todo'[u] = <<>> \o Tail(s)
      BY <2>1 DEF Handle, TypeOK
    <2>3. todo'[u] \in Shapes /\ todo'[u] # <<"acquire">> /\ ~Acting(todo'[u])
      BY <1>2, <2>2, Joined, ActingShapes
    <2>. QED
      BY <1>1, <2>1, <2>3, HandledSame
  <1>4. ASSUME NEW C, NEW G, C \subseteq Released(c), G \subseteq Pending(c), leader = u,
               NEW next, Handle(u, "process", Regrant(c, C, G), next),
               next = <<>> \/ (next = <<"run">> /\ u \in G)
        PROVE  LockInv'
    <2>. DEFINE d == Regrant(c, C, G)
    <2>1. C \subseteq Units /\ G \subseteq Units
      BY <1>1, <1>4 DEF Released, Pending, Context
    <2>2. /\ d \in Context /\ d.units = c.units /\ d.unit = c.unit /\ d.deferred = c.deferred
          /\ \A x \in Units : d.app[x] = IF x \in G THEN "granted" ELSE IF x \in C THEN "idle"
                                         ELSE c.app[x]
      BY <1>1, <2>1, RegrantType DEF Regrant, Context
    <2>3. \A x \in C : c.unit[x] = "release"
      <3>1. \A x \in C : x \in Units /\ LockState(c, x) = "release"
        BY <1>4, <2>1 DEF Released, ReleaseRequested
      <3>2. \A x \in Units : c.app[x] # "release"
        BY <1>1 DEF Context
      <3>. QED
        BY <3>1, <3>2 DEF LockState
    <2>4. \A x \in G : c.unit[x] = "acquire"
      <3>1. \A x \in G : x \in Units /\ LockState(c, x) = "acquire"
        BY <1>4, <2>1 DEF Pending, IsPending
      <3>2. \A x \in Units : c.app[x] # "acquire"
        BY <1>1 DEF Context
      <3>. QED
        BY <3>1, <3>2 DEF LockState
    <2>5. todo'[u] = next \o Tail(s)
      BY <1>4 DEF Handle, TypeOK
    <2>6. /\ todo'[u] \in Shapes /\ todo'[u] # <<"acquire">>
          /\ Acting(todo'[u]) => u \in G
      <3>1. CASE next = <<>>
        <4>1. todo'[u] = Tail(s)
          BY <1>2, <2>5, <3>1, Joined
        <4>. QED
          BY <1>2, <4>1, ActingShapes
      <3>2. CASE next = <<"run">> /\ u \in G
        BY <1>2, <2>5, <3>2, Joined, ActingShapes
      <3>. QED
        BY <1>4, <3>1, <3>2
    <2>7. /\ UNCHANGED <<scale, leader, unitState, appState, failed, hook>>
          /\ ctx'[u] = d /\ Present' = Present
      BY <1>4 DEF Handle, TypeOK, cluster, databags, Present
    <2>. HIDE DEF d
    <2>8. InHook(u)'
      <3>1. Holder(u)'
        BY <1>4, <2>7 DEF Holder
      <3>2. d.unit[u] = "idle" => d.app[u] = "idle"
        BY <1>1, <2>2, <2>3, <2>4 DEF InHook
      <3>3. u \in G => d.unit[u] = "acquire" /\ d.app[u] = "granted"
        BY <2>2, <2>4
      <3>. QED
        BY <1>1, <2>2, <2>6, <2>7, <3>1, <3>2, <3>3 DEF InHook, Active
    <2>9. \A v \in Units \ {u} :
              /\ appState[v] = "granted" /\ d.app[v] = "idle" => d.unit[v] = "release"
              /\ appState[v] = "idle" /\ d.app[v] = "granted" => d.unit[v] = "acquire"
      BY <1>4, <2>2, <2>3, <2>4 DEF LockInv, Sees
    <2>10. appState[u] = "granted" /\ unitState[u] = "release" => d.unit[u] = "release"
      BY <1>1, <2>2 DEF Settled, Spent
    <2>11. ~d.deferred
      BY <1>1, <2>2 DEF Settled
    <2>12. Handle(u, "process", d, next)
      BY <1>4 DEF d
    <2>. QED
      BY <2>2, <2>6, <2>8, <2>9, <2>10, <2>11, <2>12, HandledLock
  <1>5. CASE ProcessHeld(u) \/ ProcessIdle(u)
    <2>1. PICK C : C \subseteq Released(c) /\ Handle(u, "process", Regrant(c, C, {}), <<>>)
      BY <1>5 DEF ProcessHeld, ProcessIdle
    <2>2. leader = u /\ {} \subseteq Pending(c)
      BY <1>5 DEF ProcessHeld, ProcessIdle
    <2>. QED
      BY <1>4, <2>1, <2>2
  <1>6. CASE ProcessGrant(u)
    <2>1. PICK x \in Pending(c) :
             Handle(u, "process", Regrant(c, Released(c), {x}), IF x = u THEN <<"run">> ELSE <<>>)
      BY <1>6 DEF ProcessGrant
    <2>2. leader = u
      BY <1>6 DEF ProcessGrant
    <2>3. CASE x = u
      BY <1>4, <2>1, <2>2, <2>3
    <2>4. CASE x # u
      BY <1>4, <2>1, <2>2, <2>4
    <2>. QED
      BY <2>3, <2>4
  <1>. QED
    BY <1>3, <1>5, <1>6 DEF Process

LEMMA HandlerLock ==
    ASSUME TypeOK, GrantInv, LockInv, ~MayDefer, NEW u \in Units, Handler(u)
    PROVE  LockInv'
  <1>. DEFINE c == ctx[u]
              s == todo[u]
  <1>1. /\ c \in Context /\ s \in Shapes /\ s # <<>> /\ hook[u] # "none"
        /\ InHook(u) /\ Settled(u)
    <2>1. s # <<>>
      BY DEF Handler, OnAcquireLock, OnRelationChanged, Process, ProcessNotLeader, ProcessHeld,
             ProcessGrant, ProcessIdle, RunWithLock, RunReady, RunDeferred, Restart,
             RestartPostgresql, RestartEnds, ReleaseLock, Handle
    <2>2. hook[u] # "none"
      BY <2>1 DEF GrantInv
    <2>. QED
      BY <2>1, <2>2 DEF LockInv, Settled, TypeOK
  <1>2. leader = u => \A v \in Units \ {u} :
              /\ appState[v] = "granted" /\ c.app[v] = "idle" => c.unit[v] = "release"
              /\ appState[v] = "idle" /\ c.app[v] = "granted" => c.unit[v] = "acquire"
    BY <1>1 DEF LockInv, Sees
  <1>3. CASE OnRelationChanged(u)
    <2>1. Handle(u, "changed", c, RelationChanged(c, u)) /\ Head(s) = "changed"
      BY <1>3 DEF OnRelationChanged, Handle
    <2>2. todo'[u] = RelationChanged(c, u) \o <<>>
      BY <1>1, <2>1, ShapeTail DEF Handle, TypeOK
    <2>3. todo'[u] = IF IsHeld(c, u) THEN <<"run", "process">> ELSE <<"process">>
      BY <2>2, Joined DEF RelationChanged
    <2>4. todo'[u] \in Shapes /\ todo'[u] # <<"acquire">>
      BY <2>3, ActingShapes
    <2>5. Acting(todo'[u]) => IsHeld(c, u)
      BY <2>3, ActingShapes
    <2>6. IsHeld(c, u) => c.app[u] = "granted" /\ c.unit[u] # "release"
      BY DEF IsHeld, LockState
    <2>7. c.unit[u] # "release" /\ c.app[u] = "granted" => c.unit[u] = "acquire"
      BY <1>1 DEF InHook, Context
    <2>. QED
      BY <1>1, <2>1, <2>4, <2>5, <2>6, <2>7, HandledSame
  <1>4. CASE RunReady(u)
    <2>1. Handle(u, "run", c, <<"restart", "release">>) /\ Head(s) = "run"
      BY <1>4 DEF RunReady, Handle
    <2>2. todo'[u] = <<"restart", "release">> \o Tail(s) /\ Tail(s) \in {<<>>, <<"process">>}
      BY <1>1, <2>1, ShapeTail DEF Handle, TypeOK
    <2>3. todo'[u] \in Shapes /\ todo'[u] # <<"acquire">>
      BY <2>2, Joined, ActingShapes
    <2>4. c.unit[u] = "acquire" /\ c.app[u] = "granted"
      BY <1>1, <2>1 DEF InHook, Active, Acting
    <2>. QED
      BY <1>1, <2>1, <2>3, <2>4, HandledSame
  <1>5. CASE RunDeferred(u)
    <2>1. PICK v \in Units : Restarting(v)
      BY <1>5 DEF RunDeferred
    <2>2. Active(u) /\ Active(v) /\ Head(s) = "run"
      BY <1>5, <2>1 DEF RunDeferred, Handle, Active, Acting, Restarting
    <2>3. u = v
      BY <2>2, OneActive
    <2>. QED
      BY <2>1, <2>2, <2>3 DEF Restarting
  <1>6. CASE Restart(u)
    <2>1. PICK h \in {"restart", "restarting"}, next \in {<<"restarting">>, <<>>} :
             Handle(u, h, c, next)
      BY <1>6 DEF Restart, RestartPostgresql, RestartEnds
    <2>2. Head(s) = h
      BY <2>1 DEF Handle
    <2>3. todo'[u] = next \o Tail(s) /\ Tail(s) \in {<<"release">>, <<"release", "process">>}
      BY <1>1, <2>1, <2>2, ShapeTail DEF Handle, TypeOK
    <2>4. todo'[u] \in Shapes /\ todo'[u] # <<"acquire">>
      BY <2>3, Joined, ActingShapes
    <2>5. c.unit[u] = "acquire" /\ c.app[u] = "granted"
      BY <1>1, <2>2 DEF InHook, Active, Acting
    <2>. QED
      BY <1>1, <2>1, <2>4, <2>5, HandledSame
  <1>7. CASE OnAcquireLock(u)
    <2>. DEFINE d == SetUnit(c, u, "acquire")
    <2>1. Handle(u, "acquire", d, RelationChanged(d, u)) /\ Head(s) = "acquire"
      BY <1>7 DEF OnAcquireLock, Handle
    <2>2. s = <<"acquire">> /\ todo'[u] = RelationChanged(d, u) \o <<>>
      BY <1>1, <2>1, ShapeTail DEF Handle, TypeOK
    <2>3. todo'[u] = IF IsHeld(d, u) THEN <<"run", "process">> ELSE <<"process">>
      BY <2>2, Joined DEF RelationChanged
    <2>4. /\ d \in Context /\ d.units = c.units /\ d.app = c.app /\ d.unit[u] = "acquire"
          /\ \A v \in Units \ {u} : d.unit[v] = c.unit[v]
          /\ d.deferred = c.deferred
      BY <1>1 DEF SetUnit, Context
    <2>5. todo'[u] \in Shapes /\ todo'[u] # <<"acquire">> /\ (Acting(todo'[u]) => IsHeld(d, u))
      BY <2>3, ActingShapes
    <2>6. IsHeld(d, u) => d.app[u] = "granted"
      BY DEF IsHeld, LockState
    <2>7. hook[u] = "config" /\ ~(c.app[u] = "granted" /\ c.unit[u] = "release")
      BY <1>1, <2>2 DEF InHook
    <2>8. /\ UNCHANGED <<scale, leader, unitState, appState, failed, hook>>
          /\ ctx'[u] = d /\ Present' = Present
      BY <2>1 DEF Handle, TypeOK, cluster, databags, Present
    <2>9. InHook(u)'
      BY <1>1, <2>4, <2>5, <2>6, <2>7, <2>8 DEF InHook, Holder, Active
    <2>10. ~(appState[u] = "granted" /\ unitState[u] = "release")
      BY <1>1, <2>7 DEF Settled, Spent
    <2>11. ~d.deferred
      BY <1>1, <2>4 DEF Settled
    <2>. HIDE DEF d
    <2>. QED
      BY <1>1, <1>2, <2>1, <2>4, <2>5, <2>9, <2>10, <2>11, HandledLock
  <1>8. CASE ReleaseLock(u)
    <2>. DEFINE d == SetUnit(c, u, "release")
    <2>1. Handle(u, "release", d, <<"process">>) /\ Head(s) = "release"
      BY <1>8 DEF ReleaseLock, Handle
    <2>2. todo'[u] = <<"process">> \o Tail(s) /\ Tail(s) \in {<<>>, <<"process">>}
      BY <1>1, <2>1, ShapeTail DEF Handle, TypeOK
    <2>3. todo'[u] \in Shapes /\ todo'[u] # <<"acquire">> /\ ~Acting(todo'[u])
      BY <2>2, Joined, ActingShapes
    <2>4. /\ d \in Context /\ d.units = c.units /\ d.app = c.app /\ d.unit[u] = "release"
          /\ \A v \in Units \ {u} : d.unit[v] = c.unit[v]
          /\ d.deferred = c.deferred
      BY <1>1 DEF SetUnit, Context
    <2>5. Active(u)
      BY <1>1, <2>1 DEF Active, Acting
    <2>6. Holder(u)
      BY <1>1, <2>5 DEF InHook
    <2>7. /\ UNCHANGED <<scale, leader, unitState, appState, failed, hook>>
          /\ ctx'[u] = d /\ Present' = Present
      BY <2>1 DEF Handle, TypeOK, cluster, databags, Present
    <2>8. InHook(u)'
      BY <1>1, <2>3, <2>4, <2>6, <2>7 DEF InHook, Holder, Active
    <2>9. ~d.deferred
      BY <1>1, <2>4 DEF Settled
    <2>. HIDE DEF d
    <2>. QED
      BY <1>1, <1>2, <2>1, <2>3, <2>4, <2>8, <2>9, HandledLock
  <1>9. CASE Process(u)
    BY <1>1, <1>9, ProcessLock
  <1>. QED
    BY <1>3, <1>4, <1>5, <1>6, <1>7, <1>8, <1>9 DEF Handler, RunWithLock

\* A hook that begins knows the data bags as they are.
LEMMA BeginLock ==
    ASSUME TypeOK, GrantInv, LockInv, ~MayAskAgain, NEW u \in Units, NEW t \in Triggers,
           Begin(u, t)
    PROVE  LockInv'
  <1>1. /\ hook[u] = "none" /\ u \in Present
        /\ failed[u] # "none" => t = failed[u]
        /\ t = "config" => failed[u] = "config" \/ ~(appState[u] = "granted" /\ unitState[u] = "release")
    BY DEF Begin, Due, Asks
  <1>2. Settled(u)
    BY DEF LockInv
  <1>3. /\ UNCHANGED <<scale, leader, unitState, appState, deferred, inherited>>
        /\ Present' = Present
        /\ hook'[u] = t /\ t # "none" /\ failed'[u] = "none"
        /\ ctx'[u].units = Present /\ ctx'[u].unit = unitState /\ ctx'[u].app = appState
        /\ ctx'[u].deferred = FALSE
        /\ \A v \in Units \ {u} : /\ todo'[v] = todo[v] /\ ctx'[v] = ctx[v]
                                  /\ hook'[v] = hook[v] /\ failed'[v] = failed[v]
    BY DEF Begin, TypeOK, Triggers, cluster, databags, history, Present
  <1>4. /\ todo'[u] \in {<<>>, <<"process">>, <<"acquire">>, <<"changed">>}
        /\ todo'[u] = <<"acquire">> => t = "config"
    <2>1. todo'[u] = <<>> \o MainHandlers(t)
      BY <1>2 DEF Begin, Settled, TypeOK
    <2>2. /\ MainHandlers(t) \in {<<>>, <<"process">>, <<"acquire">>, <<"changed">>}
          /\ MainHandlers(t) = <<"acquire">> => t = "config"
      BY DEF MainHandlers, Triggers
    <2>3. MainHandlers(t) \in Seq(Handlers)
      <3>1. {<<"acquire">>, <<"changed">>, <<"process">>, <<>>} \subseteq Seq(Handlers)
        BY DEF Handlers
      <3>. QED
        BY <2>2, <3>1
    <2>. QED
      BY <2>1, <2>2, <2>3, ConcatEmptySeq
  <1>5. todo'[u] \in Shapes /\ ~Acting(todo'[u])
    BY <1>4, ShortTuples DEF Shapes, Acting
  <1>6. appState[u] = "granted" /\ unitState[u] = "release" => t # "config"
    BY <1>1, <1>2 DEF Settled, Spent
  <1>7. Settled(u)'
    BY <1>2, <1>3, <1>5, <1>6 DEF Settled, Spent
  <1>8. InHook(u)'
    <2>1. unitState[u] = "idle" => appState[u] = "idle"
      BY <1>1, <1>2 DEF Settled, TypeOK
    <2>2. todo'[u] = <<"acquire">> => ~(appState[u] = "granted" /\ unitState[u] = "release")
      BY <1>4, <1>6
    <2>. QED
      BY <1>1, <1>3, <1>4, <1>5, <2>1, <2>2 DEF InHook, Holder, Active
  <1>9. ASSUME NEW v \in Units, v # u
        PROVE  Settled(v)' /\ (hook'[v] # "none" => InHook(v)')
    <2>1. Settled(v) /\ (hook[v] # "none" => InHook(v))
      BY DEF LockInv
    <2>. QED
      BY <1>3, <1>9, <2>1 DEF Settled, Spent, InHook, Holder, Active
  <1>10. ASSUME NEW l \in Units, NEW v \in Units, leader' = l, hook'[l] # "none", v # l
         PROVE  Sees(l, v)'
    <2>1. CASE l = u
      BY <1>3, <2>1 DEF Sees
    <2>2. CASE l # u
      <3>1. Sees(l, v)
        BY <1>3, <1>10, <2>2 DEF LockInv
      <3>. QED
        BY <1>3, <2>2, <3>1 DEF Sees
    <2>. QED
      BY <2>1, <2>2
  <1>. QED
    BY <1>3, <1>7, <1>8, <1>9, <1>10 DEF LockInv

\* A hook that fails leaves the data bags, and what other units know, as they are.
LEMMA FailLock ==
    ASSUME TypeOK, LockInv, NEW u \in Units, Fail(u)
    PROVE  LockInv'
  <1>1. /\ UNCHANGED <<scale, leader, unitState, appState, deferred, inherited>>
        /\ Present' = Present
        /\ hook[u] # "none" /\ hook'[u] = "none" /\ failed'[u] = hook[u]
        /\ todo'[u] = <<>> /\ ctx'[u] = NoContext
        /\ \A v \in Units \ {u} : /\ todo'[v] = todo[v] /\ ctx'[v] = ctx[v]
                                  /\ hook'[v] = hook[v] /\ failed'[v] = failed[v]
    BY DEF Fail, Leave, TypeOK, cluster, databags, history, Present
  <1>2. ~NoContext.deferred /\ <<>> \in Shapes
    BY ActingShapes DEF NoContext
  <1>3. ASSUME NEW v \in Units
        PROVE  Settled(v)' /\ (hook'[v] # "none" => InHook(v)')
    <2>1. Settled(v) /\ (hook[v] # "none" => InHook(v))
      BY DEF LockInv
    <2>2. CASE v = u
      BY <1>1, <1>2, <2>1, <2>2 DEF Settled, Spent
    <2>3. CASE v # u
      BY <1>1, <2>1, <2>3 DEF Settled, Spent, InHook, Holder, Active
    <2>. QED
      BY <2>2, <2>3
  <1>4. ASSUME NEW l \in Units, NEW v \in Units, leader' = l, hook'[l] # "none", v # l
        PROVE  Sees(l, v)'
    <2>1. l # u /\ Sees(l, v)
      BY <1>1, <1>4 DEF LockInv
    <2>. QED
      BY <1>1, <2>1 DEF Sees
  <1>. QED
    BY <1>1, <1>3, <1>4 DEF LockInv

\* A hook that ends makes the data bags what it knew of them: the leader clears the
\* grants of units that released them, and grants to units that ask.
LEMMA EndLock ==
    ASSUME TypeOK, GrantInv, LockInv, NEW u \in Units, End(u)
    PROVE  LockInv'
  <1>. DEFINE c == ctx[u]
  <1>1. /\ UNCHANGED <<scale, leader, failed>>
        /\ Present' = Present
        /\ hook[u] # "none" /\ hook'[u] = "none" /\ todo'[u] = <<>> /\ ctx'[u] = NoContext
        /\ unitState'[u] = c.unit[u] /\ deferred'[u] = c.deferred
        /\ \A v \in Units \ {u} : /\ todo'[v] = todo[v] /\ ctx'[v] = ctx[v]
                                  /\ hook'[v] = hook[v]
                                  /\ unitState'[v] = unitState[v] /\ deferred'[v] = deferred[v]
    BY DEF End, Leave, TypeOK, cluster, Present
  <1>2. /\ ~NoContext.deferred /\ <<>> \in Shapes
        /\ c \in Context
    BY ActingShapes DEF NoContext, TypeOK
  <1>3. InHook(u) /\ Settled(u)
    BY <1>1 DEF LockInv
  <1>4. leader = u => \A v \in Units : appState'[v] = c.app[v]
    <2>1. leader = u => LeaderView(u)
      BY <1>1 DEF GrantInv
    <2>. QED
      BY <2>1 DEF End, LeaderView
  <1>5. leader # u => \A v \in Units : appState'[v] = appState[v]
    BY DEF End
  <1>6. ASSUME NEW v \in Units
        PROVE  appState[v] \in {"idle", "granted"} /\ appState'[v] \in {"idle", "granted"}
    BY <1>2, <1>4, <1>5 DEF TypeOK, Context
  <1>7. ASSUME NEW v \in Units \ {u}
        PROVE  /\ appState[v] = "granted" /\ appState'[v] = "idle" /\ v \in Present
                     => unitState[v] = "release"
               /\ appState[v] = "idle" /\ appState'[v] = "granted" /\ v \in Present
                     => unitState[v] = "acquire"
    <2>1. CASE leader = u
      <3>1. Sees(u, v)
        BY <1>1, <1>7, <2>1 DEF LockInv
      <3>. QED
        BY <1>4, <2>1, <3>1 DEF Sees
    <2>2. CASE leader # u
      BY <1>5, <2>2
    <2>. QED
      BY <2>1, <2>2
  <1>8. Settled(u)'
    <2>1. c.unit[u] = "idle" => appState'[u] = "idle"
      <3>1. CASE leader = u
        BY <1>3, <1>4, <3>1 DEF InHook
      <3>2. CASE leader # u
        BY <1>3, <1>5, <1>6, <3>2 DEF InHook, Settled
      <3>. QED
        BY <3>1, <3>2
    <2>2. failed[u] = "none" /\ u \in Present /\ ~c.deferred
      BY <1>3 DEF InHook, Settled
    <2>. QED
      BY <1>1, <1>2, <2>1, <2>2 DEF Settled, Spent
  <1>9. ASSUME NEW v \in Units \ {u}
        PROVE  Settled(v)'
    <2>1. Settled(v)
      BY DEF LockInv
    <2>2. v \notin Present => unitState'[v] = "idle"
      BY <1>1, <2>1 DEF Settled
    <2>3. v \in Present /\ appState'[v] = "granted" => unitState'[v] # "idle"
      BY <1>1, <1>6, <1>7, <2>1 DEF Settled
    <2>4. appState'[v] = "granted" /\ unitState'[v] = "release" => appState[v] = "granted"
      BY <1>1, <1>6, <1>7, <2>2
    <2>. QED
      BY <1>1, <2>1, <2>2, <2>3, <2>4 DEF Settled, Spent
  <1>10. ASSUME NEW v \in Units \ {u}, hook'[v] # "none"
         PROVE  InHook(v)'
    <2>1. InHook(v) /\ Settled(v)
      BY <1>1, <1>10 DEF LockInv
    <2>2. Holder(v) /\ ~Holder(v)' => appState[v] = "granted" /\ appState'[v] = "idle"
      BY <1>1, <1>6 DEF Holder
    <2>3. Holder(v) /\ ~Holder(v)' => unitState[v] = "release" /\ ctx[v].unit[v] = "release"
      BY <1>1, <1>7, <1>10, <2>1, <2>2 DEF InHook, Settled, Spent
    <2>. QED
      BY <1>1, <2>1, <2>3 DEF InHook, Active
  <1>11. ASSUME NEW l \in Units, NEW v \in Units, leader' = l, hook'[l] # "none", v # l
         PROVE  Sees(l, v)'
    <2>1. l # u /\ leader # u /\ Sees(l, v)
      BY <1>1, <1>11 DEF LockInv
    <2>2. appState'[v] = appState[v]
      BY <1>5, <2>1
    <2>3. CASE v # u
      BY <1>1, <2>1, <2>2, <2>3 DEF Sees
    <2>4. CASE v = u
      <3>1. appState[u] = "granted" /\ unitState[u] = "release" => c.unit[u] = "release"
        BY <1>1, <1>3 DEF Settled, Spent
      <3>2. unitState[u] = "acquire" /\ appState[u] = "idle" => c.unit[u] = "acquire"
        BY <1>2, <1>3, <2>1 DEF InHook, Holder, Context
      <3>. QED
        BY <1>1, <2>1, <2>2, <2>4, <3>1, <3>2 DEF Sees
    <2>. QED
      BY <2>3, <2>4
  <1>12. inherited' = {}
    BY DEF End, LockInv
  <1>. QED
    BY <1>1, <1>8, <1>9, <1>10, <1>11, <1>12 DEF LockInv

LEMMA ElectLock ==
    ASSUME TypeOK, LockInv, ~MidHookElection, Orderly, NEW u \in Units, Elect(u)
    PROVE  LockInv'
  <1>1. /\ UNCHANGED <<scale, unitState, appState, deferred, inherited, failed, hook, todo, ctx>>
        /\ leader' = u /\ leader # u /\ hook[u] = "none"
        /\ Present' = Present
    BY DEF Elect, databags, execution, history, Present
  <1>2. \A v \in Units : leader = v => hook[v] = "none"
    BY <1>1 DEF Orderly
  <1>3. ASSUME NEW v \in Units
        PROVE  Settled(v)' /\ (hook'[v] # "none" => InHook(v)')
    <2>1. Settled(v) /\ (hook[v] # "none" => InHook(v))
      BY DEF LockInv
    <2>2. hook[v] # "none" /\ Holder(v) => Holder(v)'
      BY <1>1, <1>2 DEF Holder
    <2>. QED
      BY <1>1, <2>1, <2>2 DEF Settled, Spent, InHook, Active
  <1>. QED
    BY <1>1, <1>3 DEF LockInv

LEMMA RemoveLock ==
    ASSUME TypeOK, GrantInv, LockInv, Remove
    PROVE  LockInv'
  <1>1. PICK x \in Units : x = scale - 1
    BY RollingOpsAssumption DEF Remove, TypeOK, Units
  <1>2. /\ UNCHANGED <<appState, inherited, hook, todo, ctx>>
        /\ hook[x] = "none"
        /\ leader' = IF leader = x THEN NoUnit ELSE leader
        /\ unitState'[x] = "idle" /\ ~deferred'[x] /\ failed'[x] = "none"
        /\ \A v \in Units \ {x} : /\ unitState'[v] = unitState[v] /\ deferred'[v] = deferred[v]
                                  /\ failed'[v] = failed[v]
    BY <1>1 DEF Remove, TypeOK, execution, history
  <1>3. /\ Present' \subseteq Present /\ x \notin Present'
        /\ \A v \in Present : v # x => v \in Present'
    BY <1>1 DEF Remove, TypeOK, Present
  <1>4. ASSUME NEW v \in Units, v # x
        PROVE  Settled(v)' /\ (hook'[v] # "none" => InHook(v)')
    <2>1. Settled(v) /\ (hook[v] # "none" => InHook(v))
      BY DEF LockInv
    <2>2. Holder(v) => Holder(v)'
      BY <1>2, <1>4 DEF Holder
    <2>3. Settled(v)'
      BY <1>2, <1>3, <1>4, <2>1 DEF Settled, Spent
    <2>4. hook'[v] # "none" => InHook(v)'
      BY <1>2, <1>3, <1>4, <2>1, <2>2 DEF InHook, Active
    <2>. QED
      BY <2>3, <2>4
  <1>5. Settled(x)'
    <2>1. Settled(x)
      BY <1>1 DEF LockInv
    <2>. QED
      BY <1>2, <1>3, <2>1 DEF Settled
  <1>6. ASSUME NEW l \in Units, NEW v \in Units, leader' = l, hook'[l] # "none", v # l
        PROVE  Sees(l, v)'
    <2>1. l # NoUnit
      BY RollingOpsAssumption DEF NoUnit, Units
    <2>2. leader = l /\ l # x
      BY <1>2, <1>6, <2>1
    <2>3. Sees(l, v)
      BY <1>2, <1>6, <2>2 DEF LockInv
    <2>4. v \in Present' => v \in Present /\ v # x
      BY <1>3
    <2>. QED
      BY <1>2, <2>3, <2>4 DEF Sees
  <1>. QED
    BY <1>1, <1>2, <1>4, <1>5, <1>6 DEF LockInv

LEMMA NextLock ==
    ASSUME TypeOK, GrantInv, LockInv, ~MayDefer, ~MayAskAgain, ~MidHookElection,
           [Next]_vars, [Orderly]_vars
    PROVE  LockInv'
  <1>1. ASSUME NEW u \in Units, Step(u)
        PROVE  LockInv'
    BY <1>1, HandlerLock, EndLock, FailLock DEF Step, Handler, Refused
  <1>2. ASSUME NEW u \in Units, Crash(u)
        PROVE  LockInv'
    BY <1>2, FailLock DEF Crash
  <1>3. ASSUME NEW u \in Units, NEW t \in Triggers, Begin(u, t)
        PROVE  LockInv'
    BY <1>3, BeginLock
  <1>4. CASE UNCHANGED vars
    BY <1>4 DEF vars, cluster, databags, execution, history, LockInv, Settled, Spent, InHook,
                Holder, Active, Sees, Present
  <1>5. CASE Orderly
    <2>1. ASSUME NEW u \in Units, Elect(u)
          PROVE  LockInv'
      BY <1>5, <2>1, ElectLock
    <2>2. ~Add
      BY <1>5 DEF Orderly, Add, TypeOK
    <2>. QED
      BY <1>1, <1>2, <1>3, <1>4, <2>1, <2>2, RemoveLock DEF Next
  <1>. QED
    BY <1>4, <1>5

Running == {u \in Units : Restarting(u)}

LEMMA ShapeHead ==
    ASSUME NEW s \in Shapes, s # <<>>
    PROVE  Head(s) \in Handlers
  BY ShortTuples DEF Shapes, Handlers

\* What a handler other than _on_run_with_lock leaves is not a restart.
LEMMA JoinedHead ==
    ASSUME NEW r \in {<<>>, <<"process">>},
           NEW next \in {<<>>, <<"run">>, <<"process">>, <<"run">> \o <<"process">>,
                         <<>> \o <<"process">>}
    PROVE  next \o r = <<>> \/ Head(next \o r) \in {"run", "process"}
  <1>1. \A t \in {<<>>, <<"process">>, <<"process", "process">>, <<"run">>, <<"run", "process">>} :
           t = <<>> \/ Head(t) \in {"run", "process"}
    BY ShortTuples
  <1>2. /\ <<>> \o <<"process">> = <<"process">>
        /\ <<"run">> \o <<"process">> = <<"run", "process">>
    BY Joined, JoinedTuples
  <1>. QED
    BY <1>1, <1>2, Joined, ShortTuples

LEMMA HandlerRefines ==
    ASSUME TypeOK, GrantInv, LockInv, ~MayDefer, NEW u \in Units, Handler(u)
    PROVE  RestartLock!Next \/ UNCHANGED <<Wanted, Running>>
  <1>. DEFINE s == todo[u]
  <1>1. /\ UNCHANGED <<unitState, failed, hook>>
        /\ \A v \in Units \ {u} : todo'[v] = todo[v] /\ needed'[v] = needed[v]
        /\ s \in Shapes /\ s # <<>> /\ hook[u] # "none" /\ InHook(u)
    <2>1. /\ UNCHANGED <<unitState, failed, hook>> /\ s # <<>>
          /\ \A v \in Units \ {u} : todo'[v] = todo[v] /\ needed'[v] = needed[v]
      BY DEF Handler, OnAcquireLock, OnRelationChanged, Process, ProcessNotLeader, ProcessHeld,
             ProcessGrant, ProcessIdle, RunWithLock, RunReady, RunDeferred, Restart,
             RestartPostgresql, RestartEnds, ReleaseLock, Handle, TypeOK, databags
    <2>2. hook[u] # "none"
      BY <2>1 DEF GrantInv
    <2>. QED
      BY <2>1, <2>2 DEF LockInv, Settled
  <1>2. \A v \in Units \ {u} : /\ Restarting(v)' = Restarting(v)
                               /\ (v \in Wanted') <=> (v \in Wanted)
    BY <1>1 DEF Restarting, Wanted
  <1>3. Active(u) => unitState[u] = "acquire" \/ hook[u] = "config"
    BY <1>1 DEF InHook
  <1>4. Active(u) => u \in Wanted /\ u \in Wanted'
    BY <1>1, <1>3 DEF Wanted
  <1>5. Wanted' = Wanted
    <2>1. (u \in Wanted') <=> (u \in Wanted)
      <3>1. CASE Active(u)
        BY <1>4, <3>1
      <3>2. CASE OnAcquireLock(u)
        <4>1. Head(s) = "acquire"
          BY <3>2 DEF OnAcquireLock, Handle
        <4>2. hook[u] = "config"
          BY <1>1, <4>1, ShapeTail DEF InHook
        <4>. QED
          BY <1>1, <4>2 DEF Wanted
      <3>3. CASE ~Active(u) /\ ~OnAcquireLock(u)
        <4>1. UNCHANGED needed
          BY <1>1, <3>3 DEF Handler, OnRelationChanged, Process, RunWithLock, RunReady,
                   RunDeferred, Restart, RestartPostgresql, RestartEnds, ReleaseLock, Handle,
                   Active, Acting
        <4>. QED
          BY <1>1, <4>1 DEF Wanted
      <3>. QED
        BY <3>1, <3>2, <3>3
    <2>2. Wanted \subseteq Units /\ Wanted' \subseteq Units
      BY DEF Wanted
    <2>. QED
      BY <1>2, <2>1, <2>2
  <1>6. \A v \in Units : Active(u) /\ Restarting(v) => v = u
    <2>1. \A v \in Units : Restarting(v) => Active(v)
      BY DEF Restarting, Active, Acting
    <2>. QED
      BY <2>1, OneActive
  <1>7. CASE Restarting(u)' = Restarting(u)
    BY <1>2, <1>5, <1>7 DEF Running
  <1>8. CASE Restarting(u)' /\ ~Restarting(u)
    <2>1. Active(u)
      <3>1. CASE Head(s) \in {"run", "restart", "restarting", "release"}
        BY <1>1, <3>1 DEF Active, Acting
      <3>2. CASE Head(s) \notin {"run", "restart", "restarting", "release"}
        <4>1. PICK next \in {<<>>, <<"run">>, <<"process">>, <<"run">> \o <<"process">>,
                             <<>> \o <<"process">>} :
                 todo'[u] = next \o Tail(s)
          BY <3>2 DEF Handler, OnAcquireLock, OnRelationChanged, RelationChanged, Process,
             ProcessNotLeader, ProcessHeld, ProcessGrant, ProcessIdle, RunWithLock, RunReady,
             RunDeferred, Restart, RestartPostgresql, RestartEnds, ReleaseLock, Handle, TypeOK
        <4>2. Head(s) \in {"acquire", "changed", "process"}
          BY <1>1, <3>2, ShapeHead DEF Handlers
        <4>3. todo'[u] = <<>> \/ Head(todo'[u]) \in {"run", "process"}
          BY <1>1, <4>1, <4>2, ShapeTail, JoinedHead
        <4>. QED
          BY <1>8, <4>3 DEF Restarting
      <3>. QED
        BY <3>1, <3>2
    <2>2. Running = {} /\ Running' = {u}
      BY <1>2, <1>6, <1>8, <2>1 DEF Running
    <2>3. RestartLock!Start(u)
      BY <1>4, <1>5, <2>1, <2>2 DEF RestartLock!Start, Running
    <2>. QED
      BY <2>3 DEF RestartLock!Next
  <1>9. CASE ~Restarting(u)' /\ Restarting(u)
    <2>1. Active(u)
      BY <1>9 DEF Restarting, Active, Acting
    <2>2. Running = {u} /\ Running' = {}
      BY <1>2, <1>6, <1>9, <2>1 DEF Running
    <2>3. RestartLock!Stop(u)
      BY <1>5, <2>2 DEF RestartLock!Stop, Running
    <2>. QED
      BY <2>3 DEF RestartLock!Next
  <1>. QED
    BY <1>7, <1>8, <1>9 DEF Restarting

\* A hook that is over, or that fails: its unit no longer restarts, and may no longer ask.
LEMMA HookRefines ==
    ASSUME TypeOK, GrantInv, LockInv, NEW u \in Units, End(u) \/ Fail(u)
    PROVE  RestartLock!Next \/ UNCHANGED <<Wanted, Running>>
  <1>1. /\ hook[u] # "none" /\ todo'[u] = <<>> /\ hook'[u] = "none" /\ UNCHANGED needed
        /\ \A v \in Units \ {u} : /\ todo'[v] = todo[v] /\ hook'[v] = hook[v]
                                  /\ unitState'[v] = unitState[v] /\ failed'[v] = failed[v]
    BY DEF End, Fail, Leave, TypeOK, databags, history
  <1>2. /\ ~Restarting(u)'
        /\ \A v \in Units \ {u} : Restarting(v)' = Restarting(v)
    BY <1>1 DEF Restarting
  <1>3. /\ Wanted \subseteq Units /\ Wanted' \subseteq Units
        /\ \A v \in Units \ {u} : (v \in Wanted') <=> (v \in Wanted)
    BY <1>1 DEF Wanted
  <1>4. InHook(u)
    BY <1>1 DEF LockInv
  <1>5. CASE End(u)
    <2>1. todo[u] = <<>> /\ unitState'[u] = ctx[u].unit[u] /\ failed'[u] = "none"
      BY <1>4, <1>5 DEF End, TypeOK, InHook
    <2>2. ~Restarting(u)
      BY <2>1 DEF Restarting
    <2>3. Running' = Running /\ u \notin Running
      BY <1>2, <2>2 DEF Running
    <2>4. u \in Wanted' => u \in Wanted
      BY <1>1, <1>4, <2>1 DEF Wanted, InHook
    <2>5. CASE u \in Wanted'
      BY <1>3, <2>3, <2>4, <2>5
    <2>6. CASE u \notin Wanted /\ u \notin Wanted'
      BY <1>3, <2>3, <2>6
    <2>7. CASE u \in Wanted /\ u \notin Wanted'
      <3>1. Wanted' = Wanted \ {u}
        BY <1>3, <2>7
      <3>2. RestartLock!Done(u)
        BY <2>3, <2>7, <3>1 DEF RestartLock!Done, Running
      <3>. QED
        BY <3>2 DEF RestartLock!Next
    <2>. QED
      BY <2>5, <2>6, <2>7
  <1>6. CASE Fail(u)
    <2>1. failed[u] = "none" /\ failed'[u] = hook[u] /\ unitState'[u] = unitState[u]
      BY <1>4, <1>6 DEF Fail, TypeOK, InHook, databags
    <2>2. Wanted' = Wanted
      <3>1. (u \in Wanted') <=> (u \in Wanted)
        BY <1>1, <2>1 DEF Wanted
      <3>. QED
        BY <1>3, <3>1
    <2>3. CASE ~Restarting(u)
      BY <1>2, <2>2, <2>3 DEF Running
    <2>4. CASE Restarting(u)
      <3>1. \A v \in Units : Restarting(v) => v = u
        BY <2>4, OneActive DEF Restarting, Active, Acting
      <3>2. Running = {u} /\ Running' = {}
        BY <1>2, <2>4, <3>1 DEF Running
      <3>3. RestartLock!Stop(u)
        BY <2>2, <3>2 DEF RestartLock!Stop, Running
      <3>. QED
        BY <3>3 DEF RestartLock!Next
    <2>. QED
      BY <2>3, <2>4
  <1>. QED
    BY <1>5, <1>6

LEMMA BeginRefines ==
    ASSUME TypeOK, GrantInv, LockInv, NEW u \in Units, NEW t \in Triggers, Begin(u, t)
    PROVE  RestartLock!Next \/ UNCHANGED <<Wanted, Running>>
  <1>1. /\ hook[u] = "none" /\ hook'[u] = t /\ failed'[u] = "none"
        /\ failed[u] # "none" => t = failed[u]
        /\ UNCHANGED <<unitState, needed>>
        /\ \A v \in Units \ {u} : /\ todo'[v] = todo[v] /\ hook'[v] = hook[v]
                                  /\ failed'[v] = failed[v]
    BY DEF Begin, Due, TypeOK, databags, history
  <1>2. todo[u] = <<>>
    BY <1>1 DEF GrantInv
  <1>3. ~Restarting(u)'
    <2>1. todo'[u] = <<>> \o MainHandlers(t)
      BY DEF Begin, LockInv, Settled, TypeOK
    <2>2. /\ MainHandlers(t) \in {<<>>, <<"process">>, <<"acquire">>, <<"changed">>}
          /\ MainHandlers(t) \in Seq(Handlers)
      <3>1. {<<"acquire">>, <<"changed">>, <<"process">>, <<>>} \subseteq Seq(Handlers)
        BY DEF Handlers
      <3>. QED
        BY <3>1 DEF MainHandlers, Triggers
    <2>3. todo'[u] \in {<<>>, <<"process">>, <<"acquire">>, <<"changed">>}
      BY <2>1, <2>2, ConcatEmptySeq
    <2>. QED
      BY <2>3, ShortTuples DEF Restarting
  <1>4. Running' = Running
    BY <1>1, <1>2, <1>3 DEF Running, Restarting
  <1>5. /\ Wanted \subseteq Units /\ Wanted' \subseteq Units
        /\ \A v \in Units \ {u} : (v \in Wanted') <=> (v \in Wanted)
    BY <1>1 DEF Wanted
  <1>6. CASE t = "config"
    <2>1. Wanted' = Wanted \cup {u}
      <3>1. u \in Wanted'
        BY <1>1, <1>6 DEF Wanted
      <3>. QED
        BY <1>5, <3>1
    <2>2. RestartLock!Ask(u)
      BY <1>4, <2>1 DEF RestartLock!Ask, Running
    <2>. QED
      BY <2>2 DEF RestartLock!Next
  <1>7. CASE t # "config"
    <2>1. (u \in Wanted') <=> (u \in Wanted)
      BY <1>1, <1>7 DEF Wanted
    <2>. QED
      BY <1>4, <1>5, <2>1
  <1>. QED
    BY <1>6, <1>7

LEMMA RemoveRefines ==
    ASSUME TypeOK, GrantInv, LockInv, Remove
    PROVE  RestartLock!Next \/ UNCHANGED <<Wanted, Running>>
  <1>1. PICK x \in Units : x = scale - 1
    BY RollingOpsAssumption DEF Remove, TypeOK, Units
  <1>2. /\ UNCHANGED <<hook, todo>> /\ hook[x] = "none"
        /\ unitState'[x] = "idle" /\ failed'[x] = "none" /\ ~needed'[x]
        /\ \A v \in Units \ {x} : /\ unitState'[v] = unitState[v] /\ needed'[v] = needed[v]
                                  /\ failed'[v] = failed[v]
    BY <1>1 DEF Remove, TypeOK, execution
  <1>3. Running' = Running
    BY <1>2 DEF Running, Restarting
  <1>4. x \notin Running
    BY <1>2 DEF GrantInv, Running, Restarting
  <1>5. Wanted' = Wanted \ {x}
    BY <1>2 DEF Wanted
  <1>6. CASE x \in Wanted
    <2>1. RestartLock!Done(x)
      BY <1>3, <1>4, <1>5, <1>6 DEF RestartLock!Done, Running
    <2>. QED
      BY <2>1 DEF RestartLock!Next
  <1>7. CASE x \notin Wanted
    BY <1>3, <1>5, <1>7
  <1>. QED
    BY <1>6, <1>7

\* The lock of RestartLock, implemented for any number of units, requests and crashes:
\* every step is one of its steps or none.  The conditions are those without which two
\* units do restart at the same time.
THEOREM RestartsImplementLock ==
    ~MayDefer /\ ~MayAskAgain /\ ~MidHookElection
        => (Spec /\ [][Orderly]_vars => RestartsAsLocked)
  <1>. SUFFICES ASSUME ~MayDefer, ~MayAskAgain, ~MidHookElection
                PROVE  Spec /\ [][Orderly]_vars => RestartsAsLocked
    OBVIOUS
  <1>1. Init => LockInv
    <2>. SUFFICES ASSUME Init
                  PROVE  LockInv
      OBVIOUS
    <2>1. \A u \in Units : hook[u] = "none" /\ unitState[u] = "idle" /\ appState[u] = "idle"
      BY DEF Init, Idle
    <2>2. \A u \in Units : Settled(u)
      BY <2>1, ActingShapes DEF Init, Settled, NoContext
    <2>. QED
      BY <2>1, <2>2 DEF Init, LockInv
  <1>2. TypeOK /\ GrantInv /\ LockInv /\ [Next]_vars /\ [Orderly]_vars => LockInv'
    BY NextLock
  <1>3. Init => RestartLock!Init
    BY DEF Init, RestartLock!Init, Wanted, Restarting, Idle
  <1>4. TypeOK /\ GrantInv /\ LockInv /\ [Next]_vars /\ [Orderly]_vars
           => [RestartLock!Next]_<<Wanted, {u \in Units : Restarting(u)}>>
    <2>. SUFFICES ASSUME TypeOK, GrantInv, LockInv, [Next]_vars, [Orderly]_vars
                  PROVE  RestartLock!Next \/ UNCHANGED <<Wanted, Running>>
      BY DEF Running
    <2>1. ASSUME NEW u \in Units, Step(u)
          PROVE  RestartLock!Next \/ UNCHANGED <<Wanted, Running>>
      BY <2>1, HandlerRefines, HookRefines DEF Step, Handler, Refused
    <2>2. ASSUME NEW u \in Units, Crash(u)
          PROVE  RestartLock!Next \/ UNCHANGED <<Wanted, Running>>
      BY <2>2, HookRefines DEF Crash
    <2>3. ASSUME NEW u \in Units, NEW t \in Triggers, Begin(u, t)
          PROVE  RestartLock!Next \/ UNCHANGED <<Wanted, Running>>
      BY <2>3, BeginRefines
    <2>4. ASSUME UNCHANGED <<unitState, failed, hook, needed, todo>>
          PROVE  UNCHANGED <<Wanted, Running>>
      BY <2>4 DEF Wanted, Running, Restarting
    <2>5. CASE (\E u \in Units : Elect(u)) \/ Add \/ UNCHANGED vars
      BY <2>4, <2>5 DEF Elect, Add, vars, databags, execution, history
    <2>. QED
      BY <2>1, <2>2, <2>3, <2>5, RemoveRefines DEF Next
  <1>5. Spec => []TypeOK /\ []GrantInv
    BY TypeCorrect, GrantsKnown, PTL
  <1>. QED
    BY <1>1, <1>2, <1>3, <1>4, <1>5, PTL DEF Spec, RestartsAsLocked, RestartLock!Spec
=============================================================================
