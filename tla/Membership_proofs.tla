---------------------------- MODULE Membership_proofs ----------------------------
(***************************************************************************)
(* Theorems about the membership of the PostgreSQL cluster, for any number *)
(* of units, scalings and lost pods.                                       *)
(*                                                                         *)
(* One database: Patroni's objects name the one system there is (Single).  *)
(* Everyone a member: while a unit is not, the leader has still to look    *)
(* for it, or its own pebble-ready is still to come, and that labels it or *)
(* tells the leader (NobodyForgotten, which OthersWait starts off).        *)
(***************************************************************************)
EXTENDS Membership, FiniteSetTheorems, TLAPS

USE DEF juju, databags, patroni, events, counters

Contexts ==
    [hosts : SUBSET Units, endpoints : [Units -> Nat], init : BOOLEAN,
     configured : BOOLEAN, again : BOOLEAN]

\* The types of what handlers read and of what Patroni works on.
Typed ==
    /\ scale \in 1 .. N
    /\ leader \in Present \cup {NoUnit}
    /\ endpoints \in [Units -> Nat] /\ initialised \in BOOLEAN
    /\ labelled \subseteq Units /\ running \subseteq started /\ started \subseteq Units
    /\ system \in [Units -> Nat] /\ lock \in Units \cup {Absent} /\ key \in Nat
    /\ departed \in [Units -> SUBSET Units]

\* Patroni's objects name the one database system there is: without them, or before the
\* cluster is initialised, only the leader has one.
Single ==
    /\ lock \in Units => key # 0
    /\ initialised => key # 0
    /\ key # 0 => \A u \in Units : system[u] \in {0, key}
    /\ ~initialised => /\ leader # NoUnit
                       /\ \A u \in Units \ {leader} : system[u] = 0 /\ u \notin started
    /\ \A u \in running : system[u] # 0

LEMMA UnitFacts ==
    ASSUME MembershipAssumption
    PROVE  /\ N \in Nat /\ N > 0 /\ Units = 0 .. N - 1
           /\ NoUnit \notin Units /\ Absent \notin Units /\ NoUnit # Absent
           /\ Start \in 1 .. N
  BY DEF MembershipAssumption, Units, NoUnit, Absent

LEMMA PresentFacts ==
    ASSUME MembershipAssumption, Typed
    PROVE  /\ Present \subseteq Units /\ scale \in Nat /\ scale > 0 /\ scale <= N
           /\ leader \in Units \cup {NoUnit} /\ scale - 1 \in Present
  BY UnitFacts DEF Typed, Present

-----------------------------------------------------------------------------
(* What handlers make of the lists. *)

LEMMA ViewFacts ==
    ASSUME MembershipAssumption, Typed, NEW u \in Units
    PROVE  /\ View(u) \in Contexts
           /\ View(u).init = initialised /\ View(u).endpoints = endpoints
           /\ View(u).hosts = Present \cup departed[u]
           /\ View(u).again = FALSE /\ View(u).configured = FALSE
<1>1. Present \cup departed[u] \subseteq Units
  BY PresentFacts DEF Typed
<1> QED BY <1>1 DEF View, Contexts, Typed

\* What a handler may do to its context, other than to initialise the cluster.
Same(c, d) ==
    /\ d \in Contexts /\ d.hosts = c.hosts /\ d.init = c.init /\ d.configured = c.configured
    /\ c.again => d.again

LEMMA SameTwice ==
    ASSUME NEW b, NEW c, NEW d, Same(b, c), Same(c, d)
    PROVE  Same(b, d)
  BY DEF Same

LEMMA SameItself ==
    ASSUME NEW c \in Contexts
    PROVE  Same(c, c)
  BY DEF Same

LEMMA DeferFacts ==
    ASSUME NEW c \in Contexts
    PROVE  Same(c, Defer(c)) /\ Defer(c).again = TRUE /\ Defer(c).endpoints = c.endpoints
  BY DEF Same, Contexts, Defer

LEMMA AddEndpointsFacts ==
    ASSUME NEW c \in Contexts, NEW A \in SUBSET Units
    PROVE  /\ Same(c, AddEndpoints(c, A)) /\ AddEndpoints(c, A).again = c.again
           /\ \A x \in Units : AddEndpoints(c, A).endpoints[x]
                                 = c.endpoints[x] + IF x \in A THEN 1 ELSE 0
<1> DEFINE e == [x \in Units |-> c.endpoints[x] + IF x \in A THEN 1 ELSE 0]
<1>1. e \in [Units -> Nat]
  BY DEF Contexts
<1>2. AddEndpoints(c, A) = [c EXCEPT !.endpoints = e]
  BY DEF AddEndpoints
<1> HIDE DEF e
<1>3. [c EXCEPT !.endpoints = e].endpoints = e
  BY DEF Contexts
<1> QED BY <1>1, <1>2, <1>3 DEF Same, Contexts, e

LEMMA RemoveGoneFacts ==
    ASSUME NEW c \in Contexts, NEW u
    PROVE  /\ Same(c, RemoveGone(u, c)) /\ RemoveGone(u, c).again = c.again
           /\ \A x \in c.hosts : RemoveGone(u, c).endpoints[x] = c.endpoints[x]
<1> DEFINE e == [x \in Units |->
              IF x \in Listed(c) \ c.hosts THEN c.endpoints[x] - 1 ELSE c.endpoints[x]]
<1>1. e \in [Units -> Nat] /\ \A x \in c.hosts : e[x] = c.endpoints[x]
  BY DEF Contexts, Listed
<1>2. CASE leader = u
  <2>1. RemoveGone(u, c) = [c EXCEPT !.endpoints = e]
    BY <1>2 DEF RemoveGone
  <2> HIDE DEF e
  <2>2. [c EXCEPT !.endpoints = e].endpoints = e
    BY DEF Contexts
  <2> QED BY <1>1, <2>1, <2>2 DEF Same, Contexts
<1>3. CASE leader # u
  <2>1. RemoveGone(u, c) = c
    BY <1>3 DEF RemoveGone
  <2> QED BY <2>1, SameItself
<1> QED BY <1>2, <1>3

IsOutcome(r) == r = Outcome(r.ctx, r.labelled, r.sync, r.fails, r.ok)

LEMMA OutcomeFacts ==
    ASSUME NEW c, NEW l, NEW y, NEW f, NEW ok
    PROVE  /\ IsOutcome(Outcome(c, l, y, f, ok))
           /\ Outcome(c, l, y, f, ok).ctx = c /\ Outcome(c, l, y, f, ok).labelled = l
           /\ Outcome(c, l, y, f, ok).sync = y /\ Outcome(c, l, y, f, ok).fails = f
           /\ Outcome(c, l, y, f, ok).ok = ok
  BY DEF IsOutcome, Outcome

LEMMA ChangedOutcomes ==
    ASSUME NEW r, IsOutcome(r), NEW d
    PROVE  /\ [r EXCEPT !.ctx = d] = Outcome(d, r.labelled, r.sync, r.fails, r.ok)
           /\ [r EXCEPT !.ctx = Defer(@)] = Outcome(Defer(r.ctx), r.labelled, r.sync, r.fails, r.ok)
<1> DEFINE o == Outcome(r.ctx, r.labelled, r.sync, r.fails, r.ok)
<1>1. r = o
  BY DEF IsOutcome
<1>2. /\ [o EXCEPT !.ctx = d] = Outcome(d, r.labelled, r.sync, r.fails, r.ok)
      /\ [o EXCEPT !.ctx = Defer(@)] = Outcome(Defer(r.ctx), r.labelled, r.sync, r.fails, r.ok)
  BY DEF Outcome
<1> HIDE DEF o
<1> QED BY <1>1, <1>2

\* The outcomes of _add_members: nothing to do, nothing done yet, or the units of A added,
\* those of F without their labels.
Idles(u, c, r) ==
    /\ leader # u \/ ~c.init \/ c.hosts = labelled
    /\ r = Outcome(c, labelled, sync, 0, TRUE)
Adds(u, c, r, A, F) ==
    /\ leader = u
    /\ \/ r.ctx = Defer(AddEndpoints(c, A))
       \/ r.ctx = AddEndpoints(c, A) /\ A = c.hosts \ labelled
    /\ r.labelled = labelled \cup ((A \ F) \cap Present)
    /\ r.fails = Cardinality(F) /\ r.ok = TRUE /\ IsOutcome(r)
    /\ r.sync = sync \/ \E d : r.sync = SyncConfig(d)

LEMMA AddMembersAre ==
    ASSUME NEW u \in Units, NEW c, NEW r \in AddMembers(u, c)
    PROVE  \/ Idles(u, c, r)
           \/ r = AddLater(c)
           \/ \E A \in SUBSET (c.hosts \ labelled) : \E F \in SUBSET (A \cap Present) :
                 Adds(u, c, r, A, F)
<1> DEFINE missing == c.hosts \ labelled
           Added(A, F) ==
             LET d == AddEndpoints(c, A)
                 l == labelled \cup ((A \ F) \cap Present)
             IN  IF A = missing /\ CanPatch(u)
                 THEN Outcome(d, l, SyncConfig(d), Cardinality(F), TRUE)
                 ELSE Outcome(Defer(d), l, sync, Cardinality(F), TRUE)
<1>1. CASE leader # u \/ ~c.init \/ (c.hosts = labelled /\ started # {})
  BY <1>1 DEF AddMembers, Idles
<1>2. CASE ~(leader # u \/ ~c.init \/ (c.hosts = labelled /\ started # {}))
  <2>1. CASE started = {} \/ (missing # {} /\ ~AllMembersReady)
    BY <1>2, <2>1 DEF AddMembers
  <2>2. CASE ~(started = {} \/ (missing # {} /\ ~AllMembersReady))
    <3>1. r \in UNION {{Added(A, F) : F \in SUBSET (A \cap Present)} :
                         A \in {B \in SUBSET missing : B # {} \/ missing = {}}}
      BY <1>2, <2>2 DEF AddMembers
    <3>2. PICK A \in SUBSET missing : \E F \in SUBSET (A \cap Present) : r = Added(A, F)
      BY <3>1
    <3>3. PICK F \in SUBSET (A \cap Present) : r = Added(A, F)
      BY <3>2
    <3>4. Adds(u, c, r, A, F)
      BY <1>2, <3>3 DEF Adds, Outcome, IsOutcome
    <3> QED BY <3>4
  <2> QED BY <2>1, <2>2
<1> QED BY <1>1, <1>2

\* What the outcome of _add_members keeps, adds, and has done when it neither fails nor defers.
AddsAll(u, c, r) ==
    /\ IsOutcome(r) /\ Same(c, r.ctx) /\ r.ok = TRUE /\ r.fails \in Nat
    /\ labelled \subseteq r.labelled /\ r.labelled \subseteq labelled \cup Present
    /\ \A x \in Units : r.ctx.endpoints[x] >= c.endpoints[x]
    /\ \A x \in r.labelled \ labelled : r.ctx.endpoints[x] > 0
    /\ r.fails = 0 /\ ~r.ctx.again /\ leader = u /\ c.init =>
          \A x \in Present : x \in r.labelled /\ (x \in labelled \/ r.ctx.endpoints[x] > 0)

LEMMA AddMembersFacts ==
    ASSUME MembershipAssumption, Typed, NEW u \in Units, NEW c \in Contexts,
           Present \subseteq c.hosts, NEW r \in AddMembers(u, c)
    PROVE  AddsAll(u, c, r)
<1>0. \A x \in Units : c.endpoints[x] \in Nat
  BY DEF Contexts
<1>1. CASE Idles(u, c, r)
  BY <1>0, <1>1, SameItself DEF Idles, Outcome, IsOutcome, AddsAll
<1>2. CASE r = AddLater(c)
  <2>1. r.ctx = Defer(c) /\ r.labelled = labelled /\ r.fails = 0 /\ r.ok = TRUE /\ IsOutcome(r)
    BY <1>2 DEF AddLater, Outcome, IsOutcome
  <2>2. Same(c, r.ctx) /\ r.ctx.endpoints = c.endpoints /\ r.ctx.again = TRUE
    BY <2>1, DeferFacts
  <2>3. \A x \in Units : r.ctx.endpoints[x] >= c.endpoints[x]
    BY <1>0, <2>2
  <2> QED BY <2>1, <2>2, <2>3 DEF AddsAll
<1>3. ASSUME NEW A \in SUBSET (c.hosts \ labelled), NEW F \in SUBSET (A \cap Present),
             Adds(u, c, r, A, F)
      PROVE  AddsAll(u, c, r)
  <2> DEFINE d == AddEndpoints(c, A)
  <2>1. A \in SUBSET Units
    BY DEF Contexts
  <2>2. /\ Same(c, d) /\ \A x \in Units : d.endpoints[x] >= c.endpoints[x]
        /\ \A x \in A : d.endpoints[x] > 0
    <3>1. \A x \in Units : d.endpoints[x] = c.endpoints[x] + IF x \in A THEN 1 ELSE 0
      BY <2>1, AddEndpointsFacts
    <3>2. Same(c, d)
      BY <2>1, AddEndpointsFacts
    <3> HIDE DEF d
    <3> QED BY <1>0, <2>1, <3>1, <3>2
  <2> HIDE DEF d
  <2>3. Same(c, Defer(d)) /\ Defer(d).endpoints = d.endpoints /\ Defer(d).again = TRUE
    BY <2>2, DeferFacts, SameTwice DEF Same
  <2>4. /\ Same(c, r.ctx) /\ r.ctx.endpoints = d.endpoints
        /\ ~r.ctx.again => A = c.hosts \ labelled
    BY <1>3, <2>2, <2>3 DEF Adds, d
  <2>5. Cardinality(F) \in Nat /\ (Cardinality(F) = 0 => F = {})
    <3>1. IsFiniteSet(Units)
      <4>1. 0 \in Int /\ N - 1 \in Int
        BY UnitFacts
      <4> QED BY <4>1, UnitFacts, FS_Interval
    <3>2. IsFiniteSet(F)
      BY <2>1, <3>1, FS_Subset
    <3> QED BY <3>2, FS_CardinalityType, FS_EmptySet
  <2>6. /\ r.fails \in Nat /\ (r.fails = 0 => F = {}) /\ r.ok = TRUE /\ IsOutcome(r)
        /\ r.labelled = labelled \cup ((A \ F) \cap Present)
    BY <1>3, <2>5 DEF Adds
  <2> QED BY <2>2, <2>4, <2>6 DEF AddsAll
<1> QED BY <1>1, <1>2, <1>3, AddMembersAre

\* What the outcome of _initialize_cluster is.
Initialises(u, c, r) ==
    /\ IsOutcome(r) /\ r.ctx \in Contexts /\ r.fails \in Nat /\ r.ok \in BOOLEAN
    /\ r.ctx.endpoints = c.endpoints /\ r.ctx.hosts = c.hosts /\ r.ctx.configured = c.configured
    /\ r.labelled \in {labelled, labelled \cup {u}}
    /\ r.ctx.init # c.init =>
          r.ctx.init = TRUE /\ PrimaryEndpointReady /\ r.ok /\ r.labelled = labelled \cup {u}
    /\ \/ r.fails = 1 /\ ~r.ok
       \/ r.ok /\ r.ctx.init = TRUE /\ r.labelled = labelled \cup {u}
       \/ ~r.ok /\ r.ctx.again = TRUE /\ r.labelled = labelled \cup {u}

LEMMA InitializeFacts ==
    ASSUME NEW u \in Units, NEW c \in Contexts, NEW r \in Initialize(u, c)
    PROVE  Initialises(u, c, r)
<1> DEFINE l == labelled \cup {u}
           d == [c EXCEPT !.init = TRUE]
<1>1. /\ d \in Contexts /\ d.endpoints = c.endpoints /\ d.hosts = c.hosts
      /\ d.init = TRUE /\ d.configured = c.configured
  BY DEF Contexts
<1> HIDE DEF d
<1>2. CASE r = Outcome(c, labelled, sync, 1, FALSE)
  BY <1>2 DEF Initialises, Outcome, IsOutcome
<1>3. CASE r = Outcome(c, l, sync, 1, FALSE)
  BY <1>3 DEF Initialises, Outcome, IsOutcome
<1>4. CASE r = Outcome(d, l, sync, 0, TRUE) /\ PrimaryEndpointReady
  BY <1>1, <1>4 DEF Initialises, Outcome, IsOutcome
<1>5. CASE r = Outcome(Defer(c), l, sync, 0, FALSE)
  BY <1>5, DeferFacts DEF Initialises, Same, Outcome, IsOutcome
<1> QED BY <1>2, <1>3, <1>4, <1>5 DEF Initialize, d

\* What the outcome of _fix_pod is.
FixesPod(u, c, r) ==
    /\ IsOutcome(r) /\ r.ctx = c /\ r.ok = TRUE /\ r.fails \in Nat
    /\ \/ r.fails = 1 /\ r.labelled = labelled
       \/ r.labelled = labelled /\ u \notin Listed(c)
       \/ r.labelled = labelled \cup {u} /\ u \in Listed(c)

LEMMA FixPodFacts ==
    ASSUME NEW u \in Units, NEW c \in Contexts, NEW r \in FixPod(u, c)
    PROVE  FixesPod(u, c, r)
  BY DEF FixPod, FixesPod, Outcome, IsOutcome

\* What a handler of u commits, if it ends, is an outcome that the next lemmas describe.
Commits(u, r) ==
    \/ /\ endpoints' = r.ctx.endpoints /\ initialised' = r.ctx.init
       /\ configured' = IF r.ctx.configured THEN configured \cup {u} ELSE configured
       /\ deferred' = IF r.ctx.again THEN Again(u, Head(todo[u])) ELSE deferred
       /\ todo' = [todo EXCEPT ![u] = Tail(@)]
       /\ due' = [x \in Units |-> IF x \in Present \ {u} /\ databags' # databags
                                  THEN due[x] \cup {"changed"} ELSE due[x]]
    \/ crashes < MaxCrashes /\ UNCHANGED databags

LEMMA TakesFacts ==
    ASSUME NEW u, NEW e, NEW r, Takes(u, e, r)
    PROVE  /\ UNCHANGED <<scale, leader, departed, elections, scalings, deaths>>
           /\ labelled' = r.labelled /\ failures + r.fails <= MaxFailures
           /\ todo[u] # <<>> /\ Head(todo[u]) = e
           /\ Commits(u, r)
  BY DEF Takes, HandlerEnds, HandlerDies, Commits

\* What a handler has done that neither fails nor defers its event.
HasDone(u, e, r) ==
    /\ e \in {"changed", "elected"} /\ leader = u /\ r.ctx.init =>
          \A x \in Present : x \in r.labelled /\ (x \in labelled \/ r.ctx.endpoints[x] > 0)
    /\ e = "ready" /\ leader = u => u \in r.labelled
    /\ e = "ready" /\ leader # u =>
          initialised /\ r.ctx.configured /\ (endpoints[u] > 0 => u \in r.labelled)

\* What the handlers have in common: the outcome r of u's handler of e.
Handled(u, e, r) ==
    /\ IsOutcome(r) /\ r.ctx \in Contexts /\ r.fails \in Nat
    /\ labelled \subseteq r.labelled /\ r.labelled \subseteq labelled \cup Present \cup {u}
    /\ \A x \in Present : r.ctx.endpoints[x] >= endpoints[x]
    /\ \A x \in r.labelled \ labelled : r.ctx.endpoints[x] > 0 \/ (x = u /\ leader = u)
    /\ r.ctx.configured => r.ctx.init /\ (e = "ready" \/ r.ctx.endpoints[u] > 0)
    /\ r.ctx.init # initialised =>
          /\ r.ctx.init = TRUE /\ PrimaryEndpointReady
          /\ leader = u /\ u \in r.labelled /\ e # "elected"
          /\ e = "changed" => r.ctx.again
    /\ e = "elected" /\ leader = u => r.ctx.endpoints[u] > 0
    /\ r.fails = 0 /\ ~r.ctx.again => HasDone(u, e, r)

LEMMA ElectedHandled ==
    ASSUME MembershipAssumption, Typed, NEW u \in Units, OnLeaderElected(u)
    PROVE  /\ \E r : Handled(u, "elected", r) /\ Takes(u, "elected", r)
           /\ started' = started /\ running' = running /\ system' = system
           /\ IF initialised THEN lock' = lock /\ key' = key ELSE lock' = Absent /\ key' = 0
<1> DEFINE c == View(u)
           listed == IF leader = u /\ u \notin Listed(c) THEN AddEndpoints(c, {u}) ELSE c
           fixed == FixLeaderAnnotation(u, listed)
           rest == RemoveGone(u, fixed)
<1>0. /\ c \in Contexts /\ c.init = initialised /\ c.endpoints = endpoints /\ Present \subseteq c.hosts
      /\ c.configured = FALSE /\ Present \subseteq Units /\ lock # NoUnit
      /\ \A x \in Units : endpoints[x] \in Nat
  BY ViewFacts, PresentFacts, UnitFacts DEF Typed
<1>1. PICK r \in {Outcome(fixed, labelled, sync, 1, FALSE)} \cup AddMembers(u, rest) :
         Takes(u, "elected", r)
  BY DEF OnLeaderElected
<1>2. /\ started' = started /\ running' = running /\ system' = system
      /\ IF initialised THEN lock' = lock /\ key' = key ELSE lock' = Absent /\ key' = 0
  <2> DEFINE objects == CleanupOldClusterResources(c)
  <2>1. /\ started' = started /\ running' = running /\ system' = system
        /\ lock' = IF objects.lock = NoUnit THEN u ELSE objects.lock
        /\ key' = objects.key
    BY DEF OnLeaderElected
  <2> HIDE DEF c
  <2>2. /\ objects.lock = IF initialised THEN lock ELSE Absent
        /\ objects.key = IF initialised THEN key ELSE 0
    BY <1>0 DEF CleanupOldClusterResources
  <2> HIDE DEF objects
  <2> QED BY <1>0, <2>1, <2>2, UnitFacts
<1> HIDE DEF c
<1>3. fixed = listed
  BY <1>0 DEF FixLeaderAnnotation
<1>4. /\ Same(c, listed) /\ (leader = u => listed.endpoints[u] > 0)
      /\ \A x \in Units : listed.endpoints[x] >= endpoints[x]
  <2>1. CASE leader = u /\ u \notin Listed(c)
    <3>1. {u} \in SUBSET Units
      OBVIOUS
    <3>2. listed = AddEndpoints(c, {u})
      BY <2>1
    <3>3. /\ Same(c, AddEndpoints(c, {u}))
          /\ \A x \in Units : AddEndpoints(c, {u}).endpoints[x]
                                = c.endpoints[x] + IF x \in {u} THEN 1 ELSE 0
      BY <1>0, <3>1, AddEndpointsFacts
    <3> HIDE DEF listed
    <3>4. \A x \in Units : listed.endpoints[x] = endpoints[x] + IF x \in {u} THEN 1 ELSE 0
      BY <1>0, <3>2, <3>3
    <3>5. \A x \in Units : listed.endpoints[x] >= endpoints[x]
      BY <1>0, <3>4
    <3>6. listed.endpoints[u] > 0
      BY <1>0, <3>4
    <3> QED BY <3>2, <3>3, <3>5, <3>6
  <2>2. CASE ~(leader = u /\ u \notin Listed(c))
    <3>1. listed = c
      BY <2>2
    <3> HIDE DEF listed
    <3> QED BY <1>0, <2>2, <3>1, SameItself DEF Listed
  <2> QED BY <2>1, <2>2
<1> HIDE DEF listed, fixed
<1>5. /\ Same(c, rest) /\ \A x \in c.hosts : rest.endpoints[x] = listed.endpoints[x]
  <2>1. listed \in Contexts /\ listed.hosts = c.hosts
    BY <1>4 DEF Same
  <2>2. Same(listed, RemoveGone(u, listed))
        /\ \A x \in c.hosts : RemoveGone(u, listed).endpoints[x] = listed.endpoints[x]
    BY <2>1, RemoveGoneFacts
  <2> QED BY <1>3, <1>4, <2>2, SameTwice
<1> HIDE DEF rest
<1>6. CASE r = Outcome(fixed, labelled, sync, 1, FALSE)
  <2>1. r.ctx = listed /\ r.labelled = labelled /\ r.fails = 1 /\ IsOutcome(r)
    BY <1>3, <1>6 DEF Outcome, IsOutcome
  <2>2. Handled(u, "elected", r)
    BY <1>0, <1>4, <2>1 DEF Handled, Same
  <2> QED BY <1>1, <1>2, <2>2
<1>7. CASE r \in AddMembers(u, rest)
  <2>1. rest \in Contexts /\ rest.hosts = c.hosts /\ rest.init = initialised
        /\ rest.configured = FALSE
    BY <1>0, <1>5 DEF Same
  <2>2. AddsAll(u, rest, r)
    BY <1>0, <1>7, <2>1, AddMembersFacts
  <2>3. /\ r.ctx \in Contexts /\ r.ctx.init = initialised /\ r.ctx.configured = FALSE
        /\ \A x \in Units : r.ctx.endpoints[x] \in Nat /\ r.ctx.endpoints[x] >= rest.endpoints[x]
    BY <2>1, <2>2 DEF AddsAll, Same, Contexts
  <2>4. \A x \in Present : r.ctx.endpoints[x] >= endpoints[x]
    BY <1>0, <1>4, <1>5, <2>1, <2>3 DEF Contexts
  <2>5. leader = u => r.ctx.endpoints[u] > 0
    <3>1. SUFFICES ASSUME leader = u PROVE r.ctx.endpoints[u] > 0
      OBVIOUS
    <3>2. u \in Present
      BY <3>1, UnitFacts DEF Typed
    <3>3. rest.endpoints[u] = listed.endpoints[u] /\ listed.endpoints[u] > 0
      BY <1>0, <1>4, <1>5, <3>1, <3>2
    <3>4. listed.endpoints[u] \in Nat /\ r.ctx.endpoints[u] >= rest.endpoints[u]
      BY <1>4, <2>3 DEF Same, Contexts
    <3> QED BY <2>3, <3>3, <3>4
  <2>6. Handled(u, "elected", r)
    BY <1>0, <2>1, <2>2, <2>3, <2>4, <2>5 DEF Handled, AddsAll, HasDone
  <2> QED BY <1>1, <1>2, <2>6
<1> QED BY <1>1, <1>6, <1>7

\* A handler that starts from the context c of View(u) and does not list or take off units.
LEMMA SimplyHandled ==
    ASSUME MembershipAssumption, Typed, NEW u \in Units, NEW e, NEW r,
           IsOutcome(r), r.ctx \in Contexts, r.fails \in Nat,
           r.ctx.endpoints = endpoints, e # "elected",
           r.labelled \in {labelled, labelled \cup {u}},
           r.labelled = labelled \/ leader = u \/ endpoints[u] > 0,
           r.ctx.configured => r.ctx.init /\ (e = "ready" \/ endpoints[u] > 0),
           r.ctx.init # initialised =>
              /\ r.ctx.init = TRUE /\ PrimaryEndpointReady
              /\ leader = u /\ u \in r.labelled
              /\ e = "changed" => r.ctx.again,
           r.fails = 0 /\ ~r.ctx.again => HasDone(u, e, r)
    PROVE  Handled(u, e, r)
<1>1. \A x \in Present : r.ctx.endpoints[x] >= endpoints[x]
  BY PresentFacts DEF Typed
<1> QED BY <1>1 DEF Handled

LEMMA EarlyHandled ==
    ASSUME MembershipAssumption, Typed, NEW u \in Units, OnPeerChangedEarly(u)
    PROVE  /\ \E r : Handled(u, "changed", r) /\ Takes(u, "changed", r)
           /\ UNCHANGED patroni
<1> DEFINE c == View(u)
           Outcomes == IF leader = u THEN Initialize(u, c)
                       ELSE {Outcome(c, labelled, sync, 0, FALSE)}
           Final(r) == IF r.ok THEN [r EXCEPT !.ctx = Defer(@)] ELSE r
<1>0. /\ c \in Contexts /\ c.init = FALSE /\ initialised = FALSE /\ c.endpoints = endpoints
      /\ c.configured = FALSE
  BY ViewFacts DEF OnPeerChangedEarly, Contexts
<1>1. PICK r \in Outcomes : Takes(u, "changed", Final(r))
  BY DEF OnPeerChangedEarly
<1>2. UNCHANGED patroni
  BY DEF OnPeerChangedEarly
<1> HIDE DEF c
<1>3. /\ IsOutcome(r) /\ r.ctx \in Contexts /\ r.ctx.endpoints = endpoints /\ r.fails \in Nat
      /\ r.labelled \in {labelled, labelled \cup {u}}
      /\ r.labelled = labelled \/ leader = u
      /\ r.ctx.configured = FALSE
      /\ r.ctx.init # FALSE => /\ r.ctx.init = TRUE /\ PrimaryEndpointReady
                               /\ leader = u /\ r.ok /\ u \in r.labelled
  <2>1. CASE leader = u
    <3>1. r \in Initialize(u, c)
      BY <2>1
    <3>2. Initialises(u, c, r)
      BY <1>0, <3>1, InitializeFacts
    <3>4. r.ctx.init # FALSE => /\ r.ctx.init = TRUE /\ PrimaryEndpointReady
                                /\ leader = u /\ r.ok /\ u \in r.labelled
      BY <1>0, <2>1, <3>2 DEF Initialises
    <3> QED BY <1>0, <2>1, <3>2, <3>4 DEF Initialises
  <2>2. CASE leader # u
    <3>1. r = Outcome(c, labelled, sync, 0, FALSE)
      BY <2>2
    <3> QED BY <1>0, <3>1 DEF Outcome, IsOutcome
  <2> QED BY <2>1, <2>2
<1>4. /\ IsOutcome(Final(r)) /\ Final(r).ctx \in Contexts /\ Final(r).ctx.endpoints = endpoints
      /\ Final(r).fails = r.fails /\ Final(r).labelled = r.labelled
      /\ Final(r).ctx.init = r.ctx.init /\ Final(r).ctx.configured = FALSE
      /\ r.ok => Final(r).ctx.again
  <2>1. CASE r.ok
    <3>1. Final(r) = Outcome(Defer(r.ctx), r.labelled, r.sync, r.fails, r.ok)
      BY <1>3, <2>1, ChangedOutcomes
    <3>2. /\ Same(r.ctx, Defer(r.ctx)) /\ Defer(r.ctx).again = TRUE
          /\ Defer(r.ctx).endpoints = r.ctx.endpoints
      BY <1>3, DeferFacts
    <3> HIDE DEF Final
    <3> QED BY <1>3, <3>1, <3>2 DEF Outcome, IsOutcome, Same
  <2>2. CASE ~r.ok
    BY <1>3, <2>2
  <2> QED BY <2>1, <2>2
<1> HIDE DEF Final
<1>5. Final(r).fails = 0 /\ ~Final(r).ctx.again => HasDone(u, "changed", Final(r))
  BY <1>3, <1>4 DEF HasDone
<1>6. Handled(u, "changed", Final(r))
  BY <1>0, <1>3, <1>4, <1>5, SimplyHandled
<1> QED BY <1>1, <1>2, <1>6

LEMMA ChangedHandled ==
    ASSUME MembershipAssumption, Typed, NEW u \in Units, OnPeerChanged(u)
    PROVE  /\ \E r : Handled(u, "changed", r) /\ Takes(u, "changed", r)
           /\ UNCHANGED patroni
<1> DEFINE c == View(u)
           Final(r) == IF u \notin Listed(r.ctx) THEN r
                       ELSE IF u \in running THEN Configured(r)
                       ELSE [r EXCEPT !.ctx = Defer(@)]
<1>0. /\ c \in Contexts /\ c.init = TRUE /\ initialised = TRUE /\ c.endpoints = endpoints
      /\ c.configured = FALSE /\ Present \subseteq c.hosts /\ Present \subseteq Units
  BY ViewFacts, PresentFacts DEF OnPeerChanged, Contexts
<1>1. PICK r \in AddMembers(u, c) : Takes(u, "changed", Final(r))
  BY DEF OnPeerChanged
<1>2. UNCHANGED patroni
  BY DEF OnPeerChanged
<1> HIDE DEF c
<1>3. AddsAll(u, c, r)
  BY <1>0, <1>1, AddMembersFacts
<1>4. /\ IsOutcome(r) /\ r.ctx \in Contexts /\ r.ctx.init = TRUE /\ r.ctx.configured = FALSE
  BY <1>0, <1>3 DEF AddsAll, Same
<1>5. /\ IsOutcome(Final(r)) /\ Final(r).ctx \in Contexts
      /\ Final(r).ctx.endpoints = r.ctx.endpoints
      /\ Final(r).fails = r.fails /\ Final(r).labelled = r.labelled
      /\ Final(r).ctx.init = TRUE
      /\ Final(r).ctx.configured => r.ctx.endpoints[u] > 0
      /\ r.ctx.again => Final(r).ctx.again
  <2>1. CASE u \notin Listed(r.ctx)
    BY <1>4, <2>1
  <2>2. CASE u \in Listed(r.ctx) /\ u \in running
    <3> DEFINE d == [r.ctx EXCEPT !.configured = TRUE]
    <3>1. d \in Contexts /\ d.endpoints = r.ctx.endpoints /\ d.init = TRUE /\ d.again = r.ctx.again
      BY <1>4 DEF Contexts
    <3>2. Final(r) = Outcome(d, r.labelled, SyncConfig(r.ctx), r.fails, r.ok)
      BY <2>2 DEF Configured
    <3> HIDE DEF d, Final
    <3> QED BY <2>2, <3>1, <3>2 DEF Outcome, IsOutcome, Listed
  <2>3. CASE u \in Listed(r.ctx) /\ u \notin running
    <3>1. Final(r) = Outcome(Defer(r.ctx), r.labelled, r.sync, r.fails, r.ok)
      BY <1>4, <2>3, ChangedOutcomes
    <3>2. /\ Same(r.ctx, Defer(r.ctx)) /\ Defer(r.ctx).again = TRUE
          /\ Defer(r.ctx).endpoints = r.ctx.endpoints
      BY <1>4, DeferFacts
    <3> HIDE DEF Final
    <3> QED BY <1>4, <3>1, <3>2 DEF Outcome, IsOutcome, Same
  <2> QED BY <2>1, <2>2, <2>3
<1> HIDE DEF Final
<1>6. Handled(u, "changed", Final(r))
  <2>1. \A x \in Present : r.ctx.endpoints[x] >= endpoints[x]
    BY <1>0, <1>3 DEF AddsAll
  <2>2. Final(r).fails = 0 /\ ~Final(r).ctx.again => HasDone(u, "changed", Final(r))
    BY <1>0, <1>3, <1>5 DEF HasDone, AddsAll
  <2> QED BY <1>0, <1>3, <1>5, <2>1, <2>2 DEF Handled, AddsAll
<1> QED BY <1>1, <1>2, <1>6

LEMMA DepartedHandled ==
    ASSUME MembershipAssumption, Typed, NEW u \in Units, OnPeerDeparted(u)
    PROVE  /\ \E r : Handled(u, "departed", r) /\ Takes(u, "departed", r)
           /\ UNCHANGED patroni
<1> DEFINE c == View(u)
<1>0. /\ c \in Contexts /\ c.init = initialised /\ c.endpoints = endpoints
      /\ c.configured = FALSE /\ Present \subseteq c.hosts
      /\ \A x \in Present : endpoints[x] \in Nat
  BY ViewFacts, PresentFacts DEF Typed
<1>1. PICK r : /\ Takes(u, "departed", r)
               /\ \/ r = Outcome(c, labelled, sync, 0, TRUE)
                  \/ r = Outcome(Defer(c), labelled, sync, 0, TRUE)
                  \/ r = Outcome(RemoveGone(u, c), labelled, SyncConfig(c), 0, TRUE)
  BY DEF OnPeerDeparted
<1>2. UNCHANGED patroni
  BY DEF OnPeerDeparted
<1> HIDE DEF c
<1>3. /\ Same(c, r.ctx) /\ r.labelled = labelled /\ r.fails = 0 /\ IsOutcome(r)
      /\ \A x \in Present : r.ctx.endpoints[x] = endpoints[x]
  <2>1. CASE r = Outcome(c, labelled, sync, 0, TRUE)
    BY <1>0, <2>1, SameItself DEF Outcome, IsOutcome
  <2>2. CASE r = Outcome(Defer(c), labelled, sync, 0, TRUE)
    BY <1>0, <2>2, DeferFacts DEF Outcome, IsOutcome
  <2>3. CASE r = Outcome(RemoveGone(u, c), labelled, SyncConfig(c), 0, TRUE)
    BY <1>0, <2>3, RemoveGoneFacts DEF Outcome, IsOutcome
  <2> QED BY <1>1, <2>1, <2>2, <2>3
<1>4. Handled(u, "departed", r)
  BY <1>0, <1>3 DEF Handled, HasDone, Same
<1> QED BY <1>1, <1>2, <1>4

LEMMA ReadyHandled ==
    ASSUME MembershipAssumption, Typed, NEW u \in Units, OnPebbleReady(u)
    PROVE  /\ \E r : Handled(u, "ready", r) /\ Takes(u, "ready", r)
           /\ started' = IF leader = u \/ initialised THEN started \cup {u} ELSE started
           /\ running' = running /\ system' = system /\ lock' = lock /\ key' = key
<1> DEFINE c == View(u)
           up == MayStart(u, c) /\ u \in running
           Final(r) == IF r.ok THEN Configured(r) ELSE r
<1>0. /\ c \in Contexts /\ c.init = initialised /\ c.endpoints = endpoints
      /\ c.configured = FALSE /\ (endpoints[u] > 0 <=> u \in Listed(c))
  BY ViewFacts DEF Listed
<1>1. /\ started' = IF leader = u \/ initialised THEN started \cup {u} ELSE started
      /\ running' = running /\ system' = system /\ lock' = lock /\ key' = key
  BY <1>0 DEF OnPebbleReady, MayStart
<1>2. \/ ~up /\ \E r \in FixPod(u, c) : Takes(u, "ready", [r EXCEPT !.ctx = Defer(@)])
      \/ up /\ \E r \in IF leader = u THEN Initialize(u, c) ELSE FixPod(u, c) :
                  Takes(u, "ready", Final(r))
  BY DEF OnPebbleReady
<1>3. up => leader = u \/ initialised
  BY <1>0 DEF MayStart
<1> HIDE DEF c, up
<1>4. ASSUME NEW r \in FixPod(u, c)
      PROVE  Handled(u, "ready", [r EXCEPT !.ctx = Defer(@)])
  <2> DEFINE f == [r EXCEPT !.ctx = Defer(@)]
  <2>1. /\ IsOutcome(r) /\ r.ctx = c /\ r.fails \in Nat
        /\ r.labelled \in {labelled, labelled \cup {u}}
        /\ r.labelled = labelled \/ u \in Listed(c)
    <3>1. FixesPod(u, c, r)
      BY <1>0, <1>4, FixPodFacts
    <3>2. r.labelled \in {labelled, labelled \cup {u}}
      BY <3>1 DEF FixesPod
    <3> QED BY <3>1, <3>2 DEF FixesPod
  <2>2. f = Outcome(Defer(c), r.labelled, r.sync, r.fails, r.ok)
    BY <2>1, ChangedOutcomes
  <2>3. Same(c, Defer(c)) /\ Defer(c).again = TRUE /\ Defer(c).endpoints = endpoints
    BY <1>0, DeferFacts
  <2> HIDE DEF f
  <2>4. /\ IsOutcome(f) /\ f.ctx \in Contexts /\ f.fails \in Nat /\ f.ctx.endpoints = endpoints
        /\ f.labelled = r.labelled /\ f.ctx.init = initialised
        /\ f.ctx.configured = FALSE /\ f.ctx.again = TRUE
    BY <1>0, <2>1, <2>2, <2>3 DEF Outcome, IsOutcome, Same
  <2>5. f.labelled = labelled \/ leader = u \/ endpoints[u] > 0
    BY <1>0, <2>1, <2>4
  <2> QED BY <2>1, <2>4, <2>5, SimplyHandled DEF f
<1>5. ASSUME NEW r, up, IF leader = u THEN r \in Initialize(u, c) ELSE r \in FixPod(u, c)
      PROVE  Handled(u, "ready", Final(r))
  <2>1. CASE leader = u
    <3>1. Initialises(u, c, r)
      BY <1>0, <1>5, <2>1, InitializeFacts
    <3> DEFINE d == [r.ctx EXCEPT !.configured = TRUE]
    <3>2. d \in Contexts /\ d.endpoints = r.ctx.endpoints /\ d.init = r.ctx.init /\ d.again = r.ctx.again
          /\ d.configured = TRUE
      BY <3>1 DEF Contexts, Initialises
    <3>3. /\ IsOutcome(Final(r)) /\ Final(r).ctx \in Contexts
          /\ Final(r).ctx.endpoints = r.ctx.endpoints
          /\ Final(r).fails = r.fails /\ Final(r).labelled = r.labelled
          /\ Final(r).ctx.init = r.ctx.init /\ Final(r).ctx.again = r.ctx.again
          /\ Final(r).ctx.configured => r.ok
      <4>1. CASE r.ok
        <5>1. Final(r) = Outcome(d, r.labelled, SyncConfig(r.ctx), r.fails, r.ok)
          BY <4>1 DEF Configured
        <5> HIDE DEF d, Final
        <5> QED BY <3>2, <4>1, <5>1 DEF Outcome, IsOutcome
      <4>2. CASE ~r.ok
        <5>1. Final(r) = r
          BY <4>2
        <5> HIDE DEF Final
        <5> QED BY <1>0, <3>1, <5>1 DEF Initialises
      <4> QED BY <4>1, <4>2
    <3> HIDE DEF Final, d
    <3>4. r.ok => r.ctx.init = TRUE
      BY <3>1 DEF Initialises
    <3>5. Final(r).fails = 0 /\ ~Final(r).ctx.again => HasDone(u, "ready", Final(r))
      BY <2>1, <3>1, <3>3 DEF HasDone, Initialises
    <3>6. Final(r).ctx.init # initialised =>
             Final(r).ctx.init = TRUE /\ PrimaryEndpointReady /\ u \in Final(r).labelled
      BY <1>0, <3>1, <3>3 DEF Initialises
    <3>7. /\ Final(r).fails \in Nat /\ Final(r).ctx.endpoints = endpoints
          /\ Final(r).labelled \in {labelled, labelled \cup {u}}
      BY <1>0, <3>1, <3>3 DEF Initialises
    <3> QED BY <2>1, <3>3, <3>4, <3>5, <3>6, <3>7, SimplyHandled
  <2>2. CASE leader # u
    <3>1. /\ IsOutcome(r) /\ r.ctx = c /\ r.fails \in Nat /\ r.ok = TRUE
          /\ r.labelled \in {labelled, labelled \cup {u}}
          /\ r.labelled = labelled \/ u \in Listed(c)
          /\ r.fails = 0 => (u \in Listed(c) => u \in r.labelled)
      <4>1. r \in FixPod(u, c)
        BY <1>5, <2>2
      <4>2. FixesPod(u, c, r)
        BY <1>0, <4>1, FixPodFacts
      <4>3. r.labelled \in {labelled, labelled \cup {u}}
        BY <4>2 DEF FixesPod
      <4>4. r.fails = 0 => (u \in Listed(c) => u \in r.labelled)
        BY <4>2 DEF FixesPod
      <4> QED BY <4>2, <4>3, <4>4 DEF FixesPod
    <3> DEFINE d == [c EXCEPT !.configured = TRUE]
    <3>2. d \in Contexts /\ d.endpoints = endpoints /\ d.init = initialised /\ d.configured = TRUE
      BY <1>0 DEF Contexts
    <3>3. Final(r) = Outcome(d, r.labelled, SyncConfig(c), r.fails, r.ok)
      BY <3>1 DEF Configured
    <3> HIDE DEF d, Final
    <3>4. /\ IsOutcome(Final(r)) /\ Final(r).ctx = d
          /\ Final(r).fails = r.fails /\ Final(r).labelled = r.labelled
      BY <3>3 DEF Outcome, IsOutcome
    <3>5. initialised = TRUE
      BY <1>3, <1>5, <2>2 DEF Typed
    <3>6. Final(r).fails = 0 => HasDone(u, "ready", Final(r))
      BY <1>0, <2>2, <3>1, <3>2, <3>4, <3>5 DEF HasDone
    <3>7. Final(r).labelled = labelled \/ leader = u \/ endpoints[u] > 0
      BY <1>0, <3>1, <3>4
    <3> QED BY <3>1, <3>2, <3>4, <3>5, <3>6, <3>7, SimplyHandled
  <2> QED BY <2>1, <2>2
<1> HIDE DEF Final
<1> QED BY <1>1, <1>2, <1>4, <1>5

\* What a handler does to the other components.
Handles(u, e, r) ==
    /\ Handled(u, e, r) /\ Takes(u, e, r)
    /\ running' = running /\ system' = system
    /\ \/ started' = started
       \/ started' = started \cup {u} /\ (leader = u \/ initialised)
    /\ \/ lock' = lock /\ key' = key
       \/ e = "elected" /\ ~initialised /\ lock' = Absent /\ key' = 0

LEMMA HandlersHandle ==
    ASSUME MembershipAssumption, Typed, NEW u \in Units, Handlers(u)
    PROVE  \E e \in Events : \E r : Handles(u, e, r)
<1>0. "elected" \in Events /\ "ready" \in Events /\ "changed" \in Events /\ "departed" \in Events
  BY DEF Events
<1>1. CASE OnLeaderElected(u)
  <2>1. PICK r : Handled(u, "elected", r) /\ Takes(u, "elected", r)
    BY <1>1, ElectedHandled
  <2>2. Handles(u, "elected", r)
    BY <1>1, <2>1, ElectedHandled DEF Handles, Typed
  <2> QED BY <1>0, <2>2
<1>2. CASE OnPeerChangedEarly(u) \/ OnPeerChanged(u)
  <2>1. PICK r : Handled(u, "changed", r) /\ Takes(u, "changed", r)
    BY <1>2, EarlyHandled, ChangedHandled
  <2>2. UNCHANGED patroni
    BY <1>2, EarlyHandled, ChangedHandled
  <2>3. Handles(u, "changed", r)
    BY <2>1, <2>2 DEF Handles
  <2> QED BY <1>0, <2>3
<1>3. CASE OnPeerDeparted(u)
  <2>1. PICK r : Handled(u, "departed", r) /\ Takes(u, "departed", r)
    BY <1>3, DepartedHandled
  <2>2. UNCHANGED patroni
    BY <1>3, DepartedHandled
  <2>3. Handles(u, "departed", r)
    BY <2>1, <2>2 DEF Handles
  <2> QED BY <1>0, <2>3
<1>4. CASE OnPebbleReady(u)
  <2>1. PICK r : Handled(u, "ready", r) /\ Takes(u, "ready", r)
    BY <1>4, ReadyHandled
  <2>2. Handles(u, "ready", r)
    BY <1>4, <2>1, ReadyHandled DEF Handles
  <2> QED BY <1>0, <2>2
<1> QED BY <1>1, <1>2, <1>3, <1>4 DEF Handlers

\* What a handler may change, whether it ends or dies.
LEMMA HandlesFacts ==
    ASSUME MembershipAssumption, Typed, NEW u \in Units, NEW e, NEW r, Handles(u, e, r)
    PROVE  /\ scale' = scale /\ leader' = leader /\ departed' = departed /\ elections' = elections
           /\ endpoints' \in [Units -> Nat] /\ initialised' \in BOOLEAN
           /\ labelled' = r.labelled /\ labelled' \subseteq Units
           /\ initialised' # initialised =>
                 initialised' /\ leader = u /\ PrimaryEndpointReady /\ lock' = lock /\ key' = key
<1>1. Takes(u, e, r) /\ Handled(u, e, r)
  BY DEF Handles
<1>2. /\ UNCHANGED <<scale, leader, departed, elections, scalings, deaths>>
      /\ labelled' = r.labelled /\ Commits(u, r)
  BY <1>1, TakesFacts
<1>3. /\ r.ctx.endpoints \in [Units -> Nat] /\ r.ctx.init \in BOOLEAN
      /\ r.labelled \subseteq Units
  BY <1>1, PresentFacts DEF Handled, Contexts, Typed
<1>4. \/ endpoints' = r.ctx.endpoints /\ initialised' = r.ctx.init
      \/ endpoints' = endpoints /\ initialised' = initialised
  BY <1>2 DEF Commits
<1>5. initialised' # initialised =>
         initialised' /\ leader = u /\ PrimaryEndpointReady /\ lock' = lock /\ key' = key
  <2>1. r.ctx.init # initialised => /\ r.ctx.init = TRUE /\ PrimaryEndpointReady
                                    /\ leader = u /\ e # "elected"
    BY <1>1 DEF Handled
  <2> QED BY <1>4, <2>1 DEF Handles
<1> QED BY <1>2, <1>3, <1>4, <1>5 DEF Typed

LEMMA HandlersTyped ==
    ASSUME MembershipAssumption, Typed, NEW u \in Units, Handlers(u)
    PROVE  Typed'
<1>0. PICK e \in Events : \E r : Handles(u, e, r)
  BY HandlersHandle
<1>1. PICK r : Handles(u, e, r)
  BY <1>0
<1>2. /\ scale' = scale /\ leader' = leader /\ departed' = departed
      /\ endpoints' \in [Units -> Nat] /\ initialised' \in BOOLEAN /\ labelled' \subseteq Units
  BY <1>1, HandlesFacts
<1>3. running' \subseteq started' /\ started' \subseteq Units /\ system' = system
  BY <1>1 DEF Handles, Typed
<1>4. lock' \in Units \cup {Absent} /\ key' \in Nat
  BY <1>1 DEF Handles, Typed
<1>5. Present' = Present
  BY <1>2 DEF Present
<1> QED BY <1>2, <1>3, <1>4, <1>5 DEF Typed

LEMMA HandlersSingle ==
    ASSUME MembershipAssumption, Typed, Single, NEW u \in Units, Handlers(u)
    PROVE  Single'
<1>0. PICK e \in Events : \E r : Handles(u, e, r)
  BY HandlersHandle
<1>1. PICK r : Handles(u, e, r)
  BY <1>0
<1>2. /\ leader' = leader /\ initialised \in BOOLEAN
      /\ initialised' # initialised =>
            initialised' /\ leader = u /\ PrimaryEndpointReady /\ lock' = lock /\ key' = key
  BY <1>1, HandlesFacts DEF Typed
<1>3. /\ running' = running /\ system' = system
      /\ \/ started' = started
         \/ started' = started \cup {u} /\ (leader = u \/ initialised)
      /\ \/ lock' = lock /\ key' = key
         \/ ~initialised /\ lock' = Absent /\ key' = 0
  BY <1>1 DEF Handles
<1>4. PrimaryEndpointReady => key # 0
  BY DEF PrimaryEndpointReady, Single, Typed
<1> QED BY <1>2, <1>3, <1>4, UnitFacts DEF Single

-----------------------------------------------------------------------------
(* One database. *)

\* When nothing names a database system yet, the next one is the first.
LEMMA FirstSystem ==
    ASSUME MembershipAssumption, Typed, Single, NEW u \in started, key = 0, system[u] = 0
    PROVE  1 + Max({system[v] : v \in Units}) = 1
<1>1. \A v \in Units : system[v] = 0
  BY DEF Single, Typed
<1>2. {system[v] : v \in Units} = {0}
  BY <1>1 DEF Typed
<1>3. Max({0}) = 0
  <2>1. \E x \in {0} : \A y \in {0} : x >= y
    OBVIOUS
  <2> QED BY <2>1 DEF Max
<1> QED BY <1>2, <1>3

LEMMA PatroniSteps ==
    ASSUME MembershipAssumption, Typed, Single, NEW u \in Units, PostgresUp(u) \/ TakeLock(u)
    PROVE  Typed' /\ Single'
<1>1. CASE PostgresUp(u)
  <2>1. /\ u \in started
        /\ running' = running \cup {u}
        /\ UNCHANGED <<scale, leader, databags, labelled, started, departed>>
    BY <1>1 DEF PostgresUp
  <2>2. CASE system[u] # 0 /\ key \in {0, system[u]} /\ UNCHANGED <<system, key, lock>>
    BY <2>1, <2>2 DEF Typed, Single, Present
  <2>3. CASE /\ system[u] = 0 /\ key # 0 /\ system' = [system EXCEPT ![u] = key]
             /\ UNCHANGED <<key, lock>>
    BY <2>1, <2>3 DEF Typed, Single, Present
  <2>4. CASE /\ system[u] = 0 /\ key = 0
             /\ system' = [system EXCEPT ![u] = 1 + Max({system[v] : v \in Units})]
             /\ key' = system'[u] /\ lock' = u
    <3>1. system' = [system EXCEPT ![u] = 1] /\ key' = 1 /\ ~initialised
      BY <2>1, <2>4, FirstSystem DEF Typed, Single
    <3>2. Typed'
      BY <2>1, <2>4, <3>1 DEF Typed, Present
    <3>3. u = leader /\ (\A v \in Units \ {leader} : system[v] = 0 /\ v \notin started)
      BY <2>1, <3>1 DEF Single
    <3>4. \A v \in Units : system'[v] \in {0, 1} /\ (v # leader => system'[v] = 0)
      BY <3>1, <3>3 DEF Typed
    <3>5. \A v \in running' : system'[v] # 0
      BY <2>1, <3>1 DEF Single, Typed
    <3> QED BY <2>1, <2>4, <3>1, <3>2, <3>3, <3>4, <3>5, UnitFacts DEF Single
  <2> QED BY <1>1, <2>2, <2>3, <2>4 DEF PostgresUp
<1>2. CASE TakeLock(u)
  BY <1>2 DEF TakeLock, Typed, Single, Present
<1> QED BY <1>1, <1>2

LEMMA JujuSteps ==
    ASSUME MembershipAssumption, ~MayElectEarly, ~MayRelease, Typed, Single,
           NEW u \in Units, Elect(u) \/ PodDies(u) \/ (\E e \in Events \cup {"other"} : Begin(u, e))
    PROVE  Typed' /\ Single'
<1>1. CASE Elect(u)
  BY <1>1 DEF Elect, Typed, Single, Present
<1>2. CASE PodDies(u)
  BY <1>2 DEF PodDies, Typed, Single, Present
<1>3. ASSUME NEW e \in Events \cup {"other"}, Begin(u, e)
      PROVE  Typed' /\ Single'
  <2>1. UNCHANGED <<juju, databags, labelled, patroni>>
    BY <1>3 DEF Begin
  <2>2. departed' \in [Units -> SUBSET Units]
    BY <1>3 DEF Begin, Typed
  <2> QED BY <2>1, <2>2 DEF Typed, Single, Present
<1> QED BY <1>1, <1>2, <1>3

LEMMA ScalingSteps ==
    ASSUME MembershipAssumption, Typed, Single, RemoveUnit \/ AddUnit
    PROVE  Typed' /\ Single'
<1>1. CASE RemoveUnit
  <2> DEFINE x == scale - 1
  <2>1. /\ scale > 1 /\ initialised /\ scale' = x
        /\ leader' = IF leader = x THEN NoUnit ELSE leader
        /\ labelled' = labelled \ {x} /\ started' = started \ {x} /\ running' = running \ {x}
        /\ system' = [system EXCEPT ![x] = 0] /\ initialised' = initialised /\ key' = key
    BY <1>1 DEF RemoveUnit
  <2>2. x \in Units /\ x \in Present
    BY PresentFacts
  <2>3. endpoints' \in [Units -> Nat] /\ lock' \in Units \cup {Absent} /\ (lock' \in Units => key # 0)
    <3>1. RemoveGone(x, View(x)).endpoints \in [Units -> Nat]
      BY <2>2, ViewFacts, RemoveGoneFacts DEF Same, Contexts
    <3>2. \/ lock' = lock /\ endpoints' = endpoints
          \/ /\ Switchover(x)
             /\ endpoints' = RemoveGone(x, View(x)).endpoints
      BY <1>1 DEF RemoveUnit
    <3> QED BY <2>1, <3>1, <3>2 DEF Switchover, Typed, Single
  <2>4. departed' \in [Units -> SUBSET Units]
    BY <1>1, <2>2 DEF RemoveUnit, Typed
  <2>5. scale' \in 1 .. N /\ leader' \in Present' \cup {NoUnit}
    BY <2>1, PresentFacts, UnitFacts DEF Typed, Present
  <2> HIDE DEF x
  <2>6. Typed'
    BY <2>1, <2>2, <2>3, <2>4, <2>5 DEF Typed
  <2> QED BY <2>1, <2>2, <2>3, <2>6 DEF Typed, Single
<1>2. CASE AddUnit
  <2>1. scale' \in 1 .. N /\ leader' \in Present' \cup {NoUnit}
    BY <1>2, PresentFacts, UnitFacts DEF AddUnit, Typed, Present
  <2>2. Typed'
    BY <1>2, <2>1 DEF AddUnit, Typed
  <2> QED BY <1>2, <2>2 DEF AddUnit, Single
<1> QED BY <1>1, <1>2

LEMMA InitSingle ==
    ASSUME MembershipAssumption, Init
    PROVE  Typed /\ Single
<1>1. Present \subseteq Units /\ leader \in Present
  BY UnitFacts DEF Init, Present
<1> QED BY <1>1, UnitFacts DEF Init, Typed, Single

LEMMA StepSingle ==
    ASSUME MembershipAssumption, ~MayElectEarly, ~MayRelease, Typed, Single, [Next]_vars
    PROVE  Typed' /\ Single'
<1>1. ASSUME NEW u \in Units, Unit(u) \/ Begin(u, "other") \/ Elect(u) \/ PodDies(u)
      PROVE  Typed' /\ Single'
  <2>1. CASE Handlers(u)
    BY <2>1, HandlersTyped, HandlersSingle
  <2>2. CASE PostgresUp(u) \/ TakeLock(u)
    BY <2>2, PatroniSteps
  <2>3. CASE Elect(u) \/ PodDies(u) \/ (\E e \in Events \cup {"other"} : Begin(u, e))
    BY <2>3, JujuSteps
  <2> QED BY <1>1, <2>1, <2>2, <2>3 DEF Unit
<1>2. CASE RemoveUnit \/ AddUnit
  BY <1>2, ScalingSteps
<1>3. CASE UNCHANGED vars
  BY <1>3 DEF vars, Typed, Single, Present
<1> QED BY <1>1, <1>2, <1>3 DEF Next

\* The volumes of no two units ever hold different database systems, for any number of
\* units, scalings, elections, lost pods, failures and hooks that die, if the leader does not
\* change before the cluster is initialised and no primary gives its lock back
\* (_on_postgresql_pebble_ready, _cleanup_old_cluster_resources, fix_leader_annotation).
THEOREM NeverTwoDatabases ==
    ASSUME ~MayElectEarly, ~MayRelease
    PROVE  Spec => []OneSystem
<1>1. Init => Typed /\ Single
  BY MembershipAssumption, InitSingle
<1>2. Typed /\ Single /\ [Next]_vars => Typed' /\ Single'
  BY MembershipAssumption, StepSingle
<1>3. Typed /\ Single => OneSystem
  <2> SUFFICES ASSUME Typed, Single, NEW u \in Present, NEW v \in Present,
                      system[u] # 0, system[v] # 0
               PROVE  system[u] = system[v]
    BY DEF OneSystem
  <2>1. u \in Units /\ v \in Units
    BY MembershipAssumption, PresentFacts
  <2>2. CASE key # 0
    BY <2>1, <2>2 DEF Single
  <2>3. CASE key = 0
    BY <2>1, <2>3 DEF Single
  <2> QED BY <2>2, <2>3
<1> QED BY <1>1, <1>2, <1>3, PTL DEF Spec

-----------------------------------------------------------------------------
(* Every unit becomes a member. *)

\* The types of the hooks and counters, and that only units that are there have hooks, labels
\* and processes.
HooksTyped ==
    /\ due \in [Units -> SUBSET Events]
    /\ deferred \in [Units -> Seq(Events)] /\ todo \in [Units -> Seq(Events)]
    /\ \A u \in Units : todo[u] # <<>> => u \in Present
    /\ configured \subseteq Present /\ labelled \subseteq Present /\ started \subseteq Present
    /\ failures \in Nat /\ crashes \in Nat /\ elections \in Nat

Syncs == [count : Nat, strict : BOOLEAN]

\* An event that u has still to handle.
Pending(u, e) == e \in due[u] \cup Range(deferred[u]) \cup Range(todo[u])

Member(x) == x \in labelled /\ endpoints[x] > 0
\* The leader has still to look for units that are not members.
Retries == Pending(leader, "changed") \/ Pending(leader, "elected")
\* x has still to start, and labels itself or tells the leader when it has.
Waits(x) == Pending(x, "ready") /\ (endpoints[x] > 0 \/ x = leader \/ x \notin configured)

LabelsListed == \A x \in labelled : endpoints[x] > 0 \/ x = leader
LeaderListed == leader # NoUnit => endpoints[leader] > 0 \/ Pending(leader, "elected")
NobodyForgotten ==
    initialised /\ leader # NoUnit => \A x \in Present : Member(x) \/ Retries \/ Waits(x)
OthersWait ==
    ~initialised => \A x \in Present \ {leader} : Pending(x, "ready") /\ x \notin configured
JoinInv == LabelsListed /\ LeaderListed /\ NobodyForgotten /\ OthersWait

LEMMA RangeOfTail ==
    ASSUME NEW S, NEW s \in Seq(S), s # <<>>
    PROVE  /\ Head(s) \in Range(s) /\ Range(s) \subseteq {Head(s)} \cup Range(Tail(s))
           /\ Tail(s) \in Seq(S) /\ Head(s) \in S
<1>1. /\ Len(s) \in Nat /\ Len(s) > 0 /\ DOMAIN s = 1 .. Len(s) /\ Head(s) = s[1]
      /\ Tail(s) \in Seq(S) /\ Len(Tail(s)) = Len(s) - 1
      /\ DOMAIN Tail(s) = 1 .. Len(Tail(s))
      /\ \A i \in 1 .. Len(s) - 1 : Tail(s)[i] = s[i + 1]
  OBVIOUS
<1>2. ASSUME NEW i \in 1 .. Len(s), i # 1
      PROVE  s[i] \in Range(Tail(s))
  <2>1. i - 1 \in DOMAIN Tail(s) /\ s[i] = Tail(s)[i - 1]
    BY <1>1, <1>2
  <2> QED BY <2>1 DEF Range
<1>3. Range(s) \subseteq {Head(s)} \cup Range(Tail(s))
  BY <1>1, <1>2 DEF Range
<1>4. Head(s) \in Range(s) /\ Head(s) \in S
  BY <1>1 DEF Range
<1> QED BY <1>1, <1>3, <1>4

LEMMA RangeOfAppend ==
    ASSUME NEW S, NEW s \in Seq(S), NEW e \in S
    PROVE  Append(s, e) \in Seq(S) /\ Range(Append(s, e)) = Range(s) \cup {e}
<1>1. /\ Append(s, e) \in Seq(S) /\ Len(s) \in Nat /\ DOMAIN s = 1 .. Len(s)
      /\ DOMAIN Append(s, e) = 1 .. Len(s) + 1
      /\ \A i \in 1 .. Len(s) : Append(s, e)[i] = s[i]
      /\ Append(s, e)[Len(s) + 1] = e
  OBVIOUS
<1>2. \A i \in DOMAIN Append(s, e) : i \in DOMAIN s \/ i = Len(s) + 1
  BY <1>1
<1>3. \A i \in DOMAIN s : i \in DOMAIN Append(s, e) /\ Append(s, e)[i] = s[i]
  BY <1>1
<1>4. Len(s) + 1 \in DOMAIN Append(s, e)
  BY <1>1
<1> QED BY <1>1, <1>2, <1>3, <1>4 DEF Range

LEMMA Started ==
    ASSUME NEW S, NEW s \in Seq(S), NEW e \in S
    PROVE  s \o <<e>> = Append(s, e) /\ s \o <<>> = s
  OBVIOUS

\* The hooks owed to the units, and the events they deferred and have to handle.
QueuesTyped ==
    /\ due \in [Units -> SUBSET Events]
    /\ deferred \in [Units -> Seq(Events)] /\ todo \in [Units -> Seq(Events)]

\* A handler takes no event off, but its own when it does not defer it.
LEMMA EventsKept ==
    ASSUME QueuesTyped, NEW u \in Units, NEW c, todo[u] # <<>>, HandlerEnds(u, c)
    PROVE  /\ QueuesTyped' /\ Head(todo[u]) \in Events
           /\ \A y \in Units, f \in Events :
                 Pending(y, f) => Pending(y, f)' \/ (y = u /\ f = Head(todo[u]) /\ ~c.again)
<1> DEFINE e == Head(todo[u])
<1>1. todo[u] \in Seq(Events) /\ deferred[u] \in Seq(Events)
  BY DEF QueuesTyped
<1>2. /\ deferred' = IF c.again THEN Again(u, e) ELSE deferred
      /\ todo' = [todo EXCEPT ![u] = Tail(@)]
      /\ due' = [x \in Units |-> IF x \in Present \ {u} /\ databags' # databags
                                 THEN due[x] \cup {"changed"} ELSE due[x]]
  BY DEF HandlerEnds
<1>3. /\ Range(todo[u]) \subseteq {e} \cup Range(Tail(todo[u]))
      /\ Tail(todo[u]) \in Seq(Events) /\ e \in Events
  BY <1>1, RangeOfTail
<1> HIDE DEF e
<1>4. /\ deferred' \in [Units -> Seq(Events)]
      /\ \A y \in Units : Range(deferred[y]) \subseteq Range(deferred'[y])
      /\ c.again => e \in Range(deferred'[u])
  <2>1. CASE c.again
    <3>1. deferred' = [deferred EXCEPT ![u] = IF e \in Range(@) THEN @ ELSE Append(@, e)]
      BY <1>2, <2>1 DEF Again
    <3>2. /\ Append(deferred[u], e) \in Seq(Events)
          /\ Range(Append(deferred[u], e)) = Range(deferred[u]) \cup {e}
      BY <1>1, <1>3, RangeOfAppend
    <3> QED BY <3>1, <3>2 DEF QueuesTyped
  <2>2. CASE ~c.again
    BY <1>2, <2>2 DEF QueuesTyped
  <2> QED BY <2>1, <2>2
<1>5. /\ todo' \in [Units -> Seq(Events)]
      /\ \A y \in Units : y # u => todo'[y] = todo[y]
      /\ todo'[u] = Tail(todo[u])
  BY <1>2, <1>3 DEF QueuesTyped
<1>6. due' \in [Units -> SUBSET Events] /\ \A y \in Units : due[y] \subseteq due'[y]
  BY <1>2 DEF QueuesTyped, Events
<1>7. \A y \in Units, f \in Events :
         Pending(y, f) => Pending(y, f)' \/ (y = u /\ f = e /\ ~c.again)
  BY <1>3, <1>4, <1>5, <1>6 DEF Pending
<1> QED BY <1>3, <1>4, <1>5, <1>6, <1>7 DEF QueuesTyped, e

\* What a handler does to events, when no call fails and no hook dies.
Follows(u, e, r) ==
    /\ u \in Present /\ e \in Events /\ r.fails = 0
    /\ labelled' = r.labelled
    /\ endpoints' = r.ctx.endpoints /\ initialised' = r.ctx.init
    /\ configured' = IF r.ctx.configured THEN configured \cup {u} ELSE configured
    /\ \A y \in Units, f \in Events :
          Pending(y, f) => Pending(y, f)' \/ (y = u /\ f = e /\ ~r.ctx.again)
    /\ databags' # databags => \A y \in Present \ {u} : Pending(y, "changed")'

LEMMA HandlerFollows ==
    ASSUME MembershipAssumption, Typed, HooksTyped, MaxCrashes = 0, MaxFailures = 0,
           NEW u \in Units, NEW e, NEW r, Handles(u, e, r)
    PROVE  Follows(u, e, r) /\ HooksTyped'
<1>1. /\ todo[u] # <<>> /\ Head(todo[u]) = e /\ Commits(u, r)
      /\ labelled' = r.labelled /\ failures + r.fails <= MaxFailures
      /\ UNCHANGED <<scale, leader, departed, elections, scalings, deaths>>
  BY TakesFacts DEF Handles
<1>2. /\ r.fails \in Nat /\ r.labelled \subseteq labelled \cup Present \cup {u}
      /\ r.ctx \in Contexts
  BY DEF Handles, Handled
<1>3. r.fails = 0 /\ failures \in Nat /\ failures' = failures + r.fails
  <2>1. failures' = failures + r.fails
    BY DEF Handles, Takes
  <2> QED BY <1>1, <1>2, <2>1 DEF HooksTyped
<1>4. u \in Present /\ todo[u] \in Seq(Events) /\ deferred[u] \in Seq(Events)
  BY <1>1 DEF HooksTyped
<1>5. /\ endpoints' = r.ctx.endpoints /\ initialised' = r.ctx.init
      /\ configured' = IF r.ctx.configured THEN configured \cup {u} ELSE configured
      /\ deferred' = IF r.ctx.again THEN Again(u, Head(todo[u])) ELSE deferred
      /\ todo' = [todo EXCEPT ![u] = Tail(@)]
      /\ due' = [x \in Units |-> IF x \in Present \ {u} /\ databags' # databags
                                 THEN due[x] \cup {"changed"} ELSE due[x]]
  BY <1>1 DEF Commits, HooksTyped
<1>6. crashes' = crashes
  BY DEF Handles, Takes, HandlerEnds, HandlerDies, HooksTyped
<1>7. /\ e \in Events /\ QueuesTyped'
      /\ \A y \in Units, f \in Events :
            Pending(y, f) => Pending(y, f)' \/ (y = u /\ f = e /\ ~r.ctx.again)
  <2>1. QueuesTyped
    BY DEF QueuesTyped, HooksTyped
  <2>2. HandlerEnds(u, r.ctx)
    BY DEF Handles, Takes, HandlerDies, HooksTyped
  <2> QED BY <1>1, <2>1, <2>2, EventsKept
<1>8. databags' # databags => \A y \in Present \ {u} : "changed" \in due'[y]
  BY <1>5, PresentFacts
<1>9. databags' # databags => \A y \in Present \ {u} : Pending(y, "changed")'
  BY <1>8, PresentFacts DEF Pending
<1>10. Follows(u, e, r)
  BY <1>1, <1>3, <1>4, <1>5, <1>7, <1>9 DEF Follows
<1>11. HooksTyped'
  <2>1. Present' = Present
    BY <1>1 DEF Present
  <2>2. started' \subseteq Present
    BY <1>4 DEF Handles, HooksTyped
  <2>3. configured' \subseteq Present /\ labelled' \subseteq Present
    BY <1>1, <1>2, <1>4, <1>5 DEF HooksTyped
  <2>4. \A y \in Units : todo'[y] # <<>> => y \in Present
    BY <1>4, <1>5 DEF HooksTyped
  <2>5. failures' \in Nat /\ crashes' \in Nat /\ elections' \in Nat
    BY <1>1, <1>3, <1>6 DEF HooksTyped
  <2> QED BY <1>7, <2>1, <2>2, <2>3, <2>4, <2>5 DEF HooksTyped, QueuesTyped
<1> QED BY <1>10, <1>11

LEMMA HandlersJoin ==
    ASSUME MembershipAssumption, Typed, HooksTyped, JoinInv, NEW u \in Units, NEW e, NEW r,
           Handles(u, e, r), Follows(u, e, r)
    PROVE  JoinInv'
<1>0. /\ leader' = leader /\ scale' = scale /\ Present' = Present /\ Present \subseteq Units
      /\ leader \in Present \cup {NoUnit} /\ NoUnit \notin Present
      /\ {"changed", "elected", "ready"} \subseteq Events
  BY HandlesFacts, PresentFacts, UnitFacts DEF Present, Typed, Events
<1>1. /\ labelled \subseteq labelled' /\ endpoints' \in [Units -> Nat]
      /\ \A x \in Present : endpoints'[x] >= endpoints[x] /\ endpoints[x] \in Nat
      /\ \A x \in labelled' \ labelled : endpoints'[x] > 0 \/ (x = u /\ leader = u)
      /\ r.ctx.configured => initialised' /\ (e = "ready" \/ endpoints'[u] > 0)
      /\ initialised' # initialised =>
            /\ initialised' = TRUE
            /\ leader = u /\ u \in labelled' /\ e # "elected"
            /\ e = "changed" => r.ctx.again
      /\ e = "elected" /\ leader = u => endpoints'[u] > 0
      /\ ~r.ctx.again => HasDone(u, e, r)
  BY <1>0 DEF Handles, Handled, Follows, Typed, Contexts
<1>2. \A x \in Present : endpoints[x] > 0 => endpoints'[x] > 0
  BY <1>0, <1>1
<1>3. \A y \in Units, f \in Events :
         Pending(y, f) => Pending(y, f)' \/ (y = u /\ f = e /\ ~r.ctx.again)
  BY DEF Follows
<1>4. /\ labelled' = r.labelled /\ endpoints' = r.ctx.endpoints /\ initialised' = r.ctx.init
      /\ configured' = IF r.ctx.configured THEN configured \cup {u} ELSE configured
      /\ u \in Present
  BY DEF Follows
<1>5. LabelsListed'
  BY <1>0, <1>1, <1>2 DEF LabelsListed, JoinInv, HooksTyped
<1>6. LeaderListed'
  <2> SUFFICES ASSUME leader # NoUnit
               PROVE  endpoints'[leader] > 0 \/ Pending(leader, "elected")'
    BY <1>0 DEF LeaderListed
  <2>1. leader \in Present
    BY <1>0
  <2>2. endpoints[leader] > 0 \/ Pending(leader, "elected")
    BY DEF LeaderListed, JoinInv
  <2> QED BY <1>0, <1>1, <1>2, <1>3, <2>1, <2>2
<1>7. OthersWait'
  <2> SUFFICES ASSUME ~initialised', NEW x \in Present \ {leader}
               PROVE  Pending(x, "ready")' /\ x \notin configured'
    BY <1>0 DEF OthersWait
  <2>1. ~initialised
    BY <1>1 DEF Typed
  <2>2. Pending(x, "ready") /\ x \notin configured
    BY <2>1 DEF OthersWait, JoinInv
  <2>3. ~r.ctx.configured
    BY <1>1
  <2>4. ~(e = "ready" /\ x = u /\ ~r.ctx.again)
    BY <1>1, <2>1 DEF HasDone
  <2> QED BY <1>0, <1>3, <1>4, <2>2, <2>3, <2>4
<1>8. NobodyForgotten'
  <2> SUFFICES ASSUME initialised', leader # NoUnit, NEW x \in Present
               PROVE  Member(x)' \/ Retries' \/ Waits(x)'
    BY <1>0 DEF NobodyForgotten
  <2>1. leader \in Present /\ leader \in Units /\ x \in Units
    BY <1>0
  <2>2. Pending(leader, "elected")' \/ Pending(leader, "changed")' => Retries'
    BY <1>0 DEF Retries
  <2>3. x = leader /\ x \in labelled' => Member(x)' \/ Retries'
    BY <1>0, <1>6, <2>2 DEF LeaderListed, Member
  <2>4. CASE leader # u /\ databags' # databags
    <3>1. leader \in Present \ {u}
      BY <2>1, <2>4
    <3>2. Pending(leader, "changed")'
      BY <1>0, <2>4, <3>1 DEF Follows, Pending
    <3> QED BY <2>2, <3>2
  <2>5. CASE initialised' # initialised
    <3>1. leader = u /\ u \in labelled' /\ e # "elected" /\ (e = "changed" => r.ctx.again)
      BY <1>1, <2>5
    <3>2. CASE x = u
      BY <2>3, <3>1, <3>2
    <3>3. CASE x # u
      <4>1. Pending(x, "ready") /\ x \notin configured
        BY <2>5, <3>1, <3>3 DEF OthersWait, JoinInv, Typed
      <4>2. Pending(x, "ready")' /\ x \notin configured'
        BY <1>0, <1>3, <1>4, <2>1, <3>3, <4>1
      <4> QED BY <4>2 DEF Waits
    <3> QED BY <3>2, <3>3
  <2>6. CASE initialised' = initialised /\ (leader = u \/ databags' = databags)
    <3>1. Member(x) \/ Retries \/ Waits(x)
      BY <2>6 DEF NobodyForgotten, JoinInv
    <3>2. CASE Member(x)
      BY <1>1, <1>2, <3>2 DEF Member
    <3>3. CASE Retries
      <4>1. PICK f \in {"changed", "elected"} : Pending(leader, f)
        BY <3>3 DEF Retries
      <4>2. CASE Pending(leader, f)'
        BY <2>2, <4>1, <4>2
      <4>3. CASE ~Pending(leader, f)'
        <5>1. leader = u /\ f = e /\ ~r.ctx.again
          BY <1>0, <1>3, <2>1, <4>1, <4>3
        <5>2. x \in labelled' /\ (x \in labelled \/ endpoints'[x] > 0)
          BY <1>1, <1>4, <4>1, <5>1 DEF HasDone
        <5>3. x \in labelled => endpoints[x] > 0 \/ x = leader
          BY DEF LabelsListed, JoinInv
        <5> QED BY <1>2, <2>3, <5>2, <5>3 DEF Member
      <4> QED BY <4>2, <4>3
    <3>4. CASE Waits(x)
      <4>1. CASE Pending(x, "ready")'
        <5>1. CASE endpoints[x] > 0 \/ x = leader
          BY <1>0, <1>2, <4>1, <5>1 DEF Waits
        <5>2. CASE x \notin configured /\ x # leader
          <6>1. CASE x \notin configured'
            BY <4>1, <6>1 DEF Waits
          <6>2. CASE x \in configured'
            BY <2>6, <5>2, <6>2, <1>4
          <6> QED BY <6>1, <6>2
        <5> QED BY <3>4, <5>1, <5>2 DEF Waits
      <4>2. CASE ~Pending(x, "ready")'
        <5>1. x = u /\ e = "ready" /\ ~r.ctx.again
          BY <1>0, <1>3, <2>1, <3>4, <4>2 DEF Waits
        <5>2. CASE leader = u
          BY <1>1, <1>4, <2>3, <5>1, <5>2 DEF HasDone
        <5>3. CASE leader # u
          <6>1. r.ctx.configured /\ (endpoints[u] > 0 => u \in labelled')
            BY <1>1, <1>4, <5>1, <5>3 DEF HasDone
          <6>2. u \in configured
            BY <1>4, <2>6, <5>3, <6>1
          <6> QED BY <1>2, <3>4, <5>1, <5>3, <6>1, <6>2 DEF Waits, Member
        <5> QED BY <5>2, <5>3
      <4> QED BY <4>1, <4>2
    <3> QED BY <3>1, <3>2, <3>3, <3>4
  <2> QED BY <2>4, <2>5, <2>6
<1> QED BY <1>5, <1>6, <1>7, <1>8 DEF JoinInv

\* What takes no unit off, and no event, leaves nobody forgotten.
LEMMA NothingLost ==
    ASSUME MembershipAssumption, Typed, HooksTyped, JoinInv,
           UNCHANGED <<leader, databags>>,
           labelled' = labelled, Present' = Present,
           \A y \in Units, f \in Events : f # "departed" /\ Pending(y, f) => Pending(y, f)'
    PROVE  JoinInv'
<1>0. /\ Present \subseteq Units /\ leader \in Present \cup {NoUnit}
      /\ {"changed", "elected", "ready"} \subseteq Events
  BY PresentFacts DEF Events, Typed
<1>1. \A y \in Present : /\ Pending(y, "changed") => Pending(y, "changed")'
                         /\ Pending(y, "elected") => Pending(y, "elected")'
                         /\ Pending(y, "ready") => Pending(y, "ready")'
  BY <1>0
<1>2. leader # NoUnit => /\ Pending(leader, "changed") => Pending(leader, "changed")'
                         /\ Pending(leader, "elected") => Pending(leader, "elected")'
  BY <1>0 DEF Pending
<1>3. LabelsListed' /\ OthersWait'
  BY <1>1 DEF JoinInv, LabelsListed, OthersWait
<1>4. LeaderListed'
  BY <1>2 DEF JoinInv, LeaderListed
<1>5. NobodyForgotten'
  BY <1>1, <1>2 DEF JoinInv, NobodyForgotten, Member, Retries, Waits
<1> QED BY <1>3, <1>4, <1>5 DEF JoinInv

LEMMA BeginKeeps ==
    ASSUME QueuesTyped, NEW u \in Units, NEW e \in Events \cup {"other"}, Begin(u, e)
    PROVE  /\ QueuesTyped'
           /\ \A y \in Units : y # u => todo'[y] = todo[y]
           /\ \A y \in Units, f \in Events : Pending(y, f) => Pending(y, f)'
<1> DEFINE tail == IF e = "other" THEN <<>> ELSE <<e>>
<1>1. /\ u \in Present /\ todo[u] = <<>> /\ deferred[u] \in Seq(Events)
      /\ todo' = [todo EXCEPT ![u] = deferred[u] \o tail]
      /\ deferred' = [deferred EXCEPT ![u] = <<>>]
      /\ e # "other" => e \in due[u]
  BY DEF Begin, QueuesTyped
<1>2. "other" \notin Events
  BY DEF Events
<1>3. /\ due' \in [Units -> SUBSET Events]
      /\ \A y \in Units : y # u => due'[y] = due[y]
      /\ \A f \in due[u] : f \in due'[u] \/ f = e
  <2>1. PICK x \in IF e = "departed" THEN departed[u] ELSE {NoUnit} :
           /\ departed' = [departed EXCEPT ![u] = @ \ {x}]
           /\ due' = [due EXCEPT ![u] =
                         (@ \ {e}) \cup IF departed'[u] = {} THEN {} ELSE {"departed"}]
    BY DEF Begin
  <2>2. "departed" \in Events
    BY DEF Events
  <2> QED BY <2>1, <2>2 DEF QueuesTyped
<1>4. /\ deferred[u] \o tail \in Seq(Events) /\ Range(deferred[u]) \subseteq Range(deferred[u] \o tail)
      /\ e # "other" => e \in Range(deferred[u] \o tail)
  <2>1. CASE e = "other"
    BY <1>1, <2>1, Started
  <2>2. CASE e # "other"
    <3>1. e \in Events
      BY <2>2
    <3>2. deferred[u] \o tail = Append(deferred[u], e)
      BY <1>1, <2>2, <3>1, Started
    <3> HIDE DEF tail
    <3> QED BY <1>1, <3>1, <3>2, RangeOfAppend
  <2> QED BY <2>1, <2>2
<1> HIDE DEF tail
<1>5. <<>> \in Seq(Events) /\ Range(<<>>) = {}
  BY DEF Range
<1>6. /\ deferred' \in [Units -> Seq(Events)] /\ todo' \in [Units -> Seq(Events)]
      /\ \A y \in Units : y # u => deferred'[y] = deferred[y] /\ todo'[y] = todo[y]
      /\ todo'[u] = deferred[u] \o tail
  BY <1>1, <1>4, <1>5 DEF QueuesTyped
<1>7. \A y \in Units, f \in Events : Pending(y, f) => Pending(y, f)'
  <2> SUFFICES ASSUME NEW y \in Units, NEW f \in Events, Pending(y, f)
               PROVE  Pending(y, f)'
    OBVIOUS
  <2>1. CASE y # u
    BY <1>3, <1>6, <2>1 DEF Pending
  <2>2. CASE y = u
    <3>1. f \in due[u] \/ f \in Range(deferred[u])
      BY <1>1, <1>5, <2>2 DEF Pending
    <3>2. f \in due'[u] \/ f \in Range(todo'[u])
      BY <1>2, <1>3, <1>4, <1>6, <3>1
    <3> QED BY <2>2, <3>2 DEF Pending
  <2> QED BY <2>1, <2>2
<1> QED BY <1>3, <1>6, <1>7 DEF QueuesTyped

LEMMA BeginJoins ==
    ASSUME MembershipAssumption, Typed, HooksTyped, JoinInv, NEW u \in Units,
           NEW e \in Events \cup {"other"}, Begin(u, e)
    PROVE  HooksTyped' /\ JoinInv'
<1>1. u \in Present /\ UNCHANGED <<juju, databags, labelled, patroni, sync, counters>>
  BY DEF Begin
<1>2. Present' = Present
  BY <1>1 DEF Present
<1>3. /\ QueuesTyped' /\ \A y \in Units : y # u => todo'[y] = todo[y]
      /\ \A y \in Units, f \in Events : Pending(y, f) => Pending(y, f)'
  BY BeginKeeps DEF QueuesTyped, HooksTyped
<1>4. \A y \in Units : todo'[y] # <<>> => y \in Present
  BY <1>1, <1>3 DEF HooksTyped
<1>5. HooksTyped'
  BY <1>1, <1>2, <1>3, <1>4 DEF HooksTyped, QueuesTyped
<1>6. UNCHANGED <<leader, databags>> /\ labelled' = labelled
  BY <1>1
<1> QED BY <1>2, <1>3, <1>5, <1>6, NothingLost

LEMMA PatroniJoins ==
    ASSUME MembershipAssumption, Typed, HooksTyped, JoinInv, NEW u \in Units,
           PostgresUp(u) \/ TakeLock(u)
    PROVE  HooksTyped' /\ JoinInv'
<1>1. UNCHANGED <<scale, leader, databags, labelled, started, events, counters>>
  BY DEF PostgresUp, TakeLock
<1>2. Present' = Present
  BY <1>1 DEF Present
<1>3. HooksTyped'
  BY <1>1, <1>2 DEF HooksTyped
<1>4. \A y \in Units, f \in Events : Pending(y, f) => Pending(y, f)'
  BY <1>1 DEF Pending
<1>5. UNCHANGED <<leader, databags>> /\ labelled' = labelled
  BY <1>1
<1> QED BY <1>2, <1>3, <1>4, <1>5, NothingLost

LEMMA ElectJoins ==
    ASSUME MembershipAssumption, ~MayElectEarly, MaxElections = 0, Typed, HooksTyped, JoinInv,
           NEW u \in Units, Elect(u)
    PROVE  HooksTyped' /\ JoinInv'
<1>1. /\ initialised /\ leader = NoUnit /\ elections' = elections /\ leader' = u /\ u \in Present
      /\ due' = [due EXCEPT ![u] = @ \cup {"elected"}]
      /\ UNCHANGED <<scale, databags, labelled, patroni, departed, deferred, todo, failures, crashes>>
  BY DEF Elect, HooksTyped
<1>2. Present' = Present /\ "elected" \in Events
  BY <1>1 DEF Present, Events
<1>3. HooksTyped'
  BY <1>1, <1>2 DEF HooksTyped
<1>4. Pending(leader, "elected")'
  BY <1>1 DEF Pending, HooksTyped
<1>5. LabelsListed'
  BY <1>1, PresentFacts, UnitFacts DEF LabelsListed, JoinInv, HooksTyped
<1>6. LeaderListed' /\ NobodyForgotten' /\ OthersWait'
  BY <1>1, <1>4 DEF LeaderListed, NobodyForgotten, OthersWait, Retries
<1> QED BY <1>3, <1>5, <1>6 DEF JoinInv

LEMMA PodDiesJoins ==
    ASSUME MembershipAssumption, Typed, HooksTyped, JoinInv, NEW u \in Units, PodDies(u)
    PROVE  HooksTyped' /\ JoinInv'
<1>0. Present \subseteq Units /\ leader \in Present \cup {NoUnit} /\ NoUnit \notin Present
  BY PresentFacts, UnitFacts DEF Typed
<1>1. /\ u \in Present /\ labelled' = labelled \ {u} /\ started' = started \ {u}
      /\ due' = [x \in Units |-> IF x = u THEN due[x] \cup {"ready"}
                                 ELSE IF x \in Present THEN due[x] \cup {"changed"} ELSE due[x]]
      /\ UNCHANGED <<scale, leader, databags, departed, deferred, todo, failures, crashes, elections>>
  BY DEF PodDies
<1>2. Present' = Present /\ "ready" \in Events /\ "changed" \in Events
  BY <1>1 DEF Present, Events
<1>3. HooksTyped'
  BY <1>1, <1>2 DEF HooksTyped
<1>4. \A y \in Units, f \in Events : Pending(y, f) => Pending(y, f)'
  BY <1>1 DEF Pending
<1>5. Pending(u, "ready")' /\ \A y \in Present \ {u} : Pending(y, "changed")'
  BY <1>0, <1>1 DEF Pending
<1>6. LabelsListed'
  BY <1>1 DEF LabelsListed, JoinInv
<1>7. leader # NoUnit => /\ Pending(leader, "changed") => Pending(leader, "changed")'
                         /\ Pending(leader, "elected") => Pending(leader, "elected")'
                         /\ leader # u => Pending(leader, "changed")'
  <2>1. SUFFICES ASSUME leader # NoUnit
                 PROVE  /\ Pending(leader, "changed") => Pending(leader, "changed")'
                        /\ Pending(leader, "elected") => Pending(leader, "elected")'
                        /\ leader # u => Pending(leader, "changed")'
    OBVIOUS
  <2>2. leader \in Present /\ leader' = leader
    BY <1>0, <1>1, <2>1
  <2> QED BY <1>0, <1>1, <2>2 DEF Pending
<1>8. LeaderListed'
  BY <1>1, <1>7 DEF LeaderListed, JoinInv
<1>9. \A y \in Present : Pending(y, "ready") => Pending(y, "ready")'
  BY <1>0, <1>2, <1>4
<1>10. OthersWait'
  BY <1>1, <1>2, <1>9 DEF OthersWait, JoinInv
<1>11. NobodyForgotten'
  <2> SUFFICES ASSUME initialised, leader # NoUnit, NEW x \in Present
               PROVE  Member(x)' \/ Retries' \/ Waits(x)'
    BY <1>1, <1>2 DEF NobodyForgotten
  <2>1. CASE leader # u
    BY <1>7, <2>1 DEF Retries
  <2>2. CASE leader = u /\ x = u
    BY <1>1, <1>5, <2>2 DEF Waits
  <2>3. CASE leader = u /\ x # u
    <3>1. Member(x) \/ Retries \/ Waits(x)
      BY DEF NobodyForgotten, JoinInv
    <3>2. Member(x) => Member(x)'
      BY <1>1, <2>3 DEF Member
    <3>3. Retries => Retries'
      BY <1>7 DEF Retries
    <3>4. Waits(x) => Waits(x)'
      BY <1>1, <1>9 DEF Waits
    <3> QED BY <3>1, <3>2, <3>3, <3>4
  <2> QED BY <2>1, <2>2, <2>3
<1> QED BY <1>3, <1>6, <1>8, <1>10, <1>11 DEF JoinInv

LEMMA RemoveUnitJoins ==
    ASSUME MembershipAssumption, Typed, HooksTyped, JoinInv, RemoveUnit
    PROVE  HooksTyped' /\ JoinInv'
<1> DEFINE x == scale - 1
<1>1. /\ initialised /\ initialised' = initialised /\ todo[x] = <<>>
      /\ scale' = x /\ leader' = IF leader = x THEN NoUnit ELSE leader
      /\ labelled' = labelled \ {x} /\ started' = started \ {x} /\ configured' = configured \ {x}
      /\ due' = [u \in Units |-> IF u = x THEN {}
                                 ELSE IF u > x THEN due[u]
                                 ELSE due[u] \cup {"departed"} \cup
                                      IF endpoints' # endpoints THEN {"changed"} ELSE {}]
      /\ deferred' = [deferred EXCEPT ![x] = <<>>]
      /\ UNCHANGED <<todo, failures, elections, crashes>>
  BY DEF RemoveUnit
<1>2. /\ x \in Units /\ x \in Present /\ Present' = Present \ {x} /\ Present \subseteq Units
      /\ NoUnit \notin Present /\ leader \in Present \cup {NoUnit}
  BY <1>1, PresentFacts, UnitFacts DEF Present, Typed
<1>3. \A y \in Present : endpoints'[y] = endpoints[y]
  <2>1. \A y \in Present : RemoveGone(x, View(x)).endpoints[y] = endpoints[y]
    <3>1. View(x) \in Contexts /\ Present \subseteq View(x).hosts /\ View(x).endpoints = endpoints
      BY <1>2, ViewFacts
    <3>2. \A y \in View(x).hosts : RemoveGone(x, View(x)).endpoints[y] = View(x).endpoints[y]
      BY <3>1, RemoveGoneFacts
    <3> QED BY <3>1, <3>2
  <2>2. endpoints' = endpoints \/ endpoints' = RemoveGone(x, View(x)).endpoints
    BY DEF RemoveUnit
  <2> QED BY <2>1, <2>2
<1> HIDE DEF x
<1>4. HooksTyped'
  <2>1. due' \in [Units -> SUBSET Events]
    <3>1. "departed" \in Events /\ "changed" \in Events
      BY DEF Events
    <3> QED BY <1>1, <3>1 DEF HooksTyped
  <2>2. deferred' \in [Units -> Seq(Events)]
    BY <1>1 DEF HooksTyped
  <2>3. \A u \in Units : todo'[u] # <<>> => u \in Present'
    BY <1>1, <1>2 DEF HooksTyped
  <2> QED BY <1>1, <1>2, <2>1, <2>2, <2>3 DEF HooksTyped
<1>5. \A y \in Present', f \in Events : Pending(y, f) => Pending(y, f)'
  <2> SUFFICES ASSUME NEW y \in Present', NEW f \in Events, Pending(y, f)
               PROVE  Pending(y, f)'
    OBVIOUS
  <2>1. y # x /\ y \in Units /\ due[y] \subseteq due'[y]
    BY <1>1, <1>2
  <2>2. deferred'[y] = deferred[y] /\ todo' = todo
    BY <1>1, <2>1 DEF HooksTyped
  <2> QED BY <2>1, <2>2 DEF Pending
<1>6. LabelsListed'
  BY <1>1, <1>2, <1>3 DEF LabelsListed, JoinInv, HooksTyped
<1>7. leader' # NoUnit => leader' = leader /\ leader \in Present' /\ leader \in Present
  BY <1>1, <1>2
<1>8. {"changed", "elected", "ready"} \subseteq Events
  BY DEF Events
<1>9. leader' # NoUnit => /\ Pending(leader, "changed") => Pending(leader, "changed")'
                          /\ Pending(leader, "elected") => Pending(leader, "elected")'
  BY <1>5, <1>7, <1>8 DEF Pending
<1>10. LeaderListed'
  BY <1>3, <1>7, <1>9 DEF LeaderListed, JoinInv
<1>11. NobodyForgotten'
  <2> SUFFICES ASSUME leader' # NoUnit, NEW y \in Present'
               PROVE  Member(y)' \/ Retries' \/ Waits(y)'
    BY DEF NobodyForgotten
  <2>1. y \in Present /\ y # x
    BY <1>2
  <2>2. Member(y) \/ Retries \/ Waits(y)
    BY <1>1, <1>7, <2>1 DEF NobodyForgotten, JoinInv
  <2>3. Member(y) => Member(y)'
    BY <1>1, <1>3, <2>1 DEF Member
  <2>4. Retries => Retries'
    BY <1>9 DEF Retries
  <2>5. Waits(y) => Waits(y)'
    BY <1>1, <1>3, <1>5, <1>7, <1>8, <2>1 DEF Waits
  <2> QED BY <2>2, <2>3, <2>4, <2>5
<1>12. OthersWait'
  BY <1>1 DEF OthersWait
<1> QED BY <1>4, <1>6, <1>10, <1>11, <1>12 DEF JoinInv

LEMMA AddUnitJoins ==
    ASSUME MembershipAssumption, Typed, HooksTyped, JoinInv, AddUnit
    PROVE  HooksTyped' /\ JoinInv'
<1>1. /\ scale < N /\ scale' = scale + 1
      /\ due' = [u \in Units |-> IF u = scale THEN {"ready"}
                                 ELSE IF u < scale THEN due[u] \cup {"changed"} ELSE due[u]]
      /\ UNCHANGED <<leader, databags, labelled, patroni, deferred, todo, failures, crashes, elections>>
  BY DEF AddUnit
<1>2. /\ scale \in Units /\ scale \notin Present /\ Present' = Present \cup {scale}
      /\ Present \subseteq Units /\ NoUnit \notin Present /\ leader \in Present \cup {NoUnit}
      /\ \A u \in Present : u < scale /\ u # scale
  <2>1. Present \subseteq Units /\ scale \in Nat /\ scale < N /\ N \in Nat /\ Units = 0 .. N - 1
    BY <1>1, PresentFacts, UnitFacts
  <2>2. leader \in Present \cup {NoUnit} /\ NoUnit \notin Present
    BY <2>1, UnitFacts DEF Typed
  <2>3. \A u \in Present : u \in Nat /\ u < scale
    BY <2>1 DEF Present
  <2>4. scale \in Units /\ scale \notin Present
    BY <2>1, <2>3
  <2>5. Present' = 0 .. scale
    BY <1>1, <2>1 DEF Present
  <2>6. Present' = Present \cup {scale}
    <3>1. 0 .. scale = (0 .. scale - 1) \cup {scale}
      BY <2>1
    <3> QED BY <2>5, <3>1 DEF Present
  <2> QED BY <2>1, <2>2, <2>3, <2>4, <2>6
<1>3. {"changed", "elected", "ready"} \subseteq Events
  BY DEF Events
<1>4. HooksTyped'
  <2>1. due' \in [Units -> SUBSET Events]
    BY <1>1, <1>3 DEF HooksTyped
  <2> QED BY <1>1, <1>2, <2>1 DEF HooksTyped
<1>5. PICK n \in Units : n = scale
  BY <1>2
<1>6. /\ \A y \in Present, f \in Events : Pending(y, f) => Pending(y, f)'
      /\ \A y \in Present : Pending(y, "changed")'
      /\ Pending(n, "ready")'
  <2>1. \A y \in Present : due[y] \cup {"changed"} \subseteq due'[y]
    BY <1>1, <1>2
  <2>2. "ready" \in due'[n]
    BY <1>1, <1>2, <1>5
  <2> QED BY <1>1, <2>1, <2>2 DEF Pending
<1>7. leader # NoUnit => /\ Pending(leader, "elected") => Pending(leader, "elected")'
                         /\ Pending(leader, "changed")'
  <2> SUFFICES ASSUME leader # NoUnit
               PROVE  /\ Pending(leader, "elected") => Pending(leader, "elected")'
                      /\ Pending(leader, "changed")'
    OBVIOUS
  <2>1. leader \in Present /\ leader' = leader
    BY <1>1, <1>2
  <2> QED BY <1>3, <1>6, <2>1 DEF Pending
<1>8. LabelsListed' /\ LeaderListed'
  BY <1>1, <1>7 DEF LabelsListed, LeaderListed, JoinInv
<1>9. NobodyForgotten'
  BY <1>1, <1>7 DEF NobodyForgotten, Retries
<1>10. OthersWait'
  <2> SUFFICES ASSUME ~initialised, NEW y \in Present', y # leader
               PROVE  Pending(y, "ready")' /\ y \notin configured
    BY <1>1 DEF OthersWait
  <2>1. CASE y \in Present
    BY <1>3, <1>6, <2>1 DEF OthersWait, JoinInv
  <2>2. CASE y = n
    BY <1>2, <1>5, <1>6, <2>2 DEF HooksTyped
  <2> QED BY <1>2, <1>5, <2>1, <2>2
<1> QED BY <1>4, <1>8, <1>9, <1>10 DEF JoinInv

\* synchronous_node_count is a number, whatever the list is.
LEMMA SyncConfigType ==
    ASSUME MembershipAssumption, Typed, NEW c
    PROVE  SyncConfig(c) \in Syncs
<1>1. scale - 1 \in Nat /\ scale \div 2 \in Nat
  BY PresentFacts
<1>2. Policy # All /\ Policy # Majority => Policy \in Nat
  BY DEF MembershipAssumption
<1>3. SyncCount(c) \in Nat
  BY <1>1, <1>2 DEF SyncCount
<1>4. (MembersCount(c) > 1 /\ SyncCount(c) > 0) \in BOOLEAN
  OBVIOUS
<1> QED BY <1>3, <1>4 DEF SyncConfig, Syncs

\* What a handler tells Patroni; the leader hears of a departure and tells it, or defers.
Counted(r) == \E d : r.sync = SyncConfig(d)
Tells(u, e, r) ==
    /\ Takes(u, e, r)
    /\ r.sync = sync \/ Counted(r)
    /\ e = "departed" /\ leader = u => r.ctx.again \/ Counted(r)

LEMMA HandlersTell ==
    ASSUME NEW u \in Units, Handlers(u)
    PROVE  \E e, r : Tells(u, e, r)
<1> DEFINE c == View(u)
           Fine(r) == IsOutcome(r) /\ (r.sync = sync \/ Counted(r))
<1>1. ASSUME NEW e, NEW r, Takes(u, e, r), r.sync = sync \/ Counted(r), e # "departed"
      PROVE  \E f, q : Tells(u, f, q)
  BY <1>1 DEF Tells
<1>2. ASSUME NEW r, Fine(r)
      PROVE  Fine([r EXCEPT !.ctx = Defer(@)]) /\ Fine(Configured(r))
  <2>1. [r EXCEPT !.ctx = Defer(@)] = Outcome(Defer(r.ctx), r.labelled, r.sync, r.fails, r.ok)
    BY <1>2, ChangedOutcomes
  <2>2. Fine([r EXCEPT !.ctx = Defer(@)])
    BY <1>2, <2>1, OutcomeFacts DEF Counted
  <2>3. Fine(Configured(r))
    BY OutcomeFacts DEF Configured, Counted
  <2> QED BY <2>2, <2>3
<1>3. \A r \in Initialize(u, c) \cup FixPod(u, c) : Fine(r)
  BY DEF Initialize, FixPod, Outcome, IsOutcome
<1>4. ASSUME NEW d, NEW r \in AddMembers(u, d)
      PROVE  Fine(r)
  <2>1. Idles(u, d, r) => Fine(r)
    BY DEF Idles, Outcome, IsOutcome
  <2>2. r = AddLater(d) => Fine(r)
    BY DEF AddLater, Outcome, IsOutcome
  <2>3. ASSUME NEW A, NEW F, Adds(u, d, r, A, F)
        PROVE  Fine(r)
    BY <2>3 DEF Adds, Counted
  <2> QED BY <2>1, <2>2, <2>3, AddMembersAre
<1>5. CASE OnLeaderElected(u)
  <2>1. PICK d, b, r : /\ r = Outcome(b, labelled, sync, 1, FALSE) \/ r \in AddMembers(u, d)
                       /\ Takes(u, "elected", r)
    BY <1>5 DEF OnLeaderElected
  <2>2. r.sync = sync \/ Counted(r)
    BY <1>4, <2>1 DEF Outcome
  <2> QED BY <1>1, <2>1, <2>2
<1>6. CASE OnPeerChangedEarly(u)
  <2>1. PICK r : /\ r \in Initialize(u, c) \/ r = Outcome(c, labelled, sync, 0, FALSE)
                 /\ Takes(u, "changed", IF r.ok THEN [r EXCEPT !.ctx = Defer(@)] ELSE r)
    BY <1>6 DEF OnPeerChangedEarly
  <2>2. Fine(r)
    BY <1>3, <2>1 DEF Outcome, IsOutcome
  <2>3. \E q : Takes(u, "changed", q) /\ Fine(q)
    BY <1>2, <2>1, <2>2
  <2> QED BY <1>1, <2>3
<1>7. CASE OnPeerChanged(u)
  <2>1. PICK r \in AddMembers(u, c) :
           Takes(u, "changed",
                 IF u \notin Listed(r.ctx) THEN r
                 ELSE IF u \in running THEN Configured(r)
                 ELSE [r EXCEPT !.ctx = Defer(@)])
    BY <1>7 DEF OnPeerChanged
  <2>2. Fine(r) /\ Fine(Configured(r)) /\ Fine([r EXCEPT !.ctx = Defer(@)])
    BY <1>2, <1>4
  <2>3. \E q : Takes(u, "changed", q) /\ Fine(q)
    BY <2>1, <2>2
  <2> QED BY <1>1, <2>3
<1>8. CASE OnPeerDeparted(u)
  <2>1. CASE leader # u
    <3> DEFINE r == Outcome(c, labelled, sync, 0, TRUE)
    <3>1. Takes(u, "departed", r)
      BY <1>8, <2>1 DEF OnPeerDeparted
    <3>2. r.sync = sync
      BY DEF Outcome
    <3> HIDE DEF r
    <3> QED BY <2>1, <3>1, <3>2 DEF Tells
  <2>2. CASE leader = u /\ (~c.init \/ ~CanPatch(u))
    <3> DEFINE r == Outcome(Defer(c), labelled, sync, 0, TRUE)
    <3>1. Takes(u, "departed", r)
      BY <1>8, <2>2 DEF OnPeerDeparted
    <3>2. r.sync = sync /\ r.ctx.again
      BY DEF Outcome, Defer, View
    <3> HIDE DEF r
    <3> QED BY <3>1, <3>2 DEF Tells
  <2>3. CASE leader = u /\ ~(~c.init \/ ~CanPatch(u))
    <3> DEFINE r == Outcome(RemoveGone(u, c), labelled, SyncConfig(c), 0, TRUE)
    <3>1. Takes(u, "departed", r)
      BY <1>8, <2>3 DEF OnPeerDeparted
    <3>2. Counted(r)
      BY DEF Counted, Outcome
    <3> HIDE DEF r
    <3> QED BY <3>1, <3>2 DEF Tells
  <2> QED BY <2>1, <2>2, <2>3
<1>9. CASE OnPebbleReady(u)
  <2>1. PICK r \in Initialize(u, c) \cup FixPod(u, c) :
           \/ Takes(u, "ready", [r EXCEPT !.ctx = Defer(@)])
           \/ Takes(u, "ready", IF r.ok THEN Configured(r) ELSE r)
    BY <1>9 DEF OnPebbleReady
  <2>2. Fine(r) /\ Fine(Configured(r)) /\ Fine([r EXCEPT !.ctx = Defer(@)])
    BY <1>2, <1>3
  <2>3. \E q : Takes(u, "ready", q) /\ Fine(q)
    BY <2>1, <2>2
  <2> QED BY <1>1, <2>3
<1> QED BY <1>5, <1>6, <1>7, <1>8, <1>9 DEF Handlers

LEMMA HandlersSync ==
    ASSUME MembershipAssumption, Typed, sync \in Syncs, NEW u \in Units, Handlers(u)
    PROVE  sync' \in Syncs
<1>1. PICK e, r : Tells(u, e, r)
  BY HandlersTell
<1> QED BY <1>1, SyncConfigType DEF Tells, Takes, Counted

LEMMA InitJoins ==
    ASSUME MembershipAssumption, Init
    PROVE  HooksTyped /\ JoinInv /\ sync \in Syncs
<1>1. Present \subseteq Units /\ leader \in Present /\ NoUnit \notin Present /\ Present = 0 .. Start - 1
  BY UnitFacts DEF Init, Present
<1>2. <<>> \in Seq(Events) /\ {"elected", "ready"} \subseteq Events
  BY DEF Events
<1>3. HooksTyped
  BY <1>1, <1>2 DEF Init, HooksTyped
<1>4. \A x \in Present : "ready" \in due[x]
  BY <1>1, UnitFacts DEF Init
<1>5. "elected" \in due[leader]
  BY <1>1 DEF Init
<1>6. JoinInv
  BY <1>4, <1>5 DEF Init, JoinInv, LabelsListed, LeaderListed, NobodyForgotten, OthersWait, Pending
<1> QED BY <1>3, <1>6 DEF Init, Syncs

LEMMA StepJoins ==
    ASSUME MembershipAssumption, ~MayElectEarly, MaxElections = 0, MaxCrashes = 0, MaxFailures = 0,
           Typed, HooksTyped, JoinInv, sync \in Syncs, [Next]_vars
    PROVE  HooksTyped' /\ JoinInv' /\ sync' \in Syncs
<1>1. ASSUME NEW u \in Units, Unit(u) \/ Begin(u, "other") \/ Elect(u) \/ PodDies(u)
      PROVE  HooksTyped' /\ JoinInv' /\ sync' \in Syncs
  <2>1. CASE Handlers(u)
    <3>1. PICK e \in Events : \E r : Handles(u, e, r)
      BY <2>1, HandlersHandle
    <3>2. PICK r : Handles(u, e, r)
      BY <3>1
    <3>3. Follows(u, e, r) /\ HooksTyped'
      BY <3>2, HandlerFollows
    <3> QED BY <2>1, <3>2, <3>3, HandlersJoin, HandlersSync
  <2>2. CASE PostgresUp(u) \/ TakeLock(u)
    BY <2>2, PatroniJoins DEF PostgresUp, TakeLock
  <2>3. CASE Elect(u)
    BY <2>3, ElectJoins DEF Elect
  <2>4. CASE PodDies(u)
    BY <2>4, PodDiesJoins DEF PodDies
  <2>5. ASSUME NEW e \in Events \cup {"other"}, Begin(u, e)
        PROVE  HooksTyped' /\ JoinInv' /\ sync' \in Syncs
    BY <2>5, BeginJoins DEF Begin
  <2> QED BY <1>1, <2>1, <2>2, <2>3, <2>4, <2>5 DEF Unit
<1>2. CASE RemoveUnit
  BY <1>2, RemoveUnitJoins DEF RemoveUnit
<1>3. CASE AddUnit
  BY <1>3, AddUnitJoins DEF AddUnit
<1>4. CASE UNCHANGED vars
  <2>1. Present' = Present /\ UNCHANGED <<leader, databags>> /\ labelled' = labelled /\ sync' = sync
    BY <1>4 DEF vars, Present
  <2>2. \A y \in Units, f \in Events : Pending(y, f) => Pending(y, f)'
    BY <1>4 DEF vars, Pending
  <2>3. HooksTyped'
    BY <1>4, <2>1 DEF vars, HooksTyped
  <2> QED BY <2>1, <2>2, <2>3, NothingLost
<1> QED BY <1>1, <1>2, <1>3, <1>4 DEF Next

\* When the cluster is initialised, has a leader and nothing is left to do, every unit is in
\* the list and its pod is labelled, for any number of units, scalings and lost pods, if no
\* call fails, no hook dies, a leader changes only when it is removed and no primary gives
\* its lock back (_add_members, _fix_pod, and what defers).
THEOREM EveryUnitJoins ==
    ASSUME ~MayElectEarly, ~MayRelease, MaxElections = 0, MaxCrashes = 0, MaxFailures = 0
    PROVE  Spec => []Inv
<1> DEFINE I == Typed /\ Single /\ HooksTyped /\ JoinInv /\ sync \in Syncs
<1>1. Init => I
  BY MembershipAssumption, InitSingle, InitJoins
<1>2. I /\ [Next]_vars => I'
  BY MembershipAssumption, StepSingle, StepJoins
<1>3. I => Inv
  <2> SUFFICES ASSUME I PROVE TypeOK /\ AllMembers
    BY DEF Inv
  <2>1. TypeOK
    BY DEF TypeOK, Typed, HooksTyped, Syncs
  <2>2. ASSUME Quiet, NEW x \in Present
        PROVE  x \in labelled /\ endpoints[x] > 0
    <3>1. leader \in Present /\ \A u \in Present : ~Pending(u, "changed") /\ ~Pending(u, "elected")
                                                   /\ ~Pending(u, "ready")
      BY <2>2 DEF Quiet, Pending, Range, Typed
    <3>2. ~Retries /\ ~Waits(x)
      BY <3>1 DEF Retries, Waits
    <3> QED BY <2>2, <3>2 DEF Quiet, JoinInv, NobodyForgotten, Member
  <2> QED BY <2>1, <2>2 DEF AllMembers
<1> QED BY <1>1, <1>2, <1>3, PTL DEF Spec

-----------------------------------------------------------------------------
(* Patroni waits for no more standbys than there are. *)

Fits(y) == y.count <= scale - 1 /\ (y.strict => scale > 1)

\* The leader, if it is there, has told Patroni a number that fits, or has still to hear
\* of a departure.
StandbyInv ==
    /\ scale \in 1 .. N /\ leader \in Present \cup {NoUnit}
    /\ crashes \in Nat /\ elections \in Nat
    /\ QueuesTyped /\ sync \in Syncs
    /\ leader # NoUnit => Fits(sync) \/ Pending(leader, "departed")

\* "all" and "majority" ask for no more standbys than there are.
LEMMA CountedFits ==
    ASSUME MembershipAssumption, Policy \in {All, Majority}, StandbyInv, NEW c
    PROVE  SyncConfig(c) \in Syncs /\ Fits(SyncConfig(c))
<1>1. scale \in Nat /\ scale > 0
  BY UnitFacts DEF StandbyInv
<1>2. SyncCount(c) = scale - 1 \/ SyncCount(c) = scale \div 2
  BY DEF SyncCount
<1>3. SyncCount(c) \in Nat /\ SyncCount(c) <= scale - 1 /\ (SyncCount(c) > 0 => scale > 1)
  BY <1>1, <1>2
<1> QED BY <1>3 DEF SyncConfig, Syncs, Fits

LEMMA HandlersFit ==
    ASSUME MembershipAssumption, Policy \in {All, Majority}, MaxCrashes = 0, StandbyInv,
           NEW u \in Units, Handlers(u)
    PROVE  StandbyInv'
<1>1. PICK e, r : Tells(u, e, r)
  BY HandlersTell
<1>2. /\ todo[u] # <<>> /\ Head(todo[u]) = e /\ sync' = r.sync
      /\ HandlerEnds(u, r.ctx) /\ crashes' = crashes
      /\ UNCHANGED <<scale, leader, elections>>
  BY <1>1 DEF Tells, Takes, HandlerEnds, HandlerDies, StandbyInv
<1>3. /\ QueuesTyped'
      /\ \A y \in Units, f \in Events :
            Pending(y, f) => Pending(y, f)' \/ (y = u /\ f = e /\ ~r.ctx.again)
  BY <1>2, EventsKept DEF StandbyInv
<1>4. Counted(r) => sync' \in Syncs /\ Fits(sync)'
  BY <1>2, CountedFits DEF Counted, Fits
<1>5. r.sync = sync => sync' \in Syncs /\ (Fits(sync) => Fits(sync)')
  BY <1>2 DEF StandbyInv, Fits
<1>6. leader # NoUnit => Fits(sync)' \/ Pending(leader, "departed")'
  <2> SUFFICES ASSUME leader # NoUnit, ~Counted(r), Pending(leader, "departed")
               PROVE  Pending(leader, "departed")'
    BY <1>1, <1>4, <1>5 DEF Tells, StandbyInv
  <2>1. leader \in Units /\ "departed" \in Events
    BY UnitFacts DEF StandbyInv, Present, Events
  <2>2. ~(leader = u /\ "departed" = e /\ ~r.ctx.again)
    BY <1>1 DEF Tells
  <2>3. (\E y \in Units : y = leader /\ Pending(y, "departed")')
    BY <1>3, <2>1, <2>2
  <2> QED BY <1>2, <2>3 DEF Pending
<1> QED BY <1>1, <1>2, <1>3, <1>4, <1>5, <1>6 DEF StandbyInv, Present, Tells

\* The steps that neither handle an event nor change how many units there are.
LEMMA OthersFit ==
    ASSUME MembershipAssumption, MaxElections = 0, StandbyInv, leader # NoUnit, NEW u \in Units,
           \/ \E e \in Events \cup {"other"} : Begin(u, e)
           \/ PostgresUp(u) \/ TakeLock(u) \/ Elect(u) \/ PodDies(u)
    PROVE  StandbyInv'
<1> USE DEF StandbyInv
<1>0. leader \in Units /\ "departed" \in Events
  BY UnitFacts DEF Present, Events
<1>1. ASSUME UNCHANGED <<scale, leader, sync, crashes, elections>>, QueuesTyped',
             \A y \in Units, f \in Events : Pending(y, f) => Pending(y, f)'
      PROVE  StandbyInv'
  BY <1>0, <1>1 DEF Fits, Pending, Present
<1>2. ASSUME NEW e \in Events \cup {"other"}, Begin(u, e)
      PROVE  StandbyInv'
  <2>1. QueuesTyped' /\ \A y \in Units, f \in Events : Pending(y, f) => Pending(y, f)'
    BY <1>2, BeginKeeps
  <2> QED BY <1>1, <1>2, <2>1 DEF Begin
<1>3. CASE PostgresUp(u) \/ TakeLock(u)
  BY <1>1, <1>3 DEF PostgresUp, TakeLock, QueuesTyped, Pending
<1>4. CASE Elect(u)
  BY <1>4 DEF Elect
<1>5. CASE PodDies(u)
  <2>1. /\ UNCHANGED <<scale, leader, sync, crashes, elections, deferred, todo>>
        /\ due' = [x \in Units |-> IF x = u THEN due[x] \cup {"ready"}
                                   ELSE IF x \in Present THEN due[x] \cup {"changed"} ELSE due[x]]
    BY <1>5 DEF PodDies
  <2>2. QueuesTyped'
    BY <2>1 DEF QueuesTyped, Events
  <2>3. \A y \in Units, f \in Events : Pending(y, f) => Pending(y, f)'
    BY <2>1 DEF Pending
  <2> QED BY <1>1, <2>1, <2>2, <2>3
<1> QED BY <1>2, <1>3, <1>4, <1>5

LEMMA ScalingsFit ==
    ASSUME MembershipAssumption, StandbyInv, leader # NoUnit, leader' # NoUnit,
           RemoveUnit \/ AddUnit
    PROVE  StandbyInv'
<1>0. /\ scale \in Nat /\ scale > 0 /\ scale <= N /\ N \in Nat /\ Units = 0 .. N - 1
      /\ leader \in Nat /\ leader < scale /\ leader \in Units /\ Present = 0 .. scale - 1
      /\ {"ready", "changed", "departed"} \subseteq Events
  BY UnitFacts DEF StandbyInv, Present, Events
<1>1. CASE RemoveUnit
  <2>1. /\ scale > 1 /\ scale' = scale - 1
        /\ leader' = IF leader = scale - 1 THEN NoUnit ELSE leader
        /\ due' = [u \in Units |-> IF u = scale - 1 THEN {}
                                   ELSE IF u > scale - 1 THEN due[u]
                                   ELSE due[u] \cup {"departed"} \cup
                                        IF endpoints' # endpoints THEN {"changed"} ELSE {}]
        /\ deferred' = [deferred EXCEPT ![scale - 1] = <<>>]
        /\ UNCHANGED <<todo, sync, crashes, elections>>
    BY <1>1 DEF RemoveUnit
  <2>2. leader' = leader /\ leader < scale - 1
    BY <1>0, <2>1
  <2>3. QueuesTyped'
    <3>1. due' \in [Units -> SUBSET Events]
      BY <1>0, <2>1 DEF StandbyInv, QueuesTyped
    <3>2. deferred \in [Units -> Seq(Events)] /\ <<>> \in Seq(Events)
      BY DEF StandbyInv, QueuesTyped
    <3>3. deferred' \in [Units -> Seq(Events)]
      BY <2>1, <3>2
    <3> QED BY <2>1, <3>1, <3>3 DEF StandbyInv, QueuesTyped
  <2>4. Pending(leader, "departed")'
    BY <1>0, <2>1, <2>2 DEF Pending
  <2>5. scale' \in 1 .. N /\ leader' \in Present'
    BY <1>0, <2>1, <2>2 DEF Present
  <2> QED BY <2>1, <2>3, <2>4, <2>5 DEF StandbyInv
<1>2. CASE AddUnit
  <2>1. /\ scale < N /\ scale' = scale + 1
        /\ due' = [u \in Units |-> IF u = scale THEN {"ready"}
                                   ELSE IF u < scale THEN due[u] \cup {"changed"} ELSE due[u]]
        /\ UNCHANGED <<leader, sync, deferred, todo, crashes, elections>>
    BY <1>2 DEF AddUnit
  <2>2. QueuesTyped'
    BY <1>0, <2>1 DEF StandbyInv, QueuesTyped
  <2>3. Pending(leader, "departed") => Pending(leader, "departed")'
    BY <1>0, <2>1 DEF Pending
  <2>4. Fits(sync) => Fits(sync)'
    BY <1>0, <2>1 DEF Fits, StandbyInv, Syncs
  <2>5. scale' \in 1 .. N /\ leader' \in Present'
    BY <1>0, <2>1 DEF Present
  <2> QED BY <2>1, <2>2, <2>3, <2>4, <2>5 DEF StandbyInv
<1> QED BY <1>1, <1>2

LEMMA StepFits ==
    ASSUME MembershipAssumption, Policy \in {All, Majority}, MaxElections = 0, MaxCrashes = 0,
           StandbyInv, leader # NoUnit, leader' # NoUnit, [Next]_vars
    PROVE  StandbyInv'
<1>1. ASSUME NEW u \in Units, Unit(u) \/ Begin(u, "other") \/ Elect(u) \/ PodDies(u)
      PROVE  StandbyInv'
  <2>1. CASE Handlers(u)
    BY <2>1, HandlersFit
  <2>2. CASE ~Handlers(u)
    BY <1>1, <2>2, OthersFit DEF Unit
  <2> QED BY <2>1, <2>2
<1>2. CASE RemoveUnit \/ AddUnit
  BY <1>2, ScalingsFit
<1>3. CASE UNCHANGED vars
  BY <1>3 DEF vars, StandbyInv, QueuesTyped, Fits, Pending, Present
<1> QED BY <1>1, <1>2, <1>3 DEF Next

\* While the leader stays, it has heard of every departure when nothing is left to do, and
\* synchronous_node_count and synchronous_mode_strict fit the units that are left, for any
\* number of units and scalings, lost pods, failed calls and released locks, if the count
\* follows the number of units and no hook dies (_on_peer_relation_departed, update_config).
THEOREM StandbysFit ==
    ASSUME Policy \in {All, Majority}, MaxElections = 0, MaxCrashes = 0
    PROVE  Spec => SyncFits
<1>1. Init => StandbyInv
  <2> SUFFICES ASSUME Init
               PROVE  StandbyInv
    OBVIOUS
  <2>1. scale \in 1 .. N /\ leader \in Present
    BY MembershipAssumption, UnitFacts DEF Init, Present
  <2>2. QueuesTyped
    BY DEF Init, QueuesTyped, Events
  <2>3. sync \in Syncs /\ Fits(sync)
    BY <2>1, MembershipAssumption, UnitFacts DEF Init, Syncs, Fits
  <2> QED BY <2>1, <2>2, <2>3 DEF Init, StandbyInv
<1>2. StandbyInv /\ leader # NoUnit /\ (leader # NoUnit)' /\ [Next]_vars => StandbyInv'
  BY MembershipAssumption, StepFits
<1>3. StandbyInv => (Quiet => sync.count <= scale - 1 /\ (sync.strict => scale > 1))
  <2> SUFFICES ASSUME StandbyInv, Quiet
               PROVE  Fits(sync)
    BY DEF Fits
  <2>1. leader \in Present /\ due[leader] = {} /\ deferred[leader] = <<>> /\ todo[leader] = <<>>
    BY DEF StandbyInv, Quiet
  <2>2. ~Pending(leader, "departed")
    BY <2>1 DEF Pending, Range
  <2> QED BY <2>2 DEF StandbyInv, Quiet
<1> QED BY <1>1, <1>2, <1>3, PTL DEF Spec, SyncFits
=============================================================================
