---------------------------- MODULE Upgrade_proofs ----------------------------
(***************************************************************************)
(* Theorems about the in-place upgrade, for any number of units, refreshes *)
(* and failures: its types, and, when the operator keeps to the order of   *)
(* the guide and no pebble-ready is deferred, that pods are recreated one  *)
(* healthy unit at a time, from the highest down, the primary last.        *)
(***************************************************************************)
EXTENDS Upgrade, SequenceTheorems, FiniteSetTheorems, TLAPS

StateNames == {States[i] : i \in DOMAIN States}

\* Sequences of units that name none twice.
Stacks == {s \in Seq(Units) : IsInjective(s)}

\* What a hook may know of the upgrade relation.
Knowledge ==
    [cache : Stacks, stack : Stacks, state : [Units -> StateNames], deps : 0 .. template]

LEMMA StateNamesAre == StateNames = {"recovery", "failed", "idle", "upgrading", "completed"}
<1>1. DOMAIN States = 1 .. 5
  BY DEF States
<1>2. \A i \in 1 .. 5 : i = 1 \/ i = 2 \/ i = 3 \/ i = 4 \/ i = 5
  OBVIOUS
<1>3. /\ States[1] = "recovery" /\ States[2] = "failed" /\ States[3] = "idle"
      /\ States[4] = "upgrading" /\ States[5] = "completed"
  BY DEF States
<1> QED BY <1>1, <1>2, <1>3 DEF StateNames

LEMMA UnitFacts ==
    ASSUME UpgradeAssumption
    PROVE  /\ N \in Nat /\ N > 0 /\ 0 \in Units /\ Highest \in Units
           /\ \A u \in Units : u \in Int /\ u >= 0 /\ u <= Highest
           /\ IsFiniteSet(Units)
<1>1. N \in Nat /\ N > 0
  BY DEF UpgradeAssumption
<1>2. IsFiniteSet(0 .. N - 1)
  <2>1. 0 \in Int /\ N - 1 \in Int
    BY <1>1
  <2> QED BY <2>1, FS_Interval
<1> QED BY <1>1, <1>2 DEF Units, Highest

-----------------------------------------------------------------------------
(* The stack. *)

LEMMA PrefixIsStack ==
    ASSUME NEW s \in Stacks, NEW n \in 0 .. Len(s)
    PROVE  /\ SubSeq(s, 1, n) \in Stacks /\ Len(SubSeq(s, 1, n)) = n
           /\ \A i \in 1 .. n : SubSeq(s, 1, n)[i] = s[i]
<1>1. s \in Seq(Units) /\ n \in Nat /\ Len(s) \in Nat /\ n <= Len(s)
  BY DEF Stacks
<1>2. \A i \in 1 .. n : s[i] \in Units
  BY <1>1
<1>3. /\ SubSeq(s, 1, n) \in Seq(Units) /\ Len(SubSeq(s, 1, n)) = n
      /\ \A i \in 1 .. n : SubSeq(s, 1, n)[i] = s[i]
  BY <1>1, <1>2, SubSeqProperties
<1>4. DOMAIN s = 1 .. Len(s) /\ DOMAIN SubSeq(s, 1, n) = 1 .. n
  BY <1>1, <1>3
<1>5. IsInjective(SubSeq(s, 1, n))
  BY <1>1, <1>3, <1>4 DEF Stacks, IsInjective
<1> QED BY <1>3, <1>5 DEF Stacks

LEMMA FrontIsStack ==
    ASSUME NEW s \in Stacks, s # <<>>
    PROVE  Front(s) \in Stacks
<1>1. s \in Seq(Units) /\ Len(s) - 1 \in 0 .. Len(s)
  BY DEF Stacks
<1> QED BY <1>1, PrefixIsStack DEF Front

\* The units that are taken off the stack are at its top.
LEMMA UndoneIsPrefix ==
    ASSUME NEW st, NEW s \in Stacks
    PROVE  \E n \in 0 .. Len(s) : Undone(st, s) = SubSeq(s, 1, n)
<1>1. s \in Seq(Units) /\ Len(s) \in Nat /\ DOMAIN s = 1 .. Len(s)
  BY DEF Stacks
<1>2. Completed(st, s) \subseteq 1 .. Len(s)
  BY <1>1 DEF Completed
<1>3. IsFiniteSet(1 .. Len(s)) /\ Cardinality(1 .. Len(s)) = Len(s)
  BY <1>1, FS_Interval
<1>4. /\ IsFiniteSet(Completed(st, s))
      /\ Cardinality(Completed(st, s)) <= Len(s)
  BY <1>2, <1>3, FS_Subset
<1>5. Cardinality(Completed(st, s)) \in Nat
  BY <1>4, FS_CardinalityType
<1>6. Len(s) - Cardinality(Completed(st, s)) \in 0 .. Len(s)
  BY <1>1, <1>4, <1>5
<1> QED BY <1>6 DEF Undone

LEMMA UndoneOfNone ==
    ASSUME NEW st, <<>> \in Stacks
    PROVE  Undone(st, <<>>) = <<>>
<1>1. PICK n \in 0 .. 0 : Undone(st, <<>>) = SubSeq(<<>>, 1, n)
  BY UndoneIsPrefix
<1>2. n = 0
  OBVIOUS
<1> QED BY <1>1, <1>2, SubSeqEmpty

LEMMA UndoneIsStack ==
    ASSUME NEW st, NEW s \in Stacks
    PROVE  Undone(st, s) \in Stacks
  BY UndoneIsPrefix, PrefixIsStack

\* None is taken off when the one on top is not completed, and one alone when the
\* one below it is not.
LEMMA UndoneOfTop ==
    ASSUME NEW st, NEW s \in Stacks, s # <<>>
    PROVE  /\ st[Last(s)] # "completed" => Undone(st, s) = s
           /\ st[Last(s)] = "completed" /\ Len(s) > 1 /\ st[s[Len(s) - 1]] # "completed"
                 => Undone(st, s) = Front(s)
<1>1. s \in Seq(Units) /\ Len(s) \in Nat \ {0} /\ DOMAIN s = 1 .. Len(s)
  BY DEF Stacks
<1>2. ASSUME st[Last(s)] # "completed"
      PROVE  Undone(st, s) = s
  <2>1. Completed(st, s) = {}
    BY <1>1, <1>2 DEF Completed, Last
  <2>2. Cardinality(Completed(st, s)) = 0
    BY <2>1, FS_EmptySet
  <2> QED BY <1>1, <2>2, SubSeqFull DEF Undone
<1>3. ASSUME st[Last(s)] = "completed", Len(s) > 1, st[s[Len(s) - 1]] # "completed"
      PROVE  Undone(st, s) = Front(s)
  <2>0. \A n \in Nat \ {0} : /\ \A i \in 1 .. n : i # n => n - 1 \in i .. n
                            /\ \A j \in n .. n : j = n
    OBVIOUS
  <2>1. \A i \in 1 .. Len(s) : i # Len(s) => Len(s) - 1 \in i .. Len(s)
    BY <1>1, <2>0
  <2>2. \A j \in Len(s) .. Len(s) : j = Len(s)
    BY <1>1, <2>0
  <2>3. Len(s) \in 1 .. Len(s)
    BY <1>1
  <2>4. Completed(st, s) = {Len(s)}
    BY <1>1, <1>3, <2>1, <2>2, <2>3 DEF Completed, Last
  <2>5. Cardinality(Completed(st, s)) = 1
    BY <2>4, FS_Singleton
  <2> QED BY <1>1, <2>5 DEF Undone, Front
<1> QED BY <1>2, <1>3

LEMMA ConcatIsStack ==
    ASSUME NEW s \in Stacks, NEW t \in Stacks,
           \A i \in 1 .. Len(s), j \in 1 .. Len(t) : s[i] # t[j]
    PROVE  s \o t \in Stacks
<1>1. /\ s \in Seq(Units) /\ Len(s) \in Nat /\ DOMAIN s = 1 .. Len(s)
      /\ t \in Seq(Units) /\ Len(t) \in Nat /\ DOMAIN t = 1 .. Len(t)
  BY DEF Stacks
<1> DEFINE c == s \o t
<1>2. /\ c \in Seq(Units) /\ Len(c) = Len(s) + Len(t)
      /\ \A i \in 1 .. Len(s) + Len(t) : c[i] = IF i <= Len(s) THEN s[i] ELSE t[i - Len(s)]
  BY <1>1, ConcatProperties
<1> HIDE DEF c
<1>3. DOMAIN c = 1 .. Len(c) /\ Len(c) \in Nat
  BY <1>2
<1>4. ASSUME NEW i \in 1 .. Len(c), NEW j \in 1 .. Len(c), c[i] = c[j]
      PROVE  i = j
  <2>1. i \in Nat /\ j \in Nat
    BY <1>3
  <2>2. CASE i <= Len(s) /\ j <= Len(s)
    <3>1. i \in DOMAIN s /\ j \in DOMAIN s /\ s[i] = s[j]
      BY <1>1, <1>2, <1>4, <2>1, <2>2
    <3> QED BY <3>1 DEF Stacks, IsInjective
  <2>3. CASE i > Len(s) /\ j > Len(s)
    <3>1. /\ i - Len(s) \in DOMAIN t /\ j - Len(s) \in DOMAIN t
          /\ t[i - Len(s)] = t[j - Len(s)]
      BY <1>1, <1>2, <1>4, <2>1, <2>3
    <3>2. i - Len(s) = j - Len(s)
      BY <3>1 DEF Stacks, IsInjective
    <3> QED BY <1>1, <2>1, <3>2
  <2>4. CASE i <= Len(s) /\ j > Len(s)
    <3>1. i \in 1 .. Len(s) /\ j - Len(s) \in 1 .. Len(t) /\ s[i] = t[j - Len(s)]
      BY <1>1, <1>2, <1>4, <2>1, <2>4
    <3> QED BY <3>1
  <2>5. CASE i > Len(s) /\ j <= Len(s)
    <3>1. j \in 1 .. Len(s) /\ i - Len(s) \in 1 .. Len(t) /\ s[j] = t[i - Len(s)]
      BY <1>1, <1>2, <1>4, <2>1, <2>5
    <3> QED BY <3>1
  <2> QED BY <1>1, <2>1, <2>2, <2>3, <2>4, <2>5
<1>5. IsInjective(c)
  BY <1>3, <1>4 DEF IsInjective
<1> QED BY <1>2, <1>5 DEF Stacks, c

\* _repair_upgrade_stack puts each missing unit in once.
LEMMA RepairedIsStack ==
    ASSUME UpgradeAssumption, stack \in Stacks, NEW s \in Repaired
    PROVE  s \in Stacks
<1> DEFINE missing == Units \ Range(stack)
<1>1. CASE s = stack
  BY <1>1
<1>2. CASE stack # <<>> /\ \E t \in SetToSeqs(missing) : s = Front(stack) \o t \o <<Last(stack)>>
  <2>1. PICK t \in SetToSeqs(missing) : s = Front(stack) \o t \o <<Last(stack)>>
    BY <1>2
  <2>2. /\ stack \in Seq(Units) /\ Len(stack) \in Nat \ {0} /\ DOMAIN stack = 1 .. Len(stack)
        /\ IsInjective(stack)
    BY <1>2 DEF Stacks
  <2>3. \A i \in 1 .. Len(stack) : stack[i] \in Units /\ stack[i] \notin missing
    BY <2>2 DEF Range
  <2>4. t \in Stacks /\ \A i \in 1 .. Len(t) : t[i] \in missing
    <3>1. Cardinality(missing) \in Nat
      <4>1. IsFiniteSet(Units) /\ missing \in SUBSET Units
        BY UnitFacts
      <4>2. IsFiniteSet(missing)
        BY <4>1, FS_Subset
      <4> QED BY <4>2, FS_CardinalityType
    <3>2. missing \subseteq Units
      OBVIOUS
    <3> HIDE DEF missing
    <3>3. /\ t \in [1 .. Cardinality(missing) -> missing]
          /\ \A i, j \in 1 .. Cardinality(missing) : i # j => t[i] # t[j]
      BY DEF SetToSeqs
    <3>4. t \in Seq(Units) /\ Len(t) = Cardinality(missing)
      BY <3>1, <3>2, <3>3
    <3>5. DOMAIN t = 1 .. Cardinality(missing)
      BY <3>3
    <3>6. IsInjective(t)
      BY <3>3, <3>5 DEF IsInjective
    <3> QED BY <3>3, <3>4, <3>6 DEF Stacks
  <2> HIDE DEF missing
  <2> DEFINE f == Front(stack)
  <2>5. /\ f \in Stacks /\ Len(f) = Len(stack) - 1
        /\ \A i \in 1 .. Len(f) : f[i] = stack[i]
    <3>1. Len(stack) - 1 \in 0 .. Len(stack)
      BY <2>2
    <3> QED BY <3>1, PrefixIsStack DEF Front
  <2> HIDE DEF f
  <2>6. f \o t \in Stacks
    <3>1. \A i \in 1 .. Len(f) : f[i] \notin missing
      BY <2>2, <2>3, <2>5
    <3>2. \A i \in 1 .. Len(f), j \in 1 .. Len(t) : f[i] # t[j]
      BY <2>4, <3>1
    <3> QED BY <2>4, <2>5, <3>2, ConcatIsStack
  <2> DEFINE l == <<Last(stack)>>
  <2>7. l \in Stacks /\ Len(l) = 1 /\ l[1] = stack[Len(stack)]
    <3>1. l \in Seq(Units) /\ Len(l) = 1 /\ l[1] = stack[Len(stack)] /\ DOMAIN l = {1}
      BY <2>2, <2>3 DEF Last
    <3> HIDE DEF l
    <3> QED BY <3>1 DEF Stacks, IsInjective
  <2> HIDE DEF l
  <2>8. \A i \in 1 .. Len(f \o t), j \in 1 .. Len(l) : (f \o t)[i] # l[j]
    <3>1. f \in Seq(Units) /\ t \in Seq(Units) /\ Len(f) \in Nat /\ Len(t) \in Nat
      BY <2>4, <2>5 DEF Stacks
    <3>2. /\ Len(f \o t) = Len(f) + Len(t)
          /\ \A i \in 1 .. Len(f) + Len(t) :
                (f \o t)[i] = IF i <= Len(f) THEN f[i] ELSE t[i - Len(f)]
      BY <3>1, ConcatProperties
    <3> SUFFICES ASSUME NEW i \in 1 .. Len(f) + Len(t)
                 PROVE  (f \o t)[i] # stack[Len(stack)]
      BY <2>7, <3>2
    <3>3. i \in Nat
      BY <3>1
    <3>4. CASE i <= Len(f)
      <4>1. (f \o t)[i] = stack[i] /\ i \in DOMAIN stack /\ Len(stack) \in DOMAIN stack
            /\ i # Len(stack)
        <5>1. i \in 1 .. Len(f) /\ i < Len(stack)
          BY <2>2, <2>5, <3>1, <3>3, <3>4
        <5>2. (f \o t)[i] = stack[i]
          BY <2>5, <3>2, <3>4, <5>1
        <5>3. \A n \in Nat \ {0} : i < n => i \in 1 .. n /\ n \in 1 .. n /\ i # n
          BY <3>1, <3>3
        <5> QED BY <2>2, <5>1, <5>2, <5>3
      <4> QED BY <2>2, <4>1 DEF IsInjective
    <3>5. CASE i > Len(f)
      <4>1. (f \o t)[i] = t[i - Len(f)] /\ i - Len(f) \in 1 .. Len(t)
        BY <3>1, <3>2, <3>3, <3>5
      <4>2. Len(stack) \in 1 .. Len(stack)
        BY <2>2
      <4> QED BY <2>3, <2>4, <4>1, <4>2
    <3> QED BY <3>1, <3>3, <3>4, <3>5
  <2> QED BY <2>1, <2>6, <2>7, <2>8, ConcatIsStack DEF f, l
<1> QED BY <1>1, <1>2 DEF Repaired

-----------------------------------------------------------------------------
(* Types. *)

LEMMA SettleType ==
    ASSUME TypeOK, NEW u \in Units, NEW k \in Knowledge
    PROVE  /\ Settle(u, k) \in Knowledge
           /\ Settle(u, k).cache = k.cache /\ Settle(u, k).stack = k.stack
           /\ \A v \in Units :
                 \/ Settle(u, k).state[v] = k.state[v]
                 \/ v = u /\ k.state[u] = "completed" /\ Settle(u, k).state[v] = "idle"
<1>1. pod[u] \in 0 .. template
  BY DEF TypeOK
<1>2. "idle" \in StateNames
  BY StateNamesAre
<1>3. CASE Settle(u, k) = k
  BY <1>3
<1>4. CASE /\ k.state[u] = "completed"
           /\ Settle(u, k) = [k EXCEPT !.state[u] = "idle", !.deps = IF u = leader THEN pod[u] ELSE @]
  <2> DEFINE d == IF u = leader THEN pod[u] ELSE k.deps
             st == [k.state EXCEPT ![u] = "idle"]
  <2>1. d \in 0 .. template /\ st \in [Units -> StateNames]
    BY <1>1, <1>2 DEF Knowledge
  <2>2. Settle(u, k) = [k EXCEPT !.state = st, !.deps = d]
    BY <1>4 DEF Knowledge
  <2>3. \A v \in Units : st[v] = IF v = u THEN "idle" ELSE k.state[v]
    BY DEF Knowledge
  <2> HIDE DEF d, st
  <2> QED BY <1>4, <2>1, <2>2, <2>3 DEF Knowledge
<1> QED BY <1>3, <1>4 DEF Settle

\* What the handler makes of what its hook knows: it takes units off the stack, and
\* its own unit from completed to idle once the stack it knows is empty.
LEMMA OnUpgradeChangedType ==
    ASSUME TypeOK, NEW u \in Units, NEW k \in Knowledge
    PROVE  /\ OnUpgradeChanged(u, k) \in Knowledge
           /\ OnUpgradeChanged(u, k).stack \in {k.stack, Undone(k.state, k.cache)}
           /\ \A v \in Units :
                 \/ OnUpgradeChanged(u, k).state[v] = k.state[v]
                 \/ /\ v = u /\ k.state[u] = "completed"
                    /\ OnUpgradeChanged(u, k).state[v] = "idle"
                    /\ k.cache = k.stack => OnUpgradeChanged(u, k).stack = <<>>
           /\ \/ OnUpgradeChanged(u, k).deps = k.deps
              \/ k.cache = k.stack => OnUpgradeChanged(u, k).stack = <<>>
<1> DEFINE rest == Undone(k.state, k.cache)
<1>1. k.cache \in Stacks /\ k.stack \in Stacks
  BY DEF Knowledge
<1>2. rest \in Stacks
  BY <1>1, UndoneIsStack
<1> HIDE DEF rest
<1>3. CASE OnUpgradeChanged(u, k) = k
  BY <1>3
<1>4. CASE k.cache = <<>> /\ OnUpgradeChanged(u, k) = Settle(u, k)
  BY <1>4, SettleType
<1>5. CASE k.cache # <<>> /\ OnUpgradeChanged(u, k) = [k EXCEPT !.cache = Front(@)]
  <2>1. Front(k.cache) \in Stacks
    BY <1>1, <1>5, FrontIsStack
  <2> QED BY <1>5, <2>1 DEF Knowledge
<1>6. CASE /\ rest = <<>>
           /\ OnUpgradeChanged(u, k) = Settle(u, [k EXCEPT !.cache = rest, !.stack = rest])
  <2> DEFINE k1 == [k EXCEPT !.cache = rest, !.stack = rest]
  <2>1. k1 \in Knowledge /\ k1.stack = rest /\ k1.state = k.state
    BY <1>2 DEF Knowledge
  <2> HIDE DEF k1
  <2>2. /\ Settle(u, k1) \in Knowledge
        /\ Settle(u, k1).stack = rest
        /\ \A v \in Units :
              \/ Settle(u, k1).state[v] = k.state[v]
              \/ v = u /\ k.state[u] = "completed" /\ Settle(u, k1).state[v] = "idle"
    BY <2>1, SettleType
  <2>3. OnUpgradeChanged(u, k) = Settle(u, k1)
    BY <1>6 DEF k1
  <2> QED BY <1>6, <2>2, <2>3 DEF rest
<1>7. CASE rest # <<>> /\ OnUpgradeChanged(u, k) = [k EXCEPT !.cache = Front(rest), !.stack = rest]
  <2>1. Front(rest) \in Stacks
    BY <1>2, <1>7, FrontIsStack
  <2>2. [k EXCEPT !.cache = Front(rest), !.stack = rest] \in Knowledge
    BY <1>2, <2>1 DEF Knowledge
  <2>3. /\ [k EXCEPT !.cache = Front(rest), !.stack = rest].stack = rest
        /\ [k EXCEPT !.cache = Front(rest), !.stack = rest].deps = k.deps
        /\ [k EXCEPT !.cache = Front(rest), !.stack = rest].state = k.state
    BY DEF Knowledge
  <2> QED BY <1>7, <2>2, <2>3 DEF rest
<1> QED BY <1>3, <1>4, <1>5, <1>6, <1>7 DEF OnUpgradeChanged, rest

LEMMA KnownType ==
    ASSUME TypeOK, NEW st \in [Units -> StateNames]
    PROVE  /\ Known(st) \in Knowledge
           /\ Known(st).cache = stack /\ Known(st).stack = stack /\ Known(st).state = st
           /\ Known(st).deps = deps
  BY DEF TypeOK, Known, Knowledge, Stacks

LEMMA WithStackType ==
    ASSUME NEW k \in Knowledge, NEW s \in Stacks
    PROVE  /\ [k EXCEPT !.stack = s] \in Knowledge
           /\ [k EXCEPT !.stack = s].stack = s
           /\ [k EXCEPT !.stack = s].state = k.state
           /\ [k EXCEPT !.stack = s].deps = k.deps
  BY DEF Knowledge

LEMMA WriteType ==
    ASSUME TypeOK, NEW u \in Units, NEW k \in Knowledge, NEW b, Write(u, k, b)
    PROVE  /\ state' \in [Units -> StateNames]
           /\ stack' \in Stacks
           /\ deps' \in 0 .. template
           /\ notify' \subseteq Units
<1>1. state \in [Units -> StateNames] /\ notify \subseteq Units
  BY DEF TypeOK, StateNames
<1>2. k.state \in [Units -> StateNames] /\ k.stack \in Stacks /\ k.deps \in 0 .. template
  BY DEF Knowledge
<1> QED BY <1>1, <1>2 DEF Write

LEMMA InitType == ASSUME UpgradeAssumption, Init PROVE TypeOK
<1>1. <<>> \in Seq(Units) /\ IsInjective(<<>>)
  BY DEF IsInjective
<1>2. "idle" \in {States[i] : i \in DOMAIN States}
  BY StateNamesAre DEF StateNames
<1>3. MaxRefreshes \in Nat
  BY DEF UpgradeAssumption
<1>4. \A c \in {failures, restarts, elections} : c \in Nat
  BY DEF Init
<1> QED BY <1>1, <1>2, <1>3, <1>4, UnitFacts DEF Init, TypeOK

LEMMA CompleteType ==
    ASSUME UpgradeAssumption, TypeOK, NEW u \in Units, Complete(u)
    PROVE  /\ partition' \in Units
           /\ verdict' \in [Units -> {"none", "completed", "failed"}]
           /\ failures' \in Nat
<1>1. Lowers(u) => u - 1 \in Units
  BY UnitFacts DEF Lowers, Units
<1>2. failures \in Nat /\ partition \in Units
      /\ verdict \in [Units -> {"none", "completed", "failed"}]
  BY DEF TypeOK
<1> QED BY <1>1, <1>2 DEF Complete, Fails

\* TypeOK, with the names of the states and the stacks as sets.
Typed ==
    /\ leader \in Units
    /\ state \in [Units -> StateNames]
    /\ stack \in Stacks
    /\ template \in 0 .. MaxRefreshes
    /\ deps \in 0 .. template
    /\ pod \in [Units -> 0 .. template]
    /\ partition \in Units
    /\ primary \in Units
    /\ charmDue \subseteq Units
    /\ pebbleDue \subseteq Units
    /\ notify \subseteq Units
    /\ verdict \in [Units -> {"none", "completed", "failed"}]
    /\ checked \subseteq Units
    /\ resumed \in BOOLEAN /\ rollback \in BOOLEAN
    /\ failures \in Nat /\ restarts \in Nat /\ elections \in Nat

LEMMA TypedIsTypeOK == TypeOK <=> Typed
  BY DEF TypeOK, Typed, StateNames, Stacks

LEMMA TypedIsTypeOKNext == TypeOK' <=> Typed'
  BY DEF TypeOK, Typed, StateNames, Stacks

LEMMA StepType == ASSUME UpgradeAssumption, TypeOK, [Next]_vars PROVE TypeOK'
<1> USE DEF databags, kubernetes, due, counters, history
<1>0. Typed /\ MaxRefreshes \in Nat
      /\ {"recovery", "failed", "idle", "upgrading", "completed"} = StateNames
  BY StateNamesAre, TypedIsTypeOK DEF UpgradeAssumption
<1> SUFFICES Typed'
  BY TypedIsTypeOKNext
<1>1. CASE PreUpgradeCheck
  <2> DEFINE full == [i \in 1 .. N |-> i - 1]
  <2>1. full \in Stacks
    <3>1. full \in Seq(Units) /\ DOMAIN full = 1 .. N
      BY UnitFacts DEF Units
    <3> QED BY <3>1, UnitFacts DEF Stacks, IsInjective
  <2>2. [Known(state) EXCEPT !.stack = full] \in Knowledge
    BY <1>0, <2>1, KnownType, WithStackType DEF Typed
  <2>3. Write(leader, [Known(state) EXCEPT !.stack = full], FALSE)
    BY <1>1 DEF PreUpgradeCheck
  <2> HIDE DEF full
  <2>4. /\ state' \in [Units -> StateNames] /\ stack' \in Stacks
        /\ deps' \in 0 .. template /\ notify' \subseteq Units
    BY <1>0, <2>2, <2>3, WriteType DEF Typed
  <2> QED BY <1>0, <1>1, <2>4, UnitFacts DEF PreUpgradeCheck, FirstPartition, UnitZeroPrimary, Typed
<1>2. CASE EnterRecovery
  <2>1. PICK s \in Repaired :
           Write(leader, [Known([state EXCEPT ![leader] = "recovery"]) EXCEPT !.stack = s], FALSE)
    BY <1>2 DEF EnterRecovery
  <2>2. s \in Stacks
    BY <1>0, RepairedIsStack DEF Typed
  <2>3. [state EXCEPT ![leader] = "recovery"] \in [Units -> StateNames]
    BY <1>0 DEF Typed
  <2>4. [Known([state EXCEPT ![leader] = "recovery"]) EXCEPT !.stack = s] \in Knowledge
    BY <2>2, <2>3, KnownType, WithStackType
  <2>5. /\ state' \in [Units -> StateNames] /\ stack' \in Stacks
        /\ deps' \in 0 .. template /\ notify' \subseteq Units
    BY <1>0, <2>1, <2>4, WriteType DEF Typed
  <2> QED BY <1>0, <1>2, <2>5 DEF EnterRecovery, Typed
<1>3. CASE ResumeUpgrade
  <2>1. Last(stack) \in Units
    <3>1. stack \in Seq(Units) /\ stack # <<>>
      BY <1>0, <1>3 DEF ResumeUpgrade, Typed, Stacks
    <3> QED BY <3>1 DEF Last
  <2> QED BY <1>0, <1>3, <2>1 DEF ResumeUpgrade, Typed
<1>4. CASE Refresh
  <2>1. template' = template + 1 /\ template' \in 0 .. MaxRefreshes
        /\ rollback' \in BOOLEAN /\ resumed' = FALSE
    BY <1>0, <1>4 DEF Refresh, Typed
  <2>2. 0 .. template \subseteq 0 .. template'
    BY <1>0, <2>1 DEF Typed
  <2>3. deps' \in 0 .. template' /\ pod' \in [Units -> 0 .. template']
    BY <1>0, <1>4, <2>2 DEF Refresh, Typed
  <2> QED BY <1>0, <1>4, <2>1, <2>3 DEF Refresh, Typed
<1>5. ASSUME NEW u \in Units, UpgradeRelationChanged(u)
      PROVE  Typed'
  <2>1. OnUpgradeChanged(u, Known(state)) \in Knowledge
    BY <1>0, KnownType, OnUpgradeChangedType DEF Typed
  <2>2. /\ state' \in [Units -> StateNames] /\ stack' \in Stacks
        /\ deps' \in 0 .. template /\ notify' \subseteq Units
    BY <1>5, <2>1, WriteType DEF UpgradeRelationChanged
  <2> QED BY <1>0, <1>5, <2>2 DEF UpgradeRelationChanged, Typed
<1>6. ASSUME NEW u \in Units, UpgradeCharm(u)
      PROVE  Typed'
  <2>1. /\ state' \in [Units -> StateNames] /\ stack' \in Stacks
        /\ deps' \in 0 .. template /\ notify' \subseteq Units /\ failures' \in Nat
    <3>1. CASE UNCHANGED <<databags, notify, failures>>
      BY <1>0, <3>1 DEF Typed
    <3>2. ASSUME NEW s \in {"upgrading", "failed"}, Write(u, Known([state EXCEPT ![u] = s]), FALSE),
                 UNCHANGED failures \/ Fails
          PROVE  <2>1
      <4>1. Known([state EXCEPT ![u] = s]) \in Knowledge
        BY <1>0, KnownType DEF Typed
      <4>2. failures' \in Nat
        BY <1>0, <3>2 DEF Fails, Typed
      <4> QED BY <3>2, <4>1, <4>2, WriteType
    <3> QED BY <1>6, <3>1, <3>2 DEF UpgradeCharm
  <2> QED BY <1>0, <1>6, <2>1 DEF UpgradeCharm, Typed
<1>7. ASSUME NEW u \in Units, HealthCheck(u)
      PROVE  Typed'
  <2>1. primary' \in Units
    BY <1>0, <1>7 DEF HealthCheck, LabelChange, Typed
  <2> QED BY <1>0, <1>7, <2>1, CompleteType DEF HealthCheck, Typed
<1>8. ASSUME NEW u \in Units, PebbleReadyEnds(u)
      PROVE  Typed'
  <2> DEFINE k == Known([state EXCEPT ![u] = "completed"])
             k1 == IF u = leader THEN OnUpgradeChanged(u, k) ELSE k
             k2 == IF verdict[u] = "failed"
                   THEN [k1 EXCEPT !.state[u] = "failed",
                                   !.cache = IF u = leader THEN k1.stack ELSE @]
                   ELSE k1
  <2>1. k1 \in Knowledge
    BY <1>0, KnownType, OnUpgradeChangedType DEF Typed
  <2>2. k2 \in Knowledge
    BY <1>0, <2>1 DEF Knowledge
  <2>3. OnUpgradeChanged(u, k2) \in Knowledge
    BY <2>2, OnUpgradeChangedType
  <2>4. Write(u, k2, FALSE) \/ Write(u, OnUpgradeChanged(u, k2), TRUE)
    BY <1>8 DEF PebbleReadyEnds
  <2> HIDE DEF k2
  <2>5. /\ state' \in [Units -> StateNames] /\ stack' \in Stacks
        /\ deps' \in 0 .. template /\ notify' \subseteq Units
    BY <2>2, <2>3, <2>4, WriteType
  <2> QED BY <1>0, <1>8, <2>5 DEF PebbleReadyEnds, Typed
<1>9. ASSUME NEW u \in Units, PebbleReadyIgnored(u) \/ PebbleReadyCrashes(u)
      PROVE  Typed'
  BY <1>0, <1>9 DEF PebbleReadyIgnored, PebbleReadyCrashes, Fails, Typed
<1>10. ASSUME NEW u \in Units, RecreatePod(u)
       PROVE  Typed'
  <2>1. primary' \in Units
    BY <1>0, <1>10 DEF RecreatePod, Typed
  <2>2. pod' \in [Units -> 0 .. template]
    BY <1>0, <1>10 DEF RecreatePod, Typed
  <2> QED BY <1>0, <1>10, <2>1, <2>2 DEF RecreatePod, Typed
<1>11. ASSUME NEW u \in Units, Elect(u)
       PROVE  Typed'
  BY <1>0, <1>11 DEF Elect, Typed
<1>12. ASSUME NEW u \in Units, Unhealthy(u)
       PROVE  Typed'
  <2>1. Known([state EXCEPT ![u] = "failed"]) \in Knowledge
    BY <1>0, KnownType DEF Typed
  <2>2. /\ state' \in [Units -> StateNames] /\ stack' \in Stacks
        /\ deps' \in 0 .. template /\ notify' \subseteq Units
    BY <1>12, <2>1, WriteType DEF Unhealthy
  <2> QED BY <1>0, <1>12, <2>2 DEF Unhealthy, Fails, Typed
<1>13. ASSUME NEW u \in Units, Restarted(u)
       PROVE  Typed'
  BY <1>0, <1>13, CompleteType DEF Restarted, Typed
<1>14. CASE UNCHANGED vars
  BY <1>0, <1>14 DEF vars, Typed
<1> QED BY <1>1, <1>2, <1>3, <1>4, <1>5, <1>6, <1>7, <1>8, <1>9, <1>10, <1>11, <1>12, <1>13, <1>14
        DEF Next, Operator, Unit

\* The types of the upgrade, and that no unit is twice in the stack.
THEOREM TypeCorrect == Spec => []TypeOK
<1> USE UpgradeAssumption
<1>1. Init => TypeOK
  BY InitType
<1>2. TypeOK /\ [Next]_vars => TypeOK'
  BY StepType
<1> QED BY <1>1, <1>2, PTL DEF Spec

-----------------------------------------------------------------------------
(* The order of an upgrade (no rollback, some pods still to recreate).      *)

Rolling == ~rollback /\ ~AllDone

\* The unit proved healthy on the new template.
Healthy(u) == u \in checked /\ pod[u] = template

\* The units 0 .. n - 1, the highest on top.
Lowest(n) == [i \in 1 .. n |-> i - 1]

\* A stack while all units are idle is that of a pre-upgrade-check with nothing done
\* since, but for a rollback that is still to reach the lower units.
IdleInv ==
    stack # <<>> /\ IsIdle =>
        /\ partition = Highest /\ stack = Lowest(N) /\ primary = 0
        /\ \/ AllDone /\ charmDue = {}
           \/ \A u \in Units : u < Highest => pod[u] # template

\* A pebble-ready hook that is about to write completed or failed runs on a unit
\* that started to upgrade or to recover.
VerdictInv ==
    \A u \in Units : verdict[u] # "none" =>
        /\ u \notin charmDue /\ state[u] \in {"upgrading", "recovery", "completed"}
        /\ u = Highest => verdict[u] = "completed"

\* What a unit that is still to be recreated says of itself; and one that completed.
StatesInv ==
    Rolling => \A u \in Units :
        /\ pod[u] # template =>
              /\ u \notin charmDue /\ verdict[u] = "none"
              /\ state[u] = "idle" \/ (state[u] = "recovery" /\ u \notin pebbleDue)
        /\ state[u] = "completed" \/ verdict[u] # "none" => Healthy(u) /\ u \notin charmDue

\* The recreated units, and how far the partition lets Kubernetes go.
TurnInv ==
    Rolling =>
        /\ \A u \in Units : pod[u] = template =>
              /\ \A v \in Units : v > u => Healthy(v)
              /\ u < Highest => resumed
        /\ partition < Highest => Healthy(partition + 1) /\ resumed
        /\ partition = Highest => \A u \in Units : u < Highest => pod[u] # template

\* Before resume-upgrade the stack tells whether the highest unit is done.
StackInv ==
    Rolling /\ partition = Highest /\ stack # <<>> =>
        stack = Lowest(N) \/ (stack = Lowest(N - 1) /\ state[Highest] = "completed")

\* The primary leaves unit 0 when unit 1 is done.
PrimaryInv == Rolling /\ primary # 0 => pod[1] = template

\* With one unit there is no order.
OrderInv ==
    N > 1 => IdleInv /\ VerdictInv /\ StatesInv /\ TurnInv /\ StackInv /\ PrimaryInv

\* What UpgradeRelationChanged and the end of a pebble-ready may do to the stack
\* before resume-upgrade, when none but the highest unit may be completed.
LEMMA StackPopped ==
    ASSUME UpgradeAssumption, TypeOK, N > 1, NEW st,
           \A u \in Units : st[u] = "completed" => u = Highest,
           stack = Lowest(N) \/ stack = Lowest(N - 1)
    PROVE  \/ Undone(st, stack) = stack
           \/ /\ stack = Lowest(N) /\ st[Highest] = "completed"
              /\ Undone(st, stack) = Lowest(N - 1)
<1>1. N \in Nat /\ stack \in Stacks
  BY UnitFacts, TypedIsTypeOK DEF Typed
<1>2. CASE stack = Lowest(N)
  <2>1. /\ stack # <<>> /\ Len(stack) = N /\ Last(stack) = Highest
        /\ stack[Len(stack) - 1] = N - 2 /\ N - 2 \in Units /\ N - 2 # Highest
    BY <1>1, <1>2 DEF Lowest, Last, Highest, Units
  <2>2. Front(stack) = Lowest(N - 1)
    BY <1>1, <1>2, <2>1 DEF Front, Lowest
  <2> QED BY <1>1, <1>2, <2>1, <2>2, UndoneOfTop
<1>3. CASE stack = Lowest(N - 1)
  <2>1. /\ stack # <<>> /\ Len(stack) = N - 1
        /\ Last(stack) = N - 2 /\ N - 2 \in Units /\ N - 2 # Highest
    BY <1>1, <1>3 DEF Lowest, Last, Highest, Units
  <2> QED BY <1>1, <2>1, UndoneOfTop
<1> QED BY <1>2, <1>3

\* A write of upgrade-relation-changed, or of a pebble-ready that was not deferred.
LEMMA ChangedWrites ==
    ASSUME TypeOK, NEW u \in Units, UpgradeRelationChanged(u)
    PROVE  /\ stack' \in {stack, Undone(state, stack)}
           /\ \A v \in Units :
                 \/ state'[v] = state[v]
                 \/ v = u /\ state[u] = "completed" /\ state'[u] = "idle" /\ stack' = <<>>
           /\ deps' = deps \/ stack' = <<>>
<1> DEFINE k == Known(state)
           r == OnUpgradeChanged(u, k)
<1>1. state \in [Units -> StateNames]
  BY TypedIsTypeOK DEF Typed
<1>2. k \in Knowledge /\ k.cache = stack /\ k.stack = stack /\ k.state = state /\ k.deps = deps
  BY <1>1, KnownType
<1> HIDE DEF k
<1>3. /\ r.stack \in {stack, Undone(state, stack)}
      /\ \A v \in Units :
            \/ r.state[v] = state[v]
            \/ v = u /\ state[u] = "completed" /\ r.state[v] = "idle" /\ r.stack = <<>>
      /\ r.deps = deps \/ r.stack = <<>>
  <2>0. k \in Knowledge
    BY <1>2
  <2>1. r.stack \in {k.stack, Undone(k.state, k.cache)}
    BY <2>0, OnUpgradeChangedType
  <2>2. ASSUME NEW v \in Units, r.state[v] # k.state[v]
        PROVE  v = u /\ k.state[u] = "completed" /\ r.state[v] = "idle" /\ r.stack = <<>>
    <3>1. \/ r.state[v] = k.state[v]
          \/ /\ v = u /\ k.state[u] = "completed" /\ r.state[v] = "idle"
             /\ k.cache = k.stack => r.stack = <<>>
      BY <2>0, OnUpgradeChangedType
    <3> HIDE DEF r
    <3> QED BY <1>2, <2>2, <3>1
  <2>3. r.deps = k.deps \/ (k.cache = k.stack => r.stack = <<>>)
    BY <2>0, OnUpgradeChangedType
  <2> HIDE DEF r
  <2> QED BY <1>2, <2>1, <2>2, <2>3
<1>4. state' = [state EXCEPT ![u] = r.state[u]] /\ stack' = r.stack /\ deps' = r.deps
  BY DEF UpgradeRelationChanged, Write, k
<1> HIDE DEF r
<1> QED BY <1>1, <1>3, <1>4

LEMMA PebbleReadyWrites ==
    ASSUME TypeOK, ~MayDefer, NEW u \in Units, PebbleReadyEnds(u)
    PROVE  /\ stack' \in {stack, Undone([state EXCEPT ![u] = "completed"], stack)}
           /\ \A v \in Units : v # u => state'[v] = state[v]
           /\ \/ state'[u] = "completed"
              \/ state'[u] = "failed" /\ verdict[u] = "failed"
              \/ state'[u] = "idle" /\ stack' = <<>>
           /\ deps' = deps \/ stack' = <<>>
<1> DEFINE st == [state EXCEPT ![u] = "completed"]
           k == Known(st)
           k1 == IF u = leader THEN OnUpgradeChanged(u, k) ELSE k
           k2 == IF verdict[u] = "failed"
                 THEN [k1 EXCEPT !.state[u] = "failed",
                                 !.cache = IF u = leader THEN k1.stack ELSE @]
                 ELSE k1
<1>1. state \in [Units -> StateNames] /\ st \in [Units -> StateNames] /\ st[u] = "completed"
  BY TypedIsTypeOK, StateNamesAre DEF Typed
<1>2. state' = [state EXCEPT ![u] = k2.state[u]] /\ stack' = k2.stack /\ deps' = k2.deps
  BY DEF PebbleReadyEnds, Write
<1> HIDE DEF st
<1>3. k \in Knowledge /\ k.cache = stack /\ k.stack = stack /\ k.state = st /\ k.deps = deps
  BY <1>1, KnownType
<1> HIDE DEF k
<1>4. /\ k1 \in Knowledge /\ k1.stack \in {stack, Undone(st, stack)}
      /\ k1.state[u] = "completed" \/ (k1.state[u] = "idle" /\ k1.stack = <<>>)
      /\ k1.deps = deps \/ k1.stack = <<>>
  BY <1>1, <1>3, OnUpgradeChangedType
<1> HIDE DEF k1
<1>5. /\ k2.stack = k1.stack /\ k2.deps = k1.deps
      /\ k2.state[u] = k1.state[u] \/ (k2.state[u] = "failed" /\ verdict[u] = "failed")
  BY <1>4 DEF Knowledge
<1> HIDE DEF k2
<1> QED BY <1>1, <1>2, <1>4, <1>5 DEF st

\* The conjuncts of the invariant for more than one unit.
Ordered == IdleInv /\ VerdictInv /\ StatesInv /\ TurnInv /\ StackInv /\ PrimaryInv

\* Kubernetes recreates the pod of a unit only in its turn.
LEMMA RecreatesInTurn ==
    ASSUME UpgradeAssumption, TypeOK, N > 1, Ordered, ~rollback,
           NEW u \in Units, RecreatePod(u)
    PROVE  /\ Rolling
           /\ \A v \in Units : v > u => Healthy(v)
           /\ u # Highest => resumed /\ partition = u
           /\ u = primary => \A v \in Units : v # u => pod[v] = template
<1> USE UnitFacts
<1>1. /\ pod[u] # template /\ u >= partition
      /\ \A v \in Units : v > u => pod[v] = template
  BY DEF RecreatePod
<1>2. Rolling
  BY <1>1 DEF Rolling, AllDone
<1>3. partition \in Units
  BY TypedIsTypeOK DEF Typed
<1>4. ASSUME u # Highest
      PROVE  /\ resumed /\ partition = u
             /\ \A v \in Units : v > u => Healthy(v)
  <2>1. partition < Highest /\ partition + 1 \in Units
    BY <1>1, <1>3, <1>4 DEF Units, Highest
  <2>2. Healthy(partition + 1) /\ resumed
    BY <1>2, <2>1 DEF Ordered, TurnInv
  <2>3. \A v \in Units : v > partition + 1 => Healthy(v)
    BY <1>2, <2>1, <2>2 DEF Ordered, TurnInv, Healthy
  <2>4. \A v \in Units : v > partition => Healthy(v)
    BY <1>3, <2>1, <2>2, <2>3
  <2>5. partition = u
    BY <1>1, <1>3, <2>4 DEF Healthy
  <2> QED BY <2>2, <2>4, <2>5
<1>5. ASSUME u = primary, NEW v \in Units, v # u
      PROVE  pod[v] = template
  <2>1. CASE u = 0
    BY <1>1, <1>5, <2>1
  <2>2. CASE u # 0
    <3>1. pod[1] = template /\ 1 \in Units
      BY <1>2, <1>5, <2>2 DEF Ordered, PrimaryInv, Units
    <3>2. u > 1
      BY <1>1, <2>2, <3>1
    <3> QED BY <1>1, <1>2, <3>1, <3>2 DEF Ordered, TurnInv, Healthy
  <2> QED BY <2>1, <2>2
<1> QED BY <1>1, <1>2, <1>4, <1>5

LEMMA RecreatePodOrder ==
    ASSUME UpgradeAssumption, TypeOK, TypeOK', N > 1, Ordered, NEW u \in Units, RecreatePod(u)
    PROVE  Ordered'
<1> USE UnitFacts DEF databags
<1>0. /\ Typed /\ Typed'
      /\ pod' = [pod EXCEPT ![u] = template]
      /\ charmDue' = charmDue \cup {u} /\ pebbleDue' = pebbleDue \cup {u}
      /\ verdict' = [verdict EXCEPT ![u] = "none"] /\ checked' = checked \ {u}
      /\ UNCHANGED <<state, stack, template, partition, resumed, rollback>>
      /\ pod[u] # template
  BY TypedIsTypeOK, TypedIsTypeOKNext DEF RecreatePod
<1>1. /\ pod'[u] = template /\ verdict'[u] = "none"
      /\ \A v \in Units : v # u => /\ pod'[v] = pod[v] /\ verdict'[v] = verdict[v]
                                   /\ Healthy(v)' = Healthy(v)
                                   /\ v \in charmDue' <=> v \in charmDue
                                   /\ v \in pebbleDue' <=> v \in pebbleDue
      /\ u \in Int /\ partition \in Int
  BY <1>0 DEF Typed, Healthy
<1>2. IdleInv'
  <2> SUFFICES ASSUME stack # <<>>, IsIdle
               PROVE  /\ partition = Highest /\ stack = Lowest(N) /\ primary' = 0
                      /\ \A v \in Units : v < Highest => pod'[v] # template
    BY <1>0 DEF IdleInv, IsIdle, Lowest, Highest
  <2>1. /\ partition = Highest /\ stack = Lowest(N) /\ primary = 0
        /\ \A v \in Units : v < Highest => pod[v] # template
    BY <1>0 DEF Ordered, IdleInv, AllDone
  <2>2. u = Highest /\ u # primary
    BY <1>1, <2>1 DEF RecreatePod, Highest
  <2> QED BY <1>0, <1>1, <2>1, <2>2 DEF RecreatePod
<1>3. VerdictInv'
  BY <1>0, <1>1 DEF Ordered, VerdictInv
<1>4. ASSUME Rolling'
      PROVE  StatesInv' /\ TurnInv' /\ StackInv' /\ PrimaryInv'
  <2>1. /\ ~rollback /\ Rolling
        /\ \A v \in Units : v > u => Healthy(v)
        /\ u # Highest => resumed /\ partition = u
        /\ u = primary => \A v \in Units : v # u => pod[v] = template
    BY <1>0, <1>4, RecreatesInTurn DEF Rolling
  <2>2. StatesInv'
    <3>1. state[u] # "completed"
      BY <1>0, <2>1 DEF Ordered, StatesInv
    <3> QED BY <1>0, <1>1, <2>1, <3>1 DEF Ordered, StatesInv
  <2>3. TurnInv'
    <3>1. ASSUME NEW v \in Units, pod'[v] = template
          PROVE  /\ \A w \in Units : w > v => Healthy(w)'
                 /\ v < Highest => resumed
      <4>1. CASE v = u
        BY <1>1, <2>1, <4>1
      <4>2. CASE v # u
        <5>1. pod[v] = template
          BY <1>1, <3>1, <4>2
        <5>2. /\ \A w \in Units : w > v => Healthy(w)
              /\ v < Highest => resumed
          BY <2>1, <5>1 DEF Ordered, TurnInv
        <5>3. ~Healthy(u)
          BY <1>0 DEF Healthy
        <5> QED BY <1>1, <5>2, <5>3
      <4> QED BY <4>1, <4>2
    <3>2. partition < Highest => Healthy(partition + 1)' /\ resumed
      <4>1. partition < Highest => Healthy(partition + 1) /\ resumed /\ partition + 1 \in Units
        <5>1. partition < Highest => Healthy(partition + 1) /\ resumed
          BY <2>1 DEF Ordered, TurnInv
        <5>2. partition \in Units
          BY <1>0 DEF Typed
        <5>3. partition < Highest => partition + 1 \in Units
          BY <5>2 DEF Units, Highest
        <5> QED BY <5>1, <5>3
      <4>2. ~Healthy(u)
        BY <1>0 DEF Healthy
      <4>3. (partition + 1)' = partition + 1
        BY <1>0
      <4> QED BY <1>0, <1>1, <4>1, <4>2, <4>3 DEF Healthy
    <3>3. ASSUME partition = Highest, NEW v \in Units, v < Highest
          PROVE  pod'[v] # template
      <4>1. u = Highest /\ v # u
        BY <1>1, <3>3 DEF RecreatePod, Highest
      <4>2. pod[v] # template
        BY <2>1, <3>3 DEF Ordered, TurnInv
      <4> QED BY <1>1, <4>1, <4>2
    <3> QED BY <1>0, <3>1, <3>2, <3>3 DEF TurnInv, Highest, Healthy
  <2>4. StackInv'
    <3>1. partition = Highest => u = Highest
      BY <1>1 DEF RecreatePod, Highest
    <3>2. partition = Highest => state[Highest] # "completed"
      BY <1>0, <2>1, <3>1 DEF Ordered, StatesInv
    <3> QED BY <1>0, <2>1, <3>2 DEF Ordered, StackInv, Lowest, Highest
  <2>5. PrimaryInv'
    <3>1. 1 \in Units
      BY DEF Units
    <3> QED BY <1>0, <1>1, <2>1, <3>1 DEF Ordered, PrimaryInv, RecreatePod, Typed
  <2> QED BY <2>2, <2>3, <2>4, <2>5
<1> QED BY <1>2, <1>3, <1>4 DEF Ordered, StatesInv, TurnInv, StackInv, PrimaryInv

\* The state of the cluster is one that a unit has.
LEMMA ClusterStateIsOne ==
    ASSUME UpgradeAssumption, NEW st \in [Units -> StateNames]
    PROVE  \E u \in Units : st[u] = ClusterState(st)
<1>1. /\ DOMAIN States = 1 .. 5
      /\ States[1] = "recovery" /\ States[2] = "failed" /\ States[3] = "idle"
      /\ States[4] = "upgrading" /\ States[5] = "completed"
  BY DEF States
<1>2. \A i \in 1 .. 5 : i = 1 \/ i = 2 \/ i = 3 \/ i = 4 \/ i = 5
  OBVIOUS
<1>3. /\ StateIndex("recovery") = 1 /\ StateIndex("failed") = 2 /\ StateIndex("idle") = 3
      /\ StateIndex("upgrading") = 4 /\ StateIndex("completed") = 5
  BY <1>1, <1>2 DEF StateIndex
<1>4. \A u \in Units : st[u] \in {"recovery", "failed", "idle", "upgrading", "completed"}
  BY StateNamesAre
<1>5. \E s \in {st[u] : u \in Units} : \A v \in Units : StateIndex(s) <= StateIndex(st[v])
  <2>1. CASE \E u \in Units : st[u] = "recovery"
    BY <1>3, <1>4, <2>1
  <2>2. CASE (\A u \in Units : st[u] # "recovery") /\ \E u \in Units : st[u] = "failed"
    BY <1>3, <1>4, <2>2
  <2>3. CASE /\ \A u \in Units : st[u] \notin {"recovery", "failed"}
             /\ \E u \in Units : st[u] = "idle"
    BY <1>3, <1>4, <2>3
  <2>4. CASE /\ \A u \in Units : st[u] \notin {"recovery", "failed", "idle"}
             /\ \E u \in Units : st[u] = "upgrading"
    BY <1>3, <1>4, <2>4
  <2>5. CASE \A u \in Units : st[u] = "completed"
    BY <1>3, <2>5, UnitFacts
  <2> QED BY <1>4, <2>1, <2>2, <2>3, <2>4, <2>5
<1> QED BY <1>5 DEF ClusterState

LEMMA OperatorOrder ==
    ASSUME UpgradeAssumption, TypeOK, TypeOK', ~MayRepeat, N > 1, Ordered, Operator
    PROVE  Ordered'
<1> USE UnitFacts DEF databags, kubernetes, due, counters, history
<1>0. Typed /\ Typed'
  BY TypedIsTypeOK, TypedIsTypeOKNext
<1>1. CASE PreUpgradeCheck
  <2>1. AllDone /\ charmDue = {} /\ IsIdle
    BY <1>1 DEF PreUpgradeCheck, AllDone
  <2>2. /\ partition' = Highest /\ primary' = 0
        /\ UNCHANGED <<pod, template, charmDue, pebbleDue, verdict, checked, resumed, rollback>>
    BY <1>1 DEF PreUpgradeCheck, FirstPartition, UnitZeroPrimary
  <2> DEFINE k == [Known(state) EXCEPT !.stack = [i \in 1 .. N |-> i - 1]]
  <2>3. k.state = state /\ k.stack = [i \in 1 .. N |-> i - 1]
    BY DEF Known
  <2>4. state' = [state EXCEPT ![leader] = k.state[leader]] /\ stack' = k.stack
    BY <1>1 DEF PreUpgradeCheck, Write
  <2> HIDE DEF k
  <2>5. state' = state /\ stack' = Lowest(N)
    BY <1>0, <2>3, <2>4 DEF Typed, Lowest
  <2>6. AllDone'
    BY <2>1, <2>2 DEF AllDone
  <2>7. IdleInv'
    BY <2>1, <2>2, <2>5, <2>6 DEF IdleInv, Highest, Lowest
  <2>8. VerdictInv'
    BY <2>2, <2>5 DEF Ordered, VerdictInv
  <2> QED BY <2>6, <2>7, <2>8 DEF Ordered, Rolling, StatesInv, TurnInv, StackInv, PrimaryInv
<1>2. CASE EnterRecovery
  <2>1. PICK s \in Repaired :
           Write(leader, [Known([state EXCEPT ![leader] = "recovery"]) EXCEPT !.stack = s], FALSE)
    BY <1>2 DEF EnterRecovery
  <2> DEFINE st == [state EXCEPT ![leader] = "recovery"]
             k == [Known(st) EXCEPT !.stack = s]
  <2>2. k.state = st /\ k.stack = s
    BY DEF Known
  <2>3. state' = [state EXCEPT ![leader] = k.state[leader]] /\ stack' = k.stack
    BY <2>1 DEF Write
  <2> HIDE DEF k
  <2>4. state' = st /\ stack' = s
    BY <1>0, <2>2, <2>3 DEF Typed
  <2>5. /\ charmDue = {} /\ pebbleDue = {} /\ verdict[leader] = "none"
        /\ UNCHANGED <<pod, template, partition, primary, charmDue, pebbleDue, verdict,
                       checked, resumed, rollback>>
    BY <1>2 DEF EnterRecovery, Free
  <2>6. IdleInv'
    BY <1>0, <2>4 DEF IdleInv, IsIdle, Typed
  <2>7. VerdictInv'
    BY <1>0, <2>4, <2>5 DEF Ordered, VerdictInv, Typed
  <2>8. Rolling' = Rolling /\ \A v \in Units : Healthy(v)' = Healthy(v)
    BY <2>5 DEF Rolling, AllDone, Healthy
  <2>9. StatesInv'
    BY <1>0, <2>4, <2>5, <2>8 DEF Ordered, StatesInv, Typed
  <2>10. TurnInv' /\ PrimaryInv'
    BY <2>5, <2>8 DEF Ordered, TurnInv, PrimaryInv, Highest, Healthy
  <2>11. ASSUME Rolling, partition = Highest, stack # <<>>
         PROVE  stack = Lowest(N) /\ s = stack
    <3>1. PICK u \in Units : state[u] = "failed"
      BY <1>0, <1>2, ClusterStateIsOne DEF EnterRecovery, Typed
    <3>2. u = Highest
      BY <2>11, <3>1 DEF Ordered, StatesInv, TurnInv
    <3>3. stack = Lowest(N)
      BY <2>11, <3>1, <3>2 DEF Ordered, StackInv
    <3>4. Range(stack) = Units
      <4>1. DOMAIN stack = 1 .. N /\ \A i \in 1 .. N : stack[i] = i - 1
        BY <3>3 DEF Lowest
      <4>2. \A u1 \in 0 .. N - 1 : u1 + 1 \in 1 .. N /\ stack[u1 + 1] = u1
        BY <4>1
      <4>3. \A i \in 1 .. N : stack[i] \in 0 .. N - 1
        BY <4>1
      <4>4. Range(stack) = {stack[i] : i \in 1 .. N}
        BY <4>1 DEF Range
      <4>5. {stack[i] : i \in 1 .. N} = 0 .. N - 1
        BY <4>2, <4>3
      <4> QED BY <4>4, <4>5 DEF Units
    <3>5. Units \ Range(stack) = {}
      BY <3>4
    <3> QED BY <3>3, <3>5 DEF Repaired
  <2>12. StackInv'
    <3>1. stack = <<>> => s = stack
      BY DEF Repaired
    <3>2. stack' # <<>> => stack # <<>>
      BY <2>4, <3>1
    <3>3. Rolling' /\ partition' = Highest /\ stack' # <<>> => stack' = Lowest(N)
      BY <2>4, <2>5, <2>8, <2>11, <3>2
    <3> QED BY <3>3 DEF StackInv, Highest, Lowest
  <2> QED BY <2>6, <2>7, <2>9, <2>10, <2>12 DEF Ordered
<1>3. CASE ResumeUpgrade
  <2>1. /\ partition = Highest /\ stack # <<>> /\ Len(stack) = N - 1
        /\ partition' = Last(stack) /\ resumed' = TRUE
        /\ UNCHANGED <<state, stack, template, pod, primary, charmDue, pebbleDue, verdict,
                       checked, rollback>>
    BY <1>3 DEF ResumeUpgrade
  <2>2. ~IsIdle
    <3>1. Len(Lowest(N)) = N
      BY DEF Lowest
    <3> QED BY <2>1, <3>1 DEF Ordered, IdleInv
  <2>3. IdleInv' /\ VerdictInv'
    BY <2>1, <2>2 DEF Ordered, IdleInv, IsIdle, VerdictInv
  <2>4. Rolling' = Rolling /\ \A v \in Units : Healthy(v)' = Healthy(v)
    BY <2>1 DEF Rolling, AllDone, Healthy
  <2>5. StatesInv' /\ PrimaryInv'
    BY <2>1, <2>4 DEF Ordered, StatesInv, PrimaryInv
  <2>6. ASSUME Rolling
        PROVE  TurnInv' /\ StackInv'
    <3>1. Len(Lowest(N)) = N /\ Last(Lowest(N - 1)) = N - 2
      BY DEF Lowest, Last
    <3>2. stack = Lowest(N - 1) /\ Healthy(Highest)
      BY <2>1, <2>6, <3>1 DEF Ordered, StackInv, StatesInv
    <3>3. partition' = N - 2 /\ partition' + 1 = Highest /\ partition' # Highest
      BY <2>1, <3>1, <3>2 DEF Highest
    <3>4. StackInv'
      BY <3>3 DEF StackInv, Highest
    <3>5. Healthy(partition + 1)'
      BY <2>1, <3>2, <3>3 DEF Healthy
    <3>6. \A u \in Units : pod[u] = template => \A v \in Units : v > u => Healthy(v)
      BY <2>6 DEF Ordered, TurnInv
    <3> QED BY <2>1, <2>4, <3>3, <3>4, <3>5, <3>6 DEF TurnInv, Highest
  <2> QED BY <2>3, <2>4, <2>5, <2>6 DEF Ordered, TurnInv, StackInv
<1>4. CASE Refresh
  <2>1. /\ template' = template + 1 /\ resumed' = FALSE
        /\ UNCHANGED <<state, stack, pod, partition, primary, charmDue, pebbleDue, verdict,
                       checked>>
        /\ rollback' \/ (IsIdle /\ stack # <<>> /\ AllDone)
    BY <1>4 DEF Refresh, AllDone
  <2>2. \A u \in Units : pod'[u] # template'
    BY <1>0, <2>1 DEF Typed
  <2>3. IdleInv'
    BY <2>1, <2>2 DEF Ordered, IdleInv, IsIdle, Highest, Lowest
  <2>4. VerdictInv'
    BY <2>1 DEF Ordered, VerdictInv
  <2>5. ASSUME ~rollback'
        PROVE  StatesInv' /\ TurnInv' /\ StackInv' /\ PrimaryInv'
    <3>1. /\ IsIdle /\ AllDone /\ partition = Highest /\ stack = Lowest(N) /\ primary = 0
          /\ charmDue = {}
      <4>1. 0 < Highest
        BY DEF Highest
      <4> QED BY <2>1, <2>5, <4>1 DEF Ordered, IdleInv, AllDone
    <3>2. \A u \in Units : verdict[u] = "none"
      BY <3>1 DEF Ordered, VerdictInv, IsIdle
    <3> QED BY <2>1, <2>2, <3>1, <3>2
            DEF StatesInv, TurnInv, StackInv, PrimaryInv, IsIdle, Highest, Lowest
  <2> QED BY <2>3, <2>4, <2>5 DEF Ordered, Rolling, StatesInv, TurnInv, StackInv, PrimaryInv
<1> QED BY <1>1, <1>2, <1>3, <1>4 DEF Operator

\* The steps that write states and leave pods, partition and verdicts of others alone.
LEMMA UpgradeRelationChangedOrder ==
    ASSUME UpgradeAssumption, TypeOK, TypeOK', N > 1, Ordered,
           NEW u \in Units, UpgradeRelationChanged(u)
    PROVE  Ordered'
<1> USE UnitFacts DEF kubernetes, history
<1>0. /\ Typed /\ Typed' /\ verdict[u] = "none" /\ u \notin charmDue
      /\ UNCHANGED <<pod, template, partition, primary, charmDue, pebbleDue, verdict,
                     checked, resumed, rollback>>
  BY TypedIsTypeOK, TypedIsTypeOKNext DEF UpgradeRelationChanged, Free
<1>1. /\ stack' \in {stack, Undone(state, stack)}
      /\ \A v \in Units :
            \/ state'[v] = state[v]
            \/ v = u /\ state[u] = "completed" /\ state'[u] = "idle" /\ stack' = <<>>
  BY ChangedWrites
<1>2. Rolling' = Rolling /\ \A v \in Units : Healthy(v)' = Healthy(v)
  BY <1>0 DEF Rolling, AllDone, Healthy
<1>3. IdleInv'
  <2>1. SUFFICES ASSUME stack' # <<>>, IsIdle'
                 PROVE  stack' = stack /\ stack # <<>> /\ IsIdle
    BY <1>0, <2>1 DEF Ordered, IdleInv, AllDone, Highest, Lowest
  <2>2. IsIdle
    BY <1>1, <2>1 DEF IsIdle
  <2>3. stack \in Stacks
    BY <1>0 DEF Typed
  <2>4. stack # <<>>
    <3>1. SUFFICES ASSUME stack = <<>>
                   PROVE  Undone(state, stack) = <<>>
      BY <1>1, <2>1
    <3> QED BY <2>3, <3>1, UndoneOfNone
  <2>5. Last(stack) \in Units
    BY <2>3, <2>4 DEF Last, Stacks
  <2>6. state[Last(stack)] # "completed"
    BY <2>2, <2>5 DEF IsIdle
  <2> QED BY <1>1, <2>2, <2>3, <2>4, <2>6, UndoneOfTop
<1>4. VerdictInv'
  BY <1>0, <1>1 DEF Ordered, VerdictInv, Highest
<1>5. StatesInv'
  BY <1>0, <1>1, <1>2 DEF Ordered, StatesInv
<1>6. TurnInv' /\ PrimaryInv'
  BY <1>0, <1>2 DEF Ordered, TurnInv, PrimaryInv, Highest, Healthy
<1>7. StackInv'
  <2>1. SUFFICES ASSUME Rolling, partition = Highest, stack' # <<>>
                 PROVE  stack' = Lowest(N) \/ (stack' = Lowest(N - 1) /\ state'[Highest] = "completed")
    BY <1>0, <1>2 DEF StackInv, Highest, Lowest
  <2>2. state'[Highest] = state[Highest]
    BY <1>1, <2>1
  <2>3. stack # <<>>
    <3>1. stack \in Stacks
      BY <1>0 DEF Typed
    <3>2. stack = <<>> => Undone(state, stack) = <<>>
      BY <3>1, UndoneOfNone
    <3> QED BY <1>1, <2>1, <3>2
  <2>4. stack = Lowest(N) \/ (stack = Lowest(N - 1) /\ state[Highest] = "completed")
    BY <2>1, <2>3 DEF Ordered, StackInv
  <2>5. \A v \in Units : state[v] = "completed" => v = Highest
    BY <2>1 DEF Ordered, StatesInv, TurnInv, Healthy
  <2> QED BY <1>1, <2>2, <2>4, <2>5, StackPopped
<1> QED BY <1>3, <1>4, <1>5, <1>6, <1>7 DEF Ordered

LEMMA PebbleReadyEndsOrder ==
    ASSUME UpgradeAssumption, TypeOK, TypeOK', ~MayDefer, N > 1, Ordered,
           NEW u \in Units, PebbleReadyEnds(u)
    PROVE  Ordered'
<1> USE UnitFacts DEF kubernetes, history
<1>0. /\ Typed /\ Typed' /\ verdict[u] # "none"
      /\ verdict' = [verdict EXCEPT ![u] = "none"] /\ pebbleDue' = pebbleDue \ {u}
      /\ UNCHANGED <<pod, template, partition, primary, charmDue, checked, resumed, rollback>>
  BY TypedIsTypeOK, TypedIsTypeOKNext DEF PebbleReadyEnds
<1> DEFINE st == [state EXCEPT ![u] = "completed"]
<1>1. /\ stack' \in {stack, Undone(st, stack)}
      /\ \A v \in Units : v # u => state'[v] = state[v]
      /\ \/ state'[u] = "completed"
         \/ state'[u] = "failed" /\ verdict[u] = "failed"
         \/ state'[u] = "idle" /\ stack' = <<>>
  BY PebbleReadyWrites
<1>2. Rolling' = Rolling /\ \A v \in Units : Healthy(v)' = Healthy(v)
  BY <1>0 DEF Rolling, AllDone, Healthy
<1>3. IdleInv'
  BY <1>1 DEF IdleInv, IsIdle
<1>4. VerdictInv'
  BY <1>0, <1>1 DEF Ordered, VerdictInv, Highest, Typed
<1>5. StatesInv'
  <2> SUFFICES ASSUME Rolling
               PROVE  StatesInv'
    BY <1>2 DEF StatesInv
  <2>1. Healthy(u) /\ u \notin charmDue /\ pod[u] = template
    BY <1>0 DEF Ordered, StatesInv, Healthy
  <2> QED BY <1>0, <1>1, <1>2, <2>1 DEF Ordered, StatesInv, Typed
<1>6. TurnInv' /\ PrimaryInv'
  BY <1>0, <1>2 DEF Ordered, TurnInv, PrimaryInv, Highest, Healthy
<1>7. StackInv'
  <2>1. SUFFICES ASSUME Rolling, partition = Highest, stack' # <<>>
                 PROVE  stack' = Lowest(N) \/ (stack' = Lowest(N - 1) /\ state'[Highest] = "completed")
    BY <1>0, <1>2 DEF StackInv, Highest, Lowest
  <2>2. u = Highest /\ verdict[u] = "completed"
    BY <1>0, <2>1 DEF Ordered, VerdictInv, StatesInv, TurnInv, Healthy
  <2>3. state'[Highest] = "completed"
    BY <1>1, <2>1, <2>2
  <2>4. stack # <<>>
    <3>1. stack \in Stacks
      BY <1>0 DEF Typed
    <3>2. stack = <<>> => Undone(st, stack) = <<>>
      BY <3>1, UndoneOfNone
    <3> QED BY <1>1, <2>1, <3>2
  <2>5. stack = Lowest(N) \/ stack = Lowest(N - 1)
    BY <2>1, <2>4 DEF Ordered, StackInv
  <2>6. \A v \in Units : st[v] = "completed" => v = Highest
    <3>1. \A v \in Units : state[v] = "completed" => v = Highest
      BY <2>1 DEF Ordered, StatesInv, TurnInv, Healthy
    <3>2. \A v \in Units : v # u => st[v] = state[v]
      BY <1>0 DEF Typed
    <3> QED BY <2>2, <3>1, <3>2
  <2> QED BY <1>1, <2>3, <2>5, <2>6, StackPopped
<1> QED BY <1>3, <1>4, <1>5, <1>6, <1>7 DEF Ordered

\* A unit that starts to upgrade, or fails, before it completed.
LEMMA StartsOrder ==
    ASSUME UpgradeAssumption, TypeOK, TypeOK', N > 1, Ordered,
           NEW u \in Units, UpgradeCharm(u) \/ Unhealthy(u)
    PROVE  Ordered'
<1> USE UnitFacts DEF kubernetes, history, databags
<1>0. /\ Typed /\ Typed'
      /\ charmDue' = charmDue \ {u} \/ (charmDue' = charmDue /\ u \notin charmDue)
      /\ pebbleDue' \subseteq pebbleDue
      /\ UNCHANGED <<pod, template, partition, primary, verdict, checked, resumed, rollback>>
  BY TypedIsTypeOK, TypedIsTypeOKNext DEF UpgradeCharm, Unhealthy, Free
<1>1. /\ verdict[u] = "none"
      /\ state[u] = "completed" => u \in charmDue
      /\ Rolling => pod[u] = template
  BY DEF UpgradeCharm, Unhealthy, Free, Ordered, VerdictInv, StatesInv
<1>2. /\ stack' = stack
      /\ \/ stack = <<>> /\ state' = state
         \/ \E x \in {"upgrading", "failed"} : state' = [state EXCEPT ![u] = x]
  <2>1. ASSUME NEW x \in {"upgrading", "failed"}, Write(u, Known([state EXCEPT ![u] = x]), FALSE)
        PROVE  stack' = stack /\ state' = [state EXCEPT ![u] = x]
    <3>1. [state EXCEPT ![u] = x] \in [Units -> StateNames] /\ [state EXCEPT ![u] = x][u] = x
      BY <1>0, StateNamesAre DEF Typed
    <3>2. /\ Known([state EXCEPT ![u] = x]).state = [state EXCEPT ![u] = x]
          /\ Known([state EXCEPT ![u] = x]).stack = stack
      BY <3>1, KnownType
    <3>3. /\ state' = [state EXCEPT ![u] = Known([state EXCEPT ![u] = x]).state[u]]
          /\ stack' = Known([state EXCEPT ![u] = x]).stack
      BY <2>1 DEF Write
    <3> QED BY <3>1, <3>2, <3>3
  <2>2. \/ stack = <<>> /\ UNCHANGED databags
        \/ \E x \in {"upgrading", "failed"} : Write(u, Known([state EXCEPT ![u] = x]), FALSE)
    BY DEF UpgradeCharm, Unhealthy
  <2> QED BY <2>1, <2>2
<1>3. Rolling' = Rolling /\ \A v \in Units : Healthy(v)' = Healthy(v)
  BY <1>0 DEF Rolling, AllDone, Healthy
<1>4. IdleInv'
  <2>1. CASE stack = <<>>
    BY <1>2, <2>1 DEF IdleInv
  <2>2. CASE \E x \in {"upgrading", "failed"} : state' = [state EXCEPT ![u] = x]
    BY <1>0, <2>2 DEF IdleInv, IsIdle, Typed
  <2> QED BY <1>2, <2>1, <2>2
<1>5. \A v \in Units : v # u => state'[v] = state[v]
  BY <1>0, <1>2 DEF Typed
<1>6. state'[u] = state[u] \/ state'[u] \in {"upgrading", "failed"}
  BY <1>0, <1>2 DEF Typed
<1>7. VerdictInv'
  BY <1>0, <1>1, <1>5 DEF Ordered, VerdictInv, Highest
<1>8. StatesInv'
  BY <1>0, <1>1, <1>3, <1>5, <1>6 DEF Ordered, StatesInv
<1>9. TurnInv' /\ PrimaryInv'
  BY <1>0, <1>3 DEF Ordered, TurnInv, PrimaryInv, Highest, Healthy
<1>10. StackInv'
  <2>1. SUFFICES ASSUME Rolling, partition = Highest, stack = Lowest(N - 1),
                        state[Highest] = "completed"
                 PROVE  u # Highest
    BY <1>0, <1>2, <1>3, <1>5 DEF Ordered, StackInv, Highest, Lowest
  <2>2. Highest \notin charmDue
    BY <2>1 DEF Ordered, StatesInv
  <2> QED BY <1>1, <2>1, <2>2
<1> QED BY <1>4, <1>7, <1>8, <1>9, <1>10 DEF Ordered

\* A unit that was found healthy lowers the partition for the one below it.
LEMMA CompletesOrder ==
    ASSUME UpgradeAssumption, TypeOK, TypeOK', N > 1, Ordered,
           NEW u \in Units, HealthCheck(u) \/ Restarted(u)
    PROVE  Ordered'
<1> USE UnitFacts DEF kubernetes, history, databags, due
<1>0. /\ Typed /\ Typed' /\ Complete(u)
      /\ checked' = checked \cup {u} \/ checked' = checked
      /\ UNCHANGED <<state, stack, pod, template, charmDue, pebbleDue, resumed, rollback>>
      /\ u \notin charmDue /\ state[u] \in {"upgrading", "recovery", "completed"}
  BY TypedIsTypeOK, TypedIsTypeOKNext DEF HealthCheck, Restarted, Free
<1>1. /\ \A v \in Units : v # u => verdict'[v] = verdict[v]
      /\ verdict'[u] = "completed" \/ (verdict'[u] = "failed" /\ Lowers(u))
      /\ partition' = partition \/ (Lowers(u) /\ partition' = u - 1)
  BY <1>0 DEF Complete, Typed
<1>2. ~IsIdle
  BY <1>0 DEF IsIdle
<1>3. Rolling' = Rolling /\ \A v \in Units : Healthy(v) => Healthy(v)'
  BY <1>0 DEF Rolling, AllDone, Healthy
<1>4. IdleInv'
  BY <1>0, <1>2 DEF IdleInv, IsIdle
<1>5. VerdictInv'
  BY <1>0, <1>1 DEF Ordered, VerdictInv, Lowers, Highest
<1>6. ASSUME Rolling
      PROVE  StatesInv' /\ TurnInv' /\ StackInv' /\ PrimaryInv'
  <2>1. pod[u] = template
    <3>1. CASE HealthCheck(u)
      BY <1>6, <3>1 DEF HealthCheck, Ordered, StatesInv
    <3>2. CASE Restarted(u)
      BY <1>6, <3>2 DEF Restarted, Ordered, StatesInv, Healthy
    <3> QED BY <3>1, <3>2
  <2>2. Healthy(u)'
    <3>1. CASE HealthCheck(u)
      BY <1>0, <2>1, <3>1 DEF HealthCheck, Healthy
    <3>2. CASE Restarted(u)
      BY <1>3, <1>6, <3>2 DEF Restarted, Ordered, StatesInv
    <3> QED BY <3>1, <3>2
  <2>3. u < Highest => resumed
    BY <1>6, <2>1 DEF Ordered, TurnInv
  <2>4. StatesInv'
    BY <1>0, <1>1, <1>3, <1>6, <2>1, <2>2 DEF Ordered, StatesInv
  <2>5. TurnInv'
    <3>1. \A v \in Units : pod'[v] = template' =>
              /\ \A w \in Units : w > v => Healthy(w)'
              /\ v < Highest => resumed'
      BY <1>0, <1>3, <1>6 DEF Ordered, TurnInv
    <3>2. CASE partition' = partition
      <4>1. partition < Highest => Healthy(partition + 1)' /\ resumed
        <5>1. partition < Highest => partition + 1 \in Units
          BY <1>0 DEF Typed, Units, Highest
        <5>2. (partition + 1)' = partition + 1
          BY <3>2
        <5> QED BY <1>0, <1>6, <5>1, <5>2 DEF Ordered, TurnInv, Healthy
      <4>2. partition = Highest => \A v \in Units : v < Highest => pod[v] # template
        BY <1>6 DEF Ordered, TurnInv
      <4> QED BY <1>0, <3>1, <3>2, <4>1, <4>2 DEF TurnInv, Highest
    <3>3. CASE Lowers(u) /\ partition' = u - 1
      <4>1. /\ (partition + 1)' = u /\ partition' # Highest /\ u # Highest /\ u < Highest
        BY <3>3 DEF Lowers
      <4>2. Healthy(partition + 1)'
        BY <2>2, <4>1 DEF Healthy
      <4> QED BY <1>0, <2>3, <3>1, <4>1, <4>2 DEF TurnInv, Highest
    <3> QED BY <1>1, <3>2, <3>3
  <2>6. StackInv'
    <3>1. partition' = Highest => partition = Highest
      BY <1>1 DEF Lowers
    <3> QED BY <1>0, <1>6, <3>1 DEF Ordered, StackInv, Highest, Lowest
  <2>7. PrimaryInv'
    <3>1. primary' = primary \/ u = 1
      BY DEF HealthCheck, Restarted, LabelChange
    <3> QED BY <1>0, <1>6, <2>1, <3>1 DEF Ordered, PrimaryInv
  <2> QED BY <2>4, <2>5, <2>6, <2>7
<1> QED BY <1>3, <1>4, <1>5, <1>6 DEF Ordered, StatesInv, TurnInv, StackInv, PrimaryInv

LEMMA RestOrder ==
    ASSUME UpgradeAssumption, TypeOK, TypeOK', N > 1, Ordered,
           \/ UNCHANGED vars
           \/ \E u \in Units : PebbleReadyCrashes(u) \/ PebbleReadyIgnored(u) \/ Elect(u)
    PROVE  Ordered'
<1> USE DEF kubernetes, history, databags, due
<1>0. /\ Typed
      /\ pebbleDue' \subseteq pebbleDue
      /\ verdict' = verdict \/ \E u \in Units : verdict' = [verdict EXCEPT ![u] = "none"]
      /\ UNCHANGED <<state, stack, pod, template, partition, primary, charmDue, checked,
                     resumed, rollback>>
  BY TypedIsTypeOK DEF vars, PebbleReadyCrashes, PebbleReadyIgnored, Elect
<1>1. \A u \in Units : verdict'[u] \in {verdict[u], "none"}
  BY <1>0 DEF Typed
<1>2. Rolling' = Rolling /\ \A v \in Units : Healthy(v)' = Healthy(v)
  BY <1>0 DEF Rolling, AllDone, Healthy
<1>3. IdleInv'
  BY <1>0 DEF Ordered, IdleInv, IsIdle, AllDone, Highest, Lowest
<1>4. VerdictInv'
  BY <1>0, <1>1 DEF Ordered, VerdictInv, Highest
<1>5. StatesInv'
  BY <1>0, <1>1, <1>2 DEF Ordered, StatesInv
<1>6. TurnInv' /\ StackInv' /\ PrimaryInv'
  BY <1>0, <1>2 DEF Ordered, TurnInv, StackInv, PrimaryInv, Highest, Lowest, Healthy
<1> QED BY <1>3, <1>4, <1>5, <1>6 DEF Ordered

LEMMA StepOrder ==
    ASSUME UpgradeAssumption, ~MayRepeat, ~MayDefer, TypeOK, OrderInv, [Next]_vars
    PROVE  OrderInv'
<1> SUFFICES ASSUME N > 1
             PROVE  Ordered'
  BY DEF OrderInv, Ordered
<1>1. TypeOK' /\ Ordered
  BY StepType DEF OrderInv, Ordered
<1> QED BY <1>1, OperatorOrder, UpgradeRelationChangedOrder, PebbleReadyEndsOrder, StartsOrder,
           CompletesOrder, RecreatePodOrder, RestOrder
        DEF Next, Unit

LEMMA OrderInvariant ==
    ASSUME ~MayRepeat, ~MayDefer
    PROVE  Spec => [](TypeOK /\ OrderInv)
<1> USE UpgradeAssumption
<1>1. Init => TypeOK /\ OrderInv
  <2>1. ASSUME Init
        PROVE  OrderInv
    <3>1. AllDone
      BY <2>1 DEF Init, AllDone
    <3> QED BY <2>1, <3>1 DEF Init, OrderInv, Ordered, IdleInv, VerdictInv, StatesInv, TurnInv,
                              StackInv, PrimaryInv, Rolling
  <2> QED BY <2>1, InitType
<1>2. TypeOK /\ OrderInv /\ [Next]_vars => TypeOK' /\ OrderInv'
  BY StepType, StepOrder
<1> QED BY <1>1, <1>2, PTL DEF Spec

\* Only Kubernetes changes the template of a pod.
LEMMA OnlyRecreated ==
    ASSUME UpgradeAssumption, TypeOK, [Next]_vars, NEW u \in Units, pod'[u] # pod[u]
    PROVE  RecreatePod(u)
<1> USE DEF kubernetes
<1>1. PICK v \in Units : RecreatePod(v)
  BY DEF Next, Operator, Unit, vars, PreUpgradeCheck, EnterRecovery, ResumeUpgrade, Refresh,
         UpgradeRelationChanged, UpgradeCharm, HealthCheck, PebbleReadyEnds, PebbleReadyIgnored,
         Elect, PebbleReadyCrashes, Unhealthy, Restarted
<1>2. pod \in [Units -> 0 .. template]
  BY TypedIsTypeOK DEF Typed
<1>3. u = v
  BY <1>1, <1>2 DEF RecreatePod
<1> QED BY <1>1, <1>3

\* Pods are recreated in turn: each only when every unit above it is healthy on the new
\* template, and below the highest only after resume-upgrade -- when the
\* operator runs pre-upgrade-check and resume-upgrade where the guide has them.
THEOREM InTurn == ~MayRepeat /\ ~MayDefer => (Spec => PodsInTurn)
<1> SUFFICES ASSUME ~MayRepeat, ~MayDefer
             PROVE  Spec => PodsInTurn
  OBVIOUS
<1> USE UpgradeAssumption
<1> DEFINE Turn == \A u \in Units : pod'[u] # pod[u] /\ ~rollback =>
                      /\ \A v \in Units : v > u => v \in checked
                      /\ u # Highest => resumed
<1>1. TypeOK /\ OrderInv /\ [Next]_vars => [Turn]_vars
  <2> SUFFICES ASSUME TypeOK, OrderInv, [Next]_vars,
                      NEW u \in Units, pod'[u] # pod[u], ~rollback
               PROVE  /\ \A v \in Units : v > u => v \in checked
                      /\ u # Highest => resumed
    OBVIOUS
  <2>1. RecreatePod(u)
    BY OnlyRecreated
  <2>2. CASE N > 1
    BY <2>1, <2>2, RecreatesInTurn DEF OrderInv, Ordered, Healthy
  <2>3. CASE N = 1
    BY <2>3, UnitFacts DEF Units, Highest
  <2> QED BY <2>2, <2>3, UnitFacts
<1>2. Spec => [](TypeOK /\ OrderInv)
  BY OrderInvariant
<1> QED BY <1>1, <1>2, PTL DEF Spec, PodsInTurn

\* The pod of the primary is recreated last, under the same condition.
THEOREM PrimaryIsLast == ~MayRepeat /\ ~MayDefer => (Spec => PrimaryLast)
<1> SUFFICES ASSUME ~MayRepeat, ~MayDefer
             PROVE  Spec => PrimaryLast
  OBVIOUS
<1> USE UpgradeAssumption
<1> DEFINE Finally == \A u \in Units : pod'[u] # pod[u] /\ u = primary /\ ~rollback =>
                         \A v \in Units : pod'[v] = template
<1>1. TypeOK /\ OrderInv /\ [Next]_vars => [Finally]_vars
  <2> SUFFICES ASSUME TypeOK, OrderInv, [Next]_vars,
                      NEW u \in Units, pod'[u] # pod[u], u = primary, ~rollback
               PROVE  \A v \in Units : pod'[v] = template
    OBVIOUS
  <2>1. RecreatePod(u)
    BY OnlyRecreated
  <2>2. pod' = [pod EXCEPT ![u] = template] /\ pod \in [Units -> 0 .. template]
    BY <2>1, TypedIsTypeOK DEF RecreatePod, Typed
  <2>3. \A v \in Units : v # u => pod[v] = template
    <3>1. CASE N > 1
      BY <2>1, <3>1, RecreatesInTurn DEF OrderInv, Ordered
    <3>2. CASE N = 1
      BY <3>2, UnitFacts DEF Units
    <3> QED BY <3>1, <3>2, UnitFacts
  <2> QED BY <2>2, <2>3
<1>2. Spec => [](TypeOK /\ OrderInv)
  BY OrderInvariant
<1> QED BY <1>1, <1>2, PTL DEF Spec, PrimaryLast

-----------------------------------------------------------------------------
(* The end of an upgrade.                                                   *)

\* Until every unit is recreated the last of them is in the stack.
BottomInv == Rolling => 0 \in Range(stack)

LEMMA UndoneKeeps ==
    ASSUME NEW st, NEW s \in Stacks, NEW u \in Range(s), st[u] # "completed"
    PROVE  u \in Range(Undone(st, s))
<1>1. s \in Seq(Units) /\ Len(s) \in Nat /\ DOMAIN s = 1 .. Len(s)
  BY DEF Stacks
<1>2. PICK i \in 1 .. Len(s) : s[i] = u
  BY <1>1 DEF Range
<1>3. Completed(st, s) \in SUBSET (i + 1 .. Len(s))
  <2>1. SUFFICES ASSUME NEW j \in 1 .. Len(s), j <= i
                 PROVE  j \notin Completed(st, s)
    BY <1>1 DEF Completed
  <2>2. i \in j .. Len(s)
    BY <1>1, <2>1
  <2> QED BY <1>2, <2>2 DEF Completed
<1>4. IsFiniteSet(i + 1 .. Len(s)) /\ Cardinality(i + 1 .. Len(s)) = Len(s) - i
  <2>1. i + 1 \in Int /\ Len(s) \in Int
    BY <1>1
  <2>2. /\ IsFiniteSet(i + 1 .. Len(s))
        /\ Cardinality(i + 1 .. Len(s)) = IF i + 1 > Len(s) THEN 0 ELSE Len(s) - (i + 1) + 1
    BY <2>1, FS_Interval
  <2> QED BY <1>1, <2>2
<1>5. IsFiniteSet(Completed(st, s)) /\ Cardinality(Completed(st, s)) <= Len(s) - i
  BY <1>3, <1>4, FS_Subset
<1>6. Cardinality(Completed(st, s)) \in Nat
  BY <1>5, FS_CardinalityType
<1> DEFINE n == Len(s) - Cardinality(Completed(st, s))
<1>7. n \in 0 .. Len(s) /\ i <= n
  BY <1>1, <1>5, <1>6
<1> HIDE DEF n
<1>8. /\ Undone(st, s) = SubSeq(s, 1, n) /\ SubSeq(s, 1, n) \in Seq(Units)
      /\ Len(SubSeq(s, 1, n)) = n /\ SubSeq(s, 1, n)[i] = s[i] /\ i \in 1 .. n
  <2>1. i \in 1 .. n
    BY <1>7
  <2> QED BY <1>7, <2>1, PrefixIsStack DEF Undone, n, Stacks
<1>9. i \in DOMAIN SubSeq(s, 1, n)
  BY <1>8
<1> QED BY <1>2, <1>8, <1>9 DEF Range

LEMMA RepairKeeps ==
    ASSUME UpgradeAssumption, stack \in Stacks, NEW s \in Repaired, NEW u \in Range(stack)
    PROVE  u \in Range(s)
<1>1. CASE s = stack
  BY <1>1
<1>2. CASE stack # <<>> /\ \E t \in SetToSeqs(Units \ Range(stack)) :
                              s = Front(stack) \o t \o <<Last(stack)>>
  <2> DEFINE missing == Units \ Range(stack)
  <2>1. PICK t \in SetToSeqs(missing) : s = Front(stack) \o t \o <<Last(stack)>>
    BY <1>2
  <2>2. stack \in Seq(Units) /\ Len(stack) \in Nat \ {0} /\ DOMAIN stack = 1 .. Len(stack)
    BY <1>2 DEF Stacks
  <2>3. t \in Seq(Units)
    <3>1. Cardinality(missing) \in Nat
      <4>1. IsFiniteSet(Units) /\ missing \in SUBSET Units
        BY UnitFacts
      <4>2. IsFiniteSet(missing)
        BY <4>1, FS_Subset
      <4> QED BY <4>2, FS_CardinalityType
    <3>2. missing \subseteq Units
      OBVIOUS
    <3> HIDE DEF missing
    <3>3. t \in [1 .. Cardinality(missing) -> missing]
      BY DEF SetToSeqs
    <3> QED BY <3>1, <3>2, <3>3
  <2> HIDE DEF missing
  <2> DEFINE f == Front(stack)
             l == <<Last(stack)>>
  <2>4. /\ f \in Seq(Units) /\ Len(f) = Len(stack) - 1
        /\ \A i \in 1 .. Len(f) : f[i] = stack[i]
    <3>1. Len(stack) - 1 \in 0 .. Len(stack)
      BY <2>2
    <3> QED BY <3>1, PrefixIsStack DEF Front, Stacks
  <2>5. l \in Seq(Units) /\ Len(l) = 1 /\ l[1] = stack[Len(stack)]
    BY <2>2 DEF Last
  <2> HIDE DEF f, l
  <2>6. /\ f \o t \in Seq(Units) /\ Len(f \o t) = Len(f) + Len(t)
        /\ \A i \in 1 .. Len(f) + Len(t) :
              (f \o t)[i] = IF i <= Len(f) THEN f[i] ELSE t[i - Len(f)]
    BY <2>3, <2>4, ConcatProperties
  <2> DEFINE c == f \o t
  <2>7. c \in Seq(Units) /\ Len(c) \in Nat /\ Len(c) >= Len(f)
        /\ \A i \in 1 .. Len(f) : c[i] = f[i]
    <3>1. Len(f) \in Nat /\ Len(t) \in Nat
      BY <2>3, <2>4
    <3> QED BY <2>6, <3>1
  <2> HIDE DEF c
  <2>8. s \in Seq(Units) /\ Len(s) = Len(c) + 1
        /\ \A i \in 1 .. Len(c) + 1 : s[i] = IF i <= Len(c) THEN c[i] ELSE l[i - Len(c)]
    <3>1. s = c \o l
      BY <2>1 DEF c, f, l
    <3>2. /\ c \o l \in Seq(Units) /\ Len(c \o l) = Len(c) + Len(l)
          /\ \A i \in 1 .. Len(c) + Len(l) :
                (c \o l)[i] = IF i <= Len(c) THEN c[i] ELSE l[i - Len(c)]
      BY <2>5, <2>7, ConcatProperties
    <3> QED BY <2>5, <3>1, <3>2
  <2>9. PICK i \in 1 .. Len(stack) : stack[i] = u
    BY <2>2 DEF Range
  <2>10. \E j \in 1 .. Len(s) : s[j] = u
    <3>1. CASE i < Len(stack)
      <4>1. i \in 1 .. Len(f) /\ i \in 1 .. Len(c) + 1 /\ i <= Len(c)
        BY <2>2, <2>4, <2>7, <2>9, <3>1
      <4> QED BY <2>4, <2>7, <2>8, <2>9, <4>1
    <3>2. CASE i = Len(stack)
      <4>1. Len(c) + 1 \in 1 .. Len(c) + 1 /\ ~(Len(c) + 1 <= Len(c)) /\ Len(c) + 1 - Len(c) = 1
        BY <2>7
      <4>2. s[Len(c) + 1] = l[1]
        BY <2>8, <4>1
      <4> QED BY <2>5, <2>8, <2>9, <3>2, <4>1, <4>2
    <3>3. \A n \in Nat \ {0} : \A j \in 1 .. n : j < n \/ j = n
      OBVIOUS
    <3> QED BY <2>2, <3>1, <3>2, <3>3
  <2>11. DOMAIN s = 1 .. Len(s)
    BY <2>8
  <2> QED BY <2>10, <2>11 DEF Range
<1> QED BY <1>1, <1>2 DEF Repaired

LEMMA StepBottom ==
    ASSUME UpgradeAssumption, ~MayRepeat, ~MayDefer, N > 1, TypeOK, OrderInv, BottomInv, [Next]_vars
    PROVE  BottomInv'
<1> USE UnitFacts DEF kubernetes, history, databags, due
<1>0. Ordered /\ Ordered' /\ Typed /\ Typed'
  BY StepType, StepOrder, TypedIsTypeOK, TypedIsTypeOKNext DEF OrderInv, Ordered
<1> SUFFICES ASSUME Rolling'
             PROVE  0 \in Range(stack)'
  BY DEF BottomInv
<1>1. ASSUME Rolling
      PROVE  /\ 0 \in Range(stack) /\ pod[0] # template
             /\ state[0] # "completed" /\ verdict[0] = "none"
  <2>1. pod[0] # template
    <3>1. PICK u \in Units : pod[u] # template
      BY <1>1 DEF Rolling, AllDone
    <3>2. CASE u = 0
      BY <3>1, <3>2
    <3>3. CASE u > 0
      BY <1>0, <1>1, <3>1, <3>3 DEF Ordered, TurnInv, Healthy
    <3> QED BY <3>2, <3>3
  <2> QED BY <1>0, <1>1, <2>1 DEF Ordered, StatesInv, BottomInv, Healthy
<1>2. CASE UNCHANGED <<stack, pod, template, rollback>>
  BY <1>1, <1>2 DEF Rolling, AllDone
<1>3. CASE PreUpgradeCheck
  <2>1. AllDone /\ UNCHANGED <<pod, template>>
    BY <1>3 DEF PreUpgradeCheck, AllDone
  <2> QED BY <2>1 DEF Rolling, AllDone
<1>4. CASE EnterRecovery
  <2>1. PICK s \in Repaired :
           Write(leader, [Known([state EXCEPT ![leader] = "recovery"]) EXCEPT !.stack = s], FALSE)
    BY <1>4 DEF EnterRecovery
  <2>2. stack' = s
    BY <2>1 DEF Write, Known
  <2>3. Rolling
    BY <1>4 DEF EnterRecovery, Rolling, AllDone
  <2>4. stack \in Stacks
    BY <1>0 DEF Typed
  <2> QED BY <1>1, <2>2, <2>3, <2>4, RepairKeeps
<1>5. CASE Refresh
  <2>1. IsIdle /\ stack # <<>> /\ stack' = stack
    BY <1>5 DEF Refresh, Rolling
  <2>2. stack = Lowest(N)
    BY <1>0, <2>1 DEF Ordered, IdleInv
  <2>3. 1 \in DOMAIN Lowest(N) /\ Lowest(N)[1] = 0
    BY DEF Lowest
  <2> QED BY <2>1, <2>2, <2>3 DEF Range
<1>6. ASSUME NEW u \in Units, UpgradeRelationChanged(u)
      PROVE  0 \in Range(stack)'
  <2>1. Rolling /\ stack \in Stacks
    BY <1>0, <1>6 DEF UpgradeRelationChanged, Rolling, AllDone, Typed
  <2>2. stack' \in {stack, Undone(state, stack)}
    BY <1>6, ChangedWrites
  <2> QED BY <1>1, <2>1, <2>2, UndoneKeeps
<1>7. ASSUME NEW u \in Units, PebbleReadyEnds(u)
      PROVE  0 \in Range(stack)'
  <2>1. Rolling /\ stack \in Stacks /\ verdict[u] # "none" /\ state \in [Units -> StateNames]
    BY <1>0, <1>7 DEF PebbleReadyEnds, Rolling, AllDone, Typed
  <2> DEFINE st == [state EXCEPT ![u] = "completed"]
  <2>2. stack' \in {stack, Undone(st, stack)}
    BY <1>7, PebbleReadyWrites
  <2>3. st[0] # "completed"
    BY <1>1, <2>1
  <2> QED BY <1>1, <2>1, <2>2, <2>3, UndoneKeeps
<1>8. ASSUME NEW u \in Units, RecreatePod(u)
      PROVE  0 \in Range(stack)'
  <2>1. pod[u] # template /\ stack' = stack /\ rollback' = rollback
    BY <1>8 DEF RecreatePod
  <2> QED BY <1>1, <2>1 DEF Rolling, AllDone
<1>9. ASSUME NEW u \in Units, UpgradeCharm(u) \/ Unhealthy(u)
      PROVE  UNCHANGED <<stack, pod, template, rollback>>
  BY <1>9 DEF UpgradeCharm, Unhealthy, Write, Known
<1>10. ASSUME NEW u \in Units,
              \/ HealthCheck(u) \/ Restarted(u) \/ PebbleReadyCrashes(u)
              \/ PebbleReadyIgnored(u) \/ Elect(u)
       PROVE  UNCHANGED <<stack, pod, template, rollback>>
  BY <1>10 DEF HealthCheck, Restarted, PebbleReadyCrashes, PebbleReadyIgnored, Elect
<1>11. ResumeUpgrade \/ UNCHANGED vars => UNCHANGED <<stack, pod, template, rollback>>
  BY DEF ResumeUpgrade, vars
<1> QED BY <1>2, <1>3, <1>4, <1>5, <1>6, <1>7, <1>8, <1>9, <1>10, <1>11
        DEF Next, Operator, Unit

\* A unit that goes idle, or a record of the dependencies, comes with an empty stack.
LEMMA OnlyWhenEmpty ==
    ASSUME UpgradeAssumption, TypeOK, ~MayDefer, [Next]_vars,
           deps' # deps \/ \E u \in Units : state[u] # "idle" /\ state'[u] = "idle"
    PROVE  stack' = <<>> /\ UNCHANGED <<pod, template, rollback>>
<1> USE UnitFacts DEF kubernetes, history, databags, due
<1>0. Typed
  BY TypedIsTypeOK
<1>1. ASSUME NEW u \in Units, UpgradeRelationChanged(u)
      PROVE  stack' = <<>> /\ UNCHANGED <<pod, template, rollback>>
  BY <1>1, ChangedWrites DEF UpgradeRelationChanged
<1>2. ASSUME NEW u \in Units, PebbleReadyEnds(u)
      PROVE  stack' = <<>> /\ UNCHANGED <<pod, template, rollback>>
  <2>1. /\ \A v \in Units : v # u => state'[v] = state[v]
        /\ state'[u] = "idle" => stack' = <<>>
        /\ deps' = deps \/ stack' = <<>>
    BY <1>2, PebbleReadyWrites
  <2> QED BY <1>2, <2>1 DEF PebbleReadyEnds
<1>3. ASSUME NEW u \in Units, NEW k, k.deps = deps, k.state[u] # "idle", Write(u, k, FALSE)
      PROVE  FALSE
  <2>1. state' = [state EXCEPT ![u] = k.state[u]] /\ deps' = k.deps
    BY <1>3 DEF Write
  <2> QED BY <1>0, <1>3, <2>1 DEF Typed
<1>4. ~PreUpgradeCheck
  <2> DEFINE k == [Known(state) EXCEPT !.stack = [i \in 1 .. N |-> i - 1]]
  <2>1. k.state = state /\ k.deps = deps
    BY DEF Known
  <2>2. PreUpgradeCheck => state' = [state EXCEPT ![leader] = k.state[leader]] /\ deps' = k.deps
    BY DEF PreUpgradeCheck, Write
  <2> HIDE DEF k
  <2> QED BY <1>0, <2>1, <2>2 DEF Typed
<1>5. ~EnterRecovery
  <2>1. SUFFICES ASSUME EnterRecovery
                 PROVE  FALSE
    OBVIOUS
  <2>2. PICK s \in Repaired :
           Write(leader, [Known([state EXCEPT ![leader] = "recovery"]) EXCEPT !.stack = s], FALSE)
    BY <2>1 DEF EnterRecovery
  <2> DEFINE k == [Known([state EXCEPT ![leader] = "recovery"]) EXCEPT !.stack = s]
  <2>3. k.deps = deps /\ k.state[leader] = "recovery" /\ leader \in Units
    BY <1>0 DEF Known, Typed
  <2>4. Write(leader, k, FALSE)
    BY <2>2
  <2> HIDE DEF k
  <2> QED BY <1>3, <2>3, <2>4
<1>6. ASSUME NEW u \in Units, UpgradeCharm(u) \/ Unhealthy(u)
      PROVE  FALSE
  <2>1. \/ UNCHANGED databags
        \/ \E x \in {"upgrading", "failed"} : Write(u, Known([state EXCEPT ![u] = x]), FALSE)
    BY <1>6 DEF UpgradeCharm, Unhealthy
  <2>2. PICK x \in {"upgrading", "failed"} : Write(u, Known([state EXCEPT ![u] = x]), FALSE)
    BY <1>6, <2>1
  <2>3. /\ Known([state EXCEPT ![u] = x]).deps = deps
        /\ Known([state EXCEPT ![u] = x]).state[u] # "idle"
    BY <1>0 DEF Known, Typed
  <2> QED BY <1>3, <2>2, <2>3
<1>7. ASSUME NEW u \in Units,
             \/ HealthCheck(u) \/ Restarted(u) \/ PebbleReadyCrashes(u)
             \/ PebbleReadyIgnored(u) \/ Elect(u) \/ RecreatePod(u)
      PROVE  FALSE
  BY <1>7 DEF HealthCheck, Restarted, PebbleReadyCrashes, PebbleReadyIgnored, Elect, RecreatePod
<1>8. ~(ResumeUpgrade \/ Refresh \/ UNCHANGED vars)
  BY DEF ResumeUpgrade, Refresh, vars
<1> QED BY <1>1, <1>2, <1>4, <1>5, <1>6, <1>7, <1>8 DEF Next, Operator, Unit

\* Units are idle again, and the dependencies recorded, only when all pods are on the new
\* template and the stack is empty -- under the same condition, and with a second unit:
\* one alone may be refreshed again before it says that it upgrades.
THEOREM EndsTogether == N > 1 /\ ~MayRepeat /\ ~MayDefer => (Spec => IdleAgain)
<1> SUFFICES ASSUME N > 1, ~MayRepeat, ~MayDefer
             PROVE  Spec => IdleAgain
  OBVIOUS
<1> USE UpgradeAssumption
<1> DEFINE Over == ~rollback /\ ~(MayDefer /\ elections > 0)
                   /\ (deps' # deps \/ \E u \in Units : state[u] # "idle" /\ state'[u] = "idle")
                      => AllDone /\ stack' = <<>>
<1>1. Init => BottomInv
  BY DEF Init, BottomInv, Rolling, AllDone
<1>2. TypeOK /\ OrderInv /\ BottomInv /\ [Next]_vars => BottomInv' /\ [Over]_vars
  <2> SUFFICES ASSUME TypeOK, OrderInv, BottomInv, [Next]_vars
               PROVE  BottomInv' /\ Over
    OBVIOUS
  <2>1. BottomInv'
    BY StepBottom
  <2>2. ASSUME ~rollback,
               deps' # deps \/ \E u \in Units : state[u] # "idle" /\ state'[u] = "idle"
        PROVE  AllDone /\ stack' = <<>>
    <3>1. stack' = <<>> /\ UNCHANGED <<pod, template, rollback>>
      BY <2>2, OnlyWhenEmpty
    <3>2. 0 \notin Range(stack)'
      BY <3>1 DEF Range
    <3>3. ~Rolling'
      BY <2>1, <3>2 DEF BottomInv
    <3> QED BY <2>2, <3>1, <3>3 DEF Rolling, AllDone
  <2> QED BY <2>1, <2>2
<1>3. Spec => [](TypeOK /\ OrderInv)
  BY OrderInvariant
<1> QED BY <1>1, <1>2, <1>3, PTL DEF Spec, IdleAgain
=============================================================================
