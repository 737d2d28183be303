------------------------ MODULE ClientRelations_proofs ------------------------
(***************************************************************************)
(* Proofs about module ClientRelations: the user of a relation works as     *)
(* long as the relation, the credentials are let in on every unit before    *)
(* they are published, and a unit is blocked for a reason.                  *)
(*                                                                         *)
(* Two orders carry them.  A relation's request is emitted once, so that    *)
(* nothing gives the user another password after the first (OnceInv);     *)
(* and a unit that is removed has its flag before it sees the relations end *)
(* that go on for the others (LeaveInv).                                    *)
(***************************************************************************)
EXTENDS ClientRelations, SequenceTheorems, TLAPS

USE DEF juju, database, files, data, chosen, observer

-----------------------------------------------------------------------------
(* The inductive invariant. *)

JujuType ==
    /\ leader \in Units /\ present \subseteq Units /\ removing \subseteq Units /\ primary \in present
    /\ legacy \subseteq Relations /\ bad \subseteq Relations
    /\ rel \in [Relations -> {"none", "joined", "gone", "dropped"}]
    /\ knows \in [Units -> SUBSET Relations]
    /\ saved \subseteq Relations \ legacy /\ departing \subseteq removing
    /\ incidents \subseteq Incidents
DataType ==
    /\ users \in [Relations -> Nat] /\ made \in Nat
    /\ granted \subseteq {r \in Relations : users[r] # 0}
    /\ bag \in [Relations -> Nat] /\ own \in [Units -> [Relations -> Nat]]
    /\ passwords \in [Relations -> Nat]
FilesType ==
    /\ hash \in [Units -> SUBSET Relations] /\ hba \in [Units -> SUBSET Relations]
    /\ hbaMade \in [Units -> Nat] /\ watched \in [Units -> Nat] /\ missed \in BOOLEAN
StatusType ==
    blocked \in [Units -> {"", "endpoints", "roles", "extensions", "failed", "delete"}]
QueueType ==
    /\ due \in [Units -> SUBSET Events]
    /\ now \in [Units -> Seq(Events)] /\ later \in [Units -> Seq(Events)]

\* The events that a unit is in the middle of handling, or has deferred; those to come, too.
Waits(u) == ToSet(now[u]) \cup ToSet(later[u])
Expects(u) == due[u] \cup Waits(u)

\* Nothing is about a relation that was never made.
FreshInv ==
    \A r \in Relations : rel[r] = "none" =>
        /\ bag[r] = 0 /\ r \notin saved \cup legacy \cup bad
        /\ \A u \in Units : /\ r \notin knows[u]
                            /\ \A e \in Expects(u) : e.kind \in Kinds => e.rel # r

\* A queue has an event "requested" once.
Once(s) == \A i, j \in 1 .. Len(s) : s[i].kind = "requested" /\ s[i] = s[j] => i = j

\* A request is emitted once.
OnceInv ==
    \A u \in Units :
        /\ Once(now[u]) /\ Once(later[u])
        /\ \A e \in ToSet(now[u]) \cap ToSet(later[u]) : e.kind # "requested"
        /\ \A e \in due[u] : e.kind # "requested"
        /\ \A v \in Units \ {u} : \A e \in Waits(u) \cap Waits(v) : e.kind # "requested"

\* The leader has saved that it emitted a request, and the credentials are published when it
\* is handled: there is no other one that could change the password then.
RequestInv ==
    /\ \A u \in Units : \A e \in Waits(u) :
          e.kind = "requested" => e.rel \in saved /\ bag[e.rel] = 0
    /\ \A r \in Relations \ legacy : bag[r] # 0 => r \in saved

\* The end of a relation that, for the others, goes on (it is of those in J): it is removed
\* with the unit.
Leaves(e, J) == e.kind = "broken" /\ e.rel \in J
DepartedFirst(s, J) ==
    \A i \in 1 .. Len(s) : Leaves(s[i], J) => \E j \in 1 .. i - 1 : s[j].kind = "departed"

\* A unit that is removed has its flag before it sees a relation end that goes on for the
\* others: relation-departed comes first, and stays first where it was deferred.
Leaving(u) ==
    /\ \A e \in ToSet(later[u]) : ~Leaves(e, Joined)
    /\ DepartedFirst(now[u], Joined)
    /\ (\E e \in ToSet(now[u]) : Leaves(e, Joined)) => "unready" \in incidents
    /\ (\E e \in due[u] : Leaves(e, Joined)) =>
          "unready" \in incidents /\ \E e \in Waits(u) : e.kind = "departed"
    /\ knows[u] = {} \/ \E e \in Expects(u) : e.kind = "departed"
\* A unit that stays sees only relations end that are gone.  The order holds where a departed
\* event is deferred once at most.
LeaveInv ==
    \A u \in Units :
        /\ u \notin removing => \A e \in Expects(u) : e.kind # "departed" /\ ~Leaves(e, Joined)
        /\ ~MayStayUnready =>
              /\ (\E e \in ToSet(later[u]) : e.kind = "departed") => "unready" \in incidents
              /\ u \in removing \ departing => Leaving(u)

\* What is left of BlockedForAReason while the unit has something to do: the end of the
\* relation that blocks it.
Ends(u, S) == \E e \in Waits(u) : e.kind = "broken" /\ e.rel \in S
RolesInv ==
    \A u \in Units \ removing :
        blocked[u] = "roles" =>
            (knows[u] \cap bad) \ legacy # {} \/ Ends(u, Relations \ legacy)
EndpointsInv ==
    Undisturbed =>
        /\ present = Units /\ removing = {}
        /\ \A u \in Units : blocked[u] = "endpoints" =>
              u = leader /\ (Multiple(u) \/ Ends(u, Relations))

\* A unit's pg_hba.conf lets in the relations that its hash names, and those it knows do
\* not end while they are joined.
FilesInv ==
    /\ \A u \in Units : hash[u] \subseteq hba[u]
    /\ \A u \in present \ removing : Joined \subseteq knows[u]

Typed == JujuType /\ DataType /\ FilesType /\ StatusType /\ QueueType

-----------------------------------------------------------------------------
(* Sequences. *)

LEMMA InElements ==
    ASSUME NEW S, NEW s \in Seq(S), NEW e
    PROVE  e \in ToSet(s) <=> \E i \in 1 .. Len(s) : s[i] = e
  BY DEF ToSet

LEMMA EmptyElements ==
    ASSUME NEW S
    PROVE  <<>> \in Seq(S) /\ ToSet(<<>>) = {} /\ Once(<<>>)
  BY DEF ToSet, Once

LEMMA TailIs ==
    ASSUME NEW S, NEW s \in Seq(S), s # <<>>
    PROVE  /\ Head(s) = s[1] /\ Head(s) \in S /\ Tail(s) \in Seq(S) /\ Len(s) \in Nat \ {0}
           /\ Len(Tail(s)) = Len(s) - 1 /\ \A i \in 1 .. Len(s) - 1 : Tail(s)[i] = s[i + 1]
           /\ \A e : e \in ToSet(Tail(s)) <=> \E i \in 1 .. Len(s) - 1 : s[i + 1] = e
<1>1. /\ Head(s) = s[1] /\ Head(s) \in S /\ Tail(s) \in Seq(S) /\ Len(s) \in Nat \ {0}
      /\ Len(Tail(s)) = Len(s) - 1 /\ \A i \in 1 .. Len(Tail(s)) : Tail(s)[i] = s[i + 1]
  BY HeadTailProperties
<1>2. \A e : e \in ToSet(Tail(s)) <=> \E i \in 1 .. Len(Tail(s)) : Tail(s)[i] = e
  BY <1>1, InElements
<1> QED BY <1>1, <1>2

LEMMA TailElements ==
    ASSUME NEW S, NEW s \in Seq(S), s # <<>>
    PROVE  ToSet(s) = ToSet(Tail(s)) \cup {Head(s)}
<1>1. ASSUME NEW i \in 1 .. Len(s), i # 1
      PROVE  \E j \in 1 .. Len(s) - 1 : s[j + 1] = s[i]
  <2>1. i - 1 \in 1 .. Len(s) - 1 /\ (i - 1) + 1 = i
    BY <1>1, TailIs
  <2> QED BY <2>1
<1>2. \A i \in 1 .. Len(s) - 1 : i + 1 \in 1 .. Len(s)
  BY TailIs
<1>3. 1 \in 1 .. Len(s) /\ Head(s) = s[1]
  BY TailIs
<1>4. \A e : e \in ToSet(Tail(s)) <=> \E i \in 1 .. Len(s) - 1 : s[i + 1] = e
  BY TailIs
<1>5. \A e : e \in ToSet(s) <=> \E i \in 1 .. Len(s) : s[i] = e
  BY InElements
<1> QED BY <1>1, <1>2, <1>3, <1>4, <1>5

LEMMA AppendIs ==
    ASSUME NEW S, NEW s \in Seq(S), NEW e \in S
    PROVE  /\ Append(s, e) \in Seq(S) /\ Len(Append(s, e)) = Len(s) + 1 /\ Len(s) \in Nat
           /\ \A i \in 1 .. Len(s) + 1 : Append(s, e)[i] = IF i = Len(s) + 1 THEN e ELSE s[i]
           /\ \A d : d \in ToSet(Append(s, e)) <=> \E i \in 1 .. Len(s) + 1 : Append(s, e)[i] = d
<1>1. /\ Append(s, e) \in Seq(S) /\ Len(Append(s, e)) = Len(s) + 1 /\ Len(s) \in Nat
      /\ \A i \in 1 .. Len(s) : Append(s, e)[i] = s[i]
      /\ Append(s, e)[Len(s) + 1] = e
  BY AppendProperties
<1>2. \A d : d \in ToSet(Append(s, e)) <=> \E i \in 1 .. Len(Append(s, e)) : Append(s, e)[i] = d
  BY <1>1, InElements
<1> QED BY <1>1, <1>2

LEMMA AppendElements ==
    ASSUME NEW S, NEW s \in Seq(S), NEW e \in S
    PROVE  ToSet(Append(s, e)) = ToSet(s) \cup {e}
<1>1. Len(s) \in Nat /\ Len(s) + 1 \in 1 .. Len(s) + 1
  BY AppendIs
<1>2. \A i \in 1 .. Len(s) : i \in 1 .. Len(s) + 1 /\ i # Len(s) + 1
  BY <1>1
<1>3. \A i \in 1 .. Len(s) + 1 : i # Len(s) + 1 => i \in 1 .. Len(s)
  BY <1>1
<1>4. \A i \in 1 .. Len(s) + 1 : Append(s, e)[i] = IF i = Len(s) + 1 THEN e ELSE s[i]
  BY AppendIs
<1>5. \A d : d \in ToSet(Append(s, e)) <=> \E i \in 1 .. Len(s) + 1 : Append(s, e)[i] = d
  BY AppendIs
<1>6. \A d : d \in ToSet(s) <=> \E i \in 1 .. Len(s) : s[i] = d
  BY InElements
<1> QED BY <1>1, <1>2, <1>3, <1>4, <1>5, <1>6

\* A sequence whose head is replaced.
Replaced(s, e) == <<e>> \o Tail(s)

LEMMA ReplacedIs ==
    ASSUME NEW S, NEW s \in Seq(S), s # <<>>, NEW e \in S
    PROVE  /\ Replaced(s, e) \in Seq(S) /\ Len(Replaced(s, e)) = Len(s) /\ Len(s) \in Nat \ {0}
           /\ \A i \in 1 .. Len(s) : Replaced(s, e)[i] = IF i = 1 THEN e ELSE s[i]
           /\ \A d : d \in ToSet(Replaced(s, e)) <=> \E i \in 1 .. Len(s) : Replaced(s, e)[i] = d
<1>1. /\ <<e>> \in Seq(S) /\ Len(<<e>>) = 1 /\ <<e>>[1] = e
  OBVIOUS
<1>2. /\ Replaced(s, e) \in Seq(S) /\ Len(Replaced(s, e)) = Len(<<e>>) + Len(Tail(s))
      /\ \A i \in 1 .. Len(<<e>>) + Len(Tail(s)) :
            Replaced(s, e)[i] = IF i <= Len(<<e>>) THEN <<e>>[i] ELSE Tail(s)[i - Len(<<e>>)]
  BY <1>1, TailIs, ConcatProperties DEF Replaced
<1>3. Len(Replaced(s, e)) = Len(s) /\ Len(s) \in Nat \ {0}
  BY <1>1, <1>2, TailIs
<1>4. ASSUME NEW i \in 1 .. Len(s), i # 1
      PROVE  Replaced(s, e)[i] = s[i]
  <2>1. Replaced(s, e)[i] = Tail(s)[i - 1] /\ i - 1 \in 1 .. Len(s) - 1
    BY <1>1, <1>2, <1>4, TailIs
  <2>2. Tail(s)[i - 1] = s[(i - 1) + 1] /\ (i - 1) + 1 = i
    BY <2>1, TailIs
  <2> QED BY <2>1, <2>2
<1>5. Replaced(s, e)[1] = e
  BY <1>1, <1>2, <1>3, TailIs
<1>6. \A d : d \in ToSet(Replaced(s, e)) <=> \E i \in 1 .. Len(Replaced(s, e)) : Replaced(s, e)[i] = d
  BY <1>2, InElements
<1> QED BY <1>2, <1>3, <1>4, <1>5, <1>6

LEMMA ReplacedElements ==
    ASSUME NEW S, NEW s \in Seq(S), s # <<>>, NEW e \in S
    PROVE  ToSet(Replaced(s, e)) = ToSet(Tail(s)) \cup {e}
<1>1. ASSUME NEW i \in 1 .. Len(s), i # 1
      PROVE  \E j \in 1 .. Len(s) - 1 : s[j + 1] = s[i]
  <2>1. i - 1 \in 1 .. Len(s) - 1 /\ (i - 1) + 1 = i
    BY <1>1, TailIs
  <2> QED BY <2>1
<1>2. 1 \in 1 .. Len(s) /\ \A i \in 1 .. Len(s) - 1 : i + 1 \in 1 .. Len(s) /\ i + 1 # 1
  BY TailIs
<1>3. \A d : d \in ToSet(Tail(s)) <=> \E i \in 1 .. Len(s) - 1 : s[i + 1] = d
  BY TailIs
<1>4. \A i \in 1 .. Len(s) : Replaced(s, e)[i] = IF i = 1 THEN e ELSE s[i]
  BY ReplacedIs
<1>5. \A d : d \in ToSet(Replaced(s, e)) <=> \E i \in 1 .. Len(s) : Replaced(s, e)[i] = d
  <2>1. Replaced(s, e) \in Seq(S) /\ Len(Replaced(s, e)) = Len(s)
    BY ReplacedIs
  <2>2. \A d : d \in ToSet(Replaced(s, e)) <=> \E i \in 1 .. Len(Replaced(s, e)) : Replaced(s, e)[i] = d
    BY <2>1, InElements
  <2> QED BY <2>1, <2>2
<1>6. ASSUME NEW d \in ToSet(Replaced(s, e))
      PROVE  d \in ToSet(Tail(s)) \cup {e}
  <2>1. PICK i \in 1 .. Len(s) : Replaced(s, e)[i] = d
    BY <1>5, <1>6
  <2> QED BY <1>1, <1>3, <1>4, <2>1
<1>7. ASSUME NEW d \in ToSet(Tail(s))
      PROVE  d \in ToSet(Replaced(s, e))
  <2>1. PICK i \in 1 .. Len(s) - 1 : s[i + 1] = d
    BY <1>3, <1>7
  <2>2. i + 1 \in 1 .. Len(s) /\ Replaced(s, e)[i + 1] = d
    BY <1>2, <1>4, <2>1
  <2> QED BY <1>5, <2>2
<1>8. e \in ToSet(Replaced(s, e))
  BY <1>2, <1>4, <1>5
<1> QED BY <1>6, <1>7, <1>8

\* What happens once in a sequence still does after a step of the hook.
LEMMA OnceFacts ==
    ASSUME NEW s \in Seq(Events), Once(s)
    PROVE  /\ s # <<>> => /\ Once(Tail(s))
                          /\ Head(s).kind = "requested" => Head(s) \notin ToSet(Tail(s))
           /\ \A e \in Events : /\ (e.kind = "requested" => e \notin ToSet(s)) => Once(Append(s, e))
                                /\ s # <<>> /\ e \notin ToSet(Tail(s)) => Once(Replaced(s, e))
<1>1. ASSUME s # <<>>
      PROVE  /\ Once(Tail(s))
             /\ Head(s).kind = "requested" => Head(s) \notin ToSet(Tail(s))
  <2>1. Once(Tail(s))
    <3>1. SUFFICES ASSUME NEW i \in 1 .. Len(s) - 1, NEW j \in 1 .. Len(s) - 1,
                          s[i + 1].kind = "requested", s[i + 1] = s[j + 1]
                   PROVE  i = j
      BY <1>1, TailIs DEF Once
    <3>2. i + 1 \in 1 .. Len(s) /\ j + 1 \in 1 .. Len(s)
      BY <1>1, TailIs
    <3> QED BY <3>1, <3>2 DEF Once
  <2>2. ASSUME NEW i \in 1 .. Len(s) - 1, s[1].kind = "requested", s[i + 1] = s[1]
        PROVE  FALSE
    <3>1. i + 1 \in 1 .. Len(s) /\ 1 \in 1 .. Len(s) /\ i + 1 # 1
      BY <1>1, TailIs
    <3> QED BY <2>2, <3>1 DEF Once
  <2>3. Head(s) = s[1] /\ \A e : e \in ToSet(Tail(s)) <=> \E i \in 1 .. Len(s) - 1 : s[i + 1] = e
    BY <1>1, TailIs
  <2> QED BY <2>1, <2>2, <2>3
<1>2. ASSUME NEW e \in Events, e.kind = "requested" => e \notin ToSet(s)
      PROVE  Once(Append(s, e))
  <2>1. SUFFICES ASSUME NEW i \in 1 .. Len(s) + 1, NEW j \in 1 .. Len(s) + 1,
                        Append(s, e)[i].kind = "requested", Append(s, e)[i] = Append(s, e)[j], i # j
                 PROVE  FALSE
    BY AppendIs DEF Once
  <2>2. CASE i = Len(s) + 1
    <3>1. j \in 1 .. Len(s) /\ s[j] = e /\ e.kind = "requested"
      BY <2>1, <2>2, AppendIs
    <3> QED BY <1>2, <3>1, InElements
  <2>3. CASE j = Len(s) + 1
    <3>1. i \in 1 .. Len(s) /\ s[i] = e /\ e.kind = "requested"
      BY <2>1, <2>3, AppendIs
    <3> QED BY <1>2, <3>1, InElements
  <2>4. CASE i # Len(s) + 1 /\ j # Len(s) + 1
    <3>1. i \in 1 .. Len(s) /\ j \in 1 .. Len(s) /\ s[i] = s[j] /\ s[i].kind = "requested"
      BY <2>1, <2>4, AppendIs
    <3> QED BY <2>1, <3>1 DEF Once
  <2> QED BY <2>2, <2>3, <2>4
<1>3. ASSUME NEW e \in Events, s # <<>>, e \notin ToSet(Tail(s))
      PROVE  Once(Replaced(s, e))
  <2>1. \A i \in 2 .. Len(s) : s[i] # e
    <3>1. SUFFICES ASSUME NEW i \in 2 .. Len(s), s[i] = e
                   PROVE  FALSE
      OBVIOUS
    <3>2. i - 1 \in 1 .. Len(s) - 1 /\ (i - 1) + 1 = i
      BY <1>3, <3>1, TailIs
    <3> QED BY <1>3, <3>1, <3>2, TailIs
  <2>2. /\ Len(Replaced(s, e)) = Len(s) /\ Len(s) \in Nat
        /\ \A i \in 1 .. Len(s) : Replaced(s, e)[i] = IF i = 1 THEN e ELSE s[i]
    BY <1>3, ReplacedIs
  <2> QED BY <2>1, <2>2 DEF Once
<1> QED BY <1>1, <1>2, <1>3

\* relation-departed is first in what is left of a hook.
LEMMA FirstFacts ==
    ASSUME NEW s \in Seq(Events), NEW J
    PROVE  /\ s # <<>> /\ DepartedFirst(s, J) =>
                 /\ ~Leaves(Head(s), J)
                 /\ Head(s).kind # "departed" => DepartedFirst(Tail(s), J)
                 /\ \A e \in Events : Head(s).kind # "departed" /\ ~Leaves(e, J) => DepartedFirst(Replaced(s, e), J)
           /\ \A e \in Events :
                 /\ \A d \in ToSet(s) : ~Leaves(d, J)
                 /\ Leaves(e, J) => \E d \in ToSet(s) : d.kind = "departed"
                 => DepartedFirst(Append(s, e), J)
           /\ (\A d \in ToSet(s) : ~Leaves(d, J)) => DepartedFirst(s, J)
<1>1. ASSUME s # <<>>, DepartedFirst(s, J)
      PROVE  ~Leaves(Head(s), J)
  BY <1>1, TailIs DEF DepartedFirst
<1>2. ASSUME s # <<>>, DepartedFirst(s, J), Head(s).kind # "departed"
      PROVE  DepartedFirst(Tail(s), J)
  <2>1. SUFFICES ASSUME NEW i \in 1 .. Len(s) - 1, Leaves(s[i + 1], J)
                 PROVE  \E j \in 1 .. i - 1 : Tail(s)[j].kind = "departed"
    BY <1>2, TailIs DEF DepartedFirst
  <2>2. i + 1 \in 1 .. Len(s) /\ (i + 1) - 1 = i
    BY <1>2, TailIs
  <2>3. PICK j \in 1 .. i : s[j].kind = "departed"
    BY <1>2, <2>1, <2>2 DEF DepartedFirst
  <2>4. j # 1
    BY <1>2, <2>3, TailIs
  <2>5. j - 1 \in 1 .. i - 1 /\ j - 1 \in 1 .. Len(s) - 1 /\ (j - 1) + 1 = j
    BY <1>2, <2>3, <2>4, TailIs
  <2>6. Tail(s)[j - 1] = s[j]
    BY <1>2, <2>5, TailIs
  <2> QED BY <2>3, <2>5, <2>6
<1>3. ASSUME s # <<>>, DepartedFirst(s, J), NEW e \in Events, Head(s).kind # "departed", ~Leaves(e, J)
      PROVE  DepartedFirst(Replaced(s, e), J)
  <2>0. /\ Len(Replaced(s, e)) = Len(s) /\ Len(s) \in Nat
        /\ \A i \in 1 .. Len(s) : Replaced(s, e)[i] = IF i = 1 THEN e ELSE s[i]
    BY <1>3, ReplacedIs
  <2>1. SUFFICES ASSUME NEW i \in 1 .. Len(s), Leaves(Replaced(s, e)[i], J)
                 PROVE  \E j \in 1 .. i - 1 : Replaced(s, e)[j].kind = "departed"
    BY <2>0 DEF DepartedFirst
  <2>2. Replaced(s, e)[i] = s[i] /\ i # 1
    BY <1>3, <2>0, <2>1
  <2>3. PICK j \in 1 .. i - 1 : s[j].kind = "departed"
    BY <1>3, <2>1, <2>2 DEF DepartedFirst
  <2>4. j # 1 /\ j \in 1 .. Len(s)
    BY <1>3, <2>3, TailIs
  <2> QED BY <2>0, <2>3, <2>4
<1>4. ASSUME NEW e \in Events, \A d \in ToSet(s) : ~Leaves(d, J),
             Leaves(e, J) => \E d \in ToSet(s) : d.kind = "departed"
      PROVE  DepartedFirst(Append(s, e), J)
  <2>1. SUFFICES ASSUME NEW i \in 1 .. Len(s) + 1, Leaves(Append(s, e)[i], J)
                 PROVE  \E j \in 1 .. i - 1 : Append(s, e)[j].kind = "departed"
    BY AppendIs DEF DepartedFirst
  <2>2. i = Len(s) + 1 /\ Leaves(e, J)
    <3>1. CASE i # Len(s) + 1
      <4>1. i \in 1 .. Len(s) /\ Append(s, e)[i] = s[i]
        BY <3>1, AppendIs
      <4> QED BY <1>4, <2>1, <4>1, InElements
    <3> QED BY <2>1, <3>1, AppendIs
  <2>3. PICK j \in 1 .. Len(s) : s[j].kind = "departed"
    BY <1>4, <2>2, InElements
  <2>4. j \in 1 .. i - 1 /\ j \in 1 .. Len(s) + 1 /\ j # Len(s) + 1
    BY <2>2, <2>3, AppendIs
  <2> QED BY <2>3, <2>4, AppendIs
<1>5. ASSUME \A d \in ToSet(s) : ~Leaves(d, J)
      PROVE  DepartedFirst(s, J)
  BY <1>5, InElements DEF DepartedFirst
<1> QED BY <1>1, <1>2, <1>3, <1>4, <1>5

-----------------------------------------------------------------------------
(* Events and queues. *)

LEMMA EventFacts ==
    /\ \A k \in Kinds, r \in Relations :
          Event(k, r) \in Events /\ Event(k, r).kind = k /\ Event(k, r).rel = r
    /\ \A e \in Events : e.kind \in Kinds => e.rel \in Relations /\ e = Event(e.kind, e.rel)
    /\ \A e \in Events : e.kind \in Kinds \cup {"peer", "databases"}
    /\ PeerChanged \in Events /\ PeerChanged.kind = "peer"
    /\ DatabasesChange \in Events /\ DatabasesChange.kind = "databases"
  BY DEF Events, Event, Kinds, PeerChanged, DatabasesChange

\* How a step changes the queues of a unit.
Rests == now' = now /\ later' = later
Drops(u) ==
    now[u] # <<>> /\ now' = [now EXCEPT ![u] = Tail(@)] /\ later' = later
Puts(u) ==
    /\ now[u] # <<>> /\ now' = [now EXCEPT ![u] = Tail(@)]
    /\ later' = [later EXCEPT ![u] = Append(@, Head(now[u]))]
Emits(u, r) ==
    /\ now[u] # <<>> /\ Head(now[u]).kind = "changed"
    /\ now' = [now EXCEPT ![u] = Replaced(@, Event("requested", r))] /\ later' = later
    /\ r \in knows[u] \ (saved \cup legacy) /\ saved' = saved \cup {r}
Takes(u, e) ==
    /\ now[u] = <<>> /\ now' = [now EXCEPT ![u] = Append(later[u], e)]
    /\ later' = [later EXCEPT ![u] = <<>>] /\ due' = [due EXCEPT ![u] = @ \ {e}]
Resumes(u) ==
    /\ now[u] = <<>> /\ now' = [now EXCEPT ![u] = later[u]]
    /\ later' = [later EXCEPT ![u] = <<>>]

\* The queues of the others stay.
Others(u) == \A v \in Units \ {u} : now'[v] = now[v] /\ later'[v] = later[v]
Queues == now' \in [Units -> Seq(Events)] /\ later' \in [Units -> Seq(Events)]

LEMMA HeadFacts ==
    ASSUME QueueType, NEW u \in Units, now[u] # <<>>
    PROVE  /\ Head(now[u]) \in Events /\ Head(now[u]) \in ToSet(now[u])
           /\ ToSet(now[u]) = ToSet(Tail(now[u])) \cup {Head(now[u])}
           /\ Tail(now[u]) \in Seq(Events) /\ Head(now[u]) \in Waits(u)
           /\ Head(now[u]).kind \in Kinds =>
                 Rel(u) \in Relations /\ Head(now[u]) = Event(Head(now[u]).kind, Rel(u))
<1>1. now[u] \in Seq(Events)
  BY DEF QueueType
<1>2. Head(now[u]) \in Events /\ Tail(now[u]) \in Seq(Events)
  BY <1>1, TailIs
<1>3. ToSet(now[u]) = ToSet(Tail(now[u])) \cup {Head(now[u])}
  BY <1>1, TailElements
<1> QED BY <1>2, <1>3, EventFacts DEF Rel, Waits

LEMMA DropsFacts ==
    ASSUME QueueType, NEW u \in Units, Drops(u)
    PROVE  /\ Queues /\ Others(u)
           /\ now'[u] = Tail(now[u]) /\ later'[u] = later[u]
           /\ ToSet(now[u]) = ToSet(now'[u]) \cup {Head(now[u])}
<1>1. now[u] \in Seq(Events) /\ Tail(now[u]) \in Seq(Events)
  BY HeadFacts DEF QueueType, Drops
<1> QED BY <1>1, TailElements DEF QueueType, Drops, Queues, Others

LEMMA PutsFacts ==
    ASSUME QueueType, NEW u \in Units, Puts(u)
    PROVE  /\ Queues /\ Others(u)
           /\ now'[u] = Tail(now[u]) /\ later'[u] = Append(later[u], Head(now[u]))
           /\ ToSet(now[u]) = ToSet(now'[u]) \cup {Head(now[u])}
           /\ ToSet(later'[u]) = ToSet(later[u]) \cup {Head(now[u])}
<1>1. /\ now[u] \in Seq(Events) /\ Tail(now[u]) \in Seq(Events) /\ Head(now[u]) \in Events
      /\ later[u] \in Seq(Events)
  BY HeadFacts DEF QueueType, Puts
<1>2. /\ Append(later[u], Head(now[u])) \in Seq(Events)
      /\ ToSet(Append(later[u], Head(now[u]))) = ToSet(later[u]) \cup {Head(now[u])}
      /\ ToSet(now[u]) = ToSet(Tail(now[u])) \cup {Head(now[u])}
  BY <1>1, AppendIs, AppendElements, TailElements DEF Puts
<1> QED BY <1>1, <1>2 DEF QueueType, Puts, Queues, Others

LEMMA EmitsFacts ==
    ASSUME Typed, NEW u \in Units, NEW r, Emits(u, r)
    PROVE  /\ Queues /\ Others(u) /\ Event("requested", r) \in Events
           /\ now'[u] = Replaced(now[u], Event("requested", r)) /\ later'[u] = later[u]
           /\ ToSet(now[u]) = ToSet(Tail(now[u])) \cup {Head(now[u])}
           /\ ToSet(now'[u]) = ToSet(Tail(now[u])) \cup {Event("requested", r)}
<1>1. Event("requested", r) \in Events /\ now[u] \in Seq(Events) /\ now[u] # <<>>
  BY EventFacts DEF Typed, JujuType, QueueType, Emits, Kinds
<1>2. Replaced(now[u], Event("requested", r)) \in Seq(Events)
  BY <1>1, ReplacedIs
<1>3. /\ ToSet(Replaced(now[u], Event("requested", r)))
            = ToSet(Tail(now[u])) \cup {Event("requested", r)}
      /\ ToSet(now[u]) = ToSet(Tail(now[u])) \cup {Head(now[u])}
  BY <1>1, ReplacedElements, TailElements
<1> QED BY <1>1, <1>2, <1>3 DEF Typed, QueueType, Emits, Queues, Others

LEMMA TakesFacts ==
    ASSUME QueueType, NEW u \in Units, NEW e \in due[u], Takes(u, e)
    PROVE  /\ Queues /\ Others(u) /\ e \in Events
           /\ now'[u] = Append(later[u], e) /\ ToSet(now'[u]) = ToSet(later[u]) \cup {e}
           /\ later'[u] = <<>> /\ ToSet(later'[u]) = {} /\ ToSet(now[u]) = {}
           /\ due' \in [Units -> SUBSET Events]
           /\ due'[u] = due[u] \ {e} /\ \A v \in Units \ {u} : due'[v] = due[v]
<1>1. later[u] \in Seq(Events) /\ e \in Events
  BY DEF QueueType
<1>2. /\ Append(later[u], e) \in Seq(Events)
      /\ ToSet(Append(later[u], e)) = ToSet(later[u]) \cup {e}
  BY <1>1, AppendIs, AppendElements
<1>3. <<>> \in Seq(Events) /\ ToSet(<<>>) = {}
  BY EmptyElements
<1> QED BY <1>1, <1>2, <1>3 DEF QueueType, Takes, Queues, Others

LEMMA ResumesFacts ==
    ASSUME QueueType, NEW u \in Units, Resumes(u)
    PROVE  /\ Queues /\ Others(u)
           /\ now'[u] = later[u] /\ later'[u] = <<>> /\ ToSet(later'[u]) = {} /\ ToSet(now[u]) = {}
<1>1. <<>> \in Seq(Events) /\ ToSet(<<>>) = {} /\ later[u] \in Seq(Events)
  BY EmptyElements DEF QueueType
<1> QED BY <1>1 DEF QueueType, Resumes, Queues, Others

-----------------------------------------------------------------------------
(* What the steps do to the queues. *)

\* Hooks that become due whatever the relations are.
Raises ==
    /\ due' \in [Units -> SUBSET Events]
    /\ \A v \in Units : /\ due[v] \subseteq due'[v]
                         /\ due'[v] \subseteq due[v] \cup {PeerChanged, DatabasesChange}

LEMMA ToldFacts ==
    ASSUME QueueType, NEW u \in Units, due' \in {due, Told(u)}
    PROVE  Raises
<1>1. CASE due' = due
  BY <1>1 DEF Raises, QueueType
<1>2. CASE due' = Told(u)
  BY <1>2, EventFacts DEF Raises, QueueType, Told
<1> QED BY <1>1, <1>2

LEMMA UpdateRaises ==
    ASSUME QueueType, NEW u \in Units, NEW g, NEW c, UpdateConfigFor(u, g, c)
    PROVE  Raises
<1>1. due' \in {due, Told(u)}
  BY DEF UpdateConfigFor
<1> QED BY <1>1, ToldFacts

\* A handler ends or defers its event; the one of relation-changed may put a request in its place.
Ran(u) == Drops(u) \/ Puts(u)

LEMMA HandledIs ==
    ASSUME QueueType, NEW u \in Units, NEW k, Handles(u, k)
    PROVE  /\ now[u] # <<>> /\ Head(now[u]).kind = k
           /\ k \in Kinds => Rel(u) \in Relations /\ Head(now[u]) = Event(k, Rel(u))
           /\ Done(u) => Drops(u)
           /\ Defer(u) => Puts(u)
  BY HeadFacts DEF Handles, Done, Defer, DeferAs, Drops, Puts

LEMMA RequestedMoves ==
    ASSUME QueueType, NEW u \in Units, OnDatabaseRequested(u)
    PROVE  Ran(u) /\ Raises
<1>1. Handles(u, "requested") /\ Head(now[u]) = Event("requested", Rel(u)) /\ now[u] # <<>>
  BY HandledIs DEF OnDatabaseRequested, Kinds
<1>2. Done(u) \/ DeferAs(u, Event("requested", Rel(u)))
  BY DEF OnDatabaseRequested, Requested
<1>3. Ran(u)
  BY <1>1, <1>2 DEF Ran, Drops, Puts, Done, DeferAs
<1>4. UpdateConfig(u) \/ UpdateConfigFor(u, granted \cup {Rel(u)}, Collected(u))
  BY DEF OnDatabaseRequested, Requested
<1> QED BY <1>3, <1>4, UpdateRaises DEF UpdateConfig

LEMMA ChangedMoves ==
    ASSUME QueueType, NEW u \in Units, OnChanged(u)
    PROVE  (Drops(u) \/ Emits(u, Rel(u))) /\ Raises
<1>1. Handles(u, "changed") /\ now[u] # <<>> /\ Rel(u) \notin legacy /\ due' = due /\ later' = later
  BY HandledIs DEF OnChanged
<1>0. Raises
  BY <1>1, ToldFacts
<1>2. CASE u = leader /\ Unseen(u, Rel(u))
  <2>1. /\ saved' = saved \cup {Rel(u)}
        /\ now' = [now EXCEPT ![u] = <<Event("requested", Rel(u))>> \o Tail(@)]
    BY <1>2 DEF OnChanged
  <2>2. Rel(u) \in knows[u] \ (saved \cup legacy) /\ Head(now[u]).kind = "changed"
    BY <1>1, <1>2 DEF Unseen, Handles
  <2> QED BY <1>0, <1>1, <2>1, <2>2 DEF Emits, Replaced
<1>3. CASE ~(u = leader /\ Unseen(u, Rel(u)))
  <2>1. now' = [now EXCEPT ![u] = Tail(@)]
    BY <1>3 DEF OnChanged
  <2> QED BY <1>0, <1>1, <2>1 DEF Drops
<1> QED BY <1>2, <1>3

LEMMA LegacyMoves ==
    ASSUME QueueType, NEW u \in Units, LegacyChangedOther(u) \/ LegacyChanged(u)
    PROVE  Ran(u) /\ Raises
<1>1. Handles(u, "changed")
  BY DEF LegacyChangedOther, LegacyChanged
<1>2. CASE LegacyChangedOther(u)
  <2>1. (Defer(u) /\ due' = due) \/ (Done(u) /\ UpdateConfig(u))
    BY <1>2 DEF LegacyChangedOther
  <2> QED BY <1>1, <2>1, HandledIs, UpdateRaises, ToldFacts DEF UpdateConfig, Ran
<1>3. CASE LegacyChanged(u)
  <2>1. Defer(u) \/ Done(u)
    BY <1>3 DEF LegacyChanged
  <2>2. \/ due' = due
        \/ UpdateConfigFor(u, granted \cup {Rel(u)}, Collected(u) \cup {Rel(u)})
    BY <1>3 DEF LegacyChanged
  <2> QED BY <1>1, <2>1, <2>2, HandledIs, UpdateRaises, ToldFacts DEF Ran
<1> QED BY <1>2, <1>3

LEMMA OtherMoves ==
    ASSUME QueueType, NEW u \in Units,
           OnDeparted(u) \/ OnBroken(u) \/ OnPeerChanged(u) \/ OnDatabasesChange(u) \/ NotReady(u)
    PROVE  Ran(u) /\ Raises
<1>1. CASE OnDeparted(u)
  BY <1>1, HandledIs, ToldFacts DEF OnDeparted, Ran
<1>2. CASE OnBroken(u)
  <2>1. Handles(u, "broken") /\ (Defer(u) \/ Done(u))
    BY <1>2 DEF OnBroken, OthersWait
  <2>2. due' = due \/ UpdateConfig(u) \/ UpdateConfigFor(u, granted \ {Rel(u)}, Collected(u))
    BY <1>2 DEF OnBroken
  <2> QED BY <2>1, <2>2, HandledIs, UpdateRaises, ToldFacts DEF UpdateConfig, Ran
<1>3. CASE OnPeerChanged(u)
  BY <1>3, HandledIs, UpdateRaises DEF OnPeerChanged, UpdateConfig, Ran
<1>4. CASE OnDatabasesChange(u)
  BY <1>4, HandledIs, ToldFacts DEF OnDatabasesChange, ToldOfDatabases, Ran
<1>5. CASE NotReady(u)
  <2>1. PICK k \in {"requested", "broken", "changed", "departed"} : Handles(u, k)
    BY <1>5 DEF NotReady
  <2> QED BY <1>5, <2>1, HandledIs, ToldFacts DEF NotReady, Ran
<1> QED BY <1>1, <1>2, <1>3, <1>4, <1>5

LEMMA HandlersMove ==
    ASSUME QueueType, NEW u \in Units, Handle(u) \/ NotReady(u)
    PROVE  /\ Ran(u) \/ (OnChanged(u) /\ Emits(u, Rel(u)))
           /\ Raises /\ UNCHANGED <<juju, chosen>>
<1>1. UNCHANGED <<juju, chosen>>
  BY DEF Handle, NotReady, OnDatabaseRequested, OnChanged, LegacyChangedOther, LegacyChanged,
         OnDeparted, OnBroken, OnPeerChanged, OnDatabasesChange
<1>2. CASE OnChanged(u)
  BY <1>1, <1>2, ChangedMoves DEF Ran
<1>3. CASE ~OnChanged(u)
  BY <1>1, <1>3, RequestedMoves, LegacyMoves, OtherMoves DEF Handle
<1> QED BY <1>2, <1>3

\* The steps outside a handler that leave the queues alone.
Outside(u) ==
    \/ RequestDies(u) \/ LegacyDies(u) \/ StartObserver(u) \/ Observe(u) \/ ObserverDies(u)
    \/ RemoveUnit(u) \/ RelationsEnd(u) \/ UnitGone(u) \/ Elect(u)
Relates(r) == Relate(r) \/ ClientChanges(r) \/ RemoveRelation(r)

LEMMA Steps ==
    ASSUME [Next]_vars
    PROVE  \/ UNCHANGED vars
           \/ \E r \in Relations : Relates(r)
           \/ ClientMakes
           \/ \E u \in Units : \/ \E e \in due[u] : Begin(u, e)
                               \/ BeginOther(u) \/ Handle(u) \/ NotReady(u) \/ Outside(u)
  BY DEF Next, Outside, Relates

LEMMA OutsideRests ==
    ASSUME QueueType, NEW u \in Units, Outside(u)
    PROVE  Rests
  BY DEF Outside, RequestDies, LegacyDies, Dies, StartObserver, Observe, ObserverDies, RemoveUnit,
         RelationsEnd, UnitGone, Elect, Rests

LEMMA RelatesRests ==
    ASSUME NEW r \in Relations, Relates(r) \/ ClientMakes
    PROVE  Rests
  BY DEF Relates, Relate, ClientChanges, RemoveRelation, ClientMakes, Rests

LEMMA BeginsTake ==
    ASSUME NEW u \in Units, NEW e \in due[u], Begin(u, e)
    PROVE  Takes(u, e)
  BY DEF Begin, Takes

LEMMA OthersResume ==
    ASSUME NEW u \in Units, BeginOther(u)
    PROVE  Resumes(u)
  BY DEF BeginOther, Resumes

-----------------------------------------------------------------------------
(* A request is emitted once. *)

\* What becomes due is of no kind that handlers emit.
NoneRequested ==
    /\ due' \in [Units -> SUBSET Events]
    /\ \A v \in Units : \A e \in due'[v] \ due[v] : e.kind # "requested"

LEMMA RaisesNone ==
    ASSUME Raises
    PROVE  NoneRequested
  BY EventFacts DEF Raises, NoneRequested

LEMMA OutsideDue ==
    ASSUME Typed, NEW u \in Units, Outside(u)
    PROVE  NoneRequested
<1> USE DEF Typed, JujuType, QueueType
<1>1. CASE due' = due
  BY <1>1 DEF NoneRequested
<1>2. CASE Observe(u)
  BY <1>2, EventFacts DEF Observe, NoneRequested
<1>3. CASE RemoveUnit(u)
  <2>1. {Event("departed", r) : r \in knows[u]} \subseteq Events
    BY EventFacts DEF Kinds
  <2>2. \A e \in {Event("departed", r) : r \in knows[u]} : e.kind = "departed"
    BY DEF Event
  <2> QED BY <1>3, <2>1, <2>2 DEF RemoveUnit, NoneRequested
<1>4. CASE RelationsEnd(u)
  <2>1. {Event("broken", r) : r \in knows[u]} \subseteq Events
    BY EventFacts DEF Kinds
  <2>2. \A e \in {Event("broken", r) : r \in knows[u]} : e.kind = "broken"
    BY DEF Event
  <2> QED BY <1>4, <2>1, <2>2 DEF RelationsEnd, NoneRequested
<1>5. CASE UnitGone(u) \/ StartObserver(u)
  BY <1>5, ToldFacts, RaisesNone DEF UnitGone, StartObserver
<1> QED BY <1>1, <1>2, <1>3, <1>4, <1>5
        DEF Outside, RequestDies, LegacyDies, Dies, ObserverDies, Elect

LEMMA RelatesDue ==
    ASSUME Typed, NEW r \in Relations, Relates(r)
    PROVE  NoneRequested
<1> USE DEF Typed, JujuType, QueueType
<1>1. /\ Event("changed", r) \in Events /\ Event("changed", r).kind = "changed"
      /\ Event("broken", r) \in Events /\ Event("broken", r).kind = "broken"
  BY EventFacts DEF Kinds
<1>2. CASE Relate(r)
  BY <1>1, <1>2 DEF Relate, NoneRequested
<1>3. CASE ClientChanges(r)
  BY <1>1, <1>3 DEF ClientChanges, NoneRequested
<1>4. CASE RemoveRelation(r)
  <2>1. \A v \in Units : due'[v] \in {due[v], Breaks(due[v], r)}
    BY <1>4 DEF RemoveRelation
  <2>2. due' \in [Units -> SUBSET Events]
    BY <1>1, <1>4 DEF RemoveRelation, Breaks
  <2> QED BY <1>1, <2>1, <2>2 DEF NoneRequested, Breaks
<1> QED BY <1>2, <1>3, <1>4 DEF Relates

LEMMA OnceRests ==
    ASSUME OnceInv, Rests, NoneRequested
    PROVE  OnceInv'
  BY DEF OnceInv, Rests, NoneRequested, Waits

LEMMA OnceMoves ==
    ASSUME OnceInv, NEW u \in Units, Others(u), NoneRequested,
           Once(now'[u]), Once(later'[u]),
           \A e \in ToSet(now'[u]) \cap ToSet(later'[u]) : e.kind # "requested",
           \A e \in ToSet(now'[u]) \cup ToSet(later'[u]) :
              e.kind = "requested" => e \in Waits(u) \/ \A v \in Units : e \notin Waits(v)
    PROVE  OnceInv'
<1>1. \A v \in Units : \A e \in due'[v] : e.kind # "requested"
  BY DEF OnceInv, NoneRequested
<1>2. \A v \in Units : /\ Once(now'[v]) /\ Once(later'[v])
                       /\ \A e \in ToSet(now'[v]) \cap ToSet(later'[v]) : e.kind # "requested"
  BY DEF OnceInv, Others
<1>3. ASSUME NEW v \in Units, NEW w \in Units \ {v}, NEW e \in Waits(v)' \cap Waits(w)',
             e.kind = "requested"
      PROVE  FALSE
  <2>1. \A x \in Units \ {u} : Waits(x)' = Waits(x)
    BY DEF Waits, Others
  <2>2. \A d \in Waits(u)' : d.kind = "requested" => d \in Waits(u) \/ \A x \in Units : d \notin Waits(x)
    BY DEF Waits
  <2>3. CASE v = u
    BY <1>3, <2>1, <2>2, <2>3 DEF OnceInv
  <2>4. CASE w = u
    BY <1>3, <2>1, <2>2, <2>4 DEF OnceInv
  <2>5. CASE v # u /\ w # u
    BY <1>3, <2>1, <2>5 DEF OnceInv
  <2> QED BY <2>3, <2>4, <2>5
<1> QED BY <1>1, <1>2, <1>3 DEF OnceInv

LEMMA RanOnce ==
    ASSUME Typed, OnceInv, NEW u \in Units, Ran(u), Raises
    PROVE  OnceInv' /\ QueueType'
<1> DEFINE h == Head(now[u])
<1>0. NoneRequested /\ now[u] \in Seq(Events) /\ later[u] \in Seq(Events) /\ now[u] # <<>>
  BY RaisesNone DEF Typed, QueueType, Ran, Drops, Puts
<1>1. /\ Once(now[u]) /\ Once(later[u])
      /\ \A e \in ToSet(now[u]) \cap ToSet(later[u]) : e.kind # "requested"
  BY DEF OnceInv
<1>2. /\ Once(Tail(now[u]))
      /\ h.kind = "requested" => h \notin ToSet(Tail(now[u]))
      /\ h \in Events /\ h \in ToSet(now[u])
  BY <1>0, <1>1, OnceFacts, HeadFacts DEF Typed
<1> HIDE DEF h
<1>3. CASE Drops(u)
  <2>1. /\ Others(u) /\ Queues /\ now'[u] = Tail(now[u]) /\ later'[u] = later[u]
        /\ ToSet(now'[u]) \subseteq ToSet(now[u])
    BY <1>3, DropsFacts DEF Typed
  <2>2. OnceInv'
    BY <1>0, <1>1, <1>2, <2>1, OnceMoves DEF Waits
  <2> QED BY <1>0, <2>1, <2>2 DEF Queues, QueueType, NoneRequested
<1>4. CASE Puts(u)
  <2>1. /\ Others(u) /\ Queues /\ now'[u] = Tail(now[u]) /\ later'[u] = Append(later[u], h)
        /\ ToSet(now'[u]) \subseteq ToSet(now[u]) /\ ToSet(later'[u]) = ToSet(later[u]) \cup {h}
    BY <1>4, PutsFacts DEF Typed, h
  <2>2. Once(later'[u])
    BY <1>0, <1>1, <1>2, <2>1, OnceFacts
  <2>3. \A e \in ToSet(now'[u]) \cap ToSet(later'[u]) : e.kind # "requested"
    BY <1>1, <1>2, <2>1
  <2>4. \A e \in ToSet(now'[u]) \cup ToSet(later'[u]) : e \in Waits(u)
    BY <1>2, <2>1 DEF Waits
  <2>5. OnceInv'
    BY <1>0, <1>2, <2>1, <2>2, <2>3, <2>4, OnceMoves
  <2> QED BY <1>0, <2>1, <2>5 DEF Queues, QueueType, NoneRequested
<1> QED BY <1>3, <1>4 DEF Ran

LEMMA EmitsOnce ==
    ASSUME Typed, OnceInv, RequestInv, NEW u \in Units, NEW r, Emits(u, r), Raises
    PROVE  OnceInv' /\ QueueType'
<1> DEFINE e == Event("requested", r)
<1>0. /\ NoneRequested /\ now[u] \in Seq(Events) /\ now[u] # <<>>
      /\ e \in Events /\ e.kind = "requested" /\ e.rel = r
  BY RaisesNone, EmitsFacts DEF Typed, QueueType, Emits, Event
<1>1. \A v \in Units : e \notin Waits(v)
  BY <1>0 DEF RequestInv, Emits
<1> HIDE DEF e
<1>2. /\ Others(u) /\ Queues /\ now'[u] = Replaced(now[u], e) /\ later'[u] = later[u]
      /\ ToSet(now'[u]) = ToSet(Tail(now[u])) \cup {e} /\ ToSet(Tail(now[u])) \subseteq ToSet(now[u])
  BY EmitsFacts DEF e
<1>3. /\ Once(now[u]) /\ Once(later[u])
      /\ \A d \in ToSet(now[u]) \cap ToSet(later[u]) : d.kind # "requested"
  BY DEF OnceInv
<1>4. Once(now'[u])
  BY <1>0, <1>1, <1>2, <1>3, OnceFacts DEF Waits
<1>5. \A d \in ToSet(now'[u]) \cap ToSet(later'[u]) : d.kind # "requested"
  BY <1>1, <1>2, <1>3 DEF Waits
<1>6. \A d \in ToSet(now'[u]) \cup ToSet(later'[u]) : d \in Waits(u) \/ d = e
  BY <1>2 DEF Waits
<1>7. OnceInv'
  BY <1>0, <1>1, <1>2, <1>3, <1>4, <1>5, <1>6, OnceMoves
<1> QED BY <1>0, <1>2, <1>7 DEF Queues, QueueType, NoneRequested

LEMMA TakesOnce ==
    ASSUME Typed, OnceInv, NEW u \in Units, NEW e \in due[u], Takes(u, e)
    PROVE  OnceInv' /\ QueueType'
<1>1. /\ Others(u) /\ Queues /\ e \in Events
      /\ now'[u] = Append(later[u], e) /\ ToSet(now'[u]) = ToSet(later[u]) \cup {e}
      /\ later'[u] = <<>> /\ ToSet(later'[u]) = {}
      /\ due' \in [Units -> SUBSET Events] /\ \A v \in Units : due'[v] \subseteq due[v]
  BY TakesFacts DEF Typed
<1>2. later[u] \in Seq(Events) /\ Once(later[u]) /\ e.kind # "requested" /\ Once(<<>>)
  BY EmptyElements DEF OnceInv, Typed, QueueType
<1>3. Once(now'[u]) /\ Once(later'[u]) /\ NoneRequested
  BY <1>1, <1>2, OnceFacts DEF NoneRequested
<1>4. OnceInv'
  BY <1>1, <1>2, <1>3, OnceMoves DEF Waits
<1> QED BY <1>1, <1>4 DEF Queues, QueueType

LEMMA ResumesOnce ==
    ASSUME Typed, OnceInv, NEW u \in Units, Resumes(u), due' = due
    PROVE  OnceInv' /\ QueueType'
<1>1. /\ Others(u) /\ Queues /\ now'[u] = later[u]
      /\ later'[u] = <<>> /\ ToSet(later'[u]) = {}
  BY ResumesFacts DEF Typed
<1>2. Once(later[u]) /\ Once(<<>>) /\ NoneRequested
  BY EmptyElements DEF OnceInv, Typed, QueueType, NoneRequested
<1>3. OnceInv'
  BY <1>1, <1>2, OnceMoves DEF Waits
<1> QED BY <1>1, <1>2, <1>3 DEF Queues, QueueType, NoneRequested

LEMMA OnceKept ==
    ASSUME Typed, OnceInv, RequestInv, [Next]_vars
    PROVE  OnceInv' /\ QueueType'
<1>1. ASSUME Rests, NoneRequested
      PROVE  OnceInv' /\ QueueType'
  BY <1>1, OnceRests DEF Typed, QueueType, Rests, NoneRequested
<1>2. CASE UNCHANGED vars
  BY <1>1, <1>2 DEF vars, Rests, NoneRequested, Typed, QueueType
<1>3. ASSUME NEW r \in Relations, Relates(r)
      PROVE  OnceInv' /\ QueueType'
  BY <1>1, <1>3, RelatesRests, RelatesDue
<1>4. CASE ClientMakes
  <2>1. Rests /\ due' = due
    BY <1>4 DEF ClientMakes, Rests
  <2> QED BY <1>1, <2>1 DEF NoneRequested, Typed, QueueType
<1>5. ASSUME NEW u \in Units, NEW e \in due[u], Begin(u, e)
      PROVE  OnceInv' /\ QueueType'
  BY <1>5, BeginsTake, TakesOnce
<1>6. ASSUME NEW u \in Units, BeginOther(u)
      PROVE  OnceInv' /\ QueueType'
  BY <1>6, OthersResume, ResumesOnce DEF BeginOther
<1>7. ASSUME NEW u \in Units, Handle(u) \/ NotReady(u)
      PROVE  OnceInv' /\ QueueType'
  BY <1>7, HandlersMove, RanOnce, EmitsOnce DEF Typed
<1>8. ASSUME NEW u \in Units, Outside(u)
      PROVE  OnceInv' /\ QueueType'
  BY <1>1, <1>8, OutsideRests, OutsideDue DEF Typed
<1> QED BY <1>2, <1>3, <1>4, <1>5, <1>6, <1>7, <1>8, Steps

-----------------------------------------------------------------------------
(* What the steps do to the users and the credentials. *)

UserMade(r, n) ==
    /\ n \in Nat \ {0} /\ users' = [users EXCEPT ![r] = n]
    /\ passwords' \in {passwords, [passwords EXCEPT ![r] = n]}
    /\ granted' \in {granted, granted \cup {r}} /\ made' = made

\* The user of a request, whose credentials are published unless something fails; one that a
\* hook makes before it dies.
Creates(u, r, n) ==
    /\ UserMade(r, n) /\ own' = own
    /\ \/ /\ OnDatabaseRequested(u) /\ Drops(u) /\ Head(now[u]) = Event("requested", r)
          /\ \/ bag' = bag
             \/ bag' = [bag EXCEPT ![r] = n] /\ Synced(u) /\ r \in knows[u]
                /\ UpdateConfigFor(u, granted \cup {r}, Collected(u))
       \/ /\ Head(now[u]) \in ToSet(now[u]) /\ Head(now[u]) = Event("requested", r)
          /\ Rests /\ bag' = bag
       \/ r \notin legacy \cup saved /\ Rests /\ bag' = bag
\* The user of a legacy relation, with the credentials published or, if it fails, not.
SetsUp(u, r, n) ==
    /\ UserMade(r, n) /\ r \in legacy /\ r \in knows[u] /\ Handles(u, "changed")
    /\ \/ own' = [own EXCEPT ![u][r] = n] /\ bag' = [bag EXCEPT ![r] = n]
       \/ own' = own /\ bag' = bag /\ incidents' \cap {"died", "failed"} # {}
Removes(u, r) ==
    /\ Handles(u, "broken") /\ Rel(u) = r /\ u \notin departing
    /\ users' = [users EXCEPT ![r] = 0] /\ granted' = granted \ {r}
    /\ UNCHANGED <<passwords, bag, own, made>>
SameData == UNCHANGED <<users, granted, passwords, bag, own>>

LEMMA RequestedData ==
    ASSUME Typed, NEW u \in Units, OnDatabaseRequested(u)
    PROVE  (SameData /\ made' = made) \/ \E r \in Relations, n \in Nat : Creates(u, r, n)
<1> DEFINE r == Rel(u)
           n == passwords[r] + 1
<1>1. /\ r \in Relations /\ Handles(u, "requested") /\ Head(now[u]) = Event("requested", r)
      /\ Done(u) => Drops(u)
  BY HandledIs DEF OnDatabaseRequested, Kinds, Typed
<1>2. n \in Nat \ {0}
  BY <1>1 DEF Typed, DataType
<1>3. Requested(u, r) /\ own' = own
  BY DEF OnDatabaseRequested
<1>4. CASE UNCHANGED <<bag, database>>
  BY <1>3, <1>4 DEF SameData
<1>5. CASE /\ Synced(u) /\ r \in knows[u]
           /\ CreateUser(r) /\ granted' = granted \cup {r} /\ bag' = Published(u, r)
           /\ Done(u) /\ UpdateConfigFor(u, granted \cup {r}, Collected(u))
  <2>1. UserMade(r, n)
    BY <1>2, <1>5 DEF UserMade, CreateUser
  <2>2. bag' = bag \/ bag' = [bag EXCEPT ![r] = n]
    BY <1>5 DEF Published
  <2>3. Creates(u, r, n)
    BY <1>1, <1>3, <1>5, <2>1, <2>2 DEF Creates
  <2> QED BY <1>1, <1>2, <2>3
<1>6. CASE CreateUser(r) /\ granted' = granted /\ Done(u) /\ bag' = bag
  <2>1. UserMade(r, n)
    BY <1>2, <1>6 DEF UserMade, CreateUser
  <2>2. Creates(u, r, n)
    BY <1>1, <1>3, <1>6, <2>1 DEF Creates
  <2> QED BY <1>1, <1>2, <2>2
<1> QED BY <1>3, <1>4, <1>5, <1>6 DEF Requested

LEMMA RequestDiesData ==
    ASSUME Typed, NEW u \in Units, RequestDies(u)
    PROVE  \E r \in Relations, n \in Nat : Creates(u, r, n)
<1> DEFINE r == Rel(u)
           n == passwords[r] + 1
<1>1. CASE Handles(u, "requested")
  <2>1. r \in Relations /\ Head(now[u]) = Event("requested", r) /\ Head(now[u]) \in ToSet(now[u])
    BY <1>1, HandledIs, HeadFacts DEF Kinds, Typed
  <2>2. n \in Nat \ {0}
    BY <2>1 DEF Typed, DataType
  <2>3. UserMade(r, n)
    BY <2>2 DEF UserMade, CreateUser, RequestDies
  <2>4. Creates(u, r, n)
    BY <2>1, <2>3 DEF Creates, RequestDies, Dies, Rests
  <2> QED BY <2>1, <2>2, <2>4
<1>2. CASE Handles(u, "changed") /\ r \notin legacy \cup saved
  <2>1. r \in Relations
    BY <1>2, HandledIs DEF Kinds, Typed
  <2>2. n \in Nat \ {0}
    BY <2>1 DEF Typed, DataType
  <2>3. UserMade(r, n)
    BY <2>2 DEF UserMade, CreateUser, RequestDies
  <2>4. Creates(u, r, n)
    BY <1>2, <2>3 DEF Creates, RequestDies, Dies, Rests
  <2> QED BY <2>1, <2>2, <2>4
<1> QED BY <1>1, <1>2 DEF RequestDies

LEMMA SetUpFacts ==
    ASSUME Typed, NEW u \in Units, NEW r \in Relations, SetUp(u, r), granted' \in {granted, granted \cup {r}}
    PROVE  \E n \in Nat : UserMade(r, n) /\ users'[r] = n
<1> DEFINE n == IF own[u][r] = 0 THEN passwords[r] + 1 ELSE own[u][r]
<1>1. n \in Nat \ {0}
  BY DEF Typed, DataType
<1>2. users' = [users EXCEPT ![r] = n] /\ users'[r] = n
  BY DEF SetUp, Typed, DataType
<1>3. passwords' \in {passwords, [passwords EXCEPT ![r] = n]} /\ made' = made
  BY DEF SetUp
<1> QED BY <1>1, <1>2, <1>3 DEF UserMade

LEMMA LegacyData ==
    ASSUME Typed, NEW u \in Units, LegacyChanged(u) \/ LegacyDies(u)
    PROVE  (SameData /\ made' = made) \/ \E r \in Relations, n \in Nat : SetsUp(u, r, n)
<1> DEFINE r == Rel(u)
<1>1. Handles(u, "changed") /\ r \in Relations /\ r \in legacy
  BY HandledIs DEF LegacyChanged, LegacyDies, Kinds, Typed
<1>2. CASE UNCHANGED <<bag, own, database>>
  BY <1>2 DEF SameData
<1>3. CASE /\ r \in knows[u] /\ SetUp(u, r) /\ granted' = granted \cup {r}
           /\ own' = [own EXCEPT ![u][r] = users'[r]] /\ bag' = [bag EXCEPT ![r] = users'[r]]
  <2>1. PICK n \in Nat : UserMade(r, n) /\ users'[r] = n
    BY <1>1, <1>3, SetUpFacts
  <2>2. SetsUp(u, r, n)
    BY <1>1, <1>3, <2>1 DEF SetsUp
  <2> QED BY <1>1, <2>2
<1>4. CASE /\ r \in knows[u] /\ SetUp(u, r) /\ granted' \in {granted, granted \cup {r}}
           /\ UNCHANGED <<own, bag>> /\ incidents' \cap {"died", "failed"} # {}
  <2>1. PICK n \in Nat : UserMade(r, n) /\ users'[r] = n
    BY <1>1, <1>4, SetUpFacts
  <2>2. SetsUp(u, r, n)
    BY <1>1, <1>4, <2>1 DEF SetsUp
  <2> QED BY <1>1, <2>2
<1>5. CASE LegacyChanged(u)
  <2>1. \A i : Incident(i) => i \in incidents'
    BY DEF Incident
  <2> QED BY <1>2, <1>3, <1>4, <1>5, <2>1 DEF LegacyChanged
<1>6. CASE LegacyDies(u)
  BY <1>4, <1>6 DEF LegacyDies, Dies, Incident
<1> QED BY <1>5, <1>6

LEMMA BrokenData ==
    ASSUME Typed, NEW u \in Units, OnBroken(u)
    PROVE  (SameData /\ made' = made) \/ \E r \in Relations : Removes(u, r)
<1>1. Handles(u, "broken") /\ Rel(u) \in Relations /\ UNCHANGED <<bag, own>>
  BY HandledIs DEF OnBroken, Kinds, Typed
<1>2. UNCHANGED database \/ (u \notin departing /\ DeleteUser(Rel(u)))
  BY DEF OnBroken
<1> QED BY <1>1, <1>2 DEF Removes, DeleteUser, SameData

LEMMA DataSteps ==
    ASSUME Typed, [Next]_vars
    PROVE  \/ SameData /\ made' \in {made, made + 1}
           \/ \E u \in Units, r \in Relations :
                 \/ \E n \in Nat : Creates(u, r, n) \/ SetsUp(u, r, n)
                 \/ Removes(u, r)
<1>1. CASE UNCHANGED vars
  BY <1>1 DEF vars, SameData
<1>2. ASSUME NEW r \in Relations, Relates(r)
      PROVE  SameData /\ made' = made
  BY <1>2 DEF Relates, Relate, ClientChanges, RemoveRelation, SameData
<1>3. CASE ClientMakes
  BY <1>3 DEF ClientMakes, SameData
<1>4. ASSUME NEW u \in Units, NEW e, Begin(u, e)
      PROVE  SameData /\ made' = made
  BY <1>4 DEF Begin, SameData
<1>5. ASSUME NEW u \in Units, BeginOther(u) \/ NotReady(u)
      PROVE  SameData /\ made' = made
  BY <1>5 DEF BeginOther, NotReady, SameData
<1>6. ASSUME NEW u \in Units, OnChanged(u) \/ LegacyChangedOther(u) \/ OnDeparted(u) \/ OnPeerChanged(u)
                               \/ OnDatabasesChange(u)
      PROVE  SameData /\ made' = made
  BY <1>6 DEF OnChanged, LegacyChangedOther, OnDeparted, OnPeerChanged, OnDatabasesChange, SameData
<1>7. ASSUME NEW u \in Units,
             \/ StartObserver(u) \/ Observe(u) \/ ObserverDies(u)
             \/ RemoveUnit(u) \/ RelationsEnd(u) \/ UnitGone(u) \/ Elect(u)
      PROVE  SameData /\ made' = made
  BY <1>7 DEF StartObserver, Observe, ObserverDies, RemoveUnit, RelationsEnd, UnitGone, Elect,
              SameData
<1>8. ASSUME NEW u \in Units, OnDatabaseRequested(u)
      PROVE  (SameData /\ made' = made) \/ \E r \in Relations, n \in Nat : Creates(u, r, n)
  BY <1>8, RequestedData
<1>9. ASSUME NEW u \in Units, RequestDies(u)
      PROVE  \E r \in Relations, n \in Nat : Creates(u, r, n)
  BY <1>9, RequestDiesData
<1>10. ASSUME NEW u \in Units, LegacyChanged(u) \/ LegacyDies(u)
       PROVE  (SameData /\ made' = made) \/ \E r \in Relations, n \in Nat : SetsUp(u, r, n)
  BY <1>10, LegacyData
<1>11. ASSUME NEW u \in Units, OnBroken(u)
       PROVE  (SameData /\ made' = made) \/ \E r \in Relations : Removes(u, r)
  BY <1>11, BrokenData
<1> QED BY <1>1, <1>2, <1>3, <1>4, <1>5, <1>6, <1>7, <1>8, <1>9, <1>10, <1>11, Steps DEF Handle,
                                                                                         Outside

LEMMA DataTyped ==
    ASSUME Typed, [Next]_vars
    PROVE  DataType'
<1>1. CASE SameData /\ made' \in {made, made + 1}
  BY <1>1 DEF SameData, DataType, Typed
<1>2. ASSUME NEW r \in Relations, NEW n, UserMade(r, n), own' \in [Units -> [Relations -> Nat]],
             bag' \in {bag, [bag EXCEPT ![r] = n]}
      PROVE  DataType'
  <2>1. n \in Nat \ {0} /\ users' \in [Relations -> Nat] /\ users'[r] = n
    BY <1>2 DEF UserMade, Typed, DataType
  <2>2. granted' \subseteq {q \in Relations : users'[q] # 0}
    BY <1>2, <2>1 DEF UserMade, Typed, DataType
  <2>3. passwords' \in [Relations -> Nat] /\ bag' \in [Relations -> Nat] /\ made' \in Nat
    BY <1>2, <2>1 DEF UserMade, Typed, DataType
  <2> QED BY <1>2, <2>1, <2>2, <2>3 DEF DataType
<1>3. ASSUME NEW u \in Units, NEW r \in Relations, NEW n \in Nat, Creates(u, r, n)
      PROVE  DataType'
  BY <1>2, <1>3 DEF Creates, Typed, DataType
<1>4. ASSUME NEW u \in Units, NEW r \in Relations, NEW n \in Nat, SetsUp(u, r, n)
      PROVE  DataType'
  <2>1. own' \in [Units -> [Relations -> Nat]]
    BY <1>4 DEF SetsUp, Typed, DataType
  <2> QED BY <1>2, <1>4, <2>1 DEF SetsUp
<1>5. ASSUME NEW u \in Units, NEW r \in Relations, Removes(u, r)
      PROVE  DataType'
  BY <1>5 DEF Removes, DataType, Typed
<1> QED BY <1>1, <1>3, <1>4, <1>5, DataSteps

-----------------------------------------------------------------------------
(* What the steps do to the files. *)

LEMMA CollectedFacts ==
    ASSUME Typed, NEW u \in Units
    PROVE  /\ Collected(u) \subseteq Relations /\ knows[u] \ legacy \subseteq Collected(u)
           /\ Collected(u) \subseteq knows[u]
  BY DEF Typed, JujuType, Collected

\* A unit writes its file for all the relations of "database" that it knows.
Writes(u) ==
    \E g \in SUBSET Relations, c \in SUBSET Relations :
        knows[u] \ legacy \subseteq c /\ Written(u, g, c)

LEMMA UpdateWrites ==
    ASSUME Typed, NEW u \in Units, NEW g \in SUBSET Relations,
           NEW c \in {Collected(u)} \cup {Collected(u) \cup {r} : r \in Relations},
           UpdateConfigFor(u, g, c)
    PROVE  Writes(u)
<1>1. c \in SUBSET Relations /\ knows[u] \ legacy \subseteq c
  BY CollectedFacts
<1> QED BY <1>1 DEF UpdateConfigFor, Writes

LEMMA HandlerFiles ==
    ASSUME Typed, NEW u \in Units, Handle(u)
    PROVE  files' = files \/ Writes(u)
<1>0. granted \subseteq Relations
  BY DEF Typed, DataType
<1>1. ASSUME UpdateConfig(u)
      PROVE  Writes(u)
  BY <1>0, <1>1, UpdateWrites DEF UpdateConfig
<1>2. CASE OnDatabaseRequested(u)
  <2>1. Rel(u) \in Relations
    BY <1>2, HandledIs DEF OnDatabaseRequested, Kinds, Typed
  <2>2. UpdateConfig(u) \/ UpdateConfigFor(u, granted \cup {Rel(u)}, Collected(u))
    BY <1>2 DEF OnDatabaseRequested, Requested
  <2>3. granted \cup {Rel(u)} \in SUBSET Relations
    BY <1>0, <2>1
  <2> QED BY <1>1, <2>2, <2>3, UpdateWrites
<1>3. CASE LegacyChanged(u)
  <2>1. Rel(u) \in Relations
    BY <1>3, HandledIs DEF LegacyChanged, Kinds, Typed
  <2>2. \/ files' = files
        \/ UpdateConfigFor(u, granted \cup {Rel(u)}, Collected(u) \cup {Rel(u)})
    BY <1>3 DEF LegacyChanged
  <2>3. granted \cup {Rel(u)} \in SUBSET Relations
    BY <1>0, <2>1
  <2> QED BY <2>1, <2>2, <2>3, UpdateWrites
<1>4. CASE OnBroken(u)
  <2>1. \/ files' = files \/ UpdateConfig(u)
        \/ UpdateConfigFor(u, granted \ {Rel(u)}, Collected(u))
    BY <1>4 DEF OnBroken
  <2>2. granted \ {Rel(u)} \in SUBSET Relations
    BY <1>0
  <2> QED BY <1>1, <2>1, <2>2, UpdateWrites
<1>5. CASE OnDatabasesChange(u)
  <2>1. Written(u, granted, Collected(u))
    BY <1>5 DEF OnDatabasesChange
  <2>2. granted \in SUBSET Relations /\ Collected(u) \in SUBSET Relations /\ knows[u] \ legacy \subseteq Collected(u)
    BY <1>0, CollectedFacts
  <2> QED BY <2>1, <2>2 DEF Writes
<1>6. CASE OnPeerChanged(u) \/ LegacyChangedOther(u)
  BY <1>1, <1>6 DEF OnPeerChanged, LegacyChangedOther
<1>7. CASE OnChanged(u) \/ OnDeparted(u)
  BY <1>7 DEF OnChanged, OnDeparted
<1> QED BY <1>2, <1>3, <1>4, <1>5, <1>6, <1>7 DEF Handle

LEMMA FilesSteps ==
    ASSUME Typed, [Next]_vars
    PROVE  files' = files \/ \E u \in Units : Writes(u)
<1>1. CASE UNCHANGED vars
  BY <1>1 DEF vars
<1>2. ASSUME NEW r \in Relations, Relates(r)
      PROVE  files' = files
  BY <1>2 DEF Relates, Relate, ClientChanges, RemoveRelation
<1>3. CASE ClientMakes
  BY <1>3 DEF ClientMakes
<1>4. ASSUME NEW u \in Units, NEW e, Begin(u, e)
      PROVE  files' = files
  BY <1>4 DEF Begin
<1>5. ASSUME NEW u \in Units, BeginOther(u) \/ NotReady(u)
      PROVE  files' = files
  BY <1>5 DEF BeginOther, NotReady
<1>6. ASSUME NEW u \in Units, Outside(u)
      PROVE  files' = files
  BY <1>6 DEF Outside, RequestDies, LegacyDies, StartObserver, Observe, ObserverDies, RemoveUnit,
              RelationsEnd, UnitGone, Elect
<1> QED BY <1>1, <1>2, <1>3, <1>4, <1>5, <1>6, HandlerFiles, Steps

LEMMA ObserverTyped ==
    ASSUME Typed, [Next]_vars
    PROVE  watched' \in [Units -> Nat] /\ missed' \in BOOLEAN
<1> USE DEF Typed, FilesType, DataType
<1>1. CASE UNCHANGED vars
  BY <1>1 DEF vars
<1>2. ASSUME NEW r \in Relations, Relates(r)
      PROVE  UNCHANGED observer
  BY <1>2 DEF Relates, Relate, ClientChanges, RemoveRelation
<1>3. ASSUME NEW u \in Units, Handle(u)
      PROVE  UNCHANGED observer
  BY <1>3 DEF Handle, OnDatabaseRequested, OnChanged, LegacyChangedOther, LegacyChanged,
              OnDeparted, OnBroken, OnPeerChanged, OnDatabasesChange
<1>4. ASSUME NEW u \in Units, NotReady(u) \/ BeginOther(u) \/ \E e : Begin(u, e)
      PROVE  UNCHANGED observer
  BY <1>4 DEF NotReady, BeginOther, Begin
<1>5. ASSUME NEW u \in Units, Observe(u)
      PROVE  watched' \in [Units -> Nat] /\ missed' \in BOOLEAN
  BY <1>5 DEF Observe
<1>6. ASSUME NEW u \in Units, StartObserver(u) \/ ObserverDies(u)
      PROVE  watched' \in [Units -> Nat] /\ missed' \in BOOLEAN
  <2>1. missed' = missed /\ \E n \in {98, 99} : watched' = [watched EXCEPT ![u] = n]
    BY <1>6 DEF StartObserver, ObserverDies, NotYet, NoObserver
  <2> QED BY <2>1
<1>7. ASSUME NEW u \in Units, Outside(u)
      PROVE  watched' \in [Units -> Nat] /\ missed' \in BOOLEAN
  BY <1>5, <1>6, <1>7 DEF Outside, RequestDies, LegacyDies, RemoveUnit, RelationsEnd, UnitGone,
                          Elect
<1>8. ClientMakes => UNCHANGED observer
  BY DEF ClientMakes
<1> QED BY <1>1, <1>2, <1>3, <1>4, <1>7, <1>8, Steps

LEMMA FilesTyped ==
    ASSUME Typed, [Next]_vars
    PROVE  FilesType'
<1>1. watched' \in [Units -> Nat] /\ missed' \in BOOLEAN
  BY ObserverTyped
<1>2. CASE files' = files
  BY <1>1, <1>2 DEF Typed, FilesType
<1>3. ASSUME NEW u \in Units, Writes(u)
      PROVE  FilesType'
  <2>1. PICK g \in SUBSET Relations, c \in SUBSET Relations : Written(u, g, c)
    BY <1>3 DEF Writes
  <2>2. hash' \in [Units -> SUBSET Relations]
    BY <2>1 DEF Written, Typed, FilesType
  <2>3. hba' \in [Units -> SUBSET Relations] /\ hbaMade' \in [Units -> Nat]
    <3>1. CASE hba' = [hba EXCEPT ![u] = g \cup c] /\ hbaMade' = [hbaMade EXCEPT ![u] = made]
      BY <3>1 DEF Typed, FilesType, DataType
    <3>2. CASE hba' = [hba EXCEPT ![u] = {}] /\ hbaMade' = [hbaMade EXCEPT ![u] = 0]
      BY <3>2 DEF Typed, FilesType
    <3>3. CASE UNCHANGED <<hba, hbaMade>>
      BY <3>3 DEF Typed, FilesType
    <3> QED BY <2>1, <3>1, <3>2, <3>3 DEF Written, LetIn
  <2> QED BY <1>1, <2>2, <2>3 DEF FilesType
<1> QED BY <1>2, <1>3, FilesSteps

-----------------------------------------------------------------------------
(* What the steps do to the statuses. *)

\* A unit that is blocked after a handler has the reason at hand, or was blocked and goes on
\* with the end of the relation, or has not seen one.
BlocksFor(u) ==
    /\ blocked' \in [Units -> {"", "endpoints", "roles", "extensions", "failed", "delete"}]
    /\ \A v \in Units \ {u} : blocked'[v] = blocked[v]
    /\ blocked'[u] = "roles" =>
          \/ (knows[u] \cap bad) \ legacy # {}
          \/ /\ blocked[u] = "roles"
             /\ \/ Puts(u) \/ u \in departing
                \/ ~(Head(now[u]).kind = "broken" /\ Rel(u) \notin legacy)
    /\ blocked'[u] = "endpoints" =>
          \/ Multiple(u) /\ u = leader
          \/ /\ blocked[u] = "endpoints"
             /\ \/ Puts(u) \/ u \in departing \/ u # leader
                \/ Head(now[u]).kind # "broken"

LEMMA SameStatus ==
    ASSUME Typed, NEW u \in Units, blocked' = blocked, Puts(u) \/ Head(now[u]).kind # "broken"
    PROVE  BlocksFor(u)
  BY DEF BlocksFor, Typed, StatusType

LEMMA NewStatus ==
    ASSUME Typed, NEW u \in Units,
           NEW x \in {"", "endpoints", "roles", "extensions", "failed", "delete"},
           blocked' = [blocked EXCEPT ![u] = x],
           x = "roles" => \/ (knows[u] \cap bad) \ legacy # {}
                          \/ /\ blocked[u] = "roles"
                             /\ \/ u \in departing
                                \/ ~(Head(now[u]).kind = "broken" /\ Rel(u) \notin legacy),
           x = "endpoints" => \/ Multiple(u) /\ u = leader
                              \/ /\ blocked[u] = "endpoints"
                                 /\ u \in departing \/ u # leader \/ Head(now[u]).kind # "broken"
    PROVE  BlocksFor(u)
  BY DEF BlocksFor, Typed, StatusType

LEMMA ClearedFacts ==
    ASSUME Typed, NEW u \in Units, NEW r
    PROVE  /\ Cleared(u, r) \in {"", blocked[u]} /\ ClearedLegacy(u, r) \in {"", blocked[u]}
           /\ blocked[u] \in {"", "endpoints", "roles", "extensions", "failed", "delete"}
           /\ Cleared(u, r) = "roles" => (knows[u] \cap bad) \ legacy # {}
           /\ Cleared(u, r) = "endpoints" => Multiple(u)
           /\ ClearedLegacy(u, r) = "endpoints" => Multiple(u)
  BY DEF Cleared, ClearedLegacy, InvalidRoles, Typed, StatusType

LEMMA BrokenStatus ==
    ASSUME Typed, NEW u \in Units, OnBroken(u)
    PROVE  BlocksFor(u)
<1> DEFINE r == Rel(u)
<1>1. Handles(u, "broken") /\ r \in Relations
  BY HandledIs DEF OnBroken, Kinds, Typed
<1>2. CASE blocked' = StatusOfBroken(u, r)
  <2>1. CASE r \notin legacy
    <3>1. blocked' = [blocked EXCEPT ![u] = Cleared(u, r)]
      BY <1>2, <2>1 DEF StatusOfBroken
    <3>2. Cleared(u, r) = "endpoints" => Multiple(u) /\ (u = leader \/ blocked[u] = "endpoints")
      BY ClearedFacts
    <3>3. /\ Cleared(u, r) \in {"", "endpoints", "roles", "extensions", "failed", "delete"}
          /\ Cleared(u, r) = "roles" => (knows[u] \cap bad) \ legacy # {}
      BY ClearedFacts
    <3>4. CASE u = leader
      BY <3>1, <3>2, <3>3, <3>4, NewStatus
    <3>5. CASE u # leader
      BY <3>1, <3>2, <3>3, <3>5, NewStatus
    <3> QED BY <3>4, <3>5
  <2>2. CASE r \in legacy /\ u = leader /\ u \notin departing
    <3>1. blocked' = [blocked EXCEPT ![u] = ClearedLegacy(u, r)]
      BY <1>2, <2>2 DEF StatusOfBroken
    <3>2. /\ ClearedLegacy(u, r) \in {"", "endpoints", "roles", "extensions", "failed", "delete"}
          /\ ClearedLegacy(u, r) = "endpoints" => Multiple(u)
          /\ ClearedLegacy(u, r) = "roles" => blocked[u] = "roles"
      BY ClearedFacts
    <3> QED BY <2>2, <3>1, <3>2, NewStatus
  <2>3. CASE r \in legacy /\ ~(u = leader /\ u \notin departing)
    <3>1. blocked' = blocked
      BY <1>2, <2>3 DEF StatusOfBroken
    <3> QED BY <2>3, <3>1 DEF BlocksFor, Typed, StatusType
  <2> QED BY <2>1, <2>2, <2>3
<1>3. CASE blocked' = [blocked EXCEPT ![u] = "delete"]
  BY <1>3, NewStatus
<1> QED BY <1>2, <1>3 DEF OnBroken

LEMMA RequestedStatus ==
    ASSUME Typed, RequestInv, NEW u \in Units, OnDatabaseRequested(u)
    PROVE  BlocksFor(u)
<1> DEFINE r == Rel(u)
<1>1. /\ Handles(u, "requested") /\ r \in Relations /\ now[u] # <<>>
      /\ Head(now[u]).kind # "broken" /\ Head(now[u]).kind = "requested"
  BY HandledIs DEF OnDatabaseRequested, Kinds, Typed
<1>2. r \notin legacy
  BY <1>1, HeadFacts DEF RequestInv, Typed, JujuType, Rel
<1>3. CASE blocked' = blocked
  BY <1>1, <1>3, SameStatus
<1>4. CASE r \in bad \cap knows[u] /\ blocked' = [blocked EXCEPT ![u] = "roles"]
  <2>1. (knows[u] \cap bad) \ legacy # {}
    BY <1>2, <1>4
  <2> QED BY <1>4, <2>1, NewStatus
<1>5. CASE blocked' = [blocked EXCEPT ![u] = Cleared(u, r)]
  <2>1. /\ Cleared(u, r) \in {"", "endpoints", "roles", "extensions", "failed", "delete"}
        /\ Cleared(u, r) = "roles" => (knows[u] \cap bad) \ legacy # {}
        /\ Cleared(u, r) = "endpoints" => blocked[u] = "endpoints"
    BY ClearedFacts
  <2> QED BY <1>1, <1>5, <2>1, NewStatus
<1>6. CASE blocked' = [blocked EXCEPT ![u] = "failed"]
  BY <1>6, NewStatus
<1> QED BY <1>3, <1>4, <1>5, <1>6 DEF OnDatabaseRequested, Requested

LEMMA LegacyStatus ==
    ASSUME Typed, NEW u \in Units, LegacyChanged(u)
    PROVE  BlocksFor(u)
<1> DEFINE r == Rel(u)
<1>1. /\ Handles(u, "changed") /\ now[u] # <<>> /\ Head(now[u]).kind # "broken" /\ u = leader
  BY HandledIs DEF LegacyChanged, Typed
<1>2. CASE Multiple(u) /\ blocked' = [blocked EXCEPT ![u] = "endpoints"]
  BY <1>1, <1>2, NewStatus
<1>3. CASE blocked' = blocked
  BY <1>1, <1>3, SameStatus
<1>4. CASE blocked' = [blocked EXCEPT ![u] = "extensions"] \/ blocked' = [blocked EXCEPT ![u] = "failed"]
  BY <1>4, NewStatus
<1>5. CASE blocked' = [blocked EXCEPT ![u] = ClearedLegacy(u, r)]
  <2>1. /\ ClearedLegacy(u, r) \in {"", "endpoints", "roles", "extensions", "failed", "delete"}
        /\ ClearedLegacy(u, r) = "endpoints" => Multiple(u)
        /\ ClearedLegacy(u, r) = "roles" => blocked[u] = "roles"
    BY ClearedFacts
  <2> QED BY <1>1, <1>5, <2>1, NewStatus
<1> QED BY <1>2, <1>3, <1>4, <1>5 DEF LegacyChanged

LEMMA ChangedStatus ==
    ASSUME Typed, NEW u \in Units, OnChanged(u)
    PROVE  BlocksFor(u)
<1>1. Head(now[u]).kind # "broken"
  BY HandledIs DEF OnChanged, Typed
<1>2. blocked' = blocked \/ (u = leader /\ Multiple(u) /\ blocked' = [blocked EXCEPT ![u] = "endpoints"])
  BY DEF OnChanged, Warned
<1> QED BY <1>1, <1>2, SameStatus, NewStatus

LEMMA OtherStatus ==
    ASSUME Typed, NEW u \in Units,
           LegacyChangedOther(u) \/ OnDeparted(u) \/ OnPeerChanged(u) \/ OnDatabasesChange(u) \/ NotReady(u)
    PROVE  BlocksFor(u)
<1>1. blocked' = blocked
  BY DEF LegacyChangedOther, OnDeparted, OnPeerChanged, OnDatabasesChange, NotReady
<1>2. CASE LegacyChangedOther(u) \/ OnDeparted(u) \/ OnPeerChanged(u) \/ OnDatabasesChange(u)
  <2>1. Head(now[u]).kind # "broken"
    BY <1>2, HandledIs DEF LegacyChangedOther, OnDeparted, OnPeerChanged, OnDatabasesChange, Typed
  <2> QED BY <1>1, <2>1, SameStatus
<1>3. CASE NotReady(u)
  <2>1. Puts(u)
    BY <1>3, HandledIs DEF NotReady, Typed
  <2> QED BY <1>1, <2>1, SameStatus
<1> QED BY <1>2, <1>3

LEMMA HandlersBlock ==
    ASSUME Typed, RequestInv, NEW u \in Units, Handle(u) \/ NotReady(u)
    PROVE  BlocksFor(u)
  BY BrokenStatus, RequestedStatus, LegacyStatus, ChangedStatus, OtherStatus DEF Handle

LEMMA StatusRests ==
    ASSUME NEW u \in Units, BeginOther(u) \/ Outside(u) \/ (\E e : Begin(u, e))
    PROVE  blocked' = blocked
  BY DEF Outside, RequestDies, LegacyDies, StartObserver, Observe, ObserverDies, RemoveUnit,
         RelationsEnd, UnitGone, Elect,
         BeginOther, Begin

LEMMA StatusRelates ==
    ASSUME NEW r, Relates(r) \/ ClientMakes
    PROVE  blocked' = blocked
  BY DEF Relates, Relate, ClientChanges, RemoveRelation, ClientMakes

LEMMA StatusTyped ==
    ASSUME Typed, RequestInv, [Next]_vars
    PROVE  StatusType'
<1>1. blocked' = blocked \/ \E u \in Units : BlocksFor(u)
  BY Steps, HandlersBlock, StatusRests, StatusRelates DEF vars
<1> QED BY <1>1 DEF BlocksFor, StatusType, Typed

-----------------------------------------------------------------------------
(* What the steps do to the relations and the units. *)

LEMMA IncidentFacts ==
    /\ {"unready", "failed", "died", "elected", "removed", "refused", "broken", "second", "again", "made", "lost"}
          \subseteq Incidents
    /\ \A i : Incident(i) => incidents' = incidents \cup {i} /\ i \notin incidents
  BY DEF Incidents, Incident

LEMMA IncidentsKept ==
    ASSUME Typed, [Next]_vars
    PROVE  incidents' \subseteq Incidents /\ incidents \subseteq incidents'
<1> DEFINE Keeps == \/ incidents' = incidents \/ \E i \in Incidents : incidents' = incidents \cup {i}
<1>1. CASE UNCHANGED vars
  BY <1>1 DEF vars, Typed, JujuType
<1>2. ASSUME NEW r \in Relations, Relate(r)
      PROVE  incidents' \subseteq Incidents /\ incidents \subseteq incidents'
  BY <1>2, IncidentFacts DEF Relate, Typed, JujuType
<1>3. ASSUME NEW r \in Relations, ClientChanges(r) \/ RemoveRelation(r)
      PROVE  Keeps
  BY <1>3, IncidentFacts DEF ClientChanges, RemoveRelation
<1>4. ASSUME ClientMakes
      PROVE  Keeps
  BY <1>4, IncidentFacts DEF ClientMakes
<1>5. ASSUME NEW u \in Units, NEW e, Begin(u, e)
      PROVE  Keeps
  BY <1>5 DEF Begin
<1>6. ASSUME NEW u \in Units, BeginOther(u) \/ NotReady(u)
      PROVE  Keeps
  BY <1>6, IncidentFacts DEF BeginOther, NotReady
<1>7. ASSUME NEW u \in Units, Outside(u)
      PROVE  Keeps
  BY <1>7, IncidentFacts
     DEF Outside, RequestDies, LegacyDies, Dies, StartObserver, Observe, ObserverDies, RemoveUnit,
         RelationsEnd, UnitGone, Elect
<1>8. ASSUME NEW u \in Units, Handle(u)
      PROVE  Keeps
  <2>1. CASE OnDatabaseRequested(u)
    BY <2>1, IncidentFacts DEF OnDatabaseRequested, Requested
  <2>2. CASE LegacyChanged(u)
    BY <2>2, IncidentFacts DEF LegacyChanged
  <2>3. CASE OnBroken(u)
    BY <2>3, IncidentFacts DEF OnBroken
  <2>4. CASE OnChanged(u) \/ LegacyChangedOther(u) \/ OnDeparted(u) \/ OnPeerChanged(u) \/ OnDatabasesChange(u)
    BY <2>4 DEF OnChanged, LegacyChangedOther, OnDeparted, OnPeerChanged, OnDatabasesChange
  <2> QED BY <1>8, <2>1, <2>2, <2>3, <2>4 DEF Handle
<1>9. Keeps => incidents' \subseteq Incidents /\ incidents \subseteq incidents'
  BY DEF Typed, JujuType
<1> HIDE DEF Keeps
<1> QED BY <1>1, <1>2, <1>3, <1>4, <1>5, <1>6, <1>7, <1>8, <1>9, Steps DEF Relates

\* The flag of a unit that is removed, and what the leader saves.
LEMMA MarksKept ==
    ASSUME Typed, LeaveInv, [Next]_vars
    PROVE  /\ departing' = departing
              \/ \E u \in removing : /\ departing' = departing \cup {u} /\ Handles(u, "departed")
                                     /\ saved' = saved
           /\ saved' = saved
              \/ \E u \in Units : /\ Emits(u, Rel(u)) /\ Rel(u) \in Relations
                                  /\ saved' = saved \cup {Rel(u)} /\ legacy' = legacy
<1>1. CASE UNCHANGED vars
  BY <1>1 DEF vars
<1>2. ASSUME NEW r \in Relations, Relates(r) \/ ClientMakes
      PROVE  UNCHANGED <<saved, departing>>
  BY <1>2 DEF Relates, Relate, ClientChanges, RemoveRelation, ClientMakes
<1>3. CASE ClientMakes
  BY <1>3 DEF ClientMakes
<1>4. ASSUME NEW u \in Units, BeginOther(u) \/ NotReady(u) \/ Outside(u) \/ \E e : Begin(u, e)
      PROVE  UNCHANGED <<saved, departing>>
  BY <1>4 DEF BeginOther, NotReady, Begin,
              Outside, RequestDies, LegacyDies, StartObserver, Observe, ObserverDies, RemoveUnit,
                  RelationsEnd, UnitGone, Elect
<1>5. ASSUME NEW u \in Units, Handle(u), ~OnChanged(u), ~OnDeparted(u)
      PROVE  UNCHANGED <<saved, departing>>
  BY <1>5 DEF Handle, OnDatabaseRequested, LegacyChangedOther, LegacyChanged,
              OnBroken, OnPeerChanged, OnDatabasesChange
<1>6. ASSUME NEW u \in Units, OnDeparted(u)
      PROVE  /\ u \in removing /\ departing' = departing \cup {u} /\ Handles(u, "departed")
             /\ saved' = saved
  <2>1. Head(now[u]) \in Expects(u) /\ Head(now[u]).kind = "departed"
    BY <1>6, HandledIs, HeadFacts DEF OnDeparted, Expects, Typed
  <2> QED BY <1>6, <2>1 DEF OnDeparted, Flagged, LeaveInv
<1>7. ASSUME NEW u \in Units, OnChanged(u)
      PROVE  /\ departing' = departing
             /\ \/ saved' = saved
                \/ /\ Emits(u, Rel(u)) /\ Rel(u) \in Relations
                   /\ saved' = saved \cup {Rel(u)} /\ legacy' = legacy
  <2>1. Rel(u) \in Relations /\ (Drops(u) \/ Emits(u, Rel(u)))
    BY <1>7, HandledIs, ChangedMoves DEF OnChanged, Kinds, Typed
  <2>2. saved' = saved \/ (u = leader /\ Unseen(u, Rel(u)))
    BY <1>7 DEF OnChanged
  <2>3. CASE u = leader /\ Unseen(u, Rel(u))
    <3>1. /\ saved' = saved \cup {Rel(u)}
          /\ now' = [now EXCEPT ![u] = <<Event("requested", Rel(u))>> \o Tail(@)]
      BY <1>7, <2>3 DEF OnChanged
    <3>2. Rel(u) \in knows[u] \ (saved \cup legacy) /\ Head(now[u]).kind = "changed" /\ now[u] # <<>>
          /\ later' = later /\ legacy' = legacy /\ departing' = departing
      BY <1>7, <2>3 DEF Unseen, OnChanged, Handles
    <3> QED BY <2>1, <3>1, <3>2 DEF Emits, Replaced
  <2> QED BY <1>7, <2>2, <2>3 DEF OnChanged
<1> QED BY <1>1, <1>2, <1>3, <1>4, <1>5, <1>6, <1>7, Steps

LEMMA JujuTyped ==
    ASSUME ClientAssumption, Typed, FreshInv, LeaveInv, [Next]_vars
    PROVE  JujuType'
<1> USE DEF Typed, JujuType
<1>0. incidents' \subseteq Incidents
  BY IncidentsKept
<1> DEFINE Places ==
      /\ leader' \in Units /\ present' \subseteq Units /\ removing' \subseteq Units /\ primary' \in present'
      /\ removing \subseteq removing'
    Kept ==
      /\ legacy' \subseteq Relations /\ bad' \subseteq Relations
      /\ rel' \in [Relations -> {"none", "joined", "gone", "dropped"}]
      /\ knows' \in [Units -> SUBSET Relations]
      /\ legacy' \subseteq legacy \cup {r \in Relations : rel[r] = "none"}
<1>1. Places
  <2>1. CASE UNCHANGED <<leader, present, primary, removing>>
    BY <2>1
  <2>2. ASSUME NEW u \in Units, RemoveUnit(u)
        PROVE  Places
    BY <2>2 DEF RemoveUnit
  <2>3. ASSUME NEW u \in Units, UnitGone(u)
        PROVE  Places
    BY <2>3 DEF UnitGone
  <2>4. ASSUME NEW u \in Units, Elect(u)
        PROVE  Places
    BY <2>4 DEF Elect
  <2>5. ASSUME NEW r, Relates(r)
        PROVE  UNCHANGED <<leader, present, primary, removing>>
    BY <2>5 DEF Relates, Relate, ClientChanges, RemoveRelation
  <2>6. ASSUME NEW u \in Units, BeginOther(u) \/ (\E e : Begin(u, e)) \/ RequestDies(u) \/ LegacyDies(u)
                                   \/ StartObserver(u) \/ Observe(u) \/ ObserverDies(u)
                                   \/ RelationsEnd(u)
        PROVE  UNCHANGED <<leader, present, primary, removing>>
    BY <2>6 DEF BeginOther, Begin, RequestDies, LegacyDies, StartObserver, Observe, ObserverDies,
                RelationsEnd
  <2>7. CASE UNCHANGED vars \/ ClientMakes
    BY <2>7 DEF vars, ClientMakes
  <2>8. ASSUME NEW u \in Units, Handle(u) \/ NotReady(u)
        PROVE  UNCHANGED <<leader, present, primary, removing>>
    BY <2>8, HandlersMove
  <2> HIDE DEF Places
  <2> QED BY <2>1, <2>2, <2>3, <2>4, <2>5, <2>6, <2>7, <2>8, Steps DEF Outside
<1>2. Kept
  <2>1. CASE UNCHANGED <<legacy, bad, rel, knows>>
    BY <2>1
  <2>2. ASSUME NEW r \in Relations, Relate(r)
        PROVE  Kept
    BY <2>2 DEF Relate
  <2>3. ASSUME NEW r \in Relations, RemoveRelation(r)
        PROVE  Kept
    BY <2>3 DEF RemoveRelation
  <2>4. ASSUME NEW u \in Units, NEW e, Begin(u, e)
        PROVE  Kept
    BY <2>4 DEF Begin
  <2>5. ASSUME NEW r, ClientChanges(r)
        PROVE  UNCHANGED <<legacy, bad, rel, knows>>
    BY <2>5 DEF ClientChanges
  <2>6. ASSUME NEW u \in Units, BeginOther(u) \/ Outside(u)
        PROVE  UNCHANGED <<legacy, bad, rel, knows>>
    BY <2>6 DEF BeginOther, Outside, RequestDies, LegacyDies, StartObserver, Observe,
                ObserverDies, RemoveUnit, RelationsEnd, UnitGone, Elect
  <2>7. CASE UNCHANGED vars \/ ClientMakes
    BY <2>7 DEF vars, ClientMakes
  <2>8. ASSUME NEW u \in Units, Handle(u) \/ NotReady(u)
        PROVE  UNCHANGED <<legacy, bad, rel, knows>>
    BY <2>8, HandlersMove
  <2> HIDE DEF Kept
  <2> QED BY <2>1, <2>2, <2>3, <2>4, <2>5, <2>6, <2>7, <2>8, Steps DEF Relates
<1>3. saved' \subseteq Relations \ legacy'
  <2>1. \A r \in saved : r \notin legacy'
    BY <1>2 DEF FreshInv
  <2>2. CASE saved' = saved
    BY <2>1, <2>2
  <2>3. ASSUME NEW u \in Units, Emits(u, Rel(u)), Rel(u) \in Relations, saved' = saved \cup {Rel(u)},
               legacy' = legacy
        PROVE  saved' \subseteq Relations \ legacy'
    BY <2>3 DEF Emits
  <2> QED BY <2>2, <2>3, MarksKept
<1>4. departing' \subseteq removing'
  BY <1>1, MarksKept
<1> HIDE DEF Typed
<1> QED BY <1>0, <1>1, <1>2, <1>3, <1>4

-----------------------------------------------------------------------------
(* Which events become expected. *)

\* relation-departed, and relation-broken of what goes on, are of units that are removed.
News(v, e) ==
    \/ e.kind \notin Kinds
    \/ e.kind \in {"changed", "requested"} /\ rel'[e.rel] # "none"
    \/ e.kind = "departed" /\ e.rel \in knows[v] /\ v \in removing'
    \/ e.kind = "broken" /\ rel'[e.rel] \in {"gone", "dropped"}
    \/ e.kind = "broken" /\ e.rel \in knows[v] /\ RelationsEnd(v)

LEMMA HandlerNews ==
    ASSUME Typed, FreshInv, NEW u \in Units, Handle(u) \/ NotReady(u)
    PROVE  \A v \in Units : \A e \in Expects(v)' \ Expects(v) : News(v, e)
<1>1. ASSUME NEW v \in Units, NEW e \in due'[v] \ due[v]
      PROVE  News(v, e)
  <2>1. Raises
    BY HandlersMove DEF Typed
  <2> QED BY <1>1, <2>1, EventFacts DEF Raises, News, Kinds
<1>2. CASE Ran(u)
  <2>1. Others(u) /\ ToSet(now'[u]) \cup ToSet(later'[u]) \subseteq Waits(u)
    BY <1>2, DropsFacts, PutsFacts, HeadFacts DEF Typed, Ran, Waits, Drops, Puts
  <2> QED BY <1>1, <2>1 DEF Expects, Waits, Others
<1>3. CASE Emits(u, Rel(u))
  <2>1. /\ Others(u) /\ ToSet(now'[u]) \subseteq ToSet(now[u]) \cup {Event("requested", Rel(u))}
        /\ later'[u] = later[u]
    BY <1>3, EmitsFacts
  <2>2. rel' = rel
    BY HandlersMove DEF Typed
  <2>3. Rel(u) \in knows[u] /\ Rel(u) \in Relations
    BY <1>3 DEF Emits, Typed, JujuType
  <2>4. News(u, Event("requested", Rel(u)))
    BY <2>2, <2>3 DEF News, FreshInv, Event
  <2> QED BY <1>1, <2>1, <2>4 DEF Expects, Waits, Others
<1> QED BY <1>2, <1>3, HandlersMove DEF Typed

LEMMA OutsideNews ==
    ASSUME Typed, NEW u \in Units, Outside(u)
    PROVE  \A v \in Units : \A e \in Expects(v)' \ Expects(v) : News(v, e)
<1>0. \A v \in Units : Waits(v)' = Waits(v)
  BY OutsideRests DEF Rests, Waits, Typed
<1>1. SUFFICES ASSUME NEW v \in Units, NEW e \in due'[v] \ due[v]
               PROVE  News(v, e)
  BY <1>0 DEF Expects
<1>2. CASE due' = due
  BY <1>1, <1>2
<1>3. CASE Observe(u)
  <2>1. e = DatabasesChange
    BY <1>1, <1>3 DEF Observe, Typed, QueueType
  <2> QED BY <2>1, EventFacts DEF News, Kinds
<1>4. CASE RemoveUnit(u)
  <2>1. v = u /\ e \in {Event("departed", r) : r \in knows[u]} /\ removing' = removing \cup {u}
    BY <1>1, <1>4 DEF RemoveUnit, Typed, QueueType
  <2> QED BY <2>1 DEF News, Event
<1>5. CASE RelationsEnd(u)
  <2>1. v = u /\ e \in {Event("broken", r) : r \in knows[u]}
    BY <1>1, <1>5 DEF RelationsEnd, Typed, QueueType
  <2> QED BY <1>5, <2>1 DEF News, Event
<1>6. CASE UnitGone(u) \/ StartObserver(u)
  <2>1. Raises
    BY <1>6, ToldFacts DEF UnitGone, StartObserver, Typed
  <2> QED BY <1>1, <2>1, EventFacts DEF Raises, News, Kinds
<1> QED BY <1>2, <1>3, <1>4, <1>5, <1>6
        DEF Outside, RequestDies, LegacyDies, Dies, ObserverDies, Elect

LEMMA RelatesNews ==
    ASSUME Typed, NEW r \in Relations, Relates(r)
    PROVE  \A v \in Units : \A e \in Expects(v)' \ Expects(v) : News(v, e)
<1>0. \A v \in Units : Waits(v)' = Waits(v)
  BY RelatesRests DEF Rests, Waits
<1>1. SUFFICES ASSUME NEW v \in Units, NEW e \in due'[v] \ due[v]
               PROVE  News(v, e)
  BY <1>0 DEF Expects
<1>2. CASE Relate(r)
  <2>1. e = Event("changed", r) /\ rel'[r] = "joined"
    BY <1>1, <1>2 DEF Relate, Typed, JujuType
  <2> QED BY <2>1 DEF News, Event
<1>3. CASE ClientChanges(r)
  <2>1. e = Event("changed", r) /\ rel'[r] = "joined"
    BY <1>1, <1>3 DEF ClientChanges
  <2> QED BY <2>1 DEF News, Event
<1>4. CASE RemoveRelation(r)
  <2>1. e = Event("broken", r) /\ rel'[r] \in {"gone", "dropped"}
    BY <1>1, <1>4 DEF RemoveRelation, Breaks, Typed, JujuType
  <2> QED BY <2>1 DEF News, Event
<1> QED BY <1>2, <1>3, <1>4 DEF Relates

LEMMA BeginExpects ==
    ASSUME Typed, NEW u \in Units, BeginOther(u) \/ \E e \in due[u] : Begin(u, e)
    PROVE  \A v \in Units : Expects(v)' \subseteq Expects(v)
<1>1. ASSUME NEW e \in due[u], Begin(u, e)
      PROVE  \A v \in Units : Expects(v)' \subseteq Expects(v)
  <2>1. /\ Others(u) /\ ToSet(now'[u]) = ToSet(later[u]) \cup {e}
        /\ ToSet(later'[u]) = {} /\ ToSet(now[u]) = {}
        /\ due'[u] = due[u] \ {e} /\ \A v \in Units \ {u} : due'[v] = due[v]
    BY <1>1, BeginsTake, TakesFacts DEF Typed
  <2> QED BY <1>1, <2>1 DEF Expects, Waits, Others
<1>2. CASE BeginOther(u)
  <2>1. /\ Others(u) /\ now'[u] = later[u] /\ ToSet(later'[u]) = {} /\ due' = due
    BY <1>2, OthersResume, ResumesFacts DEF Typed, BeginOther
  <2> QED BY <2>1 DEF Expects, Waits, Others
<1> QED BY <1>1, <1>2

LEMMA NewsSteps ==
    ASSUME Typed, FreshInv, [Next]_vars
    PROVE  \A v \in Units : \A e \in Expects(v)' \ Expects(v) : News(v, e)
<1>1. CASE UNCHANGED vars
  BY <1>1 DEF vars, Expects, Waits
<1>2. CASE ClientMakes
  BY <1>2 DEF ClientMakes, Expects, Waits
<1> QED BY <1>1, <1>2, HandlerNews, OutsideNews, RelatesNews, BeginExpects, Steps

\* How a relation and what units know of it change.
LEMMA RelationSteps ==
    ASSUME Typed, [Next]_vars
    PROVE  \/ rel' = rel /\ legacy' = legacy /\ bad' = bad /\ \A v \in Units : knows'[v] \subseteq knows[v]
           \/ \E r \in Relations :
                 /\ Relate(r) /\ rel' = [rel EXCEPT ![r] = "joined"] /\ rel[r] = "none"
                 /\ legacy' \in {legacy, legacy \cup {r}} /\ bad' \in {bad, bad \cup {r}}
                 /\ \A v \in Units : knows'[v] \in {knows[v], knows[v] \cup {r}}
           \/ \E r \in Relations :
                 /\ RemoveRelation(r) /\ rel[r] = "joined"
                 /\ rel' = [rel EXCEPT ![r] = IF bag[r] # 0 THEN "gone" ELSE "dropped"]
                 /\ UNCHANGED <<legacy, bad, knows>>
<1> USE DEF Typed, JujuType
<1>1. CASE UNCHANGED <<legacy, bad, rel, knows>>
  BY <1>1
<1>2. ASSUME NEW r \in Relations, Relate(r)
      PROVE  /\ rel' = [rel EXCEPT ![r] = "joined"] /\ rel[r] = "none"
             /\ legacy' \in {legacy, legacy \cup {r}} /\ bad' \in {bad, bad \cup {r}}
             /\ \A v \in Units : knows'[v] \in {knows[v], knows[v] \cup {r}}
  BY <1>2 DEF Relate
<1>3. ASSUME NEW r \in Relations, RemoveRelation(r)
      PROVE  /\ rel[r] = "joined"
             /\ rel' = [rel EXCEPT ![r] = IF bag[r] # 0 THEN "gone" ELSE "dropped"]
             /\ UNCHANGED <<legacy, bad, knows>>
  BY <1>3 DEF RemoveRelation
<1>4. ASSUME NEW u \in Units, NEW e, Begin(u, e)
      PROVE  /\ rel' = rel /\ legacy' = legacy /\ bad' = bad
             /\ \A v \in Units : knows'[v] \subseteq knows[v]
  BY <1>4 DEF Begin
<1>5. ASSUME NEW r, ClientChanges(r)
      PROVE  UNCHANGED <<legacy, bad, rel, knows>>
  BY <1>5 DEF ClientChanges
<1>6. ASSUME NEW u \in Units, BeginOther(u) \/ Outside(u)
      PROVE  UNCHANGED <<legacy, bad, rel, knows>>
  BY <1>6 DEF BeginOther, Outside, RequestDies, LegacyDies, StartObserver, Observe, ObserverDies,
              RemoveUnit, RelationsEnd, UnitGone, Elect
<1>7. CASE UNCHANGED vars \/ ClientMakes
  BY <1>7 DEF vars, ClientMakes
<1>8. ASSUME NEW u \in Units, Handle(u) \/ NotReady(u)
      PROVE  UNCHANGED <<legacy, bad, rel, knows>>
  BY <1>8, HandlersMove
<1> QED BY <1>1, <1>2, <1>3, <1>4, <1>5, <1>6, <1>7, <1>8, Steps DEF Relates

LEMMA FreshKept ==
    ASSUME Typed, FreshInv, LeaveInv, [Next]_vars
    PROVE  FreshInv'
<1>1. SUFFICES ASSUME NEW r \in Relations, rel'[r] = "none"
               PROVE  /\ bag'[r] = 0 /\ r \notin saved' \cup legacy' \cup bad'
                      /\ \A v \in Units : /\ r \notin knows'[v]
                                          /\ \A e \in Expects(v)' : e.kind \in Kinds => e.rel # r
  BY DEF FreshInv
<1>2. /\ rel[r] = "none" /\ r \notin legacy' \cup bad'
      /\ \A v \in Units : r \notin knows'[v]
  <2>1. rel[r] = "none"
    BY <1>1, RelationSteps DEF Typed, JujuType
  <2> QED BY <1>1, <2>1, RelationSteps DEF FreshInv, Typed, JujuType
<1>3. /\ bag[r] = 0 /\ r \notin saved \cup legacy
      /\ \A v \in Units : r \notin knows[v] /\ \A e \in Expects(v) : e.kind \in Kinds => e.rel # r
  BY <1>2 DEF FreshInv
<1>4. r \notin saved'
  BY <1>3, MarksKept DEF Emits
<1>5. bag'[r] = 0
  <2>1. CASE bag' = bag
    BY <1>3, <2>1
  <2>2. ASSUME NEW u \in Units, NEW q \in knows[u], NEW n, bag' = [bag EXCEPT ![q] = n]
        PROVE  bag'[r] = 0
    BY <1>3, <2>2 DEF Typed, DataType
  <2> QED BY <2>1, <2>2, DataSteps DEF Creates, SetsUp, Removes, SameData
<1>6. ASSUME NEW v \in Units, NEW e \in Expects(v)', e.kind \in Kinds, e.rel = r
      PROVE  FALSE
  <2>1. e \notin Expects(v)
    BY <1>3, <1>6
  <2>2. News(v, e)
    BY <1>6, <2>1, NewsSteps
  <2> QED BY <1>1, <1>3, <1>6, <2>2 DEF News
<1> QED BY <1>2, <1>4, <1>5, <1>6

-----------------------------------------------------------------------------
(* Requests and credentials. *)

\* The requests that wait were there before, or the leader emits them.
LEMMA RequestsSteps ==
    ASSUME Typed, OnceInv, [Next]_vars, NEW v \in Units, NEW e \in Waits(v)', e \notin Waits(v),
           e.kind = "requested"
    PROVE  /\ e.rel \in saved' /\ e.rel \notin saved \cup legacy /\ e.rel \in Relations
           /\ bag' = bag
<1>1. CASE Rests
  BY <1>1 DEF Rests, Waits
<1>2. ASSUME NEW u \in Units, Ran(u)
      PROVE  FALSE
  <2>1. Others(u) /\ ToSet(now'[u]) \cup ToSet(later'[u]) \subseteq Waits(u)
    BY <1>2, DropsFacts, PutsFacts, HeadFacts DEF Typed, Ran, Waits, Drops, Puts
  <2> QED BY <2>1 DEF Waits, Others
<1>3. ASSUME NEW u \in Units, OnChanged(u), Emits(u, Rel(u))
      PROVE  /\ e.rel \in saved' /\ e.rel \notin saved \cup legacy /\ e.rel \in Relations
             /\ bag' = bag
  <2>1. /\ Others(u) /\ ToSet(now'[u]) = ToSet(Tail(now[u])) \cup {Event("requested", Rel(u))}
        /\ ToSet(Tail(now[u])) \subseteq ToSet(now[u]) /\ later'[u] = later[u]
    BY <1>3, EmitsFacts
  <2>2. e = Event("requested", Rel(u))
    BY <2>1 DEF Waits, Others
  <2>3. e.rel = Rel(u)
    BY <2>2 DEF Event
  <2> QED BY <1>3, <2>3 DEF OnChanged, Emits, Typed, JujuType
<1>4. ASSUME NEW u \in Units, BeginOther(u) \/ \E d \in due[u] : Begin(u, d)
      PROVE  FALSE
  <2>1. e \in Expects(v)
    BY <1>4, BeginExpects DEF Expects
  <2>2. e \in due[v]
    BY <2>1 DEF Expects
  <2> QED BY <2>2 DEF OnceInv
<1>5. CASE UNCHANGED vars
  BY <1>1, <1>5 DEF vars, Rests
<1>6. ASSUME NEW u \in Units, Handle(u) \/ NotReady(u)
      PROVE  Ran(u) \/ (OnChanged(u) /\ Emits(u, Rel(u)))
  BY <1>6, HandlersMove DEF Typed
<1>7. ASSUME NEW u \in Units, Outside(u)
      PROVE  Rests
  BY <1>7, OutsideRests DEF Typed
<1>8. ASSUME NEW r \in Relations, Relates(r)
      PROVE  Rests
  BY <1>8, RelatesRests
<1>9. CASE ClientMakes
  BY <1>1, <1>9 DEF ClientMakes, Rests
<1> QED BY <1>1, <1>2, <1>3, <1>4, <1>5, <1>6, <1>7, <1>8, <1>9, Steps

\* The request that is handled is not there any more.
LEMMA HandledOnce ==
    ASSUME Typed, OnceInv, NEW w \in Units, Drops(w), Head(now[w]).kind = "requested",
           NEW u \in Units
    PROVE  Head(now[w]) \notin Waits(u)'
<1> DEFINE h == Head(now[w])
<1>1. /\ Others(w) /\ now'[w] = Tail(now[w]) /\ later'[w] = later[w]
      /\ h \in ToSet(now[w]) /\ now[w] \in Seq(Events) /\ now[w] # <<>>
  BY DropsFacts, HeadFacts DEF Typed, Drops, QueueType
<1>2. h \notin ToSet(Tail(now[w])) /\ h \notin ToSet(later[w])
  BY <1>1, OnceFacts DEF OnceInv
<1>3. CASE u = w
  BY <1>1, <1>2, <1>3 DEF Waits
<1>4. CASE u # w
  BY <1>1, <1>4 DEF Waits, Others, OnceInv
<1> QED BY <1>3, <1>4

LEMMA LegacyGrows ==
    ASSUME Typed, [Next]_vars
    PROVE  /\ legacy \subseteq legacy'
           /\ \A r \in legacy' \ legacy : rel[r] = "none"
           /\ \A r \in Relations : rel'[r] = "joined" => rel[r] \in {"joined", "none"}
  BY RelationSteps DEF Typed, JujuType

LEMMA SavedGrows ==
    ASSUME Typed, LeaveInv, [Next]_vars
    PROVE  saved \subseteq saved'
  BY MarksKept

LEMMA RequestKept ==
    ASSUME Typed, OnceInv, RequestInv, LeaveInv, [Next]_vars
    PROVE  RequestInv'
<1>1. ASSUME NEW u \in Units, NEW e \in Waits(u)', e.kind = "requested"
      PROVE  e.rel \in saved' /\ bag'[e.rel] = 0
  <2>1. CASE e \notin Waits(u)
    BY <1>1, <2>1, RequestsSteps DEF RequestInv
  <2>2. CASE e \in Waits(u)
    <3>1. e.rel \in saved /\ bag[e.rel] = 0 /\ e.rel \in saved' /\ e.rel \notin legacy /\ e.rel \in Relations
      BY <1>1, <2>2, SavedGrows DEF RequestInv, Typed, JujuType
    <3>2. ASSUME NEW w \in Units, NEW r \in Relations, NEW n \in Nat, Creates(w, r, n),
                 bag' = [bag EXCEPT ![r] = n], Drops(w), Head(now[w]) = Event("requested", r)
          PROVE  e.rel # r
      <4>1. Event("requested", r).kind = "requested"
        BY DEF Event
      <4>2. Event("requested", r) \notin Waits(u)'
        BY <3>2, <4>1, HandledOnce
      <4>3. e \in Events
        BY <2>2, InElements DEF Waits, Typed, QueueType, ToSet
      <4>4. e = Event("requested", e.rel)
        BY <1>1, <4>3, EventFacts DEF Kinds
      <4> QED BY <1>1, <4>2, <4>4
    <3>3. ASSUME NEW w \in Units, NEW r \in Relations, NEW n \in Nat, Creates(w, r, n)
          PROVE  bag'[e.rel] = 0
      BY <3>1, <3>2, <3>3 DEF Creates, Typed, DataType
    <3>4. ASSUME NEW w \in Units, NEW r \in Relations, NEW n \in Nat, SetsUp(w, r, n)
          PROVE  bag'[e.rel] = 0
      BY <3>1, <3>4 DEF SetsUp, Typed, DataType
    <3> QED BY <3>1, <3>3, <3>4, DataSteps DEF SameData, Removes
  <2> QED BY <2>1, <2>2
<1>2. ASSUME NEW r \in Relations \ legacy', bag'[r] # 0
      PROVE  r \in saved'
  <2>1. r \notin legacy /\ (r \in saved => r \in saved')
    BY LegacyGrows, SavedGrows
  <2>2. CASE bag[r] # 0
    BY <2>1, <2>2 DEF RequestInv
  <2>3. CASE bag[r] = 0
    <3>1. ASSUME NEW w \in Units, NEW q \in Relations, NEW n \in Nat, Creates(w, q, n)
          PROVE  r \in saved
      <4>1. q = r /\ Drops(w) /\ Head(now[w]) = Event("requested", r)
        BY <1>2, <2>3, <3>1 DEF Creates, Typed, DataType
      <4>2. Event("requested", r) \in Waits(w) /\ Event("requested", r).kind = "requested"
            /\ Event("requested", r).rel = r
        BY <4>1, HeadFacts DEF Drops, Typed, Event
      <4> QED BY <4>2 DEF RequestInv
    <3>2. ASSUME NEW w \in Units, NEW q \in Relations, NEW n \in Nat, SetsUp(w, q, n)
          PROVE  FALSE
      BY <1>2, <2>1, <2>3, <3>2 DEF SetsUp, Typed, DataType
    <3> QED BY <1>2, <2>1, <2>3, <3>1, <3>2, DataSteps DEF SameData, Removes
  <2> QED BY <2>2, <2>3
<1> QED BY <1>1, <1>2 DEF RequestInv

\* A unit that handles the end of a relation that goes on has its flag.
LEMMA EndsAlone ==
    ASSUME ~MayStayUnready, Typed, LeaveInv, NEW u \in Units \ departing, Handles(u, "broken")
    PROVE  Rel(u) \in Relations /\ rel[Rel(u)] # "joined"
<1>1. /\ now[u] # <<>> /\ Head(now[u]).kind = "broken" /\ Rel(u) \in Relations
      /\ Head(now[u]) \in Expects(u) /\ now[u] \in Seq(Events) /\ Rel(u) = Head(now[u]).rel
  BY HandledIs, HeadFacts DEF Typed, Kinds, Expects, QueueType, Rel
<1>2. ~Leaves(Head(now[u]), Joined)
  BY <1>1, FirstFacts DEF LeaveInv, Leaving
<1> QED BY <1>1, <1>2 DEF Leaves, Joined

LEMMA CredentialsKept ==
    ASSUME ~MayStayUnready, Typed, FreshInv, RequestInv, LeaveInv, CredentialsWork, [Next]_vars
    PROVE  CredentialsWork'
<1>1. SUFFICES ASSUME NEW r \in Relations, rel'[r] = "joined", bag'[r] # 0,
                      r \in legacy' => incidents' \cap {"died", "failed"} = {}
               PROVE  users'[r] = bag'[r]
  BY DEF CredentialsWork, Joined
<1>2. r \in legacy => incidents' \cap {"died", "failed"} = {} /\ incidents \cap {"died", "failed"} = {}
  BY <1>1, LegacyGrows, IncidentsKept
<1>3. bag[r] # 0 => rel[r] = "joined" /\ users[r] = bag[r]
  <2>1. rel[r] \in {"joined", "none"}
    BY <1>1, LegacyGrows
  <2> QED BY <1>2, <2>1 DEF FreshInv, CredentialsWork, Joined
<1>4. CASE SameData
  BY <1>1, <1>3, <1>4 DEF SameData
<1>5. ASSUME NEW u \in Units, NEW q \in Relations, NEW n \in Nat, Creates(u, q, n)
      PROVE  users'[r] = bag'[r]
  <2>1. CASE q # r
    BY <1>1, <1>3, <1>5, <2>1 DEF Creates, UserMade, Typed, DataType
  <2>2. CASE q = r /\ bag' = [bag EXCEPT ![r] = n]
    BY <1>5, <2>2 DEF Creates, UserMade, Typed, DataType
  <2>3. CASE q = r /\ bag' = bag
    <3>1. bag[r] = 0
      <4>1. CASE r \notin legacy \cup saved
        BY <4>1 DEF RequestInv
      <4>2. CASE Head(now[u]) \in ToSet(now[u]) /\ Head(now[u]) = Event("requested", r)
        <5>1. Event("requested", r) \in Waits(u)
          BY <4>2 DEF Waits
        <5> QED BY <5>1 DEF RequestInv, Event
      <4>3. CASE Drops(u) /\ Head(now[u]) = Event("requested", r)
        BY <4>2, <4>3, HeadFacts DEF Drops, Typed
      <4> QED BY <1>5, <2>3, <4>1, <4>2, <4>3 DEF Creates
    <3> QED BY <1>1, <2>3, <3>1
  <2> QED BY <1>5, <2>1, <2>2, <2>3 DEF Creates
<1>6. ASSUME NEW u \in Units, NEW q \in Relations, NEW n \in Nat, SetsUp(u, q, n)
      PROVE  users'[r] = bag'[r]
  <2>1. CASE q # r
    BY <1>1, <1>3, <1>6, <2>1 DEF SetsUp, UserMade, Typed, DataType
  <2>2. CASE q = r
    BY <1>2, <1>6, <2>2 DEF SetsUp, UserMade, Typed, DataType
  <2> QED BY <2>1, <2>2
<1>7. ASSUME NEW u \in Units, NEW q \in Relations, Removes(u, q)
      PROVE  users'[r] = bag'[r]
  <2>1. rel[q] # "joined"
    BY <1>7, EndsAlone DEF Removes
  <2>2. q # r
    BY <1>1, <1>3, <1>7, <2>1 DEF Removes
  <2> QED BY <1>1, <1>3, <1>7, <2>2 DEF Removes, Typed, DataType
<1> QED BY <1>4, <1>5, <1>6, <1>7, DataSteps

-----------------------------------------------------------------------------
(* A unit that is removed. *)

LEMMA LeavesKept ==
    ASSUME Typed, FreshInv, [Next]_vars, NEW v \in Units, NEW e \in Expects(v), Leaves(e, Joined')
    PROVE  Leaves(e, Joined)
<1>1. e.kind \in Kinds /\ e.rel \in Relations /\ rel'[e.rel] = "joined"
  BY DEF Leaves, Joined, Kinds
<1>2. rel[e.rel] # "none"
  BY <1>1 DEF FreshInv
<1> QED BY <1>1, <1>2, LegacyGrows DEF Leaves, Joined

LEMMA RemovingSteps ==
    ASSUME Typed, [Next]_vars
    PROVE  /\ removing \subseteq removing' /\ departing \subseteq departing'
           /\ present' \subseteq present
           /\ \A v \in removing' \ removing : RemoveUnit(v)
           /\ \A v \in removing : knows'[v] \subseteq knows[v]
<1> DEFINE Keeps == /\ UNCHANGED <<removing, departing>> /\ present' \subseteq present
                    /\ \A v \in removing : knows'[v] \subseteq knows[v]
<1>1. ASSUME UNCHANGED vars \/ ClientMakes
      PROVE  Keeps
  BY <1>1 DEF vars, ClientMakes
<1>2. ASSUME NEW r \in Relations, Relates(r)
      PROVE  Keeps
  BY <1>2 DEF Relates, Relate, ClientChanges, RemoveRelation, Typed, JujuType
<1>3. ASSUME NEW u \in Units, NEW e, Begin(u, e)
      PROVE  Keeps
  BY <1>3 DEF Begin, Typed, JujuType
<1>4. ASSUME NEW u \in Units, BeginOther(u)
      PROVE  Keeps
  BY <1>4 DEF BeginOther
<1>5. ASSUME NEW u \in Units, Outside(u), ~RemoveUnit(u)
      PROVE  Keeps
  BY <1>5 DEF Outside, RequestDies, LegacyDies, StartObserver, Observe, ObserverDies,
              RelationsEnd, UnitGone, Elect
<1>6. ASSUME NEW u \in Units, RemoveUnit(u)
      PROVE  removing' = removing \cup {u} /\ UNCHANGED <<departing, present, knows>>
  BY <1>6 DEF RemoveUnit
<1>7. ASSUME NEW u \in Units, Handle(u) \/ NotReady(u)
      PROVE  /\ UNCHANGED <<removing, present, knows>> /\ departing \subseteq departing'
  <2>1. UNCHANGED juju
    BY <1>7, HandlersMove DEF Typed
  <2>2. departing \subseteq departing'
    BY <1>7 DEF Handle, NotReady, OnDatabaseRequested, OnChanged, LegacyChangedOther, LegacyChanged,
                OnDeparted, Flagged, OnBroken, OnPeerChanged, OnDatabasesChange
  <2> QED BY <2>1, <2>2
<1> QED BY <1>1, <1>2, <1>3, <1>4, <1>5, <1>6, <1>7, Steps

\* What is due for a unit that is removed stays so until it is begun.
LEMMA DueStays ==
    ASSUME Typed, [Next]_vars, NEW v \in removing, ~\E e \in due[v] : Begin(v, e)
    PROVE  due[v] \subseteq due'[v]
<1>1. CASE UNCHANGED vars \/ ClientMakes
  BY <1>1 DEF vars, ClientMakes
<1>2. ASSUME NEW r \in Relations, Relates(r)
      PROVE  due[v] \subseteq due'[v]
  BY <1>2 DEF Relates, Relate, ClientChanges, RemoveRelation, Typed, JujuType
<1>3. ASSUME NEW u \in Units, NEW e \in due[u], Begin(u, e)
      PROVE  due[v] \subseteq due'[v]
  <2>1. u # v
    BY <1>3
  <2> QED BY <1>3, <2>1 DEF Begin, Typed, QueueType, JujuType
<1>4. ASSUME NEW u \in Units, BeginOther(u)
      PROVE  due[v] \subseteq due'[v]
  BY <1>4 DEF BeginOther
<1>5. ASSUME NEW u \in Units, Outside(u)
      PROVE  due[v] \subseteq due'[v]
  <2>1. CASE due' = due
    BY <2>1
  <2>2. CASE Observe(u)
    BY <2>2 DEF Observe, Typed, QueueType
  <2>3. CASE RemoveUnit(u) \/ RelationsEnd(u)
    BY <2>3 DEF RemoveUnit, RelationsEnd, Typed, QueueType, JujuType
  <2>4. CASE UnitGone(u) \/ StartObserver(u)
    BY <2>4, ToldFacts DEF UnitGone, StartObserver, Typed, JujuType, Raises
  <2> QED BY <1>5, <2>1, <2>2, <2>3, <2>4
          DEF Outside, RequestDies, LegacyDies, Dies, ObserverDies, Elect
<1>6. ASSUME NEW u \in Units, Handle(u) \/ NotReady(u)
      PROVE  due[v] \subseteq due'[v]
  BY <1>6, HandlersMove DEF Typed, JujuType, Raises
<1> QED BY <1>1, <1>2, <1>3, <1>4, <1>5, <1>6, Steps

\* The queues of a unit that is removed stay, and so does what is said of them.
LEMMA LeavingRests ==
    ASSUME ~MayStayUnready, Typed, FreshInv, LeaveInv, [Next]_vars,
           NEW v \in removing \ departing, now'[v] = now[v], later'[v] = later[v],
           ~\E e \in due[v] : Begin(v, e)
    PROVE  Leaving(v)'
<1>1. Leaving(v) /\ v \in Units /\ now[v] \in Seq(Events)
  BY DEF LeaveInv, Typed, JujuType, QueueType
<1>2. Waits(v)' = Waits(v) /\ due[v] \subseteq due'[v] /\ incidents \subseteq incidents'
  BY DueStays, IncidentsKept DEF Waits
<1>3. \A e \in Expects(v) : Leaves(e, Joined') => Leaves(e, Joined)
  BY <1>1, LeavesKept
<1>4. \A e \in ToSet(later'[v]) : ~Leaves(e, Joined')
  BY <1>1, <1>3 DEF Leaving, Expects, Waits
<1>5. DepartedFirst(now'[v], Joined')
  <2>1. \A i \in 1 .. Len(now[v]) : now[v][i] \in Expects(v)
    BY <1>1, InElements DEF Expects, Waits
  <2> QED BY <1>1, <1>3, <2>1 DEF Leaving, DepartedFirst
<1>6. (\E e \in ToSet(now'[v]) : Leaves(e, Joined')) => "unready" \in incidents'
  BY <1>1, <1>2, <1>3 DEF Leaving, Expects, Waits
<1>7. ASSUME NEW e \in due'[v], Leaves(e, Joined')
      PROVE  "unready" \in incidents' /\ \E d \in Waits(v)' : d.kind = "departed"
  <2>1. CASE e \in due[v]
    <3>1. Leaves(e, Joined)
      BY <1>3, <1>7, <2>1 DEF Expects
    <3> QED BY <1>1, <1>2, <2>1, <3>1 DEF Leaving
  <2>2. CASE e \notin due[v]
    <3>1. e.kind = "broken" /\ rel'[e.rel] = "joined"
      BY <1>7 DEF Leaves, Joined
    <3>2. e \notin Expects(v) \/ e \in Waits(v)
      BY <2>2 DEF Expects
    <3>3. CASE e \in Waits(v)
      <4>1. Leaves(e, Joined) /\ e \in ToSet(now[v])
        BY <1>1, <1>3, <1>7, <3>3 DEF Expects, Waits, Leaving
      <4>2. PICK i \in 1 .. Len(now[v]) : now[v][i] = e
        BY <1>1, <4>1, InElements
      <4>3. PICK j \in 1 .. i - 1 : now[v][j].kind = "departed"
        BY <1>1, <4>1, <4>2 DEF Leaving, DepartedFirst
      <4>4. j \in 1 .. Len(now[v])
        BY <1>1, <4>2, <4>3
      <4>5. now[v][j] \in Waits(v)
        BY <1>1, <4>4, InElements DEF Waits
      <4> QED BY <1>1, <1>2, <4>1, <4>3, <4>5 DEF Leaving
    <3>4. CASE e \notin Expects(v)
      <4>1. News(v, e)
        BY <1>1, <1>7, <3>4, NewsSteps DEF Expects
      <4>2. RelationsEnd(v)
        BY <3>1, <4>1 DEF News, Kinds
      <4>3. knows[v] # {} /\ now[v] = <<>> /\ due[v] = {}
        BY <4>2 DEF RelationsEnd
      <4>4. PICK d \in Expects(v) : d.kind = "departed"
        BY <1>1, <4>3 DEF Leaving
      <4>5. d \in ToSet(later[v])
        BY <4>3, <4>4, EmptyElements DEF Expects, Waits
      <4>6. "unready" \in incidents
        BY <1>1, <4>4, <4>5 DEF LeaveInv
      <4> QED BY <1>2, <4>4, <4>5, <4>6 DEF Waits
    <3> QED BY <3>2, <3>3, <3>4
  <2> QED BY <2>1, <2>2
<1>8. knows'[v] = {} \/ \E e \in Expects(v)' : e.kind = "departed"
  <2>1. knows'[v] \subseteq knows[v] /\ Expects(v) \subseteq Expects(v)'
    BY <1>2, RemovingSteps DEF Expects
  <2> QED BY <1>1, <2>1 DEF Leaving
<1> QED BY <1>4, <1>5, <1>6, <1>7, <1>8 DEF Leaving

\* A unit that is removed just now expects nothing but its relation-departed events.
LEMMA LeavingStarts ==
    ASSUME Typed, FreshInv, LeaveInv, [Next]_vars, NEW v \in Units \ removing, RemoveUnit(v)
    PROVE  Leaving(v)'
<1>1. /\ Waits(v)' = Waits(v) /\ now' = now /\ later' = later /\ knows' = knows
      /\ due'[v] = {Event("departed", r) : r \in knows[v]} /\ now[v] \in Seq(Events)
  BY DEF RemoveUnit, Waits, Typed, QueueType
<1>2. \A e \in Waits(v) : ~Leaves(e, Joined')
  BY LeavesKept DEF LeaveInv, Expects
<1>3. \A e \in due'[v] : e.kind = "departed" /\ ~Leaves(e, Joined')
  BY <1>1 DEF Event, Leaves
<1>4. DepartedFirst(now'[v], Joined')
  BY <1>1, <1>2, FirstFacts DEF Waits
<1>5. knows'[v] = {} \/ \E e \in Expects(v)' : e.kind = "departed"
  BY <1>1, <1>3 DEF Expects
<1>6. /\ \A e \in ToSet(later'[v]) : ~Leaves(e, Joined')
      /\ \A e \in ToSet(now'[v]) : ~Leaves(e, Joined')
  BY <1>1, <1>2 DEF Waits
<1> QED BY <1>3, <1>4, <1>5, <1>6 DEF Leaving

LEMMA DepartedHandled ==
    ASSUME ~MayStayUnready, Typed, NEW u \in Units, Handle(u) \/ NotReady(u), Head(now[u]).kind = "departed"
    PROVE  \/ Drops(u) /\ u \in departing'
           \/ "unready" \notin incidents /\ "unready" \in incidents' /\ Puts(u)
<1>1. CASE NotReady(u)
  <2>1. /\ Handles(u, "departed") /\ Defer(u)
        /\ "unready" \notin incidents /\ incidents' = incidents \cup {"unready"}
    BY <1>1 DEF NotReady, Handles
  <2> QED BY <2>1, HandledIs, IncidentFacts DEF Typed
<1>2. CASE Handle(u)
  <2>1. OnDeparted(u)
    BY <1>2 DEF Handle, Handles, OnDatabaseRequested, OnChanged, LegacyChangedOther, LegacyChanged,
                OnBroken, OnPeerChanged, OnDatabasesChange
  <2> QED BY <2>1, HandledIs DEF OnDeparted, Flagged, Typed
<1> QED BY <1>1, <1>2

\* A unit that is removed runs a handler.
LEMMA LeavingRuns ==
    ASSUME ~MayStayUnready, Typed, FreshInv, LeaveInv, [Next]_vars,
           NEW v \in removing \ departing, Handle(v) \/ NotReady(v), v \notin departing'
    PROVE  Leaving(v)'
<1> DEFINE h == Head(now[v])
<1>0. v \in Units
  BY DEF Typed, JujuType
<1>1. Leaving(v) /\ now[v] \in Seq(Events) /\ later[v] \in Seq(Events)
  BY <1>0 DEF LeaveInv, Typed, QueueType
<1>2. /\ due[v] \subseteq due'[v] /\ due'[v] \subseteq due[v] \cup {PeerChanged, DatabasesChange}
      /\ incidents \subseteq incidents' /\ knows' = knows
  BY <1>0, HandlersMove, IncidentsKept DEF Raises, Typed
<1>3. \A e \in Expects(v) : Leaves(e, Joined') => Leaves(e, Joined)
  BY <1>0, LeavesKept
<1>4. now[v] # <<>> /\ h \in Waits(v) /\ ToSet(now[v]) = ToSet(Tail(now[v])) \cup {h}
  <2>1. now[v] # <<>>
    BY <1>0, HandlersMove DEF Ran, Drops, Puts, Emits, Typed
  <2> QED BY <1>0, <2>1, HeadFacts DEF Typed
<1>5. ~Leaves(h, Joined)
  BY <1>1, <1>4, FirstFacts DEF Leaving
<1>6. /\ ToSet(later'[v]) \subseteq ToSet(later[v]) \cup {h} /\ ToSet(later[v]) \subseteq ToSet(later'[v])
      /\ ToSet(Tail(now[v])) \subseteq ToSet(now'[v])
      /\ now'[v] = Tail(now[v])
            \/ (h.kind = "changed" /\ now'[v] = Replaced(now[v], Event("requested", Rel(v))))
  <2>1. CASE Drops(v)
    BY <1>0, <2>1, DropsFacts DEF Typed
  <2>2. CASE Puts(v)
    BY <1>0, <2>2, PutsFacts DEF Typed
  <2>3. CASE Emits(v, Rel(v))
    BY <1>0, <2>3, EmitsFacts DEF Emits
  <2> QED BY <1>0, <2>1, <2>2, <2>3, HandlersMove DEF Ran, Typed
<1>7. /\ Event("requested", Rel(v)).kind = "requested"
      /\ \A J : ~Leaves(Event("requested", Rel(v)), J)
  BY DEF Event, Leaves
<1>8. \A e \in ToSet(now'[v]) : e \in ToSet(Tail(now[v])) \/ e = Event("requested", Rel(v))
  <2>1. CASE now'[v] = Tail(now[v])
    BY <2>1
  <2>2. CASE h.kind = "changed" /\ now'[v] = Replaced(now[v], Event("requested", Rel(v)))
    <3>1. Event("requested", Rel(v)) \in Events
      BY <1>0, <1>4, <2>2, HeadFacts, EventFacts DEF Typed, Kinds
    <3>2. ToSet(Replaced(now[v], Event("requested", Rel(v))))
            = ToSet(Tail(now[v])) \cup {Event("requested", Rel(v))}
      BY <1>1, <1>4, <3>1, ReplacedElements
    <3> QED BY <2>2, <3>2
  <2> QED BY <1>6, <2>1, <2>2
<1> HIDE DEF h
<1>9. \A e \in ToSet(later'[v]) : ~Leaves(e, Joined')
  BY <1>1, <1>3, <1>4, <1>5, <1>6 DEF Leaving, Expects, Waits
<1>10. \A e \in due'[v] : Leaves(e, Joined') => e \in due[v] /\ Leaves(e, Joined)
  BY <1>2, <1>3, EventFacts DEF Leaves, Expects
<1>11. \A e \in ToSet(now'[v]) : Leaves(e, Joined') => e \in ToSet(now[v]) /\ Leaves(e, Joined)
  BY <1>3, <1>4, <1>7, <1>8 DEF Expects, Waits
<1>12. CASE h.kind = "departed"
  <2>1. "unready" \notin incidents /\ "unready" \in incidents' /\ Puts(v)
    BY <1>0, <1>12, DepartedHandled DEF h
  <2>2. h \in ToSet(later'[v]) /\ now'[v] \in Seq(Events)
    BY <1>0, <2>1, PutsFacts DEF Typed, h, Queues
  <2>3. \A e \in ToSet(now'[v]) : ~Leaves(e, Joined')
    BY <1>1, <1>11, <2>1 DEF Leaving
  <2>4. \A e \in due'[v] : ~Leaves(e, Joined')
    BY <1>1, <1>10, <2>1 DEF Leaving
  <2>5. DepartedFirst(now'[v], Joined')
    BY <2>2, <2>3, FirstFacts
  <2>6. \E e \in Expects(v)' : e.kind = "departed"
    BY <1>12, <2>2 DEF Expects, Waits
  <2> QED BY <1>9, <2>3, <2>4, <2>5, <2>6 DEF Leaving
<1>13. CASE h.kind # "departed"
  <2>1. DepartedFirst(now'[v], Joined)
    <3>1. CASE now'[v] = Tail(now[v])
      BY <1>1, <1>4, <1>13, <3>1, FirstFacts DEF Leaving, h
    <3>2. CASE h.kind = "changed" /\ now'[v] = Replaced(now[v], Event("requested", Rel(v)))
      <4>1. Event("requested", Rel(v)) \in Events
        BY <1>0, <1>4, <3>2, HeadFacts, EventFacts DEF Typed, Kinds, h
      <4> QED BY <1>1, <1>4, <1>7, <1>13, <3>2, <4>1, FirstFacts DEF Leaving, h
    <3> QED BY <1>6, <3>1, <3>2
  <2>2. DepartedFirst(now'[v], Joined')
    <3>1. now'[v] \in Seq(Events)
      <4>1. Queues
        BY <1>0, HandlersMove, DropsFacts, PutsFacts, EmitsFacts DEF Ran, Typed
      <4> QED BY <1>0, <4>1 DEF Queues
    <3>2. \A i \in 1 .. Len(now'[v]) : now'[v][i] \in ToSet(now'[v])
      BY <3>1, InElements
    <3> QED BY <1>11, <2>1, <3>2 DEF DepartedFirst
  <2>3. (\E e \in Waits(v) : e.kind = "departed") => \E e \in Waits(v)' : e.kind = "departed"
    BY <1>4, <1>6, <1>13 DEF Waits
  <2>4. (\E e \in Expects(v) : e.kind = "departed") => \E e \in Expects(v)' : e.kind = "departed"
    BY <1>2, <2>3 DEF Expects
  <2>5. (\E e \in ToSet(now'[v]) : Leaves(e, Joined')) => "unready" \in incidents'
    BY <1>1, <1>2, <1>11 DEF Leaving
  <2>6. (\E e \in due'[v] : Leaves(e, Joined')) =>
           "unready" \in incidents' /\ \E e \in Waits(v)' : e.kind = "departed"
    BY <1>1, <1>2, <1>10, <2>3 DEF Leaving
  <2>7. knows'[v] = {} \/ \E e \in Expects(v)' : e.kind = "departed"
    BY <1>1, <1>2, <2>4 DEF Leaving
  <2> QED BY <1>9, <2>2, <2>5, <2>6, <2>7 DEF Leaving
<1> QED BY <1>12, <1>13

\* A unit that is removed begins a hook.
LEMMA LeavingBegins ==
    ASSUME ~MayStayUnready, Typed, FreshInv, LeaveInv, [Next]_vars,
           NEW v \in removing \ departing, NEW e \in due[v], Begin(v, e)
    PROVE  Leaving(v)'
<1>0. v \in Units
  BY DEF Typed, JujuType
<1>1. Leaving(v) /\ later[v] \in Seq(Events)
  BY <1>0 DEF LeaveInv, Typed, QueueType
<1>2. /\ e \in Events /\ now'[v] = Append(later[v], e) /\ ToSet(now'[v]) = ToSet(later[v]) \cup {e}
      /\ ToSet(later'[v]) = {} /\ ToSet(now[v]) = {} /\ due'[v] = due[v] \ {e}
  BY <1>0, BeginsTake, TakesFacts DEF Typed
<1>3. rel' = rel /\ incidents' = incidents /\ Joined' = Joined /\ knows'[v] \subseteq knows[v]
  BY RemovingSteps DEF Begin, Joined
<1>4. Leaves(e, Joined) => "unready" \in incidents /\ \E d \in ToSet(later[v]) : d.kind = "departed"
  BY <1>1, <1>2 DEF Leaving, Waits
<1>5. \A d \in ToSet(later[v]) : ~Leaves(d, Joined)
  BY <1>1 DEF Leaving
<1>6. DepartedFirst(now'[v], Joined')
  BY <1>1, <1>2, <1>3, <1>4, <1>5, FirstFacts
<1>7. (\E d \in ToSet(now'[v]) : Leaves(d, Joined')) => "unready" \in incidents'
  BY <1>2, <1>3, <1>4, <1>5
<1>8. (\E d \in due'[v] : Leaves(d, Joined')) =>
         "unready" \in incidents' /\ \E d \in Waits(v)' : d.kind = "departed"
  BY <1>1, <1>2, <1>3 DEF Leaving, Waits
<1>9. knows'[v] = {} \/ \E d \in Expects(v)' : d.kind = "departed"
  BY <1>1, <1>2, <1>3 DEF Leaving, Waits, Expects
<1> QED BY <1>2, <1>6, <1>7, <1>8, <1>9 DEF Leaving

LEMMA LeavingKept ==
    ASSUME ~MayStayUnready, Typed, FreshInv, LeaveInv, [Next]_vars, NEW v \in removing' \ departing', v \in Units
    PROVE  Leaving(v)'
<1>1. CASE v \notin removing
  BY <1>1, RemovingSteps, LeavingStarts
<1>2. CASE v \in removing
  <2>1. v \notin departing
    BY RemovingSteps
  <2>2. CASE Handle(v) \/ NotReady(v)
    BY <1>2, <2>1, <2>2, LeavingRuns
  <2>3. CASE \E e \in due[v] : Begin(v, e)
    BY <1>2, <2>1, <2>3, LeavingBegins
  <2>4. CASE ~(Handle(v) \/ NotReady(v)) /\ ~\E e \in due[v] : Begin(v, e)
    <3>1. now'[v] = now[v] /\ later'[v] = later[v]
      <4>1. CASE Rests
        BY <4>1 DEF Rests
      <4>2. ASSUME NEW u \in Units \ {v}, Handle(u) \/ NotReady(u)
            PROVE  Others(u)
        BY <4>2, HandlersMove, DropsFacts, PutsFacts, EmitsFacts DEF Ran, Typed
      <4>3. ASSUME NEW u \in Units \ {v}, NEW e \in due[u], Begin(u, e)
            PROVE  Others(u)
        BY <4>3, BeginsTake, TakesFacts DEF Typed
      <4>4. ASSUME NEW u \in Units, BeginOther(u)
            PROVE  Others(u) /\ u # v
        BY <1>2, <4>4, OthersResume, ResumesFacts DEF Typed, BeginOther
      <4>5. ASSUME NEW u \in Units, Outside(u)
            PROVE  Rests
        BY <4>5, OutsideRests DEF Typed
      <4>6. ASSUME NEW r \in Relations, Relates(r)
            PROVE  Rests
        BY <4>6, RelatesRests
      <4>7. CASE UNCHANGED vars \/ ClientMakes
        BY <4>1, <4>7 DEF vars, ClientMakes, Rests
      <4> QED BY <2>4, <4>1, <4>2, <4>3, <4>4, <4>5, <4>6, <4>7, Steps DEF Others
    <3> QED BY <1>2, <2>1, <2>4, <3>1, LeavingRests
  <2> QED BY <2>2, <2>3, <2>4
<1> QED BY <1>1, <1>2

LEMMA LaterDeparted ==
    ASSUME ~MayStayUnready, Typed, LeaveInv, [Next]_vars, NEW v \in Units, NEW e \in ToSet(later'[v]), e.kind = "departed"
    PROVE  "unready" \in incidents'
<1>1. CASE e \in ToSet(later[v])
  BY <1>1, IncidentsKept DEF LeaveInv
<1>2. CASE later' = later
  BY <1>1, <1>2
<1>3. ASSUME NEW u \in Units, Handle(u) \/ NotReady(u)
      PROVE  "unready" \in incidents'
  <2>1. CASE Puts(u)
    <3>1. v # u => e \in ToSet(later[v])
      BY <2>1, PutsFacts DEF Typed, Others
    <3>2. v = u => e \in ToSet(later[v]) \/ e = Head(now[u])
      BY <2>1, PutsFacts DEF Typed
    <3>3. CASE v = u /\ e = Head(now[u])
      <4>1. later'[u] # later[u]
        <5>1. Head(now[u]) \in Events /\ later[u] \in Seq(Events)
          BY <2>1, HeadFacts DEF Puts, Typed, QueueType
        <5>2. Len(later'[u]) = Len(later[u]) + 1 /\ Len(later[u]) \in Nat
          BY <2>1, <5>1, PutsFacts, AppendIs DEF Typed
        <5> QED BY <5>2
      <4> QED BY <1>3, <3>3, <4>1, DepartedHandled DEF Drops
    <3> QED BY <1>1, <3>1, <3>2, <3>3
  <2>2. CASE Drops(u) \/ Emits(u, Rel(u))
    BY <1>2, <2>2 DEF Drops, Emits
  <2> QED BY <1>3, <2>1, <2>2, HandlersMove DEF Ran, Typed
<1>4. ASSUME NEW u \in Units, BeginOther(u) \/ \E d \in due[u] : Begin(u, d)
      PROVE  e \in ToSet(later[v])
  <2>1. Others(u) /\ ToSet(later'[u]) = {}
    BY <1>4, OthersResume, BeginsTake, TakesFacts, ResumesFacts DEF Typed
  <2> QED BY <2>1 DEF Others
<1>5. ASSUME NEW u \in Units, Outside(u)
      PROVE  later' = later
  BY <1>5, OutsideRests DEF Rests, Typed
<1>6. ASSUME NEW r \in Relations, Relates(r)
      PROVE  later' = later
  BY <1>6, RelatesRests DEF Rests
<1>7. CASE UNCHANGED vars \/ ClientMakes
  BY <1>2, <1>7 DEF vars, ClientMakes
<1> QED BY <1>1, <1>2, <1>3, <1>4, <1>5, <1>6, <1>7, Steps

LEMMA LeaveKept ==
    ASSUME Typed, FreshInv, LeaveInv, [Next]_vars
    PROVE  LeaveInv'
<1>1. ASSUME NEW v \in Units \ removing', NEW e \in Expects(v)'
      PROVE  e.kind # "departed" /\ ~Leaves(e, Joined')
  <2>1. v \notin removing
    BY <1>1, RemovingSteps
  <2>2. CASE e \in Expects(v)
    BY <1>1, <2>1, <2>2, LeavesKept DEF LeaveInv
  <2>3. CASE e \notin Expects(v)
    <3>1. News(v, e)
      BY <1>1, <2>3, NewsSteps
    <3> QED BY <1>1, <2>1, <3>1 DEF News, Leaves, Joined, RelationsEnd, Kinds
  <2> QED BY <2>2, <2>3
<1>2. ASSUME ~MayStayUnready, NEW v \in Units
      PROVE  /\ (\E e \in ToSet(later'[v]) : e.kind = "departed") => "unready" \in incidents'
             /\ v \in removing' \ departing' => Leaving(v)'
  BY <1>2, LaterDeparted, LeavingKept
<1> QED BY <1>1, <1>2 DEF LeaveInv

-----------------------------------------------------------------------------
(* A unit is blocked for a reason. *)

LEMMA WaitsStay ==
    ASSUME Typed, NEW u \in Units, Handle(u) \/ NotReady(u)
    PROVE  /\ Waits(u) \subseteq Waits(u)' \cup {Head(now[u])}
           /\ Puts(u) => Waits(u) \subseteq Waits(u)'
           /\ \A v \in Units \ {u} : Waits(v)' = Waits(v)
<1>1. CASE Drops(u)
  <2>1. later'[u] # Append(later[u], Head(now[u]))
    <3>1. Head(now[u]) \in Events /\ later[u] \in Seq(Events)
      BY <1>1, HeadFacts DEF Drops, Typed, QueueType
    <3>2. Len(Append(later[u], Head(now[u]))) # Len(later[u])
      BY <3>1, AppendIs
    <3> QED BY <1>1, <3>2 DEF Drops
  <2>2. ~Puts(u)
    BY <2>1 DEF Puts, Typed, QueueType
  <2> QED BY <1>1, <2>2, DropsFacts DEF Typed, Waits, Others
<1>2. CASE Puts(u)
  BY <1>2, PutsFacts DEF Typed, Waits, Others
<1>3. CASE Emits(u, Rel(u)) /\ ~Puts(u)
  BY <1>3, EmitsFacts DEF Waits, Others
<1> QED BY <1>1, <1>2, <1>3, HandlersMove DEF Ran, Typed

\* What a unit waits for stays until a handler runs; a relation leaves its model when the
\* hook of its end begins.
LEMMA RestsKeep ==
    ASSUME Typed, [Next]_vars, ~\E u \in Units : Handle(u) \/ NotReady(u), NEW v \in Units
    PROVE  /\ Waits(v) \subseteq Waits(v)'
           /\ \A q \in knows[v] \ knows'[v] : \E e \in Waits(v)' : e.kind = "broken" /\ e.rel = q
<1> DEFINE Keeps == /\ Waits(v) \subseteq Waits(v)'
                    /\ \A q \in knows[v] \ knows'[v] :
                          \E e \in Waits(v)' : e.kind = "broken" /\ e.rel = q
<1>1. ASSUME NEW u \in Units, NEW d \in due[u], Begin(u, d)
      PROVE  Keeps
  <2>1. Others(u) /\ ToSet(now'[u]) = ToSet(later[u]) \cup {d} /\ ToSet(now[u]) = {}
    BY <1>1, BeginsTake, TakesFacts DEF Typed
  <2>2. Waits(v) \subseteq Waits(v)' /\ d \in Waits(u)'
    BY <2>1 DEF Waits, Others
  <2>3. ASSUME NEW q \in knows[v] \ knows'[v]
        PROVE  v = u /\ d.kind = "broken" /\ d.rel = q
    BY <1>1, <2>3 DEF Begin, Typed, JujuType
  <2> QED BY <2>2, <2>3
<1>2. ASSUME NEW u \in Units, BeginOther(u)
      PROVE  Keeps
  <2>1. Others(u) /\ now'[u] = later[u] /\ ToSet(now[u]) = {}
    BY <1>2, OthersResume, ResumesFacts DEF Typed
  <2>2. Waits(v) \subseteq Waits(v)'
    BY <2>1 DEF Waits, Others
  <2> QED BY <1>2, <2>2 DEF BeginOther
<1>3. ASSUME Rests, knows[v] \subseteq knows'[v]
      PROVE  Keeps
  BY <1>3 DEF Waits, Rests
<1>4. ASSUME NEW u \in Units, Outside(u)
      PROVE  Rests /\ knows' = knows
  <2>1. knows' = knows
    BY <1>4 DEF Outside, RequestDies, LegacyDies, StartObserver, Observe, ObserverDies,
                RemoveUnit, RelationsEnd, UnitGone, Elect
  <2> QED BY <1>4, <2>1, OutsideRests DEF Typed
<1>5. ASSUME NEW r \in Relations, Relates(r)
      PROVE  Rests /\ knows[v] \subseteq knows'[v]
  <2>1. knows[v] \subseteq knows'[v]
    BY <1>5 DEF Relates, Relate, ClientChanges, RemoveRelation
  <2> QED BY <1>5, <2>1, RelatesRests
<1>6. ASSUME UNCHANGED vars \/ ClientMakes
      PROVE  Rests /\ knows' = knows
  BY <1>6 DEF vars, ClientMakes, Rests
<1> HIDE DEF Keeps
<1>7. Keeps
  BY <1>1, <1>2, <1>3, <1>4, <1>5, <1>6, Steps
<1> QED BY <1>7 DEF Keeps

\* What a unit knows, or waits for, is of a relation that was made: it does not become legacy.
LEMMA KnownStays ==
    ASSUME Typed, FreshInv, [Next]_vars, NEW v \in Units
    PROVE  /\ \A q \in knows[v] : q \in legacy' => q \in legacy
           /\ \A e \in Waits(v) : e.kind \in Kinds /\ e.rel \in legacy' => e.rel \in legacy
<1>1. \A q \in knows[v] : rel[q] # "none"
  BY DEF FreshInv, Typed, JujuType
<1>2. \A e \in Waits(v) : e.kind \in Kinds => e.rel \in Relations
  <2>1. now[v] \in Seq(Events) /\ later[v] \in Seq(Events)
    BY DEF Typed, QueueType
  <2>2. Waits(v) \subseteq Events
    BY <2>1, InElements DEF Waits
  <2> QED BY <2>2, EventFacts
<1>3. \A e \in Waits(v) : e.kind \in Kinds => rel[e.rel] # "none"
  BY <1>2 DEF FreshInv, Expects
<1> QED BY <1>1, <1>3, LegacyGrows

LEMMA StatusStays ==
    ASSUME [Next]_vars, ~\E u \in Units : Handle(u) \/ NotReady(u)
    PROVE  blocked' = blocked
  BY Steps, StatusRests, StatusRelates DEF vars

\* Why a unit is blocked for the roles of a relation.
RolesReason(u) == (knows[u] \cap bad) \ legacy # {} \/ Ends(u, Relations \ legacy)

LEMMA RolesKept ==
    ASSUME Typed, FreshInv, RequestInv, RolesInv, [Next]_vars
    PROVE  RolesInv'
<1>1. SUFFICES ASSUME NEW v \in Units \ removing', blocked'[v] = "roles"
               PROVE  RolesReason(v)'
  BY DEF RolesInv, RolesReason
<1>2. v \notin removing /\ v \in Units
  BY <1>1, RemovingSteps
<1>3. blocked[v] = "roles" => RolesReason(v)
  BY <1>2 DEF RolesInv, RolesReason
<1>4. ASSUME NEW u \in Units, Handle(u) \/ NotReady(u)
      PROVE  RolesReason(v)'
  <2>1. BlocksFor(u)
    BY <1>4, HandlersBlock
  <2>2. UNCHANGED <<juju, chosen>>
    BY <1>4, HandlersMove DEF Typed
  <2>3. CASE v # u
    <3>1. blocked[v] = "roles" /\ Waits(v)' = Waits(v)
      BY <1>1, <1>2, <1>4, <2>1, <2>3, WaitsStay DEF BlocksFor
    <3> QED BY <1>3, <2>2, <3>1 DEF RolesReason, Ends
  <2>4. CASE v = u
    <3>1. u \notin departing
      BY <1>2, <2>4 DEF Typed, JujuType
    <3>2. CASE (knows[u] \cap bad) \ legacy # {}
      BY <2>2, <2>4, <3>2 DEF RolesReason
    <3>3. CASE /\ blocked[u] = "roles" /\ Ends(u, Relations \ legacy)
               /\ Puts(u) \/ ~(Head(now[u]).kind = "broken" /\ Rel(u) \notin legacy)
      <4>1. PICK e \in Waits(u) : e.kind = "broken" /\ e.rel \in Relations \ legacy
        BY <3>3 DEF Ends
      <4>2. e \in Waits(u)'
        BY <1>4, <3>3, <4>1, WaitsStay DEF Rel
      <4>3. Ends(u, Relations \ legacy)'
        BY <2>2, <4>1, <4>2 DEF Ends
      <4> QED BY <2>4, <4>3 DEF RolesReason
    <3>4. \/ (knows[u] \cap bad) \ legacy # {}
          \/ /\ blocked[u] = "roles"
             /\ Puts(u) \/ ~(Head(now[u]).kind = "broken" /\ Rel(u) \notin legacy)
      BY <1>1, <2>1, <2>4, <3>1 DEF BlocksFor
    <3> QED BY <1>3, <2>4, <3>2, <3>3, <3>4 DEF RolesReason
  <2> QED BY <2>3, <2>4
<1>5. CASE ~\E u \in Units : Handle(u) \/ NotReady(u)
  <2>1. RolesReason(v)
    BY <1>1, <1>3, <1>5, StatusStays
  <2>2. Waits(v) \subseteq Waits(v)'
    BY <1>2, <1>5, RestsKeep
  <2>3. bad \subseteq bad' /\ bad \subseteq Relations
    BY RelationSteps DEF Typed, JujuType
  <2>4. CASE Ends(v, Relations \ legacy)
    <3>1. PICK e \in Waits(v) : e.kind = "broken" /\ e.rel \in Relations \ legacy
      BY <2>4 DEF Ends
    <3>2. e.rel \notin legacy' /\ e \in Waits(v)'
      BY <1>2, <2>2, <3>1, KnownStays DEF Kinds
    <3>3. Ends(v, Relations \ legacy)'
      BY <3>1, <3>2 DEF Ends
    <3> QED BY <3>3 DEF RolesReason
  <2>5. ASSUME NEW q \in (knows[v] \cap bad) \ legacy
        PROVE  RolesReason(v)'
    <3>1. q \notin legacy' /\ q \in bad' /\ q \in Relations
      BY <1>2, <2>3, <2>5, KnownStays
    <3>2. CASE q \in knows'[v]
      BY <3>1, <3>2 DEF RolesReason
    <3>3. CASE q \notin knows'[v]
      <4>1. PICK e \in Waits(v)' : e.kind = "broken" /\ e.rel = q
        BY <1>2, <1>5, <2>5, <3>3, RestsKeep
      <4>2. Ends(v, Relations \ legacy)'
        BY <3>1, <4>1 DEF Ends
      <4> QED BY <4>2 DEF RolesReason
    <3> QED BY <3>2, <3>3
  <2> QED BY <2>1, <2>4, <2>5 DEF RolesReason
<1> QED BY <1>4, <1>5

\* As long as no unit is removed and no other one elected.
LEMMA UndisturbedSteps ==
    ASSUME Typed, EndpointsInv, [Next]_vars, Undisturbed'
    PROVE  /\ Undisturbed /\ present = Units /\ removing = {}
           /\ UNCHANGED <<leader, present, removing>>
<1>1. Undisturbed
  BY IncidentsKept DEF Undisturbed
<1>2. present = Units /\ removing = {} /\ leader \in present
  BY <1>1 DEF EndpointsInv, Typed, JujuType
<1>3. ASSUME NEW u \in Units, Outside(u)
      PROVE  UNCHANGED <<leader, present, removing>>
  <2>1. CASE RemoveUnit(u) \/ Elect(u)
    <3>1. "removed" \in incidents' \/ "elected" \in incidents'
      BY <1>2, <2>1, IncidentFacts DEF RemoveUnit, Elect
    <3> QED BY <3>1 DEF Undisturbed
  <2>2. ~RelationsEnd(u) /\ ~UnitGone(u)
    BY <1>2 DEF RelationsEnd, UnitGone
  <2> QED BY <1>3, <2>1, <2>2 DEF Outside, RequestDies, LegacyDies, StartObserver, Observe,
                                  ObserverDies
<1>4. ASSUME NEW u \in Units, Handle(u) \/ NotReady(u)
      PROVE  UNCHANGED <<leader, present, removing>>
  BY <1>4, HandlersMove DEF Typed
<1>5. ASSUME NEW u \in Units, BeginOther(u) \/ \E e \in due[u] : Begin(u, e)
      PROVE  UNCHANGED <<leader, present, removing>>
  BY <1>5 DEF BeginOther, Begin
<1>6. ASSUME NEW r \in Relations, Relates(r)
      PROVE  UNCHANGED <<leader, present, removing>>
  BY <1>6 DEF Relates, Relate, ClientChanges, RemoveRelation
<1>7. ASSUME UNCHANGED vars \/ ClientMakes
      PROVE  UNCHANGED <<leader, present, removing>>
  BY <1>7 DEF vars, ClientMakes
<1>8. UNCHANGED <<leader, present, removing>>
  BY <1>3, <1>4, <1>5, <1>6, <1>7, Steps
<1> QED BY <1>1, <1>2, <1>8

\* Why a unit is blocked for having both kinds of endpoint.
EndpointsReason(u) == Multiple(u) \/ Ends(u, Relations)

LEMMA EndpointsKept ==
    ASSUME Typed, FreshInv, RequestInv, EndpointsInv, [Next]_vars
    PROVE  EndpointsInv'
<1>1. SUFFICES ASSUME Undisturbed'
               PROVE  /\ present' = Units /\ removing' = {}
                      /\ \A u \in Units : blocked'[u] = "endpoints" =>
                            u = leader' /\ EndpointsReason(u)'
  BY DEF EndpointsInv, EndpointsReason
<1>2. Undisturbed /\ present' = Units /\ removing = {} /\ removing' = {} /\ leader' = leader
  BY <1>1, UndisturbedSteps
<1>3. SUFFICES ASSUME NEW v \in Units, blocked'[v] = "endpoints"
               PROVE  v = leader /\ EndpointsReason(v)'
  BY <1>2
<1>4. blocked[v] = "endpoints" => v = leader /\ EndpointsReason(v)
  BY <1>2 DEF EndpointsInv, EndpointsReason
<1>5. ASSUME NEW u \in Units, Handle(u) \/ NotReady(u)
      PROVE  v = leader /\ EndpointsReason(v)'
  <2>1. BlocksFor(u)
    BY <1>5, HandlersBlock
  <2>2. UNCHANGED <<juju, chosen>>
    BY <1>5, HandlersMove DEF Typed
  <2>3. CASE v # u
    <3>1. blocked[v] = "endpoints" /\ Waits(v)' = Waits(v)
      BY <1>3, <1>5, <2>1, <2>3, WaitsStay DEF BlocksFor
    <3> QED BY <1>4, <2>2, <3>1 DEF EndpointsReason, Multiple, Ends
  <2>4. CASE v = u
    <3>1. u \notin departing
      BY <1>2 DEF Typed, JujuType
    <3>2. CASE v = leader /\ Multiple(u)
      BY <2>2, <2>4, <3>2 DEF EndpointsReason, Multiple
    <3>3. CASE /\ blocked[u] = "endpoints" /\ Ends(u, Relations)
               /\ Puts(u) \/ Head(now[u]).kind # "broken"
      <4>1. PICK e \in Waits(u) : e.kind = "broken" /\ e.rel \in Relations
        BY <3>3 DEF Ends
      <4>2. e \in Waits(u)'
        BY <1>5, <3>3, <4>1, WaitsStay
      <4>3. Ends(u, Relations)'
        BY <4>1, <4>2 DEF Ends
      <4> QED BY <1>4, <2>4, <3>3, <4>3 DEF EndpointsReason
    <3>4. \/ Multiple(u) /\ u = leader
          \/ /\ blocked[u] = "endpoints"
             /\ Puts(u) \/ u # leader \/ Head(now[u]).kind # "broken"
      BY <1>3, <2>1, <2>4, <3>1 DEF BlocksFor
    <3> QED BY <1>4, <2>4, <3>2, <3>3, <3>4 DEF EndpointsReason
  <2> QED BY <2>3, <2>4
<1>6. CASE ~\E u \in Units : Handle(u) \/ NotReady(u)
  <2>1. v = leader /\ EndpointsReason(v)
    BY <1>3, <1>4, <1>6, StatusStays
  <2>2. Waits(v) \subseteq Waits(v)'
    BY <1>6, RestsKeep
  <2>3. CASE Ends(v, Relations)
    BY <2>1, <2>2, <2>3 DEF EndpointsReason, Ends
  <2>4. CASE Multiple(v)
    <3>1. PICK p \in knows[v] \ legacy, q \in knows[v] \cap legacy : TRUE
      BY <2>4 DEF Multiple
    <3>2. p \notin legacy' /\ q \in legacy' /\ {p, q} \subseteq Relations
      BY <3>1, KnownStays, LegacyGrows DEF Typed, JujuType
    <3>3. ASSUME NEW s \in {p, q}, s \notin knows'[v]
          PROVE  Ends(v, Relations)'
      <4>1. s \in knows[v] \ knows'[v] /\ s \in Relations
        BY <3>1, <3>2, <3>3
      <4>2. \E e \in Waits(v)' : e.kind = "broken" /\ e.rel = s
        BY <1>6, <4>1, RestsKeep
      <4> QED BY <4>1, <4>2 DEF Ends
    <3>4. p \in knows'[v] /\ q \in knows'[v] => Multiple(v)'
      BY <3>2 DEF Multiple
    <3> QED BY <2>1, <3>3, <3>4 DEF EndpointsReason
  <2> QED BY <2>1, <2>3, <2>4 DEF EndpointsReason
<1> QED BY <1>5, <1>6

-----------------------------------------------------------------------------
(* Users are let in. *)

\* Given what a unit writes: its hash, and a pg_hba.conf with at least that.
LEMMA WritesFacts ==
    ASSUME ~MayMissRules, Typed, NEW u \in Units, Writes(u)
    PROVE  /\ hash'[u] \subseteq hba'[u] /\ knows[u] \ legacy \subseteq hba'[u]
           /\ \A v \in Units \ {u} : hash'[v] = hash[v] /\ hba'[v] = hba[v]
<1>1. PICK g \in SUBSET Relations, c \in SUBSET Relations :
          knows[u] \ legacy \subseteq c /\ Written(u, g, c)
  BY DEF Writes
<1>2. hash' = [hash EXCEPT ![u] = c] /\ hba' = [hba EXCEPT ![u] = g \cup c]
  BY <1>1 DEF Written, LetIn
<1> QED BY <1>1, <1>2 DEF Typed, FilesType

\* A unit that stays sees the end of a relation only when it is removed.
LEMMA JoinedStays ==
    ASSUME Typed, FreshInv, LeaveInv, [Next]_vars, NEW v \in Units \ removing, NEW r \in knows[v],
           rel[r] = "joined"
    PROVE  r \in knows'[v]
<1>1. ASSUME NEW u \in Units, NEW e \in due[u], Begin(u, e), r \notin knows'[v]
      PROVE  FALSE
  <2>1. v = u /\ e.kind = "broken" /\ e.rel = r
    BY <1>1 DEF Begin, Typed, JujuType
  <2>2. e \in Expects(v) /\ r \in Relations
    BY <2>1 DEF Expects, Typed, JujuType
  <2> QED BY <2>1, <2>2 DEF LeaveInv, Leaves, Joined
<1>2. ASSUME NEW u \in Units, BeginOther(u) \/ Handle(u) \/ NotReady(u) \/ Outside(u)
      PROVE  knows' = knows
  <2>1. Handle(u) \/ NotReady(u) => knows' = knows
    BY HandlersMove DEF Typed
  <2> QED BY <1>2, <2>1 DEF BeginOther, Outside, RequestDies, LegacyDies, StartObserver, Observe,
                            ObserverDies, RemoveUnit,
                            RelationsEnd, UnitGone, Elect
<1>3. ASSUME NEW q \in Relations, Relates(q)
      PROVE  knows[v] \subseteq knows'[v]
  BY <1>3 DEF Relates, Relate, ClientChanges, RemoveRelation
<1>4. UNCHANGED vars \/ ClientMakes => knows' = knows
  BY DEF vars, ClientMakes
<1> QED BY <1>1, <1>2, <1>3, <1>4, Steps

LEMMA FilesKept ==
    ASSUME ~MayMissRules, Typed, FreshInv, LeaveInv, FilesInv, [Next]_vars
    PROVE  FilesInv'
<1>1. ASSUME NEW v \in Units
      PROVE  hash'[v] \subseteq hba'[v]
  <2>1. hash[v] \subseteq hba[v]
    BY DEF FilesInv
  <2>2. ASSUME NEW u \in Units, Writes(u)
        PROVE  hash'[v] \subseteq hba'[v]
    BY <2>1, <2>2, WritesFacts
  <2> QED BY <2>1, <2>2, FilesSteps
<1>2. ASSUME NEW v \in present' \ removing', NEW r \in Joined'
      PROVE  r \in knows'[v]
  <2>1. v \in present \ removing /\ v \in Units
    BY <1>2, RemovingSteps DEF Typed, JujuType
  <2>2. r \in Relations /\ rel'[r] = "joined"
    BY <1>2 DEF Joined
  <2>3. CASE rel[r] = "joined"
    <3>1. r \in knows[v]
      BY <2>1, <2>2, <2>3 DEF FilesInv, Joined
    <3> QED BY <2>1, <2>3, <3>1, JoinedStays
  <2>4. CASE rel[r] # "joined"
    <3>1. PICK q \in Relations : Relate(q) /\ rel' = [rel EXCEPT ![q] = "joined"]
      BY <2>2, <2>4, RelationSteps DEF Typed, JujuType
    <3>2. q = r
      BY <2>2, <2>4, <3>1 DEF Typed, JujuType
    <3> QED BY <2>1, <3>1, <3>2 DEF Relate
  <2> QED BY <2>3, <2>4
<1> QED BY <1>1, <1>2 DEF FilesInv

LEMMA LetInKept ==
    ASSUME ~MayMissRules, Typed, FreshInv, RequestInv, LeaveInv, FilesInv, LetInEverywhere,
           [Next]_vars
    PROVE  LetInEverywhere'
<1>1. SUFFICES ASSUME NEW r \in Joined' \ legacy', bag'[r] # 0, NEW v \in present' \ removing'
               PROVE  r \in hba'[v]
  BY DEF LetInEverywhere
<1>2. /\ v \in present \ removing /\ v \in Units /\ r \in Relations \ legacy
      /\ rel[r] \in {"joined", "none"}
  BY <1>1, RemovingSteps, LegacyGrows DEF Typed, JujuType, Joined
<1>3. CASE bag[r] # 0
  <2>1. r \in Joined /\ r \in knows[v] \ legacy
    BY <1>2, <1>3 DEF FreshInv, FilesInv, Joined
  <2>2. r \in hba[v]
    BY <1>2, <1>3, <2>1 DEF LetInEverywhere
  <2>3. ASSUME NEW u \in Units, Writes(u)
        PROVE  r \in hba'[v]
    BY <1>2, <2>1, <2>2, <2>3, WritesFacts
  <2> QED BY <2>2, <2>3, FilesSteps
<1>4. CASE bag[r] = 0
  <2>1. PICK w \in Units, q \in Relations, n \in Nat :
            Creates(w, q, n) \/ SetsUp(w, q, n) \/ Removes(w, q)
    <3>1. bag' # bag
      BY <1>1, <1>4
    <3> QED BY <3>1, DataSteps DEF SameData, Removes
  <2>2. bag' = [bag EXCEPT ![q] = n] /\ q = r
    BY <1>1, <1>2, <1>4, <2>1 DEF Creates, SetsUp, Removes, Typed, DataType
  <2>3. ~SetsUp(w, q, n)
    BY <1>2, <2>2 DEF SetsUp
  <2>4. ~(bag' = bag)
    BY <1>1, <1>4
  <2>5. Synced(w) /\ r \in knows[w] /\ UpdateConfigFor(w, granted \cup {r}, Collected(w))
    BY <2>1, <2>2, <2>3, <2>4 DEF Creates, Removes
  <2>6. r \in Collected(w)
    BY <1>2, <2>5 DEF Collected
  <2>7. hba' = [hba EXCEPT ![w] = (granted \cup {r}) \cup Collected(w)]
    BY <2>5 DEF UpdateConfigFor, Written, LetIn
  <2>8. CASE v = w
    BY <2>6, <2>7, <2>8 DEF Typed, FilesType
  <2>9. CASE v # w
    <3>1. hash[v] = Collected(w) /\ hash[v] \subseteq hba[v]
      BY <1>2, <2>5, <2>9 DEF Synced, FilesInv
    <3> QED BY <1>2, <2>6, <2>7, <2>9, <3>1
  <2> QED BY <2>8, <2>9
<1> QED BY <1>3, <1>4 DEF Typed, DataType

-----------------------------------------------------------------------------
(* The invariant. *)

Working ==
    /\ Typed /\ FreshInv /\ OnceInv /\ RequestInv /\ LeaveInv
    /\ RolesInv /\ EndpointsInv
    /\ ~MayStayUnready => CredentialsWork

\* Where a unit does not miss the users of others, nor Patroni what it writes.
LettingIn == ~MayMissRules => FilesInv /\ LetInEverywhere

LEMMA InitTyped ==
    ASSUME ClientAssumption, Init
    PROVE  Typed
<1>1. 0 \in Units /\ N - 1 \in Units
  BY DEF ClientAssumption, Units
<1>2. JujuType
  BY <1>1 DEF Init, JujuType
<1>3. DataType
  BY DEF Init, DataType, NoPasswords
<1>4. FilesType
  BY DEF Init, FilesType, NotYet
<1>5. StatusType
  BY DEF Init, StatusType
<1>6. QueueType
  BY EmptyElements DEF Init, QueueType
<1> QED BY <1>2, <1>3, <1>4, <1>5, <1>6 DEF Typed

LEMMA InitWorking ==
    ASSUME ClientAssumption, Init
    PROVE  Working /\ LettingIn
<1>1. Typed
  BY InitTyped
<1>2. \A u \in Units : Waits(u) = {} /\ due[u] = {} /\ knows[u] = {} /\ blocked[u] = ""
  BY EmptyElements DEF Init, Waits
<1>3. Joined = {} /\ removing = {} /\ present = Units /\ departing = {} /\ legacy = {} /\ bad = {}
      /\ bag = NoPasswords
  BY DEF Init, Joined
<1>4. FreshInv
  BY <1>2, <1>3 DEF Init, FreshInv, Expects, NoPasswords
<1>5. OnceInv
  BY <1>2, EmptyElements DEF Init, OnceInv
<1>6. RequestInv
  BY <1>2, <1>3 DEF RequestInv, NoPasswords
<1>7. LeaveInv
  <2>1. \A u \in Units : ToSet(later[u]) = {} /\ Expects(u) = {}
    BY <1>2 DEF Waits, Expects
  <2> QED BY <1>3, <2>1 DEF LeaveInv
<1>8. RolesInv /\ EndpointsInv
  BY <1>2, <1>3 DEF RolesInv, EndpointsInv
<1>9. CredentialsWork /\ LetInEverywhere
  BY <1>3 DEF CredentialsWork, LetInEverywhere
<1>10. FilesInv
  BY <1>3 DEF Init, FilesInv
<1> QED BY <1>1, <1>4, <1>5, <1>6, <1>7, <1>8, <1>9, <1>10 DEF Working, LettingIn

LEMMA StepWorking ==
    ASSUME ClientAssumption, Working, LettingIn, [Next]_vars
    PROVE  Working' /\ LettingIn'
<1>1. /\ Typed /\ FreshInv /\ OnceInv /\ RequestInv /\ LeaveInv
      /\ RolesInv /\ EndpointsInv
      /\ ~MayStayUnready => CredentialsWork
  BY DEF Working
<1>2. JujuType' /\ DataType' /\ FilesType' /\ StatusType' /\ QueueType' /\ OnceInv'
  BY <1>1, JujuTyped, DataTyped, FilesTyped, StatusTyped, OnceKept
<1>3. FreshInv' /\ RequestInv' /\ LeaveInv'
  BY <1>1, FreshKept, RequestKept, LeaveKept
<1>4. RolesInv' /\ EndpointsInv'
  BY <1>1, RolesKept, EndpointsKept
<1>5. LettingIn'
  <2>1. ~MayMissRules => FilesInv' /\ LetInEverywhere'
    BY <1>1, FilesKept, LetInKept DEF LettingIn
  <2> QED BY <2>1 DEF LettingIn
<1>6. ~MayStayUnready => CredentialsWork'
  BY <1>1, CredentialsKept
<1> QED BY <1>2, <1>3, <1>4, <1>5, <1>6 DEF Working, Typed

LEMMA AlwaysWorking == Spec => [](Working /\ LettingIn)
<1>1. Init => Working /\ LettingIn
  BY ClientAssumption, InitWorking
<1>2. Working /\ LettingIn /\ [Next]_vars => (Working /\ LettingIn)'
  <2>1. SUFFICES ASSUME Working, LettingIn, [Next]_vars
                 PROVE  Working' /\ LettingIn'
    OBVIOUS
  <2> QED BY <2>1, ClientAssumption, StepWorking
<1> QED BY <1>1, <1>2, PTL DEF Spec

-----------------------------------------------------------------------------
(* What it is for. *)

\* The state has its type, and a unit that stays and has nothing left to do is blocked for
\* roles or for both kinds of endpoint only while it knows relations that are a reason for it,
\* the latter where no unit was removed and no other leader elected: a status goes with
\* the relation it is about, or with the hook that ends it.
THEOREM StatusesHaveReasons == Spec => []Inv
<1>1. ASSUME Working
      PROVE  Inv
  <2>1. TypeOK
    BY <1>1 DEF Working, Typed, JujuType, DataType, FilesType, StatusType, QueueType, TypeOK
  <2>2. ASSUME NEW u \in present \ removing, Idle(u)
        PROVE  /\ blocked[u] = "roles" => knows[u] \cap bad # {}
               /\ blocked[u] = "endpoints" /\ Undisturbed => Multiple(u)
    <3>1. u \in Units \ removing /\ Waits(u) = {}
      BY <1>1, <2>2, EmptyElements DEF Working, Typed, JujuType, Idle, Waits
    <3>2. \A S : ~Ends(u, S)
      BY <3>1 DEF Ends
    <3> QED BY <1>1, <3>1, <3>2 DEF Working, RolesInv, EndpointsInv
  <2> QED BY <2>1, <2>2 DEF Inv, BlockedForAReason
<1> QED BY <1>1, AlwaysWorking, PTL

\* The credentials in the bag of a relation, as long as there is one, are those of its user:
\* a request is handled once, and a unit that leaves does not delete the user for the others.
\* Hooks of several units may overlap, fail, or die and be run again.  Of legacy relations
\* it is stated where none failed or died, as that may leave another password.  A departed
\* event that is deferred twice may be overtaken by the end of its relation: PostgreSQL is
\* found unready once.
THEOREM CredentialsStay == ~MayStayUnready => (Spec => []CredentialsWork)
<1>1. CASE ~MayStayUnready
  <2>1. Working => CredentialsWork
    BY <1>1 DEF Working
  <2>2. Spec => []CredentialsWork
    BY <2>1, AlwaysWorking, PTL
  <2> QED BY <2>2
<1> QED BY <1>1

\* When a relation has its credentials every unit that stays lets its user in, and goes on
\* doing so, where units do list the users when they write their pg_hba.conf, and Patroni is
\* reloaded with it.
THEOREM LetInFirst == ~MayMissRules => (Spec => []LetInEverywhere)
<1>1. CASE ~MayMissRules
  <2>1. LettingIn => LetInEverywhere
    BY <1>1 DEF LettingIn
  <2>2. Spec => []LetInEverywhere
    BY <2>1, AlwaysWorking, PTL
  <2> QED BY <2>2
<1> QED BY <1>1
=============================================================================
