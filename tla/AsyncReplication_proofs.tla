----------------------- MODULE AsyncReplication_proofs -----------------------
(***************************************************************************)
(* Proofs about AsyncReplication for any number of units and any bounds,   *)
(* when no two clusters are promoted at the same time: that the two sides  *)
(* of a relation agree on the primary cluster, that data are deleted only  *)
(* for a primary cluster that has some, that a unit which follows has a    *)
(* copy of them, and that a detached standby is the one marked so.         *)
(***************************************************************************)
EXTENDS AsyncReplication, TLAPS

\* Facts about units and clusters that the steps use.
LEMMA UnitFacts ==
    ASSUME AsyncAssumption
    PROVE  /\ \A u \in Units : ClusterOf(u) \in Clusters
           /\ \A c \in Clusters : Leader(c) \in Units /\ ClusterOf(Leader(c)) = c
           /\ \A c \in Clusters : Other(c) \in Clusters /\ Other(c) # c
           /\ \A u \in Units : IsLeader(u) => u = Leader(ClusterOf(u))
  BY DEF AsyncAssumption, Units, ClusterOf, Leader, Clusters, Other, IsLeader

-----------------------------------------------------------------------------
(* The invariant. *)

\* Between two clusters that are related each counter is in the relation as it is in
\* the peer relation, the two differ once there is a primary, and an action under way
\* goes above both; no counter outlives the removal of the relation.
CountersInv ==
    /\ \A c \in Clusters : promoting[c] = 0 \/ promoting[Other(c)] = 0
    /\ ~related => \A c \in Clusters :
          /\ offered[c] = 0 /\ promoting[c] = 0
          /\ "broken" \in due[Leader(c)] \/ Own(c) = 0
    /\ related =>
          /\ \A u \in Units : "broken" \notin due[u]
          /\ \A c \in Clusters : offered[c] = Own(c)
          /\ \A c \in Clusters : offered[c] = offered[Other(c)] => offered[c] = 0
          /\ \A c \in Clusters : promoting[c] # 0 =>
                promoting[c] > offered[c] /\ promoting[c] > offered[Other(c)]

\* The consumer side takes over a password only when there is one.
SharedInv ==
    /\ "secret" \in due[Leader("consumer")] => related /\ shared \in Nat
    /\ offered["offer"] # 0 => shared \in Nat

IInv == TypeOK /\ CountersInv /\ SharedInv

\* What a unit follows is no counter of the future, and is forgotten with the relation;
\* until it has handled relation-created the other cluster is not promoted.
FollowedInv ==
    \A u \in Units :
        /\ ~related => "broken" \in due[u] \/ (followed[u] = 0 /\ ~stopped[u])
        /\ related => followed[u] <= Highest(ClusterOf(u))
        /\ related /\ "created" \in due[u] =>
              offered[Other(ClusterOf(u))] = 0 /\ promoting[Other(ClusterOf(u))] = 0

\* A leader without data waits to copy those of the other leader, which has some; a
\* cluster that is primary, or about to be, has data.
DataInv ==
    /\ \A u \in Units : up[u] = "running" => data[u] # "empty"
    /\ \A c \in Clusters :
          /\ data[Leader(c)] = "empty" =>
                /\ waiting[Leader(c)] /\ data[Leader(Other(c))] # "empty"
                /\ dcs[c] = "standby" \/ (dcs[c] = "none" /\ up[Leader(c)] = "down")
          /\ promoting[c] # 0 => data[Leader(c)] # "empty"
          /\ related /\ PrimaryCluster(c) = Other(c) =>
                dcs[Other(c)] = "normal" /\ data[Leader(Other(c))] # "empty"

\* Where the leaders have data, these are the same, and d is either none or the same.
Agreeing(d) ==
    \A c \in Clusters : data[Leader(c)] # "empty" =>
        /\ data[Leader(Other(c))] \in {"empty", data[Leader(c)]}
        /\ d \in {"empty", data[Leader(c)]}

\* A unit that is marked as stopped starts on what the leaders agree on.
CopiedInv ==
    \A u \in Units :
        related /\ stopped[u] /\ (data[u] # "empty" \/ up[u] # "down") => Agreeing(data[u])

\* A standby cluster is marked read-only, and no cluster is but a standby, or one whose
\* promotion did not come to its end.
Marked(c) ==
    /\ dcs[c] = "standby" => counter[c] = 0
    /\ counter[c] = 0 => dcs[c] = "standby" \/ c \in unfinished

\* Of the clusters that were detached in order, the leader that has handled
\* relation-broken marked its own; Patroni leaves a standby cluster for an action only,
\* and one that was not seen through.
LeavingInv == \A c \in Clusters : dcs[c] = "leaving" => c \in unfinished
MarkInv ==
    ~related /\ ~caught =>
        /\ \A u \in Units : up[u] = "running"
        /\ \A c \in Clusters : "broken" \in due[Leader(c)] \/ Marked(c)

CopyInv == FollowedInv /\ DataInv /\ CopiedInv /\ OneDatabase

-----------------------------------------------------------------------------
(* Types. *)

LEMMA InitType == ASSUME AsyncAssumption, Init PROVE TypeOK
<1>1. MaxChanges + 1 \in Nat /\ 0 \in Nat
  BY DEF AsyncAssumption
<1>2. Unset \in Nat \cup {Unset} /\ {} \in SUBSET Events
  OBVIOUS
<1> QED BY <1>1, <1>2, UnitFacts DEF Init, TypeOK

LEMMA HighestType ==
    ASSUME AsyncAssumption, TypeOK, NEW c \in Clusters
    PROVE  Own(c) \in Nat /\ Highest(c) \in Nat
<1>1. counter[c] \in Nat \cup {Unset} /\ offered[Other(c)] \in Nat
  BY UnitFacts DEF TypeOK
<1>2. Own(c) \in Nat
  BY <1>1 DEF Own
<1> QED BY <1>1, <1>2 DEF Highest

LEMMA NotifyType ==
    ASSUME TypeOK, NEW S \in SUBSET Units, NEW e \in Events, Notify(S, e)
    PROVE  due' \in [Units -> SUBSET Events]
  BY DEF TypeOK, Notify

LEMMA HandledType ==
    ASSUME TypeOK, NEW u \in Units, NEW e \in Events, Handled(u, e)
    PROVE  due' \in [Units -> SUBSET Events]
  BY DEF TypeOK, Handled

LEMMA MembersType ==
    ASSUME NEW c \in Clusters
    PROVE  Members(c) \subseteq Units
  BY DEF Members, Units

\* A unit that stops for a new primary cluster finds the password it takes over.
LEMMA StopsType ==
    ASSUME AsyncAssumption, IInv, NEW u \in Units, Standby(u), Stops(u)
    PROVE  /\ stopped' \in [Units -> BOOLEAN]
           /\ data' \in [Units -> Clusters \cup {"new", "empty"}]
           /\ tracked' \in BOOLEAN /\ password' \in [Clusters -> Nat]
<1> TypeOK BY DEF IInv
<1>1. stopped' \in [Units -> BOOLEAN] /\ data' \in [Units -> Clusters \cup {"new", "empty"}]
  BY DEF Stops, TypeOK
<1>2. CASE MustStop(u) /\ u = Leader("consumer")
  <2>1. ClusterOf(u) = "consumer" /\ Other("consumer") = "offer" /\ "consumer" \in Clusters
    BY <1>2, UnitFacts DEF Clusters, Other
  <2>2. Highest("consumer") # 0 /\ offered["offer"] = Highest("consumer")
    BY <2>1 DEF Standby, PrimaryCluster, None
  <2>3. shared \in Nat
    BY <2>2 DEF IInv, SharedInv
  <2> QED BY <1>1, <1>2, <2>3 DEF Stops, TakesSecret, TypeOK
<1>3. CASE ~(MustStop(u) /\ u = Leader("consumer"))
  BY <1>1, <1>3 DEF Stops, TakesSecret, TypeOK
<1> QED BY <1>2, <1>3

LEMMA StepType == ASSUME AsyncAssumption, IInv, [Next]_vars PROVE TypeOK'
<1> USE DEF relation, peers, bags, patroni, history, bounds
<1> TypeOK BY DEF IInv
<1> "created" \in Events /\ "changed" \in Events /\ "broken" \in Events
    /\ "secret" \in Events
  BY DEF Events
<1>1. ASSUME NEW u \in Units, Hooks(u) \/ SecretMissing(u) \/ DatabaseStarts(u)
      PROVE TypeOK'
  <2> DEFINE c == ClusterOf(u)
  <2>0. c \in Clusters /\ Other(c) \in Clusters /\ Highest(c) \in Nat
    BY UnitFacts, HighestType
  <2>1. CASE OnCreated(u)
    BY <2>0, <2>1, HandledType DEF OnCreated, TypeOK
  <2>2. CASE ChangedIgnored(u)
    BY <2>0, <2>2, HandledType DEF ChangedIgnored, TypeOK
  <2>3. CASE ChangedPrimary(u)
    <3>1. due' \in [Units -> SUBSET Events]
      BY <2>3, HandledType DEF ChangedPrimary
    <3>2. shared' \in Nat \cup {-1} /\ dcs' \in [Clusters -> {"normal", "standby", "leaving", "none"}]
      BY <2>0, <2>3 DEF ChangedPrimary, TypeOK, Shares
    <3>3. followed' \in [Units -> Nat] /\ waiting' \in [Units -> BOOLEAN]
      BY <2>0, <2>3 DEF ChangedPrimary, TypeOK
    <3> QED BY <2>3, <3>1, <3>2, <3>3 DEF ChangedPrimary, TypeOK
  <2>4. CASE ChangedWaits(u)
    <3>1. Standby(u) /\ Stops(u)
      BY <2>4 DEF ChangedWaits
    <3>2. up' \in [Units -> {"down", "starting", "running"}]
          /\ dcs' \in [Clusters -> {"normal", "standby", "leaving", "none"}]
          /\ waiting' \in [Units -> BOOLEAN] /\ initialised' \in [Clusters -> BOOLEAN]
      BY <2>0, <2>4 DEF ChangedWaits, TypeOK
    <3> QED BY <2>4, <3>1, <3>2, StopsType DEF ChangedWaits, Unfinished, TypeOK
  <2>5. CASE ChangedStarts(u)
    <3>1. Standby(u) /\ Stops(u)
      BY <2>5 DEF ChangedStarts
    <3>2. up' \in [Units -> {"down", "starting", "running"}]
          /\ dcs' \in [Clusters -> {"normal", "standby", "leaving", "none"}]
          /\ waiting' \in [Units -> BOOLEAN] /\ initialised' \in [Clusters -> BOOLEAN]
      BY <2>0, <2>5 DEF ChangedStarts, TypeOK
    <3> QED BY <2>5, <3>1, <3>2, StopsType DEF ChangedStarts, Unfinished, TypeOK
  <2>6. CASE ChangedStarted(u)
    BY <2>0, <2>6, HandledType DEF ChangedStarted, StartedOn, TypeOK
  <2>7. CASE OnBroken(u)
    BY <2>0, <2>7, HandledType DEF OnBroken, CounterLeft, TypeOK
  <2>8. CASE OnSecretChanged(u)
    <3>1. u = Leader(c) /\ "secret" \in due[u]
      BY <2>8, UnitFacts DEF OnSecretChanged
    <3>2. CASE ~related
      BY <2>0, <2>8, <3>2, HandledType DEF OnSecretChanged, TypeOK
    <3>3. CASE related /\ c = "offer"
      <4>1. due' \in [Units -> SUBSET Events]
        BY <2>8, <3>3, UnitFacts DEF OnSecretChanged, TypeOK, Clusters
      <4>2. shared' \in Nat
        BY <2>0, <2>8, <3>3 DEF OnSecretChanged, TypeOK
      <4> QED BY <2>8, <3>3, <4>1, <4>2 DEF OnSecretChanged, TypeOK
    <3>4. CASE related /\ c # "offer"
      <4>1. c = "consumer"
        BY <2>0, <3>4 DEF Clusters
      <4>2. shared \in Nat
        BY <3>1, <4>1 DEF IInv, SharedInv
      <4> QED BY <2>8, <3>4, <4>2, HandledType DEF OnSecretChanged, TypeOK
    <3> QED BY <3>2, <3>3, <3>4
  <2>9. CASE UpdateStatus(u)
    BY <2>0, <2>9 DEF UpdateStatus, TypeOK
  <2>10. CASE SecretMissing(u)
    BY <2>0, <2>10 DEF SecretMissing, TypeOK
  <2>11. CASE DatabaseStarts(u)
    BY <2>0, <2>11, UnitFacts DEF DatabaseStarts, TypeOK
  <2> QED
    BY <1>1, <2>1, <2>2, <2>3, <2>4, <2>5, <2>6, <2>7, <2>8, <2>9, <2>10, <2>11 DEF Hooks
<1>2. ASSUME NEW c \in Clusters,
             \/ PromoteBegins(c) \/ PromoteEnds(c) \/ PromoteDies(c)
             \/ PromoteDetached(c) \/ PromoteDetachedDies(c) \/ PatroniPromotes(c)
             \/ SetPassword(c) \/ UpdateConfig(c) \/ PeerChanged(c) \/ Replicate(c)
      PROVE TypeOK'
  <2>0. Other(c) \in Clusters /\ Highest(c) \in Nat /\ Leader(c) \in Units
        /\ Members(Other(c)) \cup {Leader(c)} \subseteq Units
    BY UnitFacts, HighestType, MembersType
  <2>1. CASE PromoteBegins(c)
    BY <2>0, <2>1 DEF PromoteBegins, NextCounter, TypeOK
  <2>2. CASE PromoteEnds(c)
    <3>1. due' \in [Units -> SUBSET Events]
      BY <2>0, <2>2, NotifyType DEF PromoteEnds
    <3> QED BY <2>0, <2>2, <3>1 DEF PromoteEnds, Promoted, Shares, TypeOK
  <2>3. CASE PromoteDetached(c)
    BY <2>0, <2>3 DEF PromoteDetached, TypeOK
  <2>4. CASE SetPassword(c)
    <3>1. due' \in [Units -> SUBSET Events]
      <4>1. CASE c = "offer" BY <2>0, <2>4, <4>1, NotifyType DEF SetPassword
      <4>2. CASE c # "offer" BY <2>0, <2>4, <4>2, NotifyType DEF SetPassword
      <4> QED BY <4>1, <4>2
    <3> QED BY <2>0, <2>4, <3>1 DEF SetPassword, TypeOK
  <2>5. CASE PeerChanged(c)
    BY <2>0, <2>5 DEF PeerChanged, TypeOK
  <2>6. CASE Replicate(c)
    BY <2>0, <2>6 DEF Replicate, TypeOK
  <2>7. CASE PromoteDies(c) \/ PromoteDetachedDies(c)
    BY <2>0, <2>7 DEF PromoteDies, PromoteDetachedDies, AsksPatroni, TypeOK
  <2>8. CASE PatroniPromotes(c) \/ UpdateConfig(c)
    BY <2>0, <2>8 DEF PatroniPromotes, UpdateConfig, TypeOK
  <2> QED BY <1>2, <2>1, <2>2, <2>3, <2>4, <2>5, <2>6, <2>7, <2>8
<1>3. CASE RemoveRelation
  <2>1. due' \in [Units -> SUBSET Events]
    BY <1>3 DEF RemoveRelation
  <2>2. offered' \in [Clusters -> Nat] /\ shared' \in Nat \cup {-1}
    BY <1>3 DEF RemoveRelation
  <2>3. breaks' \in Nat
    BY <1>3 DEF RemoveRelation, TypeOK
  <2>4. related' \in BOOLEAN /\ tracked' \in BOOLEAN /\ caught' \in BOOLEAN
    BY <1>3 DEF RemoveRelation, TypeOK
  <2> QED BY <1>3, <2>1, <2>2, <2>3, <2>4 DEF RemoveRelation, TypeOK
<1>4. CASE Relate
  BY <1>4 DEF Relate, TypeOK
<1>5. CASE UNCHANGED vars
  BY <1>5 DEF vars, TypeOK
<1> QED BY <1>1, <1>2, <1>3, <1>4, <1>5 DEF Next

-----------------------------------------------------------------------------
(* The counters. *)

LEMMA InitInv == ASSUME AsyncAssumption, Init PROVE CountersInv /\ SharedInv
  BY UnitFacts DEF Init, CountersInv, SharedInv, Own, Clusters

\* What most steps do: they leave the counters alone, and add no event but "changed".
Quiet ==
    /\ UNCHANGED <<related, offered, counter, promoting>>
    /\ shared' = shared \/ shared' \in Nat
    /\ \A u \in Units : due'[u] \subseteq due[u] \cup {"changed"}
    /\ ~related => \A c \in Clusters : "broken" \in due[Leader(c)] => "broken" \in due'[Leader(c)]

LEMMA QuietInv ==
    ASSUME AsyncAssumption, CountersInv, SharedInv, Quiet
    PROVE  CountersInv' /\ SharedInv'
<1>1. \A c \in Clusters : Own(c)' = Own(c)
  BY DEF Quiet, Own
<1>2. CountersInv'
  BY <1>1, UnitFacts DEF Quiet, CountersInv
<1>3. SharedInv'
  BY UnitFacts DEF Quiet, SharedInv, Clusters
<1> QED BY <1>2, <1>3

LEMMA StepInv ==
    ASSUME AsyncAssumption, ~MayRace, IInv, [Next]_vars
    PROVE  CountersInv' /\ SharedInv'
<1> USE DEF relation, peers, bags, patroni, history, bounds
<1>0. TypeOK /\ CountersInv /\ SharedInv BY DEF IInv
<1>1. ASSUME NEW u \in Units, Hooks(u) \/ SecretMissing(u) \/ DatabaseStarts(u)
      PROVE CountersInv' /\ SharedInv'
  <2> DEFINE c == ClusterOf(u)
  <2>0. c \in Clusters /\ Other(c) \in Clusters
    BY UnitFacts
  <2>1. CASE OnCreated(u)
    <3>1. Quiet BY <1>0, <2>1 DEF OnCreated, Handled, TypeOK, Quiet
    <3> QED BY <1>0, <3>1, QuietInv
  <2>2. CASE ChangedIgnored(u)
    <3>1. Quiet BY <1>0, <2>2 DEF ChangedIgnored, Handled, TypeOK, Quiet
    <3> QED BY <1>0, <3>1, QuietInv
  <2>3. CASE ChangedPrimary(u)
    <3>1. shared' = shared \/ shared' \in Nat
      BY <1>0, <2>0, <2>3 DEF ChangedPrimary, Shares, TypeOK
    <3>2. Quiet BY <1>0, <2>3, <3>1 DEF ChangedPrimary, Handled, TypeOK, Quiet
    <3> QED BY <1>0, <3>2, QuietInv
  <2>4. CASE ChangedWaits(u)
    <3>1. Quiet BY <1>0, <2>4 DEF ChangedWaits, Quiet
    <3> QED BY <1>0, <3>1, QuietInv
  <2>5. CASE ChangedStarts(u)
    <3>1. Quiet BY <1>0, <2>5 DEF ChangedStarts, Quiet
    <3> QED BY <1>0, <3>1, QuietInv
  <2>6. CASE ChangedStarted(u)
    <3>1. due' = due \/ Handled(u, "changed")
      BY <2>6 DEF ChangedStarted, StartedOn
    <3>2. UNCHANGED <<relation, counter, promoting>>
      BY <2>6 DEF ChangedStarted, StartedOn
    <3>3. CASE due' = due
      <4>1. Quiet BY <3>2, <3>3 DEF Quiet
      <4> QED BY <1>0, <4>1, QuietInv
    <3>4. CASE Handled(u, "changed")
      <4>1. Quiet BY <1>0, <3>2, <3>4 DEF Handled, TypeOK, Quiet
      <4> QED BY <1>0, <4>1, QuietInv
    <3> QED BY <3>1, <3>3, <3>4
  <2>7. CASE OnBroken(u)
    <3>1. ~related
      BY <1>0, <2>7 DEF OnBroken, CountersInv
    <3>2. \A d \in Clusters : "broken" \in due'[Leader(d)] \/ Own(d)' = 0
      <4>1. TAKE d \in Clusters
      <4>2. CASE u = Leader(d)
        <5>1. IsLeader(u) /\ ClusterOf(u) = d
          BY <4>2, UnitFacts DEF IsLeader
        <5>2. counter'[d] = CounterLeft(d)
          BY <1>0, <2>7, <5>1 DEF OnBroken, TypeOK
        <5> QED BY <5>2 DEF CounterLeft, Own, Unset
      <4>3. CASE u # Leader(d)
        <5>1. due'[Leader(d)] = due[Leader(d)]
          BY <1>0, <2>7, <4>3, UnitFacts DEF OnBroken, Handled, TypeOK
        <5>2. counter'[d] = counter[d]
          <6>1. CASE IsLeader(u)
            <7>1. d # ClusterOf(u)
              BY <4>3, <6>1, UnitFacts
            <7> QED BY <1>0, <2>7, <6>1, <7>1 DEF OnBroken, TypeOK
          <6>2. CASE ~IsLeader(u)
            BY <2>7, <6>2 DEF OnBroken
          <6> QED BY <6>1, <6>2
        <5> QED BY <1>0, <3>1, <5>1, <5>2 DEF CountersInv, Own
      <4> QED BY <4>2, <4>3
    <3>3. UNCHANGED <<related, offered, shared, promoting>>
      BY <2>7 DEF OnBroken
    <3>4. \A v \in Units : due'[v] \subseteq due[v]
      BY <1>0, <2>7 DEF OnBroken, Handled, TypeOK
    <3>5. CountersInv'
      BY <1>0, <3>1, <3>2, <3>3 DEF CountersInv
    <3>6. SharedInv'
      BY <1>0, <3>3, <3>4, UnitFacts DEF SharedInv, Clusters
    <3> QED BY <3>5, <3>6
  <2>8. CASE OnSecretChanged(u)
    <3>1. u = Leader(c) /\ "secret" \in due[u]
      BY <2>8, UnitFacts DEF OnSecretChanged
    <3>2. UNCHANGED <<related, offered, counter, promoting>>
      BY <2>8 DEF OnSecretChanged
    <3>3. shared' = shared \/ (related /\ shared' \in Nat)
      BY <1>0, <2>8 DEF OnSecretChanged, TypeOK, Clusters
    <3>4. \A v \in Units : due'[v] \subseteq due[v] \cup {"secret"}
      BY <1>0, <2>8 DEF OnSecretChanged, Handled, TypeOK
    <3>5. \A v \in Units : "broken" \in due[v] => "broken" \in due'[v]
      BY <1>0, <2>8 DEF OnSecretChanged, Handled, TypeOK
    <3>6. "secret" \in due'[Leader("consumer")] => "secret" \in due[Leader("consumer")]
                                                    \/ (related /\ shared' \in Nat)
      BY <1>0, <2>8, UnitFacts DEF OnSecretChanged, Handled, TypeOK, Clusters
    <3>7. CountersInv'
      BY <1>0, <3>2, <3>4, <3>5, UnitFacts DEF CountersInv, Own
    <3> QED BY <1>0, <3>2, <3>3, <3>6, <3>7 DEF SharedInv
  <2>9. CASE UpdateStatus(u)
    <3>1. Quiet BY <1>0, <2>9 DEF UpdateStatus, Quiet
    <3> QED BY <1>0, <3>1, QuietInv
  <2>10. CASE SecretMissing(u)
    <3>1. Quiet BY <1>0, <2>10 DEF SecretMissing, Quiet
    <3> QED BY <1>0, <3>1, QuietInv
  <2>11. CASE DatabaseStarts(u)
    <3>1. Quiet BY <1>0, <2>11 DEF DatabaseStarts, Quiet
    <3> QED BY <1>0, <3>1, QuietInv
  <2> QED
    BY <1>1, <2>1, <2>2, <2>3, <2>4, <2>5, <2>6, <2>7, <2>8, <2>9, <2>10, <2>11 DEF Hooks
<1>2. ASSUME NEW c \in Clusters,
             \/ PromoteBegins(c) \/ PromoteEnds(c) \/ PromoteDies(c)
             \/ PromoteDetached(c) \/ PromoteDetachedDies(c) \/ PatroniPromotes(c)
             \/ SetPassword(c) \/ UpdateConfig(c) \/ PeerChanged(c) \/ Replicate(c)
      PROVE CountersInv' /\ SharedInv'
  <2>0. Other(c) \in Clusters /\ Other(c) # c /\ Other(Other(c)) = c
        /\ Clusters = {c, Other(c)} /\ Highest(c) \in Nat /\ Own(c) \in Nat
        /\ promoting[c] \in Nat /\ offered[c] \in Nat /\ offered[Other(c)] \in Nat
    BY <1>0, HighestType DEF Clusters, Other, TypeOK
  <2>1. CASE PromoteBegins(c)
    <3>1. related /\ promoting[c] = 0 /\ promoting[Other(c)] = 0
      BY <2>1 DEF PromoteBegins
    <3>2. Highest(c) + 1 > offered[c] /\ Highest(c) + 1 > offered[Other(c)]
      BY <1>0, <2>0, <3>1 DEF Highest, CountersInv
    <3>3. promoting' = [promoting EXCEPT ![c] = Highest(c) + 1]
      BY <2>1 DEF PromoteBegins, NextCounter
    <3>4. promoting'[c] = Highest(c) + 1 /\ promoting'[Other(c)] = 0
      BY <1>0, <2>0, <3>1, <3>3 DEF TypeOK
    <3>5. UNCHANGED <<relation, peers, due>>
      BY <2>1 DEF PromoteBegins
    <3>6. \A d \in Clusters : Own(d)' = Own(d)
      BY <3>5 DEF Own
    <3>7. CountersInv'
      BY <1>0, <2>0, <3>1, <3>2, <3>4, <3>5, <3>6 DEF CountersInv
    <3>8. SharedInv'
      BY <1>0, <3>5 DEF SharedInv
    <3> QED BY <3>7, <3>8
  <2>2. CASE PromoteEnds(c)
    <3> DEFINE n == promoting[c]
    <3>1. related /\ n # 0 /\ promoting[Other(c)] = 0
      BY <1>0, <2>0, <2>2 DEF PromoteEnds, CountersInv
    <3>2. n > offered[Other(c)]
      BY <1>0, <3>1 DEF CountersInv
    <3>3. /\ counter' = [counter EXCEPT ![c] = n] /\ offered' = [offered EXCEPT ![c] = n]
          /\ promoting' = [promoting EXCEPT ![c] = 0] /\ related' = related
      BY <2>2 DEF PromoteEnds
    <3>4. offered'[c] = n /\ Own(c)' = n /\ promoting'[c] = 0
      BY <1>0, <2>0, <3>1, <3>3 DEF TypeOK, Own, Unset
    <3>5. /\ offered'[Other(c)] = offered[Other(c)] /\ Own(Other(c))' = Own(Other(c))
          /\ promoting'[Other(c)] = 0
      BY <1>0, <2>0, <3>1, <3>3 DEF TypeOK, Own
    <3>6. \A u \in Units : due'[u] \subseteq due[u] \cup {"changed"}
      BY <2>2 DEF PromoteEnds, Notify
    <3>7. CountersInv'
      BY <1>0, <2>0, <3>1, <3>2, <3>3, <3>4, <3>5, <3>6 DEF CountersInv
    <3>8. c = "offer" => shared' \in Nat
      BY <1>0, <2>2 DEF PromoteEnds, Shares, TypeOK
    <3>9. c # "offer" => shared' = shared /\ Other(c) = "offer"
      BY <2>2 DEF PromoteEnds, Shares, Other
    <3>10. SharedInv'
      BY <1>0, <3>1, <3>3, <3>5, <3>6, <3>8, <3>9, UnitFacts DEF SharedInv, Clusters
    <3> QED BY <3>7, <3>10
  <2>3. CASE PromoteDetached(c)
    <3>1. UNCHANGED <<related, offered, shared, promoting, due>>
      BY <2>3 DEF PromoteDetached
    <3>2. \A d \in Clusters : Own(d)' = Own(d)
      BY <1>0, <2>3 DEF PromoteDetached, Own, TypeOK, Unset
    <3>3. CountersInv' /\ SharedInv'
      BY <1>0, <3>1, <3>2 DEF CountersInv, SharedInv
    <3> QED BY <3>3
  <2>4. CASE SetPassword(c)
    <3>1. UNCHANGED <<related, offered, shared, counter, promoting>>
      BY <2>4 DEF SetPassword
    <3>2. \A u \in Units : due[u] \subseteq due'[u] /\ due'[u] \subseteq due[u] \cup {"secret"}
      BY <2>4 DEF SetPassword, Notify
    <3>3. due'[Leader("consumer")] = due[Leader("consumer")]
      BY <1>0, <2>4, UnitFacts DEF SetPassword, Notify, Clusters, TypeOK, Leader
    <3>4. CountersInv'
      BY <1>0, <3>1, <3>2, UnitFacts DEF CountersInv, Own
    <3>5. SharedInv'
      BY <1>0, <3>1, <3>3 DEF SharedInv
    <3> QED BY <3>4, <3>5
  <2>5. CASE PeerChanged(c)
    <3>1. Quiet BY <1>0, <2>5 DEF PeerChanged, Quiet
    <3> QED BY <1>0, <3>1, QuietInv
  <2>6. CASE Replicate(c)
    <3>1. Quiet BY <1>0, <2>6 DEF Replicate, Quiet
    <3> QED BY <1>0, <3>1, QuietInv
  <2>7. CASE PromoteDetachedDies(c) \/ PatroniPromotes(c) \/ UpdateConfig(c)
    <3>1. Quiet BY <1>0, <2>7 DEF PromoteDetachedDies, PatroniPromotes, UpdateConfig, Quiet
    <3> QED BY <1>0, <3>1, QuietInv
  <2>8. CASE PromoteDies(c)
    <3>1. UNCHANGED <<relation, peers, due>> /\ related
          /\ promoting' = [promoting EXCEPT ![c] = 0]
      BY <2>8 DEF PromoteDies
    <3>2. \A d \in Clusters : promoting'[d] \in {0, promoting[d]} /\ Own(d)' = Own(d)
      BY <1>0, <3>1 DEF TypeOK, Own
    <3>3. CountersInv'
      BY <1>0, <2>0, <3>1, <3>2 DEF CountersInv
    <3>4. SharedInv'
      BY <1>0, <3>1 DEF SharedInv
    <3> QED BY <3>3, <3>4
  <2> QED BY <1>2, <2>1, <2>2, <2>3, <2>4, <2>5, <2>6, <2>7, <2>8
<1>3. CASE RemoveRelation
  <2>1. CountersInv'
    BY <1>3, UnitFacts DEF RemoveRelation, CountersInv
  <2>2. SharedInv'
    BY <1>3, UnitFacts DEF RemoveRelation, SharedInv, Clusters
  <2> QED BY <2>1, <2>2
<1>4. CASE Relate
  <2>1. \A c \in Clusters : Own(c)' = Own(c) /\ Own(c) = 0
    BY <1>0, <1>4, UnitFacts DEF Relate, CountersInv, Own
  <2>2. \A u \in Units : "broken" \notin due'[u]
    BY <1>4 DEF Relate
  <2>3. UNCHANGED <<offered, shared, promoting>> /\ ~related /\ related'
    BY <1>4 DEF Relate
  <2>4. CountersInv'
    BY <1>0, <2>1, <2>2, <2>3 DEF CountersInv
  <2>5. SharedInv'
    BY <1>0, <1>4, <2>3, UnitFacts DEF Relate, SharedInv, Clusters
  <2> QED BY <2>4, <2>5
<1>5. CASE UNCHANGED vars
  <2>1. Quiet BY <1>5 DEF vars, Quiet
  <2> QED BY <1>0, <2>1, QuietInv
<1> QED BY <1>1, <1>2, <1>3, <1>4, <1>5 DEF Next

LEMMA Invariance == ASSUME AsyncAssumption, ~MayRace PROVE Spec => []IInv
<1>1. Init => IInv BY InitType, InitInv DEF IInv
<1>2. IInv /\ [Next]_vars => IInv' BY StepType, StepInv DEF IInv
<1> QED BY <1>1, <1>2, PTL DEF Spec

-----------------------------------------------------------------------------
(* The data. *)

\* What the two sides read of the counters while they are related.
LEMMA Reading ==
    ASSUME AsyncAssumption, IInv, NEW c \in Clusters
    PROVE  /\ related => Highest(Other(c)) = Highest(c)
           /\ PrimaryCluster(c) = Other(c) => related
           /\ related => (PrimaryCluster(c) = Other(c) <=> offered[Other(c)] > offered[c])
           /\ related => (PrimaryCluster(c) = c <=> offered[c] > offered[Other(c)])
           /\ related => (PrimaryCluster(c) = c <=> PrimaryCluster(Other(c)) = c)
           /\ offered[c] <= Highest(c) \/ ~related
<1>1. /\ Other(c) \in Clusters /\ Other(c) # c /\ Other(Other(c)) = c
      /\ None # c /\ None # Other(c)
  BY DEF Clusters, Other, None
<1>2. offered[c] \in Nat /\ offered[Other(c)] \in Nat
  BY <1>1 DEF IInv, TypeOK
<1>3. CASE related
  <2>1. /\ Own(c) = offered[c] /\ Own(Other(c)) = offered[Other(c)]
        /\ offered[c] = offered[Other(c)] => offered[c] = 0
    BY <1>1, <1>3 DEF IInv, CountersInv
  <2>2. /\ Highest(c) = IF offered[Other(c)] > offered[c] THEN offered[Other(c)] ELSE offered[c]
        /\ Highest(Other(c)) = IF offered[c] > offered[Other(c)] THEN offered[c]
                                                                 ELSE offered[Other(c)]
    BY <1>1, <1>3, <2>1 DEF Highest
  <2>3. /\ PrimaryCluster(c) = IF Highest(c) = 0 THEN None
                               ELSE IF offered[Other(c)] = Highest(c) THEN Other(c) ELSE c
        /\ PrimaryCluster(Other(c)) = IF Highest(Other(c)) = 0 THEN None
                               ELSE IF offered[c] = Highest(Other(c)) THEN c ELSE Other(c)
    BY <1>1 DEF PrimaryCluster
  <2> QED BY <1>1, <1>2, <1>3, <2>1, <2>2, <2>3
<1>4. CASE ~related
  BY <1>1, <1>4 DEF Highest, PrimaryCluster
<1> QED BY <1>3, <1>4

\* The part of it that is needed in the state after a step.
ReadingFacts ==
    \A c \in Clusters :
        /\ Highest(c) \in Nat
        /\ PrimaryCluster(c) = Other(c) => related
        /\ related =>
              /\ Highest(Other(c)) = Highest(c) /\ offered[c] <= Highest(c)
              /\ PrimaryCluster(c) = Other(c) <=> offered[Other(c)] > offered[c]
              /\ PrimaryCluster(c) = c <=> PrimaryCluster(Other(c)) = c

LEMMA ReadingHolds == ASSUME AsyncAssumption PROVE IInv => ReadingFacts
  BY Reading, HighestType DEF ReadingFacts, IInv

LEMMA ReadingNext == ASSUME AsyncAssumption PROVE IInv' => ReadingFacts'
  BY ReadingHolds, PTL

\* A step that leaves the counters alone leaves what the sides read of them alone.
LEMMA ReadingKept ==
    ASSUME related' = related, offered' = offered, related => counter' = counter
    PROVE  /\ \A c \in Clusters : Highest(c)' = Highest(c)
           /\ \A c \in Clusters : PrimaryCluster(c)' = PrimaryCluster(c)
           /\ \A u \in Units : followed'[u] = followed[u] => IsFollowing(u)' = IsFollowing(u)
<1>1. \A c \in Clusters : Highest(c)' = Highest(c)
  BY DEF Highest, Own
<1>2. \A c \in Clusters : PrimaryCluster(c)' = PrimaryCluster(c)
  BY <1>1 DEF PrimaryCluster
<1>3. \A u \in Units : ClusterOf(u) \in Clusters
  BY DEF Units, ClusterOf
<1> QED BY <1>1, <1>2, <1>3 DEF IsFollowing

LEMMA FollowedKept ==
    ASSUME AsyncAssumption, FollowedInv,
           UNCHANGED <<related, offered>>, related => counter' = counter,
           \A c \in Clusters : promoting[c] = 0 => promoting'[c] = 0,
           \A u \in Units : "created" \in due'[u] => "created" \in due[u],
           related => \A u \in Units : followed'[u] <= Highest(ClusterOf(u)),
           ~related => \A u \in Units :
              \/ followed'[u] = 0 /\ ~stopped'[u]
              \/ /\ followed'[u] = followed[u] /\ stopped'[u] = stopped[u]
                 /\ "broken" \in due[u] => "broken" \in due'[u]
    PROVE  FollowedInv'
<1> SUFFICES ASSUME NEW u \in Units
             PROVE  /\ ~related' => "broken" \in due'[u] \/ (followed'[u] = 0 /\ ~stopped'[u])
                    /\ related' => followed'[u] <= Highest(ClusterOf(u))'
                    /\ related' /\ "created" \in due'[u] =>
                          offered'[Other(ClusterOf(u))] = 0 /\ promoting'[Other(ClusterOf(u))] = 0
  BY DEF FollowedInv
<1>1. ~related' => "broken" \in due'[u] \/ (followed'[u] = 0 /\ ~stopped'[u])
  BY DEF FollowedInv
<1>2. ClusterOf(u) \in Clusters
  BY UnitFacts
<1>3. related' => followed'[u] <= Highest(ClusterOf(u))'
  BY <1>2, ReadingKept
<1>4. Other(ClusterOf(u)) \in Clusters
  BY <1>2, UnitFacts
<1> QED BY <1>1, <1>3, <1>4 DEF FollowedInv

LEMMA StepFollowed ==
    ASSUME AsyncAssumption, ~MayRace, IInv, IInv', FollowedInv, [Next]_vars
    PROVE  FollowedInv'
<1> USE DEF relation, peers, bags, patroni, history, bounds
<1>0. TypeOK /\ CountersInv /\ TypeOK' /\ CountersInv' BY DEF IInv
<1>1. \A u \in Units : ClusterOf(u) \in Clusters /\ Highest(ClusterOf(u)) \in Nat
                       /\ followed[u] \in Nat
  BY <1>0, UnitFacts, HighestType DEF TypeOK
<1>2. ASSUME NEW u \in Units, Hooks(u) \/ SecretMissing(u) \/ DatabaseStarts(u)
      PROVE FollowedInv'
  <2> DEFINE c == ClusterOf(u)
  <2>1. CASE OnCreated(u)
    <3>1. /\ UNCHANGED <<related, offered, promoting, counter, stopped>>
          /\ \A v \in Units : \A e \in Events : e \in due'[v] => e \in due[v]
          /\ \A v \in Units : "broken" \in due[v] => "broken" \in due'[v]
      BY <1>0, <2>1 DEF OnCreated, Handled, TypeOK
    <3>2. \A v \in Units : followed'[v] \in {followed[v], Highest(ClusterOf(v))}
      BY <1>0, <2>1 DEF OnCreated, TypeOK
    <3>3. ~related => followed' = followed
      BY <1>0, <2>1 DEF OnCreated, TypeOK, Highest
    <3>4. related => \A v \in Units : followed'[v] <= Highest(ClusterOf(v))
      BY <1>1, <3>2 DEF FollowedInv
    <3> QED BY <3>1, <3>3, <3>4, FollowedKept DEF Events
  <2>2. CASE ChangedIgnored(u)
    BY <1>0, <2>2, FollowedKept DEF ChangedIgnored, Handled, TypeOK, FollowedInv
  <2>3. CASE ChangedPrimary(u)
    <3>1. related
      BY <1>1, <2>3 DEF ChangedPrimary, PrimaryCluster, Highest, None, Clusters
    <3>2. /\ UNCHANGED <<related, offered, promoting, counter, stopped>>
          /\ \A v \in Units : "created" \in due'[v] => "created" \in due[v]
      BY <1>0, <2>3 DEF ChangedPrimary, Handled, TypeOK
    <3>3. \A v \in Units : followed'[v] \in {followed[v], Highest(ClusterOf(v))}
      BY <1>0, <2>3 DEF ChangedPrimary, TypeOK
    <3>4. \A v \in Units : followed'[v] <= Highest(ClusterOf(v))
      BY <1>1, <3>1, <3>3 DEF FollowedInv
    <3> QED BY <3>1, <3>2, <3>4, FollowedKept
  <2>4. CASE ChangedWaits(u) \/ ChangedStarts(u)
    <3>1. related
      <4>1. PrimaryCluster(c) = Other(c)
        BY <2>4 DEF ChangedWaits, ChangedStarts, Standby
      <4> QED BY <1>1, <4>1, Reading
    <3>2. UNCHANGED <<related, offered, promoting, counter, followed, due>>
      BY <2>4 DEF ChangedWaits, ChangedStarts
    <3>3. \A v \in Units : followed'[v] <= Highest(ClusterOf(v))
      BY <3>1, <3>2 DEF FollowedInv
    <3> QED BY <3>1, <3>2, <3>3, FollowedKept
  <2>5. CASE ChangedStarted(u)
    <3>1. related
      <4>1. PrimaryCluster(c) = Other(c)
        BY <2>5 DEF ChangedStarted, StartedOn, Standby
      <4> QED BY <1>1, <4>1, Reading
    <3>2. /\ UNCHANGED <<related, offered, promoting, counter>>
          /\ \A v \in Units : "created" \in due'[v] => "created" \in due[v]
      BY <1>0, <2>5 DEF ChangedStarted, StartedOn, Handled, TypeOK
    <3>3. \A v \in Units : followed'[v] \in {followed[v], Highest(ClusterOf(v))}
      BY <1>0, <2>5 DEF ChangedStarted, StartedOn, TypeOK
    <3>4. \A v \in Units : followed'[v] <= Highest(ClusterOf(v))
      BY <1>1, <3>1, <3>3 DEF FollowedInv
    <3> QED BY <3>1, <3>2, <3>4, FollowedKept
  <2>6. CASE OnBroken(u)
    <3>1. ~related
      BY <1>0, <2>6 DEF OnBroken, CountersInv
    <3>2. /\ UNCHANGED <<related, offered, promoting>>
          /\ \A v \in Units : "created" \in due'[v] => "created" \in due[v]
      BY <1>0, <2>6 DEF OnBroken, Handled, TypeOK
    <3>3. \A v \in Units :
              \/ followed'[v] = 0 /\ ~stopped'[v]
              \/ /\ followed'[v] = followed[v] /\ stopped'[v] = stopped[v]
                 /\ due'[v] = due[v]
      BY <1>0, <2>6 DEF OnBroken, Handled, TypeOK
    <3> QED BY <3>1, <3>2, <3>3, FollowedKept
  <2>7. CASE OnSecretChanged(u)
    <3>1. UNCHANGED <<related, offered, promoting, counter, followed, stopped>>
      BY <2>7 DEF OnSecretChanged
    <3>2. \A v \in Units : \A e \in {"created", "broken"} : e \in due'[v] <=> e \in due[v]
      BY <1>0, <2>7 DEF OnSecretChanged, Handled, TypeOK
    <3>3. related => \A v \in Units : followed'[v] <= Highest(ClusterOf(v))
      BY <3>1 DEF FollowedInv
    <3> QED BY <3>1, <3>2, <3>3, FollowedKept
  <2>8. CASE UpdateStatus(u) \/ SecretMissing(u) \/ DatabaseStarts(u)
    BY <2>8, FollowedKept DEF UpdateStatus, SecretMissing, DatabaseStarts, FollowedInv
  <2> QED BY <1>2, <2>1, <2>2, <2>3, <2>4, <2>5, <2>6, <2>7, <2>8 DEF Hooks
<1>3. ASSUME NEW c \in Clusters,
             \/ PromoteBegins(c) \/ PromoteEnds(c) \/ PromoteDies(c)
             \/ PromoteDetached(c) \/ PromoteDetachedDies(c) \/ PatroniPromotes(c)
             \/ SetPassword(c) \/ UpdateConfig(c) \/ PeerChanged(c) \/ Replicate(c)
      PROVE FollowedInv'
  <2>0. Other(c) \in Clusters /\ Other(c) # c /\ Other(Other(c)) = c
        /\ Clusters = {c, Other(c)}
    BY DEF Clusters, Other
  <2>1. CASE PromoteBegins(c)
    <3>1. /\ UNCHANGED <<related, offered, counter, due, followed, stopped>> /\ related
          /\ promoting' = [promoting EXCEPT ![c] = NextCounter(c)]
          /\ \A u \in Members(Other(c)) : "created" \notin due[u]
      BY <2>1 DEF PromoteBegins, MayPromote
    <3>2. \A d \in Clusters : Highest(d)' = Highest(d)
      BY <3>1, ReadingKept
    <3>3. \A u \in Units : ClusterOf(u) # c => u \in Members(Other(c))
      BY <2>0 DEF Units, ClusterOf, Members
    <3>4. \A u \in Units : "created" \in due[u] => promoting'[Other(ClusterOf(u))] = promoting[Other(ClusterOf(u))]
      BY <1>0, <2>0, <3>1, <3>3 DEF TypeOK
    <3> QED BY <1>1, <3>1, <3>2, <3>4 DEF FollowedInv
  <2>2. CASE PromoteEnds(c)
    <3> DEFINE n == promoting[c]
    <3>1. /\ related /\ related' /\ n # 0 /\ stopped' = stopped
          /\ offered' = [offered EXCEPT ![c] = n] /\ promoting' = [promoting EXCEPT ![c] = 0]
          /\ followed' = followed \/ followed' = [followed EXCEPT ![Leader(c)] = n]
      BY <2>2 DEF PromoteEnds
    <3>2. /\ n > offered[c] /\ n > offered[Other(c)] /\ n \in Nat
          /\ offered[c] \in Nat /\ offered[Other(c)] \in Nat
          /\ offered'[c] = n /\ offered'[Other(c)] = offered[Other(c)]
      BY <1>0, <2>0, <3>1 DEF CountersInv, TypeOK
    <3>3. n <= Highest(c)' /\ \A d \in Clusters : Highest(d)' = Highest(c)'
      BY <2>0, <3>1, <3>2, ReadingNext DEF ReadingFacts
    <3>4. \A d \in Clusters : Highest(d) < n
      BY <2>0, <3>1, <3>2 DEF Highest, IInv, CountersInv
    <3>5. \A u \in Units : followed'[u] \in {followed[u], n}
      BY <1>0, <3>1 DEF TypeOK
    <3>6. \A d \in Clusters : Highest(d) \in Nat /\ Highest(d)' \in Nat
      BY <1>0, HighestType, ReadingNext DEF ReadingFacts
    <3>7. \A u \in Units : followed'[u] <= Highest(ClusterOf(u))'
      BY <1>1, <3>1, <3>2, <3>3, <3>4, <3>5, <3>6 DEF FollowedInv
    <3>8. \A u \in Units : "created" \in due'[u] =>
             "created" \in due[u] /\ promoting[Other(ClusterOf(u))] = 0
      BY <2>2, <3>1 DEF PromoteEnds, Notify, FollowedInv
    <3>9. \A u \in Units : "created" \in due'[u] => Other(ClusterOf(u)) = Other(c)
      BY <1>1, <2>0, <3>1, <3>8
    <3>10. promoting'[Other(c)] = promoting[Other(c)]
      BY <1>0, <2>0, <3>1 DEF TypeOK
    <3> QED BY <3>1, <3>2, <3>7, <3>8, <3>9, <3>10 DEF FollowedInv
  <2>3. CASE PromoteDetached(c)
    BY <2>3, FollowedKept DEF PromoteDetached, FollowedInv
  <2>4. CASE SetPassword(c)
    <3>1. UNCHANGED <<related, offered, promoting, counter, followed, stopped>>
      BY <2>4 DEF SetPassword
    <3>2. \A v \in Units : \A e \in {"created", "broken"} : e \in due'[v] <=> e \in due[v]
      BY <2>4 DEF SetPassword, Notify
    <3>3. related => \A v \in Units : followed'[v] <= Highest(ClusterOf(v))
      BY <3>1 DEF FollowedInv
    <3> QED BY <3>1, <3>2, <3>3, FollowedKept
  <2>5. CASE PeerChanged(c) \/ Replicate(c)
    BY <2>5, FollowedKept DEF PeerChanged, Replicate, FollowedInv
  <2>6. CASE PromoteDetachedDies(c) \/ PatroniPromotes(c) \/ UpdateConfig(c)
    BY <2>6, FollowedKept DEF PromoteDetachedDies, PatroniPromotes, UpdateConfig, FollowedInv
  <2>7. CASE PromoteDies(c)
    <3>1. \A d \in Clusters : promoting[d] = 0 => promoting'[d] = 0
      BY <1>0, <2>7 DEF PromoteDies, TypeOK
    <3> QED BY <2>7, <3>1, FollowedKept DEF PromoteDies, FollowedInv
  <2> QED BY <1>3, <2>1, <2>2, <2>3, <2>4, <2>5, <2>6, <2>7
<1>4. CASE RemoveRelation
  BY <1>4 DEF RemoveRelation, FollowedInv
<1>5. CASE Relate
  <2>1. /\ \A u \in Units : followed'[u] = 0 /\ "broken" \notin due[u]
        /\ related' /\ ~related /\ UNCHANGED <<offered, promoting>>
    BY <1>5 DEF Relate, FollowedInv
  <2>2. \A u \in Units : 0 <= Highest(ClusterOf(u))'
    <3>1. \A d \in Clusters : Highest(d)' \in Nat
      BY ReadingNext DEF ReadingFacts
    <3> QED BY <1>1, <3>1
  <2> QED BY <1>0, <1>1, <2>1, <2>2, UnitFacts DEF FollowedInv, CountersInv
<1>6. CASE UNCHANGED vars
  BY <1>6, FollowedKept DEF vars, FollowedInv
<1> QED BY <1>2, <1>3, <1>4, <1>5, <1>6 DEF Next

LEMMA MoreUnitFacts ==
    ASSUME AsyncAssumption
    PROVE  /\ \A c \in Clusters : \A u \in Members(c) : u \in Units /\ ClusterOf(u) = c
           /\ \A u \in Units : u \in Members(ClusterOf(u))
           /\ \A c \in Clusters : Leader(c) \in Members(c) /\ IsLeader(Leader(c))
           /\ \A c \in Clusters : Other(Other(c)) = c /\ Leader(Other(c)) # Leader(c)
           /\ \A c, d \in Clusters : d # c => d = Other(c)
  BY DEF AsyncAssumption, Units, Members, ClusterOf, Leader, Clusters, Other, IsLeader

\* Steps that leave the data alone.  A service that starts without data is no leader's and
\* is not marked as stopped; and who follows anew has the data already.
LEMMA CopyKept ==
    ASSUME AsyncAssumption, DataInv, CopiedInv, OneDatabase,
           UNCHANGED <<related, offered, data>>, related => counter' = counter,
           \A c \in Clusters : promoting[c] = 0 => promoting'[c] = 0,
           \A c \in Clusters :
              \/ dcs'[c] = dcs[c]
              \/ /\ data[Leader(c)] # "empty"
                 /\ dcs'[c] = "normal" \/ PrimaryCluster(Other(c)) # c,
           \A u \in Units :
              \/ up'[u] = up[u]
              \/ /\ up'[u] # "running" /\ ~stopped[u]
                 /\ \/ up'[u] = "down"
                    \/ \A c \in Clusters : u = Leader(c) => data[u] # "empty",
           \A c \in Clusters : data[Leader(c)] = "empty" => waiting'[Leader(c)],
           \A u \in Units :
              \/ followed'[u] = followed[u]
              \/ PrimaryCluster(ClusterOf(u)) # Other(ClusterOf(u))
              \/ data[u] = data[Leader(Other(ClusterOf(u)))],
           \A u \in Units : stopped'[u] => stopped[u]
    PROVE  DataInv' /\ CopiedInv' /\ OneDatabase'
<1>1. /\ \A c \in Clusters : Highest(c)' = Highest(c) /\ PrimaryCluster(c)' = PrimaryCluster(c)
      /\ \A c \in Clusters : Leader(c) \in Units /\ Other(c) \in Clusters
                              /\ Other(Other(c)) = c
  BY ReadingKept, UnitFacts, MoreUnitFacts
<1>2. DataInv'
  <2>1. \A u \in Units : up'[u] = "running" => data'[u] # "empty"
    BY DEF DataInv
  <2>2. ASSUME NEW c \in Clusters, data'[Leader(c)] = "empty"
        PROVE  /\ waiting'[Leader(c)] /\ data'[Leader(Other(c))] # "empty"
               /\ dcs'[c] = "standby" \/ (dcs'[c] = "none" /\ up'[Leader(c)] = "down")
    BY <1>1, <2>2 DEF DataInv
  <2>3. \A c \in Clusters :
           /\ promoting'[c] # 0 => data'[Leader(c)] # "empty"
           /\ related' /\ PrimaryCluster(c)' = Other(c) =>
                 dcs'[Other(c)] = "normal" /\ data'[Leader(Other(c))] # "empty"
    BY <1>1 DEF DataInv
  <2> QED BY <2>1, <2>2, <2>3 DEF DataInv
<1>3. CopiedInv'
  <2>1. \A d : Agreeing(d) => Agreeing(d)'
    BY DEF Agreeing
  <2> QED BY <2>1 DEF CopiedInv
<1>4. OneDatabase'
  BY <1>1, MoreUnitFacts DEF OneDatabase
<1> QED BY <1>2, <1>3, <1>4

\* Where a unit may start, the leaders agree already, or it is the leader that is to copy.
LEMMA AgreedToStart ==
    ASSUME AsyncAssumption, IInv, CopyInv, NEW u \in Units, Standby(u), ~MustWait(u),
           IsLeader(u) => data[u] = "empty"
    PROVE  Agreeing("empty")
<1> DEFINE c == ClusterOf(u)
<1>1. /\ c \in Clusters /\ Other(c) \in Clusters /\ Other(Other(c)) = c /\ Leader(c) \in Units
      /\ Leader(c) \in Members(c) /\ \A d \in Clusters : d = c \/ d = Other(c)
  BY UnitFacts, MoreUnitFacts
<1>2. related /\ PrimaryCluster(c) = Other(c)
  BY <1>1, Reading DEF Standby
<1>3. CASE IsLeader(u)
  <2>1. data[Leader(c)] = "empty"
    BY <1>3, UnitFacts
  <2> QED BY <1>1, <2>1 DEF Agreeing
<1>4. CASE ~IsLeader(u)
  <2>1. up[Leader(c)] = "running" /\ AllStopped(u)
    BY <1>4 DEF MustWait, StandbyLeader
  <2>2. data[Leader(c)] # "empty"
    BY <1>1, <2>1 DEF CopyInv, DataInv
  <2>3. Leader(c) # u
    BY <1>1, <1>4 DEF IsLeader
  <2>4. stopped[Leader(c)] \/ followed[Leader(c)] = Highest(c)
    BY <1>1, <2>1, <2>3 DEF AllStopped
  <2>5. data[Leader(c)] = data[Leader(Other(c))]
    <3>1. data[Leader(Other(c))] # "empty"
      BY <1>1, <1>2 DEF CopyInv, DataInv
    <3>2. CASE stopped[Leader(c)]
      <4>1. Agreeing(data[Leader(c)])
        BY <1>1, <1>2, <2>2, <3>2 DEF CopyInv, CopiedInv
      <4> QED BY <1>1, <2>2, <3>1, <4>1 DEF Agreeing
    <3>3. CASE followed[Leader(c)] = Highest(c)
      BY <1>1, <1>2, <3>3 DEF CopyInv, OneDatabase
    <3> QED BY <2>4, <3>2, <3>3
  <2> QED BY <1>1, <2>5 DEF Agreeing
<1> QED BY <1>3, <1>4

\* A standby unit stops, or has stopped; it may start when the leaders agree.
LEMMA StopsCopy ==
    ASSUME AsyncAssumption, IInv, CopyInv, NEW u \in Units, Standby(u), Stops(u),
           UNCHANGED <<related, offered, counter, promoting, followed>>,
           waiting' = [waiting EXCEPT ![u] = TRUE],
           \A v \in Units \ {u} : up'[v] = up[v],
           up'[u] = "running" => up[u] = "running" /\ ~MustStop(u),
           MustWait(u) => up'[u] = "down" \/ (up'[u] = up[u] /\ ~MustStop(u)),
           \A c \in Clusters : c # ClusterOf(u) \/ ~IsLeader(u) => dcs'[c] = dcs[c],
           IsLeader(u) =>
              LET c == ClusterOf(u) IN
              \/ dcs'[c] = "standby"
              \/ dcs'[c] = "none" /\ up'[u] = "down"
              \/ dcs'[c] = dcs[c] /\ up'[u] = up[u] /\ ~MustStop(u)
              \/ data[u] # "empty" /\ ~MustStop(u)
    PROVE  DataInv' /\ CopiedInv' /\ OneDatabase'
<1> DEFINE c == ClusterOf(u)
<1>0. TypeOK BY DEF IInv
<1>1. /\ c \in Clusters /\ Other(c) \in Clusters /\ Other(c) # c /\ Other(Other(c)) = c
      /\ \A d \in Clusters : Leader(d) \in Units /\ Other(d) \in Clusters
      /\ \A d \in Clusters : d = c \/ d = Other(c)
      /\ u # Leader(Other(c)) /\ (IsLeader(u) => u = Leader(c)) /\ (u = Leader(c) => IsLeader(u))
  BY UnitFacts, MoreUnitFacts
<1>2. related /\ PrimaryCluster(c) = Other(c) /\ PrimaryCluster(Other(c)) # c
  BY <1>1, Reading DEF Standby
<1>3. /\ \A d \in Clusters : Highest(d)' = Highest(d) /\ PrimaryCluster(d)' = PrimaryCluster(d)
      /\ MustStop(u) => ~stopped[u] /\ followed[u] # Highest(c)
  <2>1. \A d \in Clusters : Highest(d)' = Highest(d) /\ PrimaryCluster(d)' = PrimaryCluster(d)
    BY ReadingKept
  <2>2. MustStop(u) => ~stopped[u] /\ followed[u] # Highest(c)
    BY <1>1, <1>2 DEF MustStop, IsFollowing, None, Clusters
  <2> QED BY <2>1, <2>2
<1>4. /\ \A v \in Units \ {u} : data'[v] = data[v] /\ stopped'[v] = stopped[v]
                                /\ waiting'[v] = waiting[v]
      /\ waiting'[u]
      /\ MustStop(u) => data'[u] = "empty"
      /\ ~MustStop(u) => data' = data /\ stopped'[u] = stopped[u]
  BY <1>0 DEF Stops, TypeOK
<1>5. data[Leader(Other(c))] # "empty" /\ dcs[Other(c)] = "normal"
  BY <1>1, <1>2 DEF CopyInv, DataInv
<1>6. data'[Leader(Other(c))] = data[Leader(Other(c))] /\ dcs'[Other(c)] = dcs[Other(c)]
  BY <1>1, <1>4
<1>7. promoting[c] = 0 \/ ~IsLeader(u)
  BY DEF Standby, ToHandle, Free
<1>8. DataInv'
  <2>1. \A v \in Units : up'[v] = "running" => data'[v] # "empty"
    BY <1>4 DEF CopyInv, DataInv
  <2>2. data'[Leader(c)] = "empty" =>
           /\ waiting'[Leader(c)]
           /\ dcs'[c] = "standby" \/ (dcs'[c] = "none" /\ up'[Leader(c)] = "down")
    <3>1. CASE ~IsLeader(u)
      BY <1>1, <1>4, <3>1 DEF CopyInv, DataInv
    <3>2. CASE IsLeader(u)
      BY <1>1, <1>4, <3>2 DEF CopyInv, DataInv
    <3> QED BY <3>1, <3>2
  <2>3. promoting'[c] # 0 => data'[Leader(c)] # "empty"
    BY <1>1, <1>4, <1>7 DEF CopyInv, DataInv
  <2>4. promoting'[Other(c)] # 0 => data'[Leader(Other(c))] # "empty"
    BY <1>5, <1>6
  <2>5. \A d \in Clusters :
           related' /\ PrimaryCluster(d)' = Other(d) =>
              dcs'[Other(d)] = "normal" /\ data'[Leader(Other(d))] # "empty"
    BY <1>1, <1>2, <1>3, <1>5, <1>6
  <2>6. ASSUME NEW d \in Clusters
        PROVE /\ data'[Leader(d)] = "empty" =>
                 /\ waiting'[Leader(d)] /\ data'[Leader(Other(d))] # "empty"
                 /\ dcs'[d] = "standby" \/ (dcs'[d] = "none" /\ up'[Leader(d)] = "down")
              /\ promoting'[d] # 0 => data'[Leader(d)] # "empty"
    BY <1>1, <1>5, <1>6, <2>2, <2>3, <2>4
  <2> QED BY <2>1, <2>5, <2>6 DEF DataInv
<1>9. \A d : Agreeing(d) => Agreeing(d)'
  <2> SUFFICES ASSUME NEW d, Agreeing(d) PROVE Agreeing(d)'
    OBVIOUS
  <2>1. CASE data'[Leader(c)] = data[Leader(c)]
    BY <1>1, <1>6, <2>1 DEF Agreeing
  <2>2. CASE data'[Leader(c)] # data[Leader(c)]
    <3>1. data'[Leader(c)] = "empty"
      BY <1>1, <1>4, <2>2
    <3> QED BY <1>1, <1>6, <3>1 DEF Agreeing
  <2> QED BY <2>1, <2>2
<1>10. CopiedInv'
  <2> SUFFICES ASSUME NEW v \in Units, stopped'[v], data'[v] # "empty" \/ up'[v] # "down"
               PROVE  Agreeing(data[v])'
    BY DEF CopiedInv
  <2>1. CASE v # u
    BY <1>2, <1>4, <1>9, <2>1 DEF CopyInv, CopiedInv
  <2>2. CASE v = u /\ ~MustStop(u) /\ (data[u] # "empty" \/ up[u] # "down")
    BY <1>2, <1>4, <1>9, <2>2 DEF CopyInv, CopiedInv
  <2>3. CASE v = u /\ ~MustStop(u) /\ data[u] = "empty" /\ up[u] = "down"
    <3>1. ~MustWait(u)
      BY <1>4, <2>3
    <3>2. Agreeing("empty")
      BY <2>3, <3>1, AgreedToStart
    <3> QED BY <1>4, <1>9, <2>3, <3>2
  <2>4. CASE v = u /\ MustStop(u)
    <3>1. data'[u] = "empty" /\ up'[u] # "down"
      BY <1>4, <2>4
    <3>2. CASE IsLeader(u)
      BY <1>1, <1>4, <2>4, <3>1, <3>2 DEF Agreeing
    <3>3. CASE ~IsLeader(u)
      <4>1. ~MustWait(u)
        BY <2>4, <3>1
      <4>2. Agreeing("empty")
        BY <3>3, <4>1, AgreedToStart
      <4> QED BY <1>9, <2>4, <3>1, <4>2
    <3> QED BY <3>2, <3>3
  <2> QED BY <2>1, <2>2, <2>3, <2>4
<1>11. OneDatabase'
  <2> SUFFICES ASSUME NEW d \in Clusters, NEW v \in Members(d),
                      PrimaryCluster(d)' = Other(d), followed'[v] = Highest(d)'
               PROVE  data'[v] = data'[Leader(Other(d))]
    BY DEF OneDatabase
  <2>1. d = c /\ v \in Units /\ ClusterOf(v) = c
    BY <1>1, <1>2, <1>3, MoreUnitFacts
  <2>2. followed[v] = Highest(c)
    BY <1>1, <1>3, <2>1
  <2>3. data[v] = data[Leader(Other(c))]
    BY <1>1, <1>2, <2>1, <2>2 DEF CopyInv, OneDatabase
  <2>4. data'[v] = data[v]
    BY <1>3, <1>4, <2>1, <2>2
  <2> QED BY <1>6, <2>1, <2>3, <2>4
<1> QED BY <1>8, <1>10, <1>11

LEMMA StepCopy ==
    ASSUME AsyncAssumption, ~MayRace, IInv, IInv', CopyInv, [Next]_vars
    PROVE  DataInv' /\ CopiedInv' /\ OneDatabase'
<1> USE DEF relation, peers, bags, patroni, history, bounds
<1>0. /\ TypeOK /\ CountersInv /\ TypeOK' /\ CountersInv'
      /\ FollowedInv /\ DataInv /\ CopiedInv /\ OneDatabase
  BY DEF IInv, CopyInv
<1>1. ASSUME NEW u \in Units, Hooks(u) \/ SecretMissing(u) \/ DatabaseStarts(u)
      PROVE DataInv' /\ CopiedInv' /\ OneDatabase'
  <2> DEFINE c == ClusterOf(u)
  <2>0. /\ c \in Clusters /\ Other(c) \in Clusters /\ Other(c) # c /\ Other(Other(c)) = c
        /\ Leader(c) \in Units /\ Leader(Other(c)) \in Units /\ u # Leader(Other(c))
        /\ \A d \in Clusters : d = c \/ d = Other(c)
        /\ (IsLeader(u) => u = Leader(c)) /\ (u = Leader(c) => IsLeader(u))
    BY UnitFacts, MoreUnitFacts
  <2>1. CASE OnCreated(u)
    <3>1. \A v \in Units : followed'[v] = followed[v]
                           \/ PrimaryCluster(ClusterOf(v)) # Other(ClusterOf(v))
      <4>1. \A v \in Units : v # u => followed'[v] = followed[v]
        BY <1>0, <2>1 DEF OnCreated, TypeOK
      <4>2. related => PrimaryCluster(c) # Other(c)
        <5>1. related => offered[Other(c)] = 0
          BY <1>0, <2>1 DEF OnCreated, FollowedInv
        <5>2. offered[c] \in Nat
          BY <1>0, <2>0 DEF TypeOK
        <5> QED BY <2>0, <5>1, <5>2, Reading
      <4>3. ~related => PrimaryCluster(c) # Other(c)
        BY <2>0, Reading
      <4> QED BY <4>1, <4>2, <4>3
    <3> QED BY <1>0, <2>1, <3>1, CopyKept DEF OnCreated, DataInv
  <2>2. CASE ChangedIgnored(u)
    BY <1>0, <2>2, CopyKept DEF ChangedIgnored, DataInv
  <2>3. CASE ChangedPrimary(u)
    <3>1. PrimaryCluster(c) = c /\ PrimaryCluster(c) # Other(c)
      BY <2>0, <2>3 DEF ChangedPrimary
    <3>2. related
      <4>1. Highest(c) # 0
        BY <3>1, <2>0 DEF PrimaryCluster, None, Clusters
      <4> QED BY <4>1 DEF Highest
    <3>3. data[Leader(c)] # "empty"
      <4>1. PrimaryCluster(Other(c)) = c
        BY <2>0, <3>1, <3>2, Reading
      <4> QED BY <1>0, <2>0, <3>2, <4>1 DEF DataInv
    <3>4. \A d \in Clusters : dcs'[d] = dcs[d] \/ (dcs'[d] = "normal" /\ data[Leader(d)] # "empty")
      BY <1>0, <2>0, <2>3, <3>3 DEF ChangedPrimary, TypeOK
    <3>5. \A d \in Clusters : data[Leader(d)] = "empty" => waiting'[Leader(d)]
      BY <1>0, <2>0, <2>3, <3>3 DEF ChangedPrimary, TypeOK, DataInv
    <3>6. \A v \in Units : followed'[v] = followed[v] \/ PrimaryCluster(ClusterOf(v)) # Other(ClusterOf(v))
      BY <1>0, <2>3, <3>1 DEF ChangedPrimary, TypeOK
    <3> QED BY <1>0, <2>3, <3>4, <3>5, <3>6, CopyKept DEF ChangedPrimary
  <2>4. CASE ChangedWaits(u)
    <3>1. /\ Standby(u) /\ Stops(u) /\ MustWait(u)
          /\ UNCHANGED <<related, offered, counter, promoting, followed>>
          /\ waiting' = [waiting EXCEPT ![u] = TRUE]
      BY <2>4 DEF ChangedWaits
    <3>2. /\ \A v \in Units \ {u} : up'[v] = up[v]
          /\ up'[u] = IF MustStop(u) THEN "down" ELSE up[u]
      BY <1>0, <2>4 DEF ChangedWaits, TypeOK
    <3>3. /\ \A d \in Clusters : d # c => dcs'[d] = dcs[d]
          /\ dcs'[c] = IF Forgets(u) THEN "none" ELSE dcs[c]
      BY <1>0, <2>0, <2>4 DEF ChangedWaits, TypeOK
    <3> QED BY <1>0, <3>1, <3>2, <3>3, StopsCopy DEF Forgets
  <2>5. CASE ChangedStarts(u)
    <3>1. /\ Standby(u) /\ Stops(u) /\ ~MustWait(u)
          /\ UNCHANGED <<related, offered, counter, promoting, followed>>
          /\ waiting' = [waiting EXCEPT ![u] = TRUE]
          /\ MustStop(u) \/ up[u] # "running"
      BY <2>5 DEF ChangedStarts
    <3>2. /\ \A v \in Units \ {u} : up'[v] = up[v]
          /\ up'[u] = IF MustStop(u) \/ up[u] = "down" THEN "starting" ELSE up[u]
      BY <1>0, <2>5 DEF ChangedStarts, TypeOK
    <3>3. /\ \A d \in Clusters : d # c => dcs'[d] = dcs[d]
          /\ dcs'[c] = IF Forgets(u) \/ (IsLeader(u) /\ dcs[c] = "none") THEN "standby" ELSE dcs[c]
      BY <1>0, <2>0, <2>5 DEF ChangedStarts, TypeOK
    <3>4. up[u] \in {"down", "starting", "running"} /\ dcs[c] \in {"normal", "standby", "leaving", "none"}
      BY <1>0, <2>0 DEF TypeOK
    <3>5. IsLeader(u) =>
             \/ dcs'[c] = "standby"
             \/ data[u] # "empty" /\ ~MustStop(u)
      <4>1. data[Leader(c)] = "empty" => dcs[c] \in {"standby", "none"}
        BY <1>0, <2>0 DEF DataInv
      <4> QED BY <2>0, <3>3, <4>1 DEF Forgets
    <3>6. MustStop(u) => up'[u] # "running"
      BY <3>2
    <3>7. up'[u] = "running" => up[u] = "running" /\ ~MustStop(u)
      BY <3>2
    <3> QED BY <1>0, <3>1, <3>2, <3>3, <3>5, <3>6, <3>7, StopsCopy DEF Forgets
  <2>6. CASE ChangedStarted(u)
    <3>1. /\ Standby(u) /\ ~MustStop(u) /\ up[u] = "running" /\ PrimaryCluster(c) = Other(c)
          /\ related
      BY <2>0, <2>6, Reading DEF ChangedStarted, StartedOn, Standby
    <3>2. data[u] # "empty" /\ data[Leader(Other(c))] # "empty"
      BY <1>0, <2>0, <3>1 DEF DataInv
    <3>3. data[u] = data[Leader(Other(c))]
      <4>1. CASE stopped[u]
        <5>1. Agreeing(data[u])
          BY <1>0, <3>1, <3>2, <4>1 DEF CopiedInv
        <5> QED BY <2>0, <3>2, <5>1 DEF Agreeing
      <4>2. CASE ~stopped[u]
        <5>1. followed[u] = Highest(c)
          BY <3>1, <4>2 DEF MustStop, IsFollowing
        <5> QED BY <1>0, <2>0, <3>1, <5>1, MoreUnitFacts DEF OneDatabase
      <4> QED BY <4>1, <4>2
    <3>4. /\ UNCHANGED <<related, offered, promoting, counter, data, up, dcs>>
          /\ \A v \in Units : v # u => followed'[v] = followed[v] /\ waiting'[v] = waiting[v]
          /\ \A v \in Units : stopped'[v] => stopped[v]
      BY <1>0, <2>6 DEF ChangedStarted, StartedOn, TypeOK
    <3>5. \A d \in Clusters : data[Leader(d)] = "empty" => waiting'[Leader(d)]
      BY <1>0, <2>0, <3>2, <3>4 DEF DataInv
    <3>6. \A v \in Units : followed'[v] = followed[v] \/ data[v] = data[Leader(Other(ClusterOf(v)))]
      BY <3>3, <3>4
    <3> QED BY <1>0, <3>4, <3>5, <3>6, CopyKept
  <2>7. CASE OnBroken(u)
    <3>1. ~related /\ ~related'
      BY <1>0, <2>7 DEF OnBroken, CountersInv
    <3>2. /\ UNCHANGED <<related, offered, promoting, data, dcs, up, waiting>>
          /\ \A v \in Units : stopped'[v] => stopped[v]
      BY <1>0, <2>7 DEF OnBroken, TypeOK
    <3>3. \A v \in Units : PrimaryCluster(ClusterOf(v)) # Other(ClusterOf(v))
      BY <3>1, UnitFacts, Reading
    <3> QED BY <1>0, <3>1, <3>2, <3>3, CopyKept DEF DataInv
  <2>8. CASE OnSecretChanged(u)
    BY <1>0, <2>8, CopyKept DEF OnSecretChanged, DataInv
  <2>9. CASE UpdateStatus(u)
    <3>1. /\ up[u] = "down" /\ ~stopped[u] /\ ~waiting[u]
          /\ UNCHANGED <<related, offered, promoting, data, counter, waiting, followed, stopped>>
      BY <2>9 DEF UpdateStatus
    <3>2. u = Leader(c) => data[u] # "empty"
      BY <1>0, <2>0, <3>1 DEF DataInv
    <3>3. \A d \in Clusters : dcs'[d] = dcs[d] \/ (dcs'[d] = "normal" /\ data[Leader(d)] # "empty")
      BY <1>0, <2>0, <2>9, <3>2 DEF UpdateStatus, TypeOK
    <3>4. \A v \in Units : up'[v] = IF v = u THEN "starting" ELSE up[v]
      BY <1>0, <2>9 DEF UpdateStatus, TypeOK
    <3>5. \A d \in Clusters : u = Leader(d) => data[u] # "empty"
      BY <2>0, <3>2
    <3> QED BY <1>0, <3>1, <3>3, <3>4, <3>5, CopyKept DEF DataInv
  <2>10. CASE SecretMissing(u)
    <3>1. /\ MustStop(u) /\ UNCHANGED <<related, offered, promoting, data, counter, waiting, followed,
                                        stopped, dcs>>
      BY <2>10 DEF SecretMissing
    <3>2. \A v \in Units : up'[v] = IF v = u THEN "down" ELSE up[v]
      BY <1>0, <2>10 DEF SecretMissing, TypeOK
    <3> QED BY <1>0, <3>1, <3>2, CopyKept DEF DataInv, MustStop
  <2>11. CASE DatabaseStarts(u)
    <3>1. /\ up[u] = "starting"
          /\ UNCHANGED <<related, offered, promoting, counter, waiting, followed, stopped, dcs>>
      BY <2>11 DEF DatabaseStarts
    <3>2. /\ \A v \in Units : up'[v] = IF v = u THEN "running" ELSE up[v]
          /\ \A v \in Units : v # u => data'[v] = data[v]
          /\ data[u] # "empty" => data' = data
      BY <1>0, <2>11 DEF DatabaseStarts, TypeOK
    <3>3. /\ \A d \in Clusters : Highest(d)' = Highest(d) /\ PrimaryCluster(d)' = PrimaryCluster(d)
          /\ \A d \in Clusters : Leader(d) \in Units /\ Other(d) \in Clusters
          /\ \A d \in Clusters : PrimaryCluster(d) = Other(d) => related
      BY <3>1, ReadingKept, UnitFacts, Reading
    <3>4. CASE data[u] # "empty"
      <4>1. data' = data
        BY <3>2, <3>4
      <4>2. DataInv'
        BY <1>0, <3>1, <3>2, <3>3, <3>4, <4>1 DEF DataInv
      <4>3. CopiedInv'
        <5>1. \A d : Agreeing(d) => Agreeing(d)'
          BY <4>1 DEF Agreeing
        <5> QED BY <1>0, <3>1, <3>2, <3>4, <4>1, <5>1 DEF CopiedInv
      <4>4. OneDatabase'
        BY <1>0, <3>1, <3>3, <4>1 DEF OneDatabase
      <4> QED BY <4>2, <4>3, <4>4
    <3>5. CASE data[u] = "empty" /\ IsLeader(u)
      <4>1. dcs[c] = "standby" /\ u = Leader(c)
        BY <1>0, <2>0, <3>1, <3>5 DEF DataInv
      <4>2. data'[u] = data[Leader(Other(c))] /\ up[Leader(Other(c))] = "running"
        BY <1>0, <2>11, <3>5, <4>1 DEF DatabaseStarts, TypeOK
      <4>3. data[Leader(Other(c))] # "empty" /\ data'[Leader(Other(c))] = data[Leader(Other(c))]
        BY <1>0, <2>0, <3>2, <4>2 DEF DataInv
      <4>4. DataInv'
        <5>1. \A v \in Units : up'[v] = "running" => data'[v] # "empty"
          BY <1>0, <3>2, <4>2, <4>3 DEF DataInv
        <5>2. \A d \in Clusters : data'[Leader(d)] # "empty"
          BY <2>0, <4>1, <4>2, <4>3
        <5>3. \A d \in Clusters : related' /\ PrimaryCluster(d)' = Other(d) => dcs'[Other(d)] = "normal"
          BY <1>0, <3>1, <3>3 DEF DataInv
        <5> QED BY <3>3, <5>1, <5>2, <5>3 DEF DataInv
      <4>5. CopiedInv'
        <5>1. \A d : Agreeing(d) => Agreeing(d)'
          BY <2>0, <4>1, <4>2, <4>3 DEF Agreeing
        <5> SUFFICES ASSUME NEW v \in Units, related, stopped[v], data'[v] # "empty" \/ up'[v] # "down"
                     PROVE  Agreeing(data[v])'
          BY <3>1 DEF CopiedInv
        <5>2. CASE v # u
          BY <1>0, <3>2, <5>1, <5>2 DEF CopiedInv
        <5>3. CASE v = u
          BY <2>0, <4>1, <4>2, <4>3, <5>3 DEF Agreeing
        <5> QED BY <5>2, <5>3
      <4>6. OneDatabase'
        <5> SUFFICES ASSUME NEW d \in Clusters, NEW v \in Members(d), related,
                            PrimaryCluster(d) = Other(d), followed[v] = Highest(d)
                     PROVE  data'[v] = data'[Leader(Other(d))]
          BY <3>1, <3>3 DEF OneDatabase
        <5>1. data[Leader(Other(d))] # "empty"
          BY <1>0 DEF DataInv
        <5>2. d = c
          BY <2>0, <3>5, <5>1
        <5>3. data[v] = data[Leader(Other(c))] /\ v \in Units
          BY <1>0, <5>2, MoreUnitFacts DEF OneDatabase
        <5> QED BY <3>2, <4>2, <4>3, <5>2, <5>3
      <4> QED BY <4>4, <4>5, <4>6
    <3>6. CASE data[u] = "empty" /\ ~IsLeader(u)
      <4>1. data'[u] = data[Leader(c)] /\ up[Leader(c)] = "running" /\ u # Leader(c)
        BY <1>0, <2>0, <2>11, <3>6 DEF DatabaseStarts, TypeOK
      <4>2. data[Leader(c)] # "empty" /\ \A d \in Clusters : data'[Leader(d)] = data[Leader(d)]
        BY <1>0, <2>0, <3>2, <4>1 DEF DataInv
      <4>3. DataInv'
        <5>1. \A v \in Units : up'[v] = "running" => data'[v] # "empty"
          BY <1>0, <3>2, <4>1, <4>2 DEF DataInv
        <5>2. \A d \in Clusters : up'[Leader(d)] = up[Leader(d)]
          BY <2>0, <3>2, <4>1
        <5> QED BY <1>0, <3>1, <3>3, <4>2, <5>1, <5>2 DEF DataInv
      <4>4. CopiedInv'
        <5>1. \A d : Agreeing(d) => Agreeing(d)'
          BY <3>3, <4>2 DEF Agreeing
        <5> SUFFICES ASSUME NEW v \in Units, related, stopped[v], data'[v] # "empty" \/ up'[v] # "down"
                     PROVE  Agreeing(data[v])'
          BY <3>1 DEF CopiedInv
        <5>2. CASE v # u
          BY <1>0, <3>2, <5>1, <5>2 DEF CopiedInv
        <5>3. CASE v = u
          <6>1. Agreeing(data[u])
            BY <1>0, <3>1, <5>3 DEF CopiedInv
          <6> QED BY <2>0, <3>6, <4>1, <4>2, <5>3, <6>1 DEF Agreeing
        <5> QED BY <5>2, <5>3
      <4>5. OneDatabase'
        <5> SUFFICES ASSUME NEW d \in Clusters, NEW v \in Members(d), related,
                            PrimaryCluster(d) = Other(d), followed[v] = Highest(d)
                     PROVE  data'[v] = data'[Leader(Other(d))]
          BY <3>1, <3>3 DEF OneDatabase
        <5>1. data[Leader(Other(d))] # "empty" /\ data[v] = data[Leader(Other(d))] /\ v \in Units
          BY <1>0, MoreUnitFacts DEF DataInv, OneDatabase
        <5> QED BY <3>2, <3>3, <3>6, <4>2, <5>1
      <4> QED BY <4>3, <4>4, <4>5
    <3> QED BY <3>4, <3>5, <3>6
  <2> QED
    BY <1>1, <2>1, <2>2, <2>3, <2>4, <2>5, <2>6, <2>7, <2>8, <2>9, <2>10, <2>11 DEF Hooks
<1>2. ASSUME NEW c \in Clusters,
             \/ PromoteBegins(c) \/ PromoteEnds(c) \/ PromoteDies(c)
             \/ PromoteDetached(c) \/ PromoteDetachedDies(c) \/ PatroniPromotes(c)
             \/ SetPassword(c) \/ UpdateConfig(c) \/ PeerChanged(c) \/ Replicate(c)
      PROVE DataInv' /\ CopiedInv' /\ OneDatabase'
  <2>0. /\ Other(c) \in Clusters /\ Other(c) # c /\ Other(Other(c)) = c /\ Leader(c) \in Units
        /\ \A d \in Clusters : d = c \/ d = Other(c)
        /\ \A d \in Clusters : Leader(d) \in Units /\ Other(d) \in Clusters
    BY UnitFacts, MoreUnitFacts
  <2>1. CASE PromoteBegins(c)
    <3>1. /\ UNCHANGED <<related, offered, counter, followed, stopped, data, up, dcs, waiting>>
          /\ \A d \in Clusters : d # c => promoting'[d] = promoting[d]
          /\ data[Leader(c)] # "empty"
      BY <1>0, <2>1 DEF PromoteBegins, MayPromote, HasSystemId, TypeOK
    <3>2. \A d \in Clusters : Highest(d)' = Highest(d) /\ PrimaryCluster(d)' = PrimaryCluster(d)
      BY <3>1, ReadingKept
    <3>3. DataInv'
      BY <1>0, <3>1, <3>2 DEF DataInv
    <3>4. CopiedInv'
      <4>1. \A d : Agreeing(d) => Agreeing(d)'
        BY <3>1 DEF Agreeing
      <4> QED BY <1>0, <3>1, <4>1 DEF CopiedInv
    <3>5. OneDatabase'
      BY <1>0, <3>1, <3>2 DEF OneDatabase
    <3> QED BY <3>3, <3>4, <3>5
  <2>2. CASE PromoteEnds(c)
    <3> DEFINE n == promoting[c]
    <3>1. /\ related /\ related' /\ n # 0
          /\ UNCHANGED <<stopped, data, up, waiting>>
          /\ offered' = [offered EXCEPT ![c] = n] /\ promoting' = [promoting EXCEPT ![c] = 0]
          /\ \A v \in Units : v # Leader(c) => followed'[v] = followed[v]
          /\ \A d \in Clusters : dcs'[d] = IF d = c THEN "normal" ELSE dcs[d]
      BY <1>0, <2>2 DEF PromoteEnds, Promoted, TypeOK
    <3>2. /\ n > offered[c] /\ n > offered[Other(c)] /\ n \in Nat
          /\ offered[c] \in Nat /\ offered[Other(c)] \in Nat
          /\ offered'[c] = n /\ offered'[Other(c)] = offered[Other(c)]
          /\ promoting'[c] = 0 /\ promoting'[Other(c)] = promoting[Other(c)]
      BY <1>0, <2>0, <3>1 DEF CountersInv, TypeOK
    <3>3. data[Leader(c)] # "empty"
      BY <1>0, <3>1 DEF DataInv
    <3>4. \A d \in Clusters : PrimaryCluster(d)' = Other(d) => d = Other(c)
      BY <1>0, <2>0, <3>1, <3>2, ReadingNext DEF ReadingFacts
    <3>5. DataInv'
      <4>1. \A v \in Units : up'[v] = "running" => data'[v] # "empty"
        BY <1>0, <3>1 DEF DataInv
      <4>2. ASSUME NEW d \in Clusters, data'[Leader(d)] = "empty"
            PROVE  /\ waiting'[Leader(d)] /\ data'[Leader(Other(d))] # "empty"
                   /\ dcs'[d] = "standby" \/ (dcs'[d] = "none" /\ up'[Leader(d)] = "down")
        BY <1>0, <3>1, <3>3, <4>2 DEF DataInv
      <4>3. \A d \in Clusters : promoting'[d] # 0 => data'[Leader(d)] # "empty"
        BY <1>0, <2>0, <3>1, <3>2 DEF DataInv
      <4>4. \A d \in Clusters : PrimaryCluster(d)' = Other(d) =>
                dcs'[Other(d)] = "normal" /\ data'[Leader(Other(d))] # "empty"
        BY <2>0, <3>1, <3>3, <3>4
      <4> QED BY <4>1, <4>2, <4>3, <4>4 DEF DataInv
    <3>6. CopiedInv'
      <4>1. \A d : Agreeing(d) => Agreeing(d)'
        BY <3>1 DEF Agreeing
      <4> QED BY <1>0, <3>1, <4>1 DEF CopiedInv
    <3>7. OneDatabase'
      <4> SUFFICES ASSUME NEW d \in Clusters, NEW v \in Members(d),
                          PrimaryCluster(d)' = Other(d), followed'[v] = Highest(d)'
                   PROVE  FALSE
        BY DEF OneDatabase
      <4>1. d = Other(c) /\ v \in Units /\ ClusterOf(v) = Other(c) /\ v # Leader(c)
        BY <2>0, <3>4, UnitFacts, MoreUnitFacts
      <4>2. followed[v] = Highest(d)' /\ followed[v] <= Highest(d) /\ followed[v] \in Nat
        BY <1>0, <3>1, <4>1 DEF FollowedInv, TypeOK
      <4>3. Highest(d) < n
        BY <1>0, <2>0, <3>1, <3>2, <4>1 DEF Highest, CountersInv
      <4>4. Highest(d)' >= n
        BY <1>0, <2>0, <3>1, <3>2, <4>1, ReadingNext DEF ReadingFacts
      <4>5. Highest(d) \in Nat /\ Highest(d)' \in Nat
        BY <1>0, HighestType, ReadingNext DEF ReadingFacts
      <4> QED BY <3>2, <4>2, <4>3, <4>4, <4>5
    <3> QED BY <3>5, <3>6, <3>7
  <2>3. CASE PromoteDetached(c)
    <3>1. /\ UNCHANGED <<related, offered, promoting, data, up, waiting, followed, stopped>>
          /\ ~related /\ up[Leader(c)] = "running"
          /\ \A d \in Clusters : dcs'[d] = IF d = c THEN "normal" ELSE dcs[d]
      BY <1>0, <2>3 DEF PromoteDetached, StandbyLeader, TypeOK
    <3>2. data[Leader(c)] # "empty"
      BY <1>0, <2>0, <3>1 DEF DataInv
    <3> QED BY <1>0, <3>1, <3>2, CopyKept DEF DataInv
  <2>4. CASE SetPassword(c)
    BY <1>0, <2>4, CopyKept DEF SetPassword, DataInv
  <2>5. CASE PeerChanged(c) \/ Replicate(c)
    BY <1>0, <2>5, CopyKept DEF PeerChanged, Replicate, DataInv
  <2>6. CASE PromoteDies(c) \/ PromoteDetachedDies(c)
    <3>1. /\ UNCHANGED <<relation, counter, data, up, waiting, followed, stopped>>
          /\ up[Leader(c)] = "running"
          /\ dcs[c] # "normal"
          /\ \A d \in Clusters : d # c => dcs'[d] = dcs[d]
      BY <1>0, <2>6 DEF PromoteDies, PromoteDetachedDies, AsksPatroni, StandbyLeader, TypeOK
    <3>2. data[Leader(c)] # "empty"
      BY <1>0, <2>0, <3>1 DEF DataInv
    <3>3. PrimaryCluster(Other(c)) # c
      <4>1. PrimaryCluster(Other(c)) = c => related
        BY <2>0, Reading
      <4> QED BY <1>0, <2>0, <3>1, <4>1 DEF DataInv
    <3>4. \A d \in Clusters : promoting[d] = 0 => promoting'[d] = 0
      BY <1>0, <2>6 DEF PromoteDies, PromoteDetachedDies, TypeOK
    <3> QED BY <1>0, <3>1, <3>2, <3>3, <3>4, CopyKept DEF DataInv
  <2>7. CASE PatroniPromotes(c) \/ UpdateConfig(c)
    <3>1. /\ UNCHANGED <<relation, counter, promoting, data, up, waiting, followed, stopped>>
          /\ up[Leader(c)] = "running"
          /\ dcs'[c] = "normal" \/ PrimaryCluster(c) = Other(c)
          /\ \A d \in Clusters : d # c => dcs'[d] = dcs[d]
      BY <1>0, <2>7 DEF PatroniPromotes, UpdateConfig, TypeOK
    <3>2. data[Leader(c)] # "empty"
      BY <1>0, <2>0, <3>1 DEF DataInv
    <3>3. PrimaryCluster(c) = Other(c) => PrimaryCluster(Other(c)) # c
      BY <2>0, Reading
    <3> QED BY <1>0, <3>1, <3>2, <3>3, CopyKept DEF DataInv
  <2> QED BY <1>2, <2>1, <2>2, <2>3, <2>4, <2>5, <2>6, <2>7
<1>3. CASE RemoveRelation
  <2>1. ~related' /\ UNCHANGED <<promoting, data, dcs, up, waiting>>
    BY <1>3 DEF RemoveRelation
  <2>2. DataInv'
    BY <1>0, <2>1 DEF DataInv
  <2> QED BY <2>1, <2>2 DEF CopiedInv, OneDatabase
<1>4. CASE Relate
  <2>1. /\ \A u \in Units : ~stopped'[u]
        /\ \A d \in Clusters : offered'[d] = 0
        /\ UNCHANGED <<promoting, data, dcs, up, waiting>>
    BY <1>0, <1>4 DEF Relate, FollowedInv, CountersInv
  <2>2. related'
    BY <1>4 DEF Relate
  <2>3. \A d \in Clusters : PrimaryCluster(d)' # Other(d)
    BY <1>0, <2>1, <2>2, UnitFacts, ReadingNext DEF ReadingFacts
  <2>4. DataInv'
    BY <1>0, <2>1, <2>3 DEF DataInv
  <2> QED BY <2>1, <2>3, <2>4 DEF CopiedInv, OneDatabase
<1>5. CASE UNCHANGED vars
  BY <1>0, <1>5, CopyKept DEF vars, DataInv
<1> QED BY <1>1, <1>2, <1>3, <1>4, <1>5 DEF Next

\* Only an action that asks Patroni, and is not seen through, has a cluster leave.
LEMMA StepLeaving ==
    ASSUME AsyncAssumption, IInv, LeavingInv, [Next]_vars
    PROVE  LeavingInv'
<1> USE DEF relation, peers, bags, patroni, history, bounds
<1>0. TypeOK BY DEF IInv
<1>1. ASSUME NEW u \in Units, Hooks(u) \/ SecretMissing(u) \/ DatabaseStarts(u)
      PROVE LeavingInv'
  <2> DEFINE c == ClusterOf(u)
  <2>0. c \in Clusters
    BY UnitFacts
  <2>1. CASE \/ OnCreated(u) \/ ChangedIgnored(u) \/ ChangedStarted(u) \/ OnBroken(u)
             \/ OnSecretChanged(u) \/ SecretMissing(u) \/ DatabaseStarts(u)
    <3>1. dcs' = dcs /\ unfinished' = unfinished
      BY <2>1 DEF OnCreated, ChangedIgnored, ChangedStarted, StartedOn, OnBroken,
                  OnSecretChanged, SecretMissing, DatabaseStarts
    <3> QED BY <3>1 DEF LeavingInv
  <2>2. CASE ChangedPrimary(u) \/ UpdateStatus(u)
    <3>1. unfinished' = unfinished /\ \A d \in Clusters : dcs'[d] \in {dcs[d], "normal"}
      BY <1>0, <2>0, <2>2 DEF ChangedPrimary, UpdateStatus, TypeOK
    <3> QED BY <3>1 DEF LeavingInv
  <2>3. CASE ChangedWaits(u) \/ ChangedStarts(u)
    <3>1. CASE Forgets(u)
      <4>1. /\ unfinished' = unfinished \ {c} /\ dcs'[c] \in {"none", "standby"}
            /\ \A d \in Clusters : d # c => dcs'[d] = dcs[d]
        BY <1>0, <2>0, <2>3, <3>1 DEF ChangedWaits, ChangedStarts, Unfinished, TypeOK
      <4> QED BY <4>1 DEF LeavingInv
    <3>2. CASE ~Forgets(u)
      <4>1. unfinished' = unfinished /\ \A d \in Clusters : dcs'[d] \in {dcs[d], "standby"}
        BY <1>0, <2>0, <2>3, <3>2 DEF ChangedWaits, ChangedStarts, Unfinished, TypeOK
      <4> QED BY <4>1 DEF LeavingInv
    <3> QED BY <3>1, <3>2
  <2> QED BY <1>1, <2>1, <2>2, <2>3 DEF Hooks
<1>2. ASSUME NEW c \in Clusters,
             \/ PromoteBegins(c) \/ PromoteEnds(c) \/ PromoteDies(c)
             \/ PromoteDetached(c) \/ PromoteDetachedDies(c) \/ PatroniPromotes(c)
             \/ SetPassword(c) \/ UpdateConfig(c) \/ PeerChanged(c) \/ Replicate(c)
      PROVE LeavingInv'
  <2>1. CASE PromoteBegins(c) \/ SetPassword(c) \/ PeerChanged(c) \/ Replicate(c)
    <3>1. dcs' = dcs /\ unfinished' = unfinished
      BY <2>1 DEF PromoteBegins, SetPassword, PeerChanged, Replicate
    <3> QED BY <3>1 DEF LeavingInv
  <2>2. CASE PromoteEnds(c) \/ PromoteDetached(c) \/ PatroniPromotes(c) \/ UpdateConfig(c)
    <3>1. /\ dcs'[c] \in {"normal", "standby"} /\ unfinished \ {c} \subseteq unfinished'
          /\ \A d \in Clusters : d # c => dcs'[d] = dcs[d]
      BY <1>0, <2>2
         DEF PromoteEnds, Promoted, PromoteDetached, PatroniPromotes, UpdateConfig, TypeOK
    <3> QED BY <3>1 DEF LeavingInv
  <2>3. CASE PromoteDies(c) \/ PromoteDetachedDies(c)
    <3>1. /\ unfinished' = unfinished \cup {c} \/ (dcs' = dcs /\ unfinished' = unfinished)
          /\ \A d \in Clusters : d # c => dcs'[d] = dcs[d]
      BY <1>0, <2>3 DEF PromoteDies, PromoteDetachedDies, AsksPatroni, TypeOK
    <3> QED BY <3>1 DEF LeavingInv
  <2> QED BY <1>2, <2>1, <2>2, <2>3
<1>3. CASE RemoveRelation \/ Relate \/ UNCHANGED vars
  BY <1>3 DEF RemoveRelation, Relate, vars, LeavingInv
<1> QED BY <1>1, <1>2, <1>3 DEF Next

\* While the clusters are detached, and were not caught halfway, every database runs.
LEMMA StepMark ==
    ASSUME AsyncAssumption, ~MayRace, IInv, IInv', LeavingInv, MarkInv, [Next]_vars
    PROVE  MarkInv'
<1> USE DEF relation, peers, bags, patroni, history, bounds
<1>0. TypeOK /\ CountersInv BY DEF IInv
<1> SUFFICES ASSUME ~related', ~caught'
             PROVE  /\ \A u \in Units : up'[u] = "running"
                    /\ \A c \in Clusters : "broken" \in due'[Leader(c)] \/ Marked(c)'
  BY DEF MarkInv
<1>1. CASE RemoveRelation
  <2>1. \A c \in Clusters : "broken" \in due'[Leader(c)]
    BY <1>1, UnitFacts DEF RemoveRelation
  <2>2. \A u \in Units : up'[u] = "running"
    BY <1>1 DEF RemoveRelation
  <2> QED BY <2>1, <2>2
<1>2. CASE ~related /\ ~caught
  <2>0. /\ \A u \in Units : up[u] = "running"
        /\ \A c \in Clusters : "broken" \in due[Leader(c)] \/ Marked(c)
        /\ \A c \in Clusters : PrimaryCluster(c) = None
        /\ \A c \in Clusters : Other(c) # None /\ c # None
    BY <1>2 DEF MarkInv, PrimaryCluster, Highest, None, Clusters, Other
  <2>1. ASSUME NEW u \in Units, Hooks(u) \/ SecretMissing(u) \/ DatabaseStarts(u)
        PROVE  /\ UNCHANGED <<up, dcs, unfinished>>
               /\ \/ /\ counter' = counter
                     /\ \A v \in Units : "broken" \in due[v] => "broken" \in due'[v]
                  \/ OnBroken(u)
    <3>1. CASE OnCreated(u) \/ ChangedIgnored(u)
      BY <1>0, <3>1 DEF OnCreated, ChangedIgnored, Handled, TypeOK
    <3>2. CASE ChangedPrimary(u) \/ ChangedWaits(u) \/ ChangedStarts(u) \/ ChangedStarted(u)
               \/ SecretMissing(u)
      BY <2>0, <3>2, UnitFacts
         DEF ChangedPrimary, ChangedWaits, ChangedStarts, ChangedStarted, StartedOn, Standby,
             SecretMissing
    <3>3. CASE OnBroken(u)
      BY <3>3 DEF OnBroken
    <3>4. CASE OnSecretChanged(u)
      BY <1>0, <1>2, <3>4 DEF OnSecretChanged, Handled, TypeOK
    <3>5. CASE UpdateStatus(u) \/ DatabaseStarts(u)
      BY <2>0, <3>5 DEF UpdateStatus, DatabaseStarts
    <3> QED BY <2>1, <3>1, <3>2, <3>3, <3>4, <3>5 DEF Hooks
  <2>2. ASSUME NEW u \in Units, OnBroken(u)
        PROVE  \A c \in Clusters : "broken" \in due'[Leader(c)] \/ Marked(c)'
    <3> SUFFICES ASSUME NEW c \in Clusters
                 PROVE  "broken" \in due'[Leader(c)] \/ Marked(c)'
      OBVIOUS
    <3>1. /\ Leader(c) \in Units /\ ClusterOf(u) \in Clusters
          /\ dcs' = dcs /\ unfinished' = unfinished
      BY <2>2, UnitFacts DEF OnBroken
    <3>2. CASE u = Leader(c)
      <4>1. counter'[c] = CounterLeft(c)
        BY <1>0, <2>2, <3>2, UnitFacts, MoreUnitFacts DEF OnBroken, TypeOK
      <4>2. CounterLeft(c) = 0 <=> dcs[c] \in {"standby", "leaving"}
        BY <2>0, <3>1 DEF CounterLeft, StandbyLeader, Unset
      <4> QED BY <3>1, <4>1, <4>2 DEF Marked, LeavingInv
    <3>3. CASE u # Leader(c)
      <4>1. due'[Leader(c)] = due[Leader(c)]
        BY <1>0, <2>2, <3>1, <3>3 DEF OnBroken, Handled, TypeOK
      <4>2. counter'[c] = counter[c]
        <5>1. IsLeader(u) => ClusterOf(u) # c
          BY <3>3, UnitFacts
        <5> QED BY <1>0, <2>2, <3>1, <5>1 DEF OnBroken, TypeOK
      <4> QED BY <2>0, <3>1, <4>1, <4>2 DEF Marked
    <3> QED BY <3>2, <3>3
  <2>3. ASSUME NEW c \in Clusters,
               \/ PromoteBegins(c) \/ PromoteEnds(c) \/ PromoteDies(c)
               \/ PromoteDetached(c) \/ PromoteDetachedDies(c) \/ PatroniPromotes(c)
               \/ SetPassword(c) \/ UpdateConfig(c) \/ PeerChanged(c) \/ Replicate(c)
        PROVE  /\ up' = up /\ \A v \in Units : "broken" \in due[v] => "broken" \in due'[v]
               /\ \A d \in Clusters : Marked(d) => Marked(d)'
    <3>1. CASE PromoteBegins(c) \/ PromoteEnds(c) \/ PromoteDies(c) \/ UpdateConfig(c)
      BY <1>2, <2>0, <3>1 DEF PromoteBegins, PromoteEnds, PromoteDies, UpdateConfig
    <3>2. CASE PromoteDetached(c)
      <4>1. \A d \in Clusters : \/ counter'[d] = counter[d] /\ dcs'[d] = dcs[d]
                                \/ counter'[d] # 0 /\ dcs'[d] = "normal"
        BY <1>0, <3>2 DEF PromoteDetached, TypeOK, Unset
      <4> QED BY <3>2, <4>1 DEF PromoteDetached, Marked
    <3>3. CASE SetPassword(c)
      BY <3>3 DEF SetPassword, Notify, Marked
    <3>4. CASE PeerChanged(c) \/ Replicate(c)
      BY <3>4 DEF PeerChanged, Replicate, Marked
    <3>5. CASE PromoteDetachedDies(c)
      \* the cluster stays marked: Patroni was asked, and nobody goes on from there
      <4>1. /\ unfinished' = unfinished \cup {c} /\ dcs'[c] = "leaving"
            /\ \A d \in Clusters : d # c => dcs'[d] = dcs[d]
            /\ UNCHANGED <<up, counter, due>>
        BY <1>0, <3>5 DEF PromoteDetachedDies, AsksPatroni, TypeOK
      <4> QED BY <4>1 DEF Marked
    <3>6. CASE PatroniPromotes(c)
      <4>1. /\ dcs'[c] = "normal" /\ c \in unfinished
            /\ \A d \in Clusters : d # c => dcs'[d] = dcs[d]
            /\ UNCHANGED <<up, counter, due, unfinished>>
        BY <1>0, <3>6 DEF PatroniPromotes, LeavingInv, TypeOK
      <4> QED BY <4>1 DEF Marked
    <3> QED BY <2>3, <3>1, <3>2, <3>3, <3>4, <3>5, <3>6
  <2>4. CASE UNCHANGED vars
    BY <2>0, <2>4 DEF vars, Marked
  <2>5. CASE RemoveRelation \/ Relate
    BY <1>1, <2>5 DEF Relate
  <2>6. ASSUME NEW u \in Units, Hooks(u) \/ SecretMissing(u) \/ DatabaseStarts(u)
        PROVE  /\ \A v \in Units : up'[v] = "running"
               /\ \A c \in Clusters : "broken" \in due'[Leader(c)] \/ Marked(c)'
    <3>1. CASE OnBroken(u)
      BY <2>0, <2>1, <2>2, <2>6, <3>1
    <3>2. CASE ~OnBroken(u)
      BY <2>0, <2>1, <2>6, <3>2, UnitFacts DEF Marked
    <3> QED BY <3>1, <3>2
  <2>7. ASSUME NEW c \in Clusters,
               \/ PromoteBegins(c) \/ PromoteEnds(c) \/ PromoteDies(c)
               \/ PromoteDetached(c) \/ PromoteDetachedDies(c) \/ PatroniPromotes(c)
               \/ SetPassword(c) \/ UpdateConfig(c) \/ PeerChanged(c) \/ Replicate(c)
        PROVE  /\ \A v \in Units : up'[v] = "running"
               /\ \A d \in Clusters : "broken" \in due'[Leader(d)] \/ Marked(d)'
    BY <2>0, <2>3, <2>7, UnitFacts
  <2> QED BY <2>4, <2>5, <2>6, <2>7 DEF Next
<1>3. CASE related \/ caught
  <2>1. ASSUME NEW u \in Units, Hooks(u) \/ SecretMissing(u) \/ DatabaseStarts(u)
        PROVE  related' = related /\ caught' = caught
    <3>1. OnCreated(u) \/ ChangedIgnored(u) \/ ChangedPrimary(u) \/ OnSecretChanged(u) =>
             related' = related /\ caught' = caught
      BY DEF OnCreated, ChangedIgnored, ChangedPrimary, OnSecretChanged
    <3>2. ChangedWaits(u) \/ ChangedStarts(u) \/ ChangedStarted(u) =>
             related' = related /\ caught' = caught
      BY DEF ChangedWaits, ChangedStarts, ChangedStarted, StartedOn
    <3>3. OnBroken(u) \/ UpdateStatus(u) \/ SecretMissing(u) \/ DatabaseStarts(u) =>
             related' = related /\ caught' = caught
      BY DEF OnBroken, UpdateStatus, SecretMissing, DatabaseStarts
    <3> QED BY <2>1, <3>1, <3>2, <3>3 DEF Hooks
  <2>2. ASSUME NEW c \in Clusters,
               \/ PromoteBegins(c) \/ PromoteEnds(c) \/ PromoteDies(c)
               \/ PromoteDetached(c) \/ PromoteDetachedDies(c) \/ PatroniPromotes(c)
               \/ SetPassword(c) \/ UpdateConfig(c) \/ PeerChanged(c) \/ Replicate(c)
        PROVE  related' = related /\ (caught => caught')
    BY <2>2 DEF PromoteBegins, PromoteEnds, PromoteDies, PromoteDetached, PromoteDetachedDies,
                PatroniPromotes, SetPassword, UpdateConfig, PeerChanged, Replicate
  <2>3. CASE RemoveRelation \/ Relate
    BY <1>1, <1>3, <2>3 DEF Relate
  <2>4. CASE UNCHANGED vars
    BY <1>3, <2>4 DEF vars
  <2> QED BY <1>3, <2>1, <2>2, <2>3, <2>4 DEF Next
<1> QED BY <1>2, <1>3

LEMMA InitCopy == ASSUME AsyncAssumption, Init PROVE CopyInv /\ LeavingInv /\ MarkInv
<1>1. \A c \in Clusters : Highest(c) = 0 /\ PrimaryCluster(c) = None
  BY DEF Init, Highest, Own, PrimaryCluster, Clusters, Other
<1>2. \A c \in Clusters : /\ Other(c) \in Clusters /\ Other(c) # None /\ Leader(c) \in Units
                          /\ data[Leader(c)] = c /\ c # "empty"
  BY UnitFacts DEF Init, Clusters, Other, None
<1>3. \A u \in Units : ClusterOf(u) \in Clusters /\ data[u] # "empty"
  BY UnitFacts DEF Init, Clusters
<1>4. FollowedInv
  BY <1>1, <1>3 DEF Init, FollowedInv
<1>5. DataInv
  BY <1>1, <1>2, <1>3 DEF Init, DataInv
<1>6. CopiedInv /\ OneDatabase /\ LeavingInv /\ MarkInv
  BY <1>1, <1>2 DEF Init, CopiedInv, OneDatabase, LeavingInv, MarkInv
<1> QED BY <1>4, <1>5, <1>6 DEF CopyInv

LEMMA CopyInvariance ==
    ASSUME AsyncAssumption, ~MayRace
    PROVE  Spec => [](IInv /\ CopyInv /\ LeavingInv /\ MarkInv)
<1>1. Init => IInv /\ CopyInv /\ LeavingInv /\ MarkInv
  BY InitType, InitInv, InitCopy DEF IInv
<1>2. IInv /\ CopyInv /\ LeavingInv /\ MarkInv /\ [Next]_vars
         => (IInv /\ CopyInv /\ LeavingInv /\ MarkInv)'
  <2> SUFFICES ASSUME IInv, CopyInv, LeavingInv, MarkInv, [Next]_vars
               PROVE  IInv' /\ CopyInv' /\ LeavingInv' /\ MarkInv'
    OBVIOUS
  <2>1. IInv'
    BY StepType, StepInv DEF IInv
  <2>2. FollowedInv'
    BY <2>1, StepFollowed DEF CopyInv
  <2>3. DataInv' /\ CopiedInv' /\ OneDatabase'
    BY <2>1, StepCopy
  <2>4. LeavingInv' /\ MarkInv'
    BY <2>1, StepLeaving, StepMark
  <2> QED BY <2>1, <2>2, <2>3, <2>4 DEF CopyInv
<1> QED BY <1>1, <1>2, PTL DEF Spec

-----------------------------------------------------------------------------
(* Theorems. *)

\* Every reachable state is well typed; in particular no cluster takes over a password
\* that the other one does not share.
THEOREM TypeCorrect == ASSUME AsyncAssumption, ~MayRace PROVE Spec => []TypeOK
<1>1. IInv => TypeOK BY DEF IInv
<1> QED BY <1>1, Invariance, PTL

\* If the two clusters are not promoted at the same time, the two sides of the relation
\* name the same primary cluster, however often they are promoted, detached and related.
THEOREM PrimaryAgreed == ASSUME AsyncAssumption, ~MayRace PROVE Spec => []AgreeOnPrimary
<1>1. IInv => AgreeOnPrimary
  <2> SUFFICES ASSUME IInv, related PROVE PrimaryCluster("offer") = PrimaryCluster("consumer")
    BY DEF AgreeOnPrimary
  <2>1. Other("offer") = "consumer" /\ Other("consumer") = "offer"
    BY DEF Other
  <2>2. /\ offered["offer"] = Own("offer") /\ offered["consumer"] = Own("consumer")
        /\ offered["offer"] = offered["consumer"] => offered["offer"] = 0
    BY <2>1 DEF IInv, CountersInv, Clusters
  <2>3. offered["offer"] \in Nat /\ offered["consumer"] \in Nat
    BY DEF IInv, TypeOK, Clusters
  <2> QED BY <2>1, <2>2, <2>3 DEF PrimaryCluster, Highest, None
<1> QED BY <1>1, Invariance, PTL

\* A unit that follows the primary cluster has that cluster's data, and every state is well
\* typed, unless both clusters are promoted at the same time.
THEOREM FollowersCopied == ASSUME AsyncAssumption, ~MayRace PROVE Spec => []Inv
<1>1. IInv /\ CopyInv /\ LeavingInv /\ MarkInv => Inv BY DEF IInv, CopyInv, Inv
<1> QED BY <1>1, CopyInvariance, PTL

\* _stop_database deletes data only while the other cluster is the primary one and its
\* leader has data, under the same condition.
THEOREM DiscardsAreSafe ==
    ASSUME AsyncAssumption, ~MayRace PROVE Spec => DiscardsForAPrimary
<1> DEFINE Kept == \A c \in Clusters :
                      (\E u \in Members(c) : data[u] # "empty" /\ data'[u] = "empty")
                          => dcs[Other(c)] = "normal" /\ data[Leader(Other(c))] # "empty"
<1>1. IInv /\ CopyInv /\ LeavingInv /\ MarkInv /\ [Next]_vars => Kept
  <2> SUFFICES ASSUME IInv, CopyInv, [Next]_vars, NEW c \in Clusters,
                      NEW u \in Members(c), data[u] # "empty", data'[u] = "empty"
               PROVE  dcs[Other(c)] = "normal" /\ data[Leader(Other(c))] # "empty"
    OBVIOUS
  <2>1. u \in Units /\ ClusterOf(u) = c
    BY MoreUnitFacts
  <2>2. data' # data
    OBVIOUS
  <2>3. PICK v \in Units : ChangedWaits(v) \/ ChangedStarts(v) \/ DatabaseStarts(v)
    BY <2>2 DEF Next, vars, Hooks, OnCreated, ChangedIgnored, ChangedPrimary, ChangedStarted,
           StartedOn, OnBroken, OnSecretChanged, UpdateStatus, SecretMissing, PromoteBegins,
           PromoteEnds, PromoteDies, PromoteDetached, PromoteDetachedDies, PatroniPromotes,
           SetPassword, UpdateConfig, PeerChanged, Replicate, Relate, RemoveRelation, patroni
  <2>4. CASE DatabaseStarts(v)
    <3>1. data'[u] = data[u]
      BY <2>1, <2>4 DEF DatabaseStarts, IInv, TypeOK
    <3> QED BY <3>1
  <2>5. CASE ChangedWaits(v) \/ ChangedStarts(v)
    <3>1. Standby(v) /\ Stops(v)
      BY <2>5 DEF ChangedWaits, ChangedStarts
    <3>2. v = u
      BY <2>1, <3>1 DEF Stops, IInv, TypeOK
    <3>3. PrimaryCluster(c) = Other(c) /\ related
      BY <2>1, <3>1, <3>2, Reading DEF Standby
    <3> QED BY <3>3 DEF CopyInv, DataInv
  <2> QED BY <2>3, <2>4, <2>5
<1>2. Spec => [][Kept]_vars
  BY <1>1, CopyInvariance, PTL DEF Spec
<1> QED BY <1>2 DEF DiscardsForAPrimary

\* Once every unit has handled the end of the relation, each standby cluster is marked
\* read-only (_on_async_relation_broken), and stays so until promote-to-primary has made
\* Patroni's leader a primary: an action that dies on the way leaves the mark, on a cluster
\* that is then no standby.  Unless the end caught a unit without its data.
THEOREM DetachedMarked == ASSUME AsyncAssumption, ~MayRace PROVE Spec => []ReadOnlyMarked
<1>1. IInv /\ CopyInv /\ LeavingInv /\ MarkInv => ReadOnlyMarked
  BY UnitFacts DEF MarkInv, Marked, ReadOnlyMarked
<1> QED BY <1>1, CopyInvariance, PTL
=============================================================================
