------------------------- MODULE Certificates_proofs -------------------------
(***************************************************************************)
(* Proofs about module Certificates: the state of TLS of a unit and the     *)
(* files that PostgreSQL starts with, and that TLS stays on while the        *)
(* relation is there.                                                      *)
(***************************************************************************)
EXTENDS Certificates, SequenceTheorems, FiniteSetTheorems, TLAPS

USE DEF remote, request, server, files, ages, transfer, vars

-----------------------------------------------------------------------------
(* Events. *)

\* The events that wait in the running hook or are deferred.
Waiting == ToSet(now) \cup ToSet(later)

Due(k) == \E e \in due : e.kind = k
Waits(k) == \E e \in Waiting : e.kind = k

\* What the events of each kind carry.
WellFormed(e) ==
    /\ e.kind = "ca" => e.arg \in 1 .. 2
    /\ e.kind \in {"available", "invalidated", "expired"} => e.arg \in Requests
    /\ e.kind \in {"joined", "broken", "key", "pebble"} => e.arg = 0

EventInv ==
    /\ \A e \in due \cup Waiting : WellFormed(e)
    /\ \A e \in ToSet(later) : e.kind \notin {"joined", "key", "changed"}
    /\ ~Due("available")

-----------------------------------------------------------------------------
(* The inductive invariant. *)

\* The request in use is signed with the key in use, and was made; so was that of the
\* certificate in use and of the one in the file.
RequestInv ==
    /\ key # 0 <=> csr # 0
    /\ csr # 0 => keyOf[csr] = key
    /\ cert # 0 => csr # 0
    /\ key <= made /\ csr <= made /\ cert <= made /\ certFile <= made

\* TLS is off, and nothing on its way turns it on.
Off == serving = 0 /\ cert = 0 /\ ~conf /\ ~flag /\ ~Waits("available") /\ ~Waits("changed")

\* The relation is there, or the hook that says it is broken is on its way, or TLS is off; and
\* it is off until the unit knows of the relation.
RelationInv ==
    /\ related = "joined" => ~Due("broken") /\ ~Waits("broken")
    /\ related # "joined" =>
          /\ ~Due("joined") /\ ~Due("changed")
          /\ Due("broken") \/ Waits("broken") => ~Waits("available") /\ ~Waits("changed")
          /\ Due("broken") \/ Waits("broken") \/ Off
    /\ Due("joined") \/ Waits("joined") => Off

\* What is on (in patroni.yml, served or said) is so because of a certificate, which the unit
\* has or is about to be given again.
OnInv ==
    /\ workload \in {"down", "ready"} => serving = 0
    /\ related = "joined" /\ flag => cert # 0
    /\ related = "joined" /\ serving # 0 => conf
    /\ related = "joined" /\ conf => cert # 0 \/ (Handles("available") /\ Arg = csr)

\* The certificate is of the key in use, which is not about to be replaced, or the service is
\* there and not about to be started.
FitsInv ==
    \/ (cert # 0 => keyOf[cert] = key) /\ ~Due("key") /\ ~Waits("key")
    \/ workload \in {"starting", "up"} /\ ~Due("pebble") /\ ~Waits("pebble")

\* What the service may be started with, now or after the next update of the configuration.
FilesInv ==
    workload \in {"starting", "up"} /\ (conf \/ cert # 0) => Pair(keyFile, certFile)

\* Types, without what OnInv says.
Typed ==
    /\ related \in {"none", "joined", "removed"} /\ bag \subseteq Requests
    /\ issued \in Seq(Requests) /\ revoked \subseteq Requests /\ asked \in BOOLEAN
    /\ made \in 0 .. MaxRequests /\ keyOf \in [Requests -> 0 .. MaxRequests]
    /\ {key, csr, cert, keyFile, certFile, serving} \subseteq 0 .. MaxRequests
    /\ labels \subseteq Requests /\ aged \subseteq Requests /\ ended \subseteq aged
    /\ conf \in BOOLEAN /\ flag \in BOOLEAN /\ told \in BOOLEAN
    /\ workload \in {"down", "ready", "starting", "up"}
    /\ {caBag, caSecret, caFile} \subseteq 0 .. 2 /\ caRelated \in BOOLEAN
    /\ due \subseteq Events /\ now \in Seq(Events) /\ later \in Seq(Events)
    /\ incidents \subseteq Incidents

OnlyOn == Typed /\ EventInv /\ RequestInv /\ RelationInv /\ OnInv

-----------------------------------------------------------------------------
(* Lemmas on the events. *)

LEMMA InElements ==
    ASSUME NEW S, NEW s \in Seq(S), NEW e
    PROVE  e \in ToSet(s) <=> \E i \in 1 .. Len(s) : s[i] = e
  BY DEF ToSet

LEMMA AppendElements ==
    ASSUME NEW S, NEW s \in Seq(S), NEW e \in S
    PROVE  Append(s, e) \in Seq(S) /\ ToSet(Append(s, e)) = ToSet(s) \cup {e}
<1>1. /\ Append(s, e) \in Seq(S) /\ Len(Append(s, e)) = Len(s) + 1 /\ Len(s) \in Nat
      /\ \A i \in 1 .. Len(s) : Append(s, e)[i] = s[i]
      /\ Append(s, e)[Len(s) + 1] = e
  BY AppendProperties
<1>2. ASSUME NEW x
      PROVE  x \in ToSet(Append(s, e)) <=> \E i \in 1 .. Len(s) + 1 : Append(s, e)[i] = x
  <2>1. 1 .. Len(Append(s, e)) = 1 .. Len(s) + 1
    BY <1>1
  <2>2. x \in ToSet(Append(s, e)) <=> \E i \in 1 .. Len(Append(s, e)) : Append(s, e)[i] = x
    BY <1>1, InElements
  <2>q. QED  BY <2>1, <2>2
<1>3. ASSUME NEW x
      PROVE  x \in ToSet(Append(s, e)) <=> x \in ToSet(s) \cup {e}
  <2>1. 1 .. Len(s) + 1 = (1 .. Len(s)) \cup {Len(s) + 1}
    BY <1>1
  <2>q. QED  BY <1>1, <1>2, <2>1, InElements
<1>q. QED  BY <1>1, <1>3

LEMMA TailElements ==
    ASSUME NEW S, NEW s \in Seq(S), s # <<>>
    PROVE  /\ Head(s) \in S /\ Tail(s) \in Seq(S)
           /\ ToSet(s) = ToSet(Tail(s)) \cup {Head(s)}
<1>1. /\ Head(s) = s[1] /\ Head(s) \in S /\ Tail(s) \in Seq(S) /\ Len(s) \in Nat \ {0}
      /\ Len(Tail(s)) = Len(s) - 1 /\ \A i \in 1 .. Len(Tail(s)) : Tail(s)[i] = s[i + 1]
  BY HeadTailProperties
<1>2. ASSUME NEW e
      PROVE  e \in ToSet(s) <=> e \in ToSet(Tail(s)) \cup {Head(s)}
  <2>1. e \in ToSet(s) => e \in ToSet(Tail(s)) \cup {Head(s)}
    <3>1. SUFFICES ASSUME NEW i \in 1 .. Len(s), s[i] = e, i # 1
                   PROVE  e \in ToSet(Tail(s))
      BY <1>1, InElements
    <3>2. i - 1 \in 1 .. Len(Tail(s)) /\ Tail(s)[i - 1] = s[i]
      BY <1>1, <3>1
    <3>q. QED  BY <1>1, <3>1, <3>2, InElements
  <2>2. e \in ToSet(Tail(s)) => e \in ToSet(s)
    <3>0. e \in ToSet(Tail(s)) <=> \E i \in 1 .. Len(Tail(s)) : Tail(s)[i] = e
      BY <1>1, InElements
    <3>1. SUFFICES ASSUME NEW i \in 1 .. Len(Tail(s)), Tail(s)[i] = e
                   PROVE  e \in ToSet(s)
      BY <3>0
    <3>2. i + 1 \in 1 .. Len(s) /\ s[i + 1] = e
      BY <1>1, <3>1
    <3>q. QED  BY <3>2, InElements
  <2>q. QED  BY <1>1, <2>1, <2>2, InElements
<1>q. QED  BY <1>1, <1>2

LEMMA ConcatElements ==
    ASSUME NEW S, NEW s \in Seq(S), NEW t \in Seq(S)
    PROVE  s \o t \in Seq(S) /\ ToSet(s \o t) = ToSet(s) \cup ToSet(t)
<1>1. /\ s \o t \in Seq(S) /\ Len(s \o t) = Len(s) + Len(t) /\ Len(s) \in Nat /\ Len(t) \in Nat
      /\ \A i \in 1 .. Len(s) + Len(t) :
            (s \o t)[i] = IF i <= Len(s) THEN s[i] ELSE t[i - Len(s)]
  BY ConcatProperties
<1>2. ASSUME NEW e
      PROVE  e \in ToSet(s \o t) <=> e \in ToSet(s) \cup ToSet(t)
  <2>1. e \in ToSet(s \o t) => e \in ToSet(s) \cup ToSet(t)
    <3>0. e \in ToSet(s \o t) <=> \E i \in 1 .. Len(s \o t) : (s \o t)[i] = e
      BY <1>1, InElements
    <3>1. SUFFICES ASSUME NEW i \in 1 .. Len(s) + Len(t), (s \o t)[i] = e
                   PROVE  e \in ToSet(s) \cup ToSet(t)
      BY <1>1, <3>0
    <3>2. CASE i <= Len(s)
      BY <1>1, <3>1, <3>2, InElements
    <3>3. CASE i > Len(s)
      <4>1. i - Len(s) \in 1 .. Len(t) /\ t[i - Len(s)] = e
        BY <1>1, <3>1, <3>3
      <4>q. QED  BY <4>1, InElements
    <3>q. QED  BY <1>1, <3>2, <3>3
  <2>2. e \in ToSet(s) => e \in ToSet(s \o t)
    <3>1. SUFFICES ASSUME NEW i \in 1 .. Len(s), s[i] = e
                   PROVE  e \in ToSet(s \o t)
      BY InElements
    <3>2. i \in 1 .. Len(s \o t) /\ (s \o t)[i] = e
      BY <1>1, <3>1
    <3>q. QED  BY <1>1, <3>2, InElements
  <2>3. e \in ToSet(t) => e \in ToSet(s \o t)
    <3>1. SUFFICES ASSUME NEW i \in 1 .. Len(t), t[i] = e
                   PROVE  e \in ToSet(s \o t)
      BY InElements
    <3>2. i + Len(s) \in 1 .. Len(s \o t) /\ (s \o t)[i + Len(s)] = e
      BY <1>1, <3>1
    <3>q. QED  BY <1>1, <3>2, InElements
  <2>q. QED  BY <2>1, <2>2, <2>3
<1>q. QED  BY <1>1, <1>2

\* What waits, as the guards of Juju's actions see it.
LEMMA PendingWaits ==
    ASSUME Typed, NEW kinds
    PROVE  Pending(kinds) <=> \E e \in Waiting : e.kind \in kinds
<1>1. now \o later \in Seq(Events) /\ ToSet(now \o later) = Waiting
  BY ConcatElements DEF Typed, Waiting
<1>2. DOMAIN (now \o later) = 1 .. Len(now \o later)
  BY <1>1
<1>q. QED  BY <1>1, <1>2, InElements DEF Pending

\* An event that is handled is gone or deferred; the others stay.
Handled ==
    /\ now' \in Seq(Events) /\ later' \in Seq(Events)
    /\ Head(now) \in Waiting
    /\ Waiting' \subseteq Waiting /\ Waiting \subseteq Waiting' \cup {Head(now)}
    /\ later' = later \/ ToSet(later') = ToSet(later) \cup {Head(now)}

LEMMA HandledOnce ==
    ASSUME Typed, now # <<>>, Done \/ Defer
    PROVE  Handled
<1>1. /\ Head(now) \in Events /\ Tail(now) \in Seq(Events)
      /\ ToSet(now) = ToSet(Tail(now)) \cup {Head(now)}
  BY TailElements DEF Typed
<1>2. CASE Done
  BY <1>1, <1>2 DEF Done, Handled, Waiting, Typed
<1>3. CASE Defer
  <2>1. later' \in Seq(Events) /\ ToSet(later') = ToSet(later) \cup {Head(now)}
    BY <1>1, <1>3, AppendElements DEF Defer, Typed
  <2>q. QED  BY <1>1, <1>3, <2>1 DEF Defer, Handled, Waiting
<1>q. QED  BY <1>2, <1>3

LEMMA DeferredKept ==
    ASSUME Typed, now # <<>>, Defer
    PROVE  Waiting' = Waiting
<1>1. /\ Head(now) \in Events /\ Tail(now) \in Seq(Events)
      /\ ToSet(now) = ToSet(Tail(now)) \cup {Head(now)}
  BY TailElements DEF Typed
<1>2. ToSet(later') = ToSet(later) \cup {Head(now)}
  BY <1>1, AppendElements DEF Defer, Typed
<1>q. QED  BY <1>1, <1>2 DEF Defer, Waiting

LEMMA BegunOnce ==
    ASSUME Typed, NEW e \in due, Begin(e)
    PROVE  /\ now' \in Seq(Events) /\ later' \in Seq(Events)
           /\ Waiting' = Waiting \cup {e} /\ ToSet(later') = {} /\ ToSet(now) = {}
<1>1. ToSet(<<>>) = {} /\ <<>> \in Seq(Events)
  BY DEF ToSet
<1>2. now' \in Seq(Events) /\ ToSet(now') = ToSet(later) \cup {e}
  BY AppendElements DEF Begin, Typed
<1>q. QED  BY <1>1, <1>2 DEF Begin, Waiting

LEMMA BegunOthers ==
    ASSUME Typed, BeginOther
    PROVE  /\ now' \in Seq(Events) /\ later' \in Seq(Events)
           /\ Waiting' = Waiting /\ ToSet(later') = {} /\ ToSet(now) = {}
<1>1. ToSet(<<>>) = {} /\ <<>> \in Seq(Events)
  BY DEF ToSet
<1>q. QED  BY <1>1 DEF BeginOther, Waiting, Typed

\* The certificates that answer a request are requests of the unit.
LEMMA AnswersAreRequests ==
    ASSUME Typed, NEW mine \in Answers
    PROVE  mine \in Seq(Requests) /\ ToSet(mine) \subseteq bag
<1> DEFINE places == {i \in DOMAIN issued : issued[i] \in bag}
<1>1. issued \in Seq(Requests) /\ Len(issued) \in Nat /\ DOMAIN issued = 1 .. Len(issued)
  BY DEF Typed
<1>2. IsFiniteSet(places)
  <2>1. IsFiniteSet(1 .. Len(issued)) /\ places \in SUBSET (1 .. Len(issued))
    BY <1>1, FS_Interval
  <2>q. QED  BY <2>1, FS_Subset
<1>3. Cardinality(places) \in Nat
  BY <1>2, FS_CardinalityType
<1>4. PICK f \in [1 .. Cardinality(places) -> places] : mine = [i \in DOMAIN f |-> issued[f[i]]]
  BY DEF Answers
<1> DEFINE n == Cardinality(places)
<1>5. DOMAIN mine = 1 .. n /\ \A i \in 1 .. n : mine[i] \in bag
  BY <1>4
<1>6. mine = [i \in 1 .. n |-> mine[i]] /\ \A i \in 1 .. n : mine[i] \in Requests
  BY <1>4, <1>5 DEF Typed
<1>7. mine \in Seq(Requests)
  <2>1. n \in Nat
    BY <1>3
  <2>2. mine = [i \in 1 .. n |-> mine[i]] /\ \A i \in 1 .. n : mine[i] \in Requests
    BY <1>6
  <2> HIDE DEF n
  <2>3. mine \in [1 .. n -> Requests]
    BY <2>2
  <2>q. QED  BY <2>1, <2>3
<1>q. QED  BY <1>5, <1>7 DEF ToSet

LEMMA EmittedKinds ==
    ASSUME CertificatesAssumption, Typed, NEW mine \in Answers
    PROVE  /\ Emitted(mine) \in Seq(Events)
           /\ \A e \in ToSet(Emitted(mine)) :
                 e.kind \in {"available", "invalidated"} /\ e.arg \in Requests
<1>1. mine \in Seq(Requests)
  BY AnswersAreRequests
<1>2. MaxRequests \in Nat
  BY DEF CertificatesAssumption
<1>3. /\ DOMAIN Emitted(mine) = 1 .. Len(mine)
      /\ \A i \in 1 .. Len(mine) :
            /\ Emitted(mine)[i] \in Events
            /\ Emitted(mine)[i].kind \in {"available", "invalidated"}
            /\ Emitted(mine)[i].arg \in Requests
  <2>1. DOMAIN Emitted(mine) = 1 .. Len(mine)
    BY <1>1 DEF Emitted
  <2>2. ASSUME NEW i \in 1 .. Len(mine)
        PROVE  /\ Emitted(mine)[i] \in Events
               /\ Emitted(mine)[i].kind \in {"available", "invalidated"}
               /\ Emitted(mine)[i].arg \in Requests
    <3>1. mine[i] \in Requests /\ mine[i] \in 0 .. MaxRequests + 2
      BY <1>1, <1>2 DEF Requests
    <3>2. Emitted(mine)[i] =
            [kind |-> IF mine[i] \in revoked THEN "invalidated" ELSE "available", arg |-> mine[i]]
      BY <1>1 DEF Emitted, E
    <3>q. QED  BY <3>1, <3>2 DEF Events, Kinds
  <2>q. QED  BY <2>1, <2>2
<1>4. Emitted(mine) \in Seq(Events)
  BY <1>1, <1>3 DEF Emitted
<1>q. QED  BY <1>3, <1>4 DEF ToSet

\* The handlers that do not raise events.
Plain ==
    \/ RequestCertificate \/ OnBroken \/ OnCertificateAvailable \/ OnCertificateExpiring
    \/ OnCaAvailable \/ OnCaRemoved \/ OnPebbleReady \/ OnOther \/ PushFails

LEMMA PlainHandled ==
    ASSUME Typed, Plain
    PROVE  /\ Handled /\ due' = due /\ now # <<>>
           /\ Head(now).kind \in {"joined", "key", "changed"} => later' = later
<1>1. CASE RequestCertificate
  BY <1>1, HandledOnce DEF RequestCertificate, Handles, Done
<1>2. CASE OnBroken
  BY <1>2, HandledOnce DEF OnBroken, Handles, DoneOrDeferred
<1>3. CASE OnCertificateAvailable
  BY <1>3, HandledOnce DEF OnCertificateAvailable, Handles, DoneOrDeferred
<1>4. CASE OnCertificateExpiring
  BY <1>4, HandledOnce DEF OnCertificateExpiring, Handles, Done
<1>5. CASE OnCaAvailable
  BY <1>5, HandledOnce DEF OnCaAvailable, Handles, DoneOrDeferred
<1>6. CASE OnCaRemoved
  BY <1>6, HandledOnce DEF OnCaRemoved, Handles, DoneOrDeferred
<1>7. CASE OnPebbleReady
  BY <1>7, HandledOnce DEF OnPebbleReady, Handles
<1>8. CASE OnOther
  BY <1>8, HandledOnce DEF OnOther, Handles
<1>9. CASE PushFails
  BY <1>9, HandledOnce DEF PushFails, Handles
<1>q. QED  BY <1>1, <1>2, <1>3, <1>4, <1>5, <1>6, <1>7, <1>8, <1>9 DEF Plain

\* What raises events of the hook that runs.
LEMMA ChangedRaises ==
    ASSUME CertificatesAssumption, Typed, OnChanged
    PROVE  /\ now' \in Seq(Events) /\ later' = later /\ due' = due
           /\ Head(now) \in Waiting /\ Head(now).kind = "changed"
           /\ Waiting \subseteq Waiting' \cup {Head(now)}
           /\ \A e \in Waiting' \ Waiting :
                 e.kind \in {"available", "invalidated"} /\ e.arg \in Requests
<1>1. PICK mine \in Answers : now' = Emitted(mine) \o Tail(now)
  BY DEF OnChanged
<1>2. /\ Head(now) \in Events /\ Tail(now) \in Seq(Events) /\ Head(now).kind = "changed"
      /\ ToSet(now) = ToSet(Tail(now)) \cup {Head(now)}
  BY TailElements DEF Typed, OnChanged, Handles
<1>3. /\ now' \in Seq(Events)
      /\ ToSet(now') = ToSet(Emitted(mine)) \cup ToSet(Tail(now))
  <2>1. Emitted(mine) \in Seq(Events) /\ Tail(now) \in Seq(Events)
    BY <1>2, EmittedKinds
  <2>2. /\ Emitted(mine) \o Tail(now) \in Seq(Events)
        /\ ToSet(Emitted(mine) \o Tail(now)) = ToSet(Emitted(mine)) \cup ToSet(Tail(now))
    BY <2>1, ConcatElements
  <2>q. QED  BY <1>1, <2>2
<1>q. QED  BY <1>2, <1>3, EmittedKinds DEF Waiting, OnChanged

LEMMA ExpiredRaises ==
    ASSUME CertificatesAssumption, Typed, EventInv, OnSecretExpired
    PROVE  /\ now' \in Seq(Events) /\ later' = later /\ due' = due
           /\ Head(now) \in Waiting /\ Head(now).kind = "expired"
           /\ Waiting \subseteq Waiting' \cup {Head(now)}
           /\ \A e \in Waiting' \ Waiting : e.kind = "invalidated" /\ e.arg \in Requests
<1>1. /\ Head(now) \in Events /\ Tail(now) \in Seq(Events) /\ Head(now).kind = "expired"
      /\ ToSet(now) = ToSet(Tail(now)) \cup {Head(now)}
  BY TailElements DEF Typed, OnSecretExpired, Handles
<1>2. Arg \in Requests
  BY <1>1 DEF EventInv, WellFormed, Waiting, Arg
<1>3. /\ E("invalidated", Arg) \in Events
      /\ E("invalidated", Arg).kind = "invalidated" /\ E("invalidated", Arg).arg = Arg
  BY <1>2 DEF E, Events, Kinds, Requests, CertificatesAssumption
<1>4. CASE now' = <<E("invalidated", Arg)>> \o Tail(now)
  <2>1. /\ <<E("invalidated", Arg)>> \in Seq(Events)
        /\ ToSet(<<E("invalidated", Arg)>>) = {E("invalidated", Arg)}
    BY <1>3 DEF ToSet
  <2>0. \A s, t \in Seq(Events) :
           s \o t \in Seq(Events) /\ ToSet(s \o t) = ToSet(s) \cup ToSet(t)
    BY ConcatElements
  <2>a. \A s \in Seq(Events) :
           /\ s \o Tail(now) \in Seq(Events)
           /\ ToSet(s \o Tail(now)) = ToSet(s) \cup ToSet(Tail(now))
    BY <1>1, <2>0
  <2>2. /\ <<E("invalidated", Arg)>> \o Tail(now) \in Seq(Events)
        /\ ToSet(<<E("invalidated", Arg)>> \o Tail(now)) =
              ToSet(<<E("invalidated", Arg)>>) \cup ToSet(Tail(now))
    BY <2>1, <2>a
  <2>q. QED  BY <1>1, <1>2, <1>3, <1>4, <2>1, <2>2 DEF Waiting, OnSecretExpired
<1>5. CASE now' = Tail(now)
  BY <1>1, <1>5 DEF Waiting, OnSecretExpired
<1>q. QED  BY <1>4, <1>5 DEF OnSecretExpired

\* What makes Juju or the provider have hooks to run.
Outside ==
    \/ OnProviderChanged \/ (\E c \in bag : SetRelationCertificate(c)) \/ RevokeAll
    \/ ContainerRestarts \/ ContainerBack \/ MemberStarts \/ MemberStumbles
    \/ Relate \/ RemoveRelation \/ SetTlsPrivateKey \/ OtherHook
    \/ \E c \in labels : Ages(c, "expiring") \/ Ages(c, "expired")
    \/ (\E a \in 1 .. 2 : SetCa(a)) \/ RemoveCa

LEMMA Steps ==
    Next <=> \/ \E e \in due : Begin(e)
             \/ BeginOther \/ Plain \/ OnChanged \/ OnSecretExpired \/ AvailableDies \/ Outside
  BY DEF Next, Plain, Outside, Handle

LEMMA EventOf ==
    ASSUME CertificatesAssumption, NEW k \in Kinds, NEW a \in 0 .. MaxRequests + 2
    PROVE  E(k, a) \in Events /\ E(k, a).kind = k /\ E(k, a).arg = a
  BY DEF E, Events

\* The hooks that are added are well formed, and the running one is left alone.
HooksAdded ==
    /\ now' = now /\ later' = later /\ due' \subseteq Events
    /\ \A e \in due' \ due : WellFormed(e) /\ e.kind # "available"

LEMMA PlainHookAdded ==
    ASSUME CertificatesAssumption, Typed, NEW k \in Kinds \ {"available", "invalidated", "expired", "ca"},
           due' \subseteq due \cup {E(k, 0)}, now' = now, later' = later
    PROVE  HooksAdded
<1>1. MaxRequests \in Nat /\ due \subseteq Events
  BY DEF CertificatesAssumption, Typed
<1>2. k \in Kinds /\ 0 \in 0 .. MaxRequests + 2
  BY <1>1
<1>3. E(k, 0) \in Events /\ E(k, 0).kind = k /\ E(k, 0).arg = 0
  BY <1>2, EventOf
<1>q. QED  BY <1>1, <1>3 DEF WellFormed, HooksAdded

LEMMA OutsideDue ==
    ASSUME CertificatesAssumption, Typed, Outside
    PROVE  HooksAdded
<1>0. MaxRequests \in Nat /\ due \subseteq Events /\ labels \subseteq Requests
  BY DEF CertificatesAssumption, Typed
<1>a. ASSUME NEW k \in {"changed", "pebble", "joined", "broken", "key", "other", "ca removed"},
             due' \subseteq due \cup {E(k, 0)}, now' = now, later' = later
      PROVE  HooksAdded
  <2>1. k \in Kinds \ {"available", "invalidated", "expired", "ca"}
    BY DEF Kinds
  <2>q. QED  BY <1>a, <2>1, PlainHookAdded
<1>b. ASSUME due' = due, now' = now, later' = later
      PROVE  HooksAdded
  BY <1>0, <1>b DEF HooksAdded
<1>1. CASE OnProviderChanged
  <2>1. due' \subseteq due \cup {E("changed", 0)} /\ now' = now /\ later' = later
    BY <1>1 DEF OnProviderChanged, Told
  <2>q. QED  BY <1>a, <2>1
<1>2. CASE \E c \in bag : SetRelationCertificate(c)
  <2>1. due' \subseteq due \cup {E("changed", 0)} /\ now' = now /\ later' = later
    BY <1>2 DEF SetRelationCertificate, Told
  <2>q. QED  BY <1>a, <2>1
<1>3. CASE RevokeAll
  <2>1. due' \subseteq due \cup {E("changed", 0)} /\ now' = now /\ later' = later
    BY <1>3 DEF RevokeAll, Told
  <2>q. QED  BY <1>a, <2>1
<1>4. CASE ContainerRestarts \/ MemberStarts \/ MemberStumbles
  <2>1. due' = due /\ now' = now /\ later' = later
    BY <1>4 DEF ContainerRestarts, MemberStarts, MemberStumbles
  <2>q. QED  BY <1>b, <2>1
<1>4a. CASE ContainerBack
  <2>1. due' \subseteq due \cup {E("pebble", 0)} /\ now' = now /\ later' = later
    BY <1>4a DEF ContainerBack
  <2>q. QED  BY <1>a, <2>1
<1>5. CASE Relate
  <2>1. due' \subseteq due \cup {E("joined", 0)} /\ now' = now /\ later' = later
    BY <1>5 DEF Relate
  <2>q. QED  BY <1>a, <2>1
<1>6. CASE RemoveRelation
  <2>1. due' \subseteq due \cup {E("broken", 0)} /\ now' = now /\ later' = later
    BY <1>6 DEF RemoveRelation
  <2>q. QED  BY <1>a, <2>1
<1>7. CASE SetTlsPrivateKey
  <2>1. due' \subseteq due \cup {E("key", 0)} /\ now' = now /\ later' = later
    BY <1>7 DEF SetTlsPrivateKey
  <2>q. QED  BY <1>a, <2>1
<1>7a. CASE OtherHook
  <2>1. due' \subseteq due \cup {E("other", 0)} /\ now' = now /\ later' = later
    BY <1>7a DEF OtherHook
  <2>q. QED  BY <1>a, <2>1
<1>8. CASE \E c \in labels : Ages(c, "expiring") \/ Ages(c, "expired")
  <2>1. PICK c \in labels : due' = due \cup {E("expired", c)} /\ now' = now /\ later' = later
    BY <1>8 DEF Ages
  <2>2. c \in Requests /\ c \in 0 .. MaxRequests + 2 /\ "expired" \in Kinds
    BY <1>0 DEF Requests, Kinds
  <2>3. /\ E("expired", c) \in Events /\ E("expired", c).kind = "expired"
        /\ E("expired", c).arg = c
    BY <2>2, EventOf
  <2>q. QED  BY <1>0, <2>1, <2>2, <2>3 DEF WellFormed, HooksAdded
<1>9. CASE \E a \in 1 .. 2 : SetCa(a)
  <2>1. PICK a \in 1 .. 2 : /\ due' = {e \in due : e.kind # "ca"} \cup {E("ca", a)}
                            /\ now' = now /\ later' = later
    BY <1>9 DEF SetCa
  <2>2. a \in 0 .. MaxRequests + 2 /\ "ca" \in Kinds
    BY <1>0 DEF Kinds
  <2>3. E("ca", a) \in Events /\ E("ca", a).kind = "ca" /\ E("ca", a).arg = a
    BY <2>2, EventOf
  <2>q. QED  BY <1>0, <2>1, <2>3 DEF WellFormed, HooksAdded
<1>10. CASE RemoveCa
  <2>1. due' \subseteq due \cup {E("ca removed", 0)} /\ now' = now /\ later' = later
    BY <1>10 DEF RemoveCa
  <2>q. QED  BY <1>a, <2>1
<1>q. QED
  BY <1>1, <1>2, <1>3, <1>4, <1>4a, <1>5, <1>6, <1>7, <1>7a, <1>8, <1>9, <1>10 DEF Outside

LEMMA EventsKept ==
    ASSUME CertificatesAssumption, Typed, EventInv, Next
    PROVE  EventInv' /\ now' \in Seq(Events) /\ later' \in Seq(Events) /\ due' \subseteq Events
<1>0. due \subseteq Events /\ later \in Seq(Events) /\ now \in Seq(Events)
  BY DEF Typed
<1>1. CASE \E e \in due : Begin(e)
  <2>1. PICK e \in due : Begin(e)
    BY <1>1
  <2>2. due' = due \ {e}
    BY <2>1 DEF Begin
  <2>q. QED  BY <1>0, <2>1, <2>2, BegunOnce DEF EventInv, Due
<1>2. CASE BeginOther
  <2>1. due' = due
    BY <1>2 DEF BeginOther
  <2>q. QED  BY <1>0, <1>2, <2>1, BegunOthers DEF EventInv, Due
<1>3. CASE Plain
  <2>1. /\ Handled /\ due' = due
        /\ Head(now).kind \in {"joined", "key", "changed"} => later' = later
    BY <1>3, PlainHandled
  <2>q. QED  BY <1>0, <2>1 DEF EventInv, Due, Handled
<1>4. CASE OnChanged
  BY <1>0, <1>4, ChangedRaises DEF EventInv, Due, WellFormed
<1>5. CASE OnSecretExpired
  BY <1>0, <1>5, ExpiredRaises DEF EventInv, Due, WellFormed
<1>6. CASE AvailableDies
  BY <1>0, <1>6 DEF AvailableDies, EventInv, Due, Waiting
<1>7. CASE Outside
  <2>1. Waiting' = Waiting
    BY <1>7, OutsideDue DEF Waiting, HooksAdded
  <2>q. QED  BY <1>0, <1>7, <2>1, OutsideDue DEF EventInv, Due, HooksAdded
<1>q. QED  BY <1>1, <1>2, <1>3, <1>4, <1>5, <1>6, <1>7, Steps

-----------------------------------------------------------------------------
(* What the steps do to the variables of the unit. *)

\* Hooks that begin and events that are raised.
Queues == (\E e \in due : Begin(e)) \/ BeginOther \/ OnChanged \/ OnSecretExpired

LEMMA QueuesFrame ==
    ASSUME Queues
    PROVE  UNCHANGED <<related, remote, request, cert, aged, ended, files, server, workload,
                       transfer, incidents>>
<1>1. CASE \E e \in due : Begin(e)
  BY <1>1 DEF Begin
<1>2. CASE BeginOther
  BY <1>2 DEF BeginOther
<1>3. CASE OnChanged
  BY <1>3 DEF OnChanged
<1>4. CASE OnSecretExpired
  BY <1>4 DEF OnSecretExpired
<1>q. QED  BY <1>1, <1>2, <1>3, <1>4 DEF Queues

LEMMA OutsideFrame ==
    ASSUME Outside
    PROVE  UNCHANGED <<made, keyOf, key, csr, cert, files, conf, flag, told, caSecret, now, later>>
<1>1. CASE OnProviderChanged
  BY <1>1 DEF OnProviderChanged
<1>2. CASE \E c \in bag : SetRelationCertificate(c)
  BY <1>2 DEF SetRelationCertificate
<1>3. CASE RevokeAll
  BY <1>3 DEF RevokeAll
<1>4. CASE ContainerRestarts
  BY <1>4 DEF ContainerRestarts
<1>5. CASE ContainerBack
  BY <1>5 DEF ContainerBack
<1>6. CASE MemberStarts
  BY <1>6 DEF MemberStarts
<1>7. CASE MemberStumbles
  BY <1>7 DEF MemberStumbles
<1>8. CASE Relate
  BY <1>8 DEF Relate
<1>9. CASE RemoveRelation
  BY <1>9 DEF RemoveRelation
<1>10. CASE SetTlsPrivateKey
  BY <1>10 DEF SetTlsPrivateKey
<1>11. CASE OtherHook
  BY <1>11 DEF OtherHook
<1>12. CASE \E c \in labels : Ages(c, "expiring") \/ Ages(c, "expired")
  BY <1>12 DEF Ages
<1>13. CASE \E a \in 1 .. 2 : SetCa(a)
  BY <1>13 DEF SetCa
<1>14. CASE RemoveCa
  BY <1>14 DEF RemoveCa
<1>q. QED
  BY <1>1, <1>2, <1>3, <1>4, <1>5, <1>6, <1>7, <1>8, <1>9, <1>10, <1>11, <1>12, <1>13, <1>14
     DEF Outside

\* A request is made for a new key, or for the same one in place of the certificate's.
RequestMade ==
    /\ made < MaxRequests
    /\ made' = New /\ keyOf' = [keyOf EXCEPT ![New] = key'] /\ csr' = New
    /\ \/ key' = New /\ (Handles("key") \/ Handles("joined"))
       \/ key' = key /\ Handles("invalidated") /\ Arg = cert

LEMMA RequestSteps ==
    ASSUME Next
    PROVE  \/ UNCHANGED <<made, keyOf, key, csr>>
           \/ RequestMade /\ UNCHANGED <<cert, files, server, workload>>
<1>1. CASE RequestCertificate
  BY <1>1 DEF RequestCertificate, Requested, Saved, RequestMade
<1>2. CASE OnCertificateExpiring
  BY <1>2 DEF OnCertificateExpiring, Requested, Saved, RequestMade, KeptOnExpiry
<1>3. CASE OnBroken \/ OnCertificateAvailable \/ OnCaAvailable \/ OnCaRemoved
  BY <1>3 DEF OnBroken, OnCertificateAvailable, OnCaAvailable, OnCaRemoved
<1>4. CASE OnPebbleReady \/ OnOther \/ PushFails \/ AvailableDies
  BY <1>4 DEF OnPebbleReady, OnOther, PushFails, AvailableDies
<1>5. CASE Queues
  BY <1>5, QueuesFrame
<1>6. CASE Outside
  BY <1>6, OutsideFrame
<1>q. QED  BY <1>1, <1>2, <1>3, <1>4, <1>5, <1>6, Steps DEF Plain, Queues

\* The certificate goes with the relation, and comes with the event that carries it.
LEMMA CertSteps ==
    ASSUME Next
    PROVE  \/ cert' = cert
           \/ OnBroken /\ cert' = 0
           \/ (OnCertificateAvailable \/ PushFails) /\ Arg = csr /\ cert' = csr
<1>1. CASE RequestCertificate \/ OnCertificateExpiring
  BY <1>1 DEF RequestCertificate, OnCertificateExpiring, KeptOnExpiry
<1>2. CASE OnBroken
  BY <1>2 DEF OnBroken, Cleared
<1>3. CASE OnCertificateAvailable
  BY <1>3 DEF OnCertificateAvailable, Known
<1>4. CASE OnCaAvailable \/ OnCaRemoved \/ OnPebbleReady \/ OnOther
  BY <1>4 DEF OnCaAvailable, OnCaRemoved, OnPebbleReady, OnOther
<1>5. CASE PushFails
  BY <1>5 DEF PushFails, Known
<1>6. CASE AvailableDies
  BY <1>6 DEF AvailableDies
<1>7. CASE Queues
  BY <1>7, QueuesFrame
<1>8. CASE Outside
  BY <1>8, OutsideFrame
<1>q. QED  BY <1>1, <1>2, <1>3, <1>4, <1>5, <1>6, <1>7, <1>8, Steps DEF Plain, Queues

\* The files are those of the request in use, when its certificate comes; or what the unit has.
FilesOf(c) == keyFile' = key /\ certFile' = IF c # 0 THEN c ELSE certFile

LEMMA FileSteps ==
    ASSUME Next
    PROVE  \/ UNCHANGED files
           \/ (OnCertificateAvailable \/ AvailableDies) /\ Arg = csr /\ FilesOf(csr)
           \/ PushFails /\ keyFile' = key /\ certFile' = certFile
           \/ OnPebbleReady /\ key # 0 /\ FilesOf(cert)
<1>1. CASE RequestCertificate \/ OnCertificateExpiring
  BY <1>1 DEF RequestCertificate, OnCertificateExpiring
<1>2. CASE OnBroken \/ OnCaAvailable \/ OnCaRemoved \/ OnOther
  BY <1>2 DEF OnBroken, OnCaAvailable, OnCaRemoved, OnOther
<1>3. CASE OnCertificateAvailable
  BY <1>3 DEF OnCertificateAvailable, Known, Pushed, FilesOf
<1>4. CASE OnPebbleReady
  BY <1>4 DEF OnPebbleReady, Pushed, FilesOf
<1>5. CASE PushFails
  BY <1>5 DEF PushFails
<1>6. CASE AvailableDies
  BY <1>6 DEF AvailableDies, Known, Pushed, FilesOf
<1>7. CASE Queues
  BY <1>7, QueuesFrame
<1>8. CASE Outside
  BY <1>8, OutsideFrame
<1>q. QED  BY <1>1, <1>2, <1>3, <1>4, <1>5, <1>6, <1>7, <1>8, Steps DEF Plain, Queues

\* What an update of the configuration for a certificate does, whatever of it fails.
Config(c) ==
    /\ workload # "down"
    /\ conf' = IsTlsEnabled(key, c)
    /\ flag' = flag \/ flag' = conf'
    /\ told' = told \/ told' = conf'
    /\ \/ serving' = serving
       \/ workload # "ready" /\ ~conf' /\ serving' = 0
       \/ workload # "ready" /\ conf' /\ Pair(keyFile', certFile') /\ serving' = certFile'

LEMMA Updating ==
    ASSUME NEW c, UpdateConfig(c) \/ PatchFails(c)
    PROVE  /\ Config(c)
           /\ Updated => flag' = conf' /\ (workload # "ready" /\ ~conf' => serving' = 0)
<1>1. CASE UpdateConfig(c)
  BY <1>1 DEF UpdateConfig, Config, Flagged, Reloaded, MemberStarted, Updated
<1>2. CASE PatchFails(c)
  BY <1>2 DEF PatchFails, Config, Updated, MemberStarted
<1>q. QED  BY <1>1, <1>2

LEMMA ServerSteps ==
    ASSUME Next
    PROVE  \/ UNCHANGED server
           \/ Config(cert') /\ Plain /\ ~PushFails
           \/ AvailableDies /\ Known(Arg) /\ Config(Arg) /\ UNCHANGED <<flag, told>>
           \/ (PushFails \/ ContainerRestarts) /\ serving' = 0 /\ UNCHANGED <<conf, flag, told>>
           \/ MemberStarts /\ UNCHANGED <<conf, flag, told>>
<1>1. CASE RequestCertificate \/ OnCertificateExpiring
  BY <1>1 DEF RequestCertificate, OnCertificateExpiring
<1>2. CASE OnBroken
  BY <1>2, Updating DEF OnBroken, DoneOrDeferred, Plain, PushFails, Handles
<1>3. CASE OnCertificateAvailable /\ ~PushFails
  BY <1>3, Updating DEF OnCertificateAvailable, DoneOrDeferred, Plain
<1>4. CASE OnCaAvailable
  BY <1>4, Updating DEF OnCaAvailable, DoneOrDeferred, Plain, PushFails, Handles
<1>5. CASE OnCaRemoved
  BY <1>5, Updating DEF OnCaRemoved, DoneOrDeferred, Plain, PushFails, Handles
<1>6. CASE OnOther
  BY <1>6, Updating DEF OnOther, Plain, PushFails, Handles
<1>7. CASE OnPebbleReady
  <2>1. Plain /\ ~PushFails /\ cert' = cert
    BY <1>7 DEF OnPebbleReady, Plain, PushFails, Handles
  <2>2. CASE workload = "down"
    BY <1>7, <2>2 DEF OnPebbleReady
  <2>3. CASE workload = "up"
    BY <1>7, <2>1, <2>3 DEF OnPebbleReady, Config, Reloaded
  <2>4. CASE workload \notin {"down", "up"}
    BY <1>7, <2>1, <2>4, Updating DEF OnPebbleReady
  <2>q. QED  BY <2>2, <2>3, <2>4
<1>8. CASE PushFails
  BY <1>8 DEF PushFails
<1>9. CASE AvailableDies
  BY <1>9 DEF AvailableDies, Config, Reloaded
<1>10. CASE Queues
  BY <1>10, QueuesFrame
<1>11. CASE Outside
  <2>1. UNCHANGED <<conf, flag, told>>
    BY <1>11, OutsideFrame
  <2>2. CASE ContainerRestarts \/ MemberStarts
    BY <2>1, <2>2 DEF ContainerRestarts
  <2>3. CASE ~ContainerRestarts /\ ~MemberStarts
    <3>1. serving' = serving
      BY <1>11, <2>3
         DEF Outside, OnProviderChanged, SetRelationCertificate, RevokeAll, ContainerBack,
             MemberStumbles, Relate, RemoveRelation, SetTlsPrivateKey, OtherHook, Ages, SetCa,
             RemoveCa
    <3>q. QED  BY <2>1, <3>1
  <2>q. QED  BY <2>2, <2>3
<1>q. QED
  BY <1>1, <1>2, <1>3, <1>4, <1>5, <1>6, <1>7, <1>8, <1>9, <1>10, <1>11, Steps DEF Plain, Queues

-----------------------------------------------------------------------------
(* Types. *)

RelationTypes ==
    /\ related \in {"none", "joined", "removed"} /\ bag \subseteq Requests
    /\ issued \in Seq(Requests) /\ revoked \subseteq Requests /\ asked \in BOOLEAN

LEMMA RelationTypesKept ==
    ASSUME CertificatesAssumption, Typed, Next
    PROVE  RelationTypes'
<1>0. RelationTypes /\ MaxRequests \in Nat /\ made \in 0 .. MaxRequests
  BY DEF Typed, RelationTypes, CertificatesAssumption
<1>1. CASE RequestCertificate \/ OnCertificateExpiring
  <2>1. \/ UNCHANGED <<bag, asked>>
        \/ made < MaxRequests /\ asked' = TRUE /\ bag' \subseteq bag \cup {New}
    BY <1>1 DEF RequestCertificate, OnCertificateExpiring, Requested
  <2>2. made < MaxRequests => New \in Requests
    BY <1>0 DEF New, Requests
  <2>3. UNCHANGED <<related, issued, revoked>>
    BY <1>1 DEF RequestCertificate, OnCertificateExpiring
  <2>q. QED  BY <1>0, <2>1, <2>2, <2>3 DEF RelationTypes
<1>2. CASE OnBroken \/ OnCertificateAvailable \/ OnCaAvailable \/ OnCaRemoved
  BY <1>0, <1>2 DEF OnBroken, OnCertificateAvailable, OnCaAvailable, OnCaRemoved, RelationTypes
<1>3. CASE OnPebbleReady \/ OnOther \/ PushFails \/ AvailableDies
  BY <1>0, <1>3 DEF OnPebbleReady, OnOther, PushFails, AvailableDies, RelationTypes
<1>4. CASE Queues
  BY <1>0, <1>4, QueuesFrame DEF RelationTypes
<1>5. CASE OnProviderChanged
  <2>1. issued' \in Seq(Requests)
    BY <1>5, AnswersAreRequests DEF OnProviderChanged
  <2>q. QED  BY <1>0, <1>5, <2>1 DEF OnProviderChanged, RelationTypes
<1>6. CASE \E c \in bag : SetRelationCertificate(c)
  <2>1. PICK c \in bag : SetRelationCertificate(c)
    BY <1>6
  <2>2. c \in Requests
    BY <1>0 DEF RelationTypes
  <2>3. issued' \in Seq(Requests)
    BY <1>0, <2>1, <2>2, AppendElements DEF SetRelationCertificate, RelationTypes
  <2>q. QED  BY <1>0, <2>1, <2>3 DEF SetRelationCertificate, RelationTypes
<1>7. CASE RevokeAll
  <2>1. ToSet(issued) \subseteq Requests
    BY <1>0 DEF ToSet, RelationTypes
  <2>q. QED  BY <1>0, <1>7, <2>1 DEF RevokeAll, RelationTypes
<1>8. CASE ContainerRestarts \/ ContainerBack \/ MemberStarts \/ MemberStumbles
  BY <1>0, <1>8 DEF ContainerRestarts, ContainerBack, MemberStarts, MemberStumbles, RelationTypes
<1>9. CASE Relate
  <2>1. <<>> \in Seq(Requests)
    OBVIOUS
  <2>q. QED  BY <1>9, <2>1 DEF Relate, RelationTypes
<1>10. CASE RemoveRelation
  BY <1>0, <1>10 DEF RemoveRelation, RelationTypes
<1>11. CASE SetTlsPrivateKey \/ OtherHook \/ RemoveCa
  BY <1>0, <1>11 DEF SetTlsPrivateKey, OtherHook, RemoveCa, RelationTypes
<1>12. CASE \E c \in labels : Ages(c, "expiring") \/ Ages(c, "expired")
  BY <1>0, <1>12 DEF Ages, RelationTypes
<1>13. CASE \E a \in 1 .. 2 : SetCa(a)
  BY <1>0, <1>13 DEF SetCa, RelationTypes
<1>q. QED
  BY <1>1, <1>2, <1>3, <1>4, <1>5, <1>6, <1>7, <1>8, <1>9, <1>10, <1>11, <1>12, <1>13, Steps
     DEF Plain, Queues, Outside

UnitTypes ==
    /\ made \in 0 .. MaxRequests /\ keyOf \in [Requests -> 0 .. MaxRequests]
    /\ {key, csr, cert, keyFile, certFile, serving} \subseteq 0 .. MaxRequests
    /\ conf \in BOOLEAN /\ flag \in BOOLEAN /\ told \in BOOLEAN

LEMMA UnitTypesKept ==
    ASSUME CertificatesAssumption, Typed, EventInv, Next
    PROVE  UnitTypes'
<1>0. UnitTypes /\ MaxRequests \in Nat
  BY DEF Typed, UnitTypes, CertificatesAssumption
<1>1. /\ made' \in 0 .. MaxRequests /\ keyOf' \in [Requests -> 0 .. MaxRequests]
      /\ key' \in 0 .. MaxRequests /\ csr' \in 0 .. MaxRequests
  <2>1. CASE UNCHANGED <<made, keyOf, key, csr>>
    BY <1>0, <2>1 DEF UnitTypes
  <2>2. CASE RequestMade
    <3>1. New \in 1 .. MaxRequests /\ made' = New /\ csr' = New /\ key' \in 0 .. MaxRequests
      BY <1>0, <2>2 DEF RequestMade, New, UnitTypes
    <3>q. QED  BY <1>0, <2>2, <3>1 DEF RequestMade, UnitTypes, Requests
  <2>q. QED  BY <2>1, <2>2, RequestSteps
<1>2. cert' \in 0 .. MaxRequests
  BY <1>0, CertSteps DEF UnitTypes
<1>3. keyFile' \in 0 .. MaxRequests /\ certFile' \in 0 .. MaxRequests
  BY <1>0, FileSteps DEF UnitTypes, FilesOf
<1>4. serving' \in 0 .. MaxRequests /\ {conf', flag', told'} \subseteq BOOLEAN
  <2>1. CASE UNCHANGED server
    BY <1>0, <2>1 DEF UnitTypes
  <2>2. ASSUME NEW c, Config(c)
        PROVE  serving' \in 0 .. MaxRequests /\ {conf', flag', told'} \subseteq BOOLEAN
    <3>1. serving' \in 0 .. MaxRequests
      <4>1. serving \in 0 .. MaxRequests /\ 0 \in 0 .. MaxRequests
        BY <1>0 DEF UnitTypes
      <4>q. QED  BY <1>3, <2>2, <4>1 DEF Config
    <3>2. conf' \in BOOLEAN
      BY <2>2 DEF Config, IsTlsEnabled
    <3>3. flag \in BOOLEAN /\ told \in BOOLEAN
      BY <1>0 DEF UnitTypes
    <3>q. QED  BY <2>2, <3>1, <3>2, <3>3 DEF Config
  <2>3. CASE (PushFails \/ ContainerRestarts) /\ serving' = 0 /\ UNCHANGED <<conf, flag, told>>
    BY <1>0, <2>3 DEF UnitTypes
  <2>4. CASE MemberStarts /\ UNCHANGED <<conf, flag, told>>
    BY <1>0, <2>4 DEF UnitTypes, MemberStarts
  <2>q. QED  BY <2>1, <2>2, <2>3, <2>4, ServerSteps
<1>q. QED  BY <1>1, <1>2, <1>3, <1>4 DEF UnitTypes

OtherTypes ==
    /\ labels \subseteq Requests /\ aged \subseteq Requests /\ ended \subseteq aged
    /\ workload \in {"down", "ready", "starting", "up"}
    /\ {caBag, caSecret, caFile} \subseteq 0 .. 2 /\ caRelated \in BOOLEAN
    /\ incidents \subseteq Incidents

LEMMA OtherTypesKept ==
    ASSUME CertificatesAssumption, Typed, EventInv, Next
    PROVE  OtherTypes'
<1>0. OtherTypes /\ bag \subseteq Requests
  BY DEF Typed, OtherTypes
<1>a. ASSUME NEW i \in Incidents, Incident(i)
      PROVE  incidents' \subseteq Incidents
  BY <1>0, <1>a DEF Incident, OtherTypes
<1>b. {"key", "again", "removed", "revoked", "expiring", "expired", "restart", "stumble", "died",
       "new ca", "other"} \subseteq Incidents
  BY DEF Incidents
<1>c. {caBag, caSecret, caFile} \subseteq 0 .. 2 /\ 0 \in 0 .. 2 /\ 1 .. 2 \subseteq 0 .. 2
  BY <1>0 DEF OtherTypes
<1>1. CASE RequestCertificate \/ OnCertificateExpiring \/ OnBroken \/ OnCertificateAvailable
  BY <1>0, <1>1
     DEF RequestCertificate, OnCertificateExpiring, OnBroken, OnCertificateAvailable, OtherTypes
<1>2. CASE OnCaAvailable
  <2>1. Arg \in 0 .. 2
    <3>1. Head(now) \in Waiting /\ Head(now).kind = "ca"
      BY <1>2, PlainHandled DEF OnCaAvailable, Handles, Plain, Handled
    <3>q. QED  BY <3>1 DEF EventInv, WellFormed, Arg
  <2>q. QED  BY <1>0, <1>2, <2>1 DEF OnCaAvailable, OtherTypes
<1>3. CASE OnCaRemoved
  <2>1. /\ caSecret' \in {caSecret, 0} /\ caFile' \in {caFile, 0} /\ caBag' = caBag
        /\ caRelated' = FALSE /\ UNCHANGED <<labels, aged, ended, workload, incidents>>
    BY <1>3 DEF OnCaRemoved
  <2>2. {caBag', caSecret', caFile'} \subseteq 0 .. 2
    BY <1>c, <2>1
  <2>q. QED  BY <1>0, <2>1, <2>2 DEF OtherTypes
<1>4. CASE OnPebbleReady
  BY <1>0, <1>4 DEF OnPebbleReady, CaPushed, OtherTypes
<1>5. CASE OnOther
  BY <1>0, <1>5 DEF OnOther, OtherTypes
<1>6. CASE PushFails
  <2>1. /\ workload' = "down" /\ caFile' = 0
        /\ UNCHANGED <<labels, aged, ended, caBag, caSecret, caRelated>>
    BY <1>6 DEF PushFails
  <2>2. incidents' \subseteq Incidents
    BY <1>6, <1>a, <1>b DEF PushFails
  <2>3. {caBag', caSecret', caFile'} \subseteq 0 .. 2
    BY <1>c, <2>1
  <2>q. QED  BY <1>0, <2>1, <2>2, <2>3 DEF OtherTypes
<1>7. CASE AvailableDies
  BY <1>0, <1>7, <1>a, <1>b DEF AvailableDies, OtherTypes
<1>8. CASE (\E e \in due : Begin(e)) \/ BeginOther
  BY <1>0, <1>8 DEF Begin, BeginOther, OtherTypes
<1>9. CASE OnChanged
  <2>1. labels' \subseteq Requests
    BY <1>0, <1>9, AnswersAreRequests DEF OnChanged, OtherTypes
  <2>q. QED  BY <1>0, <1>9, <2>1 DEF OnChanged, OtherTypes
<1>10. CASE OnSecretExpired
  <2>1. labels' \subseteq labels
    BY <1>10 DEF OnSecretExpired
  <2>q. QED  BY <1>0, <1>10, <2>1 DEF OnSecretExpired, OtherTypes
<1>11. CASE OnProviderChanged \/ (\E c \in bag : SetRelationCertificate(c))
  BY <1>0, <1>11 DEF OnProviderChanged, SetRelationCertificate, OtherTypes
<1>12. CASE RevokeAll
  BY <1>0, <1>12, <1>a, <1>b DEF RevokeAll, OtherTypes
<1>13. CASE ContainerRestarts
  <2>1. /\ workload' = "down" /\ caFile' = 0
        /\ UNCHANGED <<labels, aged, ended, caBag, caSecret, caRelated>>
    BY <1>13 DEF ContainerRestarts
  <2>2. incidents' \subseteq Incidents
    BY <1>13, <1>a, <1>b DEF ContainerRestarts
  <2>3. {caBag', caSecret', caFile'} \subseteq 0 .. 2
    BY <1>c, <2>1
  <2>q. QED  BY <1>0, <2>1, <2>2, <2>3 DEF OtherTypes
<1>14. CASE ContainerBack \/ MemberStarts
  BY <1>0, <1>14 DEF ContainerBack, MemberStarts, OtherTypes
<1>15. CASE MemberStumbles
  BY <1>0, <1>15, <1>a, <1>b DEF MemberStumbles, OtherTypes
<1>16. CASE Relate
  BY <1>0, <1>16, <1>a, <1>b DEF Relate, OtherTypes
<1>17. CASE RemoveRelation
  BY <1>0, <1>17, <1>a, <1>b DEF RemoveRelation, OtherTypes
<1>18. CASE SetTlsPrivateKey
  BY <1>0, <1>18, <1>a, <1>b DEF SetTlsPrivateKey, OtherTypes
<1>19. CASE OtherHook
  BY <1>0, <1>19, <1>a, <1>b DEF OtherHook, OtherTypes
<1>20. CASE \E c \in labels : Ages(c, "expiring") \/ Ages(c, "expired")
  <2>1. PICK c \in labels, i \in {"expiring", "expired"} : Ages(c, i)
    BY <1>20
  <2>2. incidents' \subseteq Incidents
    BY <1>a, <1>b, <2>1 DEF Ages
  <2>3. aged' \subseteq Requests /\ ended' \subseteq aged'
    BY <1>0, <2>1 DEF Ages, OtherTypes
  <2>4. UNCHANGED <<labels, workload, transfer>>
    BY <2>1 DEF Ages
  <2>q. QED  BY <1>0, <2>2, <2>3, <2>4 DEF OtherTypes
<1>21. CASE \E a \in 1 .. 2 : SetCa(a)
  <2>1. /\ caBag' \in 1 .. 2 /\ caRelated' \in {caRelated, TRUE}
        /\ UNCHANGED <<labels, aged, ended, workload, caSecret, caFile>>
    BY <1>21 DEF SetCa
  <2>2. incidents' \subseteq Incidents
    BY <1>0, <1>21, <1>a, <1>b DEF SetCa, OtherTypes
  <2>3. {caBag', caSecret', caFile'} \subseteq 0 .. 2
    BY <1>c, <2>1
  <2>4. caRelated' \in BOOLEAN
    BY <1>0, <2>1 DEF OtherTypes
  <2>q. QED  BY <1>0, <2>1, <2>2, <2>3, <2>4 DEF OtherTypes
<1>22. CASE RemoveCa
  <2>1. caBag' = 0 /\ UNCHANGED <<labels, aged, ended, workload, caSecret, caFile, caRelated>>
    BY <1>22 DEF RemoveCa
  <2>2. incidents' \subseteq Incidents
    BY <1>22, <1>a, <1>b DEF RemoveCa
  <2>3. {caBag', caSecret', caFile'} \subseteq 0 .. 2
    BY <1>c, <2>1
  <2>q. QED  BY <1>0, <2>1, <2>2, <2>3 DEF OtherTypes
<1>q. QED
  BY <1>1, <1>2, <1>3, <1>4, <1>5, <1>6, <1>7, <1>8, <1>9, <1>10, <1>11, <1>12, <1>13, <1>14,
     <1>15, <1>16, <1>17, <1>18, <1>19, <1>20, <1>21, <1>22 DEF Next, Handle

LEMMA TypedKept ==
    ASSUME CertificatesAssumption, Typed, EventInv, Next
    PROVE  Typed'
<1>1. RelationTypes'
  BY RelationTypesKept
<1>2. UnitTypes'
  BY UnitTypesKept
<1>3. OtherTypes'
  BY OtherTypesKept
<1>4. due' \subseteq Events /\ now' \in Seq(Events) /\ later' \in Seq(Events)
  BY EventsKept
<1>q. QED  BY <1>1, <1>2, <1>3, <1>4 DEF RelationTypes, UnitTypes, OtherTypes, Typed

-----------------------------------------------------------------------------
(* The invariant, part by part. *)

LEMMA HeadFacts ==
    ASSUME Typed, EventInv, NEW k, Handles(k)
    PROVE  /\ Head(now) \in Waiting /\ WellFormed(Head(now)) /\ Head(now).kind = k
           /\ Waits(k) /\ now # <<>>
<1>1. now # <<>> /\ Head(now).kind = k
  BY DEF Handles
<1>2. Head(now) \in Waiting
  BY <1>1, TailElements DEF Typed, Waiting
<1>q. QED  BY <1>1, <1>2 DEF EventInv, Waits

LEMMA RequestKept ==
    ASSUME CertificatesAssumption, Typed, EventInv, RequestInv, Next
    PROVE  RequestInv'
<1>0. /\ {made, key, csr, cert, certFile} \subseteq Nat /\ keyOf \in [Requests -> 0 .. MaxRequests]
      /\ MaxRequests \in Nat /\ made \in 0 .. MaxRequests /\ csr \in 0 .. MaxRequests
  BY DEF Typed, CertificatesAssumption
<1>1. CASE UNCHANGED <<made, keyOf, key, csr>>
  <2>1. cert' = cert \/ cert' = 0 \/ cert' = csr
    BY CertSteps
  <2>2. certFile' \in {certFile, csr, cert}
    BY FileSteps DEF FilesOf
  <2>q. QED  BY <1>0, <1>1, <2>1, <2>2 DEF RequestInv
<1>2. CASE RequestMade /\ UNCHANGED <<cert, files, server, workload>>
  <2>1. New \in Requests /\ New \in Nat \ {0} /\ New > made
    BY <1>0, <1>2 DEF RequestMade, New, Requests
  <2>2. made' = New /\ csr' = New /\ keyOf'[New] = key' /\ UNCHANGED <<cert, certFile>>
    BY <1>0, <1>2, <2>1 DEF RequestMade
  <2>3. key' # 0 /\ key' <= New
    <3>1. CASE key' = New
      BY <2>1, <3>1
    <3>2. CASE key' = key /\ Handles("invalidated") /\ Arg = cert
      <4>1. cert \in Requests
        BY <3>2, HeadFacts DEF WellFormed, Arg
      <4>2. cert # 0
        BY <1>0, <4>1 DEF Requests
      <4>q. QED  BY <1>0, <2>1, <3>2, <4>2 DEF RequestInv
    <3>q. QED  BY <1>2, <3>1, <3>2 DEF RequestMade
  <2>4. key' \in Nat
    BY <1>0, <1>2, <2>1 DEF RequestMade
  <2>q. QED  BY <1>0, <2>1, <2>2, <2>3, <2>4 DEF RequestInv
<1>q. QED  BY <1>1, <1>2, RequestSteps

\* The state of TLS is off, and stays so as long as no certificate comes.
LEMMA OffStays ==
    ASSUME Typed, EventInv, Off, Next
    PROVE  serving' = 0 /\ cert' = 0 /\ ~conf' /\ ~flag'
<1>1. ~OnCertificateAvailable /\ ~PushFails /\ ~AvailableDies
  <2>1. ~Handles("available")
    BY HeadFacts DEF Off
  <2>q. QED  BY <2>1 DEF OnCertificateAvailable, PushFails, AvailableDies
<1>2. cert' = 0
  BY <1>1, CertSteps DEF Off
<1>3. CASE UNCHANGED server
  BY <1>2, <1>3 DEF Off
<1>4. CASE Config(cert')
  <2>1. ~conf'
    BY <1>2, <1>4 DEF Config, IsTlsEnabled
  <2>2. ~flag'
    BY <1>4, <2>1 DEF Config, Off
  <2>3. serving' = 0
    BY <1>4, <2>1 DEF Config, Off
  <2>q. QED  BY <1>2, <2>1, <2>2, <2>3
<1>5. CASE ContainerRestarts /\ serving' = 0 /\ UNCHANGED <<conf, flag, told>>
  BY <1>2, <1>5 DEF Off
<1>6. CASE MemberStarts /\ UNCHANGED <<conf, flag, told>>
  BY <1>2, <1>6 DEF MemberStarts, Off
<1>q. QED  BY <1>1, <1>3, <1>4, <1>5, <1>6, ServerSteps

LEMMA NoneDue ==
    ASSUME Typed, EventInv, NEW k \in {"joined", "broken", "key", "pebble"}, E(k, 0) \notin due
    PROVE  ~Due(k)
<1>1. SUFFICES ASSUME NEW e \in due, e.kind = k
               PROVE  FALSE
  BY DEF Due
<1>2. e \in Events /\ e.arg = 0
  BY <1>1 DEF Typed, EventInv, WellFormed
<1>3. e = E(k, 0)
  BY <1>1, <1>2 DEF Events, E
<1>q. QED  BY <1>3

\* What waits in the hook that runs is not there when none runs.
LEMMA NotDeferred ==
    ASSUME EventInv, now = <<>>, NEW k \in {"joined", "key", "changed"}
    PROVE  ~Waits(k)
<1>1. ToSet(now) = {}
  BY DEF ToSet
<1>q. QED  BY <1>1 DEF EventInv, Waits, Waiting

LEMMA SettledWaits ==
    ASSUME Typed, ~MayOvertake, NEW k, Settled({k})
    PROVE  ~Waits(k)
  BY PendingWaits DEF Settled, Waits

\* Where the hooks come from, and which ones are called off.
LEMMA OutsideKinds ==
    ASSUME Outside
    PROVE  /\ \A e \in due' \ due :
                 /\ e.kind = "joined" => Relate
                 /\ e.kind = "broken" => RemoveRelation
                 /\ e.kind = "key" => SetTlsPrivateKey
                 /\ e.kind = "pebble" => ContainerBack
                 /\ e.kind = "changed" => related = "joined"
           /\ \A e \in due \ due' : e.kind = "ca" \/ RemoveRelation
<1>e. \A k \in Kinds : \A x : E(k, x).kind = k
  BY DEF E
<1>k. {"joined", "broken", "changed", "pebble", "key", "other", "expired", "ca", "ca removed"}
        \subseteq Kinds
  BY DEF Kinds
<1>1. CASE OnProviderChanged \/ (\E c \in bag : SetRelationCertificate(c)) \/ RevokeAll
  <2>1. related = "joined" /\ due \subseteq due' /\ due' \subseteq due \cup {E("changed", 0)}
    BY <1>1 DEF OnProviderChanged, SetRelationCertificate, RevokeAll, Told
  <2>q. QED  BY <1>e, <1>k, <2>1
<1>2. CASE ContainerRestarts \/ MemberStarts \/ MemberStumbles
  BY <1>2 DEF ContainerRestarts, MemberStarts, MemberStumbles
<1>3. CASE ContainerBack
  <2>1. due' = due \cup {E("pebble", 0)}
    BY <1>3 DEF ContainerBack
  <2>q. QED  BY <1>3, <1>e, <1>k, <2>1
<1>4. CASE SetTlsPrivateKey
  <2>1. due' = due \cup {E("key", 0)}
    BY <1>4 DEF SetTlsPrivateKey
  <2>q. QED  BY <1>4, <1>e, <1>k, <2>1
<1>5. CASE OtherHook
  <2>1. due' = due \cup {E("other", 0)}
    BY <1>5 DEF OtherHook
  <2>q. QED  BY <1>e, <1>k, <2>1
<1>6. CASE \E c \in labels : Ages(c, "expiring") \/ Ages(c, "expired")
  <2>1. PICK c \in labels : due' = due \cup {E("expired", c)}
    BY <1>6 DEF Ages
  <2>q. QED  BY <1>e, <1>k, <2>1
<1>7. CASE \E a \in 1 .. 2 : SetCa(a)
  <2>1. PICK a \in 1 .. 2 : due' = {e \in due : e.kind # "ca"} \cup {E("ca", a)}
    BY <1>7 DEF SetCa
  <2>q. QED  BY <1>e, <1>k, <2>1
<1>8. CASE RemoveCa
  <2>1. due' = {e \in due : e.kind # "ca"} \cup {E("ca removed", 0)}
    BY <1>8 DEF RemoveCa
  <2>q. QED  BY <1>e, <1>k, <2>1
<1>9. CASE Relate
  <2>1. due' = due \cup {E("joined", 0)}
    BY <1>9 DEF Relate
  <2>q. QED  BY <1>9, <1>e, <1>k, <2>1
<1>10. CASE RemoveRelation
  <2>1. due' \subseteq due \cup {E("broken", 0)}
    BY <1>10 DEF RemoveRelation
  <2>q. QED  BY <1>10, <1>e, <1>k, <2>1
<1>q. QED
  BY <1>1, <1>2, <1>3, <1>4, <1>5, <1>6, <1>7, <1>8, <1>9, <1>10 DEF Outside

LEMMA RelationKept ==
    ASSUME CertificatesAssumption, ~MayOvertake, Typed, EventInv, RelationInv, OnInv, Next
    PROVE  RelationInv'
<1>off. Off => serving' = 0 /\ cert' = 0 /\ ~conf' /\ ~flag'
  BY OffStays
<1>1. CASE \E e \in due : Begin(e)
  <2>1. PICK e \in due : Begin(e)
    BY <1>1
  <2>2. /\ due' = due \ {e} /\ Waiting' = Waiting \cup {e} /\ related' = related
        /\ now = <<>> /\ (e.kind = "changed" => ~Due("joined"))
    BY <2>1, BegunOnce DEF Begin, Due
  <2>3. /\ \A k \in Kinds : Due(k)' => Due(k)
        /\ \A k \in Kinds : Waits(k)' <=> Waits(k) \/ e.kind = k
        /\ \A k \in Kinds : Due(k) \/ Waits(k) <=> (Due(k) \/ Waits(k))'
        /\ Due(e.kind)
    BY <2>2 DEF Due, Waits
  <2>4. /\ ~Waits("joined") /\ e.kind # "available"
    BY <2>1, <2>2, NotDeferred DEF EventInv, Due
  <2>5. {"joined", "changed", "broken", "available"} \subseteq Kinds
    BY DEF Kinds
  <2>6. Off /\ e.kind # "changed" => Off'
    BY <1>off, <2>3, <2>4, <2>5 DEF Off
  <2>q. QED  BY <2>2, <2>3, <2>4, <2>5, <2>6 DEF RelationInv
<1>2. CASE BeginOther
  <2>1. due' = due /\ Waiting' = Waiting /\ related' = related
    BY <1>2, BegunOthers DEF BeginOther
  <2>2. \A k \in Kinds : (Due(k)' <=> Due(k)) /\ (Waits(k)' <=> Waits(k))
    BY <2>1 DEF Due, Waits
  <2>3. {"joined", "changed", "broken", "available"} \subseteq Kinds
    BY DEF Kinds
  <2>q. QED  BY <1>off, <2>1, <2>2, <2>3 DEF RelationInv, Off
<1>3. CASE Plain
  <2>1. due' = due /\ Handled /\ now # <<>>
    BY <1>3, PlainHandled
  <2>2. related' = related
    BY <1>3 DEF Plain, RequestCertificate, OnBroken, OnCertificateAvailable, OnCertificateExpiring,
                OnCaAvailable, OnCaRemoved, OnPebbleReady, OnOther, PushFails
  <2>3. \A k \in Kinds : /\ Due(k)' <=> Due(k)
                         /\ Waits(k)' => Waits(k)
                         /\ Waits(k) /\ Head(now).kind # k => Waits(k)'
    BY <2>1 DEF Due, Waits, Handled
  <2>4. {"joined", "changed", "broken", "available"} \subseteq Kinds
    BY DEF Kinds
  <2>5. Off => Off'
    BY <1>off, <2>3, <2>4 DEF Off
  <2>6. CASE Head(now).kind # "broken"
    BY <2>2, <2>3, <2>4, <2>5, <2>6 DEF RelationInv
  <2>7. CASE Head(now).kind = "broken"
    <3>1. OnBroken
      BY <1>3, <2>7 DEF Plain, RequestCertificate, OnCertificateAvailable, OnCertificateExpiring,
                OnCaAvailable, OnCaRemoved, OnPebbleReady, OnOther, PushFails, Handles
    <3>2. Waits("broken")
      BY <2>1, <2>7 DEF Handled, Waits
    <3>3. CASE Defer
      <4>1. Waiting' = Waiting
        BY <2>1, <3>3, DeferredKept
      <4>2. Waits("broken")'
        BY <3>2, <4>1 DEF Waits
      <4>q. QED  BY <2>2, <2>3, <2>4, <2>5, <4>2 DEF RelationInv
    <3>4. CASE ~Defer
      <4>1. cert' = 0 /\ Updated /\ (UpdateConfig(0) \/ PatchFails(0))
        BY <3>1, <3>4 DEF OnBroken, DoneOrDeferred, Cleared
      <4>2. /\ conf' = FALSE /\ flag' = FALSE /\ (workload # "ready" => serving' = 0)
            /\ (workload = "ready" => serving' = serving)
        BY <4>1, Updating DEF Config, IsTlsEnabled
      <4>3. serving' = 0
        BY <4>2 DEF OnInv
      <4>4. related # "joined" /\ ~Waits("available") /\ ~Waits("changed")
        BY <3>2 DEF RelationInv
      <4>5. Off'
        BY <2>3, <2>4, <4>1, <4>2, <4>3, <4>4 DEF Off
      <4>q. QED  BY <2>2, <2>3, <2>4, <4>4, <4>5 DEF RelationInv
    <3>q. QED  BY <3>3, <3>4
  <2>q. QED  BY <2>6, <2>7
<1>4. CASE OnChanged
  <2>1. /\ due' = due /\ related' = related /\ Waits("changed")
        /\ \A e \in Waiting' \ Waiting : e.kind \in {"available", "invalidated"}
    BY <1>4, ChangedRaises DEF OnChanged, Waits
  <2>2. related = "joined" /\ ~Due("joined") /\ ~Waits("joined") /\ ~Due("broken") /\ ~Waits("broken")
    BY <2>1 DEF RelationInv, Off
  <2>3. ~Due("joined")' /\ ~Waits("joined")' /\ ~Due("broken")' /\ ~Waits("broken")'
    BY <2>1, <2>2 DEF Due, Waits
  <2>q. QED  BY <2>1, <2>2, <2>3 DEF RelationInv
<1>5. CASE OnSecretExpired
  <2>1. /\ due' = due /\ related' = related /\ Head(now).kind = "expired"
        /\ Waiting \subseteq Waiting' \cup {Head(now)}
        /\ \A e \in Waiting' \ Waiting : e.kind = "invalidated"
    BY <1>5, ExpiredRaises DEF OnSecretExpired
  <2>2. \A k \in {"joined", "changed", "broken", "available"} :
           (Due(k)' <=> Due(k)) /\ (Waits(k)' <=> Waits(k))
    BY <2>1 DEF Due, Waits
  <2>q. QED  BY <1>off, <2>1, <2>2 DEF RelationInv, Off
<1>6. CASE AvailableDies
  <2>1. UNCHANGED <<related, due, now, later>> /\ Waits("available")
    BY <1>6, HeadFacts DEF AvailableDies
  <2>2. related = "joined" /\ ~Due("joined") /\ ~Waits("joined") /\ ~Due("broken") /\ ~Waits("broken")
    BY <2>1 DEF RelationInv, Off
  <2>3. ~Due("joined")' /\ ~Waits("joined")' /\ ~Due("broken")' /\ ~Waits("broken")'
    BY <2>1, <2>2 DEF Due, Waits, Waiting
  <2>q. QED  BY <2>1, <2>2, <2>3 DEF RelationInv
<1>7. CASE Outside
  <2>1. Waiting' = Waiting
    BY <1>7, OutsideDue DEF Waiting, HooksAdded
  <2>2. \A k \in Kinds : Waits(k)' <=> Waits(k)
    BY <2>1 DEF Waits
  <2>3. {"joined", "changed", "broken", "available"} \subseteq Kinds
    BY DEF Kinds
  <2>4. Off => Off'
    BY <1>off, <2>2, <2>3 DEF Off
  <2>5. CASE Relate
    <3>1. ~Due("broken") /\ ~Waits("broken") /\ related # "joined"
      BY <2>5, NoneDue, SettledWaits DEF Relate
    <3>2. Off' /\ related' = "joined"
      BY <2>4, <2>5, <3>1 DEF RelationInv, Relate
    <3>3. ~Due("broken")'
      BY <2>5, <3>1 DEF Relate, Due, E
    <3>q. QED  BY <2>2, <2>3, <3>1, <3>2, <3>3 DEF RelationInv
  <2>6. CASE RemoveRelation
    <3>1. ~Due("joined") /\ ~Waits("joined") /\ ~Waits("changed") /\ ~Waits("available")
      BY <2>6, NoneDue, NotDeferred, SettledWaits DEF RemoveRelation
    <3>2. ~Due("joined")' /\ ~Due("changed")' /\ Due("broken")' /\ related' = "removed"
      <4>1. /\ due' = {e \in due : e.kind # "changed"} \cup {E("broken", 0)}
            /\ related' = "removed"
        BY <2>6 DEF RemoveRelation
      <4>2. E("broken", 0).kind = "broken"
        BY DEF E
      <4>3. E("broken", 0) \in due' /\ \A e \in due' : e.kind # "joined" /\ e.kind # "changed"
        BY <3>1, <4>1, <4>2 DEF Due
      <4>q. QED  BY <4>1, <4>2, <4>3 DEF Due
    <3>q. QED  BY <2>2, <2>3, <3>1, <3>2 DEF RelationInv
  <2>7. CASE ~Relate /\ ~RemoveRelation
    <3>1. related' = related
      BY <1>7, <2>7
         DEF Outside, OnProviderChanged, SetRelationCertificate, RevokeAll, ContainerRestarts,
             ContainerBack, MemberStarts, MemberStumbles, SetTlsPrivateKey, OtherHook, Ages, SetCa,
             RemoveCa
    <3>2. /\ \A e \in due' \ due : e.kind \notin {"joined", "broken"}
          /\ related # "joined" => \A e \in due' \ due : e.kind # "changed"
          /\ \A e \in due \ due' : e.kind = "ca"
      BY <1>7, <2>7, OutsideKinds
    <3>3. /\ Due("joined")' <=> Due("joined")
          /\ Due("broken")' <=> Due("broken")
          /\ related # "joined" /\ Due("changed")' => Due("changed")
      BY <3>2 DEF Due
    <3>q. QED  BY <2>2, <2>3, <2>4, <3>1, <3>3 DEF RelationInv
  <2>q. QED  BY <2>5, <2>6, <2>7
<1>q. QED  BY <1>1, <1>2, <1>3, <1>4, <1>5, <1>6, <1>7, Steps

LEMMA WorkloadSteps ==
    ASSUME Next
    PROVE  \/ workload' = workload
           \/ (PushFails \/ ContainerRestarts) /\ workload' = "down" /\ serving' = 0
           \/ ContainerBack /\ workload = "down" /\ workload' = "ready" /\ serving' = serving
           \/ OnPebbleReady /\ workload = "ready" /\ workload' = "starting"
           \/ MemberStarts /\ workload = "starting" /\ workload' = "up"
           \/ MemberStumbles /\ workload = "up" /\ workload' = "starting"
<1>1. CASE RequestCertificate \/ OnCertificateExpiring \/ OnBroken \/ OnCertificateAvailable
  BY <1>1 DEF RequestCertificate, OnCertificateExpiring, OnBroken, OnCertificateAvailable
<1>2. CASE OnCaAvailable \/ OnCaRemoved \/ OnOther \/ AvailableDies
  BY <1>2 DEF OnCaAvailable, OnCaRemoved, OnOther, AvailableDies
<1>3. CASE OnPebbleReady
  BY <1>3 DEF OnPebbleReady
<1>4. CASE PushFails \/ ContainerRestarts
  BY <1>4 DEF PushFails, ContainerRestarts
<1>5. CASE ContainerBack \/ MemberStarts \/ MemberStumbles
  BY <1>5 DEF ContainerBack, MemberStarts, MemberStumbles
<1>6. CASE Queues
  BY <1>6, QueuesFrame
<1>7. CASE OnProviderChanged \/ (\E c \in bag : SetRelationCertificate(c)) \/ RevokeAll
  BY <1>7 DEF OnProviderChanged, SetRelationCertificate, RevokeAll
<1>8. CASE Relate \/ RemoveRelation \/ SetTlsPrivateKey \/ OtherHook
  BY <1>8 DEF Relate, RemoveRelation, SetTlsPrivateKey, OtherHook
<1>9. CASE (\E c \in labels : Ages(c, "expiring") \/ Ages(c, "expired"))
             \/ (\E a \in 1 .. 2 : SetCa(a)) \/ RemoveCa
  BY <1>9 DEF Ages, SetCa, RemoveCa
<1>q. QED
  BY <1>1, <1>2, <1>3, <1>4, <1>5, <1>6, <1>7, <1>8, <1>9, Steps DEF Plain, Queues, Outside

LEMMA RelatedSteps ==
    ASSUME Next
    PROVE  related' = related \/ Relate \/ RemoveRelation
<1>1. CASE RequestCertificate \/ OnCertificateExpiring \/ OnBroken \/ OnCertificateAvailable
  BY <1>1 DEF RequestCertificate, OnCertificateExpiring, OnBroken, OnCertificateAvailable
<1>2. CASE OnCaAvailable \/ OnCaRemoved \/ OnPebbleReady \/ OnOther \/ PushFails \/ AvailableDies
  BY <1>2 DEF OnCaAvailable, OnCaRemoved, OnPebbleReady, OnOther, PushFails, AvailableDies
<1>3. CASE Queues
  BY <1>3, QueuesFrame
<1>4. CASE Outside
  BY <1>4
     DEF Outside, OnProviderChanged, SetRelationCertificate, RevokeAll, ContainerRestarts,
         ContainerBack, MemberStarts, MemberStumbles, SetTlsPrivateKey, OtherHook, Ages, SetCa,
         RemoveCa
<1>q. QED  BY <1>1, <1>2, <1>3, <1>4, Steps DEF Plain, Queues

\* The certificate that patroni.yml was written for stays, or is about to be given again.
LEMMA StillThere ==
    ASSUME CertificatesAssumption, Typed, EventInv, RequestInv, RelationInv, OnInv, Next,
           related = "joined", conf
    PROVE  /\ key # 0
           /\ \/ cert' # 0
              \/ Handles("available") /\ Arg = csr /\ UNCHANGED <<now, key, csr>> /\ ~Plain
<1>0. cert # 0 \/ (Handles("available") /\ Arg = csr)
  BY DEF OnInv
<1>1. ~Handles("broken")
  BY HeadFacts DEF RelationInv
<1>2. cert # 0 => cert' # 0 /\ key # 0
  <2>1. cert # 0 => csr # 0 /\ key # 0
    BY DEF RequestInv
  <2>q. QED  BY <1>1, <2>1, CertSteps DEF OnBroken
<1>3. ASSUME Handles("available"), Arg = csr, cert = 0
      PROVE  key # 0 /\ (cert' # 0 \/ (UNCHANGED <<now, key, csr>> /\ ~Plain))
  <2>1. csr # 0 /\ key # 0
    <3>1. Arg \in Requests
      BY <1>3, HeadFacts DEF WellFormed, Arg
    <3>q. QED  BY <1>3, <3>1 DEF RequestInv, Requests
  <2>2. now # <<>>
    BY <1>3 DEF Handles
  <2>3. CASE Plain
    <3>1. OnCertificateAvailable \/ PushFails
      BY <1>3, <2>3 DEF Plain, RequestCertificate, OnBroken, OnCertificateExpiring, OnCaAvailable,
                        OnCaRemoved, OnPebbleReady, OnOther, Handles
    <3>2. cert' = csr
      BY <1>3, <3>1 DEF OnCertificateAvailable, PushFails, Known
    <3>q. QED  BY <2>1, <3>2
  <2>4. CASE ~Plain
    <3>1. ~(\E e \in due : Begin(e)) /\ ~BeginOther /\ ~OnChanged /\ ~OnSecretExpired
      BY <1>3, <2>2 DEF Begin, BeginOther, OnChanged, OnSecretExpired, Handles
    <3>2. CASE AvailableDies
      BY <2>1, <2>4, <3>2 DEF AvailableDies
    <3>3. CASE Outside
      BY <2>1, <2>4, <3>3, OutsideFrame
    <3>q. QED  BY <2>4, <3>1, <3>2, <3>3, Steps
  <2>q. QED  BY <2>3, <2>4
<1>q. QED  BY <1>0, <1>2, <1>3

LEMMA OnKept ==
    ASSUME CertificatesAssumption, ~MayOvertake, Typed, EventInv, RequestInv, RelationInv, OnInv,
           Next
    PROVE  OnInv'
<1>1. workload' \in {"down", "ready"} => serving' = 0
  <2>1. CASE workload' = workload
    <3>1. SUFFICES ASSUME workload \in {"down", "ready"}
                   PROVE  serving' = 0
      BY <2>1
    <3>2. serving = 0
      BY <3>1 DEF OnInv
    <3>3. ~MemberStarts
      BY <3>1 DEF MemberStarts
    <3>4. \A c : Config(c) => serving' = serving
      BY <3>1 DEF Config
    <3>q. QED  BY <3>2, <3>3, <3>4, ServerSteps
  <2>q. QED  BY <2>1, WorkloadSteps DEF OnInv
<1>2. CASE Relate
  <2>1. Off
    BY <1>2, NoneDue, SettledWaits DEF Relate, RelationInv
  <2>2. cert' = 0 /\ ~conf' /\ ~flag' /\ serving' = 0
    BY <2>1, OffStays
  <2>q. QED  BY <1>1, <2>2 DEF OnInv
<1>3. CASE related' # "joined"
  BY <1>1, <1>3 DEF OnInv
<1>4. CASE related' = "joined" /\ ~Relate
  <2>1. related = "joined" /\ related' = "joined"
    BY <1>4, RelatedSteps DEF RemoveRelation
  <2>2. ~OnBroken
    BY <2>1, HeadFacts DEF OnBroken, RelationInv
  <2>3. flag' => cert' # 0
    <3>1. flag => cert' # 0
      <4>1. cert # 0 => csr # 0
        BY DEF RequestInv
      <4>q. QED  BY <2>1, <2>2, <4>1, CertSteps DEF OnInv
    <3>2. Config(cert') /\ conf' => cert' # 0
      BY DEF Config, IsTlsEnabled
    <3>q. QED  BY <3>1, <3>2, ServerSteps DEF Config
  <2>4. serving' # 0 => conf'
    <3>1. CASE UNCHANGED server
      BY <2>1, <3>1 DEF OnInv
    <3>2. CASE Config(cert') /\ Plain
      <4>1. serving # 0 => key # 0 /\ cert' # 0
        BY <2>1, <3>2, StillThere DEF OnInv
      <4>2. serving' # 0 => serving # 0 \/ conf'
        BY <3>2 DEF Config
      <4>q. QED  BY <3>2, <4>1, <4>2 DEF Config, IsTlsEnabled
    <3>3. CASE AvailableDies /\ Known(Arg) /\ Config(Arg)
      <4>1. Arg \in Requests /\ Arg = csr
        BY <3>3, HeadFacts DEF AvailableDies, WellFormed, Arg, Known
      <4>2. Arg # 0 /\ key # 0
        BY <4>1 DEF RequestInv, Requests
      <4>q. QED  BY <3>3, <4>2 DEF Config, IsTlsEnabled
    <3>4. CASE serving' = 0
      BY <3>4
    <3>5. CASE MemberStarts /\ UNCHANGED <<conf, flag, told>>
      BY <3>5 DEF MemberStarts
    <3>q. QED  BY <3>1, <3>2, <3>3, <3>4, <3>5, ServerSteps
  <2>5. conf' => cert' # 0 \/ (Handles("available") /\ Arg = csr)'
    <3>1. CASE conf' = conf
      <4>1. conf => cert' # 0 \/ (Handles("available") /\ Arg = csr /\ UNCHANGED <<now, csr>>)
        BY <2>1, StillThere
      <4>q. QED  BY <3>1, <4>1 DEF Handles, Arg
    <3>2. CASE Config(cert')
      BY <3>2 DEF Config, IsTlsEnabled
    <3>3. CASE AvailableDies /\ Known(Arg)
      BY <3>3 DEF AvailableDies, Known, Handles, Arg
    <3>q. QED  BY <3>1, <3>2, <3>3, ServerSteps
  <2>q. QED  BY <1>1, <2>3, <2>4, <2>5 DEF OnInv
<1>q. QED  BY <1>2, <1>3, <1>4

\* What PostgreSQL serves goes on, where the relation and the container do.
LEMMA GoesOn ==
    ASSUME CertificatesAssumption, Typed, EventInv, RequestInv, RelationInv, OnInv, Next,
           related = "joined", serving # 0, serving' = 0
    PROVE  workload' = "down"
<1>1. conf /\ workload # "ready" /\ workload # "down"
  BY DEF OnInv
<1>2. key # 0
  BY <1>1, StillThere
<1>3. ~(Config(cert') /\ Plain)
  <2>1. SUFFICES ASSUME Config(cert'), Plain
                 PROVE  FALSE
    OBVIOUS
  <2>2. cert' # 0
    BY <1>1, <2>1, StillThere
  <2>3. conf'
    BY <1>2, <2>1, <2>2 DEF Config, IsTlsEnabled
  <2>q. QED  BY <2>1, <2>3 DEF Config, Pair
<1>4. ~(AvailableDies /\ Known(Arg) /\ Config(Arg))
  <2>1. SUFFICES ASSUME AvailableDies, Known(Arg), Config(Arg)
                 PROVE  FALSE
    OBVIOUS
  <2>2. Arg \in Requests
    BY <2>1, HeadFacts DEF AvailableDies, WellFormed, Arg
  <2>3. Arg # 0
    BY <2>2 DEF Requests
  <2>4. conf'
    BY <1>2, <2>1, <2>3 DEF Config, IsTlsEnabled
  <2>q. QED  BY <2>1, <2>4 DEF Config, Pair
<1>5. ~MemberStarts
  BY <1>1 DEF MemberStarts, Pair
<1>6. (PushFails \/ ContainerRestarts) => workload' = "down"
  BY DEF PushFails, ContainerRestarts
<1>q. QED  BY <1>3, <1>4, <1>5, <1>6, ServerSteps

\* A certificate that the unit has goes on to be of its key, where no key is set or replaced.
LEMMA CertificateFits ==
    ASSUME Typed, EventInv, RequestInv, RelationInv, Next,
           cert # 0 => keyOf[cert] = key, ~Waits("key")
    PROVE  cert' # 0 => keyOf'[cert'] = key'
<1>0. /\ keyOf \in [Requests -> 0 .. MaxRequests] /\ made \in Nat
      /\ {csr, cert} \subseteq Nat
  BY DEF Typed
<1>1. CASE UNCHANGED <<made, keyOf, key, csr>>
  <2>1. cert' = cert \/ cert' = 0 \/ cert' = csr
    BY CertSteps
  <2>q. QED  BY <1>1, <2>1 DEF RequestInv
<1>2. CASE RequestMade /\ UNCHANGED <<cert, files, server, workload>>
  <2>1. CASE Handles("joined")
    <3>1. cert = 0
      BY <2>1, HeadFacts DEF RelationInv, Off
    <3>q. QED  BY <1>2, <3>1
  <2>2. CASE key' = key /\ Handles("invalidated")
    <3>1. cert < New
      BY <1>0 DEF RequestInv, New
    <3>2. keyOf'[cert] = keyOf[cert] \/ cert \notin Requests
      BY <1>0, <1>2, <3>1 DEF RequestMade
    <3>3. cert # 0 => cert \in Requests
      BY DEF Typed, Requests
    <3>q. QED  BY <1>2, <2>2, <3>2, <3>3
  <2>3. ~Handles("key")
    BY HeadFacts
  <2>q. QED  BY <1>2, <2>1, <2>2, <2>3 DEF RequestMade
<1>q. QED  BY <1>1, <1>2, RequestSteps

LEMMA NotMidway ==
    ASSUME Typed, EventInv, RequestInv, ~Midway
    PROVE  (cert # 0 => keyOf[cert] = key) /\ ~Due("key") /\ ~Waits("key")
<1>1. E("key", 0) \notin due /\ ~Due("key")
  BY NoneDue DEF Midway
<1>2. ~Waits("key")
  <2>1. SUFFICES ASSUME NEW e \in ToSet(now), e.kind = "key"
                 PROVE  FALSE
    BY DEF Waits, Waiting, EventInv
  <2>2. e \in Events /\ e.arg = 0
    BY <2>1 DEF Typed, EventInv, WellFormed, Waiting, ToSet
  <2>3. e = E("key", 0)
    BY <2>1, <2>2 DEF Events, E
  <2>q. QED  BY <2>1, <2>3 DEF Midway
<1>q. QED  BY <1>1, <1>2 DEF Midway

LEMMA FitsKept ==
    ASSUME CertificatesAssumption, ~MayRestartMidway, Typed, EventInv, RequestInv, RelationInv,
           FitsInv, Next
    PROVE  FitsInv'
<1> DEFINE Fits == (cert # 0 => keyOf[cert] = key) /\ ~Due("key") /\ ~Waits("key")
           Running == workload \in {"starting", "up"} /\ ~Due("pebble") /\ ~Waits("pebble")
<1>0. Fits \/ Running
  BY DEF FitsInv
<1>f. (cert # 0 => keyOf[cert] = key) /\ ~Waits("key") => (cert' # 0 => keyOf'[cert'] = key')
  BY CertificateFits
<1>s. SUFFICES Fits' \/ Running'
  BY DEF FitsInv
<1>1. CASE PushFails \/ ContainerRestarts
  <2>1. ~Midway
    BY <1>1 DEF PushFails, ContainerRestarts
  <2>2. Fits
    BY <2>1, NotMidway
  <2>3. due' = due /\ Waiting' \subseteq Waiting
    <3>1. CASE PushFails
      BY <3>1, PlainHandled DEF Plain, Handled
    <3>2. CASE ContainerRestarts
      BY <3>2 DEF ContainerRestarts, Waiting
    <3>q. QED  BY <1>1, <3>1, <3>2
  <2>4. ~Due("key")' /\ ~Waits("key")'
    BY <2>2, <2>3 DEF Due, Waits
  <2>q. QED  BY <1>f, <2>2, <2>4
<1>2. CASE SetTlsPrivateKey
  <2>1. /\ workload = "up" /\ E("pebble", 0) \notin due \cup ToSet(now \o later)
        /\ due' = due \cup {E("key", 0)} /\ UNCHANGED <<workload, now, later>>
    BY <1>2 DEF SetTlsPrivateKey
  <2>2. ~Due("pebble")
    BY <2>1, NoneDue
  <2>3. ~Waits("pebble")
    <3>1. SUFFICES ASSUME NEW e \in Waiting, e.kind = "pebble"
                   PROVE  FALSE
      BY DEF Waits
    <3>2. ToSet(now \o later) = Waiting
      BY ConcatElements DEF Typed, Waiting
    <3>3. e \in Events /\ e.arg = 0
      BY <3>1 DEF Typed, EventInv, WellFormed, Waiting, ToSet
    <3>4. e = E("pebble", 0)
      BY <3>1, <3>3 DEF Events, E
    <3>q. QED  BY <2>1, <3>2, <3>4
  <2>4. ~Due("pebble")' /\ ~Waits("pebble")'
    BY <2>1, <2>2, <2>3 DEF Due, Waits, Waiting, E
  <2>q. QED  BY <2>1, <2>4
<1>3. ASSUME ~PushFails, ~ContainerRestarts, ~SetTlsPrivateKey,
             Due("key")' \/ Waits("key")' => Due("key") \/ Waits("key"),
             ContainerBack \/ (Due("pebble")' \/ Waits("pebble")' => Due("pebble") \/ Waits("pebble"))
      PROVE  Fits' \/ Running'
  <2>1. CASE Fits
    BY <1>f, <1>3, <2>1
  <2>2. CASE Running /\ ~ContainerBack
    <3>1. workload' \in {"starting", "up"}
      BY <1>3, <2>2, WorkloadSteps
    <3>q. QED  BY <1>3, <2>2, <3>1
  <2>3. Running => ~ContainerBack
    BY DEF ContainerBack
  <2>q. QED  BY <1>0, <2>1, <2>2, <2>3
<1> HIDE DEF Fits, Running
<1>4. CASE \E e \in due : Begin(e)
  <2>1. PICK e \in due : due' = due \ {e} /\ Waiting' = Waiting \cup {e}
    BY <1>4, BegunOnce DEF Begin
  <2>2. \A k \in Kinds : Due(k)' \/ Waits(k)' => Due(k) \/ Waits(k)
    BY <2>1 DEF Due, Waits
  <2>3. {"key", "pebble"} \subseteq Kinds
    BY DEF Kinds
  <2>q. QED  BY <1>1, <1>2, <1>3, <2>2, <2>3
<1>5. CASE BeginOther \/ AvailableDies
  <2>1. due' = due /\ Waiting' = Waiting
    BY <1>5, BegunOthers DEF BeginOther, AvailableDies, Waiting
  <2>2. \A k \in Kinds : Due(k)' \/ Waits(k)' => Due(k) \/ Waits(k)
    BY <2>1 DEF Due, Waits
  <2>3. {"key", "pebble"} \subseteq Kinds
    BY DEF Kinds
  <2>q. QED  BY <1>1, <1>2, <1>3, <2>2, <2>3
<1>6. CASE Plain
  <2>1. due' = due /\ Waiting' \subseteq Waiting
    BY <1>6, PlainHandled DEF Handled
  <2>2. \A k \in Kinds : Due(k)' \/ Waits(k)' => Due(k) \/ Waits(k)
    BY <2>1 DEF Due, Waits
  <2>3. {"key", "pebble"} \subseteq Kinds
    BY DEF Kinds
  <2>q. QED  BY <1>1, <1>2, <1>3, <2>2, <2>3
<1>7. CASE OnChanged \/ OnSecretExpired
  <2>1. /\ due' = due
        /\ \A e \in Waiting' \ Waiting : e.kind \in {"available", "invalidated"}
    BY <1>7, ChangedRaises, ExpiredRaises
  <2>2. \A k \in {"key", "pebble"} : Due(k)' \/ Waits(k)' => Due(k) \/ Waits(k)
    BY <2>1 DEF Due, Waits
  <2>q. QED  BY <1>1, <1>2, <1>3, <2>2
<1>8. CASE Outside
  <2>1. Waiting' = Waiting
    BY <1>8, OutsideDue DEF HooksAdded, Waiting
  <2>2. /\ SetTlsPrivateKey \/ (Due("key")' => Due("key"))
        /\ ContainerBack \/ (Due("pebble")' => Due("pebble"))
    BY <1>8, OutsideKinds DEF Due
  <2>3. \A k \in Kinds : Waits(k)' <=> Waits(k)
    BY <2>1 DEF Waits
  <2>4. {"key", "pebble"} \subseteq Kinds
    BY DEF Kinds
  <2>q. QED  BY <1>1, <1>2, <1>3, <2>2, <2>3, <2>4
<1>q. QED  BY <1>4, <1>5, <1>6, <1>7, <1>8, Steps

LEMMA FilesKept ==
    ASSUME CertificatesAssumption, Typed, EventInv, RequestInv, FitsInv, FilesInv, Next
    PROVE  FilesInv'
<1>0. /\ keyOf \in [Requests -> 0 .. MaxRequests] /\ made \in Nat
      /\ {csr, cert, certFile, key} \subseteq Nat
  BY DEF Typed
<1>s. SUFFICES ASSUME workload' \in {"starting", "up"}, conf' \/ cert' # 0
               PROVE  Pair(keyFile, certFile)'
  BY DEF FilesInv
<1>1. CASE RequestMade /\ UNCHANGED <<cert, files, server, workload>>
  <2>1. Pair(keyFile, certFile)
    BY <1>s, <1>1 DEF FilesInv
  <2>2. certFile < New
    BY <1>0 DEF RequestInv, New
  <2>3. certFile # 0 => certFile \in Requests
    BY DEF Typed, Requests
  <2>4. keyOf'[certFile] = keyOf[certFile]
    BY <1>0, <1>1, <2>1, <2>2, <2>3 DEF RequestMade, Pair
  <2>q. QED  BY <1>1, <2>1, <2>4 DEF Pair
<1>2. CASE UNCHANGED <<made, keyOf, key, csr>>
  <2>1. CASE (OnCertificateAvailable \/ AvailableDies) /\ Arg = csr /\ FilesOf(csr)
    <3>1. Arg \in Requests
      BY <2>1, HeadFacts DEF OnCertificateAvailable, AvailableDies, WellFormed, Arg
    <3>2. csr # 0
      BY <2>1, <3>1 DEF Requests
    <3>q. QED  BY <1>2, <2>1, <3>2 DEF RequestInv, FilesOf, Pair
  <2>2. ~PushFails
    BY <1>s DEF PushFails
  <2>3. CASE OnPebbleReady
    <3>1. CASE workload = "down"
      BY <1>s, <3>1, WorkloadSteps, <2>3 DEF OnPebbleReady
    <3>2. CASE workload # "down"
      <4>1. /\ conf' = IsTlsEnabled(key, cert) /\ cert' = cert
            /\ key # 0 => FilesOf(cert)
        BY <2>3, <3>2 DEF OnPebbleReady, UpdateConfig, Pushed, FilesOf
      <4>2. cert # 0 /\ key # 0 /\ csr # 0
        BY <1>s, <4>1 DEF IsTlsEnabled, RequestInv
      <4>3. keyOf[cert] = key
        <5>1. Waits("pebble")
          BY <2>3, HeadFacts DEF OnPebbleReady
        <5>q. QED  BY <4>2, <5>1 DEF FitsInv
      <4>q. QED  BY <1>2, <4>1, <4>2, <4>3 DEF FilesOf, Pair
    <3>q. QED  BY <3>1, <3>2
  <2>4. CASE /\ UNCHANGED files /\ ~OnPebbleReady
             /\ ~((OnCertificateAvailable \/ AvailableDies) /\ Arg = csr /\ FilesOf(csr))
    <3>1. workload \in {"starting", "up"}
      BY <1>s, <2>2, <2>4, WorkloadSteps DEF MemberStarts, MemberStumbles, ContainerBack
    <3>2. ~AvailableDies
      BY <2>4 DEF AvailableDies, Known, Pushed, FilesOf
    <3>3. OnCertificateAvailable => cert' = cert
      BY <2>4, <3>1 DEF OnCertificateAvailable, Known, Pushed, FilesOf
    <3>4. cert' # 0 => cert # 0
      BY <2>2, <3>3, CertSteps
    <3>5. conf' => conf \/ cert' # 0
      BY <3>2, ServerSteps DEF Config, IsTlsEnabled
    <3>6. conf \/ cert # 0
      BY <1>s, <3>4, <3>5
    <3>q. QED  BY <1>2, <2>4, <3>1, <3>6 DEF FilesInv, Pair
  <2>q. QED  BY <2>1, <2>2, <2>3, <2>4, FileSteps
<1>q. QED  BY <1>1, <1>2, RequestSteps

-----------------------------------------------------------------------------
(* Theorems. *)

LEMMA Initially ==
    ASSUME CertificatesAssumption, Init
    PROVE  Typed /\ EventInv /\ RequestInv /\ RelationInv /\ OnInv /\ FitsInv /\ FilesInv
<1>0. MaxRequests \in Nat
  BY DEF CertificatesAssumption
<1>1. now = <<>> /\ later = <<>> /\ due = {} /\ Waiting = {}
  BY DEF Init, Waiting, ToSet
<1>2. Typed
  <2>1. <<>> \in Seq(Requests) /\ <<>> \in Seq(Events)
    OBVIOUS
  <2>2. 0 \in 0 .. MaxRequests /\ 0 \in 0 .. 2
    BY <1>0
  <2>3. keyOf \in [Requests -> 0 .. MaxRequests]
    BY <2>2 DEF Init
  <2>q. QED  BY <2>1, <2>2, <2>3 DEF Init, Typed
<1>3. EventInv
  <2>1. ToSet(later) = {}
    BY <1>1 DEF ToSet
  <2>q. QED  BY <1>1, <2>1 DEF EventInv, Due
<1>4. RequestInv
  BY DEF Init, RequestInv
<1>5. RelationInv /\ OnInv /\ FitsInv /\ FilesInv
  BY <1>1 DEF Init, RelationInv, OnInv, FitsInv, FilesInv, Off, Due, Waits
<1>q. QED  BY <1>2, <1>3, <1>4, <1>5

LEMMA Stuttering ==
    ASSUME UNCHANGED vars, Typed, EventInv, RequestInv, RelationInv, OnInv
    PROVE  Typed' /\ EventInv' /\ RequestInv' /\ RelationInv' /\ OnInv'
<1>1. /\ Waiting' = Waiting /\ due' = due /\ later' = later
      /\ \A k : (Due(k)' <=> Due(k)) /\ (Waits(k)' <=> Waits(k))
  BY DEF Waiting, Due, Waits
<1>2. Typed' /\ RequestInv'
  BY DEF Typed, RequestInv
<1>3. EventInv'
  BY <1>1 DEF EventInv
<1>4. RelationInv'
  BY <1>1 DEF RelationInv, Off
<1>5. OnInv'
  BY DEF OnInv, Handles, Arg
<1>q. QED  BY <1>2, <1>3, <1>4, <1>5

\* TLS is not turned off while the relation is there, if no relation changes while its events
\* are handled: whenever the container restarts, whatever is revoked, renewed or replaced.
THEOREM NeverPlainText ==
    ASSUME CertificatesAssumption, ~MayOvertake
    PROVE  Spec => StaysOn
<1> DEFINE IInv == Typed /\ EventInv /\ RequestInv /\ RelationInv /\ OnInv
           Stays == serving # 0 /\ serving' = 0 => workload' = "down" \/ related # "joined"
<1>1. Init => IInv
  BY Initially
<1>2. IInv /\ [Next]_vars => IInv'
  <2>1. CASE Next
    BY <2>1, TypedKept, EventsKept, RequestKept, RelationKept, OnKept
  <2>2. CASE UNCHANGED vars
    BY <2>2, Stuttering
  <2>q. QED  BY <2>1, <2>2
<1>3. IInv /\ [Next]_vars => [Stays]_vars
  <2>1. CASE Next
    BY <2>1, GoesOn
  <2>2. CASE UNCHANGED vars
    BY <2>2
  <2>q. QED  BY <2>1, <2>2
<1> HIDE DEF IInv, Stays
<1>4. Spec => [][Stays]_vars
  BY <1>1, <1>2, <1>3, PTL DEF Spec
<1>q. QED  BY <1>4 DEF StaysOn, Stays

\* The types; and, where PostgreSQL may be started with TLS, a certificate that is of the key, if
\* no relation changes while its events are handled and the container does not restart between
\* a new key and its certificate.
THEOREM KeysFit ==
    ASSUME CertificatesAssumption, ~MayOvertake, ~MayRestartMidway
    PROVE  Spec => []Inv
<1> DEFINE IInv ==
              Typed /\ EventInv /\ RequestInv /\ RelationInv /\ OnInv /\ FitsInv /\ FilesInv
<1>1. Init => IInv
  BY Initially
<1>2. IInv /\ [Next]_vars => IInv'
  <2>1. CASE Next
    BY <2>1, TypedKept, EventsKept, RequestKept, RelationKept, OnKept, FitsKept, FilesKept
  <2>2. CASE UNCHANGED vars
    <3>1. FitsInv /\ FilesInv => FitsInv' /\ FilesInv'
      BY <2>2 DEF FitsInv, FilesInv, Due, Waits, Waiting, Pair
    <3>q. QED  BY <2>2, <3>1, Stuttering
  <2>q. QED  BY <2>1, <2>2
<1>3. IInv => Inv
  <2>1. IInv => (workload = "down" => serving = 0) /\ (related = "joined" /\ flag => cert # 0)
    BY DEF OnInv
  <2>2. IInv => TypeOK
    BY <2>1 DEF Typed, TypeOK
  <2>q. QED  BY <2>2 DEF Inv, FilesMatch, FilesInv
<1> HIDE DEF IInv
<1>q. QED  BY <1>1, <1>2, <1>3, PTL DEF Spec

=============================================================================
