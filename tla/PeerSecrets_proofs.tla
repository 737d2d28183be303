------------------------- MODULE PeerSecrets_proofs -------------------------
(***************************************************************************)
(* The secrets of the peer relation, for any set of values and any number  *)
(* of operations: where a value may be, and that get_secret, set_secret    *)
(* and remove_secret implement a plain store.                              *)
(***************************************************************************)
EXTENDS PeerSecrets, TLAPS

\* What is true of a store through all its migrations.  A value is in one place; the
\* name "ca" is only used in the bag, "cauth" only in the secret.
Good(s) ==
    /\ s \in StoreType
    /\ s.label = "unlabelled" => s.uri
    /\ s.label = "none" => s.content = NoContent
    /\ s.label # "none" => hasSecrets
    /\ \A n \in Names : s.content[n] \in Values => s.bag[n] = Absent
    /\ s.content["ca"] = Absent /\ s.bag["cauth"] = Absent

\* A certificate authority in the secret is not in the bag under its old name.
OneCa(s) == s.content["cauth"] = Absent \/ s.bag["ca"] = Absent

\* Where a key is read from, when the store is good.
SecretName(k) == IF k = "ca" THEN "cauth" ELSE k
ValueIn(s, k) ==
    IF s.bag[k] # Absent THEN s.bag[k]
    ELSE IF s.content[SecretName(k)] \in Values THEN s.content[SecretName(k)] ELSE Absent

StoresInv ==
    /\ hasSecrets \in BOOLEAN /\ leader \in BOOLEAN /\ operations \in Nat
    /\ Good(work) /\ Good(saved)
    /\ operations = 0 => /\ saved.bag = work.bag /\ saved.content = work.content
                         /\ work.label = "old" => saved.label = "old"

CaInv == OneCa(work) /\ OneCa(saved)

-----------------------------------------------------------------------------
(* Reading. *)

LEMMA FieldsGood ==
    ASSUME NEW s, Good(s)
    PROVE  /\ Fields(s) = {n \in Names : s.content[n] \in Values}
           /\ Fields(s) \cap InBag(s) = {}
           /\ ~FallsBack(s, Fields(s))
           /\ Found(s) <=> s.label # "none"
  <1>1. Found(s) <=> s.label # "none"
    BY DEF Good, Found, StoreType, Labels
  <1>2. Fields(s) = {n \in Names : s.content[n] \in Values}
    <2>1. CASE s.label = "none"
      <3>1. \A n \in Names : s.content[n] \notin Values
        BY <2>1, SecretsAssumption DEF Good, NoContent
      <3>. QED
        BY <1>1, <2>1, <3>1 DEF Fields
    <2>2. CASE s.label # "none"
      BY <1>1, <2>2 DEF Good, Fields
    <2>. QED
      BY <2>1, <2>2
  <1>3. Fields(s) \cap InBag(s) = {}
    BY <1>2 DEF Good, InBag
  <1>. QED
    BY <1>1, <1>2, <1>3 DEF FallsBack

LEMMA GetGood ==
    ASSUME NEW s, Good(s), NEW k \in Keys, hasSecrets \in BOOLEAN
    PROVE  Get(s, k) = ValueIn(s, k)
  <1>1. \A n \in Names : Fetched(s, n) = IF s.content[n] \in Values THEN s.content[n] ELSE s.bag[n]
    BY FieldsGood DEF Fetched
  <1>2. Absent \notin Values
    BY SecretsAssumption
  <1>3. CASE k = "operator-password"
    <2>1. k \in Names /\ Translated(k) = k /\ SecretName(k) = k
      BY <1>3 DEF Names, Keys, Translated, SecretName
    <2>2. Fetched(s, k) = ValueIn(s, k)
      BY <1>1, <1>2, <2>1 DEF ValueIn, Good
    <2>3. Fetched(s, k) = Absent => k \notin Fields(s)
      BY <1>1, <1>2, <2>1, FieldsGood
    <2>. QED
      BY <2>1, <2>2, <2>3 DEF Get
  <1>4. CASE k = "ca"
    <2>1. /\ k \in Names /\ "cauth" \in Names /\ SecretName(k) = "cauth"
          /\ Translated(k) = IF hasSecrets THEN "cauth" ELSE "ca"
      BY <1>4 DEF Names, Keys, Translated, SecretName
    <2>2. Fetched(s, k) = s.bag[k]
      BY <1>1, <1>2, <1>4, <2>1 DEF Good
    <2>3. hasSecrets => ("cauth" \in Fields(s) <=> s.content["cauth"] \in Values)
      BY <2>1, FieldsGood
    <2>4. ~hasSecrets => s.content["cauth"] \notin Values
      BY <1>2, <2>1 DEF Good, NoContent
    <2>. QED
      BY <1>1, <1>4, <2>1, <2>2, <2>3, <2>4 DEF Get, ValueIn
  <1>. QED
    BY <1>3, <1>4 DEF Keys

-----------------------------------------------------------------------------
(* Writing. *)

LEMMA LabelledGood ==
    ASSUME NEW s, Good(s)
    PROVE  /\ Good(Labelled(s)) /\ (OneCa(s) => OneCa(Labelled(s)))
           /\ \A k \in Keys : ValueIn(Labelled(s), k) = ValueIn(s, k)
           /\ Labelled(s).bag = s.bag /\ Labelled(s).content = s.content
           /\ s.label = "old" <=> Labelled(s).label = "old"
           /\ s.label = "none" <=> Labelled(s).label = "none"
  <1>1. CASE Labelled(s) = s
    BY <1>1
  <1>2. CASE s.label = "unlabelled" /\ Labelled(s) = [s EXCEPT !.label = "present"]
    <2>. DEFINE r == [s EXCEPT !.label = "present"]
    <2>1. r \in StoreType /\ r.bag = s.bag /\ r.content = s.content /\ r.label = "present"
      BY DEF Good, StoreType, Labels
    <2>2. Good(r)
      BY <1>2, <2>1 DEF Good
    <2>. QED
      BY <1>2, <2>1, <2>2 DEF OneCa, ValueIn
  <1>. QED
    BY <1>1, <1>2 DEF Labelled

\* What set_secret makes of a store.
LEMMA SetGood ==
    ASSUME NEW s, Good(s), NEW k \in Keys, NEW v \in Values, hasSecrets \in BOOLEAN
    PROVE  LET r == Updated(Popped(s, k), Translated(k), v) IN
           /\ Good(r) /\ (OneCa(s) => OneCa(r))
           /\ ValueIn(r, k) = v
           /\ \A j \in Keys \ {k} : ValueIn(r, j) = ValueIn(s, j)
  <1>. DEFINE p == Popped(s, k)
              n == Translated(k)
              m == Migrated(p, n)
              r == Updated(p, n, v)
  <1>0. Absent \notin Values /\ Keys \subseteq Names /\ n \in Names
    BY SecretsAssumption DEF Names, Keys, Translated
  <1>1. /\ p \in StoreType /\ p.bag = [s.bag EXCEPT ![k] = Absent]
        /\ p.content = s.content /\ p.label = s.label /\ p.uri = s.uri /\ p.older = s.older
    BY <1>0 DEF Good, Popped, StoreType
  <1>2. Good(p)
    BY <1>0, <1>1 DEF Good, StoreType
  <1>. HIDE DEF p
  <1>3. CASE ~hasSecrets
    <2>1. n = k /\ m = p /\ r = [p EXCEPT !.bag[k] = v]
      BY <1>3 DEF Translated, Migrated, Updated
    <2>2. s.content = NoContent /\ s.label = "none"
      BY <1>3 DEF Good
    <2>3. /\ r \in StoreType /\ r.bag = [s.bag EXCEPT ![k] = v] /\ r.content = NoContent
          /\ r.label = "none"
      BY <1>0, <1>1, <2>1, <2>2 DEF StoreType
    <2>4. \A x \in Names : NoContent[x] = Absent
      BY DEF NoContent
    <2>5. "cauth" \in Names /\ "ca" \in Names /\ k # "cauth"
      BY DEF Names, Keys
    <2>6. s.bag \in [Names -> Values \cup {Absent}]
      BY DEF Good, StoreType
    <2>. HIDE DEF r
    <2>7. Good(r)
      BY <1>0, <2>2, <2>3, <2>4, <2>5, <2>6 DEF Good
    <2>8. \A j \in Keys : SecretName(j) \in Names
      BY DEF SecretName, Keys, Names
    <2>9. \A j \in Keys \ {k} : r.bag[j] = s.bag[j]
      BY <1>0, <2>3, <2>6
    <2>10. r.bag[k] = v
      BY <1>0, <2>3, <2>6
    <2>11. OneCa(r)
      BY <2>3, <2>4, <2>5 DEF OneCa
    <2>12. ValueIn(r, k) = v
      BY <1>0, <2>10 DEF ValueIn
    <2>13. \A j \in Keys \ {k} : ValueIn(r, j) = ValueIn(s, j)
      BY <2>2, <2>3, <2>9 DEF ValueIn
    <2>. QED
      BY <2>7, <2>11, <2>12, <2>13 DEF r, p
  <1>4. CASE hasSecrets
    <2>. DEFINE q == Labelled(p)
    <2>0. /\ q \in StoreType /\ q.bag = p.bag /\ q.content = s.content
          /\ q.label = "none" <=> s.label = "none"
          /\ q.label \in {"none", "old", "present"}
          /\ q.uri = s.uri
      <3>1. Good(q) /\ q.bag = p.bag /\ q.content = p.content
            /\ (q.label = "none" <=> p.label = "none")
        BY <1>2, LabelledGood
      <3>2. q.label # "unlabelled" /\ q.uri = p.uri
        BY <1>2, FieldsGood DEF Labelled, Good, StoreType
      <3>. QED
        BY <1>1, <3>1, <3>2 DEF Good, StoreType, Labels
    <2>. HIDE DEF q
    <2>1. m = [q EXCEPT !.bag[n] = Absent, !.uri = p.uri /\ ~Found(p)]
      BY <1>4 DEF Migrated, q
    <2>2. /\ m \in StoreType
          /\ \A x \in Names : m.bag[x] = IF x = k \/ x = n THEN Absent ELSE s.bag[x]
          /\ m.content = s.content /\ m.label = q.label /\ m.older = q.older
      <3>1. s.bag \in [Names -> Values \cup {Absent}] /\ p.uri \in BOOLEAN
        BY <1>1 DEF Good, StoreType
      <3>2. q.bag \in [Names -> Values \cup {Absent}]
        BY <2>0 DEF StoreType
      <3>3. [q.bag EXCEPT ![n] = Absent] \in [Names -> Values \cup {Absent}]
        BY <1>0, <3>2
      <3>4. /\ m.bag = [q.bag EXCEPT ![n] = Absent] /\ m.uri = (p.uri /\ ~Found(p))
            /\ m.content = q.content /\ m.label = q.label /\ m.older = q.older
            /\ m \in StoreType
        BY <2>0, <2>1, <3>1, <3>3 DEF StoreType
      <3>. QED
        BY <1>0, <1>1, <2>0, <3>1, <3>2, <3>4
    <2>3. Found(m) <=> s.label # "none"
      BY <2>0, <2>2 DEF Found
    <2>4. Fields(m) \cup {n} \subseteq {x \in Names : s.content[x] \in Values} \cup {n}
      BY <2>2 DEF Fields
    <2>5. \A x \in Names : m.bag[x] # Absent => s.bag[x] # Absent /\ x # k /\ x # n
      BY <2>2
    <2>6. ~FallsBack(m, Fields(m) \cup {n})
      BY <2>4, <2>5 DEF FallsBack, InBag, Good
    <2>. HIDE DEF m
    <2>7. r = Stored(m, n, v)
      BY <1>4, <2>6 DEF Updated, m
    <2>8. /\ r \in StoreType /\ r.bag = m.bag /\ r.label = "present"
          /\ r.content = [s.content EXCEPT ![n] = v]
      <3>1. CASE s.label = "none"
        <4>1. r = [m EXCEPT !.label = "present", !.content = [NoContent EXCEPT ![n] = v]]
          BY <2>3, <2>7, <3>1 DEF Stored
        <4>2. s.content = NoContent
          BY <3>1 DEF Good
        <4>3. [NoContent EXCEPT ![n] = v] \in [Names -> Values \cup {Absent, Deleted}]
          BY <1>0 DEF NoContent
        <4>. QED
          BY <2>2, <4>1, <4>2, <4>3 DEF StoreType, Labels
      <3>2. CASE s.label # "none"
        <4>1. Labelled(m) = m
          BY <2>0, <2>2 DEF Labelled
        <4>2. r = WithContent(m, n, v) /\ m.label \in {"old", "present"}
          BY <2>0, <2>2, <2>3, <2>7, <3>2, <4>1 DEF Stored
        <4>3. [s.content EXCEPT ![n] = v] \in [Names -> Values \cup {Absent, Deleted}]
          BY DEF Good, StoreType
        <4>4. CASE m.label = "old"
          <5>1. r = [m EXCEPT !.label = "present", !.older = m.content, !.content[n] = v]
            BY <4>2, <4>4 DEF WithContent
          <5>2. /\ m.bag \in [Names -> Values \cup {Absent}] /\ m.uri \in BOOLEAN
                /\ m.content \in [Names -> Values \cup {Absent, Deleted}]
            BY <2>2 DEF StoreType
          <5>3. /\ r.bag = m.bag /\ r.label = "present" /\ r.older = m.content /\ r.uri = m.uri
                /\ r.content = [m.content EXCEPT ![n] = v]
            BY <2>2, <5>1 DEF StoreType
          <5>4. r = [bag |-> r.bag, uri |-> r.uri, label |-> r.label, content |-> r.content,
                     older |-> r.older]
            BY <2>2, <5>1 DEF StoreType
          <5>. QED
            BY <2>2, <4>3, <5>2, <5>3, <5>4 DEF StoreType, Labels
        <4>5. CASE m.label = "present"
          <5>1. r = [m EXCEPT !.content[n] = v]
            BY <4>2, <4>5 DEF WithContent
          <5>. QED
            BY <2>2, <4>3, <4>5, <5>1 DEF StoreType, Labels
        <4>. QED
          BY <4>2, <4>4, <4>5
      <3>. QED
        BY <3>1, <3>2
    <2>. HIDE DEF r
    <2>9. /\ "cauth" \in Names /\ "ca" \in Names /\ n # "ca" /\ n = SecretName(k)
          /\ \A j \in Keys : SecretName(j) \in Names /\ (j # k => SecretName(j) # n /\ j # n)
      BY <1>4 DEF Names, Keys, Translated, SecretName
    <2>10. /\ s.bag \in [Names -> Values \cup {Absent}]
           /\ s.content \in [Names -> Values \cup {Absent, Deleted}]
      BY DEF Good, StoreType
    <2>11. /\ \A x \in Names : r.bag[x] = IF x = k \/ x = n THEN Absent ELSE s.bag[x]
           /\ \A x \in Names : r.content[x] = IF x = n THEN v ELSE s.content[x]
      BY <1>0, <2>2, <2>8, <2>10
    <2>12. Good(r)
      BY <1>0, <1>4, <2>8, <2>9, <2>11 DEF Good
    <2>13. OneCa(s) => OneCa(r)
      <3>1. CASE k = "ca"
        BY <2>9, <2>11, <3>1 DEF OneCa
      <3>2. CASE k # "ca"
        <4>1. n # "cauth"
          BY <2>9, <3>2 DEF SecretName, Keys
        <4>. QED
          BY <2>9, <2>11, <4>1 DEF OneCa
      <3>. QED
        BY <3>1, <3>2
    <2>14. ValueIn(r, k) = v
      BY <1>0, <2>9, <2>11 DEF ValueIn
    <2>15. \A j \in Keys \ {k} : ValueIn(r, j) = ValueIn(s, j)
      BY <1>0, <2>9, <2>11 DEF ValueIn
    <2>. QED
      BY <2>12, <2>13, <2>14, <2>15 DEF r, p
  <1>. QED
    BY <1>3, <1>4

\* What remove_secret makes of a store.
LEMMA RemoveGood ==
    ASSUME NEW s, Good(s), NEW k \in Keys, hasSecrets \in BOOLEAN
    PROVE  LET r == Dropped(s, Translated(k)) IN
           /\ Good(r) /\ (OneCa(s) => OneCa(r))
           /\ OneCa(s) /\ (Translated(k) = k \/ s.bag[k] = Absent) =>
                 /\ ValueIn(r, k) = Absent
                 /\ \A j \in Keys \ {k} : ValueIn(r, j) = ValueIn(s, j)
  <1>. DEFINE n == Translated(k)
              r == Dropped(s, n)
              q == Labelled(s)
  <1>0. /\ Absent \notin Values /\ Deleted \notin Values /\ Keys \subseteq Names /\ n \in Names
        /\ \A j \in Keys : SecretName(j) \in Names
        /\ "ca" \in Names /\ "cauth" \in Names
    BY SecretsAssumption DEF Names, Keys, Translated, SecretName
  <1>1. /\ s.bag \in [Names -> Values \cup {Absent}]
        /\ s.content \in [Names -> Values \cup {Absent, Deleted}]
        /\ s.uri \in BOOLEAN
    BY DEF Good, StoreType
  <1>2. CASE n \in Fields(s)
    <2>1. s.content[n] \in Values /\ s.bag[n] = Absent /\ s.label # "none"
      <3>1. s.content[n] \in Values
        BY <1>2, FieldsGood
      <3>2. s.label # "none"
        BY <1>2, FieldsGood DEF Fields
      <3>. QED
        BY <1>0, <3>1, <3>2 DEF Good
    <2>2. hasSecrets /\ n = SecretName(k) /\ n # "ca"
      BY <1>0, <2>1 DEF Good, Translated, SecretName, Keys
    <2>3. /\ q \in StoreType /\ q.bag = s.bag /\ q.content = s.content
          /\ q.label \in {"old", "present"}
      <3>1. /\ Good(q) /\ q.bag = s.bag /\ q.content = s.content
            /\ (q.label = "none" <=> s.label = "none")
        BY LabelledGood
      <3>2. q.label # "unlabelled"
        BY FieldsGood DEF Labelled, Good, StoreType
      <3>. QED
        BY <2>1, <3>1, <3>2 DEF Good, StoreType, Labels
    <2>. HIDE DEF q
    <2>4. r = WithContent(q, n, Deleted)
      BY <1>2, FieldsGood DEF Dropped, q
    <2>5. [s.content EXCEPT ![n] = Deleted] \in [Names -> Values \cup {Absent, Deleted}]
      BY <1>1
    <2>6. /\ r \in StoreType /\ r.bag = s.bag /\ r.label = "present"
          /\ r.content = [s.content EXCEPT ![n] = Deleted]
      <3>1. CASE q.label = "old"
        <4>1. r = [q EXCEPT !.label = "present", !.older = q.content, !.content[n] = Deleted]
          BY <2>4, <3>1 DEF WithContent
        <4>2. /\ r.bag = q.bag /\ r.label = "present" /\ r.older = q.content /\ r.uri = q.uri
              /\ r.content = [q.content EXCEPT ![n] = Deleted] /\ q.uri \in BOOLEAN
          BY <2>3, <4>1 DEF StoreType
        <4>3. r = [bag |-> r.bag, uri |-> r.uri, label |-> r.label, content |-> r.content,
                   older |-> r.older]
          BY <2>3, <4>1 DEF StoreType
        <4>. QED
          BY <1>1, <2>3, <2>5, <4>2, <4>3 DEF StoreType, Labels
      <3>2. CASE q.label = "present"
        <4>1. r = [q EXCEPT !.content[n] = Deleted]
          BY <2>4, <3>2 DEF WithContent
        <4>. QED
          BY <2>3, <2>5, <3>2, <4>1 DEF StoreType, Labels
      <3>. QED
        BY <2>3, <3>1, <3>2
    <2>. HIDE DEF r
    <2>7. \A x \in Names : r.content[x] = IF x = n THEN Deleted ELSE s.content[x]
      BY <1>0, <1>1, <2>6
    <2>8. Good(r)
      BY <1>0, <2>2, <2>6, <2>7 DEF Good
    <2>9. OneCa(s) => OneCa(r) /\ (k = "ca" => s.bag["ca"] = Absent)
      BY <1>0, <2>1, <2>2, <2>6, <2>7, SecretsAssumption DEF OneCa, SecretName
    <2>10. OneCa(s) => ValueIn(r, k) = Absent
      <3>1. OneCa(s) => s.bag[k] = Absent
        BY <2>1, <2>2, <2>9 DEF SecretName
      <3>. QED
        BY <1>0, <2>2, <2>6, <2>7, <3>1 DEF ValueIn
    <2>11. \A j \in Keys \ {k} : ValueIn(r, j) = ValueIn(s, j)
      <3>1. \A j \in Keys \ {k} : SecretName(j) # n
        BY <2>2 DEF SecretName, Keys
      <3>. QED
        BY <1>0, <2>6, <2>7, <3>1 DEF ValueIn
    <2>. QED
      BY <2>8, <2>9, <2>10, <2>11 DEF r
  <1>3. CASE n \notin Fields(s)
    <2>1. r = [s EXCEPT !.bag[n] = Absent] /\ s.content[n] \notin Values
      BY <1>0, <1>3, FieldsGood DEF Dropped
    <2>2. [s.bag EXCEPT ![n] = Absent] \in [Names -> Values \cup {Absent}]
      BY <1>1
    <2>3. /\ r \in StoreType /\ r.bag = [s.bag EXCEPT ![n] = Absent]
          /\ r.label = s.label /\ r.uri = s.uri /\ r.content = s.content
      BY <2>1, <2>2 DEF Good, StoreType
    <2>. HIDE DEF r
    <2>4. \A x \in Names : r.bag[x] = IF x = n THEN Absent ELSE s.bag[x]
      BY <1>0, <1>1, <2>3
    <2>5. Good(r) /\ (OneCa(s) => OneCa(r))
      BY <1>0, <2>3, <2>4 DEF Good, OneCa
    <2>6. n = k \/ s.bag[k] = Absent => ValueIn(r, k) = Absent
      <3>1. s.content[SecretName(k)] \notin Values
        <4>1. CASE n = SecretName(k)
          BY <2>1, <4>1
        <4>2. CASE n # SecretName(k)
          <5>1. ~hasSecrets
            BY <4>2 DEF Translated, SecretName
          <5>. QED
            BY <1>0, <5>1 DEF Good, NoContent
        <4>. QED
          BY <4>1, <4>2
      <3>. QED
        BY <1>0, <2>3, <2>4, <3>1 DEF ValueIn
    <2>7. \A j \in Keys \ {k} : ValueIn(r, j) = ValueIn(s, j)
      <3>1. \A j \in Keys \ {k} : j # n
        BY DEF Translated, Keys
      <3>. QED
        BY <1>0, <2>3, <2>4, <3>1 DEF ValueIn
    <2>. QED
      BY <2>5, <2>6, <2>7 DEF r
  <1>. QED
    BY <1>2, <1>3

-----------------------------------------------------------------------------
(* The invariant. *)

LEMMA InitGood ==
    ASSUME Init
    PROVE  StoresInv /\ CaInv
  <1>1. PICK held \in {f \in [Names -> Values \cup {Absent}] : f["cauth"] = Absent},
             kept \in {f \in [Names -> Values \cup {Absent}] : f["ca"] = Absent},
             label \in Labels :
          /\ label # "none" => hasSecrets /\ held = NoContent
          /\ label = "none" => kept = NoContent
          /\ work = [bag |-> held, uri |-> label = "unlabelled", label |-> label,
                     content |-> kept, older |-> NoContent]
    BY DEF Init
  <1>2. /\ NoContent \in [Names -> Values \cup {Absent, Deleted}]
        /\ \A n \in Names : NoContent[n] = Absent
    BY DEF NoContent
  <1>3. kept \in [Names -> Values \cup {Absent, Deleted}]
    OBVIOUS
  <1>4. /\ work.bag = held /\ work.content = kept /\ work.label = label
        /\ work.uri = (label = "unlabelled") /\ work.older = NoContent
    BY <1>1
  <1>5. work \in StoreType
    BY <1>1, <1>2, <1>3 DEF StoreType
  <1>6. "ca" \in Names /\ "cauth" \in Names
    BY DEF Names, Keys
  <1>7. \A n \in Names : work.content[n] \in Values => work.bag[n] = Absent
    BY <1>1, <1>2, <1>4, SecretsAssumption
  <1>8. Good(work)
    BY <1>1, <1>4, <1>5, <1>7 DEF Good
  <1>9. OneCa(work)
    BY <1>1, <1>2, <1>4, <1>6 DEF OneCa
  <1>. QED
    BY <1>8, <1>9 DEF Init, StoresInv, CaInv

\* Every step of a hook, and every step between two hooks.
LEMMA NextGood ==
    ASSUME StoresInv, [Next]_vars
    PROVE  StoresInv' /\ (CaInv => CaInv')
  <1>. USE DEF StoresInv, CaInv
  <1>1. ASSUME NEW k \in Keys, NEW v \in Values, SetSecret(k, v)
        PROVE  StoresInv' /\ (CaInv => CaInv')
    <2>1. Good(work') /\ (OneCa(work) => OneCa(work'))
      BY <1>1, SetGood DEF SetSecret
    <2>2. operations' # 0 /\ operations' \in Nat
      BY <1>1 DEF SetSecret, Counted
    <2>3. UNCHANGED <<hasSecrets, leader, saved>>
      BY <1>1 DEF SetSecret
    <2>. QED
      BY <2>1, <2>2, <2>3 DEF Good, OneCa
  <1>2. ASSUME NEW k \in Keys, RemoveSecret(k)
        PROVE  StoresInv' /\ (CaInv => CaInv')
    <2>1. Good(work') /\ (OneCa(work) => OneCa(work'))
      BY <1>2, RemoveGood DEF RemoveSecret
    <2>2. operations' # 0 /\ operations' \in Nat
      BY <1>2 DEF RemoveSecret, Counted
    <2>3. UNCHANGED <<hasSecrets, leader, saved>>
      BY <1>2 DEF RemoveSecret
    <2>. QED
      BY <2>1, <2>2, <2>3 DEF Good, OneCa
  <1>3. CASE GetSecret
    <2>1. /\ Good(work') /\ (OneCa(work) => OneCa(work'))
          /\ work'.bag = work.bag /\ work'.content = work.content
          /\ (work.label = "old" <=> work'.label = "old")
      BY <1>3, LabelledGood DEF GetSecret
    <2>2. UNCHANGED <<hasSecrets, leader, saved, operations>>
      BY <1>3 DEF GetSecret
    <2>. QED
      BY <2>1, <2>2 DEF Good, OneCa
  <1>4. CASE HookEnds
    BY <1>4 DEF HookEnds, Good, OneCa
  <1>5. CASE HookFails
    BY <1>5 DEF HookFails, Good, OneCa
  <1>6. CASE JujuUpgraded
    BY <1>6 DEF JujuUpgraded, Good, OneCa
  <1>7. CASE LeaderChanges
    BY <1>7 DEF LeaderChanges, Good, OneCa
  <1>8. CASE UNCHANGED vars
    BY <1>8 DEF vars, Good, OneCa
  <1>. QED
    BY <1>1, <1>2, <1>3, <1>4, <1>5, <1>6, <1>7, <1>8 DEF Next

LEMMA StoresInvariant == Spec => [](StoresInv /\ CaInv)
  <1>1. Init => StoresInv /\ CaInv
    BY InitGood
  <1>2. StoresInv /\ CaInv /\ [Next]_vars => (StoresInv /\ CaInv)'
    BY NextGood
  <1>. QED
    BY <1>1, <1>2, PTL DEF Spec

\* No field is both in the data bag and in the secret, after any number of writes,
\* removals, failed hooks, changes of the leader and an upgrade of Juju: get_secret of
\* the leader never falls back to the bag and loses sight of the secret
\* (_process_secret_fields).
THEOREM NeverTwice == Spec => []Inv
  <1>1. StoresInv => Inv
    BY FieldsGood DEF StoresInv, Inv, TypeOK, NotTwice, Good
  <1>. QED
    BY <1>1, StoresInvariant, PTL

-----------------------------------------------------------------------------
(* The plain store. *)

\* What is read, by the place it is in.
ReadsAre ==
    /\ Reads(work) = [k \in Keys |-> ValueIn(work, k)]
    /\ Reads(saved) = [k \in Keys |-> ValueIn(saved, k)]

LEMMA ReadsGood == StoresInv => ReadsAre
  BY GetGood DEF StoresInv, ReadsAre, Reads

\* One operation changes what is read for its key and nothing else.
LEMMA WriteOne ==
    ASSUME StoresInv, CaInv, ~MayRemoveOld, NEW k \in Keys
    PROVE  /\ \A v \in Values : SetSecret(k, v) =>
                 [j \in Keys |-> ValueIn(work', j)]
                     = [[j \in Keys |-> ValueIn(work, j)] EXCEPT ![k] = v]
           /\ RemoveSecret(k) =>
                 [j \in Keys |-> ValueIn(work', j)]
                     = [[j \in Keys |-> ValueIn(work, j)] EXCEPT ![k] = Absent]
  <1>1. ASSUME NEW v \in Values, SetSecret(k, v)
        PROVE  ValueIn(work', k) = v /\ \A j \in Keys \ {k} : ValueIn(work', j) = ValueIn(work, j)
    BY <1>1, SetGood DEF SetSecret, StoresInv
  <1>2. ASSUME RemoveSecret(k)
        PROVE  /\ ValueIn(work', k) = Absent
               /\ \A j \in Keys \ {k} : ValueIn(work', j) = ValueIn(work, j)
    BY <1>2, RemoveGood DEF RemoveSecret, StoresInv, CaInv
  <1>. QED
    BY <1>1, <1>2

LEMMA StepIsOfStore ==
    ASSUME StoresInv, CaInv, ReadsAre, ReadsAre', ~MayRemoveOld, [Next]_vars
    PROVE  [Store!StoreNext]_(Store!storeVars)
  <1>. DEFINE Now(s) == [j \in Keys |-> ValueIn(s, j)]
  <1>1. /\ Reads(work) = Now(work) /\ Reads(saved) = Now(saved)
        /\ Reads(work)' = Now(work') /\ Reads(saved)' = Now(saved')
    BY DEF ReadsAre, ValueIn
  <1>2. ASSUME NEW k \in Keys, NEW v \in Values, SetSecret(k, v)
        PROVE  Store!Write(k, v)
    <2>1. Now(work') = [Now(work) EXCEPT ![k] = v] /\ saved' = saved
      BY <1>2, WriteOne DEF SetSecret
    <2>. HIDE DEF Now
    <2>. QED
      BY <1>1, <2>1 DEF Store!Write
  <1>3. ASSUME NEW k \in Keys, RemoveSecret(k)
        PROVE  Store!Write(k, Absent)
    <2>1. Now(work') = [Now(work) EXCEPT ![k] = Absent] /\ saved' = saved
      BY <1>3, WriteOne DEF RemoveSecret
    <2>. HIDE DEF Now
    <2>. QED
      BY <1>1, <2>1 DEF Store!Write
  <1>4. ASSUME GetSecret
        PROVE  UNCHANGED Store!storeVars
    <2>1. Now(work') = Now(work) /\ saved' = saved
      BY <1>4, LabelledGood DEF GetSecret, StoresInv
    <2>. HIDE DEF Now
    <2>. QED
      BY <1>1, <2>1 DEF Store!storeVars
  <1>. HIDE DEF Now
  <1>5. HookEnds => Store!Commit
    BY <1>1 DEF HookEnds, Store!Commit
  <1>6. HookFails => Store!Abort
    BY <1>1 DEF HookFails, Store!Abort
  <1>7. JujuUpgraded \/ LeaderChanges \/ UNCHANGED vars => UNCHANGED Store!storeVars
    BY <1>1 DEF JujuUpgraded, LeaderChanges, vars, Store!storeVars
  <1>. QED
    BY <1>2, <1>3, <1>4, <1>5, <1>6, <1>7 DEF Next, Store!StoreNext

\* Wherever get_secret, set_secret and remove_secret find and keep a value, they
\* implement the plain store, if no key is removed that is still under its old name.
THEOREM StoreImplemented == ~MayRemoveOld => (Spec => ImplementsStore)
  <1>. SUFFICES ASSUME ~MayRemoveOld
                PROVE  Spec => ImplementsStore
    OBVIOUS
  <1>1. StoresInv /\ Init => Store!StoreInit
    <2>1. ASSUME NEW k \in Keys, StoresInv
          PROVE  ValueIn(work, k) \in Values \cup {Absent}
      BY <2>1 DEF ValueIn, StoresInv, Good, StoreType, Names
    <2>2. StoresInv => [k \in Keys |-> ValueIn(work, k)] \in [Keys -> Values \cup {Absent}]
      BY <2>1
    <2>. QED
      BY <2>2, ReadsGood DEF Init, ReadsAre, Store!StoreInit
  <1>2. StoresInv /\ CaInv /\ ReadsAre /\ ReadsAre' /\ [Next]_vars
            => [Store!StoreNext]_(Store!storeVars)
    BY StepIsOfStore
  <1>. QED
    BY <1>1, <1>2, ReadsGood, StoresInvariant, PTL DEF Spec, ImplementsStore, Store!StoreSpec

\* A value that set_secret wrote is the one that get_secret reads next, and what
\* remove_secret removed is not read any more, if it was not under its old name.
THEOREM WritesAreRead == ~MayRemoveOld => (Spec => WritesTake)
  <1>. SUFFICES ASSUME ~MayRemoveOld
                PROVE  Spec => WritesTake
    OBVIOUS
  <1>. DEFINE Taken == \A k \in Keys :
                         /\ RemoveSecret(k) => Reads(work)'[k] = Absent
                         /\ \A v \in Values : SetSecret(k, v) => Reads(work)'[k] = v
  <1>1. ASSUME StoresInv, CaInv, ReadsAre', NEW k \in Keys
        PROVE  /\ RemoveSecret(k) => Reads(work)'[k] = Absent
               /\ \A v \in Values : SetSecret(k, v) => Reads(work)'[k] = v
    <2>1. Reads(work)' = [j \in Keys |-> ValueIn(work', j)]
      BY <1>1 DEF ReadsAre, ValueIn
    <2>. QED
      BY <1>1, <2>1, WriteOne
  <1>2. StoresInv /\ CaInv /\ ReadsAre' => Taken
    BY <1>1
  <1>. HIDE DEF Taken
  <1>3. [][Taken]_vars => WritesTake
    BY PTL DEF Taken, WritesTake
  <1>. QED
    BY <1>2, <1>3, ReadsGood, StoresInvariant, PTL DEF Spec

\* Until the charm writes its first secret, the data bag and the content and old label
\* of the secret are as the earlier revision left them, so that it can be gone back to
\* ("All data is kept intact until the first write operation", data_interfaces.py).
THEOREM IntactUntilWrite == Spec => KeptUntilWrite
  <1>. DEFINE Kept == operations' = 0 => /\ work'.bag = work.bag /\ work'.content = work.content
                                        /\ (work.label = "old" => work'.label = "old")
  <1>1. ASSUME StoresInv, [Next]_vars
        PROVE  Kept
    <2>1. ASSUME NEW k \in Keys, NEW v \in Values, SetSecret(k, v)
          PROVE  operations' # 0
      BY <1>1, <2>1 DEF SetSecret, Counted, StoresInv
    <2>2. ASSUME NEW k \in Keys, RemoveSecret(k)
          PROVE  operations' # 0
      BY <1>1, <2>2 DEF RemoveSecret, Counted, StoresInv
    <2>3. CASE GetSecret
      BY <1>1, <2>3, LabelledGood DEF GetSecret, StoresInv
    <2>4. CASE HookEnds \/ JujuUpgraded \/ LeaderChanges \/ UNCHANGED vars
      BY <2>4 DEF HookEnds, JujuUpgraded, LeaderChanges, vars
    <2>5. CASE HookFails
      BY <1>1, <2>5 DEF HookFails, StoresInv
    <2>. QED
      BY <1>1, <2>1, <2>2, <2>3, <2>4, <2>5 DEF Next
  <1>2. StoresInv /\ [Next]_vars => Kept
    BY <1>1
  <1>. HIDE DEF Kept
  <1>3. [][Kept]_vars => KeptUntilWrite
    BY PTL DEF Kept, KeptUntilWrite
  <1>. QED
    BY <1>2, <1>3, StoresInvariant, PTL DEF Spec
=============================================================================
