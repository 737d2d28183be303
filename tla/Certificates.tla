--------------------------- MODULE Certificates ---------------------------
(***************************************************************************)
(* TLS of a unit: PostgreSQLTLS (postgresql_tls.py) and both sides of the   *)
(* tls_certificates library for the "certificates" relation, and           *)
(* TLSTransfer (tls_transfer.py) with the certificate_transfer library for  *)
(* "receive-ca-cert", with what update_config of src/charm.py does of TLS.  *)
(*                                                                         *)
(* The unit asks for a certificate with a signing request (CSR); the        *)
(* provider answers for every request of the unit's bag that has none.  A   *)
(* request is a number, which is also the name of its certificate; the key  *)
(* it was signed with is keyOf of it.  The unit keeps key, request and      *)
(* certificate in secrets, pushes them as files, and Patroni and PostgreSQL *)
(* serve what they read when they are started or reloaded.                  *)
(***************************************************************************)
EXTENDS Naturals, Sequences, SequencesExt, FiniteSets

CONSTANTS
    MaxRequests,     \* signing requests that the unit makes
    MaxIncidents,    \* what happens besides the first relation: see Incidents
    MayBoth,         \* both relations may be made
    MayOvertake,     \* a relation may change while an event of it is handled or deferred
    MayRevokeMidway, \* certificates may be revoked while the unit waits for one
    MayRestartMidway \* the container may restart while the unit waits for one

ASSUME CertificatesAssumption ==
    /\ {MaxRequests, MaxIncidents} \subseteq Nat
    /\ {MayBoth, MayOvertake, MayRevokeMidway, MayRestartMidway} \subseteq BOOLEAN

VARIABLES
    related,              \* "none", "joined" or "removed"
    bag,                  \* the unit's bag: the requests
    issued, revoked,      \* the provider's bag: the certificates in order; those marked as revoked
    asked,                \* the provider has not looked at the unit's bag since it changed
    made, keyOf,          \* the requests made so far, and the key of each
    key, csr, cert,       \* secrets of the unit, 0 if absent; "ca" and "chain" come and go with cert
    labels, aged, ended,  \* certificates with a secret of the library; near their end; past it
    keyFile, certFile,    \* key.pem and cert.pem on the storage
    conf, serving,        \* TLS in patroni.yml; the certificate served, 0 for plain text
    workload,             \* "down", "ready" (no service), "starting" or "up"
    flag, told,           \* "tls" in the unit's peer bag and in the bags of the clients
    caBag, caSecret, caFile, caRelated, \* the transferred CA: the provider's, the unit's, in the container
    due, now, later,      \* hooks to run, events of the running hook, deferred events
    incidents

remote == <<issued, revoked, asked>>
request == <<bag, made, keyOf, key, csr>>
server == <<conf, serving, flag, told>>
files == <<keyFile, certFile>>
ages == <<labels, aged, ended>>
transfer == <<caBag, caSecret, caFile, caRelated>>
vars == <<related, remote, request, cert, ages, files, server, workload, transfer, due, now, later,
          incidents>>

Requests == 1 .. MaxRequests
Incidents == {"key", "again", "removed", "revoked", "expiring", "expired", "restart", "stumble",
              "died", "new ca", "other"}
Incident(i) ==
    i \notin incidents /\ Cardinality(incidents) < MaxIncidents /\ incidents' = incidents \cup {i}

\* The events, and what they carry: a request or a CA.
Kinds == {"joined", "changed", "broken", "key", "available", "invalidated", "expired", "pebble",
          "ca", "ca removed", "other"}
Events == [kind : Kinds, arg : 0 .. MaxRequests + 2]
E(k, a) == [kind |-> k, arg |-> a]

Init ==
    /\ related = "none" /\ bag = {} /\ issued = <<>> /\ revoked = {} /\ asked = FALSE
    /\ made = 0 /\ keyOf = [c \in Requests |-> 0]
    /\ key = 0 /\ csr = 0 /\ cert = 0 /\ labels = {} /\ aged = {} /\ ended = {}
    /\ keyFile = 0 /\ certFile = 0 /\ conf = FALSE /\ serving = 0
    /\ workload = "up" /\ flag = FALSE /\ told = FALSE
    /\ caBag = 0 /\ caSecret = 0 /\ caFile = 0 /\ caRelated = FALSE
    /\ due = {} /\ now = <<>> /\ later = <<>> /\ incidents = {}

-----------------------------------------------------------------------------
(* update_config. *)

IsTlsEnabled(k, c) == k # 0 /\ c # 0
Pair(k, c) == k # 0 /\ c # 0 /\ keyOf[c] = k

\* What Patroni and PostgreSQL serve once they have read the configuration: a pair of files
\* that does not fit leaves them with what they have.
Reloaded == IF ~conf' THEN 0 ELSE IF Pair(keyFile', certFile') THEN certFile' ELSE serving

\* The API is called with the scheme that the flag says.
MemberStarted == workload = "up" /\ flag = (serving # 0)

\* The flag, once Patroni has been told to reload.
Flagged(e) == flag' = e

UpdateConfig(c) ==
    /\ workload # "down"
    /\ conf' = IsTlsEnabled(key, c)
    /\ IF workload = "ready"
       THEN flag' = conf' /\ told' = conf' /\ UNCHANGED serving
       ELSE /\ serving' = Reloaded
            /\ Flagged(conf')
            /\ told' = IF MemberStarted THEN conf' ELSE told
\* Patroni's API refuses the patch: nothing is reloaded.
PatchFails(c) ==
    /\ workload = "starting"
    /\ conf' = IsTlsEnabled(key, c) /\ UNCHANGED <<serving, flag, told>>
Updated == workload = "ready" \/ MemberStarted

-----------------------------------------------------------------------------
(* Hooks: the events that were deferred come first. *)

Begin(e) ==
    /\ now = <<>> /\ e \in due
    /\ e.kind = "changed" => \A o \in due : o.kind # "joined"
    /\ now' = Append(later, e) /\ later' = <<>> /\ due' = due \ {e}
    /\ UNCHANGED <<related, remote, request, cert, ages, files, server, workload, transfer, incidents>>
BeginOther ==
    /\ now = <<>> /\ due = {} /\ later # <<>>
    /\ now' = later /\ later' = <<>>
    /\ UNCHANGED <<related, remote, request, cert, ages, files, server, workload, transfer, due, incidents>>

Handles(k) == now # <<>> /\ Head(now).kind = k
Arg == Head(now).arg
Done == now' = Tail(now) /\ UNCHANGED later
Defer == now' = Tail(now) /\ later' = Append(later, Head(now))

\* The handler calls update_config last and defers if it fails.
DoneOrDeferred(c) ==
    /\ UpdateConfig(c) \/ PatchFails(c)
    /\ IF Updated THEN Done ELSE Defer

-----------------------------------------------------------------------------
(* PostgreSQLTLS. *)

\* The relation is in the model of the unit until the hook that says it is broken.
InModel == related = "joined" \/ E("broken", 0) \in due

\* _request_certificate and the library's request_certificate_creation.
New == made + 1
Saved == csr' = New
Requested(k, old) ==
    /\ made < MaxRequests
    /\ made' = New /\ keyOf' = [keyOf EXCEPT ![New] = k]
    /\ key' = k /\ Saved
    /\ IF InModel THEN bag' = (bag \ old) \cup {New} /\ asked' = TRUE
       ELSE UNCHANGED <<bag, asked>>

\* _on_set_tls_private_key and _on_tls_relation_joined.
RequestCertificate ==
    /\ Handles("key") \/ Handles("joined")
    /\ Requested(New, {})
    /\ Done
    /\ UNCHANGED <<related, issued, revoked, cert, ages, files, server, workload, transfer, due, incidents>>

\* _on_tls_relation_broken.
Cleared == cert' = 0
OnBroken ==
    /\ Handles("broken")
    /\ Cleared /\ UNCHANGED files
    /\ DoneOrDeferred(cert')
    /\ UNCHANGED <<related, remote, request, ages, workload, transfer, due, incidents>>

\* _on_certificate_available, with push_tls_files_to_workload.
KnownAnyway(c) == TRUE
Known(c) == c = csr
Pushed(k, c) == keyFile' = k /\ certFile' = IF c # 0 THEN c ELSE certFile
OnCertificateAvailable ==
    /\ Handles("available")
    /\ \/ ~Known(Arg) /\ Done /\ UNCHANGED <<cert, files, server>>
       \/ /\ Known(Arg) /\ cert' = Arg
          /\ Pushed(key, cert') /\ DoneOrDeferred(cert')
       \/ /\ Known(Arg) /\ cert' = Arg
          /\ workload = "down" /\ Defer /\ UNCHANGED <<files, server>>
    /\ UNCHANGED <<related, remote, request, ages, workload, transfer, due, incidents>>

\* The key has been replaced, or is about to be, and the certificate is for the other one.
Midway == (cert # 0 /\ keyOf[cert] # key) \/ E("key", 0) \in due \cup ToSet(now)

\* The container restarts before the last file is pushed.
PushFails ==
    /\ Handles("available") /\ Known(Arg) /\ workload # "down" /\ Incident("restart")
    /\ MayRestartMidway \/ ~Midway
    /\ cert' = Arg /\ keyFile' = key
    /\ workload' = "down" /\ serving' = 0 /\ caFile' = 0
    /\ Defer
    /\ UNCHANGED <<related, remote, request, ages, certFile, conf, flag, told, caBag, caSecret,
                   caRelated, due>>

\* A hook that dies at the end of that handler is run again, without what it wrote in secrets
\* and bags.
AvailableDies ==
    /\ Handles("available") /\ Known(Arg) /\ Incident("died")
    /\ Pushed(key, Arg)
    /\ workload # "down" /\ conf' = IsTlsEnabled(key, Arg)
    /\ serving' = IF workload = "ready" THEN serving ELSE Reloaded
    /\ UNCHANGED <<related, remote, request, cert, ages, flag, told, workload, transfer, due, now, later>>

\* _on_certificate_expiring, with request_certificate_renewal.
NothingSuperseded == {}
Superseded == {csr}
DroppedOnExpiry == cert' = IF Arg = cert THEN 0 ELSE cert
KeptOnExpiry == cert' = cert
OnCertificateExpiring ==
    /\ Handles("invalidated") /\ KeptOnExpiry
    /\ IF Arg = cert THEN Requested(key, Superseded) ELSE UNCHANGED <<request, asked>>
    /\ Done
    /\ UNCHANGED <<related, issued, revoked, ages, files, server, workload, transfer, due, incidents>>

-----------------------------------------------------------------------------
(* The library: the side of the unit. *)

\* SelectSeq(issued, LAMBDA c : c \in bag), the one sequence of this set: the certificates
\* that answer a request, in their order.
Answers ==
    LET places == {i \in DOMAIN issued : issued[i] \in bag} IN
    {[i \in DOMAIN f |-> issued[f[i]]] :
        f \in {g \in [1 .. Cardinality(places) -> places] :
                  \A i, j \in DOMAIN g : i < j => g[i] < g[j]}}

\* _on_relation_changed: an event for each certificate that answers a request.
Emitted(mine) ==
    [i \in DOMAIN mine |-> E(IF mine[i] \in revoked THEN "invalidated" ELSE "available", mine[i])]
OnChanged ==
    /\ Handles("changed")
    /\ \E mine \in Answers :
          /\ now' = Emitted(mine) \o Tail(now) /\ UNCHANGED later
          /\ labels' = (labels \ revoked) \cup (ToSet(mine) \ revoked)
    /\ UNCHANGED <<related, remote, request, cert, aged, ended, files, server, workload,
                   transfer, due, incidents>>

\* _on_secret_expired: near its end or past it, a certificate is renewed.
OnSecretExpired ==
    /\ Handles("expired")
    /\ IF InModel /\ Arg \in ToSet(issued)
       THEN /\ now' = <<E("invalidated", Arg)>> \o Tail(now)
            /\ labels' = IF Arg \in ended THEN labels \ {Arg} ELSE labels
       ELSE now' = Tail(now) /\ labels' = labels \ {Arg}
    /\ UNCHANGED <<related, remote, request, cert, aged, ended, files, server, workload,
                   transfer, due, later, incidents>>

-----------------------------------------------------------------------------
(* The library: the side of the provider, and its charm, which signs requests. *)

Told == due' = due \cup {E("changed", 0)}

\* _on_relation_changed: certificates for which there is no request any more are revoked.
OnProviderChanged ==
    /\ related = "joined" /\ asked /\ asked' = FALSE
    /\ issued' \in Answers
    /\ revoked' = revoked \cap bag
    /\ IF issued' # issued THEN Told ELSE UNCHANGED due
    /\ UNCHANGED <<related, request, cert, ages, files, server, workload, transfer, now, later, incidents>>

\* get_outstanding_certificate_requests and set_relation_certificate.
Outstanding == bag \ ToSet(issued)
SetRelationCertificate(c) ==
    /\ related = "joined" /\ c \in Outstanding
    /\ issued' = Append(issued, c) /\ Told
    /\ UNCHANGED <<related, revoked, asked, request, cert, ages, files, server, workload, transfer,
                   now, later, incidents>>

\* revoke_all_certificates: the CA has changed.
RevokeAll ==
    /\ related = "joined" /\ issued # <<>> /\ Incident("revoked")
    /\ MayRevokeMidway \/ (cert = csr /\ ~Midway)
    /\ revoked' = ToSet(issued) /\ Told
    /\ UNCHANGED <<related, issued, asked, request, cert, ages, files, server, workload, transfer,
                   now, later>>

-----------------------------------------------------------------------------
(* TLSTransfer. *)

OnCaAvailable ==
    /\ Handles("ca")
    /\ IF ~caRelated THEN Done /\ UNCHANGED <<caSecret, caFile, server>>
       ELSE /\ caSecret' = Arg
            /\ \/ workload = "down" /\ Defer /\ UNCHANGED <<caFile, server>>
               \/ caFile' = Arg /\ UNCHANGED files /\ DoneOrDeferred(cert)
    /\ UNCHANGED <<related, remote, request, cert, ages, files, workload, caBag, caRelated, due, incidents>>

\* The relation is there in the hook that says it is broken, and not in a later one.
OnCaRemoved ==
    /\ Handles("ca removed")
    /\ IF ~caRelated THEN Done /\ UNCHANGED <<caSecret, caFile, server>>
       ELSE /\ caSecret' = 0
            /\ \/ (workload = "down" \/ caFile = 0) /\ Defer /\ UNCHANGED <<caFile, server>>
               \/ caFile # 0 /\ caFile' = 0 /\ UNCHANGED files /\ DoneOrDeferred(cert)
    /\ caRelated' = FALSE
    /\ UNCHANGED <<related, remote, request, cert, ages, files, workload, caBag, due, incidents>>

-----------------------------------------------------------------------------
(* The workload. *)

\* _on_postgresql_pebble_ready: everything is pushed, and the service started.
CaPushed == caFile' = IF caRelated /\ caSecret # 0 THEN caSecret ELSE caFile
OnPebbleReady ==
    /\ Handles("pebble")
    /\ IF workload = "down" THEN Defer /\ UNCHANGED <<files, server, workload, caFile>>
       ELSE /\ IF key # 0 THEN Pushed(key, cert) ELSE UNCHANGED files
            /\ CaPushed
            /\ IF workload = "up" \* update_config is called again, with the flag that is right
               THEN /\ conf' = IsTlsEnabled(key, cert) /\ serving' = Reloaded
                    /\ flag' = conf' /\ told' = conf'
                    /\ IF flag' = (serving' # 0) THEN Done ELSE Defer
               ELSE UpdateConfig(cert) /\ Defer
            /\ workload' = IF workload = "ready" THEN "starting" ELSE workload
    /\ UNCHANGED <<related, remote, request, cert, ages, caBag, caSecret, caRelated, due, incidents>>

\* Any other hook that calls update_config.
OnOther ==
    /\ Handles("other")
    /\ UNCHANGED files /\ (UpdateConfig(cert) \/ PatchFails(cert)) /\ Done
    /\ UNCHANGED <<related, remote, request, cert, ages, workload, transfer, due, incidents>>

\* The container restarts: what is not on the storage is lost.  The hooks that cannot do
\* without it die until it is back.
ContainerRestarts ==
    /\ workload # "down" /\ Incident("restart")
    /\ MayRestartMidway \/ ~Midway
    /\ workload' = "down" /\ serving' = 0 /\ caFile' = 0
    /\ UNCHANGED <<related, remote, request, cert, ages, files, conf, flag, told, caBag, caSecret,
                   caRelated, due, now, later>>
ContainerBack ==
    /\ workload = "down" /\ workload' = "ready" /\ due' = due \cup {E("pebble", 0)}
    /\ UNCHANGED <<related, remote, request, cert, ages, files, server, transfer, now, later, incidents>>

\* Patroni and PostgreSQL do not start with a key that does not fit the certificate.
MemberStarts ==
    /\ workload = "starting"
    /\ conf => Pair(keyFile, certFile)
    /\ workload' = "up" /\ serving' = IF conf THEN certFile ELSE 0
    /\ UNCHANGED <<related, remote, request, cert, ages, files, conf, flag, told, transfer, due, now,
                   later, incidents>>
MemberStumbles ==
    /\ workload = "up" /\ Incident("stumble")
    /\ workload' = "starting"
    /\ UNCHANGED <<related, remote, request, cert, ages, files, server, transfer, due, now, later>>

-----------------------------------------------------------------------------
(* Juju and the user. *)

Pending(kinds) == \E i \in DOMAIN (now \o later) : (now \o later)[i].kind \in kinds
Settled(kinds) == MayOvertake \/ ~Pending(kinds)

Relate ==
    /\ related # "joined" /\ E("broken", 0) \notin due /\ Settled({"broken"})
    /\ caRelated => MayBoth
    /\ IF related = "none" THEN UNCHANGED incidents ELSE Incident("again")
    /\ related' = "joined" /\ bag' = {} /\ issued' = <<>> /\ revoked' = {} /\ asked' = FALSE
    /\ due' = due \cup {E("joined", 0)}
    /\ UNCHANGED <<made, keyOf, key, csr, cert, ages, files, server, workload, transfer, now, later>>

RemoveRelation ==
    /\ now = <<>> /\ Settled({"available"})
    /\ related = "joined" /\ E("joined", 0) \notin due /\ Incident("removed")
    /\ related' = "removed" /\ asked' = FALSE
    /\ due' = {e \in due : e.kind # "changed"} \cup {E("broken", 0)}
    /\ UNCHANGED <<issued, revoked, request, cert, ages, files, server, workload, transfer, now, later>>

SetTlsPrivateKey ==
    /\ Incident("key")
    /\ MayRevokeMidway \/ cert \notin revoked
    /\ MayRestartMidway \/ (workload = "up" /\ E("pebble", 0) \notin due \cup ToSet(now \o later))
    /\ due' = due \cup {E("key", 0)}
    /\ UNCHANGED <<related, remote, request, cert, ages, files, server, workload, transfer, now, later>>

\* A certificate gets near its end, or past it, and Juju tells that its secret expired.
Ages(c, i) ==
    /\ c \in labels \ (IF i = "expiring" THEN aged ELSE ended) /\ Incident(i)
    /\ aged' = aged \cup {c} /\ ended' = IF i = "expired" THEN ended \cup {c} ELSE ended
    /\ due' = due \cup {E("expired", c)}
    /\ UNCHANGED <<related, remote, request, cert, labels, files, server, workload, transfer, now, later>>

\* set_certificate of the certificate_transfer library.
SetCa(a) ==
    /\ related # "none" => MayBoth
    /\ a = caBag + 1
    /\ \/ a = 1 /\ "removed" \notin incidents /\ caRelated' = TRUE /\ UNCHANGED incidents
       \/ a = 2 /\ caRelated /\ Settled({"ca"}) /\ UNCHANGED caRelated /\ Incident("new ca")
    /\ caBag' = a
    /\ due' = {e \in due : e.kind # "ca"} \cup {E("ca", a)}
    /\ UNCHANGED <<related, remote, request, cert, ages, files, server, workload, caSecret, caFile,
                   now, later>>
RemoveCa ==
    /\ now = <<>> /\ Settled({"ca"})
    /\ caRelated /\ caBag # 0 /\ Incident("removed")
    /\ caBag' = 0
    /\ due' = {e \in due : e.kind # "ca"} \cup {E("ca removed", 0)}
    /\ UNCHANGED <<related, remote, request, cert, ages, files, server, workload, caSecret, caFile,
                   caRelated, now, later>>

OtherHook ==
    /\ Incident("other") /\ due' = due \cup {E("other", 0)}
    /\ UNCHANGED <<related, remote, request, cert, ages, files, server, workload, transfer, now, later>>

Handle ==
    \/ RequestCertificate \/ OnBroken \/ OnCertificateAvailable \/ OnCertificateExpiring
    \/ OnChanged \/ OnSecretExpired \/ OnCaAvailable \/ OnCaRemoved \/ OnPebbleReady \/ OnOther

Next ==
    \/ \E e \in due : Begin(e)
    \/ BeginOther \/ Handle \/ AvailableDies \/ PushFails
    \/ OnProviderChanged \/ (\E c \in bag : SetRelationCertificate(c)) \/ RevokeAll
    \/ ContainerRestarts \/ ContainerBack \/ MemberStarts \/ MemberStumbles
    \/ Relate \/ RemoveRelation \/ SetTlsPrivateKey \/ OtherHook
    \/ \E c \in labels : Ages(c, "expiring") \/ Ages(c, "expired")
    \/ (\E a \in 1 .. 2 : SetCa(a)) \/ RemoveCa

Spec == Init /\ [][Next]_vars

\* Hooks run, handlers end, the provider answers, Kubernetes brings a container back and
\* Pebble the service.
Fairness ==
    /\ WF_vars(\E e \in due : Begin(e)) /\ WF_vars(BeginOther) /\ WF_vars(Handle)
    /\ WF_vars(OnProviderChanged) /\ WF_vars(\E c \in bag : SetRelationCertificate(c))
    /\ SF_vars(ContainerBack) /\ SF_vars(MemberStarts)
FairSpec == Spec /\ Fairness

-----------------------------------------------------------------------------
(* Properties. *)

\* A container that is down serves nothing; a unit that is related and has the flag has a
\* certificate.
TypeOK ==
    /\ related \in {"none", "joined", "removed"} /\ bag \subseteq Requests
    /\ issued \in Seq(Requests) /\ revoked \subseteq Requests /\ asked \in BOOLEAN
    /\ made \in 0 .. MaxRequests /\ keyOf \in [Requests -> 0 .. MaxRequests]
    /\ {key, csr, cert, keyFile, certFile, serving} \subseteq 0 .. MaxRequests
    /\ labels \subseteq Requests /\ aged \subseteq Requests /\ ended \subseteq aged
    /\ conf \in BOOLEAN /\ flag \in BOOLEAN /\ told \in BOOLEAN
    /\ workload \in {"down", "ready", "starting", "up"}
    /\ {caBag, caSecret, caFile} \subseteq 0 .. 2 /\ caRelated \in BOOLEAN
    /\ due \subseteq Events /\ now \in Seq(Events) /\ later \in Seq(Events)
    /\ incidents \subseteq Incidents
    /\ (workload = "down" => serving = 0)
    /\ related = "joined" /\ flag => cert # 0

\* Where PostgreSQL may be started with TLS, its key and its certificate belong together,
\* whatever is replaced, renewed, late or pushed half.
FilesMatch == workload \in {"starting", "up"} /\ conf => Pair(keyFile, certFile)

\* The state, and what PostgreSQL finds when it starts.
Inv == TypeOK /\ FilesMatch

\* TLS is not turned off while the relation is there: no renewal, change of the
\* key or failure to update the configuration goes through plain text.
StaysOn ==
    [][serving # 0 /\ serving' = 0 => workload' = "down" \/ related # "joined"]_vars

\* A unit that is related ends up with the certificate of its last request.
ServesLast == related = "joined" => serving = csr

\* One whose relation is removed ends up without TLS, and with no certificate.
TurnedOff == related # "joined" => serving = 0 /\ cert = 0

\* A certificate that is revoked or past its end is not served for ever.
Renewed == serving \notin revoked \cup aged

\* What the charm and the clients take for the state of TLS ends up as what it is.
FlagsAgree == flag = (serving # 0) /\ told = (serving # 0)

\* The container trusts the CA that is transferred, and none that is withdrawn.
CaFollows == caFile = caBag

\* All this comes true, and stays so once nothing changes any more: no event is lost, and
\* none that is handled late or twice undoes what a later one did.
Settles == <>[](ServesLast /\ TurnedOff /\ Renewed /\ FlagsAgree /\ CaFollows)
=============================================================================
