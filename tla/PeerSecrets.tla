---------------------------- MODULE PeerSecrets ----------------------------
(***************************************************************************)
(* Passwords and certificates of the peer relation: get_secret, set_secret *)
(* and remove_secret of src/charm.py over DataPeerData of                  *)
(* lib/charms/data_platform_libs/v0/data_interfaces.py, for one scope (the *)
(* application or a unit).                                                 *)
(*                                                                         *)
(* A value is in the data bag of the peer relation if Juju had no secrets  *)
(* when it was written, and in a Juju secret otherwise.  The secret has    *)
(* had three names: the URI that earlier revisions of the charm kept in    *)
(* the bag, a label without the relation's name, and the present label.    *)
(* Nothing is moved before it is written anew.                             *)
(***************************************************************************)
EXTENDS Naturals, FiniteSets

CONSTANTS
    Values,
    Absent,         \* the field is not there
    Deleted,        \* deleted_label, the value that stands for a field that was removed
    MaxOperations,  \* set_secret and remove_secret in the run
    MayRemoveOld    \* a key may be removed that is still kept under its old name

ASSUME SecretsAssumption ==
    /\ Absent \notin Values /\ Deleted \notin Values /\ Absent # Deleted
    /\ MaxOperations \in Nat /\ MayRemoveOld \in BOOLEAN

Keys == {"operator-password", "ca"}
Names == Keys \cup {"cauth"}

VARIABLES
    hasSecrets,   \* the Juju version has secrets
    leader,       \* the unit leads the application
    work,         \* the store as the present hook sees it
    saved,        \* the store that Juju goes back to if the hook fails
    operations    \* history: set_secret and remove_secret so far

vars == <<hasSecrets, leader, work, saved, operations>>

\* A store: bag, the data bag; uri, whether it has the URI of the secret; label, the
\* label of the secret ("none" if there is no secret); content, of the secret; older, the
\* content of the secret that was replaced by one with the present label.
NoContent == [n \in Names |-> Absent]
Labels == {"none", "unlabelled", "old", "present"}

Init ==
    /\ hasSecrets \in BOOLEAN /\ leader \in BOOLEAN
    /\ \E held \in {f \in [Names -> Values \cup {Absent}] : f["cauth"] = Absent},
          kept \in {f \in [Names -> Values \cup {Absent}] : f["ca"] = Absent},
          label \in Labels :
          /\ label # "none" => hasSecrets /\ held = NoContent
          /\ label = "none" => kept = NoContent
          /\ work = [bag |-> held, uri |-> label = "unlabelled", label |-> label,
                     content |-> kept, older |-> NoContent]
    /\ saved = work
    /\ operations = 0

-----------------------------------------------------------------------------
(* The library. *)

InBag(s) == {n \in Names : s.bag[n] # Absent}

\* SecretCache.get: by the label, by the old one, or by the URI.
Found(s) == s.label \in {"old", "present"} \/ (s.label = "unlabelled" /\ s.uri)

\* current_secret_fields: what the secret holds.
Fields(s) ==
    IF hasSecrets /\ Found(s) THEN {n \in Names : s.content[n] \in Values} ELSE {}

\* _process_secret_fields: a relation that started on the data bag stays there, for the
\* leader.
FallsBackIfAny(s, fields) == leader /\ InBag(s) # {}
FallsBack(s, fields) == leader /\ fields \cap InBag(s) # {}

\* fetch_my_relation_field.
Fetched(s, n) ==
    IF n \in Fields(s) /\ ~FallsBack(s, Fields(s)) THEN s.content[n] ELSE s.bag[n]

\* A secret that is found by its URI gets the present label.
LabelledAny(s) == IF Found(s) THEN [s EXCEPT !.label = "present"] ELSE s
Labelled(s) == IF Found(s) /\ s.label = "unlabelled" THEN [s EXCEPT !.label = "present"] ELSE s

\* CachedSecret.set_content: at the first write a secret with the old label is replaced
\* by one that has its content.
WithThisOnly(s, n, v) ==
    IF s.label = "old"
    THEN [s EXCEPT !.label = "present", !.older = s.content,
                   !.content = [NoContent EXCEPT ![n] = v]]
    ELSE [s EXCEPT !.content[n] = v]
WithContent(s, n, v) ==
    IF s.label = "old"
    THEN [s EXCEPT !.label = "present", !.older = s.content, !.content[n] = v]
    ELSE [s EXCEPT !.content[n] = v]

\* _add_or_update_relation_secrets.
Stored(s, n, v) ==
    IF Found(s) THEN WithContent(Labelled(s), n, v)
    ELSE [s EXCEPT !.label = "present", !.content = [NoContent EXCEPT ![n] = v]]

\* _legacy_apply_on_update: the field leaves the bag, and the URI does.
Migrated(s, n) ==
    IF ~hasSecrets THEN s
    ELSE [Labelled(s) EXCEPT !.bag[n] = Absent, !.uri = s.uri /\ ~Found(s)]

\* update_relation_data and delete_relation_data.
Updated(s, n, v) ==
    LET m == Migrated(s, n) IN
    IF hasSecrets /\ ~FallsBack(m, Fields(m) \cup {n}) THEN Stored(m, n, v)
    ELSE [m EXCEPT !.bag[n] = v]

Dropped(s, n) ==
    IF n \in Fields(s) /\ ~FallsBack(s, Fields(s)) THEN WithContent(Labelled(s), n, Deleted)
    ELSE [s EXCEPT !.bag[n] = Absent]

-----------------------------------------------------------------------------
(* The charm. *)

\* _translate_field_to_secret_key.
Translated(k) == IF hasSecrets /\ k = "ca" THEN "cauth" ELSE k

\* get_secret: the old name in the bag goes first.
Get(s, k) ==
    IF Fetched(s, k) # Absent THEN Fetched(s, k)
    ELSE IF hasSecrets /\ Translated(k) \notin Fields(s) THEN Absent
    ELSE Fetched(s, Translated(k))

\* The pop of the old name in set_secret.
NotPopped(s, k) == s
Popped(s, k) == [s EXCEPT !.bag[k] = Absent]

Counted == operations < MaxOperations /\ operations' = operations + 1

SetSecret(k, v) ==
    /\ Counted
    /\ work' = Updated(Popped(work, k), Translated(k), v)
    /\ UNCHANGED <<hasSecrets, leader, saved>>

RemoveSecret(k) ==
    /\ Counted
    /\ MayRemoveOld \/ Translated(k) = k \/ work.bag[k] = Absent
    /\ work' = Dropped(work, Translated(k))
    /\ UNCHANGED <<hasSecrets, leader, saved>>

GetSecret == work' = Labelled(work) /\ UNCHANGED <<hasSecrets, leader, saved, operations>>

\* The hook ends, or fails and Juju drops what it wrote.
HookEnds == saved' = work /\ UNCHANGED <<hasSecrets, leader, work, operations>>
HookFails == work' = saved /\ UNCHANGED <<hasSecrets, leader, saved, operations>>

\* Between hooks.
JujuUpgraded ==
    /\ work = saved /\ ~hasSecrets /\ hasSecrets' = TRUE
    /\ UNCHANGED <<leader, work, saved, operations>>
LeaderChanges ==
    /\ work = saved /\ leader' = ~leader
    /\ UNCHANGED <<hasSecrets, work, saved, operations>>

Next ==
    \/ \E k \in Keys : RemoveSecret(k) \/ \E v \in Values : SetSecret(k, v)
    \/ GetSecret \/ HookEnds \/ HookFails \/ JujuUpgraded \/ LeaderChanges

Spec == Init /\ [][Next]_vars

-----------------------------------------------------------------------------
(* Properties. *)

StoreType ==
    [bag : [Names -> Values \cup {Absent}], uri : BOOLEAN, label : Labels,
     content : [Names -> Values \cup {Absent, Deleted}],
     older : [Names -> Values \cup {Absent, Deleted}]]

\* With a secret that is found there is no URI left that could lead to another one.
TypeOK ==
    /\ hasSecrets \in BOOLEAN /\ leader \in BOOLEAN /\ operations \in Nat
    /\ work \in StoreType /\ saved \in StoreType
    /\ work.label # "none" => hasSecrets

\* No field is both in the bag and in the secret: the copy in the bag would make the
\* leader go back to the bag for every field, and the rest of the secret vanish.
NotTwice == Fields(work) \cap InBag(work) = {}

\* The state, and that no field is kept twice.
Inv == TypeOK /\ NotTwice

\* A read returns what was written last, whatever the store has gone through: the
\* charm's operations implement the plain store.
Reads(s) == [k \in Keys |-> Get(s, k)]
Store == INSTANCE SecretStore WITH value <- Reads(work), saved <- Reads(saved)
ImplementsStore == Store!StoreSpec

\* A value that is written is the one that is read next, and a key that is removed is
\* not read any more.
WritesTake ==
    [][\A k \in Keys :
          /\ RemoveSecret(k) => Reads(work)'[k] = Absent
          /\ \A v \in Values : SetSecret(k, v) => Reads(work)'[k] = v]_vars

\* "All data is kept intact until the first write operation": until then the earlier
\* revision of the charm finds everything where it left it.
KeptUntilWrite ==
    [][operations' = 0 => work'.bag = work.bag /\ work'.content = work.content
                          /\ (work.label = "old" => work'.label = "old")]_vars
=============================================================================
