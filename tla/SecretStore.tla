----------------------------- MODULE SecretStore -----------------------------
(***************************************************************************)
(* What get_secret, set_secret and remove_secret of src/charm.py promise   *)
(* to the rest of the charm, wherever the values are kept: one value per   *)
(* key, read back as it was last written, and the writes of a hook that    *)
(* fails undone.                                                           *)
(***************************************************************************)
CONSTANTS Keys, Values, Absent

VARIABLES
    value,   \* what a read in the present hook returns
    saved    \* what a read at its start would have returned

storeVars == <<value, saved>>

StoreInit == value \in [Keys -> Values \cup {Absent}] /\ saved = value

Write(k, v) == value' = [value EXCEPT ![k] = v] /\ UNCHANGED saved
Commit == saved' = value /\ UNCHANGED value
Abort == value' = saved /\ UNCHANGED saved

StoreNext ==
    \/ \E k \in Keys, v \in Values \cup {Absent} : Write(k, v)
    \/ Commit \/ Abort

StoreSpec == StoreInit /\ [][StoreNext]_storeVars
=============================================================================
