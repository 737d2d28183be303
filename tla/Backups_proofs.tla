--------------------------- MODULE Backups_proofs ---------------------------
(***************************************************************************)
(* A restore to a time takes the timeline of that time; no restore leads   *)
(* to a new database, as long as a restore is not run before a hook has    *)
(* seen how the last one ended; a round of credentials ends with what is   *)
(* true of the repository, and with archiving to no other, as long as the  *)
(* units have cleared what they wrote about earlier ones; for any number   *)
(* of units, rounds, backups, restores and failures.                       *)
(***************************************************************************)
EXTENDS Backups, FiniteSetTheorems, WellFoundedInduction, TLAPS

Statuses == {"ok", "s3", "pitr", "failed"}
WorkType == [app : FieldsType, mine : FieldsType, archiving : BOOLEAN, status : Statuses,
             kind : Kinds, failures : Nat]

\* The part of the type invariant that the hooks read.
BagsType ==
    /\ planned \in 1 .. K /\ creds \in 0 .. 2 /\ rounds \in Nat /\ failures \in Nat
    /\ repo \in [0 .. 2 -> Kinds]
    /\ app \in FieldsType /\ bag \in [Units -> FieldsType]
    /\ archiving \in [Units -> BOOLEAN] /\ status \in [Units -> Statuses]

\* The volume is empty exactly while the restored database is not there yet, and that
\* is known to the charm: the fields of the restore are set, and when the unit says that
\* the recovery failed, they have a time, which the next restore takes as the reason
\* for what it finds missing.
RestoreInv ==
    /\ NoNewDatabase
    /\ data = "empty" <=> service # "running"
    /\ data = "empty" => IsRestoring
    /\ status[0] = "pitr" => service = "failed" /\ restore.time # 0
    /\ unseen => service = "failed" /\ status[0] # "pitr"

\* What handlers make of the data and the status they work on.
Handled(w, r) ==
    /\ r \in WorkType /\ r.status \in {w.status, "s3", "ok"}
    /\ r.kind \in {w.kind, "own"} /\ (w.kind # "empty" => r.kind = w.kind)
    /\ (w.app.done => ~w.app.start) => (r.app.done => ~r.app.start)

LEMMA WorkHandled ==
    ASSUME BagsType, NEW u \in Units
    PROVE  Handled(Work(u), Work(u)) /\ Work(u).status = status[u]
  BY DEF BagsType, Handled, Work, WorkType

LEMMA HandledTwice ==
    ASSUME NEW w, NEW r, NEW s, Handled(w, r), Handled(r, s)
    PROVE  Handled(w, s)
  BY DEF Handled

LEMMA ConfiguredHandled ==
    ASSUME NEW w \in WorkType
    PROVE  Handled(w, Configured(w)) /\ Configured(w).status = w.status
  BY DEF Handled, Configured, WorkType, FieldsType

LEMMA ActivatedHandled ==
    ASSUME NEW w \in WorkType, NEW u
    PROVE  Handled(w, Activated(u, w))
  BY DEF Handled, Activated, WorkType, Statuses

LEMMA NoFieldsType == NoFields \in FieldsType
  BY DEF NoFields, FieldsType, Messages

LEMMA FailedHandled ==
    ASSUME BagsType, NEW w \in WorkType, NEW u, NEW message \in Messages
    PROVE  Handled(w, Failed(u, w, message))
  <1>1. CASE u = leader
    <2>. DEFINE x == [w EXCEPT !.app.block = message, !.app.start = FALSE,
                               !.app.stanza = FALSE, !.app.of = rounds]
    <2>1. x \in WorkType /\ x.status = w.status /\ x.kind = w.kind /\ x.app.start = FALSE
      BY DEF BagsType, WorkType, FieldsType
    <2>2. Failed(u, w, message) = Activated(u, x)
      BY <1>1 DEF Failed
    <2>. HIDE DEF x
    <2>. QED
      BY <2>1, <2>2, ActivatedHandled DEF Handled
  <1>2. CASE u # leader
    <2>. DEFINE f == [w.mine EXCEPT !.block = message, !.done = TRUE, !.stanza = FALSE,
                                    !.of = rounds]
    <2>1. f \in FieldsType
      BY DEF BagsType, WorkType, FieldsType
    <2>2. Failed(u, w, message) = [w EXCEPT !.mine = f]
      BY <1>2 DEF Failed, WorkType, FieldsType
    <2>. HIDE DEF f
    <2>. QED
      BY <2>1, <2>2 DEF Handled, WorkType
  <1>. QED
    BY <1>1, <1>2

LEMMA CreatedHandled ==
    ASSUME NEW w \in WorkType, NEW u
    PROVE  Handled(w, Created(u, w))
  BY DEF Created, Handled, WorkType, FieldsType, Kinds

LEMMA CheckedHandled ==
    ASSUME BagsType, NEW w \in WorkType, NEW u
    PROVE  Handled(w, Checked(u, w))
  <1>1. Activated(u, w) \in WorkType
    BY ActivatedHandled DEF Handled
  <1>2. Activated(u, w).status \in {w.status, "s3", "ok"} /\ Activated(u, w).kind = w.kind
        /\ Activated(u, w).app = w.app
    BY ActivatedHandled DEF Handled, Activated, WorkType
  <1>. DEFINE y == Activated(u, w)
  <1>. HIDE DEF y
  <1>0. y \in WorkType /\ rounds \in Nat /\ y = Activated(u, w)
    BY <1>1 DEF BagsType, y
  <1>3. CASE u = leader
    <2>. DEFINE z == [y EXCEPT !.app.start = FALSE, !.app.of = rounds]
    <2>1. Checked(u, w) = z
      BY <1>0, <1>3 DEF Checked
    <2>2. z \in WorkType /\ z.status = y.status /\ z.kind = y.kind /\ z.app.start = FALSE
      BY <1>0 DEF WorkType, FieldsType
    <2>. HIDE DEF z
    <2>. QED
      BY <1>0, <1>2, <2>1, <2>2 DEF Handled
  <1>4. CASE u # leader
    <2>. DEFINE z == [y EXCEPT !.mine.done = TRUE, !.mine.of = rounds]
    <2>1. Checked(u, w) = z
      BY <1>0, <1>4 DEF Checked
    <2>2. z \in WorkType /\ z.status = y.status /\ z.kind = y.kind /\ z.app = y.app
      BY <1>0 DEF WorkType, FieldsType
    <2>. HIDE DEF z
    <2>. QED
      BY <1>0, <1>2, <2>1, <2>2 DEF Handled
  <1>. QED
    BY <1>3, <1>4

LEMMA TriedHandled ==
    ASSUME BagsType, NEW w \in WorkType, NEW u, NEW r \in Tried(u, w)
    PROVE  Handled(w, r)
  <1>. DEFINE c == Configured(w)
              d == Configured(Created(u, c))
              again(y) == [y EXCEPT !.failures = @ + 1]
  <1>1. Handled(w, c) /\ c \in WorkType
    BY ConfiguredHandled DEF Handled
  <1>2. Handled(w, d) /\ d \in WorkType
    <2>1. Handled(c, Created(u, c)) /\ Created(u, c) \in WorkType
      BY <1>1, CreatedHandled DEF Handled
    <2>2. Handled(Created(u, c), d)
      BY <2>1, ConfiguredHandled
    <2>3. Handled(w, Created(u, c))
      BY <1>1, <2>1, HandledTwice
    <2>. QED
      BY <2>2, <2>3, HandledTwice DEF Handled
  <1>3. ASSUME NEW y \in WorkType
        PROVE  again(y) \in WorkType /\ again(y).status = y.status
               /\ again(y).kind = y.kind /\ again(y).app = y.app
    BY DEF WorkType
  <1>4. Refused(c) \in Messages /\ "failed" \in Messages
    BY DEF Refused, Messages
  <1>. HIDE DEF c, d, again
  <1>5. /\ Handled(w, Failed(u, c, Refused(c)))
        /\ Handled(w, Checked(u, d))
    BY <1>1, <1>2, <1>4, FailedHandled, CheckedHandled, HandledTwice
  <1>6. Handled(w, again(c)) /\ Handled(w, again(d))
    BY <1>1, <1>2, <1>3 DEF Handled
  <1>7. /\ Handled(w, Failed(u, again(c), "failed"))
        /\ Handled(w, Failed(u, again(d), "failed"))
    BY <1>1, <1>2, <1>3, <1>4, <1>6, FailedHandled, HandledTwice
  <1>8. r \in {Failed(u, c, Refused(c)), Checked(u, d), Failed(u, again(c), "failed"),
               Failed(u, again(d), "failed")}
    BY DEF Tried, c, d, again
  <1>. QED
    BY <1>5, <1>7, <1>8

LEMMA CoordinatedHandled ==
    ASSUME BagsType, NEW w \in WorkType, NEW u \in Units, NEW r \in Coordinated(u, w)
    PROVE  Handled(w, r)
  <1>. DEFINE left == CopiedAny(u, w)
  <1>1. Members \subseteq Units
    BY BackupsAssumption DEF BagsType, Members, Units
  <1>2. ASSUME NEW v \in DOMAIN left
        PROVE  left[v] \in FieldsType
    BY <1>1 DEF CopiedAny, BagsType, WorkType
  <1>3. CASE r = w
    BY <1>3 DEF Handled, WorkType
  <1>4. ASSUME NEW v \in DOMAIN left,
               r = Configured([w EXCEPT !.app = [left[v] EXCEPT !.start = FALSE]])
        PROVE  Handled(w, r)
    <2>. DEFINE x == [w EXCEPT !.app = [left[v] EXCEPT !.start = FALSE]]
    <2>1. x \in WorkType /\ x.status = w.status /\ x.kind = w.kind /\ x.app.start = FALSE
      <3>1. [left[v] EXCEPT !.start = FALSE] \in FieldsType
            /\ [left[v] EXCEPT !.start = FALSE].start = FALSE
        BY <1>2 DEF FieldsType
      <3>. QED
        BY <3>1 DEF WorkType
    <2>. HIDE DEF x
    <2>2. r = Configured(x)
      BY <1>4 DEF x
    <2>. QED
      BY <2>1, <2>2, ConfiguredHandled DEF Handled
  <1>. QED
    BY <1>3, <1>4 DEF Coordinated

-----------------------------------------------------------------------------

Dues == [Units -> SUBSET {"credentials", "peer", "gone"}]
OverWhenDone == app.done => ~app.start

\* A hook leaves the bags well typed, and a status it had or that tells nothing of a
\* recovery; only a repository that was empty becomes another kind.
HookEffect ==
    /\ BagsType' /\ status'[0] \in {status[0], "s3", "ok"}
    /\ \A r \in 0 .. 2 : repo[r] # "empty" => repo'[r] = repo[r]
    /\ OverWhenDone => OverWhenDone'
    /\ due \in Dues => due' \in Dues
    /\ UNCHANGED <<units, restoring, archive, moved, elections>>

LEMMA EndsKeeps ==
    ASSUME BagsType, NEW u \in Units, NEW event, NEW r, Handled(Work(u), r), Ends(u, event, r),
           Kept, moved' = moved
    PROVE  HookEffect
  <1>1. r \in WorkType /\ r.status \in {status[u], "s3", "ok"}
    BY WorkHandled DEF Handled
  <1>2. 0 \in Units
    BY BackupsAssumption DEF Units
  <1>3. status'[0] \in {status[0], "s3", "ok"}
    BY <1>1, <1>2 DEF Ends, BagsType
  <1>4. \A x \in 0 .. 2 : repo[x] # "empty" => repo'[x] = repo[x]
    <2>1. repo[creds] # "empty" => r.kind = repo[creds]
      BY DEF Handled, Work
    <2>. QED
      BY <2>1 DEF Ends, BagsType
  <1>5. OverWhenDone => OverWhenDone'
    <2>1. (app.done => ~app.start) => (r.app.done => ~r.app.start)
      BY DEF Handled, Work
    <2>. QED
      BY <2>1 DEF Ends, OverWhenDone
  <1>6. due \in Dues => due' \in Dues
    BY DEF Ends, Dues
  <1>7. BagsType'
    BY <1>1 DEF Ends, Kept, BagsType, WorkType, units
  <1>. QED
    BY <1>3, <1>4, <1>5, <1>6, <1>7 DEF HookEffect, Kept

LEMMA HookKeeps ==
    ASSUME BagsType, NEW u \in Units, Hooks(u)
    PROVE  HookEffect
  <1>. DEFINE w == Work(u)
  <1>1. Handled(w, w) /\ w \in WorkType /\ w.status = status[u]
    BY WorkHandled DEF Handled
  <1>2. CASE OnCredentials(u)
    <2>. DEFINE x == IF u # leader THEN w
                     ELSE LET a == [w EXCEPT !.app = AnnouncedFields] IN
                          IF u = primary THEN a ELSE Activated(u, a)
    <2>1. Handled(w, x)
      <3>. DEFINE a == [w EXCEPT !.app = AnnouncedFields]
      <3>1. AnnouncedFields \in FieldsType /\ AnnouncedFields.done = FALSE
        BY NoFieldsType DEF AnnouncedFields, NoFields, FieldsType
      <3>2. a \in WorkType /\ a.status = w.status /\ a.kind = w.kind /\ a.app.done = FALSE
        BY <1>1, <3>1 DEF WorkType
      <3>3. x \in {w, a, Activated(u, a)}
        OBVIOUS
      <3>. HIDE DEF a, x
      <3>4. Handled(w, a) /\ Handled(a, Activated(u, a))
        BY <3>2, ActivatedHandled DEF Handled
      <3>. QED
        BY <1>1, <3>3, <3>4, HandledTwice
    <2>. HIDE DEF x
    <2>2. PICK r \in Tried(u, x) \cup {x} : Ends(u, "credentials", r)
      BY <1>2 DEF OnCredentials, x
    <2>3. Handled(w, r)
      BY <2>1, <2>2, TriedHandled, HandledTwice DEF Handled
    <2>4. Kept /\ moved' = moved
      BY <1>2 DEF OnCredentials
    <2>. QED
      BY <2>2, <2>3, <2>4, EndsKeeps
  <1>3. CASE OnPeerChanged(u)
    <2>. DEFINE x == Configured(w)
    <2>1. Handled(w, x) /\ x \in WorkType
      BY <1>1, ConfiguredHandled DEF Handled
    <2>. HIDE DEF x
    <2>2. PICK r : /\ Ends(u, "peer", r)
                   /\ \/ r = x
                      \/ \E c \in Coordinated(u, x) :
                            \/ r = c
                            \/ c.app.done /\ u # leader /\ r = [c EXCEPT !.mine = NoFields]
                            \/ r \in Tried(u, c)
      BY <1>3 DEF OnPeerChanged, x
    <2>3. ASSUME NEW c \in Coordinated(u, x)
          PROVE  /\ c \in WorkType /\ Handled(w, c)
                 /\ Handled(w, [c EXCEPT !.mine = NoFields])
                 /\ \A y \in Tried(u, c) : Handled(w, y)
      <3>1. c \in WorkType /\ Handled(x, c) /\ Handled(w, c)
        BY <2>1, CoordinatedHandled, HandledTwice DEF Handled
      <3>2. Handled(c, [c EXCEPT !.mine = NoFields])
        BY <3>1, NoFieldsType DEF Handled, WorkType
      <3>3. \A y \in Tried(u, c) : Handled(c, y)
        BY <3>1, TriedHandled
      <3>. QED
        BY <3>1, <3>2, <3>3, HandledTwice
    <2>4. Handled(w, r)
      BY <2>1, <2>2, <2>3
    <2>5. Kept /\ moved' = moved
      BY <1>3 DEF OnPeerChanged
    <2>. QED
      BY <2>2, <2>4, <2>5, EndsKeeps
  <1>4. CASE OnPeerRestoring(u)
    <2>1. Handled(w, Configured(w)) /\ Configured(w).status = status[u]
      BY <1>1, ConfiguredHandled
    <2>2. Ends(u, "peer", Configured(w)) /\ Kept /\ moved' = moved
      BY <1>4 DEF OnPeerRestoring
    <2>. QED
      BY <2>1, <2>2, EndsKeeps
  <1>5. CASE UpdateStatus(u)
    <2>1. PICK c \in Coordinated(u, w) : Ends(u, "none", Activated(u, c))
      BY <1>5 DEF UpdateStatus
    <2>2. Handled(w, c) /\ c \in WorkType
      BY <1>1, CoordinatedHandled DEF Handled
    <2>3. Handled(w, Activated(u, c))
      BY <2>2, ActivatedHandled, HandledTwice
    <2>4. Kept /\ moved' = moved
      BY <1>5 DEF UpdateStatus
    <2>. QED
      BY <2>1, <2>3, <2>4, EndsKeeps
  <1>6. CASE OnGone(u)
    <2>. DEFINE x == [w EXCEPT !.app = IF u = leader THEN NoFields ELSE @, !.mine = NoFields]
                r == IF x.status = "s3" THEN Activated(u, x) ELSE x
    <2>1. x \in WorkType /\ x.status = w.status /\ x.kind = w.kind
          /\ (x.app = w.app \/ x.app.done = FALSE)
      BY <1>1, NoFieldsType DEF WorkType, NoFields
    <2>2. Handled(w, r)
      <3>1. r \in {x, Activated(u, x)}
        OBVIOUS
      <3>. HIDE DEF x, r
      <3>2. Handled(w, x) /\ Handled(x, Activated(u, x))
        BY <2>1, ActivatedHandled DEF Handled
      <3>. QED
        BY <3>1, <3>2, HandledTwice
    <2>3. Ends(u, "gone", r) /\ Kept /\ moved' = moved
      BY <1>6 DEF OnGone
    <2>. QED
      BY <2>2, <2>3, EndsKeeps
  <1>. QED
    BY <1>2, <1>3, <1>4, <1>5, <1>6 DEF Hooks

LEMMA InitBags == Init => BagsType
  BY BackupsAssumption, NoFieldsType DEF Init, BagsType, Statuses, Kinds, Units

LEMMA StepBags ==
    ASSUME BagsType, [Next]_vars
    PROVE  BagsType'
  <1>1. ASSUME NEW u \in Units, Hooks(u)
        PROVE  BagsType'
    BY <1>1, HookKeeps DEF HookEffect
  <1>2. ASSUME NEW u \in Units, Elect(u) \/ Failover(u)
        PROVE  BagsType'
    BY <1>2 DEF Elect, Failover, BagsType, bags, s3
  <1>3. ASSUME NEW u \in Units, CreateBackup(u)
        PROVE  BagsType'
    BY <1>3 DEF CreateBackup, BagsType, bags, s3, units, Statuses
  <1>4. ASSUME NEW r \in Repositories, SetCredentials(r)
        PROVE  BagsType'
    BY <1>4 DEF SetCredentials, BagsType, bags, units, Repositories
  <1>5. CASE RemoveS3
    BY <1>5 DEF RemoveS3, BagsType, bags, units
  <1>6. CASE RemoveUnit
    <2>1. planned' \in 1 .. K
      BY <1>6, BackupsAssumption DEF RemoveUnit, BagsType
    <2>. QED
      BY <1>6, <2>1, NoFieldsType DEF RemoveUnit, BagsType, s3
  <1>7. ASSUME NEW t \in Targets, Restore(t)
        PROVE  BagsType'
    <2>1. app' \in FieldsType
      BY <1>7 DEF Restore, BagsType, FieldsType, Messages
    <2>2. archiving' \in [Units -> BOOLEAN] /\ status' \in [Units -> Statuses]
      BY <1>7 DEF Restore, BagsType, FieldsType, Statuses
    <2>. QED
      BY <1>7, <2>1, <2>2 DEF Restore, BagsType, units, s3
  <1>8. CASE RestoreGivesUp
    <2>1. failures' \in Nat
      BY <1>8 DEF RestoreGivesUp, BagsType
    <2>2. archiving' \in [Units -> BOOLEAN]
      <3>1. (app.stanza \/ bag[0].stanza) \in BOOLEAN
        OBVIOUS
      <3>. QED
        BY <1>8, <3>1 DEF RestoreGivesUp, GivesUp, BagsType
    <2>3. status' \in [Units -> Statuses]
      BY <1>8 DEF RestoreGivesUp, BagsType, Statuses
    <2>. QED
      BY <1>8, <2>1, <2>2, <2>3 DEF RestoreGivesUp, BagsType, units, s3, bags
  <1>9. CASE Bootstraps
    BY <1>9 DEF Bootstraps, BagsType, Kinds, units, bags
  <1>10. CASE BootstrapFails
    <2>1. failures \in Nat /\ (failures' = failures \/ failures' = failures + 1)
      BY <1>10 DEF BootstrapFails, BagsType
    <2>2. failures' \in Nat
      BY <2>1
    <2>. QED
      BY <1>10, <2>2 DEF BootstrapFails, BagsType, units, s3, bags
  <1>11. CASE CheckFails
    BY <1>11 DEF CheckFails, BagsType, Statuses, units, s3, bags
  <1>12. CASE CheckSucceeds
    BY <1>12, NoFieldsType
       DEF CheckSucceeds, Verdict, BagsType, FieldsType, Messages, Statuses, units, s3
  <1>13. CASE UNCHANGED vars
    BY <1>13 DEF vars, BagsType, units, s3, bags
  <1>. QED
    BY <1>1, <1>2, <1>3, <1>4, <1>5, <1>6, <1>7, <1>8, <1>9, <1>10, <1>11, <1>12, <1>13 DEF Next

-----------------------------------------------------------------------------
(* No new database. *)

LEMMA InitRestore == Init => RestoreInv
  <1>1. 0 \in Units
    BY BackupsAssumption DEF Units
  <1>. QED
    BY <1>1 DEF Init, RestoreInv, NoNewDatabase, NoRestore, IsRestoring

LEMMA StepRestore ==
    ASSUME ~MayRush, BagsType, RestoreInv, [Next]_vars
    PROVE  RestoreInv'
  <1>0. 0 \in Units
    BY BackupsAssumption DEF Units
  <1>1. ASSUME NEW u \in Units, Hooks(u)
        PROVE  RestoreInv'
    <2>1. /\ UNCHANGED restoring
          /\ status'[0] = "pitr" => status[0] = "pitr"
          /\ unseen /\ status[0] # "pitr" => status'[0] # "pitr"
      BY <1>1, HookKeeps DEF HookEffect
    <2>. QED
      BY <2>1 DEF RestoreInv, NoNewDatabase, IsRestoring, restoring
  <1>2. UNCHANGED restoring /\ status'[0] = status[0] => RestoreInv'
    BY DEF RestoreInv, NoNewDatabase, IsRestoring, restoring
  <1>3. ASSUME NEW u \in Units, Elect(u) \/ Failover(u)
        PROVE  RestoreInv'
    BY <1>2, <1>3 DEF Elect, Failover
  <1>4. ASSUME NEW u \in Units, CreateBackup(u)
        PROVE  RestoreInv'
    <2>1. status'[0] = status[0]
      BY <1>0, <1>4 DEF CreateBackup, CanPerformBackup, BagsType
    <2>. QED
      BY <1>2, <1>4, <2>1 DEF CreateBackup
  <1>5. ASSUME NEW r \in Repositories, SetCredentials(r)
        PROVE  RestoreInv'
    BY <1>2, <1>5 DEF SetCredentials
  <1>6. CASE RemoveS3 \/ RemoveUnit
    BY <1>2, <1>6 DEF RemoveS3, RemoveUnit
  <1>7. ASSUME NEW t \in Targets, Restore(t)
        PROVE  RestoreInv'
    <2>1. status'[0] = "ok"
      BY <1>0, <1>7 DEF Restore, BagsType
    <2>2. ~unseen
      BY <1>7 DEF Restore, MayRestore, RestoreInv
    <2>3. IsRestoring'
      <3>1. t.id = "backup" \/ t.time # 0
        BY <1>7 DEF Restore, Chosen
      <3>2. restore'.backup = (t.id = "backup") /\ restore'.time = t.time
        BY <1>7 DEF Restore
      <3>. QED
        BY <3>1, <3>2 DEF IsRestoring
    <2>. QED
      BY <1>7, <2>1, <2>2, <2>3 DEF Restore, RestoreInv, NoNewDatabase
  <1>8. CASE RestoreGivesUp
    <2>1. status'[0] = "ok"
      BY <1>0, <1>8 DEF RestoreGivesUp, BagsType
    <2>2. data # "empty" /\ service = "running" /\ ~unseen
      BY <1>8 DEF RestoreGivesUp, MayRestore, RestoreInv, Unexplained
    <2>. QED
      BY <1>8, <2>1, <2>2 DEF RestoreGivesUp, GivesUp, RestoreInv, NoNewDatabase
  <1>9. CASE Bootstraps
    BY <1>9 DEF Bootstraps, RestoreInv, NoNewDatabase
  <1>10. CASE BootstrapFails
    BY <1>10 DEF BootstrapFails, RestoreInv, NoNewDatabase, IsRestoring
  <1>11. CASE CheckFails
    <2>1. status'[0] = IF restore.time # 0 /\ unseen THEN "pitr" ELSE "failed"
      BY <1>0, <1>11 DEF CheckFails, BagsType
    <2>. QED
      BY <1>11, <2>1 DEF CheckFails, Recorded, Down, RestoreInv, NoNewDatabase, IsRestoring
  <1>12. CASE CheckSucceeds
    <2>1. status'[0] \in {"s3", "ok"}
      BY <1>0, <1>12 DEF CheckSucceeds, BagsType
    <2>. QED
      BY <1>12, <2>1 DEF CheckSucceeds, RestoreInv, NoNewDatabase, IsRestoring, NoRestore
  <1>13. CASE UNCHANGED vars
    BY <1>2, <1>13 DEF vars
  <1>. QED
    BY <1>1, <1>3, <1>4, <1>5, <1>6, <1>7, <1>8, <1>9, <1>10, <1>11, <1>12, <1>13 DEF Next

\* A unit whose data were deleted by a restore never starts on a database of its own.
THEOREM NeverNew == ~MayRush => (Spec => []NoNewDatabase)
  <1>. SUFFICES ASSUME ~MayRush
                PROVE  Spec => []NoNewDatabase
    OBVIOUS
  <1>. DEFINE I == BagsType /\ RestoreInv
  <1>1. Init => I
    BY InitBags, InitRestore
  <1>2. I /\ [Next]_vars => I'
    BY StepBags, StepRestore
  <1>3. I => NoNewDatabase
    BY DEF RestoreInv
  <1>. QED
    BY <1>1, <1>2, <1>3, PTL DEF Spec

-----------------------------------------------------------------------------
(* Instants and entries. *)

Entry == [at : Nat, timeline : Nat, is : {"backup", "timeline"}]
OfAnother == [at |-> 1, timeline |-> 1, is |-> "backup"]

\* The cluster has been on the timelines 1 .. Current, in this order.
ActiveInv ==
    /\ Clock \in Nat /\ active \in [1 .. Clock -> Nat] /\ Current \in Nat
    /\ {active[t] : t \in DOMAIN active} \cup {1} = 1 .. Current
    /\ \A s, t \in 1 .. Clock : s <= t => active[s] <= active[t]

\* An entry is of the instant it was made at, one of each at most, but in a repository
\* that was another cluster's from the start.
OwnEntries(r) ==
    /\ \A e \in history[r] : e.at \in 1 .. Clock /\ e.timeline = active[e.at]
    /\ \A e, f \in history[r] : e.at = f.at => e = f
EntriesInv ==
    /\ history \in [0 .. 2 -> SUBSET Entry]
    /\ \A r \in 0 .. 2 : OwnEntries(r) \/ (repo[r] = "foreign" /\ history[r] = {OfAnother})

LEMMA LeastNat ==
    ASSUME NEW T \in SUBSET Nat, T # {}
    PROVE  \E n \in T : \A m \in T : n <= m
  <1>. DEFINE R == {p \in Nat \X Nat : p[1] < p[2]}
  <1>1. IsWellFoundedOn(R, Nat)
    BY NatLessThanWellFounded DEF OpToRel
  <1>. HIDE DEF R
  <1>2. PICK n \in T : \A m \in T : ~(<<m, n>> \in R)
    BY <1>1, WFMin
  <1>3. \A m \in T : ~(m < n)
    BY <1>2 DEF R
  <1>. QED
    BY <1>3

LEMMA LastOfEntries ==
    ASSUME NEW S \in SUBSET Entry, NEW n \in Nat, S # {},
           \A e \in S : e.at <= n,
           \A e, f \in S : e.at = f.at => e = f
    PROVE  LastOf(S) \in S /\ \A f \in S : f.at <= LastOf(S).at
  <1>0. \A e \in S : e.at \in Nat
    BY DEF Entry
  <1>. DEFINE T == {n - e.at : e \in S}
  <1>1. T \in SUBSET Nat /\ T # {}
    BY <1>0
  <1>2. PICK k \in T : \A m \in T : k <= m
    BY <1>1, LeastNat
  <1>3. PICK e \in S : k = n - e.at
    OBVIOUS
  <1>4. ASSUME NEW f \in S
        PROVE  e.at > f.at \/ e = f
    <2>1. n - e.at <= n - f.at
      BY <1>2, <1>3
    <2>2. e.at > f.at \/ e.at = f.at
      BY <1>0, <2>1
    <2>. QED
      BY <2>2
  <1>5. LastOf(S) \in S /\ \A f \in S : LastOf(S).at > f.at \/ LastOf(S) = f
    BY <1>4 DEF LastOf
  <1>. QED
    BY <1>0, <1>5

\* The entry that a restore to the time t takes.
LEMMA NearestFacts ==
    ASSUME BagsType, ActiveInv, EntriesInv, NEW t
    PROVE  /\ Nearest(t) \in Nat
           /\ \A e \in history[creds] :
                 t \in 1 .. Clock /\ e.at <= t /\ e.timeline = active[t]
                     => Nearest(t) = active[t]
  <1>. DEFINE H == history[creds]
              S == {e \in H : t = Latest \/ e.at <= t}
  <1>1. Nearest(t) = IF S = {} THEN 0 ELSE LastOf(S).timeline
    BY DEF Nearest, NearestOf
  <1>2. H \in SUBSET Entry /\ S \subseteq H
        /\ (OwnEntries(creds) \/ H = {OfAnother})
    BY DEF BagsType, EntriesInv
  <1>3. S # {} => LastOf(S) \in S /\ \A f \in S : f.at <= LastOf(S).at
    <2>1. CASE OwnEntries(creds)
      <3>1. \A e \in S : e.at <= Clock
        BY <1>2, <2>1 DEF OwnEntries, ActiveInv
      <3>2. \A e, f \in S : e.at = f.at => e = f
        BY <2>1 DEF OwnEntries
      <3>. QED
        BY <1>2, <3>1, <3>2, LastOfEntries DEF ActiveInv
    <2>2. CASE H = {OfAnother}
      <3>1. \A e \in S : e.at <= 1
        BY <2>2 DEF OfAnother
      <3>. QED
        BY <1>2, <2>2, <3>1, LastOfEntries
    <2>. QED
      BY <1>2, <2>1, <2>2
  <1>4. Nearest(t) \in Nat
    <2>1. S # {} => LastOf(S) \in Entry
      BY <1>2, <1>3
    <2>. QED
      BY <1>1, <2>1 DEF Entry
  <1>5. ASSUME NEW e \in H, t \in 1 .. Clock, e.at <= t, e.timeline = active[t]
        PROVE  Nearest(t) = active[t]
    <2>. DEFINE l == LastOf(S)
    <2>1. e \in S /\ l \in S /\ e.at <= l.at /\ Nearest(t) = l.timeline
      BY <1>1, <1>3, <1>5
    <2>. HIDE DEF l
    <2>2. CASE OwnEntries(creds)
      <3>1. /\ e.at \in 1 .. Clock /\ l.at \in 1 .. Clock /\ l.timeline = active[l.at]
            /\ e.timeline = active[e.at]
        BY <2>1, <2>2 DEF OwnEntries
      <3>2. l.at <= t
        BY <1>5, <2>1 DEF Latest, ActiveInv
      <3>3. active[e.at] <= active[l.at] /\ active[l.at] <= active[t]
        BY <1>5, <2>1, <3>1, <3>2 DEF ActiveInv
      <3>4. active[l.at] \in Nat /\ active[t] \in Nat
        BY <1>5, <3>1 DEF ActiveInv
      <3>. QED
        BY <1>5, <2>1, <3>1, <3>3, <3>4
    <2>3. CASE H = {OfAnother}
      BY <1>5, <2>1, <2>3
    <2>. QED
      BY <1>2, <2>2, <2>3
  <1>. QED
    BY <1>4, <1>5

LEMMA TickFacts ==
    ASSUME ActiveInv, NEW new \in {Current, Current + 1}, Tick(new)
    PROVE  /\ ActiveInv' /\ Clock' = Clock + 1
           /\ \A t \in 1 .. Clock : active'[t] = active[t]
           /\ active'[Clock + 1] = new
  <1>1. DOMAIN active' = 1 .. Clock + 1 /\ DOMAIN active = 1 .. Clock /\ Clock \in Nat
        /\ Current \in Nat /\ new \in Nat /\ new >= Current
    BY DEF ActiveInv, Tick
  <1>2. Clock' = Clock + 1
    <2>1. Cardinality(1 .. Clock + 1) = Clock + 1
      BY <1>1, FS_Interval
    <2>. QED
      BY <1>1, <2>1 DEF Clock
  <1>3. \A t \in 1 .. Clock + 1 : active'[t] = IF t <= Clock THEN active[t] ELSE new
    BY DEF Tick
  <1>4. /\ \A t \in 1 .. Clock : active'[t] = active[t]
        /\ active'[Clock + 1] = new
    BY <1>1, <1>3
  <1>5. Current' = new
    BY <1>1, <1>2, <1>4 DEF Current
  <1>6. active' \in [1 .. Clock' -> Nat]
    BY <1>1, <1>2, <1>3 DEF Tick, ActiveInv
  <1>7. \A t \in 1 .. Clock : active[t] \in 1 .. Current
    BY <1>1 DEF ActiveInv
  <1>8. \A s, t \in 1 .. Clock' : s <= t => active'[s] <= active'[t]
    <2>. SUFFICES ASSUME NEW s \in 1 .. Clock + 1, NEW t \in 1 .. Clock + 1, s <= t
                  PROVE  active'[s] <= active'[t]
      BY <1>2
    <2>1. CASE t <= Clock
      <3>1. s \in 1 .. Clock /\ t \in 1 .. Clock
        BY <1>1, <2>1
      <3>. QED
        BY <1>4, <3>1 DEF ActiveInv
    <2>2. CASE s <= Clock /\ t > Clock
      <3>1. s \in 1 .. Clock /\ t = Clock + 1
        BY <1>1, <2>2
      <3>. QED
        BY <1>1, <1>4, <1>7, <3>1
    <2>3. CASE s > Clock
      <3>1. s = t
        BY <1>1, <2>3
      <3>. QED
        BY <1>1, <1>6, <1>2, <3>1
    <2>. QED
      BY <1>1, <2>1, <2>2, <2>3
  <1>9. {active'[t] : t \in DOMAIN active'} \cup {1} = 1 .. new
    <2>1. {active'[t] : t \in DOMAIN active'} = {active[t] : t \in DOMAIN active} \cup {new}
      <3>1. \A t \in DOMAIN active' : t \in DOMAIN active \/ t = Clock + 1
        BY <1>1
      <3>2. DOMAIN active \subseteq DOMAIN active' /\ Clock + 1 \in DOMAIN active'
        BY <1>1
      <3>. QED
        BY <1>1, <1>4, <3>1, <3>2
    <2>2. {active'[t] : t \in DOMAIN active'} \cup {1} = 1 .. Current \cup {new}
      BY <2>1 DEF ActiveInv
    <2>3. 1 .. Current \cup {new} = 1 .. new
      <3>1. 1 \in 1 .. Current
        BY DEF ActiveInv
      <3>. QED
        BY <1>1, <3>1
    <2>. QED
      BY <2>2, <2>3
  <1>10. ActiveInv'
    BY <1>1, <1>2, <1>5, <1>6, <1>8, <1>9 DEF ActiveInv
  <1>. QED
    BY <1>2, <1>4, <1>10

\* What is recorded when an instant passes is of that instant.
LEMMA RecordFacts ==
    ASSUME BagsType, EntriesInv, ActiveInv, NEW new \in {Current, Current + 1}, Tick(new),
           NEW is \in {"backup", "timeline"},
           \/ UNCHANGED history
           \/ /\ Record([at |-> Clock + 1, timeline |-> new, is |-> is])
              /\ repo[creds] # "foreign",
           \A r \in 0 .. 2 : repo[r] = "foreign" => repo'[r] = "foreign"
    PROVE  EntriesInv' /\ ActiveInv'
  <1>. DEFINE e == [at |-> Clock + 1, timeline |-> new, is |-> is]
  <1>1. /\ ActiveInv' /\ Clock' = Clock + 1 /\ active'[Clock + 1] = new
        /\ \A t \in 1 .. Clock : active'[t] = active[t]
        /\ Clock \in Nat /\ new \in Nat
    BY TickFacts DEF ActiveInv
  <1>2. e \in Entry /\ e.at = Clock + 1 /\ e.timeline = new
    BY <1>1 DEF Entry
  <1>0. \/ UNCHANGED history
        \/ history' = [history EXCEPT ![creds] = @ \cup {e}] /\ repo[creds] # "foreign"
    BY DEF Record
  <1>. HIDE DEF e
  <1>3. \A r \in 0 .. 2 : \/ history'[r] = history[r]
                          \/ history'[r] = history[r] \cup {e} /\ repo[r] # "foreign"
    <2>1. CASE history' = history
      BY <2>1
    <2>2. CASE history' = [history EXCEPT ![creds] = @ \cup {e}] /\ repo[creds] # "foreign"
      <3>0. DOMAIN history = 0 .. 2 /\ creds \in 0 .. 2
        BY DEF EntriesInv, BagsType
      <3>1. history'[creds] = history[creds] \cup {e}
        BY <2>2, <3>0
      <3>2. \A r \in 0 .. 2 : r # creds => history'[r] = history[r]
        BY <2>2, <3>0
      <3>. QED
        BY <2>2, <3>1, <3>2
    <2>. QED
      BY <1>0, <2>1, <2>2
  <1>4. history' \in [0 .. 2 -> SUBSET Entry]
    BY <1>0, <1>2 DEF EntriesInv
  <1>5. ASSUME NEW r \in 0 .. 2
        PROVE  OwnEntries(r)' \/ (repo'[r] = "foreign" /\ history'[r] = {OfAnother})
    <2>1. CASE repo[r] = "foreign" /\ history[r] = {OfAnother}
      BY <1>3, <2>1
    <2>2. CASE OwnEntries(r)
      <3>1. PICK h : h = history[r] \cup {e} /\ history'[r] \subseteq h
        BY <1>3
      <3>2. ASSUME NEW x \in h
            PROVE  x.at \in 1 .. Clock + 1 /\ x.timeline = active'[x.at]
        <4>1. CASE x = e
          BY <1>1, <1>2, <4>1
        <4>2. CASE x \in history[r]
          <5>1. x.at \in 1 .. Clock /\ x.timeline = active[x.at]
            BY <2>2, <4>2 DEF OwnEntries
          <5>. QED
            BY <1>1, <5>1
        <4>. QED
          BY <3>1, <4>1, <4>2
      <3>3. ASSUME NEW x \in h, NEW y \in h, x.at = y.at
            PROVE  x = y
        <4>1. \A z \in history[r] : z.at \in 1 .. Clock
          BY <2>2 DEF OwnEntries
        <4>2. x.at = Clock + 1 => x = e /\ y = e
          <5>1. \A z \in h : z.at = Clock + 1 => z = e
            BY <1>1, <3>1, <4>1
          <5>. QED
            BY <3>3, <5>1
        <4>3. x.at # Clock + 1 => x \in history[r] /\ y \in history[r]
          BY <1>2, <3>1, <3>3
        <4>. QED
          BY <2>2, <3>3, <4>2, <4>3 DEF OwnEntries
      <3>4. OwnEntries(r)'
        BY <1>1, <3>1, <3>2, <3>3 DEF OwnEntries
      <3>. QED
        BY <3>4
    <2>. QED
      BY <2>1, <2>2 DEF EntriesInv
  <1>. QED
    BY <1>1, <1>4, <1>5 DEF EntriesInv

LEMMA StepEntries ==
    ASSUME BagsType, EntriesInv, ActiveInv, [Next]_vars
    PROVE  EntriesInv' /\ ActiveInv'
  <1>1. ASSUME UNCHANGED archive, \A r \in 0 .. 2 : repo[r] = "foreign" => repo'[r] = "foreign"
        PROVE  EntriesInv' /\ ActiveInv'
    <2>1. Clock' = Clock /\ Current' = Current
      BY <1>1 DEF Clock, Current, archive
    <2>2. ActiveInv'
      BY <1>1, <2>1 DEF ActiveInv, archive
    <2>3. ASSUME NEW r \in 0 .. 2
          PROVE  OwnEntries(r)' \/ (repo'[r] = "foreign" /\ history'[r] = {OfAnother})
      <3>1. OwnEntries(r) => OwnEntries(r)'
        BY <1>1, <2>1 DEF OwnEntries, archive
      <3>. QED
        BY <1>1, <3>1 DEF EntriesInv, archive
    <2>. QED
      BY <1>1, <2>2, <2>3 DEF EntriesInv, archive
  <1>2. ASSUME NEW u \in Units, Hooks(u)
        PROVE  EntriesInv' /\ ActiveInv'
    BY <1>1, <1>2, HookKeeps DEF HookEffect
  <1>3. ASSUME NEW u \in Units, Elect(u) \/ Failover(u)
        PROVE  EntriesInv' /\ ActiveInv'
    BY <1>1, <1>3 DEF Elect, Failover, s3
  <1>4. ASSUME NEW u \in Units, CreateBackup(u)
        PROVE  EntriesInv' /\ ActiveInv'
    <2>1. /\ Tick(Current) /\ repo' = repo /\ repo[creds] # "foreign"
          /\ Record([at |-> Clock + 1, timeline |-> Current, is |-> "backup"])
      BY <1>4 DEF CreateBackup, s3
    <2>. QED
      BY <2>1, RecordFacts
  <1>5. ASSUME NEW r \in Repositories, SetCredentials(r)
        PROVE  EntriesInv' /\ ActiveInv'
    BY <1>1, <1>5 DEF SetCredentials
  <1>6. CASE RemoveS3 \/ RemoveUnit
    BY <1>1, <1>6 DEF RemoveS3, RemoveUnit, s3
  <1>7. ASSUME NEW t \in Targets, Restore(t)
        PROVE  EntriesInv' /\ ActiveInv'
    BY <1>1, <1>7 DEF Restore, s3
  <1>8. CASE RestoreGivesUp \/ BootstrapFails \/ CheckFails \/ CheckSucceeds
    BY <1>1, <1>8 DEF RestoreGivesUp, BootstrapFails, CheckFails, CheckSucceeds, s3
  <1>9. CASE Bootstraps
    <2>. DEFINE new == 1 + Cardinality({active[t] : t \in DOMAIN active} \cup {1})
    <2>1. new = Current + 1
      <3>1. Cardinality(1 .. Current) = Current
        BY FS_Interval DEF ActiveInv
      <3>2. {active[t] : t \in DOMAIN active} \cup {1} = 1 .. Current /\ Current \in Nat
        BY DEF ActiveInv
      <3>3. Cardinality({active[t] : t \in DOMAIN active} \cup {1}) = Current
        BY <3>1, <3>2, Zenon
      <3>. DEFINE c == Cardinality({active[t] : t \in DOMAIN active} \cup {1})
      <3>4. new = 1 + c /\ c = Current
        BY <3>3
      <3>. HIDE DEF c, new
      <3>. QED
        BY <3>2, <3>4
    <2>2. /\ Tick(new)
          /\ \/ UNCHANGED history
             \/ /\ Record([at |-> Clock + 1, timeline |-> new, is |-> "timeline"])
                /\ repo[creds] # "foreign"
      BY <1>9 DEF Bootstraps
    <2>3. \A r \in 0 .. 2 : repo[r] = "foreign" => repo'[r] = "foreign"
      BY <1>9 DEF Bootstraps, BagsType
    <2>. HIDE DEF new
    <2>. QED
      BY <2>1, <2>2, <2>3, RecordFacts
  <1>10. CASE UNCHANGED vars
    BY <1>1, <1>10 DEF vars, s3
  <1>. QED
    BY <1>2, <1>3, <1>4, <1>5, <1>6, <1>7, <1>8, <1>9, <1>10 DEF Next

LEMMA InitEntries == Init => EntriesInv /\ ActiveInv
  <1>. SUFFICES ASSUME Init
                PROVE  EntriesInv /\ ActiveInv
    OBVIOUS
  <1>1. DOMAIN active = {} /\ active \in [{} -> Nat]
    BY DEF Init
  <1>2. Clock = 0 /\ Current = 1
    BY <1>1, FS_EmptySet DEF Clock, Current
  <1>3. 1 .. 0 = {} /\ 1 .. 1 = {1}
    OBVIOUS
  <1>4. ActiveInv
    BY <1>1, <1>2, <1>3 DEF ActiveInv
  <1>5. OfAnother \in Entry
    BY DEF OfAnother, Entry
  <1>6. \A r \in 0 .. 2 : history[r] = IF repo[r] = "foreign" THEN {OfAnother} ELSE {}
    BY DEF Init, OfAnother
  <1>7. history \in [0 .. 2 -> SUBSET Entry]
    BY <1>5, <1>6 DEF Init
  <1>. QED
    BY <1>4, <1>6, <1>7 DEF EntriesInv, OwnEntries

\* A restore to a time takes the timeline that the cluster was on at that time, if the
\* repository has an entry of it that is not later, for any number of backups, restores
\* and changes of the repository (_get_nearest_timeline).
THEOREM TimelineTaken == Spec => TimelineOfTarget
  <1>. DEFINE I == BagsType /\ EntriesInv /\ ActiveInv
  <1>1. Init => I
    BY InitBags, InitEntries
  <1>2. I /\ [Next]_vars => I'
    BY StepBags, StepEntries
  <1>3. I /\ [Next]_vars => \A t \in 1 .. Clock : TakesTimelineOf(t)
    <2>. SUFFICES ASSUME I, [Next]_vars, NEW t \in 1 .. Clock, restores' # restores,
                         service' = "bootstrapping", restore'.time = t, restore'.chosen,
                         NEW e \in history[creds], e.at <= t, e.timeline = active[t]
                  PROVE  restore'.timeline = active[t]
      BY DEF TakesTimelineOf
    <2>1. PICK s \in Targets : Restore(s)
      <3>1. ASSUME NEW u \in Units, Hooks(u)
            PROVE  FALSE
        BY <3>1, HookKeeps DEF HookEffect, restoring
      <3>2. ~RestoreGivesUp
        BY DEF RestoreGivesUp, GivesUp
      <3>. QED
        BY <3>1, <3>2 DEF Next, Elect, Failover, CreateBackup, SetCredentials, RemoveS3, RemoveUnit,
                          Bootstraps, BootstrapFails, CheckFails, CheckSucceeds, restoring, vars
    <2>2. PICK entry \in Named(s) :
             /\ Chosen(s, entry) # 0
             /\ restore' = [backup |-> s.id = "backup", time |-> s.time, stanza |-> TRUE,
                            timeline |-> IF s.time = 0 THEN 0 ELSE Chosen(s, entry),
                            chosen |-> s.id = "none"]
      BY <2>1 DEF Restore
    <2>3. s.time = t /\ s.id = "none" /\ t # 0
      <3>1. restore'.time = s.time /\ restore'.chosen = (s.id = "none")
        BY <2>2
      <3>2. t # 0
        BY DEF ActiveInv
      <3>. QED
        BY <3>1, <3>2
    <2>4. restore'.timeline = Nearest(t)
      BY <2>2, <2>3 DEF Named, Chosen
    <2>. QED
      BY <2>4, NearestFacts
  <1>. QED
    BY <1>1, <1>2, <1>3, PTL DEF Spec, TimelineOfTarget

-----------------------------------------------------------------------------
(* Types. *)

RestoreType == [backup : BOOLEAN, time : Nat \cup {Latest}, timeline : Nat, stanza : BOOLEAN,
                chosen : BOOLEAN]

\* What BagsType leaves of the types.
RestType ==
    /\ leader \in Members /\ primary \in Members
    /\ OverWhenDone /\ due \in Dues
    /\ restore \in RestoreType
    /\ override \in BOOLEAN /\ service \in {"running", "bootstrapping", "failed"}
    /\ data \in {"kept", "new", "empty"} /\ unseen \in BOOLEAN
    /\ moved \in BOOLEAN /\ elections \in Nat /\ restores \in Nat

LEMMA TypesAre ==
    ASSUME BagsType, RestType
    PROVE  TypeOK
  BY DEF TypeOK, BagsType, RestType, OverWhenDone, Dues, RestoreType, Statuses

LEMMA InitRest == Init => RestType
  <1>. SUFFICES ASSUME Init
                PROVE  RestType
    OBVIOUS
  <1>1. leader \in Members /\ primary \in Members
    BY DEF Init, Members, Units
  <1>2. restore \in RestoreType
    BY DEF Init, NoRestore, RestoreType
  <1>3. OverWhenDone
    BY DEF Init, OverWhenDone, NoFields
  <1>4. due \in Dues
    BY DEF Init, Dues
  <1>. QED
    BY <1>1, <1>2, <1>3, <1>4 DEF Init, RestType

\* The parameters that a restore leaves in the application bag.
LEMMA RestoreTakes ==
    ASSUME BagsType, EntriesInv, ActiveInv, NEW t \in Targets, Restore(t)
    PROVE  restore' \in RestoreType
  <1>1. PICK entry \in Named(t) :
           /\ Chosen(t, entry) # 0
           /\ restore' = [backup |-> t.id = "backup", time |-> t.time, stanza |-> TRUE,
                          timeline |-> IF t.time = 0 THEN 0 ELSE Chosen(t, entry),
                          chosen |-> t.id = "none"]
    BY DEF Restore
  <1>2. t.time \in Nat \cup {Latest}
    <2>1. Clock \in Nat
      BY DEF ActiveInv
    <2>. QED
      BY <2>1 DEF Targets
  <1>3. entry.timeline \in Nat
    <2>1. CASE t.id = "none"
      BY <1>1, <2>1, NearestFacts DEF Named
    <2>2. CASE t.id # "none"
      <3>1. entry \in history[creds]
        BY <1>1, <2>2 DEF Named, Entries
      <3>2. history[creds] \subseteq Entry
        BY DEF BagsType, EntriesInv
      <3>. QED
        BY <3>1, <3>2 DEF Entry
    <2>. QED
      BY <2>1, <2>2
  <1>4. (IF t.time = 0 THEN 0 ELSE Chosen(t, entry)) \in Nat
    BY <1>3 DEF Chosen
  <1>5. (t.id = "backup") \in BOOLEAN /\ (t.id = "none") \in BOOLEAN
    OBVIOUS
  <1>. QED
    BY <1>1, <1>2, <1>4, <1>5 DEF RestoreType

LEMMA StepRest ==
    ASSUME BagsType, EntriesInv, ActiveInv, RestType, [Next]_vars
    PROVE  RestType'
  <1>0. 0 \in Units /\ planned \in Nat /\ planned > 0
    BY BackupsAssumption DEF Units, BagsType
  <1>1. ASSUME NEW u \in Units, Hooks(u)
        PROVE  RestType'
    <2>1. HookEffect
      BY <1>1, HookKeeps
    <2>2. Members' = Members
      BY <2>1 DEF HookEffect, Members, units
    <2>. QED
      BY <2>1, <2>2 DEF HookEffect, RestType, units, restoring
  <1>2. ASSUME NEW u \in Units, Elect(u)
        PROVE  RestType'
    <2>1. Members' = Members /\ OverWhenDone' = OverWhenDone
      BY <1>2 DEF Elect, Members, OverWhenDone, bags
    <2>2. due' \in Dues
      BY <1>2 DEF Elect, RestType, Dues
    <2>. QED
      BY <1>2, <2>1, <2>2 DEF Elect, RestType, restoring
  <1>3. ASSUME NEW u \in Units, Failover(u)
        PROVE  RestType'
    <2>1. Members' = Members /\ OverWhenDone' = OverWhenDone
      BY <1>3 DEF Failover, Members, OverWhenDone, bags
    <2>2. moved' \in BOOLEAN
      BY <1>3 DEF Failover, RestType
    <2>. QED
      BY <1>3, <2>1, <2>2 DEF Failover, RestType, restoring
  <1>4. ASSUME NEW u \in Units, CreateBackup(u)
        PROVE  RestType'
    <2>1. Members' = Members /\ OverWhenDone' = OverWhenDone
      BY <1>4 DEF CreateBackup, Members, OverWhenDone, bags, units
    <2>. QED
      BY <1>4, <2>1 DEF CreateBackup, RestType, restoring, units
  <1>5. CASE RemoveS3 \/ \E r \in Repositories : SetCredentials(r)
    <2>1. Members' = Members /\ OverWhenDone' = OverWhenDone
      BY <1>5 DEF RemoveS3, SetCredentials, Members, OverWhenDone, bags, units
    <2>2. due' \in Dues
      BY <1>5 DEF RemoveS3, SetCredentials, RestType, Dues
    <2>. QED
      BY <1>5, <2>1, <2>2 DEF RemoveS3, SetCredentials, RestType, restoring, units
  <1>6. CASE RemoveUnit
    <2>1. Members' = Members \ {planned - 1} /\ 0 \in Members'
      BY <1>0, <1>6 DEF RemoveUnit, Members
    <2>2. leader' \in Members' /\ primary' \in Members'
      BY <1>6, <2>1 DEF RemoveUnit, RestType
    <2>3. OverWhenDone'
      BY <1>6 DEF RemoveUnit, RestType, OverWhenDone, NoFields
    <2>4. due' \in Dues
      BY <1>6 DEF RemoveUnit, RestType, Dues
    <2>5. moved' \in BOOLEAN
      BY <1>6 DEF RemoveUnit, RestType
    <2>. QED
      BY <1>6, <2>2, <2>3, <2>4, <2>5 DEF RemoveUnit, RestType, restoring
  <1>7. ASSUME NEW t \in Targets, Restore(t)
        PROVE  RestType'
    <2>1. restore' \in RestoreType
      BY <1>7, RestoreTakes
    <2>2. Members' = Members
      BY <1>7 DEF Restore, Members, units
    <2>3. OverWhenDone'
      BY <1>7 DEF Restore, RestType, OverWhenDone, BagsType, FieldsType
    <2>. QED
      BY <1>7, <2>1, <2>2, <2>3 DEF Restore, RestType, OverridePatroniOnFailure, units
  <1>8. CASE RestoreGivesUp
    <2>1. restore' \in RestoreType
      <3>1. restore \in RestoreType
        BY DEF RestType
      <3>2. restore' \in {restore, [restore EXCEPT !.backup = FALSE, !.time = 0]}
        BY <1>8 DEF RestoreGivesUp, GivesUp
      <3>. DEFINE r == [restore EXCEPT !.backup = FALSE, !.time = 0]
      <3>3. r \in RestoreType
        <4>1. 0 \in Nat \cup {Latest} /\ FALSE \in BOOLEAN
          OBVIOUS
        <4>. QED
          BY <3>1, <4>1 DEF RestoreType
      <3>. HIDE DEF r
      <3>4. restore' \in {restore, r}
        BY <3>2 DEF r
      <3>. QED
        BY <3>1, <3>3, <3>4
    <2>2. Members' = Members /\ OverWhenDone' = OverWhenDone
      BY <1>8 DEF RestoreGivesUp, Members, OverWhenDone, bags, units
    <2>3. service' \in {"running", service} /\ data' \in {"new", data}
      BY <1>8 DEF RestoreGivesUp, GivesUp
    <2>. QED
      BY <1>8, <2>1, <2>2, <2>3 DEF RestoreGivesUp, RestType, OverridePatroniOnFailure, units
  <1>9. CASE Bootstraps \/ BootstrapFails
    <2>1. Members' = Members /\ OverWhenDone' = OverWhenDone
      BY <1>9 DEF Bootstraps, BootstrapFails, Members, OverWhenDone, bags, units
    <2>2. /\ UNCHANGED <<leader, primary, due, restore, override, moved, elections, restores>>
          /\ service' \in {"running", "failed"} /\ data' \in {data, "kept"}
          /\ unseen' \in {unseen, TRUE}
      BY <1>9 DEF Bootstraps, BootstrapFails, units
    <2>. QED
      BY <2>1, <2>2 DEF RestType
  <1>10. CASE CheckFails
    <2>1. Members' = Members /\ OverWhenDone' = OverWhenDone
      BY <1>10 DEF CheckFails, Members, OverWhenDone, bags, units
    <2>. QED
      BY <1>10, <2>1 DEF CheckFails, Recorded, RestType, units
  <1>11. CASE CheckSucceeds
    <2>1. Members' = Members
      BY <1>11 DEF CheckSucceeds, Members, units
    <2>2. OverWhenDone'
      BY <1>11 DEF CheckSucceeds, Verdict, OverWhenDone, NoFields, RestType
    <2>3. restore' \in RestoreType
      BY <1>11 DEF CheckSucceeds, NoRestore, RestoreType
    <2>. QED
      BY <1>11, <2>1, <2>2, <2>3 DEF CheckSucceeds, RestorePatroniOnFailure, RestType, units
  <1>12. CASE UNCHANGED vars
    BY <1>12 DEF vars, RestType, Members, OverWhenDone, units, bags, restoring
  <1>. QED
    BY <1>1, <1>2, <1>3, <1>4, <1>5, <1>6, <1>7, <1>8, <1>9, <1>10, <1>11, <1>12 DEF Next

\* The types of the state, whatever is restored.
THEOREM TypeCorrect == Spec => []TypeOK
  <1>. DEFINE I == BagsType /\ EntriesInv /\ ActiveInv /\ RestType
  <1>1. Init => I
    BY InitBags, InitEntries, InitRest
  <1>2. I /\ [Next]_vars => I'
    BY StepBags, StepEntries, StepRest
  <1>3. I => TypeOK
    BY TypesAre
  <1>. QED
    BY <1>1, <1>2, <1>3, PTL DEF Spec

\* The same, and a unit says that a recovery failed only while the database is down, as
\* long as a restore is not run before a hook has seen how the last one ended.
THEOREM FailuresSeen == ~MayRush => (Spec => []Inv)
  <1>. SUFFICES ASSUME ~MayRush
                PROVE  Spec => []Inv
    OBVIOUS
  <1>. DEFINE I == BagsType /\ RestoreInv
  <1>1. Init => I
    BY InitBags, InitRestore
  <1>2. I /\ [Next]_vars => I'
    BY StepBags, StepRestore
  <1>3. I => FailureSeen
    BY DEF RestoreInv, FailureSeen
  <1>4. TypeOK /\ FailureSeen => Inv
    BY DEF Inv
  <1>. QED
    BY <1>1, <1>2, <1>3, <1>4, TypeCorrect, PTL DEF Spec

-----------------------------------------------------------------------------
(* The outcome of a round. *)

\* What the outcome of the round of the present credentials says in a unit bag is so; and
\* in the application bag, from where a restore takes the message.
Suits(x, kind) ==
    /\ x.stanza => kind = "own"
    /\ x.block \in {"access", "foreign"} => x.block = Refused([kind |-> kind])
    /\ kind = "foreign" => x.block = "foreign"
    /\ x.stanza \/ x.block # "none"
SuitsApp(x, kind) ==
    /\ x.stanza => kind = "own"
    /\ x.block \in {"access", "foreign"} => x.block = Refused([kind |-> kind])
    /\ ~restore.stanza /\ kind = "foreign" => x.block = "foreign"
    /\ restores = 0 => x.stanza \/ x.block # "none"

\* A unit bag has nothing or an outcome, the application bag an announcement or an outcome.
MineOk(x, kind) ==
    x = NoFields \/ /\ x.done /\ ~x.start /\ x.of \in 1 .. rounds
                    /\ x.of = rounds /\ creds # 0 => Suits(x, kind)
AppOk(x, kind) ==
    /\ x.start => x = AnnouncedFields
    /\ x.of <= rounds
    /\ x.of = rounds /\ creds # 0 => SuitsApp(x, kind)

OutcomeInv ==
    /\ creds # 0 => rounds > 0
    /\ AppOk(app, repo[creds])
    /\ \A u \in Units : MineOk(bag[u], repo[creds])

\* A unit that archives to a repository that the round found not to be the cluster's has
\* an event to come, in which it configures itself again.
ArchivesInv ==
    /\ \A u \in Units : u \notin Members => due[u] = {}
    /\ \A u \in Members : "gone" \in due[u] => creds = 0
    /\ \A u \in Members : bag[u].done => bag[u].of = rounds
    /\ creds # 0 /\ app.of = rounds /\ repo[creds] # "own" =>
          \A u \in Members : archiving[u] => "peer" \in due[u]

\* The same of what a handler works on.
Sound(w) == w \in WorkType /\ AppOk(w.app, w.kind) /\ MineOk(w.mine, w.kind)
Fresh(w) == w.mine.done => w.mine.of = rounds
Clear(w) == creds # 0 /\ w.app.of = rounds /\ w.kind # "own" => ~w.archiving
Good(w) == Sound(w) /\ Fresh(w) /\ Clear(w)

\* The primary tries the repository: what it has not announced or written yet.
Trying(u, w) ==
    /\ w \in WorkType
    /\ IF u = leader THEN w.mine = NoFields /\ w.app.block = "none"
       ELSE AppOk(w.app, w.kind) /\ w.mine.block = "none" /\ ~w.mine.start
    /\ w.kind # "own" /\ w.archiving => u # leader /\ w.app.of # rounds

LEMMA RefusedOf ==
    ASSUME NEW w
    PROVE  /\ Refused(w) = Refused([kind |-> w.kind])
           /\ Refused(w) = "none" => w.kind \notin {"denied", "foreign"}
           /\ Refused(w) # "none" => Refused(w) \in {"access", "foreign"}
           /\ Refused(w) = "foreign" <=> w.kind = "foreign"
  <1>1. [kind |-> w.kind].kind = w.kind
    OBVIOUS
  <1>. QED
    BY <1>1 DEF Refused

LEMMA ActivatedSame ==
    ASSUME NEW w \in WorkType, NEW u
    PROVE  LET a == Activated(u, w) IN
           /\ a \in WorkType
           /\ a.app = w.app /\ a.mine = w.mine /\ a.kind = w.kind /\ a.archiving = w.archiving
  <1>1. Activated(u, w) \in WorkType
    BY ActivatedHandled DEF Handled
  <1>. QED
    BY <1>1 DEF Activated, WorkType

LEMMA ActivatedGood ==
    ASSUME NEW w \in WorkType, NEW u
    PROVE  /\ Sound(w) => Sound(Activated(u, w))
           /\ Fresh(w) => Fresh(Activated(u, w))
           /\ Clear(w) => Clear(Activated(u, w))
  BY ActivatedSame DEF Sound, Fresh, Clear

LEMMA FailedGood ==
    ASSUME BagsType, creds # 0, rounds > 0, NEW u, NEW w, Trying(u, w), NEW message \in Messages,
           \/ message = Refused(w) /\ message # "none"
           \/ message = "failed" /\ Refused(w) = "none"
    PROVE  Good(Failed(u, w, message))
  <1>. DEFINE r == Failed(u, w, message)
  <1>0. w \in WorkType /\ rounds \in Nat /\ NoFields \in FieldsType
    BY NoFieldsType DEF Trying, BagsType
  <1>1. r \in WorkType
    BY <1>0, FailedHandled DEF Handled
  <1>2. ASSUME NEW x \in FieldsType, x.block = message, ~x.stanza, ~x.start
        PROVE  Suits(x, w.kind) /\ SuitsApp(x, w.kind)
    BY <1>2, RefusedOf DEF Suits, SuitsApp
  <1>3. CASE u = leader
    <2>. DEFINE x == [w EXCEPT !.app.block = message, !.app.start = FALSE,
                               !.app.stanza = FALSE, !.app.of = rounds]
    <2>1. x \in WorkType /\ x.app \in FieldsType /\ x.mine = w.mine /\ x.kind = w.kind
          /\ x.archiving = w.archiving
          /\ x.app.start = FALSE /\ x.app.stanza = FALSE /\ x.app.block = message
          /\ x.app.of = rounds
      BY <1>0 DEF WorkType, FieldsType
    <2>2. r = Activated(u, x)
      BY <1>3 DEF Failed
    <2>. HIDE DEF x
    <2>3. SuitsApp(x.app, w.kind)
      BY <1>2, <2>1
    <2>4. Sound(x)
      BY <1>0, <1>3, <2>1, <2>3 DEF Sound, AppOk, MineOk, Trying
    <2>5. Fresh(x) /\ Clear(x)
      BY <1>3, <2>1 DEF Fresh, Clear, Trying, NoFields
    <2>. QED
      BY <2>1, <2>2, <2>4, <2>5, ActivatedGood DEF Good
  <1>4. CASE u # leader
    <2>. DEFINE f == [w.mine EXCEPT !.block = message, !.done = TRUE, !.stanza = FALSE,
                                    !.of = rounds]
    <2>1. f \in FieldsType /\ f.done /\ f.start = w.mine.start /\ ~f.stanza /\ f.block = message
          /\ f.of = rounds
      BY <1>0 DEF WorkType, FieldsType
    <2>2. r = [w EXCEPT !.mine = f]
      BY <1>0, <1>4 DEF Failed, WorkType, FieldsType
    <2>. HIDE DEF f
    <2>3. r.mine = f /\ r.app = w.app /\ r.kind = w.kind /\ r.archiving = w.archiving
      BY <1>0, <2>2 DEF WorkType
    <2>4. ~f.start /\ Suits(f, w.kind)
      BY <1>2, <1>4, <2>1 DEF Trying
    <2>5. Sound(r)
      BY <1>0, <1>1, <1>4, <2>1, <2>3, <2>4 DEF Sound, MineOk, Trying
    <2>6. Fresh(r) /\ Clear(r)
      BY <1>4, <2>1, <2>3 DEF Fresh, Clear, Trying
    <2>. QED
      BY <2>5, <2>6 DEF Good
  <1>. QED
    BY <1>3, <1>4

LEMMA CheckedGood ==
    ASSUME BagsType, creds # 0, rounds > 0, NEW u, NEW w, Trying(u, w), w.kind = "own",
           IF u = leader THEN w.app.stanza ELSE w.mine.stanza
    PROVE  Good(Checked(u, w))
  <1>. DEFINE y == Activated(u, w)
  <1>0. w \in WorkType /\ rounds \in Nat
    BY DEF Trying, BagsType
  <1>1. y \in WorkType /\ y.app = w.app /\ y.mine = w.mine /\ y.kind = "own"
        /\ y.archiving = w.archiving
    BY <1>0, ActivatedSame
  <1>. HIDE DEF y
  <1>2. ASSUME NEW x \in FieldsType, x.block = "none", x.stanza
        PROVE  Suits(x, "own") /\ SuitsApp(x, "own")
    BY <1>2 DEF Suits, SuitsApp
  <1>3. CASE u = leader
    <2>. DEFINE z == [y EXCEPT !.app.start = FALSE, !.app.of = rounds]
    <2>1. Checked(u, w) = z
      BY <1>3 DEF Checked, y
    <2>2. z \in WorkType /\ z.app \in FieldsType /\ z.mine = w.mine /\ z.kind = "own"
          /\ z.app.start = FALSE /\ z.app.of = rounds /\ z.app.stanza = w.app.stanza
          /\ z.app.block = w.app.block
      BY <1>0, <1>1 DEF WorkType, FieldsType
    <2>. HIDE DEF z
    <2>3. SuitsApp(z.app, "own")
      BY <1>2, <1>3, <2>2 DEF Trying
    <2>4. Sound(z) /\ Fresh(z) /\ Clear(z)
      BY <1>0, <1>3, <2>2, <2>3 DEF Sound, AppOk, MineOk, Fresh, Clear, Trying, NoFields
    <2>. QED
      BY <2>1, <2>4 DEF Good
  <1>4. CASE u # leader
    <2>. DEFINE z == [y EXCEPT !.mine.done = TRUE, !.mine.of = rounds]
    <2>1. Checked(u, w) = z
      BY <1>4 DEF Checked, y
    <2>2. z \in WorkType /\ z.mine \in FieldsType /\ z.app = w.app /\ z.kind = "own"
          /\ z.mine.done /\ z.mine.of = rounds /\ z.mine.stanza = w.mine.stanza
          /\ z.mine.block = w.mine.block /\ z.mine.start = w.mine.start
      BY <1>0, <1>1 DEF WorkType, FieldsType
    <2>. HIDE DEF z
    <2>3. Suits(z.mine, "own")
      BY <1>2, <1>4, <2>2 DEF Trying
    <2>4. Sound(z) /\ Fresh(z) /\ Clear(z)
      BY <1>0, <1>4, <2>2, <2>3 DEF Sound, MineOk, Fresh, Clear, Trying
    <2>. QED
      BY <2>1, <2>4 DEF Good
  <1>. QED
    BY <1>3, <1>4

LEMMA ConfiguredSame ==
    ASSUME NEW w \in WorkType
    PROVE  LET c == Configured(w) IN
           /\ c \in WorkType
           /\ c.app = w.app /\ c.mine = w.mine /\ c.kind = w.kind
           /\ c.archiving = (w.app.stanza \/ w.mine.stanza)
  BY DEF Configured, WorkType, FieldsType

LEMMA ConfiguredGood ==
    ASSUME BagsType, NEW w, Sound(w)
    PROVE  /\ Sound(Configured(w))
           /\ Fresh(w) => Good(Configured(w))
  <1>1. w \in WorkType
    BY DEF Sound
  <1>2. Sound(Configured(w)) /\ (Fresh(w) => Fresh(Configured(w)))
    BY <1>1, ConfiguredSame DEF Sound, Fresh
  <1>3. ASSUME Fresh(w), creds # 0, w.app.of = rounds, w.kind # "own"
        PROVE  ~w.app.stanza /\ ~w.mine.stanza
    BY <1>3 DEF Sound, AppOk, MineOk, SuitsApp, Suits, Fresh, NoFields
  <1>4. Fresh(w) => Clear(Configured(w))
    BY <1>1, <1>3, ConfiguredSame DEF Clear
  <1>. QED
    BY <1>2, <1>4 DEF Good

LEMMA TriedGood ==
    ASSUME BagsType, creds # 0, rounds > 0, NEW u, NEW w, Sound(w), w.mine = NoFields,
           u = leader => w.app = AnnouncedFields,
           NEW r \in Tried(u, w)
    PROVE  Good(r)
  <1>. DEFINE c == Configured(w)
              d == Configured(Created(u, c))
              again(y) == [y EXCEPT !.failures = @ + 1]
  <1>0. w \in WorkType
    BY DEF Sound
  <1>1. c \in WorkType /\ c.app = w.app /\ c.mine = NoFields /\ c.kind = w.kind
        /\ c.archiving = w.app.stanza
    <2>1. NoFields.stanza = FALSE
      BY DEF NoFields
    <2>2. w.app.stanza \in BOOLEAN
      BY <1>0 DEF WorkType, FieldsType
    <2>. QED
      BY <1>0, <2>1, <2>2, ConfiguredSame
  <1>. HIDE DEF c
  <1>2. Trying(u, c)
    <2>1. CASE u = leader
      BY <1>1, <2>1 DEF Trying, AnnouncedFields, NoFields
    <2>2. CASE u # leader
      <3>1. NoFields.block = "none" /\ ~NoFields.start
        BY DEF NoFields
      <3>2. AppOk(w.app, w.kind)
        BY DEF Sound
      <3>3. w.kind # "own" /\ w.app.of = rounds => ~w.app.stanza
        BY <3>2 DEF AppOk, SuitsApp
      <3>. QED
        BY <1>1, <2>2, <3>1, <3>2, <3>3 DEF Trying
    <2>. QED
      BY <2>1, <2>2
  <1>3. ASSUME Refused(c) = "none"
        PROVE  Trying(u, d) /\ d.kind = "own" /\ Refused(d) = "none"
               /\ (IF u = leader THEN d.app.stanza ELSE d.mine.stanza)
    <2>. DEFINE e == Created(u, c)
    <2>1. c.kind \in {"own", "empty"}
      <3>1. c.kind \in Kinds
        BY <1>1 DEF WorkType
      <3>. QED
        BY <1>3, <3>1, RefusedOf DEF Kinds
    <2>2. e \in WorkType /\ e.kind = "own"
      <3>. DEFINE made == [c EXCEPT !.kind = IF @ = "empty" THEN "own" ELSE @]
      <3>1. made.kind = "own" /\ made \in WorkType
        BY <1>1, <2>1 DEF WorkType, Kinds
      <3>2. e = IF u = leader THEN [made EXCEPT !.app.stanza = TRUE]
                             ELSE [made EXCEPT !.mine.stanza = TRUE]
        BY DEF Created
      <3>. HIDE DEF made
      <3>3. e.kind = "own"
        BY <3>1, <3>2 DEF WorkType
      <3>. QED
        BY <1>1, <3>3, CreatedHandled DEF Handled
    <2>3. CASE u = leader
      <3>1. e.mine = NoFields /\ e.app.block = c.app.block /\ e.app.stanza = TRUE
        BY <1>1, <2>3 DEF Created, WorkType, FieldsType
      <3>2. c.app.block = "none"
        BY <1>2, <2>3 DEF Trying
      <3>. HIDE DEF e
      <3>3. d \in WorkType /\ d.app = e.app /\ d.mine = e.mine /\ d.kind = "own"
        BY <2>2, ConfiguredSame DEF e
      <3>. HIDE DEF d
      <3>. QED
        BY <2>3, <3>1, <3>2, <3>3 DEF Trying, Refused
    <2>4. CASE u # leader
      <3>1. e.app = w.app /\ e.mine.block = "none" /\ e.mine.start = FALSE
            /\ e.mine.stanza = TRUE
        BY <1>1, <2>4, NoFieldsType DEF Created, WorkType, FieldsType, NoFields
      <3>2. AppOk(w.app, "own")
        <4>1. AppOk(w.app, w.kind) /\ w.kind \in {"own", "empty"}
          BY <1>1, <2>1 DEF Sound
        <4>2. Refused([kind |-> w.kind]) = "none" /\ Refused([kind |-> "own"]) = "none"
          BY <4>1 DEF Refused
        <4>. QED
          BY <4>1, <4>2 DEF AppOk, SuitsApp
      <3>. HIDE DEF e
      <3>3. d \in WorkType /\ d.app = e.app /\ d.mine = e.mine /\ d.kind = "own"
        BY <2>2, ConfiguredSame DEF e
      <3>. HIDE DEF d
      <3>. QED
        BY <2>4, <3>1, <3>2, <3>3 DEF Trying, Refused
    <2>. QED
      BY <2>3, <2>4
  <1>. HIDE DEF d
  <1>4. ASSUME NEW y, Trying(u, y)
        PROVE  Trying(u, again(y)) /\ again(y).kind = y.kind
    <2>1. y \in WorkType
      BY <1>4 DEF Trying
    <2>2. /\ again(y) \in WorkType
          /\ again(y).app = y.app /\ again(y).mine = y.mine /\ again(y).kind = y.kind
          /\ again(y).archiving = y.archiving
      BY <2>1 DEF WorkType
    <2>. HIDE DEF again
    <2>. QED
      BY <1>4, <2>2 DEF Trying
  <1>. HIDE DEF again
  <1>5. "failed" \in Messages /\ Refused(c) \in Messages
    BY DEF Messages, Refused
  <1>6. CASE Refused(c) # "none"
    <2>1. r = Failed(u, c, Refused(c))
      BY <1>6 DEF Tried, c
    <2>. QED
      BY <1>2, <1>5, <1>6, <2>1, FailedGood
  <1>7. CASE Refused(c) = "none"
    <2>1. r \in {Checked(u, d), Failed(u, again(c), "failed"), Failed(u, again(d), "failed")}
      BY <1>7 DEF Tried, c, d, again
    <2>2. Good(Checked(u, d))
      BY <1>3, <1>7, CheckedGood
    <2>3. Refused(again(c)) = "none" /\ Refused(again(d)) = "none"
      BY <1>2, <1>3, <1>4, <1>7, RefusedOf
    <2>4. Good(Failed(u, again(c), "failed")) /\ Good(Failed(u, again(d), "failed"))
      BY <1>2, <1>3, <1>4, <1>5, <1>7, <2>3, FailedGood
    <2>. QED
      BY <2>1, <2>2, <2>4
  <1>. QED
    BY <1>6, <1>7

\* An outcome of a unit bag suits the application bag.
LEMMA CopyOk ==
    ASSUME NEW kind, NEW x \in FieldsType, MineOk(x, kind), x.done
    PROVE  LET y == [x EXCEPT !.start = FALSE] IN
           /\ y \in FieldsType /\ AppOk(y, kind)
           /\ y.stanza = x.stanza /\ y.of = x.of
  <1>. DEFINE y == [x EXCEPT !.start = FALSE]
  <1>1. /\ y \in FieldsType /\ ~y.start
        /\ y.stanza = x.stanza /\ y.of = x.of /\ y.block = x.block
    BY DEF FieldsType
  <1>2. x.of \in 1 .. rounds /\ (x.of = rounds /\ creds # 0 => Suits(x, kind))
    BY DEF MineOk, NoFields
  <1>. HIDE DEF y
  <1>3. AppOk(y, kind)
    BY <1>1, <1>2 DEF AppOk, Suits, SuitsApp
  <1>. QED
    BY <1>1, <1>3 DEF y

LEMMA CoordinatedGood ==
    ASSUME BagsType, OutcomeInv, NEW u, NEW w, Sound(w), w.kind = repo[creds],
           NEW r \in Coordinated(u, w)
    PROVE  /\ Sound(r) /\ (Fresh(w) => Fresh(r))
           /\ (r # w /\ Fresh(w) => Good(r))
           /\ r = w \/ ~r.app.start
           /\ r.mine = w.mine /\ r.kind = w.kind
  <1>1. CASE r = w
    BY <1>1
  <1>2. CASE r # w
    <2>. DEFINE left == CopiedAny(u, w)
    <2>1. PICK v \in DOMAIN left :
             r = Configured([w EXCEPT !.app = [left[v] EXCEPT !.start = FALSE]])
      BY <1>2 DEF Coordinated
    <2>2. left[v] \in {w.mine, bag[v]} /\ left[v].done /\ v \in Members
      BY DEF CopiedAny
    <2>3. left[v] \in FieldsType /\ MineOk(left[v], w.kind) /\ w \in WorkType
      <3>1. v \in Units
        BY <2>2, BackupsAssumption DEF BagsType, Members, Units
      <3>. QED
        BY <2>2, <3>1 DEF Sound, OutcomeInv, BagsType, WorkType
    <2>. DEFINE y == [left[v] EXCEPT !.start = FALSE]
                x == [w EXCEPT !.app = y]
    <2>4. y \in FieldsType /\ AppOk(y, w.kind) /\ ~y.start
      <3>1. ~y.start
        BY <2>3 DEF FieldsType
      <3>. QED
        BY <2>2, <2>3, <3>1, CopyOk
    <2>. HIDE DEF left, y
    <2>5. x \in WorkType /\ x.app = y /\ x.mine = w.mine /\ x.kind = w.kind
      BY <2>3, <2>4 DEF WorkType
    <2>6. r = Configured(x)
      BY <2>1 DEF y
    <2>. HIDE DEF x
    <2>7. Sound(x) /\ (Fresh(w) => Fresh(x))
      BY <2>4, <2>5 DEF Sound, Fresh
    <2>8. r.app = y /\ r.mine = w.mine /\ r.kind = w.kind
      BY <2>5, <2>6, ConfiguredSame
    <2>. QED
      BY <2>4, <2>6, <2>7, <2>8, ConfiguredGood DEF Good
  <1>. QED
    BY <1>1, <1>2

\* When a unit is left archiving to a repository that is not the cluster's, it was before
\* and has still to configure itself.
Told(u, event, r) ==
    creds # 0 /\ r.app.of = rounds /\ r.kind # "own" /\ r.archiving =>
        event # "peer" /\ archiving[u] /\ app.of = rounds

\* What every hook comes to.
Events == {"credentials", "peer", "gone", "none"}
HookDoes(u) ==
    \E r \in WorkType, event \in Events :
       /\ Ends(u, event, r) /\ Kept /\ Handled(Work(u), r) /\ Sound(r)
       /\ ArchivesInv => u \in Members /\ Fresh(r) /\ Told(u, event, r)

LEMMA WorkSound ==
    ASSUME BagsType, OutcomeInv, NEW u \in Units
    PROVE  LET w == Work(u) IN
           /\ w \in WorkType /\ Sound(w)
           /\ w.app = app /\ w.mine = bag[u] /\ w.kind = repo[creds]
           /\ w.archiving = archiving[u] /\ w.status = status[u]
           /\ ArchivesInv /\ u \in Members => Fresh(w)
  <1>1. Work(u) \in WorkType
    BY WorkHandled DEF Handled
  <1>2. /\ Work(u).app = app /\ Work(u).mine = bag[u] /\ Work(u).kind = repo[creds]
        /\ Work(u).archiving = archiving[u] /\ Work(u).status = status[u]
    BY DEF Work
  <1>. QED
    BY <1>1, <1>2 DEF Sound, OutcomeInv, ArchivesInv, Fresh

LEMMA CredentialsDoes ==
    ASSUME BagsType, OutcomeInv, NEW u \in Units, OnCredentials(u)
    PROVE  HookDoes(u)
  <1>. DEFINE w == Work(u)
              a == [w EXCEPT !.app = AnnouncedFields]
              x == IF u # leader THEN w ELSE IF u = primary THEN a ELSE Activated(u, a)
  <1>0. creds # 0 /\ rounds \in Nat /\ rounds > 0
    BY DEF OnCredentials, OutcomeInv, BagsType
  <1>1. /\ w \in WorkType /\ Sound(w) /\ w.app = app /\ w.mine = bag[u]
        /\ w.kind = repo[creds] /\ w.archiving = archiving[u]
        /\ ArchivesInv /\ u \in Members => Fresh(w)
    BY WorkSound
  <1>2. ArchivesInv => u \in Members
    BY DEF OnCredentials, ArchivesInv
  <1>3. PICK r : /\ Ends(u, "credentials", r)
                 /\ r = x \/ (~bag[u].done /\ r \in Tried(u, x))
    BY DEF OnCredentials
  <1>. HIDE DEF w
  <1>4. /\ a \in WorkType /\ a.app = AnnouncedFields /\ a.mine = w.mine /\ a.kind = w.kind
        /\ a.status = w.status
    <2>1. AnnouncedFields \in FieldsType
      BY NoFieldsType DEF AnnouncedFields, FieldsType
    <2>. QED
      BY <1>1, <2>1 DEF WorkType
  <1>5. AnnouncedFields.of = 0 /\ ~AnnouncedFields.done /\ AnnouncedFields \in FieldsType
        /\ AnnouncedFields.start
    BY NoFieldsType DEF AnnouncedFields, NoFields, FieldsType
  <1>6. Sound(a) /\ Handled(w, a) /\ (Fresh(w) => Fresh(a))
    <2>1. AppOk(AnnouncedFields, w.kind)
      BY <1>0, <1>5 DEF AppOk
    <2>. QED
      BY <1>1, <1>4, <1>5, <2>1 DEF Sound, Handled, Fresh
  <1>7. Sound(Activated(u, a)) /\ Handled(a, Activated(u, a))
        /\ Activated(u, a).app = AnnouncedFields /\ Activated(u, a).mine = w.mine
        /\ (Fresh(w) => Fresh(Activated(u, a)))
    BY <1>4, <1>6, ActivatedHandled, ActivatedGood, ActivatedSame
  <1>8. /\ Sound(x) /\ Handled(w, x) /\ (Fresh(w) => Fresh(x)) /\ x.mine = bag[u]
        /\ x = w \/ x.app = AnnouncedFields
        /\ u = leader => x.app = AnnouncedFields
    <2>1. Handled(w, w)
      BY <1>1 DEF Handled
    <2>2. Handled(w, Activated(u, a))
      BY <1>6, <1>7, HandledTwice
    <2>. QED
      BY <1>1, <1>4, <1>6, <1>7, <2>1, <2>2
  <1>. HIDE DEF a, x
  <1>9. CASE r = x
    <2>1. ArchivesInv => Told(u, "credentials", r)
      BY <1>0, <1>1, <1>5, <1>8, <1>9 DEF Told
    <2>. QED
      BY <1>1, <1>2, <1>3, <1>8, <1>9, <2>1 DEF HookDoes, OnCredentials, Sound, Events, w
  <1>10. CASE ~bag[u].done /\ r \in Tried(u, x)
    <2>1. x.mine = NoFields
      BY <1>8, <1>10 DEF Sound, MineOk
    <2>2. Good(r)
      BY <1>0, <1>8, <1>10, <2>1, TriedGood
    <2>3. Handled(w, r)
      BY <1>8, <1>10, TriedHandled, HandledTwice DEF Sound
    <2>4. Told(u, "credentials", r)
      BY <2>2 DEF Good, Clear, Told
    <2>. QED
      BY <1>2, <1>3, <2>2, <2>3, <2>4 DEF HookDoes, OnCredentials, Good, Sound, Events, w
  <1>. QED
    BY <1>3, <1>9, <1>10

LEMMA PeerChangedDoes ==
    ASSUME BagsType, OutcomeInv, NEW u \in Units, OnPeerChanged(u)
    PROVE  HookDoes(u)
  <1>. DEFINE w == Work(u)
              x == Configured(w)
  <1>1. /\ w \in WorkType /\ Sound(w) /\ w.kind = repo[creds]
        /\ ArchivesInv /\ u \in Members => Fresh(w)
    BY WorkSound
  <1>2. ArchivesInv => u \in Members
    BY DEF OnPeerChanged, ArchivesInv
  <1>3. PICK r : /\ Ends(u, "peer", r)
                 /\ \/ r = x
                    \/ \E c \in Coordinated(u, x) :
                          \/ r = c
                          \/ r = [c EXCEPT !.mine = NoFields]
                          \/ creds # 0 /\ c.app.start /\ ~c.mine.done /\ r \in Tried(u, c)
    BY DEF OnPeerChanged
  <1>4. /\ Sound(x) /\ Handled(w, x) /\ (Fresh(w) => Good(x)) /\ x.kind = repo[creds]
    BY <1>1, ConfiguredGood, ConfiguredHandled, ConfiguredSame
  <1>. HIDE DEF x, w
  <1>5. ASSUME NEW c \in Coordinated(u, x)
        PROVE  /\ Sound(c) /\ Handled(w, c) /\ (Fresh(w) => Good(c))
               /\ LET d == [c EXCEPT !.mine = NoFields] IN
                  Sound(d) /\ Handled(w, d) /\ (Fresh(w) => Good(d))
    <2>1. Sound(c) /\ (Fresh(w) => Good(c))
      BY <1>4, CoordinatedGood DEF Good
    <2>2. Handled(w, c)
      BY <1>4, CoordinatedHandled, HandledTwice DEF Sound
    <2>. DEFINE d == [c EXCEPT !.mine = NoFields]
    <2>3. /\ d \in WorkType /\ d.app = c.app /\ d.mine = NoFields /\ d.kind = c.kind
          /\ d.archiving = c.archiving /\ d.status = c.status
      BY <2>1, NoFieldsType DEF Sound, WorkType
    <2>. HIDE DEF d
    <2>4. Sound(d) /\ Fresh(d) /\ (Clear(c) => Clear(d))
      BY <2>1, <2>3 DEF Sound, MineOk, Fresh, Clear, NoFields
    <2>5. Handled(w, d)
      BY <2>2, <2>3 DEF Handled
    <2>. QED
      BY <2>1, <2>2, <2>4, <2>5 DEF Good, d
  <1>6. ASSUME NEW c \in Coordinated(u, x), creds # 0, c.app.start, ~c.mine.done,
               NEW y \in Tried(u, c)
        PROVE  Good(y) /\ Handled(w, y)
    <2>1. c.app = AnnouncedFields /\ c.mine = NoFields
      BY <1>5, <1>6 DEF Sound, AppOk, MineOk
    <2>2. rounds > 0
      BY <1>6 DEF OutcomeInv
    <2>3. Good(y)
      BY <1>5, <1>6, <2>1, <2>2, TriedGood
    <2>4. Handled(c, y)
      BY <1>5, TriedHandled DEF Sound
    <2>. QED
      BY <1>5, <2>3, <2>4, HandledTwice
  <1>7. Sound(r) /\ Handled(w, r) /\ (Fresh(w) => Good(r))
    BY <1>3, <1>4, <1>5, <1>6 DEF Good
  <1>8. Good(r) => Told(u, "peer", r)
    BY DEF Good, Clear, Told
  <1>. QED
    BY <1>1, <1>2, <1>3, <1>7, <1>8 DEF HookDoes, OnPeerChanged, Good, Sound, Events, w

LEMMA OtherHooksDo ==
    ASSUME BagsType, OutcomeInv, NEW u \in Units,
           OnPeerRestoring(u) \/ UpdateStatus(u) \/ OnGone(u)
    PROVE  HookDoes(u)
  <1>. DEFINE w == Work(u)
  <1>0. /\ w \in WorkType /\ Sound(w) /\ w.app = app /\ w.kind = repo[creds]
        /\ w.archiving = archiving[u]
        /\ ArchivesInv /\ u \in Members => Fresh(w)
    BY WorkSound
  <1>. HIDE DEF w
  <1>1. CASE OnPeerRestoring(u)
    <2>. DEFINE r == Configured(w)
    <2>1. Sound(r) /\ Handled(w, r) /\ (Fresh(w) => Good(r))
      BY <1>0, ConfiguredGood, ConfiguredHandled
    <2>2. Ends(u, "peer", r) /\ Kept
      BY <1>1 DEF OnPeerRestoring, w
    <2>3. ArchivesInv => u \in Members
      BY <1>1 DEF OnPeerRestoring, ArchivesInv
    <2>. HIDE DEF r
    <2>4. Good(r) => Told(u, "peer", r)
      BY DEF Good, Clear, Told
    <2>. QED
      BY <1>0, <2>1, <2>2, <2>3, <2>4 DEF HookDoes, Good, Sound, Events, w
  <1>2. CASE UpdateStatus(u)
    <2>1. PICK c \in Coordinated(u, w) : Ends(u, "none", Activated(u, c))
      BY <1>2 DEF UpdateStatus, w
    <2>. DEFINE r == Activated(u, c)
    <2>2. /\ Sound(c) /\ Handled(w, c) /\ (Fresh(w) => Fresh(c))
          /\ c = w \/ (Fresh(w) => Good(c))
      BY <1>0, CoordinatedGood, CoordinatedHandled
    <2>3. /\ Sound(r) /\ Handled(w, r) /\ (Fresh(w) => Fresh(r))
          /\ Clear(c) => Clear(r)
          /\ r.app = c.app /\ r.kind = c.kind /\ r.archiving = c.archiving
      BY <2>2, ActivatedGood, ActivatedHandled, ActivatedSame, HandledTwice DEF Sound
    <2>4. u \in Members /\ Kept
      BY <1>2 DEF UpdateStatus
    <2>. HIDE DEF r
    <2>5. Fresh(w) => Told(u, "none", r)
      BY <1>0, <2>2, <2>3 DEF Good, Clear, Told
    <2>. QED
      BY <1>0, <2>1, <2>3, <2>4, <2>5 DEF HookDoes, Sound, Events, w, r
  <1>3. CASE OnGone(u)
    <2>. DEFINE x == [w EXCEPT !.app = IF u = leader THEN NoFields ELSE @, !.mine = NoFields]
                r == IF x.status = "s3" THEN Activated(u, x) ELSE x
    <2>1. /\ x \in WorkType /\ x.status = w.status /\ x.kind = w.kind /\ x.mine = NoFields
          /\ x.app \in {w.app, NoFields}
      BY <1>0, NoFieldsType DEF WorkType
    <2>2. Ends(u, "gone", r) /\ Kept
      BY <1>3 DEF OnGone, w
    <2>. HIDE DEF x
    <2>3. NoFields.of = 0 /\ NoFields.start = FALSE /\ NoFields.done = FALSE
      BY DEF NoFields
    <2>4. Sound(x) /\ Fresh(x) /\ Handled(w, x)
      <3>1. AppOk(NoFields, w.kind)
        BY <2>3 DEF AppOk, OutcomeInv, BagsType
      <3>. QED
        BY <1>0, <2>1, <2>3, <3>1 DEF Sound, MineOk, Fresh, Handled
    <2>5. Sound(r) /\ Fresh(r) /\ Handled(w, r)
      BY <2>1, <2>4, ActivatedGood, ActivatedHandled, HandledTwice
    <2>6. ArchivesInv => u \in Members /\ creds = 0
      BY <1>3 DEF OnGone, ArchivesInv
    <2>. HIDE DEF r
    <2>7. ArchivesInv => Told(u, "gone", r)
      BY <2>6 DEF Told
    <2>. QED
      BY <2>2, <2>5, <2>6, <2>7 DEF HookDoes, Sound, Events, w
  <1>. QED
    BY <1>1, <1>2, <1>3

LEMMA HooksDo ==
    ASSUME BagsType, OutcomeInv, NEW u \in Units, Hooks(u)
    PROVE  HookDoes(u)
  BY CredentialsDoes, PeerChangedDoes, OtherHooksDo DEF Hooks

\* A repository that was empty and is the cluster's now changes no outcome.
LEMMA StillOk ==
    ASSUME NEW x, NEW kind, MineOk(x, kind), NEW now,
           now \in {kind, "own"}, kind # "empty" => now = kind
    PROVE  MineOk(x, now)
  <1>1. CASE now = kind
    BY <1>1
  <1>2. CASE now = "own" /\ kind = "empty"
    <2>1. Refused([kind |-> "own"]) = Refused([kind |-> "empty"])
      BY DEF Refused
    <2>. QED
      BY <1>2, <2>1 DEF MineOk, Suits
  <1>. QED
    BY <1>1, <1>2

LEMMA HookOutcome ==
    ASSUME BagsType, OutcomeInv, NEW u \in Units, Hooks(u)
    PROVE  OutcomeInv'
  <1>1. PICK r \in WorkType, event \in Events :
           Ends(u, event, r) /\ Kept /\ Handled(Work(u), r) /\ Sound(r)
    BY HooksDo DEF HookDoes
  <1>2. UNCHANGED <<creds, rounds, restore, restores>>
    BY <1>1 DEF Kept, restoring
  <1>3. app' = r.app /\ repo'[creds] = r.kind /\ bag' = [bag EXCEPT ![u] = r.mine]
    BY <1>1 DEF Ends, BagsType
  <1>4. r.kind \in {repo[creds], "own"} /\ (repo[creds] # "empty" => r.kind = repo[creds])
    BY <1>1 DEF Handled, Work
  <1>5. AppOk(app, repo[creds])'
    BY <1>1, <1>2, <1>3 DEF Sound, AppOk, SuitsApp
  <1>6. ASSUME NEW v \in Units
        PROVE  MineOk(bag[v], repo[creds])'
    <2>1. MineOk(bag'[v], r.kind)
      <3>1. CASE v = u
        BY <1>1, <1>3, <3>1 DEF Sound, BagsType
      <3>2. CASE v # u
        BY <1>3, <1>4, <3>2, StillOk DEF OutcomeInv, BagsType
      <3>. QED
        BY <3>1, <3>2
    <2>. QED
      BY <1>2, <1>3, <2>1 DEF MineOk, Suits
  <1>. QED
    BY <1>2, <1>5, <1>6 DEF OutcomeInv

LEMMA HookArchives ==
    ASSUME BagsType, OutcomeInv, ArchivesInv, NEW u \in Units, Hooks(u)
    PROVE  ArchivesInv'
  <1>1. PICK r \in WorkType, event \in Events :
           /\ Ends(u, event, r) /\ Kept /\ Handled(Work(u), r)
           /\ u \in Members /\ Fresh(r) /\ Told(u, event, r)
    BY HooksDo DEF HookDoes
  <1>2. UNCHANGED <<creds, rounds>> /\ Members' = Members
    BY <1>1 DEF Kept, units, Members
  <1>3. /\ app' = r.app /\ repo'[creds] = r.kind /\ bag' = [bag EXCEPT ![u] = r.mine]
        /\ archiving' = [archiving EXCEPT ![u] = r.archiving]
    BY <1>1 DEF Ends, BagsType
  <1>4. repo[creds] = "own" => r.kind = "own"
    BY <1>1 DEF Handled, Work
  <1>5. Members \subseteq Units
    BY BackupsAssumption DEF BagsType, Members, Units
  <1>6. due' = [v \in Units |->
                  IF v = u THEN due[v] \ {event}
                  ELSE IF v \in Members /\ (r.app # app \/ r.mine # bag[u])
                  THEN due[v] \cup {"peer"} ELSE due[v]]
    BY <1>1 DEF Ends
  <1>7. \A v \in Units : v \notin Members' => due'[v] = {}
    BY <1>1, <1>2, <1>6 DEF ArchivesInv
  <1>8. \A v \in Members' : "gone" \in due'[v] => creds' = 0
    BY <1>2, <1>5, <1>6 DEF ArchivesInv
  <1>9. \A v \in Members' : bag'[v].done => bag'[v].of = rounds'
    BY <1>1, <1>2, <1>3, <1>5 DEF ArchivesInv, Fresh, BagsType
  <1>10. ASSUME creds # 0, r.app.of = rounds, r.kind # "own", NEW v \in Members, archiving'[v]
         PROVE  "peer" \in due'[v]
    <2>1. CASE v = u
      <3>1. r.archiving
        BY <1>3, <1>5, <1>10, <2>1 DEF BagsType
      <3>2. event # "peer" /\ archiving[u] /\ app.of = rounds
        BY <1>1, <1>10, <3>1 DEF Told
      <3>3. "peer" \in due[u]
        BY <1>1, <1>4, <1>10, <3>2 DEF ArchivesInv
      <3>. QED
        BY <1>6, <2>1, <3>2, <3>3
    <2>2. CASE v # u /\ r.app # app
      BY <1>5, <1>6, <2>2
    <2>3. CASE v # u /\ r.app = app
      <3>1. archiving[v]
        BY <1>3, <1>5, <1>10, <2>3 DEF BagsType
      <3>2. "peer" \in due[v]
        BY <1>4, <1>10, <2>3, <3>1 DEF ArchivesInv
      <3>. QED
        BY <1>5, <1>6, <2>3, <3>2
    <2>. QED
      BY <2>1, <2>2, <2>3
  <1>. QED
    BY <1>2, <1>3, <1>7, <1>8, <1>9, <1>10 DEF ArchivesInv

LEMMA InitOutcome == Init => OutcomeInv /\ ArchivesInv
  <1>. SUFFICES ASSUME Init
                PROVE  OutcomeInv /\ ArchivesInv
    OBVIOUS
  <1>1. AppOk(app, repo[creds])
    BY DEF Init, AppOk, NoFields
  <1>2. OutcomeInv
    BY <1>1 DEF Init, OutcomeInv, MineOk
  <1>3. ArchivesInv
    BY BackupsAssumption DEF Init, ArchivesInv, NoFields, Members, Units
  <1>. QED
    BY <1>2, <1>3

\* What the steps that are no hooks do to the bags.
LEMMA StepOutcome ==
    ASSUME BagsType, restores \in Nat, restore \in RestoreType, OutcomeInv, [Next]_vars
    PROVE  OutcomeInv'
  <1>0. rounds \in Nat /\ (creds # 0 => rounds > 0) /\ app \in FieldsType
    BY DEF BagsType, OutcomeInv
  <1>1. ASSUME NEW u \in Units, Hooks(u)
        PROVE  OutcomeInv'
    BY <1>1, HookOutcome
  <1>2. ASSUME NEW r \in Repositories, SetCredentials(r)
        PROVE  OutcomeInv'
    <2>1. rounds' = rounds + 1
          /\ UNCHANGED <<app, bag, restore>>
      BY <1>2 DEF SetCredentials, bags, restoring
    <2>2. AppOk(app, repo[creds])'
      BY <1>0, <2>1 DEF OutcomeInv, AppOk, FieldsType
    <2>3. ASSUME NEW u \in Units
          PROVE  MineOk(bag[u], repo[creds])'
      BY <1>0, <2>1 DEF OutcomeInv, MineOk
    <2>. QED
      BY <1>0, <2>1, <2>2, <2>3 DEF OutcomeInv
  <1>3. CASE RemoveS3
    <2>1. creds' = 0 /\ UNCHANGED <<rounds, app, bag, restore>>
      BY <1>3 DEF RemoveS3, bags, restoring
    <2>. QED
      BY <2>1 DEF OutcomeInv, AppOk, MineOk
  <1>4. ASSUME UNCHANGED <<rounds, creds, app, bag, restore, restores>>,
               repo'[creds] = repo[creds]
        PROVE  OutcomeInv'
    BY <1>4 DEF OutcomeInv, AppOk, MineOk, SuitsApp, Suits
  <1>5. ASSUME NEW u \in Units, Elect(u) \/ Failover(u) \/ CreateBackup(u)
        PROVE  OutcomeInv'
    BY <1>4, <1>5 DEF Elect, Failover, CreateBackup, s3, bags, restoring
  <1>6. CASE RemoveUnit
    <2>1. UNCHANGED <<rounds, creds, repo, restore, restores>> /\ app' \in {app, NoFields}
      BY <1>6 DEF RemoveUnit, s3, restoring
    <2>2. AppOk(NoFields, repo[creds])
      BY <1>0 DEF AppOk, NoFields
    <2>3. AppOk(app, repo[creds])'
      BY <2>1, <2>2 DEF OutcomeInv, AppOk, SuitsApp
    <2>4. ASSUME NEW u \in Units
          PROVE  MineOk(bag[u], repo[creds])'
      <3>1. bag'[u] \in {bag[u], NoFields}
        BY <1>6 DEF RemoveUnit, BagsType
      <3>. QED
        BY <2>1, <3>1 DEF OutcomeInv, MineOk, Suits
    <2>. QED
      BY <2>1, <2>3, <2>4 DEF OutcomeInv
  <1>7. ASSUME NEW t \in Targets, Restore(t)
        PROVE  OutcomeInv'
    <2>1. /\ UNCHANGED <<rounds, creds, repo, bag>> /\ restores' = restores + 1
          /\ app' = [app EXCEPT !.block = "none"] /\ restore'.stanza = TRUE
      BY <1>7 DEF Restore, s3
    <2>2. restores' # 0
      BY <2>1
    <2>3. /\ app'.start = app.start /\ app'.of = app.of /\ app'.stanza = app.stanza
          /\ app'.block = "none" /\ (app.block = "none" => app' = app)
      BY <1>0, <2>1 DEF FieldsType
    <2>4. AppOk(app, repo[creds])'
      <3>1. AnnouncedFields.block = "none"
        BY DEF AnnouncedFields, NoFields
      <3>. QED
        BY <2>1, <2>2, <2>3, <3>1 DEF OutcomeInv, AppOk, SuitsApp
    <2>5. ASSUME NEW u \in Units
          PROVE  MineOk(bag[u], repo[creds])'
      BY <2>1 DEF OutcomeInv, MineOk, Suits
    <2>. QED
      BY <1>0, <2>1, <2>4, <2>5 DEF OutcomeInv
  <1>8. CASE RestoreGivesUp
    <2>1. /\ UNCHANGED <<rounds, creds, repo, app, bag>> /\ restores' = restores + 1
          /\ restore' \in {restore, [restore EXCEPT !.backup = FALSE, !.time = 0]}
      BY <1>8 DEF RestoreGivesUp, GivesUp, s3, bags
    <2>2. restore'.stanza = restore.stanza
      BY <2>1 DEF RestoreType
    <2>3. restores' # 0
      BY <2>1
    <2>4. AppOk(app, repo[creds])'
      BY <2>1, <2>2, <2>3 DEF OutcomeInv, AppOk, SuitsApp
    <2>5. ASSUME NEW u \in Units
          PROVE  MineOk(bag[u], repo[creds])'
      BY <2>1 DEF OutcomeInv, MineOk, Suits
    <2>. QED
      BY <1>0, <2>1, <2>4, <2>5 DEF OutcomeInv
  <1>9. CASE Bootstraps \/ BootstrapFails \/ CheckFails
    <2>1. repo'[creds] = repo[creds]
      BY <1>9 DEF Bootstraps, BootstrapFails, CheckFails, s3, BagsType
    <2>. QED
      BY <1>4, <1>9, <2>1 DEF Bootstraps, BootstrapFails, CheckFails, s3, bags
  <1>10. CASE CheckSucceeds
    <2>1. /\ UNCHANGED <<rounds, creds, repo, bag, restores>>
          /\ app' = Verdict /\ restore' = NoRestore
      BY <1>10 DEF CheckSucceeds, s3
    <2>2. AppOk(app, repo[creds])'
      <3>1. CASE repo[creds] = "foreign"
        <4>1. /\ app'.start = FALSE /\ app'.of = app.of /\ app'.stanza = FALSE
              /\ app'.block = "foreign"
          BY <2>1, <3>1 DEF Verdict, NoFields
        <4>2. Refused([kind |-> "foreign"]) = "foreign"
          BY DEF Refused
        <4>. QED
          BY <2>1, <3>1, <4>1, <4>2 DEF OutcomeInv, AppOk, SuitsApp
      <3>2. CASE repo[creds] # "foreign"
        BY <2>1, <3>2 DEF Verdict, OutcomeInv, AppOk, SuitsApp
      <3>. QED
        BY <3>1, <3>2
    <2>3. ASSUME NEW u \in Units
          PROVE  MineOk(bag[u], repo[creds])'
      BY <2>1 DEF OutcomeInv, MineOk, Suits
    <2>. QED
      BY <1>0, <2>1, <2>2, <2>3 DEF OutcomeInv
  <1>11. CASE UNCHANGED vars
    BY <1>4, <1>11 DEF vars, s3, bags, restoring
  <1>. QED
    BY <1>1, <1>2, <1>3, <1>5, <1>6, <1>7, <1>8, <1>9, <1>10, <1>11 DEF Next

LEMMA StepArchives ==
    ASSUME ~MayLinger, BagsType, due \in Dues, OutcomeInv, ArchivesInv, [Next]_vars
    PROVE  ArchivesInv'
  <1>0. /\ rounds \in Nat /\ (creds # 0 => rounds > 0) /\ planned \in Nat /\ planned > 0
        /\ Members \subseteq Units
    BY BackupsAssumption DEF BagsType, OutcomeInv, Members, Units
  <1>1. ASSUME NEW u \in Units, Hooks(u)
        PROVE  ArchivesInv'
    BY <1>1, HookArchives
  <1>2. ASSUME NEW r \in Repositories, SetCredentials(r)
        PROVE  ArchivesInv'
    <2>1. /\ Members' = Members /\ rounds' = rounds + 1 /\ app' = app /\ bag' = bag
          /\ \A u \in Members : "gone" \notin due[u] /\ ~bag[u].done
          /\ due' = [u \in Units |-> IF u \in Members THEN due[u] \cup {"credentials"} ELSE due[u]]
      BY <1>2 DEF SetCredentials, Members, units, bags
    <2>2. app'.of # rounds'
      BY <1>0, <2>1 DEF OutcomeInv, AppOk, BagsType, FieldsType
    <2>. QED
      BY <1>0, <2>1, <2>2 DEF ArchivesInv
  <1>3. CASE RemoveS3
    <2>1. /\ Members' = Members /\ creds' = 0 /\ rounds' = rounds /\ bag' = bag
          /\ due' = [u \in Units |->
                       IF u \in Members THEN (due[u] \ {"credentials"}) \cup {"gone"} ELSE due[u]]
      BY <1>3 DEF RemoveS3, Members, units, bags
    <2>. QED
      BY <1>0, <2>1 DEF ArchivesInv
  <1>4. ASSUME NEW u \in Units, Elect(u)
        PROVE  ArchivesInv'
    <2>1. /\ Members' = Members /\ UNCHANGED <<creds, rounds, repo, app, bag, archiving>>
          /\ u \in Members
          /\ due' = [due EXCEPT ![u] = IF creds # 0 THEN @ \cup {"credentials"} ELSE @]
      BY <1>4 DEF Elect, Members, s3, bags
    <2>2. \A v \in Units : due'[v] = due[v] \/ (v = u /\ due'[v] = due[v] \cup {"credentials"})
      BY <2>1 DEF ArchivesInv
    <2>. QED
      BY <1>0, <2>1, <2>2 DEF ArchivesInv
  <1>5. ASSUME UNCHANGED <<planned, creds, rounds, bag, due>>, app'.of = app.of,
               repo'[creds] = repo[creds],
               creds # 0 /\ app.of = rounds /\ repo[creds] # "own" =>
                  \A u \in Members : archiving'[u] => archiving[u]
        PROVE  ArchivesInv'
    <2>1. Members' = Members
      BY <1>5 DEF Members
    <2>. QED
      BY <1>5, <2>1 DEF ArchivesInv
  <1>6. ASSUME NEW u \in Units, Failover(u) \/ CreateBackup(u)
        PROVE  ArchivesInv'
    <2>1. UNCHANGED <<planned, creds, rounds, repo, bag, due, app>>
      BY <1>6 DEF Failover, CreateBackup, s3, bags, units
    <2>2. archiving' = archiving \/ repo[creds] = "own"
      BY <1>6 DEF Failover, CreateBackup
    <2>. QED
      BY <1>5, <2>1, <2>2
  <1>7. CASE RemoveUnit
    <2>. DEFINE gone == planned - 1
    <2>1. Members' = Members \ {gone} /\ gone \in Units /\ gone # 0 /\ 0 \in Members'
      BY <1>0, <1>7, BackupsAssumption DEF RemoveUnit, Members, BagsType, Units
    <2>2. /\ UNCHANGED <<creds, rounds, repo, archiving>>
          /\ app' \in {app, NoFields} /\ bag' = [bag EXCEPT ![gone] = NoFields]
          /\ due' = [due EXCEPT ![gone] = {},
                          ![0] = IF leader = gone /\ creds # 0 THEN @ \cup {"credentials"} ELSE @]
      BY <1>7 DEF RemoveUnit, s3
    <2>. HIDE DEF gone
    <2>3. due'[gone] = {}
      BY <2>1, <2>2 DEF Dues
    <2>4. \A v \in Units \ {gone} :
             due'[v] = due[v] \/ (v = 0 /\ due'[v] = due[v] \cup {"credentials"})
      BY <2>1, <2>2 DEF Dues
    <2>5. \A v \in Units \ {gone} : bag'[v] = bag[v]
      BY <2>1, <2>2 DEF BagsType
    <2>6. creds # 0 /\ app'.of = rounds => app' = app
      BY <1>0, <2>2 DEF NoFields
    <2>7. Members' \subseteq Units \ {gone} /\ Units \ Members' = (Units \ Members) \cup {gone}
      BY <1>0, <2>1
    <2>8. \A v \in Units : v \notin Members' => due'[v] = {}
      BY <2>1, <2>3, <2>4, <2>7 DEF ArchivesInv
    <2>9. \A v \in Members' : v \in Members /\ v \in Units \ {gone}
      BY <2>1, <2>7
    <2>10. \A v \in Members' : "gone" \in due'[v] => creds' = 0
      <3>1. creds' = creds
        BY <2>2
      <3>. QED
        BY <2>4, <2>9, <3>1 DEF ArchivesInv
    <2>11. \A v \in Members' : bag'[v].done => bag'[v].of = rounds'
      <3>1. rounds' = rounds
        BY <2>2
      <3>. QED
        BY <2>5, <2>9, <3>1 DEF ArchivesInv
    <2>12. creds' # 0 /\ app'.of = rounds' /\ repo'[creds'] # "own" =>
              \A v \in Members' : archiving'[v] => "peer" \in due'[v]
      BY <2>2, <2>4, <2>6, <2>9 DEF ArchivesInv
    <2>. QED
      BY <2>8, <2>10, <2>11, <2>12 DEF ArchivesInv
  <1>8. ASSUME 0 \in Members, creds # 0, app.of = rounds, repo[creds] # "own"
        PROVE  ~app.stanza /\ ~bag[0].stanza
    <2>1. ~app.stanza
      BY <1>8 DEF OutcomeInv, AppOk, SuitsApp
    <2>2. MineOk(bag[0], repo[creds]) /\ (bag[0].done => bag[0].of = rounds)
      BY <1>0, <1>8 DEF OutcomeInv, ArchivesInv
    <2>. QED
      BY <1>8, <2>1, <2>2 DEF MineOk, Suits, NoFields
  <1>9. 0 \in Members
    BY <1>0 DEF Members
  <1>10. CASE CheckSucceeds \/ RestoreGivesUp \/ \E t \in Targets : Restore(t)
    <2>1. UNCHANGED <<planned, creds, rounds, repo, bag, due>>
      BY <1>10 DEF CheckSucceeds, RestoreGivesUp, Restore, s3, bags, units
    <2>2. app'.of = app.of
      BY <1>10 DEF CheckSucceeds, Verdict, RestoreGivesUp, Restore, bags, BagsType, FieldsType,
                   NoFields
    <2>3. \/ archiving' = archiving
          \/ archiving' = [archiving EXCEPT ![0] = app.stanza \/ bag[0].stanza]
      BY <1>10 DEF CheckSucceeds, RestoreGivesUp, GivesUp, Restore
    <2>4. creds # 0 /\ app.of = rounds /\ repo[creds] # "own" =>
             \A u \in Members : archiving'[u] => archiving[u]
      BY <1>0, <1>8, <1>9, <2>3 DEF BagsType
    <2>. QED
      BY <1>5, <2>1, <2>2, <2>4
  <1>11. CASE Bootstraps \/ BootstrapFails \/ CheckFails
    <2>1. repo'[creds] = repo[creds]
      BY <1>11 DEF Bootstraps, BootstrapFails, CheckFails, s3, BagsType
    <2>. QED
      BY <1>5, <1>11, <2>1 DEF Bootstraps, BootstrapFails, CheckFails, s3, bags, units
  <1>12. CASE UNCHANGED vars
    BY <1>5, <1>12 DEF vars, s3, bags, units
  <1>. QED
    BY <1>1, <1>2, <1>3, <1>4, <1>6, <1>7, <1>10, <1>11, <1>12 DEF Next

LEMMA BagsAreTyped ==
    ASSUME TypeOK
    PROVE  /\ BagsType /\ restores \in Nat /\ primary \in Members
           /\ restore \in RestoreType /\ due \in Dues
  BY DEF TypeOK, BagsType, Statuses, RestoreType, Dues

\* When a round is over, its outcome in the application bag is that of the present
\* credentials (coordinate_stanza_fields, check_stanza, _s3_initialization_set_failure).
THEOREM OutcomeIsPresent == Spec => []OutcomeOfRound
  <1>1. Init => OutcomeInv
    BY InitOutcome
  <1>2. TypeOK /\ OutcomeInv /\ [Next]_vars => OutcomeInv'
    BY BagsAreTyped, StepOutcome
  <1>3. OutcomeInv => OutcomeOfRound
    <2>1. Work(0).kind = repo[creds]
      BY DEF Work
    <2>2. Refused(Work(0)) = Refused([kind |-> repo[creds]])
      BY <2>1, RefusedOf
    <2>. QED
      BY <2>2 DEF OutcomeInv, OutcomeOfRound, UpToDate, AppOk, SuitsApp, NoRestore
  <1>. QED
    BY <1>1, <1>2, <1>3, TypeCorrect, PTL DEF Spec

\* The same, and the primary archives to the cluster's own repository only, as long as
\* credentials are not given before the units cleared what they wrote about earlier ones.
THEOREM RoundsEndWell == ~MayLinger => (Spec => []RoundOutcome)
  <1>. SUFFICES ASSUME ~MayLinger
                PROVE  Spec => []RoundOutcome
    OBVIOUS
  <1>. DEFINE I == OutcomeInv /\ ArchivesInv
  <1>1. Init => I
    BY InitOutcome
  <1>2. TypeOK /\ I /\ [Next]_vars => I'
    BY BagsAreTyped, StepOutcome, StepArchives
  <1>3. TypeOK /\ I => ArchivesToOwn
    BY BagsAreTyped DEF ArchivesInv, ArchivesToOwn, UpToDate, Quiet
  <1>4. OutcomeOfRound /\ ArchivesToOwn => RoundOutcome
    BY DEF RoundOutcome
  <1>. QED
    BY <1>1, <1>2, <1>3, <1>4, TypeCorrect, OutcomeIsPresent, PTL DEF Spec
=============================================================================
