------------------------------ MODULE Backups ------------------------------
(***************************************************************************)
(* Backups to S3: src/backups.py, lib/.../s3.py, and what src/charm.py     *)
(* does about restores.                                                    *)
(*                                                                         *)
(* New credentials reach every unit.  The primary tries the repository out *)
(* and creates its stanza; the leader announces the round in the           *)
(* application bag (s3-initialization-start) and, when the two are         *)
(* different units, copies what the primary left in its unit bag.  A       *)
(* restore is run on the last unit: the data are deleted, flags in the     *)
(* application bag make Patroni bootstrap from the repository, and         *)
(* whichever hook runs next finds out how it ended.                        *)
(*                                                                         *)
(* A hook or an action is one step; a hook that needs what it does not     *)
(* have fails or defers its event, and is not enabled.                     *)
(***************************************************************************)
EXTENDS Integers, FiniteSets

CONSTANTS
    K,             \* units at the start; units are removed from the highest down
    MaxRounds,     \* times that credentials are given
    MaxChanges,    \* the same and restore actions, together
    MaxBackups,    \* create-backup actions
    MaxIncidents,  \* failures of pgBackRest, of Kubernetes and of the workload, and
                   \* changes of the leader or of the primary, together
    MayRush,       \* a restore may be run before a hook has seen how the last one ended
    MayLinger      \* credentials may be given while a unit has not cleared what it wrote
                   \* about earlier ones, which it does when the leader copied it

ASSUME BackupsAssumption ==
    /\ K \in Nat \ {0}
    /\ {MaxRounds, MaxChanges, MaxBackups, MaxIncidents} \subseteq Nat
    /\ {MayRush, MayLinger} \subseteq BOOLEAN

Units == 0 .. K - 1
Repositories == 1 .. 2
Kinds == {"own", "empty", "foreign", "denied"}
Messages == {"none", "access", "foreign", "failed"}
Latest == -1

VARIABLES
    planned,    \* the units are 0 .. planned - 1
    leader, primary,
    creds,      \* the repository of the credentials in the relation, 0 when there are none
    rounds,     \* history: times that credentials were given
    repo,       \* what each repository is to this cluster
    app,        \* application bag: stanza and the s3-initialization- fields
    bag,        \* unit bags: the same fields, but for start; history: the round of a result
    archiving,  \* archive_command of each unit's patroni.yml calls pgBackRest
    status,     \* unit status: "ok", "s3" (one of S3_BLOCK_MESSAGES), "pitr", "failed"
    due,        \* the events each unit has still to handle, deferred ones included
    restore,    \* application bag: restoring-backup, restore-to-time, -timeline, -stanza;
                \* history: the timeline was not given by the operator
    override,   \* Pebble does not restart Patroni when it fails
    service,    \* Patroni on the last unit: running, bootstrapping, failed
    data,       \* what is on its volume: "kept", "new" or "empty"
    unseen,     \* Patroni's log has a failed bootstrap that last_pitr_fail_id is not
    history,    \* entries of each repository: backups and timelines
    active,     \* history: the timeline at each instant; an instant is a backup or a restore
    moved,      \* history: the primary moved while a round was on
    elections, failures, restores

bags == <<app, bag>>
units == <<planned, leader, primary>>
s3 == <<creds, rounds, repo>>
restoring == <<restore, override, service, data, unseen, restores>>
archive == <<history, active>>
vars == <<units, s3, bags, archiving, status, due, restoring, archive, moved,
          elections, failures>>

Members == 0 .. planned - 1
NoFields == [start |-> FALSE, done |-> FALSE, stanza |-> FALSE, block |-> "none", of |-> 0]
NoRestore == [backup |-> FALSE, time |-> 0, timeline |-> 0, stanza |-> FALSE,
              chosen |-> FALSE]
Clock == Cardinality(DOMAIN active)

MayChange == rounds + restores < MaxChanges
MayFail == elections + failures < MaxIncidents

Init ==
    /\ planned = K /\ leader \in Units /\ primary \in Units
    /\ creds = 0 /\ rounds = 0
    /\ repo \in {f \in [0 .. 2 -> {"empty", "foreign", "denied"}] : f[0] = "denied"}
    /\ repo[1] = "foreign" => repo[2] = "foreign"   \* the two are alike
    /\ repo[2] = "empty" => repo[1] = "empty"
    /\ app = NoFields /\ bag = [u \in Units |-> NoFields]
    /\ archiving = [u \in Units |-> FALSE] /\ status = [u \in Units |-> "ok"]
    /\ due = [u \in Units |-> {}]
    /\ restore = NoRestore /\ override = FALSE /\ service = "running" /\ data = "kept"
    /\ unseen = FALSE
    /\ history = [r \in 0 .. 2 |->
                     IF repo[r] = "foreign" THEN {[at |-> 1, timeline |-> 1, is |-> "backup"]}
                     ELSE {}]
    /\ active = [t \in {} |-> 1]
    /\ moved = FALSE
    /\ elections = 0 /\ failures = 0 /\ restores = 0

-----------------------------------------------------------------------------
(* The S3 repository.  A handler works on what it reads and has written: the *)
(* application bag, its unit's bag, its configuration and its status.        *)

Work(u) == [app |-> app, mine |-> bag[u], archiving |-> archiving[u], status |-> status[u],
            kind |-> repo[creds], failures |-> failures]

IsRestoring == restore.backup \/ restore.time # 0

\* update_config, as to the archiving.
Configured(w) == [w EXCEPT !.archiving = w.app.stanza \/ w.mine.stanza]

\* _set_active_status.
Activated(u, w) ==
    [w EXCEPT !.status = IF u = leader /\ w.app.block # "none" THEN "s3" ELSE "ok"]

\* _s3_initialization_set_failure.
FailedUntold(u, w, message) == [w EXCEPT !.mine.block = message, !.mine.stanza = FALSE]
Failed(u, w, message) ==
    IF u = leader
    THEN Activated(u, [w EXCEPT !.app.block = message, !.app.start = FALSE,
                                !.app.stanza = FALSE, !.app.of = rounds])
    ELSE [w EXCEPT !.mine.block = message, !.mine.done = TRUE, !.mine.stanza = FALSE,
                   !.mine.of = rounds]

\* _initialise_stanza, once pgBackRest created the stanza.
Created(u, w) ==
    LET made == [w EXCEPT !.kind = IF @ = "empty" THEN "own" ELSE @] IN
    IF u = leader THEN [made EXCEPT !.app.stanza = TRUE]
                  ELSE [made EXCEPT !.mine.stanza = TRUE]

\* check_stanza, when pgBackRest found nothing wrong.
Checked(u, w) ==
    IF u = leader THEN [Activated(u, w) EXCEPT !.app.start = FALSE, !.app.of = rounds]
                  ELSE [Activated(u, w) EXCEPT !.mine.done = TRUE, !.mine.of = rounds]

\* can_use_s3_repository and the access to the bucket.
Refused(w) ==
    IF w.kind = "denied" THEN "access" ELSE IF w.kind = "foreign" THEN "foreign" ELSE "none"

\* _on_s3_credential_changed_primary: what it may come to.
Tried(u, w0) ==
    LET w == Configured(w0)
        checked == Configured(Created(u, w))
        again(x) == [x EXCEPT !.failures = @ + 1] IN
    IF Refused(w) # "none" THEN {Failed(u, w, Refused(w))}
    ELSE {Checked(u, checked)} \cup
         IF MayFail
         THEN {Failed(u, again(w), "failed"), Failed(u, again(checked), "failed")}
         ELSE {}

\* coordinate_stanza_fields: the leader copies what some unit left.
CopiedAny(u, w) ==
    [v \in {v \in Members : (IF v = u THEN w.mine ELSE bag[v]).done} |->
        IF v = u THEN w.mine ELSE bag[v]]
Coordinated(u, w) ==
    LET left == CopiedAny(u, w) IN
    IF u # leader \/ ~w.app.start \/ DOMAIN left = {} THEN {w}
    ELSE {Configured([w EXCEPT !.app = [left[v] EXCEPT !.start = FALSE]]) : v \in DOMAIN left}

\* A handler ends: its writes are committed, and the others told of them.
Ends(u, event, w) ==
    /\ app' = w.app /\ bag' = [bag EXCEPT ![u] = w.mine]
    /\ archiving' = [archiving EXCEPT ![u] = w.archiving]
    /\ status' = [status EXCEPT ![u] = w.status]
    /\ repo' = [repo EXCEPT ![creds] = w.kind] /\ failures' = w.failures
    /\ due' = [v \in Units |->
                  IF v = u THEN due[v] \ {event}
                  ELSE IF v \in Members /\ (w.app # app \/ w.mine # bag[u])
                  THEN due[v] \cup {"peer"} ELSE due[v]]

Kept == UNCHANGED <<units, creds, rounds, restoring, archive, elections>>

\* s3_client.on.credentials_changed and leader_elected.
AnnouncedFields == [NoFields EXCEPT !.start = TRUE]
OnCredentials(u) ==
    LET w == IF u # leader THEN Work(u)
             ELSE LET a == [Work(u) EXCEPT !.app = AnnouncedFields] IN
                  IF u = primary THEN a ELSE Activated(u, a)
        mine == u = primary /\ ~bag[u].done IN
    /\ "credentials" \in due[u] /\ creds # 0
    /\ ~IsRestoring /\ status[u] # "pitr"
    /\ \E r \in (IF mine THEN Tried(u, w) ELSE {w}) : Ends(u, "credentials", r)
    /\ UNCHANGED moved /\ Kept

\* _on_peer_relation_changed, as to backups, outside of a restore.
OnPeerChanged(u) ==
    LET w == Configured(Work(u)) IN
    /\ "peer" \in due[u] /\ ~IsRestoring
    /\ \E r \in (IF w.status # "ok" THEN {w} ELSE
                 UNION { LET toTry == c.app.start /\ ~c.mine.done /\ u = primary
                             cleaned(x) == IF x.app.done /\ u # leader
                                           THEN [x EXCEPT !.mine = NoFields] ELSE x IN
                         IF ~toTry THEN {cleaned(c)}
                         ELSE IF creds = 0 THEN {} ELSE Tried(u, c)
                         : c \in Coordinated(u, w) }) :
          Ends(u, "peer", r)
    /\ UNCHANGED moved /\ Kept

\* The same hook in a restore; what it finds out of it is CheckFails or CheckSucceeds.
OnPeerRestoring(u) ==
    /\ "peer" \in due[u] /\ IsRestoring
    /\ Ends(u, "peer", Configured(Work(u)))
    /\ UNCHANGED moved /\ Kept

\* _on_update_status, as to backups, outside of a restore.
UpdateStatus(u) ==
    /\ u \in Members /\ status[u] \in {"ok", "s3"} /\ ~IsRestoring
    /\ \E c \in Coordinated(u, Work(u)) : Ends(u, "none", Activated(u, c))
    /\ UNCHANGED moved /\ Kept

\* _on_s3_credential_gone; without credentials the other handler does nothing.
OnGone(u) ==
    LET w == [Work(u) EXCEPT !.app = IF u = leader THEN NoFields ELSE @, !.mine = NoFields] IN
    /\ "gone" \in due[u]
    /\ Ends(u, "gone", IF w.status = "s3" THEN Activated(u, w) ELSE w)
    /\ UNCHANGED moved /\ Kept

\* The operator and the S3 integrator.
SetCredentials(r) ==
    /\ MayChange /\ rounds < MaxRounds /\ rounds' = rounds + 1
    /\ r # creds /\ creds' = r
    /\ \A u \in Members : "gone" \notin due[u] /\ (MayLinger \/ ~bag[u].done)
    /\ due' = [u \in Units |-> IF u \in Members THEN due[u] \cup {"credentials"} ELSE due[u]]
    /\ UNCHANGED <<units, repo, bags, archiving, status, restoring, archive, moved,
                   elections, failures>>

RemoveS3 ==
    /\ creds # 0 /\ creds' = 0 /\ ~IsRestoring
    /\ due' = [u \in Units |->
                  IF u \in Members THEN (due[u] \ {"credentials"}) \cup {"gone"} ELSE due[u]]
    /\ UNCHANGED <<units, rounds, repo, bags, archiving, status, restoring, archive, moved, elections, failures>>

Elect(u) ==
    /\ MayFail /\ elections' = elections + 1
    /\ u \in Members /\ u # leader /\ leader' = u
    /\ due' = [due EXCEPT ![u] = IF creds # 0 THEN @ \cup {"credentials"} ELSE @]
    /\ UNCHANGED <<planned, primary, s3, bags, archiving, status, restoring, archive,
                   moved, failures>>

Failover(u) ==
    /\ MayFail /\ elections' = elections + 1
    /\ u \in Members /\ u # primary /\ primary' = u
    /\ moved' = (moved \/ app.start)
    /\ UNCHANGED <<planned, leader, s3, bags, archiving, status, due, restoring, archive,
                   failures>>

\* The last unit is removed.  On the leader that is the end of the credentials too,
\* and the unit that leads after it starts anew.
RemoveUnit ==
    LET gone == planned - 1 IN
    /\ planned > 1 /\ planned' = gone
    /\ leader' = IF leader = gone THEN 0 ELSE leader
    /\ primary' = IF primary = gone THEN 0 ELSE primary
    /\ moved' = (moved \/ (primary = gone /\ app.start))
    /\ app' = IF leader = gone /\ creds # 0 THEN NoFields ELSE app
    /\ bag' = [bag EXCEPT ![gone] = NoFields]
    /\ due' = [due EXCEPT ![gone] = {},
                          ![0] = IF leader = gone /\ creds # 0 THEN @ \cup {"credentials"} ELSE @]
    /\ UNCHANGED <<s3, archiving, status, restoring, archive, elections, failures>>

-----------------------------------------------------------------------------
(* Backups and timelines. *)

Entries(is) == {e \in history[creds] : e.is = is}
BackupsList == Entries("backup")
Timelines == Entries("timeline")

LastOf(S) == CHOOSE e \in S : \A f \in S : e.at > f.at \/ e = f

\* _get_nearest_timeline: the last backup or timeline that is not after the target.
NearestOf(S, target) ==
    LET before == {e \in S : target = Latest \/ e.at <= target} IN
    IF before = {} THEN 0 ELSE LastOf(before).timeline
NearestBackup(target) == NearestOf(BackupsList, target)
Nearest(target) == NearestOf(history[creds], target)

\* There is no base backup created from the latest timeline.
LatestUnbacked ==
    /\ Timelines # {}
    /\ \A b \in BackupsList : \E t \in Timelines : t.timeline > b.timeline

Current == IF Clock = 0 THEN 1 ELSE active[Clock]
Tick(timeline) == active' = [t \in 1 .. Clock + 1 |-> IF t <= Clock THEN active[t] ELSE timeline]
Record(e) == history' = [history EXCEPT ![creds] = @ \cup {e}]

\* _can_unit_perform_backup: with TLS on a replica, without it on the primary.
CanPerformBackup(u) == creds # 0 /\ status[u] = "ok" /\ service = "running" /\ app.stanza

\* create-backup.  On a replica the connections are closed meanwhile.
CreateBackup(u) ==
    /\ u \in Members /\ Cardinality(BackupsList) < MaxBackups
    /\ CanPerformBackup(u) /\ repo[creds] = "own"
    /\ Tick(Current) /\ Record([at |-> Clock + 1, timeline |-> Current, is |-> "backup"])
    /\ status' = [status EXCEPT ![u] = "ok"]
    /\ archiving' = [archiving EXCEPT ![u] = TRUE]
    /\ UNCHANGED <<units, s3, bags, due, restoring, moved, elections, failures>>

-----------------------------------------------------------------------------
(* Restore. *)

\* The parameters: a backup, or a timeline, and a time; or a time alone.
Targets ==
    [id : {"none"}, time : 1 .. Clock + 1 \cup {Latest}]
    \cup [id : {"backup", "timeline"}, time : {0, Clock + 1, Latest}]

\* _pre_restore_checks.
MayRestore ==
    /\ creds # 0 /\ repo[creds] # "denied" /\ "credentials" \notin due[0]
    /\ status[0] = "s3" => app.block = "foreign"
    /\ status[0] # "failed"
    /\ planned = 1 /\ leader = 0
    /\ MayRush \/ ~IsRestoring \/ status[0] = "pitr"

\* The entries that the parameters name, and the timeline to restore; 0 when they are
\* refused.
Named(t) == IF t.id = "none" THEN {[timeline |-> Nearest(t.time)]} ELSE Entries(t.id)
Chosen(t, entry) ==
    IF \/ t.id = "none" /\ t.time = Latest /\ LatestUnbacked
       \/ t.id # "backup" /\ t.time = 0
    THEN 0 ELSE entry.timeline

\* Pebble is not to restart Patroni when it fails, or is again.
OverridePatroniOnFailure == override' = TRUE
RestorePatroniOnFailure == override' = FALSE

\* _on_restore_action.  The credentials may be those of another cluster.
Restore(t) ==
    /\ MayRestore /\ MayChange /\ restores' = restores + 1
    /\ \E entry \in Named(t) :
          /\ Chosen(t, entry) # 0
          /\ restore' = [backup |-> t.id = "backup", time |-> t.time, stanza |-> TRUE,
                         timeline |-> IF t.time = 0 THEN 0 ELSE Chosen(t, entry),
                         chosen |-> t.id = "none"]
    /\ OverridePatroniOnFailure /\ data' = "empty" /\ service' = "bootstrapping"
    /\ app' = [app EXCEPT !.block = "none"]
    /\ status' = [status EXCEPT ![0] = "ok"]
    /\ archiving' = [archiving EXCEPT ![0] = app.stanza \/ bag[0].stanza]
    /\ UNCHANGED <<units, s3, bag, due, unseen, archive, moved, elections, failures>>

\* _restart_database: the restore gives up before it deleted anything.
GivesUp ==
    /\ restore' = [restore EXCEPT !.backup = FALSE, !.time = 0]
    /\ archiving' = [archiving EXCEPT ![0] = app.stanza \/ bag[0].stanza]
    /\ service' = "running" /\ data' = IF data = "empty" THEN "new" ELSE data

\* Patroni's objects cannot be deleted, which an unfinished point-in-time recovery
\* explains, or the data cannot, which are gone then already; or the service does not stop.
AnyError == TRUE
Unexplained == restore.time = 0
RestoreGivesUp ==
    /\ MayRestore /\ MayChange /\ restores' = restores + 1
    /\ MayFail /\ failures' = failures + 1
    /\ OverridePatroniOnFailure
    /\ status' = [status EXCEPT ![0] = "ok"]
    /\ \/ (data # "empty" \/ Unexplained) /\ GivesUp
       \/ service = "running" /\ UNCHANGED <<restore, archiving, service, data>>
    /\ UNCHANGED <<units, s3, bags, due, unseen, archive, moved, elections>>

\* Patroni: the bootstrap ends.  The database may be another cluster's, to which the
\* repositories of this one are foreign.  A new timeline is archived if it archives.
Bootstraps ==
    /\ service = "bootstrapping" /\ service' = "running" /\ data' = "kept"
    /\ repo' = [r \in DOMAIN repo |->
                  IF repo[creds] = "foreign" /\ repo[r] = "own" THEN "foreign" ELSE repo[r]]
    /\ LET new == 1 + Cardinality({active[t] : t \in DOMAIN active} \cup {1}) IN
          /\ Tick(new)
          /\ IF archiving[0] /\ repo[creds] = "own"
             THEN Record([at |-> Clock + 1, timeline |-> new, is |-> "timeline"])
             ELSE UNCHANGED history
    /\ UNCHANGED <<units, creds, rounds, bags, archiving, status, due, restore, override, unseen,
                   restores, moved, elections, failures>>

\* It does not reach the target, or fails for another reason.
BootstrapFails ==
    /\ service = "bootstrapping" /\ service' = "failed"
    /\ \/ restore.time \notin {0, Latest} /\ unseen' = TRUE /\ UNCHANGED failures
       \/ MayFail /\ failures' = failures + 1 /\ unseen' \in {unseen, TRUE}
    /\ UNCHANGED <<units, s3, bags, archiving, status, due, restore, override, data,
                   restores, archive, moved, elections>>

\* _was_restore_successful, in update-status or peer-relation-changed.  is_pitr_failed
\* keeps the id of the failure it found (last_pitr_fail_id).
Unrecorded == unseen
Recorded == FALSE
Down == service = "failed"
CheckFails ==
    /\ IsRestoring /\ status[0] = "ok"
    /\ IF restore.time # 0 /\ unseen
       THEN unseen' = Recorded /\ status' = [status EXCEPT ![0] = "pitr"]
       ELSE Down /\ UNCHANGED unseen /\ status' = [status EXCEPT ![0] = "failed"]
    /\ UNCHANGED <<units, s3, bags, archiving, due, restore, override, service, data,
                   restores, archive, moved, elections, failures>>

Trusting == app
Verdict == IF repo[creds] = "foreign" THEN [NoFields EXCEPT !.block = "foreign", !.of = app.of] ELSE app
CheckSucceeds ==
    /\ service = "running" /\ IsRestoring /\ status[0] = "ok"
    /\ ~(restore.time # 0 /\ unseen)
    /\ restore' = NoRestore /\ RestorePatroniOnFailure
    /\ app' = Verdict
    /\ archiving' = [archiving EXCEPT ![0] = app.stanza \/ bag[0].stanza]
    /\ status' = [status EXCEPT ![0] = IF app'.block # "none" THEN "s3" ELSE "ok"]
    /\ UNCHANGED <<units, s3, bag, due, service, data, unseen, restores, archive, moved, elections, failures>>

-----------------------------------------------------------------------------

Hooks(u) ==
    \/ OnCredentials(u) \/ OnPeerChanged(u) \/ OnPeerRestoring(u) \/ OnGone(u)
    \/ UpdateStatus(u)

Next ==
    \/ \E u \in Units : Hooks(u) \/ Elect(u) \/ Failover(u) \/ CreateBackup(u)
    \/ \E r \in Repositories : SetCredentials(r)
    \/ \E t \in Targets : Restore(t)
    \/ RemoveS3 \/ RemoveUnit \/ RestoreGivesUp
    \/ Bootstraps \/ BootstrapFails \/ CheckFails \/ CheckSucceeds

Spec == Init /\ [][Next]_vars

\* Juju runs the hooks of every unit, update-status every few minutes; a bootstrap ends.
Fairness ==
    /\ \A u \in Units :
          /\ WF_vars(OnCredentials(u)) /\ WF_vars(OnPeerChanged(u)) /\ WF_vars(OnGone(u))
          /\ WF_vars(OnPeerRestoring(u)) /\ WF_vars(UpdateStatus(u))
    /\ WF_vars(Bootstraps \/ BootstrapFails)
    /\ WF_vars(CheckFails) /\ WF_vars(CheckSucceeds)

FairSpec == Spec /\ Fairness

-----------------------------------------------------------------------------
(* Properties. *)

FieldsType == [start : BOOLEAN, done : BOOLEAN, stanza : BOOLEAN, block : Messages, of : Nat]
TypeOK ==
    /\ planned \in 1 .. K /\ leader \in Members /\ primary \in Members
    /\ creds \in 0 .. 2 /\ rounds \in Nat /\ repo \in [0 .. 2 -> Kinds]
    /\ app \in FieldsType /\ bag \in [Units -> FieldsType] /\ (app.done => ~app.start)
    /\ archiving \in [Units -> BOOLEAN] /\ status \in [Units -> {"ok", "s3", "pitr", "failed"}]
    /\ due \in [Units -> SUBSET {"credentials", "peer", "gone"}]
    /\ restore \in [backup : BOOLEAN, time : Nat \cup {Latest}, timeline : Nat, stanza : BOOLEAN,
                   chosen : BOOLEAN]
    /\ override \in BOOLEAN /\ service \in {"running", "bootstrapping", "failed"}
    /\ data \in {"kept", "new", "empty"} /\ unseen \in BOOLEAN
    /\ moved \in BOOLEAN
    /\ elections \in Nat /\ failures \in Nat /\ restores \in Nat

Quiet == \A u \in Members : due[u] = {}

\* Nothing of an earlier round is left in the bags: README.md tells what happens if there is.
UpToDate == app.of = rounds /\ \A u \in Members : bag[u].of \in {0, rounds}

\* When the hooks and the round are done, the cluster archives, on whichever unit is
\* the primary, only to a repository it found to be its own: never to another cluster's, whose
\* backups a restore may just have been made from.
ArchivesToOwn ==
    Quiet /\ ~IsRestoring /\ UpToDate /\ creds # 0 /\ ~app.start
    /\ archiving[primary] => repo[creds] = "own"

\* When a round is over, its outcome in the application bag is that of the present
\* credentials, not of earlier ones.
OutcomeOfRound ==
    Quiet /\ restore = NoRestore /\ UpToDate /\ creds # 0 /\ ~app.start =>
        /\ app.stanza => repo[creds] = "own"
        /\ app.block \in {"access", "foreign"} => app.block = Refused(Work(0))
        /\ repo[creds] = "foreign" => app.block = "foreign"
        /\ restores = 0 => app.stanza \/ app.block # "none"

\* A round ends with what is true of the repository, and with archiving to no other.
RoundOutcome == ArchivesToOwn /\ OutcomeOfRound

\* While no unit is elected or removed, every round comes to an end: the leader does
\* not wait for ever for the primary.
RoundEnds == [](elections = 0 /\ planned = K) => <>[](creds # 0 => ~app.start)

\* A unit whose data were deleted never makes a database of its own: Patroni only
\* starts on an empty volume to restore a backup.
NoNewDatabase == data # "new"

\* A restore to a time takes the timeline that the cluster was on at that time, if the
\* repository has an entry of it that is not later.
TakesTimelineOf(t) ==
    restores' # restores /\ service' = "bootstrapping" /\ restore'.time = t /\ restore'.chosen
    /\ (\E e \in history[creds] : e.at <= t /\ e.timeline = active[t])
        => restore'.timeline = active[t]
TimelineOfTarget == [][\A t \in 1 .. Clock : TakesTimelineOf(t)]_vars

\* A unit says that a recovery failed only while the database is down.
FailureSeen == status[0] = "pitr" => service = "failed"

\* A restore that was started is over at some time, or is known to have failed.
RestoreEnds == IsRestoring ~> (~IsRestoring \/ status[0] \in {"pitr", "failed"})

\* The state, and what a unit says of a recovery.
Inv == TypeOK /\ FailureSeen

\* Rounds and restores do not go on for ever.
BothEnd == RoundEnds /\ RestoreEnds
=============================================================================
