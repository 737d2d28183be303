-------------------------- MODULE ClientRelations --------------------------
(***************************************************************************)
(* Relations with client applications: src/relations/postgresql_provider.py *)
(* (the "database" endpoint) and src/relations/db.py (the legacy "db" and   *)
(* "db-admin"), with the events of data_interfaces.py, what update_config   *)
(* of src/charm.py does for them, and the observer of authorisation rules.  *)
(*                                                                         *)
(* A relation's user is in PostgreSQL, its credentials are in the bags of  *)
(* the relation, and each unit has a pg_hba.conf with the users it lets in *)
(* and, in its peer bag, a hash of the relations it wrote it for.  The     *)
(* leader makes and deletes users; the other units defer until it has.     *)
(***************************************************************************)
EXTENDS Naturals, Sequences, SequencesExt, FiniteSets

CONSTANTS
    N,            \* units 0 .. N-1
    R,            \* relations 1 .. R, in the order in which they are made
    MaxIncidents, \* what else happens in a run: see Incidents
    MayMix,       \* both kinds of endpoint may be related at a time
    MayStayUnready, \* PostgreSQL may be found unready more than once in a run
    MayMissRules  \* a unit may fail to list the users, or to reload Patroni, when it writes its
                  \* pg_hba.conf

ASSUME ClientAssumption ==
    /\ N \in Nat \ {0}
    /\ {R, MaxIncidents} \subseteq Nat
    /\ {MayMix, MayStayUnready, MayMissRules} \subseteq BOOLEAN

Units == 0 .. N - 1
Relations == 1 .. R
PeerChanged == [kind |-> "peer"]
DatabasesChange == [kind |-> "databases"]
Kinds == {"changed", "requested", "departed", "broken"}
Events == [kind : Kinds, rel : Relations] \cup {PeerChanged, DatabasesChange}
Event(k, r) == [kind |-> k, rel |-> r]

VARIABLES
    leader, present, removing,  \* Juju: the leader, the units, those being removed
    primary,                    \* Patroni: the unit whose PostgreSQL is the primary
    legacy, bad,                \* relations of the legacy endpoints; those with invalid roles or extensions
    rel,                        \* a relation: "none", "joined", or removed: "gone" if it had its
                                \* credentials, "dropped" otherwise
    knows,                      \* the relations in a unit's model
    users, granted,             \* PostgreSQL: a user's password (0 if there is none), those with a database
    made,                       \* PostgreSQL: databases that clients made
    bag,                        \* the password in the application's bag of a relation
    own,                        \* the password in a unit's bag of a legacy relation
    saved,                      \* relations whose data the leader has saved for the next diff
    departing,                  \* peer bags: units with the flag "departing"
    hash,                       \* peer bags: the relations behind a unit's "user_hash"
    hba, hbaMade,               \* a unit's pg_hba.conf: the users of relations, the made databases
    watched,                    \* databases that a unit's observer has seen; NotYet before its first
                                \* look, NoObserver when there is none
    missed,                     \* history: an observer first looked after a database had been made
    blocked,                    \* the reason in a unit's blocked status, "" if there is none
    due, now, later,            \* a unit's hooks to run, the events of the hook it runs, the deferred ones
    passwords, incidents

juju == <<leader, present, removing, primary, rel, knows>>
database == <<users, granted, made, passwords>>
files == <<hash, hba, hbaMade>>
data == <<bag, own, saved, departing>>
chosen == <<legacy, bad>>
observer == <<watched, missed>>
vars == <<juju, database, files, data, chosen, observer, blocked, due, now, later, incidents>>

NotYet == 99
NoObserver == 98
NoPasswords == [r \in Relations |-> 0]

Init ==
    /\ leader = 0 /\ present = Units /\ removing = {} /\ primary = N - 1
    /\ legacy = {} /\ bad = {}
    /\ rel = [r \in Relations |-> "none"]
    /\ knows = [u \in Units |-> {}]
    /\ users = NoPasswords /\ granted = {} /\ made = 0 /\ passwords = NoPasswords
    /\ bag = NoPasswords /\ own = [u \in Units |-> NoPasswords]
    /\ saved = {} /\ departing = {}
    /\ hash = [u \in Units |-> {}] /\ hba = [u \in Units |-> {}]
    /\ hbaMade = [u \in Units |-> 0] /\ watched = [u \in Units |-> IF u = primary THEN 0 ELSE NotYet]
    /\ missed = FALSE
    /\ blocked = [u \in Units |-> ""]
    /\ due = [u \in Units |-> {}]
    /\ now = [u \in Units |-> <<>>] /\ later = [u \in Units |-> <<>>]
    /\ incidents = {}

\* What may happen in a run, each once: PostgreSQL is not ready, a statement fails, a hook
\* dies, the leader changes, a unit is removed, a relation asks for what is refused or is
\* broken, a second one is made, a legacy client writes once more, a client makes a database, an
\* observer dies.
Incidents ==
    {"unready", "failed", "died", "elected", "removed", "refused", "broken", "second", "again",
     "made", "lost"}
Incident(i) ==
    i \notin incidents /\ Cardinality(incidents) < MaxIncidents /\ incidents' = incidents \cup {i}

-----------------------------------------------------------------------------
(* update_config. *)

\* _collect_user_relations: for a legacy relation, what is in the unit's own bag.
Collected(u) == {r \in knows[u] : r \in legacy => own[u][r] # 0}

\* What a unit writes in its peer bag makes a hook of every other unit due.
Told(u) == [v \in Units |-> IF v \in present \ {u} THEN due[v] \cup {PeerChanged} ELSE due[v]]

\* Given the users with a database and the relations collected: relations_user_databases_map
\* and user_hash.  If the users cannot be listed, only the system users are let in; if Patroni
\* is not reloaded, what was in force stays so.
LetIn(g, c) == g \cup c
Written(u, g, c) ==
    /\ hash' = [hash EXCEPT ![u] = c]
    /\ \/ hba' = [hba EXCEPT ![u] = LetIn(g, c)] /\ hbaMade' = [hbaMade EXCEPT ![u] = made]
       \/ MayMissRules /\ hba' = [hba EXCEPT ![u] = {}] /\ hbaMade' = [hbaMade EXCEPT ![u] = 0]
       \/ MayMissRules /\ UNCHANGED <<hba, hbaMade>>
UpdateConfigFor(u, g, c) ==
    Written(u, g, c) /\ due' = IF c # hash[u] THEN Told(u) ELSE due
UpdateConfig(u) == UpdateConfigFor(u, granted, Collected(u))

-----------------------------------------------------------------------------
(* Hooks.  A hook first handles the events that were deferred.  In a         *)
(* relation-broken hook the relation is not in the unit's model any more.    *)

\* start_authorisation_rules_observer, before the handlers of every hook; the pid of the
\* process is in the peer bag.
PidTrusted(u) == FALSE
Starts(u) == watched[u] = NoObserver /\ blocked[u] = ""
StartObserver(u) ==
    /\ u \in present /\ now[u] = <<>> /\ Starts(u)
    /\ u \in removing => due[u] # {}
    /\ watched' = [watched EXCEPT ![u] = NotYet]
    /\ due' = Told(u)
    /\ UNCHANGED <<juju, database, files, data, chosen, missed, blocked, now, later, incidents>>

Begin(u, e) ==
    /\ u \in present /\ now[u] = <<>> /\ e \in due[u] /\ ~Starts(u)
    /\ now' = [now EXCEPT ![u] = Append(later[u], e)]
    /\ later' = [later EXCEPT ![u] = <<>>]
    /\ due' = [due EXCEPT ![u] = @ \ {e}]
    /\ knows' = IF e.kind = "broken" THEN [knows EXCEPT ![u] = @ \ {e.rel}] ELSE knows
    /\ UNCHANGED <<leader, present, removing, primary, rel, database, files,
                   data, chosen, observer, blocked, incidents>>

\* update-status, and whatever else has no handler here.
BeginOther(u) ==
    /\ u \in present \ removing /\ now[u] = <<>> /\ due[u] = {} /\ later[u] # <<>> /\ ~Starts(u)
    /\ now' = [now EXCEPT ![u] = later[u]]
    /\ later' = [later EXCEPT ![u] = <<>>]
    /\ UNCHANGED <<juju, database, files, data, chosen, observer, blocked, due, incidents>>

Handles(u, k) == now[u] # <<>> /\ Head(now[u]).kind = k
Rel(u) == Head(now[u]).rel
Done(u) == now' = [now EXCEPT ![u] = Tail(@)] /\ UNCHANGED later
DeferAs(u, e) == now' = [now EXCEPT ![u] = Tail(@)] /\ later' = [later EXCEPT ![u] = Append(@, e)]
Defer(u) == DeferAs(u, Head(now[u]))
\* The hook is run again.
Dies(u) == Incident("died") /\ UNCHANGED <<now, later>>

\* The cluster is not initialised, or the primary or the member is not ready.
NotReady(u) ==
    /\ \E k \in {"requested", "broken", "changed", "departed"} :
          Handles(u, k) /\ (k \in {"changed", "departed"} => Rel(u) \in legacy)
    /\ MayStayUnready \/ "unready" \notin incidents
    /\ incidents' = incidents \cup {"unready"} /\ Cardinality(incidents') <= MaxIncidents
    /\ Defer(u)
    /\ UNCHANGED <<juju, database, files, data, chosen, observer, blocked, due>>

-----------------------------------------------------------------------------
(* Statuses. *)

\* _check_multiple_endpoints.
Multiple(u) == knows[u] \ legacy # {} /\ knows[u] \cap legacy # {}

\* Some relation but r asks for roles that do not exist, or for what legacy endpoints
\* do not offer (check_for_invalid_extra_user_roles, _check_for_blocking_relations).
InvalidRoles(u, r) == (knows[u] \cap bad) \ ({r} \cup legacy) # {}
BlockingRelations(u, r) == (knows[u] \cap bad \cap legacy) \ {r} # {}

\* _update_unit_status: the relation r is left out.
ClearedOfRoles(u, r) ==
    IF blocked[u] = "roles" /\ ~InvalidRoles(u, r) THEN "" ELSE blocked[u]
Cleared(u, r) ==
    IF \/ blocked[u] = "roles" /\ ~InvalidRoles(u, r)
       \/ blocked[u] = "endpoints" /\ ~Multiple(u)
    THEN "" ELSE blocked[u]
ClearedLegacy(u, r) ==
    IF \/ blocked[u] = "extensions" /\ ~BlockingRelations(u, r)
       \/ blocked[u] = "endpoints" /\ ~Multiple(u)
    THEN "" ELSE blocked[u]

-----------------------------------------------------------------------------
(* The "database" endpoint. *)

\* Not all units have written their pg_hba.conf for the same relations.
SyncedAnyway(u) == TRUE
Synced(u) == \A v \in present \ {u} : hash[v] = Collected(u)

\* set_credentials and the other setters are for the leader only.
Published(u, r) == IF u = leader THEN [bag EXCEPT ![r] = passwords[r] + 1] ELSE bag

\* What is left of a removed relation has no data: the user is made, its database is not.
CreateUser(r) ==
    /\ passwords' = [passwords EXCEPT ![r] = @ + 1]
    /\ users' = [users EXCEPT ![r] = passwords[r] + 1]
    /\ UNCHANGED made

\* _on_database_requested, once PostgreSQL is ready.
Requested(u, r) ==
    \/ ~Synced(u) /\ DeferAs(u, Event("requested", r)) /\ UpdateConfig(u)
       /\ UNCHANGED <<bag, blocked, database, incidents>>
    \/ /\ Synced(u) /\ r \in bad \cap knows[u]
       /\ Done(u) /\ UpdateConfig(u)
       /\ blocked' = [blocked EXCEPT ![u] = "roles"]
       /\ UNCHANGED <<bag, database, incidents>>
    \/ /\ Synced(u) /\ r \in knows[u] \ bad
       /\ CreateUser(r) /\ granted' = granted \cup {r} /\ bag' = Published(u, r)
       /\ Done(u) /\ UpdateConfigFor(u, granted \cup {r}, Collected(u))
       /\ blocked' = [blocked EXCEPT ![u] = Cleared(u, r)]
       /\ UNCHANGED incidents
    \/ /\ Synced(u) /\ r \notin bad \cap knows[u]
       /\ CreateUser(r) /\ UNCHANGED granted
       /\ IF r \in knows[u] THEN Incident("failed") ELSE UNCHANGED incidents
       /\ Done(u) /\ UpdateConfig(u)
       /\ blocked' = [blocked EXCEPT ![u] = "failed"]
       /\ UNCHANGED bag

OnDatabaseRequested(u) ==
    /\ Handles(u, "requested")
    /\ Requested(u, Rel(u))
    /\ UNCHANGED <<juju, own, saved, departing, chosen, observer>>

\* A hook that dies after the user was made.
RequestDies(u) ==
    /\ Handles(u, "requested") \/ (Handles(u, "changed") /\ Rel(u) \notin legacy \cup saved /\ u = leader)
    /\ Synced(u) /\ Rel(u) \in knows[u] \ bad
    /\ CreateUser(Rel(u)) /\ granted' \in {granted, granted \cup {Rel(u)}}
    /\ Dies(u)
    /\ UNCHANGED <<juju, files, data, chosen, observer, blocked, due>>

\* _on_relation_changed_event of the charm, and of the library, which saves what it saw
\* and emits database-requested.
Unseen(u, r) == r \in knows[u] \ saved
Warned(u) == IF Multiple(u) THEN [blocked EXCEPT ![u] = "endpoints"] ELSE blocked
OnChanged(u) ==
    /\ Handles(u, "changed") /\ Rel(u) \notin legacy
    /\ IF u = leader /\ Unseen(u, Rel(u))
       THEN /\ saved' = saved \cup {Rel(u)}
            /\ now' = [now EXCEPT ![u] = <<Event("requested", Rel(u))>> \o Tail(@)]
            /\ blocked' = Warned(u)
       ELSE /\ now' = [now EXCEPT ![u] = Tail(@)]
            /\ blocked' = IF u = leader THEN Warned(u) ELSE blocked
            /\ UNCHANGED saved
    /\ UNCHANGED <<juju, database, files, bag, own, departing, chosen, observer, due, later, incidents>>

-----------------------------------------------------------------------------
(* The legacy endpoints. *)

\* _on_relation_changed of a unit that does not lead: it waits for the user.
LegacyChangedOther(u) ==
    /\ Handles(u, "changed") /\ Rel(u) \in legacy /\ u # leader
    /\ IF users[Rel(u)] = 0
       THEN Defer(u) /\ UNCHANGED <<files, due>>
       ELSE Done(u) /\ UpdateConfig(u)
    /\ UNCHANGED <<juju, database, data, chosen, observer, blocked, incidents>>

\* set_up_relation: the password is the one in the unit's bag.
SetUp(u, r) ==
    LET password == IF own[u][r] = 0 THEN passwords[r] + 1 ELSE own[u][r] IN
    /\ passwords' = IF own[u][r] = 0 THEN [passwords EXCEPT ![r] = password] ELSE passwords
    /\ users' = [users EXCEPT ![r] = password]
    /\ UNCHANGED made

\* is_user_in_hba, looked for in the pg_hba.conf of the primary.
IsUserInHba(h, r) == r \in h[primary]

LegacyChanged(u) ==
    LET r == Rel(u) IN
    /\ Handles(u, "changed") /\ r \in legacy /\ u = leader
    /\ \/ /\ Multiple(u)
          /\ blocked' = [blocked EXCEPT ![u] = "endpoints"]
          /\ Done(u) /\ UNCHANGED <<database, files, bag, own, due, incidents>>
       \/ \* Extensions or roles, or no data: no user, so the event is deferred.
          /\ ~Multiple(u) /\ r \notin knows[u] \ bad
          /\ blocked' = IF r \in knows[u] THEN [blocked EXCEPT ![u] = "extensions"] ELSE blocked
          /\ IF IsUserInHba(hba, r) /\ users[r] # 0 THEN Done(u) ELSE Defer(u)
          /\ UNCHANGED <<database, files, bag, own, due, incidents>>
       \/ /\ ~Multiple(u) /\ r \in knows[u] \ bad
          /\ SetUp(u, r) /\ granted' = granted \cup {r}
          /\ own' = [own EXCEPT ![u][r] = users'[r]] /\ bag' = [bag EXCEPT ![r] = users'[r]]
          /\ blocked' = [blocked EXCEPT ![u] = ClearedLegacy(u, r)]
          /\ UpdateConfigFor(u, granted \cup {r}, Collected(u) \cup {r})
          /\ IF IsUserInHba(hba', r) THEN Done(u) ELSE Defer(u)
          /\ UNCHANGED incidents
       \/ \* create_database fails.
          /\ ~Multiple(u) /\ r \in knows[u] \ bad
          /\ Incident("failed") /\ SetUp(u, r) /\ UNCHANGED granted
          /\ blocked' = [blocked EXCEPT ![u] = "failed"]
          /\ Defer(u) /\ UNCHANGED <<files, bag, own, due>>
    /\ UNCHANGED <<juju, saved, departing, chosen, observer>>

LegacyDies(u) ==
    /\ Handles(u, "changed") /\ Rel(u) \in legacy /\ u = leader
    /\ ~Multiple(u) /\ Rel(u) \in knows[u] \ bad
    /\ SetUp(u, Rel(u)) /\ granted' = granted \cup {Rel(u)}
    /\ Dies(u)
    /\ UNCHANGED <<juju, files, data, chosen, observer, blocked, due>>

-----------------------------------------------------------------------------
(* Both. *)

\* _on_relation_departed of the unit that is removed.
FlagForgotten(u) == departing
Flagged(u) == departing \cup {u}
OnDeparted(u) ==
    /\ Handles(u, "departed")
    /\ departing' = Flagged(u)
    /\ due' = IF u \in departing THEN due ELSE Told(u)
    /\ Done(u)
    /\ UNCHANGED <<juju, database, files, bag, own, saved, chosen, observer, blocked, incidents>>

\* _on_relation_broken; the status is updated first for "database", and last, by the
\* leader, for the legacy endpoints.
StatusOfBroken(u, r) ==
    IF r \notin legacy THEN [blocked EXCEPT ![u] = Cleared(u, r)]
    ELSE IF u = leader /\ u \notin departing THEN [blocked EXCEPT ![u] = ClearedLegacy(u, r)]
    ELSE blocked

\* delete_user: what the user owns goes to another one, and its privileges.
DeleteUser(r) ==
    /\ users' = [users EXCEPT ![r] = 0] /\ granted' = granted \ {r}
    /\ UNCHANGED <<made, passwords>>

OthersLeave(u, r) == Done(u)
OthersWait(u, r) == IF users[r] # 0 THEN Defer(u) ELSE Done(u)

OnBroken(u) ==
    LET r == Rel(u) IN
    /\ Handles(u, "broken")
    /\ \/ /\ u \in departing
          /\ Done(u)
          /\ blocked' = StatusOfBroken(u, r)
          /\ UNCHANGED <<database, files, due, incidents>>
       \/ /\ u \notin departing /\ u # leader
          /\ OthersWait(u, r)
          /\ blocked' = StatusOfBroken(u, r)
          /\ UNCHANGED <<database, incidents>>
          /\ IF users[r] # 0 THEN UNCHANGED <<files, due>> ELSE UpdateConfig(u)
       \/ /\ u \notin departing /\ u = leader
          /\ DeleteUser(r) /\ UNCHANGED incidents
          /\ Done(u) /\ UpdateConfigFor(u, granted \ {r}, Collected(u))
          /\ blocked' = StatusOfBroken(u, r)
       \/ \* delete_user fails.
          /\ u \notin departing /\ u = leader /\ users[r] # 0
          /\ Incident("failed")
          /\ UNCHANGED database
          /\ Done(u) /\ UpdateConfig(u)
          /\ blocked' = [blocked EXCEPT ![u] = "delete"]
    /\ UNCHANGED <<juju, data, chosen, observer>>

\* _on_peer_relation_changed, as far as the clients go.
OnPeerChanged(u) ==
    /\ Handles(u, "peer")
    /\ UNCHANGED <<database, data>>
    /\ Done(u) /\ UpdateConfig(u)
    /\ UNCHANGED <<juju, chosen, observer, blocked, incidents>>

\* _on_databases_change: the time of the change, in the peer bag, tells the other units.
ToldNobody(u) == due
ToldOfDatabases(u) == Told(u)
OnDatabasesChange(u) ==
    /\ Handles(u, "databases")
    /\ Written(u, granted, Collected(u)) /\ due' = ToldOfDatabases(u)
    /\ Done(u)
    /\ UNCHANGED <<juju, database, data, chosen, observer, blocked, incidents>>

-----------------------------------------------------------------------------
(* The observer: a process of each unit that looks at the databases while     *)
(* its unit is the primary, and dispatches an event when they have changed.   *)
(* Its memory ends with it.                                                   *)

Differs(u) == watched[u] \notin {NotYet, made}
Observe(u) ==
    /\ u \in present /\ u = primary /\ watched[u] \notin {NoObserver, made}
    /\ watched' = [watched EXCEPT ![u] = made]
    /\ missed' = (missed \/ (~Differs(u) /\ made # 0))
    /\ due' = IF Differs(u) THEN [due EXCEPT ![u] = @ \cup {DatabasesChange}] ELSE due
    /\ UNCHANGED <<juju, database, files, data, chosen, blocked, now, later, incidents>>

\* It ends when no member of the cluster answers or patroni.yml cannot be read, not while it
\* waits for the hook that it dispatched.
ObserverDies(u) ==
    /\ u \in present /\ watched[u] # NoObserver /\ Incident("lost")
    /\ DatabasesChange \notin due[u] \cup ToSet(now[u])
    /\ watched' = [watched EXCEPT ![u] = NoObserver]
    /\ UNCHANGED <<juju, database, files, data, chosen, missed, blocked, due, now, later>>

\* A client creates a database, with a user that may connect to it.
ClientMakes ==
    /\ \E r \in Relations : bag[r] # 0 /\ users[r] = bag[r]
    /\ Incident("made") /\ made' = made + 1
    /\ UNCHANGED <<juju, users, granted, passwords, files, data, chosen, observer, blocked, due, now,
                   later>>

-----------------------------------------------------------------------------
(* Juju and the operator. *)

Relate(r) ==
    /\ rel[r] = "none" /\ rel' = [rel EXCEPT ![r] = "joined"]
    /\ \A q \in 1 .. r - 1 : rel[q] # "none"
    /\ legacy' \in {legacy, legacy \cup {r}}
    /\ \E refused \in SUBSET {"refused"} :
          /\ bad' = IF refused = {} THEN bad ELSE bad \cup {r}
          /\ incidents' = incidents \cup refused \cup (IF r = 1 THEN {} ELSE {"second"})
          /\ Cardinality(incidents') <= MaxIncidents
    /\ MayMix \/ legacy' \in {{}, 1 .. r}
    /\ knows' = [u \in Units |-> IF u \in present \ removing THEN knows[u] \cup {r} ELSE knows[u]]
    /\ due' = [u \in Units |->
                  IF u \in present \ removing THEN due[u] \cup {Event("changed", r)} ELSE due[u]]
    /\ UNCHANGED <<leader, present, removing, primary, database, files, data,
                   observer, blocked, now, later>>

\* The application on the other side writes to the relation once more.
ClientChanges(r) ==
    /\ rel[r] = "joined" /\ r \in legacy /\ Incident("again")
    /\ due' = [u \in Units |-> IF r \in knows[u] THEN due[u] \cup {Event("changed", r)} ELSE due[u]]
    /\ UNCHANGED <<juju, database, files, data, chosen, observer, blocked, now, later>>

Breaks(events, r) ==
    {e \in events : e # Event("changed", r)} \cup {Event("broken", r)}

RemoveRelation(r) ==
    /\ rel[r] = "joined"
    /\ Incident("broken")
    /\ rel' = [rel EXCEPT ![r] = IF bag[r] # 0 THEN "gone" ELSE "dropped"]
    /\ due' = [u \in Units |->
                  IF r \in knows[u] /\ u \notin removing THEN Breaks(due[u], r) ELSE due[u]]
    /\ UNCHANGED <<leader, present, removing, primary, knows, database, files,
                   data, chosen, observer, blocked, now, later>>

\* A unit that is removed gets relation-departed and then relation-broken of each relation.
RemoveUnit(u) ==
    /\ u \in present \ removing /\ Incident("removed")
    /\ present \ removing # {u}
    /\ removing' = removing \cup {u}
    /\ due' = [due EXCEPT ![u] = {Event("departed", r) : r \in knows[u]}]
    /\ UNCHANGED <<leader, present, primary, rel, knows, database, files, data, chosen,
                   observer, blocked, now, later>>
RelationsEnd(u) ==
    /\ u \in present \cap removing /\ now[u] = <<>> /\ due[u] = {} /\ knows[u] # {}
    /\ due' = [due EXCEPT ![u] = {Event("broken", r) : r \in knows[u]}]
    /\ UNCHANGED <<juju, database, files, data, chosen, observer, blocked, now, later, incidents>>
UnitGone(u) ==
    /\ u \in present \cap removing /\ now[u] = <<>> /\ due[u] = {} /\ knows[u] = {}
    /\ present' = present \ {u}
    /\ primary' \in IF u = primary THEN present \ {u} ELSE {primary}
    /\ due' = Told(u)
    /\ UNCHANGED <<leader, removing, rel, knows, database, files, data, chosen,
                   observer, blocked, now, later, incidents>>

Elect(u) ==
    /\ u \in present \ {leader} /\ now[u] = <<>>
    /\ IF leader \in present THEN Incident("elected") ELSE UNCHANGED incidents
    /\ leader' = u
    /\ UNCHANGED <<present, removing, primary, rel, knows, database, files, data, chosen,
                   observer, blocked, due, now, later>>

\* A handler.
Handle(u) ==
    \/ OnDatabaseRequested(u) \/ OnChanged(u) \/ LegacyChangedOther(u) \/ LegacyChanged(u)
    \/ OnDeparted(u) \/ OnBroken(u) \/ OnPeerChanged(u) \/ OnDatabasesChange(u)

Next ==
    \/ \E r \in Relations : Relate(r) \/ ClientChanges(r) \/ RemoveRelation(r)
    \/ ClientMakes
    \/ \E u \in Units :
          \/ \E e \in due[u] : Begin(u, e)
          \/ BeginOther(u) \/ Handle(u) \/ NotReady(u) \/ RequestDies(u) \/ LegacyDies(u)
          \/ StartObserver(u) \/ Observe(u) \/ ObserverDies(u)
          \/ RemoveUnit(u) \/ RelationsEnd(u) \/ UnitGone(u) \/ Elect(u)

Spec == Init /\ [][Next]_vars

\* A unit goes on with its hooks, of which update-status always comes; Juju replaces a leader
\* that is gone and takes a unit away; and the observer looks every 30 seconds.
Replace == leader \notin present /\ \E u \in Units : Elect(u)
Hook(u) == StartObserver(u) \/ (\E e \in due[u] : Begin(u, e)) \/ BeginOther(u) \/ Handle(u)
Fairness ==
    /\ SF_vars(Replace)
    /\ \A u \in Units :
          /\ WF_vars(Hook(u)) /\ WF_vars(Observe(u))
          /\ WF_vars(RelationsEnd(u)) /\ WF_vars(UnitGone(u))
FairSpec == Spec /\ Fairness

-----------------------------------------------------------------------------
(* Properties. *)

\* Only the primary's observer dispatches its event; the flag is of units that are removed;
\* a user that has a database is there.
TypeOK ==
    /\ leader \in Units /\ present \subseteq Units /\ removing \subseteq Units /\ primary \in present
    /\ legacy \subseteq Relations /\ bad \subseteq Relations
    /\ rel \in [Relations -> {"none", "joined", "gone", "dropped"}]
    /\ knows \in [Units -> SUBSET Relations]
    /\ users \in [Relations -> Nat] /\ made \in Nat
    /\ granted \subseteq {r \in Relations : users[r] # 0}
    /\ bag \in [Relations -> Nat] /\ own \in [Units -> [Relations -> Nat]]
    /\ saved \subseteq Relations \ legacy /\ departing \subseteq removing
    /\ hash \in [Units -> SUBSET Relations] /\ hba \in [Units -> SUBSET Relations]
    /\ hbaMade \in [Units -> Nat] /\ watched \in [Units -> Nat] /\ missed \in BOOLEAN
    /\ blocked \in [Units -> {"", "endpoints", "roles", "extensions", "failed", "delete"}]
    /\ due \in [Units -> SUBSET Events]
    /\ now \in [Units -> Seq(Events)] /\ later \in [Units -> Seq(Events)]
    /\ passwords \in [Relations -> Nat] /\ incidents \subseteq Incidents

Joined == {r \in Relations : rel[r] = "joined"}

\* The credentials in the bag of a relation are those of its user, which is there as long
\* as the relation: no unit that leaves deletes it, no handler that runs late or again
\* gives it another password.
CredentialsWork ==
    \A r \in Joined : bag[r] # 0 /\ (r \in legacy => incidents \cap {"died", "failed"} = {}) => users[r] = bag[r]

\* Before a client has its credentials every unit lets its user in, and goes on doing so.
LetInEverywhere ==
    \A r \in Joined \ legacy : bag[r] # 0 => \A u \in present \ removing : r \in hba[u]

\* A unit that has nothing left to do is not blocked for a relation that is gone.
Undisturbed == incidents \cap {"elected", "removed"} = {}
Idle(u) == due[u] = {} /\ now[u] = <<>> /\ later[u] = <<>>
BlockedForAReason ==
    \A u \in present \ removing : Idle(u) =>
        /\ blocked[u] = "roles" => knows[u] \cap bad # {}
        /\ blocked[u] = "endpoints" /\ Undisturbed => Multiple(u)

\* A client that asks for a database has it in the end, unless it asks for what is refused, or
\* both kinds of endpoint were related.
Mixed == \E r \in legacy : \E q \in Relations \ legacy : rel[q] # "none"
Served ==
    Undisturbed /\ "failed" \notin incidents /\ ~Mixed =>
        \A r \in Joined : bag[r] # 0 \/ r \in bad

\* The user of a relation that was served and is removed is deleted, by this leader or by
\* one that comes after it.
Deleted == \A r \in Relations : rel[r] = "gone" => users[r] = 0 \/ "failed" \in incidents

\* An observer that died is started again, unless its unit stays blocked.
ObserverBack == \A u \in present \ removing : watched[u] # NoObserver \/ blocked[u] # ""

\* Users that clients make are let in on every unit, unless they were made between two
\* observers of the primary.
MadeLetIn ==
    made = 1 /\ watched[primary] # NoObserver /\ ~missed => \A u \in present : hbaMade[u] = 1

\* The state, and what the units say of it.
Inv == TypeOK /\ BlockedForAReason

\* In the end what is asked for is made, what is given up is deleted, and every user is let in.
Settles == <>[](Served /\ Deleted /\ ObserverBack /\ MadeLetIn)
=============================================================================
