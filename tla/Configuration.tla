--------------------------- MODULE Configuration ---------------------------
(***************************************************************************)
(* How the options of `juju config` reach PostgreSQL: _on_config_changed,   *)
(* update_config and enable_disable_extensions of src/charm.py, the         *)
(* extensions of the PostgreSQL client library and PostgreSQLLDAP (ldap.py).*)
(*                                                                         *)
(* A unit renders its own file, patches the configuration that Patroni      *)
(* keeps for the cluster, waits until its server says that it must be       *)
(* restarted, asks for the restart lock (module RollingOps, here one action)*)
(* and stores the hash of the configuration.  The leader creates and drops  *)
(* the extensions in every database, one statement at a time.               *)
(***************************************************************************)
EXTENDS Naturals, Sequences, SequencesExt, FiniteSets

CONSTANTS
    N,             \* units
    MaxChanges,    \* changes of the configuration
    MaxIncidents,  \* see Incidents
    Faults         \* what may also happen: see FaultKinds

\* "slow": Patroni takes longer than the charm waits for a pending restart;
\* "lost": an update that nobody repeats fails, or a statement about extensions does;
\* "missed": leader or primary change while events are to be handled or a unit is blocked;
\* "stale": a hook that began before a change uses the configuration of before;
\* "reverted": the options go back to what a unit still has and another has no more;
\* "hidden": update-status, pebble-ready and ldap-ready replace a status that is still due;
\* "uneven": the nodes of the units have different numbers of cores.
FaultKinds == {"slow", "lost", "missed", "stale", "reverted", "hidden", "uneven"}

ASSUME ConfigurationAssumption ==
    N \in Nat \ {0} /\ {MaxChanges, MaxIncidents} \subseteq Nat /\ Faults \subseteq FaultKinds

Units == 1 .. N
Cores(u) == IF "uneven" \in Faults THEN u ELSE 2

Databases == {"first", "second"}
Extensions == {"base", "audit", "other"}
Required(e) == IF e = "other" THEN {"base"} ELSE {}

\* Values of an option for workers besides the numbers.
Unset == 0
Auto == 1

\* The configurations of a run: 50 workers are too many for any node, "other" cannot be alone.
C(w, p) == [workers |-> w, plugins |-> p]
Configs == {C(Auto, {"audit"}), C(50, {"audit"}), C(6, {"base"}), C(6, Extensions), C(Auto, {"other"})}

VARIABLES
    config,                     \* what the operator has set
    due,                        \* hooks that each unit is still to run
    dcs,                        \* max_worker_processes in Patroni's configuration of the cluster
    file, read,                 \* patroni.yml of each unit, and what the server has read of it
    running,                    \* max_worker_processes with which each server was started
    hash,                       \* config_hash: the configuration that each unit applied
    wants,                      \* units that want the restart lock
    member,                     \* whether each unit's member is started
    status,                     \* of each unit: "active" or why it is blocked
    installed, objects, audit,  \* per database: extensions, those in use by objects; pgaudit.log is set
    leader, primary,
    related, flag, sync,        \* an LDAP server; ldap_enabled; units that run ldap-sync
    changes, incidents

parameters == <<dcs, file, read, running, hash, wants>>
extensions == <<installed, objects, audit>>
roles == <<leader, primary>>
ldap == <<related, flag, sync>>
bounds == <<changes, incidents>>
vars == <<config, due, parameters, member, status, extensions, roles, ldap, bounds>>

Incidents == {"crash", "restart", "refused", "elected", "failover", "database", "ldap", "no ldap"}
Incident(i) ==
    i \notin incidents /\ Cardinality(incidents) < MaxIncidents /\ incidents' = incidents \cup {i}

-----------------------------------------------------------------------------
(* The numbers of workers. *)

Least(a, b) == IF a < b THEN a ELSE b
Cap(cores) == 10 * cores
TooMany(value, cores) == value > Cap(cores)

\* _calculate_max_worker_processes, and what the other options are derived from.
WorkersOf(value, cores) == IF value = Auto THEN Least(8, 2 * cores) ELSE value
BaseOf(value, cores) == IF value = Unset THEN 8 ELSE WorkersOf(value, cores)
\* _calculate_max_parallel_workers; with auto the three after it are the same.
ParallelOf(value, base) == IF value = Auto THEN base ELSE Least(value, base)

Refused(c, u) == TooMany(c.workers, Cores(u))
Workers(c, u) == WorkersOf(c.workers, Cores(u))

\* get_ldap_parameters: none once the relation is gone.
LdapParameters == IF related THEN "on" ELSE "bare"

\* render_patroni_yml_file: parallel workers, and LDAP in pg_hba, without parameters
\* if the flag outlives the relation.
Rendered(c, u) ==
    [parallel |-> ParallelOf(Auto, BaseOf(c.workers, Cores(u))),
     ldap |-> IF flag' THEN LdapParameters ELSE "off"]

Init ==
    /\ config = C(Auto, {"audit"})
    /\ due = [u \in Units |-> {}] /\ dcs = Workers(config, 1)
    /\ file = [u \in Units |-> [parallel |-> BaseOf(Auto, Cores(u)), ldap |-> "off"]] /\ read = file
    /\ running = [u \in Units |-> dcs] /\ hash = [u \in Units |-> config]
    /\ wants = [u \in Units |-> FALSE] /\ member = [u \in Units |-> TRUE]
    /\ status = [u \in Units |-> "active"]
    /\ installed = [d \in {"first"} |-> {"audit"}] /\ objects = [d \in {"first"} |-> {}] /\ audit = TRUE
    /\ leader = 1 /\ primary = 1 /\ related = FALSE /\ flag = FALSE /\ sync = {}
    /\ changes = 0 /\ incidents = {}

-----------------------------------------------------------------------------
(* update_config. *)

\* The configuration that a hook of unit u sees.
Seen(u, k) ==
    {config} \cup IF "stale" \in Faults /\ k # "config" /\ "config" \in due[u] THEN {hash[u]} ELSE {}

\* _restart_ldap_sync_service.
Synced(u) == IF u = primary /\ flag' THEN sync \cup {u} ELSE sync \ {u}
\* The service is generated from parameters that the relation no longer gives: a KeyError.
Raises(u) == u = primary /\ flag' /\ ~related

\* _handle_postgresql_restart_need waits for the server of the unit to hear of the patch.
AsksForMore(c, u) == hash[u] # c /\ running[u] < Workers(c, u)
Asks(c, u) == hash[u] # c /\ running[u] # Workers(c, u)

Reads(u) == read' = [read EXCEPT ![u] = file'[u]]

Patches(c, u) ==
    /\ Reads(u)
    /\ dcs' = Workers(c, u)
    /\ \E seen \in {TRUE} \cup (IF "slow" \in Faults THEN {FALSE} ELSE {}) :
          wants' = [wants EXCEPT ![u] = @ \/ (seen /\ Asks(c, u))]
    /\ hash' = [hash EXCEPT ![u] = c]
    /\ ~Raises(u) /\ sync' = Synced(u)
    /\ UNCHANGED incidents

\* Another unit is still to store a new hash, and this one is told.
Repeated(u, k) ==
    \/ "peer" \in due[u] \ {k}
    \/ \E v \in Units \ {u} : hash[v] # config /\ "config" \in due[v] /\ member[v]
PatchFails(u, k) ==
    /\ ("lost" \in Faults \/ Repeated(u, k))
    /\ Incident("refused")
    /\ UNCHANGED <<read, dcs, wants, hash, sync>>

UpdateConfig(c, u, k) ==
    /\ ~Refused(c, u)
    /\ file' = [file EXCEPT ![u] = Rendered(c, u)]
    /\ IF member[u] THEN Patches(c, u) \/ PatchFails(u, k)
       ELSE /\ "lost" \in Faults \/ k = "peer" \/ Repeated(u, k)
            /\ Reads(u) /\ UNCHANGED <<dcs, wants, hash, sync, incidents>>
    /\ UNCHANGED running

\* As Handled, but the others only hear of the flag.
HandledQuietly(u, k) ==
    due' = [v \in Units |->
        IF v = u THEN due[u] \ {k} ELSE due[v] \cup IF flag' # flag THEN {"peer"} ELSE {}]
\* The hook of unit u is over: the others hear of what it changed in the peer bags.
Handled(u, k) ==
    due' = [v \in Units |->
        IF v = u THEN due[u] \ {k}
        ELSE due[v] \cup IF hash'[u] # hash[u] \/ flag' # flag THEN {"peer"} ELSE {}]
Deferred(u) == UNCHANGED due

-----------------------------------------------------------------------------
(* Extensions. *)

\* One statement of enable_disable_extensions in a database whose objects use `used`.
Kept(e, s, used) == e \in s /\ (e \in used \/ \E f \in s : e \in Required(f))
Statement(c, used, a, e) ==
    CASE a.ends # "well" -> a
      [] a.ends = "well" /\ e \in c.plugins ->
            IF Required(e) \subseteq a.has THEN [a EXCEPT !.has = @ \cup {e}]
            ELSE [a EXCEPT !.ends = "error"]
      [] a.ends = "well" /\ e \notin c.plugins ->
            IF Kept(e, a.has, used) THEN [a EXCEPT !.ends = "objects"]
            ELSE [a EXCEPT !.has = @ \ {e}]
AsListed == <<"other", "audit", "base">>
\* Those that others depend on come first, whether they are created or dropped.
Ordered == <<"base", "audit", "other">>
Result(c, d) ==
    FoldLeft(LAMBDA a, e : Statement(c, objects[d], a, e), [has |-> installed[d], ends |-> "well"], Ordered)

\* The databases are taken in any order until a statement fails.
Well(c) == {d \in DOMAIN installed : Result(c, d).ends = "well"}
Through(c, done) ==
    installed' = [d \in DOMAIN installed |-> IF d \in done THEN Result(c, d).has ELSE installed[d]]
Changed(c) ==
    \/ Well(c) = DOMAIN installed /\ Through(c, Well(c)) /\ audit' = ("audit" \in c.plugins)
    \/ \E done \in SUBSET Well(c), d \in DOMAIN installed \ Well(c) :
          Through(c, done \cup {d}) /\ audit' = FALSE
Fails(c) == \E d \in DOMAIN installed : Result(c, d).ends = "objects"
\* The connection is lost: pgaudit is left off.
Loses(c) == "lost" \in Faults /\ audit' = FALSE /\ UNCHANGED installed

Unsatisfied(c) == \E e \in c.plugins : ~(Required(e) \subseteq c.plugins)

\* enable_disable_extensions of unit u whose status is s so far.
Unblocked(s, was) == IF s \in was THEN "active" ELSE s
EnableDisable(c, u, s) ==
    /\ UNCHANGED objects
    /\ IF Unsatisfied(c)
       THEN status' = [status EXCEPT ![u] = "depends"] /\ UNCHANGED <<installed, audit>>
       ELSE \/ /\ Changed(c)
               /\ status' = [status EXCEPT ![u] =
                     IF Fails(c) THEN "objects" ELSE Unblocked(s, {"depends", "objects"})]
            \/ Loses(c) /\ status' = [status EXCEPT ![u] = Unblocked(s, {"depends", "objects"})]
NoExtensions == UNCHANGED extensions

-----------------------------------------------------------------------------
(* Hooks. *)

OnConfigChanged(u) ==
    /\ "config" \in due[u] /\ ("hidden" \in Faults \/ "ldap" \notin due[u])
    /\ flag' = flag
    /\ IF Refused(config, u)
       THEN /\ status' = [status EXCEPT ![u] = "config"]
            /\ NoExtensions /\ UNCHANGED <<parameters, sync, incidents>>
       ELSE /\ UpdateConfig(config, u, "config")
            /\ IF u = leader THEN EnableDisable(config, u, Unblocked(status[u], {"config"}))
               ELSE status' = [status EXCEPT ![u] = Unblocked(@, {"config"})] /\ NoExtensions
    /\ Handled(u, "config")
    /\ UNCHANGED <<config, member, roles, related, changes>>

\* The relation of the peers: what it does besides is in Membership, Backups and AsyncReplication.
OnPeerChanged(u) ==
    /\ "peer" \in due[u]
    /\ flag' = flag
    /\ \E c \in Seen(u, "peer") :
          IF Refused(c, u)
          THEN /\ status' = [status EXCEPT ![u] = "config"]
               /\ UNCHANGED <<parameters, sync, incidents>> /\ Handled(u, "peer")
          ELSE /\ UpdateConfig(c, u, "peer") /\ UNCHANGED status
               /\ IF status[u] = "active" /\ ~member[u] THEN Deferred(u)
                  ELSE ("lost" \in Faults \/ member[u]) /\ Handled(u, "peer")
    /\ NoExtensions /\ UNCHANGED <<config, member, roles, related, changes>>

\* A hook after which the unit is active, whatever it was.
Activates(u, s) ==
    /\ s \notin {"depends", "objects"} \/ "hidden" \in Faults
    /\ status' = [status EXCEPT ![u] = "active"]

\* Once the container is back: every unit looks after the extensions.
OnPebbleReady(u) ==
    /\ "pebble" \in due[u] /\ member[u]
    /\ flag' = flag
    /\ \E c \in Seen(u, "pebble") :
          /\ UpdateConfig(c, u, "pebble")
          /\ UNCHANGED objects
          /\ IF Unsatisfied(c) THEN Activates(u, "depends") /\ UNCHANGED <<installed, audit>>
             ELSE Changed(c) /\ Activates(u, IF Fails(c) THEN "objects" ELSE Unblocked(status[u], {"depends", "objects"}))
    /\ Handled(u, "pebble")
    /\ UNCHANGED <<config, member, roles, related, changes>>

\* A unit that could not drop an extension tries again, and becomes active either way.
UpdateStatus(u) ==
    /\ status[u] = "objects"
    /\ IF Unsatisfied(config) THEN Activates(u, "depends") /\ UNCHANGED extensions
       ELSE Changed(config) /\ UNCHANGED objects /\ Activates(u, IF Fails(config) THEN "objects" ELSE "active")
    /\ UNCHANGED <<config, due, parameters, member, roles, ldap, bounds>>

\* ldap-ready and ldap-unavailable: only the leader sets the flag.
OnLdap(u) ==
    /\ "ldap" \in due[u]
    /\ flag' = IF u = leader THEN related ELSE flag
    /\ \E c \in Seen(u, "ldap") : UpdateConfig(c, u, "ldap")
    /\ IF related THEN Activates(u, status[u]) ELSE UNCHANGED status
    /\ Handled(u, "ldap")
    /\ NoExtensions /\ UNCHANGED <<config, member, roles, related, changes>>

-----------------------------------------------------------------------------
(* PostgreSQL, Patroni, Juju and the operator. *)

\* The lock is granted and Patroni starts the server with the configuration of the cluster.
Restart(u) ==
    /\ wants[u] /\ member[u]
    /\ running' = [running EXCEPT ![u] = dcs] /\ wants' = [wants EXCEPT ![u] = FALSE]
    /\ UNCHANGED <<config, due, dcs, file, read, hash, member, status, extensions, roles, ldap, bounds>>

\* The server or its container stops; when it starts it reads everything again.
Stops(u) ==
    /\ member[u]
    /\ \/ Incident("crash") /\ UNCHANGED due
       \/ Incident("restart") /\ due' = [due EXCEPT ![u] = @ \cup {"pebble"}]
    /\ member' = [member EXCEPT ![u] = FALSE]
    /\ UNCHANGED <<config, parameters, status, extensions, roles, ldap, changes>>
MemberStarts(u) ==
    /\ ~member[u]
    /\ member' = [member EXCEPT ![u] = TRUE]
    /\ running' = [running EXCEPT ![u] = dcs] /\ UNCHANGED file /\ Reads(u)
    /\ UNCHANGED <<config, due, dcs, hash, wants, status, extensions, roles, ldap, bounds>>

Settled == \A u \in Units : due[u] = {} /\ status[u] = "active"
Elect(u) ==
    /\ u # leader /\ ("missed" \in Faults \/ Settled)
    /\ Incident("elected") /\ leader' = u
    /\ UNCHANGED <<config, due, parameters, member, status, extensions, primary, ldap, changes>>
Failover(u) ==
    /\ u # primary /\ member[u] /\ ("missed" \in Faults \/ (Settled /\ ~flag))
    /\ Incident("failover") /\ primary' = u
    /\ UNCHANGED <<config, due, parameters, member, status, extensions, leader, ldap, changes>>

ChangeConfig(c) ==
    /\ c # config /\ changes < MaxChanges
    /\ "reverted" \in Faults \/ \A u, v \in Units : hash[u] = c => hash[v] = c
    /\ config' = c /\ changes' = changes + 1
    /\ due' = [u \in Units |-> due[u] \cup {"config"}]
    /\ UNCHANGED <<parameters, member, status, extensions, roles, ldap, incidents>>

\* A server for LDAP is related, or the relation is removed.
RelateLdap ==
    /\ "hidden" \in Faults \/ Settled
    /\ Incident(IF related THEN "no ldap" ELSE "ldap")
    /\ related' = ~related
    /\ due' = [u \in Units |-> due[u] \cup {"ldap"}]
    /\ UNCHANGED <<config, parameters, member, status, extensions, roles, flag, sync, changes>>

\* The leader makes a database for a client, with the extensions that are configured
\* (the rest of it is in ClientRelations); without those that they require the hook fails.
CreateDatabase ==
    /\ Incident("database") /\ ~Unsatisfied(config)
    /\ installed' = [d \in Databases |-> IF d = "second" THEN config.plugins ELSE installed[d]]
    /\ objects' = [d \in Databases |-> IF d = "second" THEN {} ELSE objects[d]]
    /\ audit' = ("audit" \in config.plugins)
    /\ UNCHANGED <<config, due, parameters, member, status, roles, ldap, changes>>

\* Clients make and drop objects that use an extension.
UseExtension(d) ==
    /\ "base" \in installed[d]
    /\ objects' = [objects EXCEPT ![d] = {"base"} \ @]
    /\ UNCHANGED <<config, due, parameters, member, status, installed, audit, roles, ldap, bounds>>

Hook(u) == OnConfigChanged(u) \/ OnPeerChanged(u) \/ OnPebbleReady(u) \/ OnLdap(u)
Server(u) == Restart(u) \/ MemberStarts(u)

Next ==
    \/ \E u \in Units : Hook(u) \/ UpdateStatus(u) \/ Server(u) \/ Stops(u) \/ Elect(u) \/ Failover(u)
    \/ \E c \in Configs : ChangeConfig(c)
    \/ RelateLdap \/ CreateDatabase
    \/ \E d \in DOMAIN installed : UseExtension(d)

Spec == Init /\ [][Next]_vars

\* Hooks run and are repeated, Patroni brings a member back and the lock is granted.
Fairness == WF_vars(\E u \in Units : Hook(u)) /\ WF_vars(\E u \in Units : Server(u))
FairSpec == Spec /\ Fairness

-----------------------------------------------------------------------------
(* Properties. *)

\* The values that options, files, servers and statuses take.
TypeOK ==
    /\ config \in Configs /\ hash \in [Units -> Configs]
    /\ due \in [Units -> SUBSET {"config", "peer", "pebble", "ldap"}]
    /\ dcs \in Nat /\ running \in [Units -> Nat] /\ {wants, member} \subseteq [Units -> BOOLEAN]
    /\ {file, read} \subseteq [Units -> [parallel : Nat, ldap : {"off", "on", "bare"}]]
    /\ status \in [Units -> {"active", "config", "depends", "objects"}]
    /\ DOMAIN installed \subseteq Databases /\ installed \in [DOMAIN installed -> SUBSET Extensions]
    /\ objects \in [DOMAIN installed -> SUBSET Extensions] /\ audit \in BOOLEAN
    /\ {leader, primary} \cup sync \subseteq Units /\ related \in BOOLEAN /\ flag \in BOOLEAN
    /\ changes \in 0 .. MaxChanges /\ incidents \subseteq Incidents

\* A unit that has stored the hash of the configuration runs it, wants to be restarted or has
\* something to handle: nothing that changed between its patch and its restart is forgotten.
RestartAsked ==
    \A u \in Units : hash[u] = config /\ due[u] = {} =>
        running[u] = Workers(config, u) \/ wants[u] \/ ~member[u]

\* The state, and that no restart is forgotten.
Inv == TypeOK /\ RestartAsked

\* Every server runs with the worker processes that are configured (_calculate_worker_process_config).
Applied ==
    \A u \in Units :
        running[u] = Workers(config, u) /\ read[u].parallel = BaseOf(config.workers, Cores(u))

\* LDAP is on where it is related, and its users are synchronised by the primary alone.
LdapFollows ==
    /\ \A u \in Units : read[u].ldap = IF related THEN "on" ELSE "off"
    /\ sync = IF related THEN {primary} ELSE {}

\* The databases have the extensions, and the server the audit log, of the options.
AsConfigured ==
    (\A d \in DOMAIN installed : installed[d] = config.plugins) /\ audit = ("audit" \in config.plugins)

\* A unit that is blocked for its options has options that it refuses.
WithReason(u) ==
    /\ status[u] = "config" => Refused(config, u)
    /\ status[u] = "depends" => Unsatisfied(config)

\* A configuration that the units do not refuse ends up in use on every one of them, with
\* and without LDAP, through crashes, failed patches and interleaved hooks.
AppliedInTheEnd == <>[](\A u \in Units : Refused(config, u) \/ (Applied /\ LdapFollows))

\* The extensions and the audit log of every database end up as configured, or the leader
\* says that they are not; and a unit that is blocked for its configuration has a reason to be.
ExtensionsInTheEnd ==
    <>[](/\ \/ AsConfigured
           \/ status[leader] # "active" \/ Refused(config, leader)
         /\ \A u \in Units : WithReason(u))
=============================================================================
