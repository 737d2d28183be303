-------------------------- MODULE AsyncReplication --------------------------
(***************************************************************************)
(* Asynchronous replication between two clusters:                          *)
(* src/relations/async_replication.py, with what of src/charm.py and of    *)
(* src/patroni.py takes part in it.                                        *)
(*                                                                         *)
(* Each cluster keeps a promotion counter, in its peer relation and in the *)
(* relation with the other cluster; the higher one names the primary       *)
(* cluster.  An action promotes a cluster by going one above the highest   *)
(* counter it reads.  The units of the other cluster then stop, throw      *)
(* their data away, wait for each other by deferring relation-changed, and *)
(* start again, the leader as a standby leader that copies the primary     *)
(* cluster.  Removing the relation leaves the standby cluster read-only.   *)
(*                                                                         *)
(* A hook is one step, but for the promotion actions, which read the       *)
(* counters (PromoteBegins) minutes before they write theirs               *)
(* (PromoteEnds), or die after they changed Patroni (PromoteDies).  The    *)
(* Juju leader of each cluster is its unit 0, and Patroni's leader too.    *)
(***************************************************************************)
EXTENDS Integers

CONSTANTS
    K,              \* units of each cluster
    MaxPromotions,  \* uses of create-replication and promote-to-primary
    MaxChanges,     \* removals of the relation and uses of set-password, together
    MaxFailures,    \* secrets not found, promotions not seen in time or that died
    MayRace         \* both clusters may be promoted at the same time

ASSUME AsyncAssumption ==
    /\ K \in Nat \ {0}
    /\ {MaxPromotions, MaxChanges, MaxFailures} \subseteq Nat
    /\ MayRace \in BOOLEAN

Clusters == {"offer", "consumer"}
Other(c) == IF c = "offer" THEN "consumer" ELSE "offer"
None == "none"

Members(c) == {c} \X (0 .. K - 1)
Units == Clusters \X (0 .. K - 1)
ClusterOf(u) == u[1]
Leader(c) == <<c, 0>>
IsLeader(u) == u = Leader(ClusterOf(u))

Unset == -1     \* no promoted-cluster-counter; 0 marks the read-only mode
Events == {"created", "changed", "broken", "secret"}

VARIABLES
    related,      \* the two applications are related
    offered,      \* relation, application bags: "promoted-cluster-counter", 0 when absent
    shared,       \* the password in the secret of the offer side, -1 when there is none
    tracked,      \* the consumer side has read that secret, and is told of changes
    counter,      \* peer relation, application bag: "promoted-cluster-counter"
    initialised,  \* same bag: "cluster_initialised"
    password,     \* the password in the internal secret of each cluster
    stopped,      \* peer relation, unit bags: "stopped"
    followed,     \* same bags: "unit-promoted-cluster-counter", 0 when absent
    waiting,      \* the units whose status is Waiting: update-status leaves them alone
    due,          \* the events each unit has still to handle, deferred ones included
    promoting,    \* the counter that a running promotion action will write, or 0
    data,         \* the database on each volume, by its origin, or "empty"
    up,           \* the database service of each unit
    dcs,          \* Patroni's configuration of each cluster; "leaving": no standby cluster
                  \* any more, but its leader is not yet a primary
    rootPassword, \* the password that each database itself has
    caught,       \* history: a promotion or the end of the relation caught a cluster halfway
    unfinished,   \* history: the clusters whose last promotion died after it asked Patroni
    promotions, breaks, failures, passwords   \* counters for the bounds

relation == <<related, offered, shared, tracked>>
peers == <<counter, initialised, password>>
bags == <<stopped, followed>>
patroni == <<data, up, dcs, rootPassword>>
bounds == <<promotions, breaks, failures, passwords>>
history == <<caught, unfinished>>
vars == <<relation, peers, bags, waiting, due, promoting, patroni, history, bounds>>

MayChange == breaks + passwords < MaxChanges

Init ==
    /\ related = TRUE
    /\ offered = [c \in Clusters |-> 0] /\ shared = -1 /\ tracked = FALSE
    /\ counter = [c \in Clusters |-> Unset]
    /\ initialised = [c \in Clusters |-> TRUE]
    /\ password = [c \in Clusters |-> IF c = "offer" THEN 0 ELSE MaxChanges + 1]
    /\ rootPassword = password
    /\ stopped = [u \in Units |-> FALSE] /\ followed = [u \in Units |-> 0]
    /\ waiting = [u \in Units |-> FALSE]
    /\ due = [u \in Units |-> {}]
    /\ promoting = [c \in Clusters |-> 0]
    /\ data = [u \in Units |-> ClusterOf(u)]
    /\ up = [u \in Units |-> "running"]
    /\ dcs = [c \in Clusters |-> "normal"]
    /\ caught = FALSE /\ unfinished = {}
    /\ promotions = 0 /\ breaks = 0 /\ failures = 0 /\ passwords = 0

-----------------------------------------------------------------------------
(* What a cluster reads. *)

\* What a hook of cluster c reads: the counter of its peer relation and the one of
\* the other cluster.  An absent counter and the read-only mark both count as zero.
Own(c) == IF counter[c] = Unset THEN 0 ELSE counter[c]
Highest(c) ==
    IF ~related THEN 0
    ELSE IF offered[Other(c)] > Own(c) THEN offered[Other(c)] ELSE Own(c)

\* The other cluster is looked at first and the comparison is strict: on equal
\* counters each cluster takes the other for the primary.
PrimaryCluster(c) ==
    IF Highest(c) = 0 THEN None
    ELSE IF offered[Other(c)] = Highest(c) THEN Other(c) ELSE c

IsFollowing(u) ==
    LET c == ClusterOf(u) IN
    PrimaryCluster(c) # None /\ followed[u] = Highest(c)

\* get_standby_leader, as it is seen in the status of the cluster.
StandbyLeader(c) == dcs[c] \in {"standby", "leaving"} /\ up[Leader(c)] = "running"

\* What the writes of a leader to the relation cause.
Notify(S, e) == due' = [u \in Units |-> IF u \in S THEN due[u] \cup {e} ELSE due[u]]
Handled(u, e) == due' = [due EXCEPT ![u] = @ \ {e}]

\* A unit runs one hook or action at a time.
Free(u) == IsLeader(u) => promoting[ClusterOf(u)] = 0

-----------------------------------------------------------------------------
(* Promotion: create-replication and promote-to-primary. *)

\* get_system_identifier reads it from the database files of the unit.
HasSystemId(c) == data[Leader(c)] # "empty"

\* create-replication, on the offer side, when there is no primary cluster;
\* promote-to-primary, when there is one or this cluster is in read-only mode.
MayPromote(c) ==
    /\ initialised[c]
    /\ \/ c = "offer" /\ PrimaryCluster(c) = None
       \/ PrimaryCluster(c) = Other(c)
       \/ counter[c] = 0 /\ PrimaryCluster(c) = None
    /\ \A u \in Members(Other(c)) : "created" \notin due[u]   \* unit-address is published
    /\ HasSystemId(c)

\* What the action will write.
NextOfOwn(c) == Own(c) + 1
NextCounter(c) == Highest(c) + 1

PromoteBegins(c) ==
    /\ promotions < MaxPromotions
    /\ related /\ MayPromote(c)
    /\ promoting[c] = 0 /\ (MayRace \/ promoting[Other(c)] = 0)
    /\ promoting' = [promoting EXCEPT ![c] = NextCounter(c)]
    /\ UNCHANGED <<relation, peers, bags, waiting, due, patroni, history, bounds>>

\* _update_primary_cluster_data: the offer side shares its passwords.
Shares(c) == shared' = IF c = "offer" THEN password[c] ELSE shared

\* promote_standby_cluster, asked of Patroni at once or only when the event is handled
\* again.  The leader of a cluster that is being promoted runs: where there is a standby
\* cluster there is a standby leader.
PromotedLater(c) == UNCHANGED dcs
Promoted(c) == dcs' = [dcs EXCEPT ![c] = "normal"]

\* _handle_replication_change writes the counter in both relations and runs the
\* relation-changed handler, where _configure_primary_cluster makes a standby
\* cluster a normal one; when its leader is not seen as the primary in time, the handler
\* is deferred.
PromoteEnds(c) ==
    LET n == promoting[c]
        late == dcs[c] = "standby" /\ failures < MaxFailures IN
    /\ n # 0 /\ related /\ dcs[c] # "leaving"
    /\ promoting' = [promoting EXCEPT ![c] = 0] /\ promotions' = promotions + 1
    /\ caught' = (caught \/ /\ PrimaryCluster(c) = Other(c)
                            /\ \/ \E u \in Members(c) : ~IsFollowing(u)
                               \/ rootPassword[c] # rootPassword[Other(c)])
    /\ unfinished' = unfinished \ {c}
    /\ counter' = [counter EXCEPT ![c] = n] /\ offered' = [offered EXCEPT ![c] = n]
    /\ Shares(c) /\ Promoted(c)
    /\ \/ /\ followed' = [followed EXCEPT ![Leader(c)] = n]
          /\ Notify(Members(Other(c)), "changed")
          /\ UNCHANGED failures
       \/ /\ late /\ failures' = failures + 1
          /\ Notify(Members(Other(c)) \cup {Leader(c)}, "changed")
          /\ UNCHANGED followed
    /\ UNCHANGED <<related, tracked, initialised, password, stopped, waiting, data,
                   up, rootPassword, breaks, passwords>>

\* promote_standby_cluster removes the standby cluster from Patroni's configuration, and
\* raises RetryError when there is no primary after a minute.
AsksPatroni(c) ==
    /\ failures < MaxFailures /\ failures' = failures + 1
    /\ dcs[c] = "standby" /\ dcs' = [dcs EXCEPT ![c] = "leaving"]
    /\ unfinished' = unfinished \cup {c}

\* Nothing catches that error, nor the StandbyClusterAlreadyPromotedError of an action
\* that comes before Patroni is done: the action dies, and Juju drops what it wrote.
PromoteDies(c) ==
    /\ promoting[c] # 0 /\ related /\ StandbyLeader(c)
    /\ promoting' = [promoting EXCEPT ![c] = 0]
    /\ \/ AsksPatroni(c)
       \/ dcs[c] = "leaving" /\ UNCHANGED <<dcs, unfinished, failures>>
    /\ UNCHANGED <<relation, peers, bags, waiting, due, data, up, rootPassword, caught,
                   promotions, breaks, passwords>>

\* promote-to-primary in a cluster that lost its relation.
PromoteDetached(c) ==
    /\ promotions < MaxPromotions /\ promotions' = promotions + 1
    /\ ~related /\ initialised[c] /\ StandbyLeader(c) /\ dcs[c] = "standby"
    /\ dcs' = [dcs EXCEPT ![c] = "normal"]
    /\ counter' = [counter EXCEPT ![c] = IF @ = 0 THEN Unset ELSE @]
    /\ UNCHANGED <<relation, initialised, password, bags, waiting, due, promoting,
                   data, up, rootPassword, history, breaks, failures, passwords>>

\* The same action dies like the other; nobody can repeat it, for once Patroni is done
\* there is no standby leader.
PromoteDetachedDies(c) ==
    /\ promotions < MaxPromotions
    /\ ~related /\ initialised[c] /\ StandbyLeader(c) /\ AsksPatroni(c)
    /\ UNCHANGED <<relation, peers, bags, waiting, due, promoting, data, up, rootPassword,
                   caught, promotions, breaks, passwords>>

-----------------------------------------------------------------------------
(* relation-created and relation-changed. *)

OnCreated(u) ==
    LET n == Highest(ClusterOf(u)) IN
    /\ "created" \in due[u] /\ Free(u) /\ Handled(u, "created")
    /\ followed' = [followed EXCEPT ![u] = IF n # 0 THEN n ELSE @]
    /\ UNCHANGED <<relation, peers, stopped, waiting, promoting, patroni, history, bounds>>

ToHandle(u) == Free(u) /\ "changed" \in due[u] /\ "created" \notin due[u]

\* No primary cluster, or, other than the leader, a unit that follows it already.
ChangedIgnored(u) ==
    LET c == ClusterOf(u) IN
    /\ ToHandle(u) /\ Handled(u, "changed")
    /\ \/ PrimaryCluster(c) = None
       \/ PrimaryCluster(c) = Other(c) /\ ~IsLeader(u) /\ IsFollowing(u)
    /\ UNCHANGED <<relation, peers, bags, waiting, promoting, patroni, history, bounds>>

\* _configure_primary_cluster.  By then the action that wrote the counters has seen Patroni
\* through: no hook is left to find a standby leader, and to die like the actions.
ChangedPrimary(u) ==
    LET c == ClusterOf(u) IN
    /\ ToHandle(u) /\ Handled(u, "changed")
    /\ PrimaryCluster(c) = c
    /\ IF IsLeader(u)
       THEN Shares(c) /\ dcs' = [dcs EXCEPT ![c] = IF StandbyLeader(c) THEN "normal" ELSE @]
       ELSE UNCHANGED <<shared, dcs>>
    /\ followed' = [followed EXCEPT ![u] = Highest(c)]
    /\ waiting' = [waiting EXCEPT ![u] = FALSE]
    /\ UNCHANGED <<related, offered, tracked, peers, stopped, promoting, data, up,
                   rootPassword, history, bounds>>

\* _stop_database, when there is something to stop.
MustStop(u) == ~stopped[u] /\ ~IsFollowing(u)

\* A leader that stops removes what Patroni keeps of the cluster
\* (_remove_previous_cluster_information), and the mark that it is initialised.
Forgets(u) == MustStop(u) /\ IsLeader(u)
Unfinished(u) ==
    unfinished' = IF Forgets(u) THEN unfinished \ {ClusterOf(u)} ELSE unfinished

\* _configure_standby_cluster does not find the secret: the database is stopped,
\* the unit not marked, and the event deferred.
SecretMissing(u) ==
    LET c == ClusterOf(u) IN
    /\ failures < MaxFailures /\ failures' = failures + 1
    /\ ToHandle(u) /\ PrimaryCluster(c) = Other(c) /\ MustStop(u)
    /\ u = Leader("consumer")
    /\ up' = [up EXCEPT ![u] = "down"]
    /\ initialised' = [initialised EXCEPT ![c] = FALSE]
    /\ UNCHANGED <<relation, counter, password, bags, waiting, due, promoting, data,
                   dcs, rootPassword, history, promotions, breaks, passwords>>

\* _update_internal_secret, of _configure_standby_cluster on the consumer side.
TakesSecret(u) ==
    IF MustStop(u) /\ u = Leader("consumer")
    THEN tracked' = TRUE /\ password' = [password EXCEPT !["consumer"] = shared]
    ELSE UNCHANGED <<tracked, password>>

\* _stop_database: every unit throws its data away and says it is stopped; the
\* leader takes over the passwords.
StopsKeeping(u) ==
    /\ stopped' = [stopped EXCEPT ![u] = @ \/ MustStop(u)]
    /\ data' = [data EXCEPT ![u] = IF MustStop(u) /\ IsLeader(u) THEN "empty" ELSE @]
    /\ TakesSecret(u)
Stops(u) ==
    /\ stopped' = [stopped EXCEPT ![u] = @ \/ MustStop(u)]
    /\ data' = [data EXCEPT ![u] = IF MustStop(u) THEN "empty" ELSE @]
    /\ TakesSecret(u)

AllStopped(u) ==
    \A v \in Members(ClusterOf(u)) \ {u} :
        stopped[v] \/ followed[v] = Highest(ClusterOf(u))

\* The unit cannot start yet: some unit has not stopped, or the standby leader does
\* not run (_wait_for_standby_leader).
MustWait(u) == ~AllStopped(u) \/ (~IsLeader(u) /\ ~StandbyLeader(ClusterOf(u)))

Standby(u) ==
    LET c == ClusterOf(u) IN
    /\ ToHandle(u) /\ PrimaryCluster(c) = Other(c)
    /\ IsLeader(u) \/ ~IsFollowing(u)

ChangedWaits(u) ==
    LET c == ClusterOf(u) IN
    /\ Standby(u) /\ MustWait(u)
    /\ Stops(u) /\ Unfinished(u)
    /\ dcs' = [dcs EXCEPT ![c] = IF Forgets(u) THEN "none" ELSE @]
    /\ up' = [up EXCEPT ![u] = IF MustStop(u) THEN "down" ELSE @]
    /\ initialised' = [initialised EXCEPT ![c] = @ /\ ~Forgets(u)]
    /\ waiting' = [waiting EXCEPT ![u] = TRUE]
    /\ UNCHANGED <<related, offered, shared, counter, followed, due, promoting,
                   rootPassword, caught, bounds>>

\* The service is started, as a standby where Patroni keeps nothing of the cluster;
\* _handle_database_start finds it not started yet and defers.
ChangedStarts(u) ==
    LET c == ClusterOf(u) IN
    /\ Standby(u) /\ ~MustWait(u)
    /\ MustStop(u) \/ up[u] # "running"
    /\ Stops(u) /\ Unfinished(u)
    /\ dcs' = [dcs EXCEPT ![c] = IF Forgets(u) \/ (IsLeader(u) /\ @ = "none")
                                 THEN "standby" ELSE @]
    /\ initialised' = [initialised EXCEPT ![c] = @ /\ ~IsLeader(u)]
    /\ up' = [up EXCEPT ![u] = IF MustStop(u) \/ @ = "down" THEN "starting" ELSE @]
    /\ waiting' = [waiting EXCEPT ![u] = TRUE]
    /\ UNCHANGED <<related, offered, shared, counter, followed, due, promoting,
                   rootPassword, caught, bounds>>

\* _handle_database_start, the database started: the unit follows, and the leader
\* declares the cluster initialised when all units do, or defers.
StartedOn(u, isStopped) ==
    LET c == ClusterOf(u)
        all == \A v \in Members(c) \ {u} : followed[v] = Highest(c) IN
    /\ Standby(u) /\ ~MustWait(u) /\ ~MustStop(u) /\ up[u] = "running"
    /\ stopped' = [stopped EXCEPT ![u] = isStopped]
    /\ followed' = [followed EXCEPT ![u] = Highest(c)]
    /\ initialised' = [initialised EXCEPT ![c] = @ \/ (IsLeader(u) /\ all)]
    /\ IF IsLeader(u) /\ ~all
       THEN UNCHANGED due /\ waiting' = [waiting EXCEPT ![u] = TRUE]
       ELSE Handled(u, "changed") /\ waiting' = [waiting EXCEPT ![u] = FALSE]
    /\ UNCHANGED <<relation, counter, password, promoting, patroni, history, bounds>>
StartedStopped(u) == StartedOn(u, stopped[u])
ChangedStarted(u) == StartedOn(u, FALSE)

-----------------------------------------------------------------------------
(* The end of the relation. *)

\* relation-broken.  Where there is a standby leader, the leader marks the cluster
\* read-only; elsewhere the configuration is written again, without the primary.
CounterCleared(c) == Unset
CounterLeft(c) == IF StandbyLeader(c) THEN 0 ELSE Unset

OnBroken(u) ==
    LET c == ClusterOf(u) IN
    /\ "broken" \in due[u] /\ Free(u) /\ Handled(u, "broken")
    /\ stopped' = [stopped EXCEPT ![u] = FALSE]
    /\ followed' = [followed EXCEPT ![u] = 0]
    /\ counter' = IF IsLeader(u)
                  THEN [counter EXCEPT ![c] = CounterLeft(c)] ELSE counter
    /\ UNCHANGED <<relation, initialised, password, waiting, promoting, patroni, history,
                   bounds>>

\* secret-changed.  Offer side: the shared secret follows the internal one;
\* consumer side: the internal secret follows the shared one.
OnSecretChanged(u) ==
    /\ "secret" \in due[u] /\ IsLeader(u) /\ Free(u)
    /\ IF ~related THEN Handled(u, "secret") /\ UNCHANGED <<shared, password>>
       ELSE IF ClusterOf(u) = "offer"
       THEN /\ shared' = password["offer"]
            /\ due' = [due EXCEPT ![u] = @ \ {"secret"},
                       ![Leader("consumer")] = IF tracked THEN @ \cup {"secret"} ELSE @]
            /\ UNCHANGED password
       ELSE /\ password' = [password EXCEPT !["consumer"] = shared]
            /\ Handled(u, "secret") /\ UNCHANGED shared
    /\ UNCHANGED <<related, offered, tracked, counter, initialised, bags, waiting,
                   promoting, patroni, history, bounds>>

-----------------------------------------------------------------------------
(* The rest of the charm, where it meets the replication. *)

\* set-password, run on the offer side when there is a relation: the database of the
\* primary cluster first, then the internal secret.
SetPassword(c) ==
    LET p == PrimaryCluster(c)
        target == IF related /\ p = Other(c) THEN Other(c) ELSE c IN
    /\ MayChange /\ passwords' = passwords + 1
    /\ Free(Leader(c)) /\ (c = "offer" \/ ~related)
    /\ \A u \in Members(c) : up[u] = "running"       \* are_all_members_ready
    /\ dcs[target] = "normal" /\ up[Leader(target)] = "running"
    /\ rootPassword' = [rootPassword EXCEPT ![target] = passwords + 1]
    /\ password' = [password EXCEPT ![c] = passwords + 1]
    /\ Notify(IF c = "offer" THEN {Leader(c)} ELSE {}, "secret")
    /\ UNCHANGED <<relation, counter, initialised, bags, waiting, promoting, data, up,
                   dcs, history, promotions, breaks, failures>>

\* _on_update_status: a service that is not running, and not stopped on purpose, is
\* restarted, if the unit has an active status.
UpdateStatus(u) ==
    LET c == ClusterOf(u) IN
    /\ Free(u)
    /\ up[u] = "down" /\ ~stopped[u] /\ ~waiting[u]
    /\ up' = [up EXCEPT ![u] = "starting"]
    /\ dcs' = [dcs EXCEPT ![c] = IF IsLeader(u) /\ @ = "none" THEN "normal" ELSE @]
    /\ UNCHANGED <<relation, peers, bags, waiting, due, promoting, data, rootPassword,
                   history, bounds>>

\* update_config, of many hooks of any unit: _api_update_config names the primary cluster
\* that the unit reads to Patroni, whose leader is a standby leader from then on, one that
\* was promoted by an action that died included.
UpdateConfig(c) ==
    /\ PrimaryCluster(c) = Other(c) /\ dcs[c] \in {"normal", "leaving"}
    /\ up[Leader(c)] = "running" /\ \E u \in Members(c) : Free(u) /\ up[u] = "running"
    /\ dcs' = [dcs EXCEPT ![c] = "standby"]
    /\ unfinished' = unfinished \ {c}
    /\ UNCHANGED <<relation, peers, bags, waiting, due, promoting, data, up, rootPassword,
                   caught, bounds>>

\* _on_peer_relation_changed on the leader of a cluster that is not initialised and
\* that is no standby: _initialize_cluster, once there is a primary.
PeerChanged(c) ==
    /\ Free(Leader(c))
    /\ ~initialised[c] /\ PrimaryCluster(c) # Other(c)
    /\ dcs[c] = "normal" /\ up[Leader(c)] = "running"
    /\ initialised' = [initialised EXCEPT ![c] = TRUE]
    /\ UNCHANGED <<relation, counter, password, bags, waiting, due, promoting, patroni,
                   history, bounds>>

\* Patroni: the leader of a cluster that is no standby any more becomes a primary.
PatroniPromotes(c) ==
    /\ dcs[c] = "leaving" /\ up[Leader(c)] = "running"
    /\ dcs' = [dcs EXCEPT ![c] = "normal"]
    /\ UNCHANGED <<relation, peers, bags, waiting, due, promoting, data, up, rootPassword,
                   history, bounds>>

\* Patroni: the leader copies the other cluster if this one is a standby, or makes a
\* database; the others copy their leader.
DatabaseStarts(u) ==
    LET c == ClusterOf(u)
        source == IF IsLeader(u) THEN Leader(Other(c)) ELSE Leader(c)
        copies == data[u] = "empty" /\ (~IsLeader(u) \/ dcs[c] = "standby") IN
    /\ up[u] = "starting"
    /\ copies => up[source] = "running"
    /\ up' = [up EXCEPT ![u] = "running"]
    /\ data' = [data EXCEPT ![u] = IF copies THEN data[source]
                                   ELSE IF @ = "empty" THEN "new" ELSE @]
    /\ rootPassword' = [rootPassword EXCEPT ![c] =
                          IF copies /\ IsLeader(u) THEN rootPassword[Other(c)] ELSE @]
    /\ UNCHANGED <<relation, peers, bags, waiting, due, promoting, dcs, history, bounds>>

\* PostgreSQL: what the primary cluster writes reaches the standby cluster.
Replicate(c) ==
    /\ dcs[c] = "standby" /\ up[Leader(c)] = "running"
    /\ dcs[Other(c)] = "normal" /\ up[Leader(Other(c))] = "running"
    /\ data[Leader(c)] = data[Leader(Other(c))]
    /\ rootPassword[c] # rootPassword[Other(c)]
    /\ rootPassword' = [rootPassword EXCEPT ![c] = rootPassword[Other(c)]]
    /\ UNCHANGED <<relation, peers, bags, waiting, due, promoting, data, up, dcs, history,
                   bounds>>

\* Juju: the relation is removed, and made again.
RemoveRelation ==
    /\ MayChange /\ breaks' = breaks + 1
    /\ related /\ related' = FALSE
    /\ \A c \in Clusters : promoting[c] = 0
    /\ offered' = [c \in Clusters |-> 0] /\ shared' = -1 /\ tracked' = FALSE
    /\ due' = [u \in Units |-> {"broken"}]
    /\ caught' = (caught \/ \E u \in Units : data[u] = "empty" \/ up[u] # "running")
    /\ UNCHANGED <<peers, bags, waiting, promoting, patroni, unfinished, promotions,
                   failures, passwords>>

Relate ==
    /\ ~related /\ \A u \in Units : "broken" \notin due[u]
    /\ related' = TRUE
    /\ due' = [u \in Units |-> due[u] \cup {"created", "changed"}]
    /\ UNCHANGED <<offered, shared, tracked, peers, bags, waiting, promoting, patroni,
                   history, bounds>>

-----------------------------------------------------------------------------

Hooks(u) ==
    \/ OnCreated(u) \/ ChangedIgnored(u) \/ ChangedPrimary(u) \/ ChangedWaits(u)
    \/ ChangedStarts(u) \/ ChangedStarted(u) \/ OnBroken(u) \/ OnSecretChanged(u)
    \/ UpdateStatus(u)

Next ==
    \/ \E u \in Units : Hooks(u) \/ SecretMissing(u) \/ DatabaseStarts(u)
    \/ \E c \in Clusters :
          \/ PromoteBegins(c) \/ PromoteEnds(c) \/ PromoteDies(c)
          \/ PromoteDetached(c) \/ PromoteDetachedDies(c) \/ PatroniPromotes(c)
          \/ SetPassword(c) \/ UpdateConfig(c) \/ PeerChanged(c) \/ Replicate(c)
    \/ RemoveRelation
    \/ Relate

Spec == Init /\ [][Next]_vars

\* Each unit handles the events it was sent, deferred ones again and again; actions
\* end; Patroni and PostgreSQL do their part.
Fairness ==
    /\ \A u \in Units :
          /\ SF_vars(ChangedStarted(u)) /\ SF_vars(ChangedStarts(u))
          /\ WF_vars(Hooks(u)) /\ WF_vars(DatabaseStarts(u))
    /\ \A c \in Clusters :
          /\ WF_vars(PromoteEnds(c)) /\ WF_vars(PatroniPromotes(c))
          /\ WF_vars(PeerChanged(c)) /\ WF_vars(Replicate(c))

FairSpec == Spec /\ Fairness

-----------------------------------------------------------------------------
(* Properties. *)

\* The values that counters, flags, data and due events take.
TypeOK ==
    /\ related \in BOOLEAN /\ caught \in BOOLEAN /\ unfinished \in SUBSET Clusters
    /\ offered \in [Clusters -> Nat] /\ shared \in Nat \cup {-1} /\ tracked \in BOOLEAN
    /\ counter \in [Clusters -> Nat \cup {Unset}]
    /\ initialised \in [Clusters -> BOOLEAN]
    /\ password \in [Clusters -> Nat]
    /\ rootPassword \in [Clusters -> Nat]
    /\ stopped \in [Units -> BOOLEAN] /\ waiting \in [Units -> BOOLEAN]
    /\ followed \in [Units -> Nat]
    /\ due \in [Units -> SUBSET Events]
    /\ promoting \in [Clusters -> Nat]
    /\ data \in [Units -> Clusters \cup {"new", "empty"}]
    /\ up \in [Units -> {"down", "starting", "running"}]
    /\ dcs \in [Clusters -> {"normal", "standby", "leaving", "none"}]
    /\ promotions \in Nat /\ breaks \in Nat /\ failures \in Nat /\ passwords \in Nat

\* The two sides of a relation never disagree on who the primary cluster is: the
\* counters they compare, one of them in another relation, name the same one.
AgreeOnPrimary == related => PrimaryCluster("offer") = PrimaryCluster("consumer")

\* A cluster throws data away only while the other one is a primary cluster that
\* has some (_stop_database; "to promote this cluster before demoting the other").
DiscardsForAPrimary ==
    [][\A c \in Clusters :
          (\E u \in Members(c) : data[u] # "empty" /\ data'[u] = "empty")
              => dcs[Other(c)] = "normal" /\ data[Leader(Other(c))] # "empty"]_vars

\* A unit joins its cluster again only with a copy of the primary cluster's data:
\* never, that is, with what it had before or with a database of its own.
OneDatabase ==
    \A c \in Clusters : \A u \in Members(c) :
        related /\ PrimaryCluster(c) = Other(c) /\ followed[u] = Highest(c)
            => data[u] = data[Leader(Other(c))]

\* A cluster that was detached as a standby is marked read-only for as long as it is one,
\* and no other is (_on_async_relation_broken, promote-to-primary), but one whose promotion
\* died after Patroni was asked.
ReadOnlyMarked ==
    ~related /\ ~caught /\ (\A u \in Units : due[u] = {}) =>
        \A c \in Clusters :
            /\ dcs[c] = "standby" => counter[c] = 0
            /\ counter[c] = 0 => dcs[c] = "standby" \/ c \in unfinished

\* Once the operator is done, one cluster is the primary, the other a standby with
\* the same data, and every unit runs and is known to follow; unless a cluster was
\* promoted before all its units followed the other, or the relation was removed while
\* a unit was stopped (nobody starts that unit then), or a promotion died and was not
\* repeated.
Replicating ==
    /\ \A u \in Units : due[u] = {} /\ up[u] = "running" /\ ~stopped[u]
    /\ related /\ PrimaryCluster("offer") # None =>
          \A c \in Clusters :
              /\ initialised[c]
              /\ dcs[c] = IF PrimaryCluster(c) = c THEN "normal" ELSE "standby"
              /\ \A u \in Members(c) : data[u] = data[Leader(Other(c))]
Converges == <>[]Replicating \/ <>caught \/ <>[](unfinished # {})

\* As long as the two are related, both sides end up with the password that the
\* database has (set-password, _on_secret_changed): the charm can log in.
PasswordsAgree ==
    <>[](\/ breaks > 0 \/ caught \/ unfinished # {}
         \/ \A c \in Clusters : password[c] = rootPassword[c])

\* The state of the pair, and the units that follow have the data they follow.
Inv == TypeOK /\ OneDatabase

\* Both clusters end up replicating, with passwords that work.
Settles == Converges /\ PasswordsAgree
=============================================================================
