------------------------- MODULE ConfigReplication -------------------------
(***************************************************************************)
(* How the cluster configuration is changed on the coordinator and reaches *)
(* the other nodes: the operations of class Cluster with the CLI handlers  *)
(* (deploy, remove, accept/join, kick) and the leader election that call   *)
(* them, the push of a new configuration (syncConfigToCluster, POST        *)
(* /set_config), and the periodic pull (syncClusterConfigFromCoordinator,  *)
(* POST /config_check).                                                    *)
(*                                                                         *)
(* The daemon is single threaded: everything a handler does between two    *)
(* awaits is one action, so a handler is as many actions as it has awaits  *)
(* at which another handler can change what it has read.                   *)
(*                                                                         *)
(*   - A message is in a set until it is taken: messages overtake one      *)
(*     another, and one that is never taken is lost.  pushes, offers and   *)
(*     resets need no loss action, for no fairness is asked of taking      *)
(*     them.  A request or answer of the pull is lost by LoseCheck, which  *)
(*     is also what a restart of the daemon on a replica does.             *)
(*   - A configuration is written to disk in the step that changes it, so  *)
(*     a restart comes back with the same configuration.                   *)
(*   - A host answers at the WireGuard address of the id it joined with;   *)
(*     the coordinator's packets for that address go to the host its       *)
(*     current list of nodes names, and only hosts of that list reach it.  *)
(*   - Every handler is there on every host: which host a push or a reset  *)
(*     reaches follows from whom it is sent to and from the list of nodes. *)
(*   - The choice the election makes among the candidates is left open.    *)
(*   - The check's one second delay and its 60 s period are not modelled:  *)
(*     a check starts at any time.                                         *)
(***************************************************************************)
EXTENDS ClusterConfig, FiniteSets

CONSTANTS
    JoinSlots,   \* the join requests the coordinator can be handling at once
    KickSlots,   \* the kick commands that can be running at once
    MaxUpdates   \* bound: the coordinator changes its configuration this often

ASSUME MaxUpdatesAssumption == MaxUpdates \in Nat

VARIABLES
    mem,        \* mem[h]: the configuration h holds (clusterConfigSingleton)
    published,  \* history: every configuration the coordinator has held
    asBuilt,    \* coordinator's services whose objects are not yet re-parsed
    joins,      \* join requests waiting for addMissingEtcdMembers
    offers,     \* answers to join requests on their way to the joining host
    kicks,      \* kick commands waiting for the answer of /reset_node
    resets,     \* hosts that have accepted /reset_node and not yet reset
    election,   \* the election in progress (leaderElectionPromise)
    pushes,     \* /set_config requests in flight
    check       \* check[h]: the config check of h (configCheckPromise)

vars == <<mem, published, asBuilt, joins, offers, kicks, resets, election,
          pushes, check>>

Replicas == Hosts \ {Coordinator}

NoElection == [phase |-> "idle", ids |-> {}]

NoCheck == [phase |-> "idle", asked |-> NoConfig, answer |-> NoConfig]

TypeOK ==
    /\ mem \in [Hosts -> ClusterInfo \cup {NoConfig}]
    /\ mem[Coordinator] \in ClusterInfo
    /\ published \subseteq ClusterInfo
    /\ asBuilt \subseteq Services
    /\ joins \subseteq [slot : JoinSlots, host : Replicas, id : NodeIds]
    /\ offers \subseteq [host : Replicas, config : ClusterInfo]
    /\ kicks \subseteq [slot : KickSlots, id : NodeIds \ {CoordinatorId}, host : Replicas]
    /\ resets \subseteq Replicas
    /\ election \in [phase : {"idle", "polling", "syncing"}, ids : SUBSET NodeIds]
    /\ pushes \subseteq [to : NodeIds \ {CoordinatorId}, config : ClusterInfo]
    /\ check \in [Replicas -> [phase : {"idle", "asked", "answered"},
                               asked : ClusterInfo \cup {NoConfig},
                               answer : ClusterInfo \cup {NoConfig}]]

\* The state right after `create' on the coordinator; the other hosts have
\* no configuration.
Init ==
    /\ mem = [h \in Hosts |-> IF h = Coordinator THEN InitialConfig ELSE NoConfig]
    /\ published = {InitialConfig}
    /\ asBuilt = {}
    /\ joins = {}
    /\ offers = {}
    /\ kicks = {}
    /\ resets = {}
    /\ election = NoElection
    /\ pushes = {}
    /\ check = [h \in Replicas |-> NoCheck]

-----------------------------------------------------------------------------
(***************************************************************************)
(* The coordinator's configuration, and a change of it.                    *)
(***************************************************************************)
Current == mem[Coordinator]

MayUpdate == Current.updated_at < MaxUpdates

\* Mutant: the coordinator is told, too.
PushTargetsWithCoordinator(c, ignored) == AssignedIds(c) \ ignored

\* The ids syncConfigToCluster sends a configuration to.
PushTargets(c, ignored) == AssignedIds(c) \ ({CoordinatorId} \cup ignored)

\* The coordinator's configuration becomes c, is saved, and is pushed.
Publish(c, ignored) ==
    /\ mem' = [mem EXCEPT ![Coordinator] = c]
    /\ published' = published \cup {c}
    /\ pushes' = pushes \cup {[to |-> id, config |-> c] : id \in PushTargets(c, ignored)}

\* The host that answers at the WireGuard address of id for the coordinator.
Answers(h, id) == \E n \in Current.nodes : n.id = id /\ n.host = h

-----------------------------------------------------------------------------
(***************************************************************************)
(* deploy and remove                                                       *)
(***************************************************************************)
\* The new service object is stored as setWebService or setPatroniService
\* built it, with its fields in another order than the schema's.
Deploy(s) ==
    /\ MayUpdate
    /\ Publish(WithService(Current, s), {})
    /\ asBuilt' = asBuilt \cup {s}
    /\ UNCHANGED <<joins, offers, kicks, resets, election, check>>

Remove(s) ==
    /\ MayUpdate
    /\ s \in Current.services
    /\ Publish(WithoutService(Current, s), {})
    /\ asBuilt' = asBuilt \ {s}
    /\ UNCHANGED <<joins, offers, kicks, resets, election, check>>

-----------------------------------------------------------------------------
(***************************************************************************)
(* join: the handler of POST /join on the coordinator, which awaits        *)
(* addMissingEtcdMembers between its tests and the change they justify.    *)
(***************************************************************************)
JoinBegin(slot, h) ==
    /\ mem[h] = NoConfig
    /\ \A j \in joins : j.slot # slot
    /\ h \notin Hostnames(Current)
    /\ \E id \in FreeIds(Current) :
          /\ IsNextNodeId(Current, id)
          /\ joins' = joins \cup {[slot |-> slot, host |-> h, id |-> id]}
    /\ UNCHANGED <<mem, published, asBuilt, offers, kicks, resets, election,
                   pushes, check>>

\* Every etcd member was added: the node is, too, the others are told, and
\* the configuration is the answer to the joining host.
JoinCommit(j) ==
    /\ MayUpdate
    /\ joins' = joins \ {j}
    /\ LET c == WithNode(Current, j.id, j.host) IN
          /\ Publish(c, {j.id})
          /\ offers' = offers \cup {[host |-> j.host, config |-> c]}
    /\ UNCHANGED <<asBuilt, kicks, resets, election, check>>

\* An etcd member could not be added: the request is answered with an error.
JoinFail(j) ==
    /\ joins' = joins \ {j}
    /\ UNCHANGED <<mem, published, asBuilt, offers, kicks, resets, election,
                   pushes, check>>

\* The join command on the joining host, which tested hasClusterConfig only
\* before it sent its request, applies the configuration.
TakeOffer(o) ==
    /\ Valid(o.config)
    /\ mem' = [mem EXCEPT ![o.host] = o.config]
    /\ offers' = offers \ {o}
    /\ UNCHANGED <<published, asBuilt, joins, kicks, resets, election, pushes, check>>

-----------------------------------------------------------------------------
(***************************************************************************)
(* kick: the coordinator asks the node to reset itself, waits up to 5 s    *)
(* for the answer, and then removes whatever node has the id.              *)
(***************************************************************************)
KickBegin(slot, n) ==
    /\ \A k \in kicks : k.slot # slot
    /\ n.id # CoordinatorId
    /\ kicks' = kicks \cup {[slot |-> slot, id |-> n.id, host |-> n.host]}
    /\ \/ mem[n.host] # NoConfig /\ resets' = resets \cup {n.host}
       \/ UNCHANGED resets
    /\ UNCHANGED <<mem, published, asBuilt, joins, offers, election, pushes, check>>

KickCommit(k) ==
    /\ kicks' = kicks \ {k}
    /\ \/ /\ MayUpdate
          /\ k.id \in AssignedIds(Current)
          /\ Publish(WithoutNode(Current, k.id), {})
       \/ /\ k.id \notin AssignedIds(Current)
          /\ UNCHANGED <<mem, published, pushes>>
    /\ UNCHANGED <<asBuilt, joins, offers, resets, election, check>>

\* scripts/reset-node.sh: the daemon is stopped, its directory is deleted,
\* and it is started again.
ResetHost(h) ==
    /\ h \in resets
    /\ resets' = resets \ {h}
    /\ mem' = [mem EXCEPT ![h] = NoConfig]
    /\ offers' = {o \in offers : o.host # h}
    /\ check' = [check EXCEPT ![h] = NoCheck]
    /\ UNCHANGED <<published, asBuilt, joins, kicks, election, pushes>>

-----------------------------------------------------------------------------
(***************************************************************************)
(* The leader election, as far as it changes the configuration: it polls   *)
(* the nodes listed when it starts, then makes one of them the leader.     *)
(***************************************************************************)
ElectionStart ==
    /\ election.phase = "idle"
    /\ election' = [phase |-> "polling", ids |-> AssignedIds(Current)]
    /\ UNCHANGED <<mem, published, asBuilt, joins, offers, kicks, resets,
                   pushes, check>>

ElectLeader(id) ==
    /\ election.phase = "polling"
    /\ id \in election.ids
    /\ MayUpdate
    /\ id \in AssignedIds(Current)      \* setLeaderNode throws otherwise
    /\ id # Current.leader
    /\ Publish(WithLeader(Current, id), {})
    /\ election' = [phase |-> "syncing", ids |-> {}]
    /\ UNCHANGED <<asBuilt, joins, offers, kicks, resets, check>>

\* The candidate already is the leader, or is not a node any more.
KeepLeader(id) ==
    /\ election.phase = "polling"
    /\ id \in election.ids
    /\ id = Current.leader \/ id \notin AssignedIds(Current)
    /\ election' = NoElection
    /\ UNCHANGED <<mem, published, asBuilt, joins, offers, kicks, resets,
                   pushes, check>>

\* The election is over when every one of its pushes has succeeded or failed.
\* One that failed for the coordinator may still be on its way to the node.
ElectionSettle ==
    /\ election.phase = "syncing"
    /\ election' = NoElection
    /\ UNCHANGED <<mem, published, asBuilt, joins, offers, kicks, resets,
                   pushes, check>>

-----------------------------------------------------------------------------
(***************************************************************************)
(* Push and pull.                                                          *)
(***************************************************************************)
\* Mutant: the receiver keeps the leader it knows.
DeliverPushKeepingLeader(p, h) ==
    /\ Answers(h, p.to)
    /\ mem[h] # NoConfig
    /\ Valid(p.config)
    /\ mem' = [mem EXCEPT ![h] = [p.config EXCEPT !.leader = mem[h].leader]]
    /\ pushes' = pushes \ {p}
    /\ UNCHANGED <<published, asBuilt, joins, offers, kicks, resets, election, check>>

\* POST /set_config: refused without a configuration or with an invalid one.
\* The configuration's age is not looked at.
DeliverPush(p, h) ==
    /\ Answers(h, p.to)
    /\ mem[h] # NoConfig
    /\ Valid(p.config)
    /\ mem' = [mem EXCEPT ![h] = p.config]
    /\ pushes' = pushes \ {p}
    /\ UNCHANGED <<published, asBuilt, joins, offers, kicks, resets, election, check>>

\* Mutant: the hash is one of the list of nodes.
NodesHash(c, unparsed) == c.nodes

\* What getClusterConfigHash distinguishes.  A replica has parsed its
\* services, so none of them has the layout it was built with.
ConfigHash(c, unparsed) == [config |-> c, layout |-> c.services \cap unparsed]

AskCheck(h) ==
    /\ check[h].phase = "idle"
    /\ mem[h] # NoConfig
    /\ check' = [check EXCEPT ![h] =
                    [phase |-> "asked", asked |-> mem[h], answer |-> NoConfig]]
    /\ UNCHANGED <<mem, published, asBuilt, joins, offers, kicks, resets,
                   election, pushes>>

\* POST /config_check on the coordinator; NoConfig stands for up_to_date.
AnswerCheck(h) ==
    /\ check[h].phase = "asked"
    /\ h \in Hostnames(Current)
    /\ check' = [check EXCEPT ![h] =
                    [phase  |-> "answered",
                     asked  |-> check[h].asked,
                     answer |-> IF ConfigHash(check[h].asked, {}) = ConfigHash(Current, asBuilt)
                                   THEN NoConfig ELSE Current]]
    /\ UNCHANGED <<mem, published, asBuilt, joins, offers, kicks, resets,
                   election, pushes>>

\* The answer is applied whatever h has come to hold since it asked.
TakeAnswer(h) ==
    /\ check[h].phase = "answered"
    /\ check' = [check EXCEPT ![h] = NoCheck]
    /\ mem' = IF check[h].answer # NoConfig /\ Valid(check[h].answer)
                 THEN [mem EXCEPT ![h] = check[h].answer] ELSE mem
    /\ UNCHANGED <<published, asBuilt, joins, offers, kicks, resets, election,
                   pushes>>

\* The request or its answer is lost, or the daemon of h restarts.
LoseCheck(h) ==
    /\ check[h].phase # "idle"
    /\ check' = [check EXCEPT ![h] = NoCheck]
    /\ UNCHANGED <<mem, published, asBuilt, joins, offers, kicks, resets,
                   election, pushes>>

\* The daemon of the coordinator restarts: its handlers are gone, and the
\* services it loads from disk are parsed.  An invalid configuration is
\* thrown out of the module that loads it, and the daemon does not come up.
RestartCoordinator ==
    /\ Valid(Current)
    /\ asBuilt' = {}
    /\ joins' = {}
    /\ kicks' = {}
    /\ election' = NoElection
    /\ UNCHANGED <<mem, published, offers, resets, pushes, check>>

-----------------------------------------------------------------------------
Next ==
    \/ \E s \in Services : Deploy(s) \/ Remove(s)
    \/ \E slot \in JoinSlots, h \in Hosts : JoinBegin(slot, h)
    \/ \E j \in joins : JoinCommit(j) \/ JoinFail(j)
    \/ \E o \in offers : TakeOffer(o)
    \/ \E slot \in KickSlots, n \in Current.nodes : KickBegin(slot, n)
    \/ \E k \in kicks : KickCommit(k)
    \/ ElectionStart
    \/ \E id \in NodeIds : ElectLeader(id) \/ KeepLeader(id)
    \/ ElectionSettle
    \/ \E p \in pushes, h \in Hosts : DeliverPush(p, h)
    \/ \E h \in Hosts : ResetHost(h)
    \/ \E h \in Replicas : \/ AskCheck(h)
                           \/ AnswerCheck(h)
                           \/ TakeAnswer(h)
                           \/ LoseCheck(h)
    \/ RestartCoordinator

Spec == Init /\ [][Next]_vars

\* The timer of every host goes on asking, and a host that asks again and
\* again is some day answered and receives the answer.  Nothing is asked of
\* pushes, of joins, of kicks or of elections.
Fairness ==
    \A h \in Replicas :
        /\ WF_vars(AskCheck(h))
        /\ SF_vars(AnswerCheck(h))
        /\ SF_vars(TakeAnswer(h))

FairSpec == Spec /\ Fairness

-----------------------------------------------------------------------------
(***************************************************************************)
(* Properties                                                              *)
(***************************************************************************)
\* No two nodes of a configuration have the same id, hence the same
\* WireGuard address, and no host is listed twice.
NodesUnique(c) ==
    \A m, n \in c.nodes : m.id = n.id \/ m.host = n.host => m = n

\* The coordinator handles one join request at a time.
OneJoinAtATime == \A s, t \in JoinSlots : s = t

\* Every configuration the coordinator ever has can be loaded by every host
\* and by the coordinator itself after a restart, and names each address
\* once: whatever joins, kicks and elections are under way when it is made,
\* its leader is one of its nodes and its nodes are distinct.  It relates
\* the tests a handler makes before an await with what it does after it, and
\* needs OneJoinAtATime.
PublishedConfigsValid ==
    \A c \in published : Valid(c) /\ NodesUnique(c)

\* What the coordinator has decided is never undone: its configuration is not
\* deleted, and none that it has replaced comes back.  /set_config
\* (src/src/app/httpServer.ts:106) and /reset_node (193) are served on the
\* coordinator, too, and /set_config takes anything valid: that nothing sent
\* earlier gets there rests on whom syncConfigToCluster and kick address, and
\* on the list of nodes never naming the coordinator's host by another id.
CoordinatorNeverReverts ==
    [][Current' # Current => Current' \in ClusterInfo \ published]_vars

\* "Removes a node from the cluster", by "The ID of the node to remove"
\* (src/src/cli.ts:38-39), which kick looks up when it is given: it removes
\* the host it has looked up and told to reset itself, and no other.
KickRemovesItsTarget ==
    [][\A k \in kicks \ kicks' :
          Current' # Current => Hostnames(Current) \ Hostnames(Current') = {k.host}]_vars

\* The coordinator and its replicas implement the abstract publication of a
\* configuration: a replica has nothing, or all of one configuration the
\* coordinator had, whichever messages it took and in whichever order.
Abstract ==
    INSTANCE PublishedConfig WITH
        Configs <- ClusterInfo,
        Newer   <- LAMBDA c, d : c.updated_at < d.updated_at,
        First   <- InitialConfig,
        Nothing <- NoConfig,
        current <- Current,
        view    <- [h \in Replicas |-> mem[h]]

PublishesConfig == Abstract!Spec

\* When the coordinator stops changing its configuration, every configured
\* node it lists comes to hold it for good, although pushes may be lost and
\* late pushes and answers put older configurations back in place.
Converges ==
    <>[](\A h \in Replicas :
            h \in Hostnames(Current) /\ mem[h] # NoConfig => mem[h] = Current)

\* validateClusterConfig (src/src/cluster/config.ts:608-622) refuses a
\* configuration in which a hostname is listed twice, and a second /join of a
\* listed host is refused (src/src/cli/accept.ts:82): what the coordinator
\* holds passes that test.  It needs OneJoinAtATime.
CurrentConfigLoads == Valid(Current)

\* "Endpoint for coordinator where nodes check if their config is up to date
\* and retrieve the latest config if not" (src/src/app/httpServer.ts:77): a
\* node is sent a configuration only if it differs from the one it has.
UpToDateIsRecognised ==
    \A h \in Replicas :
        check[h].phase = "answered" => check[h].answer # check[h].asked
=============================================================================
