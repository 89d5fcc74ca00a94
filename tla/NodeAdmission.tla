--------------------------- MODULE NodeAdmission ---------------------------
(***************************************************************************)
(* How a host becomes a node and ceases to be one, across everything that  *)
(* has to change with it: etcd's members, the coordinator's configuration  *)
(* in memory and on disk, its WireGuard peers, the host's own              *)
(* configuration and the host's etcd.  The join and kick handlers          *)
(* (src/cli/accept.ts, src/cli/kick.ts, class Cluster) meet here with      *)
(* addMissingEtcdMembers (src/cluster/serviceDeployment.ts), which join    *)
(* requests, the coordinator's set-ups and a timer on every node call.     *)
(*                                                                         *)
(*   - ConfigReplication has how configurations travel.  Here a node       *)
(*     learns the coordinator's configuration at any time.                 *)
(*   - Of a set-up only the part that concerns etcd is here.               *)
(*   - The services of the cluster and its leader do not change.           *)
(***************************************************************************)
EXTENDS ConfigStore, EtcdMembers

CONSTANTS
    TimerHosts,  \* bound: the hosts whose timer is followed
    NoNode,      \* a call of addMissingEtcdMembers that is not a join's
    MaxUpdates,  \* bound: the coordinator changes its configuration this often
    MaxKicks,    \* bound: so many kick commands are given
    MaxFaults    \* bound: so often a node is kicked or something fails, is lost or dies

ASSUME TimerHostsAssumption == TimerHosts \subseteq Hosts

\* A timer's calls are told from those of joins and set-ups.
ASSUME HostNamesAssumption == {"join", "setup"} \cap Hosts = {}

ASSUME BoundsAssumption == {MaxUpdates, MaxKicks, MaxFaults} \subseteq Nat

VARIABLES
    conf,    \* conf[h]: the configuration of host h, for the coordinator unused
    calls,   \* the calls of addMissingEtcdMembers that run
    offers,  \* answers to join requests on their way
    kick,    \* the node whose kick waits for the answer of /reset_node
    resets,  \* hosts that have accepted /reset_node and not yet reset
    kicked,  \* history: hosts a kick has removed, until a join is answered
    kicks,   \* kick commands so far
    faults   \* faults so far

handlerVars == <<calls, offers, kick, resets>>

vars == <<storeVars, etcdVars, conf, handlerVars, kicked, kicks, faults>>

Replicas == Hosts \ {Coordinator}

\* Who calls addMissingEtcdMembers: the join request, a set-up, or the timer
\* of a host.
Callers == {"join", "setup"} \cup Hosts

\* A call for the nodes ids; node is the one a join request is about.
Calls ==
    [caller : Callers, at : Hosts, ids : SUBSET NodeIds, todo : SUBSET NodeIds,
     listed : BOOLEAN, node : [id : NodeIds, host : Hosts] \cup {NoNode}]

TypeOK ==
    /\ StoreTypeOK
    /\ EtcdTypeOK
    /\ conf \in [Hosts -> ClusterInfo \cup {NoConfig}]
    /\ calls \subseteq Calls
    /\ offers \subseteq [host : Replicas, config : ClusterInfo]
    /\ kick \in NodeInfo \cup {NoNode}
    /\ resets \subseteq Replicas
    /\ kicked \subseteq Replicas
    /\ kicks \in 0 .. MaxKicks
    /\ faults \in 0 .. MaxFaults

Init ==
    /\ StoreInit
    /\ EtcdInit
    /\ conf = [h \in Hosts |-> NoConfig]
    /\ calls = {}
    /\ offers = {}
    /\ kick = NoNode
    /\ resets = {}
    /\ kicked = {}
    /\ kicks = 0
    /\ faults = 0

Fault == kicks + faults < MaxFaults /\ faults' = faults + 1

Up == current # NoConfig

MayUpdate == Up /\ current.updated_at < MaxUpdates

\* What a host takes for the configuration, and for its own id.
ConfigOf(h) == IF h = Coordinator THEN current ELSE conf[h]

IsNode(c, h, id) == \E n \in c.nodes : n.host = h /\ n.id = id

\* A daemon's calls go with it, and so do the requests they are made for.
CoordinatorStops ==
    /\ calls' = {k \in calls : k.at # Coordinator}
    /\ kick' = NoNode

-----------------------------------------------------------------------------
(***************************************************************************)
(* addMissingEtcdMembers                                                   *)
(***************************************************************************)
Call(caller, h, ids, node) ==
    [caller |-> caller, at |-> h, ids |-> ids, todo |-> ids, listed |-> FALSE, node |-> node]

Called(caller, h) == \E k \in calls : k.caller = caller /\ k.at = h

\* The call has ended, well or not.  After its call a set-up writes etcd's
\* files, for the nodes the configuration has by then.
Return(k) ==
    /\ calls' = calls \ {k}
    /\ IF k.caller = "setup" THEN WriteEnv(Coordinator, AssignedIds(current))
                             ELSE UNCHANGED etcdVars
    /\ UNCHANGED <<storeVars, conf, offers, kick, resets, kicked, kicks>>

\* The list is read once; what is left to do are the nodes it does not name.
ListMembers(k) ==
    /\ ~ k.listed
    /\ Lists(k.at)
    /\ calls' = (calls \ {k}) \cup {[k EXCEPT !.listed = TRUE, !.todo = @ \ members]}
    /\ UNCHANGED <<storeVars, etcdVars, conf, offers, kick, resets, kicked, kicks, faults>>

\* The nodes are added one after the other, in the order of their ids and a
\* node that is to join last.
Joins(k, id) == k.node # NoNode /\ k.node.id = id

IsNextMember(k, m) ==
    /\ m \in k.todo
    /\ \A i \in k.todo \ {m} : Joins(k, i) \/ (m < i /\ ~ Joins(k, m))

AddMember(k) ==
    /\ k.listed
    /\ \E m \in k.todo :
          /\ IsNextMember(k, m)
          /\ Adds(k.at, m)
          /\ members' = members \cup {m}
          /\ calls' = (calls \ {k}) \cup {[k EXCEPT !.todo = @ \ {m}]}
    /\ UNCHANGED <<storeVars, data, env, running, peers, conf, offers, kick, resets,
                   kicked, kicks, faults>>

\* etcdctl fails, and with it the call.
CallFails(k) ==
    /\ Return(k)
    /\ \/ ~ k.listed /\ ~ Lists(k.at) /\ UNCHANGED faults
       \/ /\ k.listed
          /\ \E m \in k.todo : IsNextMember(k, m) /\ ~ Adds(k.at, m)
          /\ UNCHANGED faults
       \/ Fault

CallEnds(k) ==
    /\ k.caller # "join"
    /\ k.listed
    /\ k.todo = {}
    /\ Return(k)
    /\ UNCHANGED faults

\* Every minute, on every node: "Add missing etcd members if we failed at
\* some point."
Timer(h) ==
    /\ ConfigOf(h) # NoConfig
    /\ ~ Called(h, h)
    /\ calls' = calls \cup {Call(h, h, AssignedIds(ConfigOf(h)), NoNode)}
    /\ UNCHANGED <<storeVars, etcdVars, conf, offers, kick, resets, kicked, kicks, faults>>

-----------------------------------------------------------------------------
(***************************************************************************)
(* join                                                                    *)
(***************************************************************************)
\* Mutant: only the nodes that are listed already are asked for.
IdsToJoinWithoutNew(id) == AssignedIds(current)

IdsToJoin(id) == AssignedIds(current) \cup {id}

\* POST /join, to its await.  One request is handled at a time.
JoinBegin(h) ==
    /\ Up
    /\ conf[h] = NoConfig
    /\ ~ Called("join", Coordinator)
    /\ h \notin Hostnames(current)
    /\ \E id \in FreeIds(current) :
          /\ IsNextNodeId(current, id)
          /\ calls' = calls \cup {Call("join", Coordinator, IdsToJoin(id), [id |-> id, host |-> h])}
    /\ UNCHANGED <<storeVars, etcdVars, conf, offers, kick, resets, kicked, kicks, faults>>

\* Mutant: the WireGuard peers are left as they were.
SavedWithoutPeers(c) == Save(c) /\ UNCHANGED <<peers, faults>>

\* The configuration is saved, and then the coordinator's WireGuard peers are
\* brought in line with it.
Saved(c) == Save(c) /\ peers' = Hostnames(c) /\ UNCHANGED faults

\* Mutant: the node is told before the configuration is saved.
OfferedEarly(c, h) ==
    /\ current' = c
    /\ offers' = offers \cup {[host |-> h, config |-> c]}
    /\ peers' = Hostnames(c)
    /\ UNCHANGED <<disk, faults>>

Offered(c, h) == Saved(c) /\ offers' = offers \cup {[host |-> h, config |-> c]}

\* The members are added: the node is, too, the configuration is saved, and
\* it is the answer to the host, unless the save throws or the daemon dies.
JoinCommit(k) ==
    LET c == WithNode(current, k.node.id, k.node.host) IN
    /\ MayUpdate
    /\ k.caller = "join"
    /\ k.listed
    /\ k.todo = {}
    /\ \/ /\ Offered(c, k.node.host)
          /\ calls' = calls \ {k}
          /\ kicked' = kicked \ {k.node.host}
          /\ UNCHANGED kick
       \/ /\ Fault
          /\ SaveThrows(c)
          /\ calls' = calls \ {k}
          /\ UNCHANGED <<peers, offers, kick, kicked>>
       \/ /\ Fault
          /\ SaveDies(c)
          /\ CoordinatorStops
          /\ UNCHANGED <<peers, offers, kicked>>
    /\ UNCHANGED <<members, data, env, running, conf, resets, kicks>>

TakeOffer(o) ==
    /\ conf' = [conf EXCEPT ![o.host] = o.config]
    /\ offers' = offers \ {o}
    /\ UNCHANGED <<storeVars, etcdVars, calls, kick, resets, kicked, kicks, faults>>

LoseOffer(o) ==
    /\ Fault
    /\ offers' = offers \ {o}
    /\ UNCHANGED <<storeVars, etcdVars, conf, calls, kick, resets, kicked, kicks>>

-----------------------------------------------------------------------------
(***************************************************************************)
(* kick                                                                    *)
(***************************************************************************)
\* Mutant: the coordinator may be kicked, too.
Kickable(n) == n \in current.nodes

MayBeKicked(n) == n \in current.nodes /\ n.id # CoordinatorId

\* The node is asked to reset; without a configuration it refuses, and the
\* request may be lost.
KickBegin(n) ==
    /\ Up
    /\ kicks < MaxKicks
    /\ kicks + faults < MaxFaults
    /\ kicks' = kicks + 1
    /\ kick = NoNode
    /\ MayBeKicked(n)
    /\ kick' = n
    /\ \/ conf[n.host] # NoConfig /\ resets' = resets \cup {n.host} /\ UNCHANGED faults
       \/ conf[n.host] = NoConfig /\ UNCHANGED <<resets, faults>>
       \/ Fault /\ UNCHANGED resets
    /\ UNCHANGED <<storeVars, etcdVars, conf, calls, offers, kicked>>

\* kickNode.  The node's member stays in etcd's list.
KickCommit ==
    /\ kick # NoNode
    /\ MayUpdate
    /\ LET c == WithoutNode(current, kick.id) IN
          \/ Saved(c) /\ kick' = NoNode /\ UNCHANGED calls
          \/ Fault /\ SaveThrows(c) /\ kick' = NoNode /\ UNCHANGED <<calls, peers>>
          \/ Fault /\ SaveDies(c) /\ CoordinatorStops /\ UNCHANGED peers
    /\ kicked' = kicked \cup {kick.host}
    /\ UNCHANGED <<members, data, env, running, conf, offers, resets, kicks>>

ResetHost(h) ==
    /\ h \in resets
    /\ resets' = resets \ {h}
    /\ conf' = [conf EXCEPT ![h] = NoConfig]
    /\ calls' = {k \in calls : k.at # h}
    /\ offers' = {o \in offers : o.host # h}
    /\ Wipe(h)
    /\ UNCHANGED <<storeVars, kick, kicked, kicks, faults>>

-----------------------------------------------------------------------------
(***************************************************************************)
(* Daemons and etcd                                                        *)
(***************************************************************************)
\* A push, or the answer to a config check, reaches node h.
Learn(h) ==
    /\ Up
    /\ conf[h] \notin {NoConfig, current}
    /\ h \in Hostnames(current) \cap peers
    /\ conf' = [conf EXCEPT ![h] = current]
    /\ UNCHANGED <<storeVars, etcdVars, handlerVars, kicked, kicks, faults>>

\* The coordinator's set-up of etcd, which any change of its configuration
\* calls for: with other nodes it looks for missing members.
SetupCoordinator ==
    /\ Up
    /\ ~ Called("setup", Coordinator)
    /\ IF Cardinality(current.nodes) > 1
          THEN /\ calls' = calls \cup
                              {Call("setup", Coordinator, AssignedIds(current), NoNode)}
               /\ UNCHANGED etcdVars
          ELSE WriteEnv(Coordinator, AssignedIds(current)) /\ UNCHANGED calls
    /\ UNCHANGED <<storeVars, conf, offers, kick, resets, kicked, kicks, faults>>

SetupReplica(h) ==
    /\ conf[h] # NoConfig
    /\ env[h] # AssignedIds(conf[h])
    /\ WriteEnv(h, AssignedIds(conf[h]))
    /\ UNCHANGED <<storeVars, conf, handlerVars, kicked, kicks, faults>>

\* etcd's container starts, or starts again.
EtcdStarts(h) ==
    /\ \E m \in NodeIds :
          /\ m = data[h] \/ (ConfigOf(h) # NoConfig /\ IsNode(ConfigOf(h), h, m))
          /\ Starts(h, m)
    /\ UNCHANGED <<storeVars, conf, handlerVars, kicked, kicks, faults>>

EtcdStops(h) ==
    /\ Fault
    /\ running' = running \ {h}
    /\ UNCHANGED <<storeVars, members, data, env, peers, conf, handlerVars, kicked, kicks>>

CoordinatorDies ==
    /\ Fault
    /\ Dies
    /\ CoordinatorStops
    /\ UNCHANGED <<etcdVars, conf, offers, resets, kicked, kicks>>

CoordinatorLoads ==
    /\ Load
    /\ peers' = Hostnames(current')
    /\ UNCHANGED <<members, data, env, running, conf, handlerVars, kicked, kicks, faults>>

-----------------------------------------------------------------------------
CallStep(k) ==
    /\ k \in calls
    /\ \/ ListMembers(k)
       \/ AddMember(k)
       \/ CallFails(k)
       \/ CallEnds(k)
       \/ JoinCommit(k)

Next ==
    \/ \E k \in calls : CallStep(k)
    \/ \E h \in TimerHosts : Timer(h)
    \/ \E h \in Hosts : EtcdStarts(h) \/ EtcdStops(h)
    \/ \E h \in Replicas : JoinBegin(h) \/ ResetHost(h) \/ Learn(h) \/ SetupReplica(h)
    \/ \E o \in offers : TakeOffer(o) \/ LoseOffer(o)
    \/ Up /\ \E n \in current.nodes : KickBegin(n)
    \/ KickCommit
    \/ SetupCoordinator
    \/ CoordinatorDies
    \/ CoordinatorLoads

Spec == Init /\ [][Next]_vars

\* Hosts that are not nodes go on trying to join, calls of etcdctl end,
\* answers arrive, set-ups run and etcd is started again.
Fairness ==
    /\ \A c \in Callers : WF_vars(\E k \in calls : k.caller = c /\ CallStep(k))
    /\ \A h \in Hosts : WF_vars(EtcdStarts(h))
    /\ \A h \in Replicas :
          WF_vars(JoinBegin(h)) /\ WF_vars(Learn(h)) /\ WF_vars(SetupReplica(h))
                                /\ WF_vars(ResetHost(h))
    /\ WF_vars(\E o \in offers : TakeOffer(o))
    /\ WF_vars(KickCommit)
    /\ WF_vars(SetupCoordinator)
    /\ WF_vars(CoordinatorLoads)

FairSpec == Spec /\ Fairness

-----------------------------------------------------------------------------
(***************************************************************************)
(* Properties                                                              *)
(***************************************************************************)
\* Every node of the coordinator's configuration, in memory and on disk, is a
\* member of etcd: a member is added before its node, and no crash, failed
\* save or second caller of addMissingEtcdMembers comes between them.  Hence
\* the timers that add missing members never find one.
MembersCoverConfig ==
    /\ Up => AssignedIds(current) \subseteq members
    /\ disk[2] # Unreadable => {n.id : n \in disk[2]} \subseteq members

\* A host that was told that it is a node is one until it is kicked, whatever
\* the coordinator's daemon went through since: the answer to a join is given
\* after its node is on disk.
AnsweredJoinsLast ==
    Up => \A h \in Replicas :
             conf[h] # NoConfig => h \in Hostnames(current) \cup kicked

\* A member that etcd was given for a join that then failed, at whichever of
\* its steps, is the one the next join asks for: it is never a member for
\* which no id is left, and there is never a second one.  (A kick leaves the
\* member of its node behind, whatever the node's id.)
LeftMembersReused ==
    kicks = 0 /\ Up =>
        \A m \in members \ AssignedIds(current), id \in FreeIds(current) : m <= id

EtcdRunsEverywhere ==
    /\ Up
    /\ \A h \in Hosts : h \in Hostnames(current) \cap running
    /\ HasQuorum

\* Unless a node is kicked or something fails, every host that wants to be a
\* node becomes one and its etcd joins the others', although each new node
\* has etcd recreated everywhere, and a member that has not started yet keeps
\* etcd from answering and from taking in the next.
HostsJoin == [](kicks = 0 /\ faults = 0) => <>[]EtcdRunsEverywhere

\* "A node with the same hostname or IP already exists in the cluster. Remove
\* existing node from configuration before trying again."
\* (src/src/cli/accept.ts:82): a host that was removed and has reset does not
\* stay outside while it tries again.
RemovedHostsRejoin ==
    [](faults = 0) =>
        \A h \in Replicas : []<>(conf[h] # NoConfig \/ (Up /\ h \in Hostnames(current)))
=============================================================================
