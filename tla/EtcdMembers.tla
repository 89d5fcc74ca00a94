---------------------------- MODULE EtcdMembers ----------------------------
(***************************************************************************)
(* etcd on the nodes of the cluster: its list of members, the processes    *)
(* that run, and the data directories they run on.  etcd itself is         *)
(* external: what it accepts and refuses is what src/cli/accept.ts and     *)
(* src/cluster/serviceDeployment.ts are written against.                   *)
(*                                                                         *)
(* A member is the id of its node, which determines its name node-<id> and *)
(* its peer URL.                                                           *)
(***************************************************************************)
EXTENDS ClusterConfig, FiniteSets

VARIABLES
    members,  \* the members etcd lists
    data,     \* data[h]: the member whose data h's etcd-data holds, or NoMember
    env,      \* env[h]: the ids in ETCD_INITIAL_CLUSTER of h's etcd/.env
    running,  \* the hosts whose etcd runs
    peers     \* the hosts in the coordinator's WireGuard network

etcdVars == <<members, data, env, running, peers>>

NoMember == 0

EtcdTypeOK ==
    /\ members \subseteq NodeIds
    /\ data \in [Hosts -> NodeIds \cup {NoMember}]
    /\ env \in [Hosts -> SUBSET NodeIds]
    /\ running \subseteq Hosts
    /\ peers \subseteq Hosts

\* After `create' and its set-up: etcd runs with the coordinator alone.
EtcdInit ==
    /\ members = {CoordinatorId}
    /\ data = [h \in Hosts |-> IF h = Coordinator THEN CoordinatorId ELSE NoMember]
    /\ env = [h \in Hosts |-> IF h = Coordinator THEN {CoordinatorId} ELSE {}]
    /\ running = {Coordinator}
    /\ peers = {Coordinator}

-----------------------------------------------------------------------------
Alive == {m \in members : \E h \in running \cap peers : data[h] = m}

HasQuorum == 2 * Cardinality(Alive) > Cardinality(members)

\* `etcdctl member list' on h is answered by a quorum.
Lists(h) == h \in running \cap peers /\ HasQuorum

\* A member is added only while every member is connected ("unhealthy
\* cluster", "not enough started members" otherwise), and only once.
Adds(h, m) ==
    /\ h \in running \cap peers
    /\ Alive = members
    /\ m \notin members

\* setupEtcd on h for the ids of its nodes: a changed .env recreates the
\* container.
WriteEnv(h, ids) ==
    /\ env' = [env EXCEPT ![h] = ids]
    /\ running' = IF env[h] = ids THEN running ELSE running \ {h}
    /\ UNCHANGED <<members, data, peers>>

\* etcd starts on h, which is node m: on the data it has, or on none if the
\* members are exactly the initial cluster it was given and one of them
\* answers.  A member that starts anew on an empty directory is taken in.
Starts(h, m) ==
    /\ h \notin running
    /\ env[h] # {}
    /\ \/ data[h] # NoMember /\ UNCHANGED data
       \/ /\ data[h] = NoMember
          /\ env[h] = members
          /\ Alive # {}
          /\ data' = [data EXCEPT ![h] = m]
    /\ running' = running \cup {h}
    /\ UNCHANGED <<members, env, peers>>

\* scripts/reset-node.sh: the containers are stopped and /etc/linux-paas,
\* which holds etcd's data, is deleted.
Wipe(h) ==
    /\ data' = [data EXCEPT ![h] = NoMember]
    /\ env' = [env EXCEPT ![h] = {}]
    /\ running' = running \ {h}
    /\ UNCHANGED <<members, peers>>
=============================================================================
