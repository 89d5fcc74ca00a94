--------------------------- MODULE ClusterConfig ---------------------------
(***************************************************************************)
(* The cluster configuration every node of a cluster holds a copy of: the  *)
(* value behind class Cluster of src/cluster/config.ts, and the operations *)
(* that build a new value from an old one.  The module has no state: the   *)
(* modules that replicate, persist or check configurations extend it.      *)
(*                                                                         *)
(* What is abstracted:                                                     *)
(*   - A host stands for its hostname, its public IP and its WireGuard     *)
(*     key, which joinNode tests one by one for duplicates.                *)
(*   - updated_at is a counter of the coordinator's updates, not a clock.  *)
(*   - A service is its name; the module ServicePorts has its ports.       *)
(*   - cluster_id, access_key, version and created_at never change after   *)
(*     `create' and are left out.  coordinator_node_id never changes       *)
(*     either: it is the id `create' gives the coordinator.                *)
(*   - The list of nodes is a set.  A list may hold the same node twice,   *)
(*     so an element carries in "joined" the update that appended it.      *)
(***************************************************************************)
EXTENDS Integers

CONSTANTS
    Hosts,        \* the machines
    Coordinator,  \* the machine on which `create' was run
    MaxNodeId,    \* the largest node id (255 in the code)
    Services,     \* the names of services
    NoConfig      \* what a host without a configuration holds

CoordinatorId == 1

NodeIds == 1 .. MaxNodeId

\* NodeInfoSchema, and the element's place in the list.
NodeInfo == [id : NodeIds, host : Hosts, joined : Nat]

\* The three parts of a configuration: cluster, nodes and services.
ClusterInfo ==
    [updated_at : Nat,
     leader     : NodeIds,
     nodes      : SUBSET NodeInfo,
     services   : SUBSET Services]

ASSUME CoordinatorAssumption == Coordinator \in Hosts

ASSUME MaxNodeIdAssumption == MaxNodeId \in Nat \ {0}

ASSUME NoConfigAssumption == NoConfig \notin ClusterInfo

-----------------------------------------------------------------------------
(***************************************************************************)
(* Reading a configuration.                                                *)
(***************************************************************************)
AssignedIds(c) == {n.id : n \in c.nodes}

Hostnames(c) == {n.host : n \in c.nodes}

FreeIds(c) == NodeIds \ AssignedIds(c)

\* The first id the loop of joinNode finds unassigned.
IsNextNodeId(c, id) ==
    /\ id \in FreeIds(c)
    /\ \A i \in FreeIds(c) : id <= i

\* validateClusterConfig, which every Cluster object passes when it is built.
\* It does not look for two nodes with the same id.
Valid(c) ==
    /\ CoordinatorId \in AssignedIds(c)
    /\ c.leader \in AssignedIds(c)
    /\ \A m, n \in c.nodes : m.host = n.host => m = n

-----------------------------------------------------------------------------
(***************************************************************************)
(* Building the next configuration.                                        *)
(***************************************************************************)
InitialConfig ==
    [updated_at |-> 0,
     leader     |-> CoordinatorId,
     nodes      |-> {[id |-> CoordinatorId, host |-> Coordinator, joined |-> 0]},
     services   |-> {}]

\* The update of updated_at every operation on the cluster ends with.
Touched(c) == c.updated_at + 1

WithNode(c, id, h) ==
    [c EXCEPT !.updated_at = Touched(c),
              !.nodes = @ \cup {[id |-> id, host |-> h, joined |-> Touched(c)]}]

\* Mutant: a kicked leader stays the leader.
WithoutNodeKeepingLeader(c, id) ==
    [c EXCEPT !.updated_at = Touched(c), !.nodes = {n \in @ : n.id # id}]

\* A kicked leader hands the leadership to the coordinator.
WithoutNode(c, id) ==
    [c EXCEPT !.updated_at = Touched(c),
              !.nodes  = {n \in @ : n.id # id},
              !.leader = IF @ = id THEN CoordinatorId ELSE @]

WithLeader(c, id) ==
    [c EXCEPT !.updated_at = Touched(c), !.leader = id]

WithService(c, s) ==
    [c EXCEPT !.updated_at = Touched(c), !.services = @ \cup {s}]

WithoutService(c, s) ==
    [c EXCEPT !.updated_at = Touched(c), !.services = @ \ {s}]
=============================================================================
