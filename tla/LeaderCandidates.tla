-------------------------- MODULE LeaderCandidates --------------------------
(***************************************************************************)
(* findOptimalLeader of src/cluster/leaderElection.ts: which of the nodes  *)
(* that answered an election's poll becomes the leader.                    *)
(*                                                                         *)
(*   - A load is a natural number; loads are only compared.                *)
(*   - The statuses are a function from the nodes that answered, not a     *)
(*     list: the result of the sort does not depend on their order.        *)
(***************************************************************************)
EXTENDS Integers, FiniteSets

CONSTANT MaxNode  \* bound: the largest node id

ASSUME MaxNodeAssumption == MaxNode \in Nat \ {0}

CoordinatorId == 1

Nodes == 1 .. MaxNode

NodeStatus == [loadValue : Nat, offlineNodeIds : SUBSET Nodes]

\* How many nodes that answered hold node id for offline.
OfflineVotes(statuses, id) ==
    Cardinality({n \in DOMAIN statuses : id \in statuses[n].offlineNodeIds})

\* The order of the sort: the load, then the votes, then the present leader
\* before all others, then the id.
Precedes(statuses, leader, left, right) ==
    LET SameLoad == statuses[left].loadValue = statuses[right].loadValue
        SameVotes == OfflineVotes(statuses, left) = OfflineVotes(statuses, right)
    IN  \/ statuses[left].loadValue < statuses[right].loadValue
        \/ SameLoad /\ OfflineVotes(statuses, left) < OfflineVotes(statuses, right)
        \/ SameLoad /\ SameVotes /\ left = leader
        \/ SameLoad /\ SameVotes /\ leader \notin {left, right} /\ left < right

IsOptimal(statuses, leader, id) ==
    /\ id \in DOMAIN statuses
    /\ \A other \in DOMAIN statuses \ {id} : Precedes(statuses, leader, id, other)

FindOptimalLeader(statuses, leader) ==
    CHOOSE id \in DOMAIN statuses : IsOptimal(statuses, leader, id)
=============================================================================
