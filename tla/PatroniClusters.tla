-------------------------- MODULE PatroniClusters --------------------------
(***************************************************************************)
(* The nodes and the Patroni clusters that run on them, one for each       *)
(* database service with a member on every node.  All of it is external:   *)
(* what the program can ask of Patroni (src/adapters/patroni.ts), and what *)
(* Patroni does by itself.                                                 *)
(*                                                                         *)
(* A switchover takes effect at once.  The member with the newest data     *)
(* stays the primary while its node is down and no replica takes over.     *)
(***************************************************************************)
EXTENDS Naturals, FiniteSets

CONSTANTS
    Nodes,      \* the ids of the nodes, in the order of the configuration
    Services    \* the Patroni services, numbered in the order of their ids

ASSUME NodesAssumption == Nodes \subseteq Nat /\ Services \subseteq Nat

VARIABLES
    up,         \* up[n]: node n runs
    primary,    \* primary[s]: the node with the leader of service s
    streaming   \* streaming[s]: nodes with a replica that lags little enough

PatroniTypeOK ==
    /\ up \in [Nodes -> BOOLEAN]
    /\ primary \in [Services -> Nodes]
    /\ streaming \in [Services -> SUBSET Nodes]

PatroniInit ==
    /\ up = [n \in Nodes |-> TRUE]
    /\ primary \in [Services -> Nodes]
    /\ streaming = [s \in Services |-> Nodes \ {primary[s]}]

-----------------------------------------------------------------------------
\* The services whose leader node n is.
Lead(n) == {s \in Services : primary[s] = n}

\* getPatroniLeaderNode finds a node that answers as the leader.
LeaderFound(s) == up[primary[s]]

\* getPatroniHealth, which throws if no leader is found.
Healthy(s) == LeaderFound(s) /\ streaming[s] # {}

\* A switchover that Patroni accepts: the old leader has yet to stream.
Switchover(s, n) ==
    /\ LeaderFound(s)
    /\ n \in streaming[s]
    /\ primary' = [primary EXCEPT ![s] = n]
    /\ streaming' = [streaming EXCEPT ![s] = @ \ {n}]
    /\ UNCHANGED up

\* A replica takes over from a leader whose node is down.
Failover(s, n) ==
    /\ ~ LeaderFound(s)
    /\ n \in streaming[s]
    /\ primary' = [primary EXCEPT ![s] = n]
    /\ streaming' = [streaming EXCEPT ![s] = @ \ {n}]
    /\ UNCHANGED up

CatchUp(s, n) ==
    /\ LeaderFound(s)
    /\ up[n]
    /\ n \notin streaming[s] \cup {primary[s]}
    /\ streaming' = [streaming EXCEPT ![s] = @ \cup {n}]
    /\ UNCHANGED <<up, primary>>

GoDown(n) ==
    /\ up[n]
    /\ up' = [up EXCEPT ![n] = FALSE]
    /\ streaming' = [s \in Services |-> streaming[s] \ {n}]
    /\ UNCHANGED primary

ComeUp(n) ==
    /\ ~ up[n]
    /\ up' = [up EXCEPT ![n] = TRUE]
    /\ UNCHANGED <<primary, streaming>>
=============================================================================
