---------------------------- MODULE PingMonitor ----------------------------
(***************************************************************************)
(* How a node watches the leader: ClusterNode.ping and Cluster.pingNodes   *)
(* of src/cluster/config.ts.  A round of pings starts every second, and    *)
(* may last until its pings time out: rounds overlap, and all of them      *)
(* count on the same node object.                                          *)
(*                                                                         *)
(* A round pings all nodes.  Only its ping to the present leader is here;  *)
(* the others delay its end, which is a step of its own.                   *)
(***************************************************************************)
EXTENDS LeaderCandidates

CONSTANTS
    MaxRounds,  \* bound: so many rounds of a node run at once (5 in the code)
    Followed,   \* bound: <<n, s>> if a round in slot s of node n is followed
    NoRound     \* in a slot without a round

VARIABLES
    failed,  \* failed[n]: failedPings of n's object of its leader
    rounds   \* rounds[n][s]: the round in slot s of node n

monitorVars == <<failed, rounds>>

Slots == 1 .. MaxRounds

\* The node object of a leader is replaced with the configuration it is in.
Gone == 0

\* The leader a round looked up when it started, whether its ping to the
\* present leader has ended, and how many ticks the round has seen.
Round == [leader : Nodes \cup {Gone}, ended : BOOLEAN, age : 0 .. 1]

ASSUME MaxRoundsAssumption == MaxRounds \in Nat

ASSUME FollowedAssumption == Followed \subseteq Nodes \X Slots

ASSUME NoRoundAssumption == NoRound \notin Round

MaxRetries == 3

MonitorTypeOK ==
    /\ failed \in [Nodes -> 0 .. MaxRetries]
    /\ rounds \in [Nodes -> [Slots -> Round \cup {NoRound}]]

NoRounds == [s \in Slots |-> NoRound]

MonitorInit ==
    /\ failed = [n \in Nodes |-> 0]
    /\ rounds = [n \in Nodes |-> NoRounds]

-----------------------------------------------------------------------------
RoundStarts(n, s, leader) ==
    /\ <<n, s>> \in Followed
    /\ rounds[n][s] = NoRound
    /\ rounds' = [rounds EXCEPT ![n][s] = [leader |-> leader, ended |-> FALSE, age |-> 0]]
    /\ UNCHANGED failed

\* One more failure.  The counter's multiples of MaxRetries are all the same
\* to the code, and are MaxRetries here; 0 is an answer, or no ping yet.
OneMore(k) == (k % MaxRetries) + 1

\* The ping of a round to the present leader ends, whichever leader the round
\* looked up.  It counts, unless it was sent for a former object of the node;
\* and no node pings itself.
PingEnds(n, s, leader, answered) ==
    /\ rounds[n][s] # NoRound
    /\ ~ rounds[n][s].ended
    /\ rounds' = [rounds EXCEPT ![n][s].ended = TRUE]
    /\ failed' = IF rounds[n][s].leader = Gone \/ leader = n
                    THEN failed
                    ELSE [failed EXCEPT ![n] = IF answered THEN 0 ELSE OneMore(@)]

RoundEnds(n, s) ==
    /\ rounds[n][s] # NoRound
    /\ rounds[n][s].ended
    /\ rounds' = [rounds EXCEPT ![n][s] = NoRound]
    /\ UNCHANGED failed

\* What a round that ends may find.  What the object of a leader that was
\* replaced has counted is left open.  The leader does not watch itself.
MayFindLeaderDown(n, s, leader) ==
    /\ rounds[n][s].leader # n
    /\ rounds[n][s].leader # leader \/ failed[n] = MaxRetries

MayPass(n, s, leader) ==
    leader = n \/ rounds[n][s].leader # leader \/ failed[n] # MaxRetries

\* Another of n's node objects is the leader's.  What was counted against it
\* is left open, and so is which rounds still wait for its answer.
LeaderReplaced(n, leader) ==
    IF leader = n
       THEN failed' = [failed EXCEPT ![n] = 0] /\ UNCHANGED rounds
       ELSE \E k \in 0 .. MaxRetries, ended \in [Slots -> BOOLEAN] :
               /\ failed' = [failed EXCEPT ![n] = k]
               /\ rounds' = [rounds EXCEPT ![n] =
                                [s \in Slots |-> IF @[s] = NoRound
                                                    THEN NoRound
                                                    ELSE [@[s] EXCEPT !.ended = ended[s]]]]

\* Node n has new node objects, which no ping has reached yet.
NewNodeObjects(n) ==
    /\ failed' = [failed EXCEPT ![n] = 0]
    /\ rounds' = [rounds EXCEPT ![n] =
                     [s \in Slots |-> IF @[s] = NoRound THEN NoRound
                                                        ELSE [@[s] EXCEPT !.leader = Gone]]]

\* Node n's daemon ends, and its rounds with it.
MonitorStops(n) ==
    /\ failed' = [failed EXCEPT ![n] = 0]
    /\ rounds' = [rounds EXCEPT ![n] = NoRounds]

\* A ping times out within one tick, so that a round sees at most one.
RoundsMayAge == \A n \in Nodes, s \in Slots : rounds[n][s] # NoRound => rounds[n][s].age = 0

RoundsAge ==
    /\ rounds' = [n \in Nodes |->
                     [s \in Slots |-> IF rounds[n][s] = NoRound
                                         THEN NoRound
                                         ELSE [rounds[n][s] EXCEPT !.age = @ + 1]]]
    /\ UNCHANGED failed
=============================================================================
