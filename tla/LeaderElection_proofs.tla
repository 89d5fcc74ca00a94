------------------------ MODULE LeaderElection_proofs ------------------------
(***************************************************************************)
(* Proofs about LeaderElection and what it extends: there is always        *)
(* exactly one best candidate, every variable keeps its type, and the      *)
(* coordinator's watch never holds a replaced leader against its           *)
(* successor - for any number of nodes, rounds and stops, any loads and    *)
(* any interval.                                                           *)
(***************************************************************************)
EXTENDS LeaderElection, TLAPS, WellFoundedInduction, FiniteSetTheorems

-----------------------------------------------------------------------------
(***************************************************************************)
(* The best candidate                                                      *)
(***************************************************************************)
\* A set of natural numbers has a least element.
LEMMA LeastNatural ==
    ASSUME NEW T, T \subseteq Nat, T # {}
    PROVE  \E x \in T : \A y \in T : x <= y
<1>1. PICK x \in T : \A y \in T : ~ (<<y, x>> \in OpToRel(<, Nat))
  BY NatLessThanWellFounded, WFMin
<1>2. \A y \in T : ~ (y < x)
  BY <1>1 DEF OpToRel
<1>3. QED
  BY <1>2

\* Statuses of at least one node, and of no others than nodes.
IsPoll(statuses) ==
    /\ DOMAIN statuses # {}
    /\ DOMAIN statuses \subseteq Nodes
    /\ statuses \in [DOMAIN statuses -> NodeStatus]

LEMMA PollNumbers ==
    ASSUME NEW statuses, IsPoll(statuses), NEW id \in DOMAIN statuses
    PROVE  /\ id \in Nat
           /\ statuses[id].loadValue \in Nat
           /\ OfflineVotes(statuses, id) \in Nat
<1>1. id \in Nat /\ statuses[id].loadValue \in Nat
  BY MaxNodeAssumption DEF IsPoll, NodeStatus, Nodes
<1>2. IsFiniteSet(Nodes)
  BY FS_Interval, MaxNodeAssumption DEF Nodes
<1>3. IsFiniteSet({n \in DOMAIN statuses : id \in statuses[n].offlineNodeIds})
  BY <1>2, FS_Subset DEF IsPoll
<1>4. QED
  BY <1>1, <1>3, FS_CardinalityType DEF OfflineVotes

\* Of those with the least load, those with the fewest votes, and of these
\* the leader or else the one with the least id.
LEMMA OptimalExists ==
    ASSUME NEW statuses, IsPoll(statuses), NEW leader
    PROVE  \E id \in DOMAIN statuses : IsOptimal(statuses, leader, id)
<1> DEFINE load(n) == statuses[n].loadValue
           votes(n) == OfflineVotes(statuses, n)
           D == DOMAIN statuses
           A == {n \in D : \A m \in D : load(n) <= load(m)}
           B == {n \in A : \A m \in A : votes(n) <= votes(m)}
<1>1. \A n \in D : n \in Nat /\ load(n) \in Nat /\ votes(n) \in Nat
  BY PollNumbers
<1>2. A # {}
  <2>1. {load(n) : n \in D} # {} /\ {load(n) : n \in D} \subseteq Nat
    BY <1>1 DEF IsPoll
  <2>2. PICK x \in {load(n) : n \in D} : \A y \in {load(n) : n \in D} : x <= y
    BY <2>1, LeastNatural
  <2>3. PICK n \in D : x = load(n)
    BY <2>2
  <2>4. QED
    BY <2>2, <2>3
<1>3. B # {}
  <2>1. {votes(n) : n \in A} # {} /\ {votes(n) : n \in A} \subseteq Nat
    BY <1>1, <1>2
  <2>2. PICK x \in {votes(n) : n \in A} : \A y \in {votes(n) : n \in A} : x <= y
    BY <2>1, LeastNatural
  <2>3. PICK n \in A : x = votes(n)
    BY <2>2
  <2>4. QED
    BY <2>2, <2>3
<1>4. PICK id \in B : (leader \in B /\ id = leader) \/ (leader \notin B /\ \A m \in B : id <= m)
  <2>1. CASE leader \in B
    BY <2>1
  <2>2. CASE leader \notin B
    <3>1. B \subseteq Nat
      BY <1>1
    <3>2. QED
      BY <1>3, <2>2, <3>1, LeastNatural
  <2>3. QED
    BY <2>1, <2>2
<1>5. ASSUME NEW m \in D \ {id}
      PROVE  Precedes(statuses, leader, id, m)
  <2>1. load(id) < load(m) \/ (load(id) = load(m) /\ m \in A)
    BY <1>1
  <2>2. ASSUME m \in A
        PROVE  votes(id) < votes(m) \/ (votes(id) = votes(m) /\ m \in B)
    BY <1>1, <2>2
  <2>3. ASSUME m \in B
        PROVE  id = leader \/ (leader \notin {id, m} /\ id < m)
    BY <1>1, <1>4, <2>3
  <2>4. QED
    BY <2>1, <2>2, <2>3 DEF Precedes
<1>6. QED
  BY <1>4, <1>5 DEF IsOptimal

\* The order of the sort is antisymmetric, so the result of an election does
\* not depend on the order in which the nodes answered: exactly one of those
\* that answered is before all others.
THEOREM OneOptimalLeader ==
    ASSUME NEW statuses, IsPoll(statuses), NEW leader
    PROVE  /\ IsOptimal(statuses, leader, FindOptimalLeader(statuses, leader))
           /\ \A id : IsOptimal(statuses, leader, id) => id = FindOptimalLeader(statuses, leader)
<1> DEFINE best == FindOptimalLeader(statuses, leader)
<1>1. IsOptimal(statuses, leader, best)
  BY OptimalExists DEF FindOptimalLeader
<1>2. ASSUME NEW id, IsOptimal(statuses, leader, id), id # best
      PROVE  FALSE
  <2>1. /\ id \in DOMAIN statuses
        /\ best \in DOMAIN statuses
        /\ Precedes(statuses, leader, id, best)
        /\ Precedes(statuses, leader, best, id)
    BY <1>1, <1>2 DEF IsOptimal
  <2>2. /\ id \in Nat /\ best \in Nat
        /\ statuses[id].loadValue \in Nat /\ statuses[best].loadValue \in Nat
        /\ OfflineVotes(statuses, id) \in Nat /\ OfflineVotes(statuses, best) \in Nat
    BY <2>1, PollNumbers
  <2> HIDE DEF best
  <2>3. QED
    BY <1>2, <2>1, <2>2 DEF Precedes
<1>3. QED
  BY <1>1, <1>2

\* A leader that answers is replaced only by a node with a smaller load, or
\* with the same load and fewer votes: elections among equals change nothing.
THEOREM LeaderReplacedByBetter ==
    ASSUME NEW statuses, IsPoll(statuses), NEW leader \in DOMAIN statuses,
           FindOptimalLeader(statuses, leader) # leader
    PROVE  LET best == FindOptimalLeader(statuses, leader)
           IN  \/ statuses[best].loadValue < statuses[leader].loadValue
               \/ /\ statuses[best].loadValue = statuses[leader].loadValue
                  /\ OfflineVotes(statuses, best) < OfflineVotes(statuses, leader)
<1>1. Precedes(statuses, leader, FindOptimalLeader(statuses, leader), leader)
  BY OneOptimalLeader DEF IsOptimal
<1>2. QED
  BY <1>1 DEF Precedes

-----------------------------------------------------------------------------
(***************************************************************************)
(* Types                                                                   *)
(***************************************************************************)
LEMMA NodesType ==
    /\ CoordinatorId \in Nodes
    /\ Nodes \subseteq Nat
    /\ Gone \notin Nodes
    /\ Replicas \subseteq Nodes
    /\ LongAgo \in Nat /\ LongAgo > 4
    /\ 0 \in 0 .. LongAgo /\ LongAgo \in 0 .. LongAgo
BY MaxNodeAssumption, IntervalAssumption
   DEF CoordinatorId, Nodes, Gone, Replicas, LongAgo, HardCooldown

\* The parts of the monitor keep their types whatever happens to them.
LEMMA RoundStartsType ==
    ASSUME MonitorTypeOK, NEW n \in Nodes, NEW s \in Slots, NEW leader \in Nodes,
           RoundStarts(n, s, leader)
    PROVE  MonitorTypeOK'
<1>1. [leader |-> leader, ended |-> FALSE, age |-> 0] \in Round
  BY DEF Round
<1>2. QED
  BY <1>1 DEF MonitorTypeOK, RoundStarts

LEMMA PingEndsType ==
    ASSUME MonitorTypeOK, NEW n \in Nodes, NEW s \in Slots, NEW leader, NEW answered,
           PingEnds(n, s, leader, answered)
    PROVE  MonitorTypeOK'
<1>1. rounds[n][s] \in Round
  BY DEF MonitorTypeOK, PingEnds
<1>2. [rounds[n][s] EXCEPT !.ended = TRUE] \in Round
  BY <1>1 DEF Round
<1>3. rounds' = [rounds EXCEPT ![n] = [rounds[n] EXCEPT ![s] = [rounds[n][s] EXCEPT !.ended = TRUE]]]
  BY DEF PingEnds, MonitorTypeOK
<1>4. rounds' \in [Nodes -> [Slots -> Round \cup {NoRound}]]
  BY <1>2, <1>3 DEF MonitorTypeOK
<1>5. \A k \in 0 .. MaxRetries : OneMore(k) \in 0 .. MaxRetries
  BY DEF OneMore, MaxRetries
<1>6. failed' \in [Nodes -> 0 .. MaxRetries]
  <2>1. failed[n] \in 0 .. MaxRetries /\ 0 \in 0 .. MaxRetries
    BY DEF MonitorTypeOK, MaxRetries
  <2>2. OneMore(failed[n]) \in 0 .. MaxRetries
    BY <1>5, <2>1
  <2>3. QED
    BY <2>1, <2>2 DEF PingEnds, MonitorTypeOK
<1>7. QED
  BY <1>4, <1>6 DEF MonitorTypeOK

LEMMA RoundEndsType ==
    ASSUME MonitorTypeOK, NEW n \in Nodes, NEW s \in Slots, RoundEnds(n, s)
    PROVE  MonitorTypeOK'
BY DEF MonitorTypeOK, RoundEnds

LEMMA NewNodeObjectsType ==
    ASSUME MonitorTypeOK, NEW n \in Nodes, NewNodeObjects(n)
    PROVE  MonitorTypeOK'
<1> DEFINE r == [s \in Slots |-> IF rounds[n][s] = NoRound
                                    THEN NoRound
                                    ELSE [rounds[n][s] EXCEPT !.leader = Gone]]
<1>1. r \in [Slots -> Round \cup {NoRound}]
  <2>1. ASSUME NEW s \in Slots, rounds[n][s] # NoRound
        PROVE  [rounds[n][s] EXCEPT !.leader = Gone] \in Round
    <3>1. rounds[n][s] \in Round
      BY <2>1 DEF MonitorTypeOK
    <3>2. QED
      BY <3>1 DEF Round
  <2>2. QED
    BY <2>1
<1>2. rounds' = [rounds EXCEPT ![n] = r]
  BY DEF NewNodeObjects, MonitorTypeOK
<1>3. 0 \in 0 .. MaxRetries
  BY DEF MaxRetries
<1> HIDE DEF r
<1>4. QED
  BY <1>1, <1>2, <1>3 DEF MonitorTypeOK, NewNodeObjects

\* A new leader among the old node objects: the rounds go on as they are.
LEMMA LeaderReplacedEffect ==
    ASSUME MonitorTypeOK, NEW n \in Nodes, NEW leader, LeaderReplaced(n, leader)
    PROVE  /\ MonitorTypeOK'
           /\ \A s \in Slots : rounds'[n][s] # NoRound =>
                 rounds[n][s] # NoRound /\ rounds'[n][s].age = rounds[n][s].age
<1>1. CASE leader = n
  <2>1. 0 \in 0 .. MaxRetries
    BY DEF MaxRetries
  <2>2. QED
    BY <1>1, <2>1 DEF LeaderReplaced, MonitorTypeOK
<1>2. CASE leader # n
  <2>1. PICK k \in 0 .. MaxRetries, ended \in [Slots -> BOOLEAN] :
           /\ failed' = [failed EXCEPT ![n] = k]
           /\ rounds' = [rounds EXCEPT ![n] =
                            [s \in Slots |-> IF @[s] = NoRound
                                                THEN NoRound
                                                ELSE [@[s] EXCEPT !.ended = ended[s]]]]
    BY <1>2 DEF LeaderReplaced
  <2> DEFINE r == [s \in Slots |-> IF rounds[n][s] = NoRound
                                      THEN NoRound
                                      ELSE [rounds[n][s] EXCEPT !.ended = ended[s]]]
  <2>2. ASSUME NEW s \in Slots, rounds[n][s] # NoRound
        PROVE  /\ [rounds[n][s] EXCEPT !.ended = ended[s]] \in Round
               /\ [rounds[n][s] EXCEPT !.ended = ended[s]].age = rounds[n][s].age
    <3>1. rounds[n][s] \in Round
      BY <2>2 DEF MonitorTypeOK
    <3>2. QED
      BY <3>1 DEF Round
  <2>3. r \in [Slots -> Round \cup {NoRound}]
    BY <2>2
  <2>4. \A s \in Slots : r[s] # NoRound =>
           rounds[n][s] # NoRound /\ r[s].age = rounds[n][s].age
    BY <2>2
  <2>5. rounds' = [rounds EXCEPT ![n] = r]
    BY <2>1 DEF MonitorTypeOK
  <2> HIDE DEF r
  <2>6. rounds'[n] = r /\ rounds' \in [Nodes -> [Slots -> Round \cup {NoRound}]]
    BY <2>3, <2>5 DEF MonitorTypeOK
  <2>7. failed' \in [Nodes -> 0 .. MaxRetries]
    BY <2>1 DEF MonitorTypeOK
  <2>8. QED
    BY <2>4, <2>6, <2>7 DEF MonitorTypeOK
<1>3. QED
  BY <1>1, <1>2

LEMMA MonitorStopsType ==
    ASSUME MonitorTypeOK, NEW n \in Nodes, MonitorStops(n)
    PROVE  MonitorTypeOK'
<1>1. NoRounds \in [Slots -> Round \cup {NoRound}] /\ 0 \in 0 .. MaxRetries
  BY DEF NoRounds, MaxRetries
<1>2. QED
  BY <1>1 DEF MonitorTypeOK, MonitorStops

LEMMA RoundsAgeType ==
    ASSUME MonitorTypeOK, RoundsMayAge, RoundsAge
    PROVE  MonitorTypeOK'
<1>1. ASSUME NEW n \in Nodes, NEW s \in Slots, rounds[n][s] # NoRound
      PROVE  [rounds[n][s] EXCEPT !.age = @ + 1] \in Round
  <2>1. rounds[n][s] \in Round /\ rounds[n][s].age = 0
    BY <1>1 DEF MonitorTypeOK, RoundsMayAge
  <2>2. QED
    BY <2>1 DEF Round
<1>2. QED
  BY <1>1 DEF MonitorTypeOK, RoundsAge

\* An election that begins, or does not.
LEMMA AttemptType ==
    ASSUME TypeOK, Attempt(HardCooldown)
    PROVE  answers' \subseteq Nodes /\ since' \in 0 .. LongAgo
<1>1. CASE Starts(HardCooldown)
  BY <1>1, NodesType DEF Starts
<1>2. CASE Refused(HardCooldown)
  BY <1>2 DEF TypeOK, Refused
<1>3. QED
  BY <1>1, <1>2 DEF Attempt

LEMMA RequestElectionType ==
    ASSUME TypeOK, NEW n \in Nodes, RequestElection(n)
    PROVE  answers' \subseteq Nodes /\ since' \in 0 .. LongAgo /\ requests' \subseteq Replicas
<1>1. CASE n = CoordinatorId
  BY <1>1, AttemptType DEF TypeOK, RequestElection
<1>2. CASE n # CoordinatorId
  BY <1>2 DEF TypeOK, RequestElection, Replicas
<1>3. QED
  BY <1>1, <1>2

\* The reports of a poll are statuses of nodes.
LEMMA ReportsArePolls ==
    ASSUME TypeOK, answers # {}, NEW r \in Reports
    PROVE  /\ IsPoll(r)
           /\ FindOptimalLeader(r, Leader) \in answers
<1>1. r \in [answers -> NodeStatus]
  BY LoadsAssumption DEF Reports, NodeStatus
<1>2. IsPoll(r)
  BY <1>1 DEF IsPoll, TypeOK
<1>3. QED
  BY <1>1, <1>2, OneOptimalLeader DEF IsOptimal

LEMMA ElectType ==
    ASSUME TypeOK, Elect
    PROVE  TypeOK'
<1>1. PICK r \in Reports :
         LET id == FindOptimalLeader(r, Leader) IN
         IF id = Leader
            THEN UNCHANGED <<view, behind, requests, pushes, monitorVars>>
            ELSE /\ view' = [view EXCEPT ![CoordinatorId] = id]
                 /\ behind' = Replicas
                 /\ requests' = {}
                 /\ pushes' = PushTargets
                 /\ LeaderReplaced(CoordinatorId, id)
  BY DEF Elect
<1>2. FindOptimalLeader(r, Leader) \in Nodes
  BY ReportsArePolls DEF Elect, TypeOK
<1>3. CASE FindOptimalLeader(r, Leader) = Leader
  BY <1>1, <1>3 DEF TypeOK, MonitorTypeOK, Elect, monitorVars
<1>4. CASE FindOptimalLeader(r, Leader) # Leader
  <2>1. /\ view' \in [Nodes -> Nodes]
        /\ behind' \subseteq Replicas /\ requests' \subseteq Replicas
        /\ pushes' = Replicas
    BY <1>1, <1>2, <1>4, NodesType DEF TypeOK, PushTargets
  <2>2. MonitorTypeOK'
    BY <1>1, <1>4, NodesType, LeaderReplacedEffect DEF TypeOK
  <2>3. QED
    BY <2>1, <2>2 DEF TypeOK, Elect
<1>5. QED
  BY <1>3, <1>4

LEMMA ApplyType ==
    ASSUME TypeOK, NEW n \in Nodes, Apply(n)
    PROVE  /\ MonitorTypeOK'
           /\ view' \in [Nodes -> Nodes]
           /\ behind' \subseteq Replicas
BY NodesType, NewNodeObjectsType DEF TypeOK, Apply, Leader

LEMMA StopType ==
    ASSUME TypeOK, NEW n \in Nodes, Stop(n)
    PROVE  TypeOK'
<1>1. MonitorTypeOK'
  BY MonitorStopsType DEF TypeOK, Stop
<1>2. up' \subseteq Nodes /\ stops' \in 0 .. MaxStops
  BY MaxStopsAssumption DEF TypeOK, Stop
<1>3. /\ answers' \subseteq Nodes
      /\ pushes' \subseteq Replicas
      /\ hung' \subseteq pushes'
      /\ since' \in 0 .. LongAgo
  <2>1. CASE n = CoordinatorId
    BY <2>1, NodesType DEF Stop
  <2>2. CASE n # CoordinatorId
    BY <2>2 DEF TypeOK, Stop
  <2>3. QED
    BY <2>1, <2>2
<1>4. QED
  BY <1>1, <1>2, <1>3 DEF TypeOK, Stop

LEMMA TickType ==
    ASSUME TypeOK, Tick
    PROVE  TypeOK'
<1>1. MonitorTypeOK'
  BY RoundsAgeType DEF TypeOK, Tick
<1>2. since' \in 0 .. LongAgo
  BY NodesType DEF TypeOK, Tick
<1>3. QED
  BY <1>1, <1>2 DEF TypeOK, Tick

LEMMA NextType ==
    ASSUME TypeOK, [Next]_vars
    PROVE  TypeOK'
<1>1. ASSUME NEW n \in Nodes, Reelect(n)  PROVE TypeOK'
  BY <1>1, RequestElectionType DEF TypeOK, Reelect, MonitorTypeOK, monitorVars
<1>2. ASSUME NEW n \in Nodes, AnswerPoll(n)  PROVE TypeOK'
  BY <1>2 DEF TypeOK, AnswerPoll, MonitorTypeOK, monitorVars
<1>3. ASSUME NEW n \in Nodes, Start(n)  PROVE TypeOK'
  BY <1>3 DEF TypeOK, Start, MonitorTypeOK, monitorVars, electionVars
<1>4. ASSUME NEW n \in Replicas, ReceiveRequest(n)  PROVE TypeOK'
  BY <1>4, AttemptType DEF TypeOK, ReceiveRequest, MonitorTypeOK, monitorVars
<1>5. ASSUME NEW n \in Replicas, LoseRequest(n)  PROVE TypeOK'
  BY <1>5 DEF TypeOK, LoseRequest, MonitorTypeOK, monitorVars
<1>6. ASSUME NEW n \in Replicas, EndPush(n)  PROVE TypeOK'
  <2>1. n \in Nodes /\ pushes' \subseteq Replicas /\ hung' \subseteq pushes'
    BY <1>6, NodesType DEF TypeOK, EndPush
  <2>2. MonitorTypeOK' /\ view' \in [Nodes -> Nodes] /\ behind' \subseteq Replicas
    <3>1. CASE Apply(n)
      BY <2>1, <3>1, ApplyType
    <3>2. CASE UNCHANGED <<monitorVars, view, behind>>
      BY <3>2 DEF TypeOK, MonitorTypeOK, monitorVars
    <3>3. QED
      BY <1>6, <3>1, <3>2 DEF EndPush
  <2>3. QED
    BY <1>6, <2>1, <2>2 DEF TypeOK, EndPush
<1>7. ASSUME NEW n \in Replicas, CheckConfig(n)  PROVE TypeOK'
  <2>1. n \in Nodes /\ Apply(n)
    BY <1>7, NodesType DEF CheckConfig
  <2>2. QED
    BY <1>7, <2>1, ApplyType DEF TypeOK, CheckConfig, electionVars
<1>8. ASSUME NEW n \in Nodes, NEW s \in Slots, StartRound(n, s)  PROVE TypeOK'
  <2>1. view[n] \in Nodes
    BY DEF TypeOK
  <2>2. QED
    BY <1>8, <2>1, RoundStartsType DEF TypeOK, StartRound, electionVars
<1>9. ASSUME NEW n \in Nodes, NEW s \in Slots, EndPing(n, s)  PROVE TypeOK'
  BY <1>9, PingEndsType DEF TypeOK, EndPing, electionVars
<1>10. ASSUME NEW n \in Nodes, NEW s \in Slots, EndRound(n, s)  PROVE TypeOK'
  <2>1. MonitorTypeOK'
    BY <1>10, RoundEndsType DEF TypeOK, EndRound
  <2>2. answers' \subseteq Nodes /\ since' \in 0 .. LongAgo /\ requests' \subseteq Replicas
    <3>1. CASE RequestElection(n)
      BY <3>1, RequestElectionType
    <3>2. CASE UNCHANGED <<requests, since, answers>>
      BY <3>2 DEF TypeOK
    <3>3. QED
      BY <1>10, <3>1, <3>2 DEF EndRound
  <2>3. QED
    BY <1>10, <2>1, <2>2 DEF TypeOK, EndRound
<1>11. CASE PeriodicElection
  BY <1>11, NodesType DEF TypeOK, PeriodicElection, Starts, MonitorTypeOK, monitorVars
<1>12. CASE UNCHANGED vars
  BY <1>12 DEF TypeOK, vars, MonitorTypeOK, monitorVars, electionVars
<1>13. QED
  BY <1>1, <1>2, <1>3, <1>4, <1>5, <1>6, <1>7, <1>8, <1>9, <1>10, <1>11, <1>12,
     ElectType, StopType, TickType DEF Next

LEMMA InitType ==
    ASSUME Init
    PROVE  TypeOK
<1>1. MonitorTypeOK
  BY DEF Init, MonitorInit, MonitorTypeOK, NoRounds, MaxRetries
<1>2. stops \in 0 .. MaxStops
  BY MaxStopsAssumption DEF Init
<1>3. view \in [Nodes -> Nodes] /\ since \in 0 .. LongAgo
  BY NodesType DEF Init
<1>4. QED
  BY <1>1, <1>2, <1>3 DEF Init, TypeOK

\* Every variable keeps its type: an election picks one of the nodes, what
\* counts failures and time stays in its bounds, and a push that hangs is one
\* the coordinator waits for.
THEOREM TypeCorrect == Spec => []TypeOK
<1>1. Init => TypeOK
  BY InitType
<1>2. TypeOK /\ [Next]_vars => TypeOK'
  BY NextType
<1>3. QED
  BY <1>1, <1>2, PTL DEF Spec

-----------------------------------------------------------------------------
(***************************************************************************)
(* The coordinator's watch.  An election is over within a tick of its      *)
(* start, as far as the choice of the leader goes, and a round within a    *)
(* tick of its own: a round that still looks at the old leader is younger  *)
(* than the cooldown.                                                      *)
(***************************************************************************)
Outdated(s) ==
    rounds[CoordinatorId][s] # NoRound /\ rounds[CoordinatorId][s].leader # Leader

WatchInv ==
    /\ TypeOK
    /\ answers # {} => since <= 1
    /\ \A s \in Slots : Outdated(s) => since <= 1 + rounds[CoordinatorId][s].age

\* A step that leaves the coordinator's rounds and its leader alone.
LEMMA WatchUntouched ==
    ASSUME WatchInv, TypeOK',
           rounds'[CoordinatorId] = rounds[CoordinatorId], Leader' = Leader,
           UNCHANGED <<since, answers>> \/ since' = 0
    PROVE  WatchInv'
<1>1. \A s \in Slots : Outdated(s)' <=> Outdated(s)
  BY DEF Outdated
<1>2. \A s \in Slots : rounds[CoordinatorId][s] # NoRound => rounds[CoordinatorId][s].age \in 0 .. 1
  BY NodesType DEF WatchInv, TypeOK, MonitorTypeOK, Round
<1>3. CASE UNCHANGED <<since, answers>>
  BY <1>1, <1>3 DEF WatchInv
<1>4. CASE since' = 0
  BY <1>1, <1>2, <1>4 DEF WatchInv, Outdated
<1>5. QED
  BY <1>3, <1>4

\* An attempt either begins an election or changes nothing.
LEMMA AttemptEffect ==
    ASSUME NEW cooldown, Attempt(cooldown)
    PROVE  UNCHANGED <<since, answers>> \/ since' = 0
BY DEF Attempt, Starts, Refused

LEMMA RequestElectionEffect ==
    ASSUME NEW n, RequestElection(n)
    PROVE  UNCHANGED <<since, answers>> \/ since' = 0
BY AttemptEffect DEF RequestElection

LEMMA EndRoundWatch ==
    ASSUME WatchInv, TypeOK', NEW n \in Nodes, NEW s \in Slots, EndRound(n, s)
    PROVE  WatchInv'
<1>1. /\ \A t \in Slots : Outdated(t)' => Outdated(t)
      /\ \A t \in Slots : Outdated(t)' => rounds'[CoordinatorId][t] = rounds[CoordinatorId][t]
  BY NodesType DEF WatchInv, TypeOK, MonitorTypeOK, EndRound, RoundEnds, Outdated, Leader
<1>2. \A t \in Slots : rounds[CoordinatorId][t] # NoRound => rounds[CoordinatorId][t].age \in 0 .. 1
  BY NodesType DEF WatchInv, TypeOK, MonitorTypeOK, Round
<1>3. UNCHANGED <<since, answers>> \/ since' = 0
  BY RequestElectionEffect DEF EndRound
<1>4. CASE UNCHANGED <<since, answers>>
  BY <1>1, <1>4 DEF WatchInv
<1>5. CASE since' = 0
  BY <1>1, <1>2, <1>5 DEF WatchInv, Outdated
<1>6. QED
  BY <1>3, <1>4, <1>5

LEMMA StartRoundWatch ==
    ASSUME WatchInv, TypeOK', NEW n \in Nodes, NEW s \in Slots, StartRound(n, s)
    PROVE  WatchInv'
<1>1. \A t \in Slots : Outdated(t)' => Outdated(t) /\ rounds'[CoordinatorId][t] = rounds[CoordinatorId][t]
  BY NodesType DEF WatchInv, TypeOK, MonitorTypeOK, StartRound, RoundStarts, Outdated, Leader
<1>2. UNCHANGED <<since, answers>>
  BY DEF StartRound, electionVars
<1>3. QED
  BY <1>1, <1>2 DEF WatchInv

LEMMA EndPingWatch ==
    ASSUME WatchInv, TypeOK', NEW n \in Nodes, NEW s \in Slots, EndPing(n, s)
    PROVE  WatchInv'
<1>1. /\ rounds[n][s] \in Round
      /\ rounds' = [rounds EXCEPT ![n] = [rounds[n] EXCEPT ![s] = [rounds[n][s] EXCEPT !.ended = TRUE]]]
      /\ Leader' = Leader
      /\ UNCHANGED <<since, answers>>
  BY DEF WatchInv, TypeOK, MonitorTypeOK, EndPing, PingEnds, Leader, electionVars
<1> DEFINE r == [rounds[n][s] EXCEPT !.ended = TRUE]
<1>2. r.leader = rounds[n][s].leader /\ r.age = rounds[n][s].age /\ rounds[n][s] # NoRound
  BY <1>1, NoRoundAssumption DEF Round
<1> HIDE DEF r
<1>3. ASSUME NEW t \in Slots, Outdated(t)'
      PROVE  Outdated(t) /\ rounds'[CoordinatorId][t].age = rounds[CoordinatorId][t].age
  <2>1. rounds' = [rounds EXCEPT ![n] = [rounds[n] EXCEPT ![s] = r]]
    BY <1>1 DEF r
  <2>2. CASE n = CoordinatorId /\ t = s
    <3>1. rounds'[CoordinatorId][t] = r
      BY <2>1, <2>2, NodesType DEF WatchInv, TypeOK, MonitorTypeOK
    <3>2. QED
      BY <1>1, <1>2, <1>3, <2>2, <3>1 DEF Outdated
  <2>3. CASE ~ (n = CoordinatorId /\ t = s)
    <3>1. rounds'[CoordinatorId][t] = rounds[CoordinatorId][t]
      BY <2>1, <2>3, NodesType DEF WatchInv, TypeOK, MonitorTypeOK
    <3>2. QED
      BY <1>1, <1>3, <3>1 DEF Outdated
  <2>4. QED
    BY <2>2, <2>3
<1>4. QED
  BY <1>1, <1>3 DEF WatchInv

LEMMA ElectWatch ==
    ASSUME WatchInv, TypeOK', Elect
    PROVE  WatchInv'
<1>1. since <= 1 /\ UNCHANGED since /\ answers' = {}
  BY DEF WatchInv, Elect
<1>2. \A t \in Slots : rounds[CoordinatorId][t] # NoRound => rounds[CoordinatorId][t].age \in 0 .. 1
  BY NodesType DEF WatchInv, TypeOK, MonitorTypeOK, Round
<1>3. since \in Nat
  BY NodesType DEF WatchInv, TypeOK
<1>4. CASE UNCHANGED rounds
  BY <1>1, <1>2, <1>3, <1>4 DEF WatchInv, Outdated
<1>5. ASSUME NEW leader, LeaderReplaced(CoordinatorId, leader)
      PROVE  WatchInv'
  <2>1. \A t \in Slots : rounds'[CoordinatorId][t] # NoRound =>
           rounds[CoordinatorId][t] # NoRound
           /\ rounds'[CoordinatorId][t].age = rounds[CoordinatorId][t].age
    BY <1>5, NodesType, LeaderReplacedEffect DEF WatchInv, TypeOK
  <2>2. \A t \in Slots : Outdated(t)' => since' <= 1 + rounds'[CoordinatorId][t].age
    BY <1>1, <1>2, <1>3, <2>1 DEF Outdated
  <2>3. QED
    BY <1>1, <2>2 DEF WatchInv
<1>6. QED
  BY <1>4, <1>5 DEF Elect, monitorVars

LEMMA StopWatch ==
    ASSUME WatchInv, TypeOK', NEW n \in Nodes, Stop(n)
    PROVE  WatchInv'
<1>1. CASE n = CoordinatorId
  <2>1. answers' = {}
    BY <1>1 DEF Stop
  <2>2. \A t \in Slots : rounds'[CoordinatorId][t] = NoRound
    BY <1>1, NodesType DEF Stop, MonitorStops, NoRounds, WatchInv, TypeOK, MonitorTypeOK
  <2>3. QED
    BY <2>1, <2>2 DEF WatchInv, Outdated
<1>2. CASE n # CoordinatorId
  <2>1. rounds'[CoordinatorId] = rounds[CoordinatorId]
    BY <1>2, NodesType DEF Stop, MonitorStops, WatchInv, TypeOK, MonitorTypeOK
  <2>2. UNCHANGED <<since, answers>> /\ Leader' = Leader
    BY <1>2 DEF Stop, Leader
  <2>3. QED
    BY <2>1, <2>2, WatchUntouched
<1>3. QED
  BY <1>1, <1>2

LEMMA TickWatch ==
    ASSUME WatchInv, TypeOK', Tick
    PROVE  WatchInv'
<1>1. Leader' = Leader /\ UNCHANGED answers
  BY DEF Tick, Leader
<1>2. since \in 0 .. LongAgo /\ since' \in {since, since + 1}
  BY DEF Tick, WatchInv, TypeOK
<1>3. ASSUME NEW t \in Slots, rounds'[CoordinatorId][t] # NoRound
      PROVE  /\ rounds[CoordinatorId][t] # NoRound
             /\ rounds[CoordinatorId][t].age = 0
             /\ rounds'[CoordinatorId][t].age = 1
             /\ rounds'[CoordinatorId][t].leader = rounds[CoordinatorId][t].leader
  <2>1. rounds'[CoordinatorId][t] = IF rounds[CoordinatorId][t] = NoRound
                                       THEN NoRound
                                       ELSE [rounds[CoordinatorId][t] EXCEPT !.age = @ + 1]
    BY NodesType DEF Tick, RoundsAge
  <2>2. rounds[CoordinatorId][t] # NoRound /\ rounds[CoordinatorId][t].age = 0
    BY <1>3, <2>1, NodesType DEF Tick, RoundsMayAge
  <2>3. rounds[CoordinatorId][t] \in Round
    BY <2>2, NodesType DEF WatchInv, TypeOK, MonitorTypeOK
  <2>4. QED
    BY <2>1, <2>2, <2>3 DEF Round
<1>4. answers' # {} => since' <= 1
  BY <1>1, <1>2 DEF Tick
<1>5. ASSUME NEW t \in Slots, Outdated(t)'
      PROVE  since' <= 1 + rounds'[CoordinatorId][t].age
  <2>1. Outdated(t) /\ rounds[CoordinatorId][t].age = 0 /\ rounds'[CoordinatorId][t].age = 1
    BY <1>1, <1>3, <1>5 DEF Outdated
  <2>2. since <= 1
    BY <2>1, NodesType DEF WatchInv
  <2>3. QED
    BY <1>2, <2>1, <2>2, NodesType
<1>6. QED
  BY <1>4, <1>5 DEF WatchInv

\* A replica's new configuration is none of the coordinator's business.
LEMMA ApplyEffect ==
    ASSUME TypeOK, NEW n \in Replicas, Apply(n)
    PROVE  rounds'[CoordinatorId] = rounds[CoordinatorId] /\ Leader' = Leader
<1>1. n \in Nodes /\ n # CoordinatorId
  BY NodesType DEF Replicas
<1>2. QED
  BY <1>1, NodesType DEF TypeOK, MonitorTypeOK, Apply, NewNodeObjects, Leader

LEMMA NextWatch ==
    ASSUME WatchInv, [Next]_vars
    PROVE  WatchInv'
<1>0. TypeOK /\ TypeOK'
  BY NextType DEF WatchInv
<1>1. ASSUME NEW n \in Nodes, Reelect(n)  PROVE WatchInv'
  <2>1. rounds' = rounds /\ view' = view /\ (UNCHANGED <<since, answers>> \/ since' = 0)
    BY <1>1, RequestElectionEffect DEF Reelect, monitorVars
  <2>2. QED
    BY <1>0, <2>1, WatchUntouched DEF Leader
<1>2. ASSUME NEW n \in Nodes, AnswerPoll(n)  PROVE WatchInv'
  BY <1>0, <1>2 DEF WatchInv, AnswerPoll, monitorVars, Outdated, Leader
<1>3. ASSUME NEW n \in Nodes, Start(n)  PROVE WatchInv'
  BY <1>0, <1>3, WatchUntouched DEF Start, monitorVars, electionVars, Leader
<1>4. ASSUME NEW n \in Replicas, ReceiveRequest(n)  PROVE WatchInv'
  <2>1. rounds' = rounds /\ view' = view /\ (UNCHANGED <<since, answers>> \/ since' = 0)
    BY <1>4, AttemptEffect DEF ReceiveRequest, monitorVars
  <2>2. QED
    BY <1>0, <2>1, WatchUntouched DEF Leader
<1>5. ASSUME NEW n \in Replicas, LoseRequest(n)  PROVE WatchInv'
  BY <1>0, <1>5, WatchUntouched DEF LoseRequest, monitorVars, Leader
<1>6. ASSUME NEW n \in Replicas, EndPush(n)  PROVE WatchInv'
  <2>1. rounds'[CoordinatorId] = rounds[CoordinatorId] /\ Leader' = Leader
    BY <1>0, <1>6, ApplyEffect DEF EndPush, monitorVars, Leader
  <2>2. QED
    BY <1>0, <1>6, <2>1, WatchUntouched DEF EndPush
<1>7. ASSUME NEW n \in Replicas, CheckConfig(n)  PROVE WatchInv'
  <2>1. rounds'[CoordinatorId] = rounds[CoordinatorId] /\ Leader' = Leader
    BY <1>0, <1>7, ApplyEffect DEF CheckConfig
  <2>2. QED
    BY <1>0, <1>7, <2>1, WatchUntouched DEF CheckConfig, electionVars
<1>8. CASE PeriodicElection
  BY <1>0, <1>8, WatchUntouched DEF PeriodicElection, Starts, monitorVars, Leader
<1>9. CASE UNCHANGED vars
  BY <1>0, <1>9, WatchUntouched DEF vars, monitorVars, electionVars, Leader
<1>10. QED
  BY <1>0, <1>1, <1>2, <1>3, <1>4, <1>5, <1>6, <1>7, <1>8, <1>9, StartRoundWatch, EndPingWatch,
     EndRoundWatch, ElectWatch, StopWatch, TickWatch DEF Next

\* Whatever step begins an election, the cooldown is over.
LEMMA ElectionsKeepCooldown ==
    ASSUME TypeOK, [Next]_vars, answers = {}, answers' # {}
    PROVE  since >= HardCooldown
<1>1. ASSUME Attempt(HardCooldown)  PROVE since >= HardCooldown
  BY <1>1 DEF Attempt, Starts, Refused
<1>2. ASSUME NEW n, RequestElection(n)  PROVE since >= HardCooldown
  BY <1>1, <1>2 DEF RequestElection
<1>3. CASE \E n \in Nodes : Reelect(n)
  BY <1>2, <1>3 DEF Reelect
<1>4. CASE \E n \in Replicas : ReceiveRequest(n)
  BY <1>1, <1>4 DEF ReceiveRequest
<1>5. CASE \E n \in Nodes, s \in Slots : EndRound(n, s)
  BY <1>2, <1>5 DEF EndRound
<1>6. CASE PeriodicElection
  <2>1. since >= Interval
    BY <1>6 DEF PeriodicElection, Starts
  <2>2. since \in Nat
    BY NodesType DEF TypeOK
  <2>3. QED
    BY <2>1, <2>2, IntervalAssumption DEF HardCooldown
<1>7. CASE \E n \in Nodes : AnswerPoll(n) \/ Stop(n) \/ Start(n)
  BY <1>7 DEF AnswerPoll, Stop, Start, electionVars
<1>8. CASE \E n \in Replicas : LoseRequest(n) \/ EndPush(n) \/ CheckConfig(n)
  BY <1>8 DEF LoseRequest, EndPush, CheckConfig, electionVars
<1>9. CASE \E n \in Nodes, s \in Slots : StartRound(n, s) \/ EndPing(n, s)
  BY <1>9 DEF StartRound, EndPing, electionVars
<1>10. CASE Elect \/ Tick \/ UNCHANGED vars
  BY <1>10 DEF Elect, Tick, vars, electionVars
<1>11. QED
  BY <1>3, <1>4, <1>5, <1>6, <1>7, <1>8, <1>9, <1>10 DEF Next

\* However many rounds overlap, and whatever elections, commands and restarts
\* come between their start and their end, a round that makes the coordinator
\* elect looked at the leader the cluster still has.
THEOREM WatchNeverOutdated == Spec => WatchIsCurrent
<1>1. Init => WatchInv
  BY InitType, NodesType DEF Init, WatchInv, MonitorInit, NoRounds, Outdated
<1>2. WatchInv /\ [Next]_vars => WatchInv'
  BY NextWatch
<1>3. WatchInv /\ [Next]_vars => WatchElectsAgainstLeader
  <2> SUFFICES ASSUME WatchInv, [Next]_vars, NEW s \in Slots,
                      rounds[CoordinatorId][s] # NoRound, answers = {}, answers' # {}
               PROVE  rounds[CoordinatorId][s].leader = Leader
    BY DEF WatchElectsAgainstLeader
  <2>1. since >= HardCooldown
    BY ElectionsKeepCooldown DEF WatchInv
  <2>2. rounds[CoordinatorId][s].age \in 0 .. 1
    BY NodesType DEF WatchInv, TypeOK, MonitorTypeOK, Round
  <2>3. since \in Nat
    BY NodesType DEF WatchInv, TypeOK
  <2>4. QED
    BY <2>1, <2>2, <2>3 DEF WatchInv, Outdated, HardCooldown
<1>4. QED
  BY <1>1, <1>2, <1>3, PTL DEF Spec, WatchIsCurrent

-----------------------------------------------------------------------------
(***************************************************************************)
(* One election at a time.                                                 *)
(***************************************************************************)
\* No poll while somebody waits for the leader of an earlier election.
TurnInv ==
    /\ TypeOK
    /\ answers # {} => pushes = {}

LEMMA AttemptTurn ==
    ASSUME TurnInv, TypeOK', NEW cooldown, Attempt(cooldown), pushes' = pushes
    PROVE  TurnInv'
BY DEF TurnInv, Attempt, Starts, Refused, InProgress

LEMMA RequestElectionTurn ==
    ASSUME TurnInv, TypeOK', NEW n, RequestElection(n), pushes' = pushes
    PROVE  TurnInv'
BY AttemptTurn DEF TurnInv, RequestElection

LEMMA NextTurn ==
    ASSUME TurnInv, [Next]_vars
    PROVE  TurnInv'
<1>0. TypeOK'
  BY NextType DEF TurnInv
<1>1. ASSUME NEW n \in Nodes, Reelect(n)  PROVE TurnInv'
  BY <1>0, <1>1, RequestElectionTurn DEF Reelect
<1>2. ASSUME NEW n \in Replicas, ReceiveRequest(n)  PROVE TurnInv'
  BY <1>0, <1>2, AttemptTurn DEF ReceiveRequest
<1>3. ASSUME NEW n \in Nodes, NEW s \in Slots, EndRound(n, s)  PROVE TurnInv'
  BY <1>0, <1>3, RequestElectionTurn DEF EndRound, TurnInv
<1>4. CASE PeriodicElection
  BY <1>0, <1>4 DEF PeriodicElection, Starts, InProgress, TurnInv
<1>5. CASE Elect
  BY <1>0, <1>5 DEF Elect, TurnInv
<1>6. CASE \E n \in Nodes : AnswerPoll(n) \/ Stop(n) \/ Start(n)
  BY <1>0, <1>6 DEF AnswerPoll, Stop, Start, electionVars, TurnInv
<1>7. CASE \E n \in Replicas : LoseRequest(n) \/ EndPush(n) \/ CheckConfig(n)
  BY <1>0, <1>7 DEF LoseRequest, EndPush, CheckConfig, electionVars, TurnInv
<1>8. CASE \E n \in Nodes, s \in Slots : StartRound(n, s) \/ EndPing(n, s)
  BY <1>0, <1>8 DEF StartRound, EndPing, electionVars, TurnInv
<1>9. CASE Tick \/ UNCHANGED vars
  BY <1>0, <1>9 DEF Tick, vars, electionVars, TurnInv
<1>10. QED
  BY <1>1, <1>2, <1>3, <1>4, <1>5, <1>6, <1>7, <1>8, <1>9 DEF Next

\* Only the end of a poll changes the leader.
LEMMA OthersKeepLeader ==
    ASSUME TypeOK, [Next]_vars, ~ Elect
    PROVE  Leader' = Leader
<1>1. CASE \E n \in Replicas : EndPush(n) \/ CheckConfig(n)
  BY <1>1, ApplyEffect DEF EndPush, CheckConfig, Leader
<1>2. CASE \E n \in Replicas : ReceiveRequest(n) \/ LoseRequest(n)
  BY <1>2 DEF ReceiveRequest, LoseRequest, Leader
<1>3. CASE \E n \in Nodes : Reelect(n) \/ AnswerPoll(n) \/ Stop(n) \/ Start(n)
  BY <1>3 DEF Reelect, AnswerPoll, Stop, Start, Leader
<1>4. CASE \E n \in Nodes, s \in Slots : StartRound(n, s) \/ EndPing(n, s) \/ EndRound(n, s)
  BY <1>4 DEF StartRound, EndPing, EndRound, Leader
<1>5. CASE PeriodicElection \/ Tick \/ UNCHANGED vars
  BY <1>5 DEF PeriodicElection, Tick, vars, Leader
<1>6. QED
  BY <1>1, <1>2, <1>3, <1>4, <1>5 DEF Next

\* What the poll elects is a node that answered it.
LEMMA ElectedAnswered ==
    ASSUME TypeOK, Elect, Leader' # Leader
    PROVE  Leader' \in answers
<1>1. PICK r \in Reports :
         LET id == FindOptimalLeader(r, Leader) IN
         IF id = Leader
            THEN UNCHANGED <<view, behind, requests, pushes, monitorVars>>
            ELSE view' = [view EXCEPT ![CoordinatorId] = id]
  BY DEF Elect
<1>2. view' = [view EXCEPT ![CoordinatorId] = FindOptimalLeader(r, Leader)]
  BY <1>1 DEF Leader
<1>3. Leader' = FindOptimalLeader(r, Leader)
  BY <1>2, NodesType DEF Leader, TypeOK
<1>4. QED
  BY <1>3, ReportsArePolls DEF Elect

\* An election begins only when the pushes of the one before have ended, and
\* ends with a leader that answered it: whatever stops, hangs or is requested
\* meanwhile, no push is under way for any other leader than the current one.
THEOREM OneElectionAtATime == Spec => LeadersFollowInTurn
<1>1. Init => TurnInv
  BY InitType DEF Init, TurnInv
<1>2. TurnInv /\ [Next]_vars => TurnInv'
  BY NextTurn
<1>3. TurnInv /\ [Next]_vars => (Leader' # Leader => Leader' \in answers /\ pushes = {})
  <2> SUFFICES ASSUME TurnInv, [Next]_vars, Leader' # Leader
               PROVE  Leader' \in answers /\ pushes = {}
    OBVIOUS
  <2>1. Elect
    BY OthersKeepLeader DEF TurnInv
  <2>2. QED
    BY <2>1, ElectedAnswered DEF TurnInv, Elect
<1>4. QED
  BY <1>1, <1>2, <1>3, PTL DEF Spec, LeadersFollowInTurn
=============================================================================
