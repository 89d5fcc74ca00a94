--------------------------- MODULE LeaderElection ---------------------------
(***************************************************************************)
(* Elections of the cluster's leader (src/cluster/leaderElection.ts): the  *)
(* nodes watch the leader (PingMonitor) and request an election when it    *)
(* does not answer, the coordinator attempts one on request and from time  *)
(* to time, polls the nodes, picks one of those that answered and pushes   *)
(* the configuration to the others.                                        *)
(*                                                                         *)
(*   - Time is counted in ticks of 5 s, the timeout of pings, polls and    *)
(*     requests: what has a timeout sees at most one tick.                 *)
(*   - Of a configuration only the leader is here, and whether a replica   *)
(*     has the configuration of the coordinator, which its hash tells.     *)
(*   - The nodes of the cluster do not change, so leaders change by        *)
(*     elections only.  ConfigReplication has joins and kicks.             *)
(***************************************************************************)
EXTENDS PingMonitor

CONSTANTS
    Interval,  \* bound: ticks between elections of the timer (60 in the code)
    Loads,     \* bound: the loads nodes report
    MaxStops   \* bound: so often a daemon stops

\* Mutant: the cooldown is the timeout of a poll.
HardCooldownOfOneTimeout == 1

\* LEADER_ELECTION_HARD_COOLDOWN_MS, in ticks
HardCooldown == 3

ASSUME IntervalAssumption == Interval \in Nat /\ Interval > HardCooldown

ASSUME LoadsAssumption == Loads \subseteq Nat

ASSUME MaxStopsAssumption == MaxStops \in Nat

VARIABLES
    up,        \* the nodes whose daemon runs
    view,      \* view[n]: the leader in n's configuration
    behind,    \* the replicas whose configuration is not the coordinator's
    requests,  \* replicas whose request, with a current hash, is on its way
    answers,   \* nodes that answered the poll that runs; {} if none runs
    pushes,    \* the nodes the last election still waits for
    hung,      \* those of them that took the push and will never answer
    since,     \* ticks since the last election began, as far as they matter
    stops      \* stops so far

electionVars == <<requests, answers, pushes, hung, since>>

vars == <<monitorVars, up, view, behind, electionVars, stops>>

Replicas == Nodes \ {CoordinatorId}

LongAgo == Interval + 1

TypeOK ==
    /\ MonitorTypeOK
    /\ up \subseteq Nodes
    /\ view \in [Nodes -> Nodes]
    /\ behind \subseteq Replicas
    /\ requests \subseteq Replicas
    /\ answers \subseteq Nodes
    /\ pushes \subseteq Replicas
    /\ hung \subseteq pushes
    /\ since \in 0 .. LongAgo
    /\ stops \in 0 .. MaxStops

Init ==
    /\ MonitorInit
    /\ up = Nodes
    /\ view = [n \in Nodes |-> CoordinatorId]
    /\ behind = {}
    /\ requests = {}
    /\ answers = {}
    /\ pushes = {}
    /\ hung = {}
    /\ since = LongAgo
    /\ stops = 0

Leader == view[CoordinatorId]

\* Mutant: leaderElectionPromise is reset before the pushes end.
InProgressUntilElected == answers # {}

\* leaderElectionPromise is set
InProgress == answers # {} \/ pushes # {}

-----------------------------------------------------------------------------
(***************************************************************************)
(* Attempts and requests                                                   *)
(***************************************************************************)
\* The coordinator's own status is always there.
Starts(cooldown) ==
    /\ ~ InProgress
    /\ since >= cooldown
    /\ since' = 0
    /\ answers' = {CoordinatorId}

\* So many ticks may be a little less time than the cooldown.
Refused(cooldown) ==
    /\ InProgress \/ since <= cooldown
    /\ UNCHANGED <<since, answers>>

\* Mutant: the time of the last election is set by refused attempts, too.
AttemptRestartingCooldown(cooldown) ==
    \/ Starts(cooldown)
    \/ (InProgress \/ since <= cooldown) /\ since' = 0 /\ UNCHANGED answers

\* attemptLeaderElection, on the coordinator
Attempt(cooldown) == Starts(cooldown) \/ Refused(cooldown)

\* requestLeaderElection on node n.  A request with the hash of another
\* configuration than the coordinator's will be refused and is left out.
RequestElection(n) ==
    IF n = CoordinatorId
       THEN Attempt(HardCooldown) /\ UNCHANGED requests
       ELSE /\ requests' = IF n \in behind THEN requests ELSE requests \cup {n}
            /\ UNCHANGED <<since, answers>>

\* The command `reelect', and the end of a join, on node n.
Reelect(n) ==
    /\ n \in up
    /\ RequestElection(n)
    /\ UNCHANGED <<monitorVars, up, view, behind, pushes, hung, stops>>

\* POST /request_leader_election
ReceiveRequest(n) ==
    /\ CoordinatorId \in up
    /\ n \in requests
    /\ requests' = requests \ {n}
    /\ Attempt(HardCooldown)
    /\ UNCHANGED <<monitorVars, up, view, behind, pushes, hung, stops>>

LoseRequest(n) ==
    /\ n \in requests
    /\ requests' = requests \ {n}
    /\ UNCHANGED <<monitorVars, up, view, behind, answers, pushes, hung, since, stops>>

\* The coordinator's timer.
PeriodicElection ==
    /\ CoordinatorId \in up
    /\ Starts(Interval)
    /\ UNCHANGED <<monitorVars, up, view, behind, requests, pushes, hung, stops>>

-----------------------------------------------------------------------------
(***************************************************************************)
(* Watching the leader                                                     *)
(***************************************************************************)
\* A round in which a replica leads itself comes to nothing: its pings count
\* on node objects that are replaced before another leader is watched.
StartRound(n, s) ==
    /\ n \in up
    /\ view[n] = n => n = CoordinatorId
    /\ RoundStarts(n, s, view[n])
    /\ UNCHANGED <<up, view, behind, electionVars, stops>>

\* A ping may fail whether the leader runs or not.
EndPing(n, s) ==
    /\ \E answered \in BOOLEAN :
          /\ PingEnds(n, s, view[n], answered)
          /\ answered => view[n] \in up
    /\ UNCHANGED <<up, view, behind, electionVars, stops>>

EndRound(n, s) ==
    /\ RoundEnds(n, s)
    /\ \/ MayPass(n, s, view[n]) /\ UNCHANGED <<requests, since, answers>>
       \/ MayFindLeaderDown(n, s, view[n]) /\ RequestElection(n)
    /\ UNCHANGED <<up, view, behind, pushes, hung, stops>>

-----------------------------------------------------------------------------
(***************************************************************************)
(* The election                                                            *)
(***************************************************************************)
AnswerPoll(n) ==
    /\ answers # {}
    /\ n \in up \ answers
    /\ answers' = answers \cup {n}
    /\ UNCHANGED <<monitorVars, up, view, behind, requests, pushes, hung, since, stops>>

\* Mutant: a node that did not answer counts with some status.
ReportsOfAll ==
    [Nodes -> [loadValue : Loads, offlineNodeIds : {Nodes \ up}]]

\* What a node may report: it holds for offline the nodes that do not run, or
\* all others if its node objects are new.
Reports ==
    {r \in [answers -> [loadValue : Loads, offlineNodeIds : SUBSET Nodes]] :
        \A n \in answers : r[n].offlineNodeIds \in {(Nodes \ up) \ {n}, Nodes \ {n}}}

\* Mutant: the coordinator pushes to itself, too.
PushTargetsWithCoordinator == Nodes

PushTargets == Replicas

\* The nodes that did not answer by now have failed to.
Elect ==
    /\ answers # {}
    /\ answers' = {}
    /\ \E r \in Reports :
          LET id == FindOptimalLeader(r, Leader) IN
          IF id = Leader
             THEN UNCHANGED <<view, behind, requests, pushes, monitorVars>>
             ELSE /\ view' = [view EXCEPT ![CoordinatorId] = id]
                  /\ behind' = Replicas
                  /\ requests' = {}
                  /\ pushes' = PushTargets
                  /\ LeaderReplaced(CoordinatorId, id)
    /\ UNCHANGED <<up, hung, since, stops>>

\* applyClusterConfig on replica n
Apply(n) ==
    /\ view' = [view EXCEPT ![n] = Leader]
    /\ behind' = behind \ {n}
    /\ NewNodeObjects(n)

\* A push has arrived, or failed.
EndPush(n) ==
    /\ n \in pushes \ hung
    /\ pushes' = pushes \ {n}
    /\ \/ n \in up /\ Apply(n)
       \/ UNCHANGED <<monitorVars, view, behind>>
    /\ UNCHANGED <<up, requests, answers, hung, since, stops>>

\* A config check of replica n has been answered.
CheckConfig(n) ==
    /\ {CoordinatorId, n} \subseteq up
    /\ n \in behind
    /\ Apply(n)
    /\ UNCHANGED <<up, electionVars, stops>>

-----------------------------------------------------------------------------
(***************************************************************************)
(* Daemons and time                                                        *)
(***************************************************************************)
\* A replica that stops may leave a push without an answer for ever: pushes
\* have no timeout.  What the coordinator waits for ends with it; a push of
\* its last moments either has arrived or does not.
Stop(n) ==
    /\ n \in up
    /\ stops < MaxStops
    /\ stops' = stops + 1
    /\ up' = up \ {n}
    /\ MonitorStops(n)
    /\ IF n = CoordinatorId
          THEN answers' = {} /\ pushes' = {} /\ hung' = {} /\ since' = LongAgo
          ELSE hung' \in {hung, hung \cup (pushes \cap {n})} /\ UNCHANGED <<answers, pushes, since>>
    /\ UNCHANGED <<view, behind, requests>>

Start(n) ==
    /\ n \notin up
    /\ up' = up \cup {n}
    /\ UNCHANGED <<monitorVars, view, behind, electionVars, stops>>

Tick ==
    /\ RoundsMayAge
    /\ answers # {} => since = 0
    /\ RoundsAge
    /\ since' = IF since = LongAgo THEN since ELSE since + 1
    /\ UNCHANGED <<up, view, behind, requests, answers, pushes, hung, stops>>

-----------------------------------------------------------------------------
Next ==
    \/ \E n \in Nodes : Reelect(n) \/ AnswerPoll(n) \/ Stop(n) \/ Start(n)
    \/ \E n \in Replicas : \/ ReceiveRequest(n) \/ LoseRequest(n)
                           \/ EndPush(n) \/ CheckConfig(n)
    \/ \E n \in Nodes, s \in Slots : StartRound(n, s) \/ EndPing(n, s) \/ EndRound(n, s)
    \/ PeriodicElection
    \/ Elect
    \/ Tick

Spec == Init /\ [][Next]_vars

\* Rounds start, pings, polls, requests and pushes that do not hang end, and
\* time goes on.  The timer is not here: the properties say when they need it.
Fairness ==
    /\ \A n \in Nodes, s \in Slots :
          WF_vars(StartRound(n, s)) /\ WF_vars(EndPing(n, s)) /\ WF_vars(EndRound(n, s))
    /\ \A n \in Replicas : WF_vars(EndPush(n)) /\ WF_vars(CheckConfig(n))
    /\ WF_vars(Elect)
    /\ WF_vars(Tick)

FairSpec == Spec /\ Fairness

-----------------------------------------------------------------------------
(***************************************************************************)
(* Properties                                                              *)
(***************************************************************************)
\* A round of the coordinator that makes it elect looks at its leader.
WatchElectsAgainstLeader ==
    \A s \in Slots :
        (/\ rounds[CoordinatorId][s] # NoRound
         /\ RoundEnds(CoordinatorId, s)
         /\ answers = {}
         /\ answers' # {})
            => rounds[CoordinatorId][s].leader = Leader

\* A round of pings of the coordinator that began under a leader which an
\* election has replaced since never makes it start the next election: the
\* cooldown outlasts the poll and the round together.
WatchIsCurrent == [][WatchElectsAgainstLeader]_vars

\* A leader makes way only to a node that answered the poll of this election,
\* and only when nobody waits for the leader of an earlier one any more: pushes
\* of two elections are never under way together, so that none can be late,
\* as long as the coordinator runs: one sent before a restart is not followed.
LeadersFollowInTurn == [][Leader' # Leader => Leader' \in answers /\ pushes = {}]_vars

LeaderUp == CoordinatorId \in up => Leader \in up

NoPushHangs == hung = {}

RoundsDoNotOverlap ==
    \A n \in Nodes, s, t \in Slots :
        rounds[n][s] # NoRound /\ rounds[n][t] # NoRound => s = t

\* No leader stays down for good while the coordinator runs, whatever the
\* nodes' rounds miss, if no push hangs and the timer goes off.
DeadLeaderReplaced ==
    WF_vars(PeriodicElection) /\ []NoPushHangs => []<>LeaderUp

\* The rounds of pings alone see to it, without the timer, as long as they do
\* not overlap: an attempt the cooldown refuses is repeated until it is not.
LeaderWatched ==
    []RoundsDoNotOverlap /\ []NoPushHangs => []<>LeaderUp
=============================================================================
