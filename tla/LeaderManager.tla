--------------------------- MODULE LeaderManager ---------------------------
(***************************************************************************)
(* The leader manager of every daemon (src/cluster/leaderManager.ts): the  *)
(* rounds in which the leader of the cluster balances the leaders of the   *)
(* Patroni services over the nodes and reboots the nodes that require it,  *)
(* with the handlers it asks on the nodes (/get_node_report and /reboot,   *)
(* src/app/httpServer.ts).                                                 *)
(*                                                                         *)
(* A node is the leader in its own configuration or is not: while an       *)
(* election's result is on its way two nodes may both take themselves for  *)
(* the leader.  A round is as many actions as it has awaits.  Services are *)
(* deployed before and stay; web services are of no concern here.  Loads,  *)
(* which break ties and allow the coordinator's reboot, are left open, and *)
(* so is the time of day.                                                  *)
(***************************************************************************)
EXTENDS PatroniClusters

CONSTANTS
    Coordinator,   \* the node that elects the leader
    NoReport,      \* the node has not reported
    MaxElections,  \* bound: so often a new leader is elected
    MaxUpgrades,   \* bound: so often a node comes to require a reboot
    MaxFaults      \* bound: so often something fails

ASSUME CoordinatorAssumption == Coordinator \in Nodes

ASSUME BoundsAssumption == {MaxElections, MaxUpgrades, MaxFaults} \subseteq Nat

VARIABLES
    view,         \* view[n]: the leader in the configuration of n
    needsReboot,  \* needsReboot[n]: /var/run/reboot-required exists
    round,        \* round[n]: the round that runs on n (isCheckingCluster)
    requests,     \* requests to /reboot that nodes are handling
    accepted,     \* nodes that have accepted one and reboot in a second
    elections,    \* elections so far
    upgrades,     \* reboots that came to be required so far
    faults        \* faults so far

managerVars == <<round, requests, accepted>>

bounds == <<elections, upgrades, faults>>

vars == <<up, primary, streaming, view, needsReboot, round, requests, accepted,
          elections, upgrades, faults>>

Reports == [lead : SUBSET Services, needs : BOOLEAN]

\* from is the node leaderships are taken from, to the one they are given
\* when they are balanced, todo the nodes or services still to be asked.
Rounds ==
    [phase : {"idle", "reporting", "balancing", "promoting", "checking", "draining",
              "requesting"},
     reports : [Nodes -> Reports \cup {NoReport}],
     from : Nodes, to : Nodes, todo : SUBSET Services, silent : SUBSET Nodes]

\* by is the node that waits for the answer, or nobody: two requests to a
\* node that have been given up after as many tries are one.
Requests == [by : SUBSET Nodes, node : Nodes, tries : 0 .. 2]

NoRound ==
    [phase |-> "idle", reports |-> [n \in Nodes |-> NoReport],
     from |-> Coordinator, to |-> Coordinator, todo |-> {}, silent |-> {}]

TypeOK ==
    /\ PatroniTypeOK
    /\ view \in [Nodes -> Nodes]
    /\ needsReboot \in [Nodes -> BOOLEAN]
    /\ round \in [Nodes -> Rounds]
    /\ requests \subseteq Requests
    /\ accepted \subseteq Nodes
    /\ elections \in 0 .. MaxElections
    /\ upgrades \in 0 .. MaxUpgrades
    /\ faults \in 0 .. MaxFaults

Init ==
    /\ PatroniInit
    /\ view = [n \in Nodes |-> Coordinator]
    /\ needsReboot = [n \in Nodes |-> FALSE]
    /\ round = [n \in Nodes |-> NoRound]
    /\ requests = {}
    /\ accepted = {}
    /\ elections = 0
    /\ upgrades = 0
    /\ faults = 0

Fault == faults < MaxFaults /\ faults' = faults + 1

IsFirst(x, xs) == x \in xs /\ \A y \in xs : x <= y

-----------------------------------------------------------------------------
(***************************************************************************)
(* The decisions of a round, from its reports r.                           *)
(***************************************************************************)
Reported(r) == {n \in Nodes : r[n] # NoReport}

OptimalLeaderships(k) == (Cardinality(Services) + k - 1) \div k

\* Mutant: one leadership too many is not enough.
OverloadedByTwo(r) ==
    {n \in Reported(r) :
        Cardinality(r[n].lead) > OptimalLeaderships(Cardinality(Reported(r))) + 1}

Overloaded(r) ==
    {n \in Reported(r) :
        Cardinality(r[n].lead) > OptimalLeaderships(Cardinality(Reported(r)))}

Underloaded(r) ==
    {n \in Reported(r) :
        Cardinality(r[n].lead) < OptimalLeaderships(Cardinality(Reported(r)))}

\* Mutant: the leader is rebooted like any other node.
RebootableWithLeader(r, leader, night) ==
    {n \in Reported(r) : r[n].needs /\ (n = Coordinator => night)}

\* The coordinator is rebooted only at night and when it is idle.
Rebootable(r, leader, night) ==
    {n \in Reported(r) \ {leader} : r[n].needs /\ (n = Coordinator => night)}

\* Mutant: nothing is drained to the leader of the cluster.
DrainTargetsWithoutLeader(m, r, n) ==
    {c \in Reported(r) \ {n, m} :
        ~ r[c].needs /\ \A d \in Reported(r) \ {n, m} :
            ~ r[d].needs => Cardinality(r[c].lead) <= Cardinality(r[d].lead)}

\* Where a leadership of n may be drained to by m: of the nodes that require
\* no reboot one with the fewest leaderships.
DrainTargets(m, r, n) ==
    LET candidates == {c \in Reported(r) \ {n} : ~ r[c].needs}
    IN  {c \in candidates :
            \A d \in candidates : Cardinality(r[c].lead) <= Cardinality(r[d].lead)}

-----------------------------------------------------------------------------
(***************************************************************************)
(* A round on node m                                                       *)
(***************************************************************************)
InPhase(m, phase) == up[m] /\ round[m].phase = phase

Continue(m, rnd) == round' = [round EXCEPT ![m] = rnd]

EndRound(m) == Continue(m, NoRound)

\* requestNodeReboot.  A node that is down does not get the request.
RequestReboot(m, rnd) ==
    /\ Continue(m, [rnd EXCEPT !.phase = "requesting"])
    /\ \/ /\ up[rnd.from]
          /\ requests' = requests \cup {[by |-> {m}, node |-> rnd.from, tries |-> 0]}
       \/ ~ up[rnd.from] /\ UNCHANGED requests

\* handleRequiredReboots, to its next promotion: promoteToPatroniLeader looks
\* who leads the cluster before its first await.
DrainOrReboot(m, rnd) ==
    \/ /\ rnd.todo = {}
       /\ RequestReboot(m, rnd)
    \/ /\ rnd.todo # {}
       /\ IF DrainTargets(m, rnd.reports, rnd.from) # {} /\ view[m] = m
             THEN Continue(m, [rnd EXCEPT !.phase = "draining"])
             ELSE EndRound(m)
       /\ UNCHANGED requests

\* handleRequiredReboots, to its first await: the first node that may be
\* rebooted is chosen.
SelectReboot(m) ==
    \E night \in BOOLEAN :
        LET rnd == round[m]
            nodes == Rebootable(rnd.reports, view[m], night)
        IN  \/ /\ Cardinality(Reported(rnd.reports)) < 2 \/ nodes = {}
               /\ EndRound(m)
               /\ UNCHANGED requests
            \/ /\ Cardinality(Reported(rnd.reports)) >= 2
               /\ \E n \in Nodes :
                     /\ IsFirst(n, nodes)
                     /\ LET chosen == [rnd EXCEPT !.phase = "checking", !.from = n,
                                                  !.todo = rnd.reports[n].lead]
                        IN  IF chosen.todo = {} THEN RequestReboot(m, chosen)
                                                ELSE Continue(m, chosen) /\ UNCHANGED requests

StartRound(m) ==
    /\ InPhase(m, "idle")
    /\ view[m] = m
    /\ Continue(m, [NoRound EXCEPT !.phase = "reporting", !.silent = Nodes])
    /\ UNCHANGED <<up, primary, streaming, view, needsReboot, requests, accepted, bounds>>

\* POST /get_node_report on n.  A Patroni that does not answer its own node
\* counts as no leader.
Report(m, n) ==
    /\ InPhase(m, "reporting")
    /\ n \in round[m].silent
    /\ up[n]
    /\ \E lead \in SUBSET Lead(n) :
          /\ \/ lead = Lead(n) /\ UNCHANGED faults
             \/ lead # Lead(n) /\ Fault
          /\ Continue(m, [round[m] EXCEPT
                 !.reports[n] = [lead |-> lead, needs |-> needsReboot[n]],
                 !.silent = @ \ {n}])
    /\ UNCHANGED <<up, primary, streaming, view, needsReboot, requests, accepted,
                   elections, upgrades>>

ReportFails(m, n) ==
    /\ InPhase(m, "reporting")
    /\ n \in round[m].silent
    /\ \/ ~ up[n] /\ UNCHANGED faults
       \/ up[n] /\ Fault
    /\ Continue(m, [round[m] EXCEPT !.silent = @ \ {n}])
    /\ UNCHANGED <<up, primary, streaming, view, needsReboot, requests, accepted,
                   elections, upgrades>>

\* Every node has reported or failed to: handlePatroniBalancing, to its
\* first await, and handleRequiredReboots if there is nothing to balance.
Decide(m) ==
    LET r == round[m].reports IN
    /\ InPhase(m, "reporting")
    /\ round[m].silent = {}
    /\ \/ /\ Overloaded(r) = {} \/ Underloaded(r) = {}
          /\ SelectReboot(m)
       \/ \E from \in Nodes, to \in Nodes :
             /\ IsFirst(from, Overloaded(r))
             /\ IsFirst(to, Underloaded(r))
             /\ Continue(m, [round[m] EXCEPT !.phase = "balancing", !.from = from, !.to = to,
                                             !.todo = r[from].lead])
             /\ UNCHANGED requests
    /\ UNCHANGED <<up, primary, streaming, view, needsReboot, accepted, bounds>>

\* The health of the next service that might be moved, and, if it is healthy,
\* promoteToPatroniLeader up to its first await.  Where no leader is found, or
\* none answers in time, getPatroniHealth throws out of the round.
BalancingCheck(m) ==
    /\ InPhase(m, "balancing")
    /\ \E s \in Services :
          /\ IsFirst(s, round[m].todo)
          /\ \/ /\ Healthy(s)
                /\ IF view[m] = m
                      THEN Continue(m, [round[m] EXCEPT !.phase = "promoting"]) /\ UNCHANGED requests
                      ELSE SelectReboot(m)
                /\ UNCHANGED faults
             \/ /\ (LeaderFound(s) /\ ~ Healthy(s) /\ UNCHANGED faults) \/ Fault
                /\ IF round[m].todo = {s}
                      THEN SelectReboot(m)
                      ELSE Continue(m, [round[m] EXCEPT !.todo = @ \ {s}]) /\ UNCHANGED requests
             \/ /\ (~ LeaderFound(s) /\ UNCHANGED faults) \/ Fault
                /\ EndRound(m)
                /\ UNCHANGED requests
    /\ UNCHANGED <<up, primary, streaming, view, needsReboot, accepted, elections, upgrades>>

\* promoteToPatroniLeader returns false: the service has no leader, Patroni
\* refuses, or its answer is lost or too late.
PromotionFails(s, n) ==
    \/ /\ \/ ~ (LeaderFound(s) /\ n \in streaming[s]) /\ UNCHANGED faults
          \/ Fault
       /\ UNCHANGED <<up, primary, streaming>>
    \/ Fault /\ Switchover(s, n)

BalancingPromotion(m) ==
    /\ InPhase(m, "promoting")
    /\ \E s \in Services :
          /\ IsFirst(s, round[m].todo)
          /\ \/ /\ Switchover(s, round[m].to)
                /\ EndRound(m)
                /\ UNCHANGED <<requests, faults>>
             \/ /\ PromotionFails(s, round[m].to)
                /\ SelectReboot(m)
    /\ UNCHANGED <<view, needsReboot, accepted, elections, upgrades>>

-----------------------------------------------------------------------------
\* Every service of the node has to be healthy before the first is drained.
DrainCheck(m) ==
    /\ InPhase(m, "checking")
    /\ \E s \in Services :
          /\ IsFirst(s, round[m].todo)
          /\ \/ /\ Healthy(s)
                /\ IF round[m].todo # {s}
                      THEN Continue(m, [round[m] EXCEPT !.todo = @ \ {s}]) /\ UNCHANGED requests
                      ELSE DrainOrReboot(m,
                              [round[m] EXCEPT !.todo = round[m].reports[round[m].from].lead])
                /\ UNCHANGED faults
             \/ /\ (~ Healthy(s) /\ UNCHANGED faults) \/ Fault
                /\ EndRound(m)
                /\ UNCHANGED requests
    /\ UNCHANGED <<up, primary, streaming, view, needsReboot, accepted, elections, upgrades>>

\* The next service of the node is promoted elsewhere; after the last the
\* reboot is requested.
Drain(m) ==
    /\ InPhase(m, "draining")
    /\ \E s \in Services, n \in DrainTargets(m, round[m].reports, round[m].from) :
          /\ IsFirst(s, round[m].todo)
          /\ \/ /\ Switchover(s, n)
                /\ DrainOrReboot(m,
                      [round[m] EXCEPT !.todo = @ \ {s}, !.reports[n].lead = @ \cup {s}])
                /\ UNCHANGED faults
             \/ /\ PromotionFails(s, n)
                /\ EndRound(m)
                /\ UNCHANGED requests
    /\ UNCHANGED <<view, needsReboot, accepted, elections, upgrades>>

\* The requests, with that of m left to run unawaited.
GivenUp(m) == {[q EXCEPT !.by = @ \ {m}] : q \in requests}

\* The request fails, for the node is down, or is given up after 20 s.
RequestFails(m) ==
    /\ InPhase(m, "requesting")
    /\ \/ ~ (\E q \in requests : m \in q.by) /\ UNCHANGED faults
       \/ Fault
    /\ EndRound(m)
    /\ requests' = GivenUp(m)
    /\ UNCHANGED <<up, primary, streaming, view, needsReboot, accepted, elections, upgrades>>

-----------------------------------------------------------------------------
(***************************************************************************)
(* POST /reboot on the node (waitUntilRebootSafe): it looks for services   *)
(* it leads, up to two times, and waits five seconds after each time it    *)
(* finds one.                                                              *)
(***************************************************************************)
\* Mutant: the handler tries as often as REBOOT_RETRY_COUNT says.
TriesOfRetryCount == 3

RebootTries == 2

Answered(q) ==
    /\ requests' = requests \ {q}
    /\ round' = [m \in Nodes |-> IF m \in q.by THEN NoRound ELSE round[m]]

\* A Patroni that does not answer its own node counts as no leader.
AcceptReboot(q) ==
    /\ q.tries < RebootTries
    /\ \/ Lead(q.node) = {} /\ UNCHANGED faults
       \/ Lead(q.node) # {} /\ Fault
    /\ accepted' = accepted \cup {q.node}
    /\ Answered(q)
    /\ UNCHANGED <<up, primary, streaming, view, needsReboot, elections, upgrades>>

WaitForReboot(q) ==
    /\ q.tries < RebootTries
    /\ Lead(q.node) # {}
    /\ requests' = (requests \ {q}) \cup {[q EXCEPT !.tries = @ + 1]}
    /\ UNCHANGED <<up, primary, streaming, view, needsReboot, round, accepted, bounds>>

RefuseReboot(q) ==
    /\ q.tries = RebootTries
    /\ Answered(q)
    /\ UNCHANGED <<up, primary, streaming, view, needsReboot, accepted, bounds>>

-----------------------------------------------------------------------------
(***************************************************************************)
(* Nodes, elections and Patroni                                            *)
(***************************************************************************)
\* What node n was doing is gone, and so is /var/run/reboot-required.
Stop(n) ==
    /\ GoDown(n)
    /\ needsReboot' = [needsReboot EXCEPT ![n] = FALSE]
    /\ round' = [round EXCEPT ![n] = NoRound]
    /\ requests' = {q \in GivenUp(n) : q.node # n}
    /\ accepted' = accepted \ {n}
    /\ UNCHANGED <<view, elections, upgrades>>

Reboot(n) == n \in accepted /\ Stop(n) /\ UNCHANGED faults

Crash(n) == Fault /\ Stop(n)

Start(n) ==
    /\ ComeUp(n)
    /\ UNCHANGED <<view, needsReboot, managerVars, bounds>>

\* An upgrade of the system requires a reboot.
Upgrade(n) ==
    /\ upgrades < MaxUpgrades
    /\ upgrades' = upgrades + 1
    /\ up[n]
    /\ ~ needsReboot[n]
    /\ needsReboot' = [needsReboot EXCEPT ![n] = TRUE]
    /\ UNCHANGED <<up, primary, streaming, view, managerVars, elections, faults>>

\* The coordinator elects another leader: any node it has polled, which may
\* have gone down since.
ElectLeader(n) ==
    /\ elections < MaxElections
    /\ elections' = elections + 1
    /\ up[Coordinator]
    /\ n # view[Coordinator]
    /\ view' = [view EXCEPT ![Coordinator] = n]
    /\ UNCHANGED <<up, primary, streaming, needsReboot, managerVars, upgrades, faults>>

\* The result reaches node n, by a push or a config check.
LearnLeader(n) ==
    /\ up[Coordinator]
    /\ up[n]
    /\ view[n] # view[Coordinator]
    /\ view' = [view EXCEPT ![n] = view[Coordinator]]
    /\ UNCHANGED <<up, primary, streaming, needsReboot, managerVars, bounds>>

Patroni(s, n) ==
    /\ Failover(s, n) \/ CatchUp(s, n)
    /\ UNCHANGED <<view, needsReboot, managerVars, bounds>>

\* A replica falls behind the limit of the service.
FallBehind(s, n) ==
    /\ Fault
    /\ n \in streaming[s]
    /\ streaming' = [streaming EXCEPT ![s] = @ \ {n}]
    /\ UNCHANGED <<up, primary, view, needsReboot, managerVars, elections, upgrades>>

-----------------------------------------------------------------------------
RoundStep(m) ==
    \/ StartRound(m)
    \/ \E n \in Nodes : Report(m, n) \/ ReportFails(m, n)
    \/ Decide(m)
    \/ BalancingCheck(m)
    \/ BalancingPromotion(m)
    \/ DrainCheck(m)
    \/ Drain(m)
    \/ RequestFails(m)

HandlerStep(q) ==
    /\ q \in requests
    /\ AcceptReboot(q) \/ WaitForReboot(q) \/ RefuseReboot(q)

Next ==
    \/ \E m \in Nodes : RoundStep(m)
    \/ \E q \in requests : HandlerStep(q)
    \/ \E n \in Nodes : \/ Reboot(n)
                        \/ Crash(n)
                        \/ Start(n)
                        \/ Upgrade(n)
                        \/ ElectLeader(n)
                        \/ LearnLeader(n)
    \/ \E s \in Services, n \in Nodes : Patroni(s, n) \/ FallBehind(s, n)

Spec == Init /\ [][Next]_vars

\* Timers fire, requests end, nodes come back, and Patroni does its part.
Fairness ==
    /\ \A n \in Nodes :
          /\ WF_vars(RoundStep(n))
          /\ WF_vars(Reboot(n))
          /\ WF_vars(Start(n))
          /\ WF_vars(LearnLeader(n))
    /\ \A q \in Requests : WF_vars(HandlerStep(q))
    /\ \A s \in Services, n \in Nodes : WF_vars(Patroni(s, n))

FairSpec == Spec /\ Fairness

-----------------------------------------------------------------------------
(***************************************************************************)
(* Properties                                                              *)
(***************************************************************************)
Leader == view[Coordinator]

\* When nodes, elections and upgrades come to rest, no node leads more
\* services than its share, although the leader decides from reports that
\* age while it decides, and drains nodes that it then balances again.
LeadershipsBalanced ==
    <>[](\A n \in Nodes :
            Cardinality(Lead(n)) <= OptimalLeaderships(Cardinality(Nodes)))

\* If the leader itself comes to require no reboot, every other node that
\* requires one is rebooted, the coordinator excepted, which waits for the
\* night: draining and balancing do not undo each other's work for ever.
RebootsHappen ==
    <>[](~ needsReboot[Leader]) =>
        <>[](\A n \in Nodes \ {Coordinator, Leader} : ~ needsReboot[n])

\* Until another leader is elected the leader is not rebooted, whatever fails
\* and whichever requests were given up, and if nothing fails the nodes are
\* asked to reboot one at a time.  (A node that has answered is no longer
\* counted: it may still be down when the next one is asked.)
LeaderNotRebooted ==
    elections = 0 =>
        /\ Leader \notin accepted
        /\ \A q \in requests : q.node # Leader
        /\ faults = 0 => \A q, r \in requests : q = r
=============================================================================
