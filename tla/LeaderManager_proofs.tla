------------------------ MODULE LeaderManager_proofs ------------------------
(***************************************************************************)
(* Proofs about LeaderManager, for any number of nodes, services,          *)
(* elections, upgrades and faults.                                         *)
(***************************************************************************)
EXTENDS LeaderManager, FiniteSetTheorems, Functions, TLAPS

\* The node whose services are checked before it is drained has reported.
CheckedRounds ==
    {rnd \in Rounds : rnd.phase = "checking" => rnd.reports[rnd.from] \in Reports}

CheckedReported == \A m \in Nodes : round[m] \in CheckedRounds

\* A request is waited for by the round that made it and by no other.
RebootsAwaited ==
    /\ \A q \in requests : \A m \in q.by :
          round[m].phase = "requesting" /\ round[m].from = q.node
    /\ \A q, r \in requests : q.by \cap r.by # {} => q = r

IInv == TypeOK /\ CheckedReported /\ RebootsAwaited

\* What the actions of Patroni and of the nodes may change.
LEMMA PatroniStepType ==
    ASSUME PatroniTypeOK, NEW s \in Services, NEW n \in Nodes,
           Switchover(s, n) \/ Failover(s, n) \/ CatchUp(s, n)
    PROVE  PatroniTypeOK'
BY DEF PatroniTypeOK, Switchover, Failover, CatchUp

LEMMA NodeStepType ==
    ASSUME PatroniTypeOK, NEW n \in Nodes, GoDown(n) \/ ComeUp(n)
    PROVE  PatroniTypeOK'
<1>1. up' \in [Nodes -> BOOLEAN]
  BY DEF PatroniTypeOK, GoDown, ComeUp
<1>2. primary' \in [Services -> Nodes] /\ streaming' \in [Services -> SUBSET Nodes]
  BY DEF PatroniTypeOK, GoDown, ComeUp
<1>3. QED
  BY <1>1, <1>2 DEF PatroniTypeOK

LEMMA NoRoundType == NoRound \in Rounds
<1>1. [n \in Nodes |-> NoReport] \in [Nodes -> Reports \cup {NoReport}]
  OBVIOUS
<1>2. QED
  BY <1>1, CoordinatorAssumption DEF NoRound, Rounds

\* The fields of a round, and the rounds and requests that steps make of one.
LEMMA RoundType ==
    ASSUME NEW rnd \in Rounds
    PROVE  /\ rnd.reports \in [Nodes -> Reports \cup {NoReport}]
           /\ rnd.from \in Nodes /\ rnd.to \in Nodes
           /\ rnd.todo \subseteq Services /\ rnd.silent \subseteq Nodes
BY DEF Rounds

\* The rounds that steps make of one.
LEMMA BalancingRound ==
    ASSUME NEW rnd \in Rounds, NEW from \in Nodes, NEW to \in Nodes,
           NEW todo \in SUBSET Services
    PROVE  [rnd EXCEPT !.phase = "balancing", !.from = from, !.to = to, !.todo = todo]
              \in CheckedRounds
BY DEF Rounds, CheckedRounds

LEMMA ReportedRound ==
    ASSUME NEW rnd \in Rounds, rnd.phase = "reporting", NEW n \in Nodes,
           NEW report \in Reports
    PROVE  [rnd EXCEPT !.reports[n] = report, !.silent = @ \ {n}] \in CheckedRounds
<1>1. [rnd.reports EXCEPT ![n] = report] \in [Nodes -> Reports \cup {NoReport}]
  BY RoundType
<1>2. QED
  BY <1>1 DEF Rounds, CheckedRounds

LEMMA DrainedRound ==
    ASSUME NEW rnd \in Rounds, rnd.phase = "draining", NEW s \in Services, NEW n \in Nodes,
           rnd.reports[n] \in Reports
    PROVE  [rnd EXCEPT !.todo = @ \ {s}, !.reports[n].lead = @ \cup {s}] \in CheckedRounds
<1> DEFINE report == [rnd.reports[n] EXCEPT !.lead = @ \cup {s}]
<1>1. report \in Reports
  BY DEF Reports
<1> HIDE DEF report
<1>2. [rnd.reports EXCEPT ![n] = report] \in [Nodes -> Reports \cup {NoReport}]
  BY <1>1, RoundType
<1>3. [rnd EXCEPT !.todo = @ \ {s}, !.reports = [rnd.reports EXCEPT ![n] = report]]
         \in CheckedRounds
  BY <1>2 DEF Rounds, CheckedRounds
<1>4. QED
  BY <1>3 DEF report

\* What the steps do to a round that only moves on.
LEMMA MovedRounds ==
    ASSUME NEW rnd \in CheckedRounds
    PROVE  /\ rnd \in Rounds
           /\ [rnd EXCEPT !.phase = "promoting"] \in CheckedRounds
           /\ \A s : [rnd EXCEPT !.todo = @ \ {s}] \in CheckedRounds
           /\ \A n : [rnd EXCEPT !.silent = @ \ {n}] \in CheckedRounds
BY DEF CheckedRounds, Rounds

LEMMA FaultType ==
    ASSUME TypeOK, Fault \/ UNCHANGED faults
    PROVE  faults' \in 0 .. MaxFaults
BY BoundsAssumption DEF TypeOK, Fault

-----------------------------------------------------------------------------
(***************************************************************************)
(* What a step of a round makes of the rounds and of the requests.         *)
(***************************************************************************)
RoundsOK ==
    /\ round' \in [Nodes -> Rounds]
    /\ requests' \subseteq Requests
    /\ CheckedReported'
    /\ RebootsAwaited'

\* No request is waited for by a node whose round is not requesting one.
NotRequesting(m) == \A q \in requests : m \notin q.by

LEMMA OtherPhases ==
    ASSUME RebootsAwaited, NEW m \in Nodes, round[m].phase # "requesting"
    PROVE  NotRequesting(m)
BY DEF RebootsAwaited, NotRequesting

LEMMA ContinueOK ==
    ASSUME IInv, NEW m \in Nodes, NotRequesting(m), NEW rnd \in CheckedRounds,
           Continue(m, rnd), UNCHANGED requests
    PROVE  RoundsOK
<1>1. round' = [round EXCEPT ![m] = rnd] /\ round \in [Nodes -> Rounds]
  BY DEF Continue, IInv, TypeOK
<1>2. rnd \in Rounds
  BY MovedRounds
<1>3. round' \in [Nodes -> Rounds] /\ requests' \subseteq Requests
  BY <1>1, <1>2 DEF IInv, TypeOK
<1>4. CheckedReported'
  BY <1>1 DEF IInv, CheckedReported
<1>5. RebootsAwaited'
  <2>1. \A q \in requests : \A n \in q.by : n \in Nodes /\ n # m
    BY DEF NotRequesting, IInv, TypeOK, Requests
  <2>2. \A n \in Nodes : n # m => round'[n] = round[n]
    BY <1>1
  <2>3. QED
    BY <2>1, <2>2 DEF IInv, RebootsAwaited
<1>6. QED
  BY <1>3, <1>4, <1>5 DEF RoundsOK

LEMMA EndRoundOK ==
    ASSUME IInv, NEW m \in Nodes, NotRequesting(m), EndRound(m), UNCHANGED requests
    PROVE  RoundsOK
<1>1. NoRound \in CheckedRounds
  BY NoRoundType DEF NoRound, CheckedRounds
<1>2. QED
  BY <1>1, ContinueOK DEF EndRound

LEMMA RequestRebootOK ==
    ASSUME IInv, NEW m \in Nodes, NotRequesting(m), NEW rnd \in Rounds,
           RequestReboot(m, rnd)
    PROVE  RoundsOK
<1> USE DEF RequestReboot
<1> DEFINE asking == [rnd EXCEPT !.phase = "requesting"]
           request == [by |-> {m}, node |-> rnd.from, tries |-> 0]
<1>1. asking \in CheckedRounds /\ asking \in Rounds
  BY DEF Rounds, CheckedRounds
<1>2. request \in Requests
  BY RoundType DEF Requests
<1>3. asking.phase = "requesting" /\ asking.from = request.node /\ request.by = {m}
  BY DEF Rounds
<1>d. CASE UNCHANGED requests
  BY <1>1, <1>d, ContinueOK
<1> SUFFICES ASSUME requests' = requests \cup {request} PROVE RoundsOK
  BY <1>d
<1>4. /\ round' = [round EXCEPT ![m] = asking] /\ round \in [Nodes -> Rounds]
      /\ requests' = requests \cup {request} /\ requests \subseteq Requests
  BY DEF Continue, IInv, TypeOK
<1> HIDE DEF asking, request, RequestReboot
<1>5. round' \in [Nodes -> Rounds] /\ requests' \subseteq Requests
  BY <1>1, <1>2, <1>4
<1>6. CheckedReported'
  BY <1>1, <1>4 DEF IInv, CheckedReported
<1>7. RebootsAwaited'
  <2>1. round'[m] = asking /\ \A n \in Nodes : n # m => round'[n] = round[n]
    BY <1>4
  <2>2. \A q \in requests : \A n \in q.by : n \in Nodes /\ n # m
    BY DEF NotRequesting, IInv, TypeOK, Requests
  <2>3. \A q \in requests' : \A n \in q.by :
           round'[n].phase = "requesting" /\ round'[n].from = q.node
    BY <1>3, <1>4, <2>1, <2>2 DEF IInv, RebootsAwaited
  <2>4. \A q, r \in requests' : q.by \cap r.by # {} => q = r
    <3>1. \A q \in requests : q.by \cap request.by = {}
      BY <1>3, <2>2
    <3>2. QED
      BY <1>4, <3>1 DEF IInv, RebootsAwaited
  <2>5. QED
    BY <2>3, <2>4 DEF RebootsAwaited
<1>8. QED
  BY <1>5, <1>6, <1>7 DEF RoundsOK

LEMMA DrainOrRebootOK ==
    ASSUME IInv, NEW m \in Nodes, NotRequesting(m), NEW rnd \in Rounds,
           DrainOrReboot(m, rnd)
    PROVE  RoundsOK
<1>1. [rnd EXCEPT !.phase = "draining"] \in CheckedRounds
  BY DEF Rounds, CheckedRounds
<1>2. QED
  BY <1>1, RequestRebootOK, ContinueOK, EndRoundOK DEF DrainOrReboot

LEMMA SelectRebootOK ==
    ASSUME IInv, NEW m \in Nodes, NotRequesting(m), SelectReboot(m)
    PROVE  RoundsOK
<1>1. round[m] \in Rounds
  BY DEF IInv, TypeOK
<1>2. CASE EndRound(m) /\ UNCHANGED requests
  BY <1>2, EndRoundOK
<1>3. ASSUME NEW night \in BOOLEAN, NEW n \in Nodes,
             n \in Rebootable(round[m].reports, view[m], night),
             LET chosen == [round[m] EXCEPT !.phase = "checking", !.from = n,
                                            !.todo = round[m].reports[n].lead]
             IN  IF chosen.todo = {} THEN RequestReboot(m, chosen)
                                     ELSE Continue(m, chosen) /\ UNCHANGED requests
      PROVE  RoundsOK
  <2> DEFINE chosen == [round[m] EXCEPT !.phase = "checking", !.from = n,
                                        !.todo = round[m].reports[n].lead]
  <2>1. round[m].reports[n] \in Reports
    BY <1>1, <1>3, RoundType DEF Rebootable, Reported
  <2>2. chosen \in CheckedRounds /\ chosen \in Rounds
    BY <1>1, <2>1 DEF Rounds, Reports, CheckedRounds
  <2> HIDE DEF chosen
  <2>3. RequestReboot(m, chosen) \/ (Continue(m, chosen) /\ UNCHANGED requests)
    BY <1>3 DEF chosen
  <2>4. QED
    BY <2>2, <2>3, RequestRebootOK, ContinueOK
<1>4. QED
  BY <1>2, <1>3 DEF SelectReboot, IsFirst

-----------------------------------------------------------------------------
(***************************************************************************)
(* The steps of a round.                                                   *)
(***************************************************************************)
\* A step of a round keeps the invariant if it does what it does to the
\* rounds, the requests, the Patroni clusters and the faults as it should.
LEMMA RestOK ==
    ASSUME IInv, RoundsOK, PatroniTypeOK', faults' \in 0 .. MaxFaults,
           UNCHANGED <<view, needsReboot, accepted, elections, upgrades>>
    PROVE  IInv'
BY DEF IInv, TypeOK, RoundsOK

LEMMA SamePatroni ==
    ASSUME TypeOK, UNCHANGED <<up, primary, streaming>>
    PROVE  PatroniTypeOK'
BY DEF TypeOK, PatroniTypeOK

LEMMA RoundOf ==
    ASSUME IInv, NEW m \in Nodes
    PROVE  round[m] \in CheckedRounds /\ round[m] \in Rounds
BY DEF IInv, CheckedReported, TypeOK

LEMMA InOtherPhase ==
    ASSUME IInv, NEW m \in Nodes, NEW phase, InPhase(m, phase), phase # "requesting"
    PROVE  NotRequesting(m)
BY OtherPhases DEF IInv, InPhase

LEMMA ReportingStep ==
    ASSUME IInv, NEW m \in Nodes, NEW n \in Nodes,
           StartRound(m) \/ Report(m, n) \/ ReportFails(m, n)
    PROVE  IInv'
<1>1. PatroniTypeOK' /\ faults' \in 0 .. MaxFaults
  BY SamePatroni, FaultType DEF StartRound, Report, ReportFails, bounds, IInv
<1>2. NotRequesting(m)
  BY InOtherPhase DEF StartRound, Report, ReportFails
<1>3. RoundsOK
  <2>1. CASE StartRound(m)
    <3>1. [NoRound EXCEPT !.phase = "reporting", !.silent = Nodes] \in CheckedRounds
      BY NoRoundType DEF Rounds, CheckedRounds
    <3>2. QED
      BY <1>2, <2>1, <3>1, ContinueOK DEF StartRound
  <2>2. CASE Report(m, n)
    <3>1. PICK lead \in SUBSET Lead(n) :
             Continue(m, [round[m] EXCEPT
                 !.reports[n] = [lead |-> lead, needs |-> needsReboot[n]],
                 !.silent = @ \ {n}])
      BY <2>2 DEF Report
    <3>2. [lead |-> lead, needs |-> needsReboot[n]] \in Reports
      BY DEF Reports, Lead, TypeOK, IInv
    <3>3. [round[m] EXCEPT !.reports[n] = [lead |-> lead, needs |-> needsReboot[n]],
                           !.silent = @ \ {n}] \in CheckedRounds
      BY <2>2, <3>2, ReportedRound, RoundOf DEF Report, InPhase
    <3>4. QED
      BY <1>2, <2>2, <3>1, <3>3, ContinueOK DEF Report
  <2>3. CASE ReportFails(m, n)
    BY <1>2, <2>3, RoundOf, MovedRounds, ContinueOK DEF ReportFails
  <2>4. QED
    BY <2>1, <2>2, <2>3
<1>4. QED
  BY <1>1, <1>3, RestOK DEF StartRound, Report, ReportFails, bounds

LEMMA DecideStep ==
    ASSUME IInv, NEW m \in Nodes, Decide(m)
    PROVE  IInv'
<1>1. NotRequesting(m)
  BY InOtherPhase DEF Decide
<1>2. RoundsOK
  <2>1. CASE SelectReboot(m)
    BY <1>1, <2>1, SelectRebootOK
  <2>2. ASSUME NEW from \in Nodes, NEW to \in Nodes, from \in Overloaded(round[m].reports),
               Continue(m, [round[m] EXCEPT !.phase = "balancing", !.from = from, !.to = to,
                                            !.todo = round[m].reports[from].lead]),
               UNCHANGED requests
        PROVE  RoundsOK
    <3>1. round[m].reports[from] \in Reports
      BY <2>2, RoundOf, RoundType DEF Overloaded, Reported
    <3>2. [round[m] EXCEPT !.phase = "balancing", !.from = from, !.to = to,
                           !.todo = round[m].reports[from].lead] \in CheckedRounds
      BY <3>1, RoundOf, BalancingRound DEF Reports
    <3>3. QED
      BY <1>1, <2>2, <3>2, ContinueOK
  <2>3. QED
    BY <2>1, <2>2 DEF Decide, IsFirst
<1>3. QED
  BY <1>2, SamePatroni, FaultType, RestOK DEF Decide, bounds, IInv

LEMMA BalancingCheckStep ==
    ASSUME IInv, NEW m \in Nodes, BalancingCheck(m)
    PROVE  IInv'
<1>1. NotRequesting(m)
  BY InOtherPhase DEF BalancingCheck
<1>2. faults' \in 0 .. MaxFaults
  BY FaultType DEF BalancingCheck, IInv
<1>3. RoundsOK
  BY <1>1, RoundOf, MovedRounds, SelectRebootOK, ContinueOK, EndRoundOK DEF BalancingCheck
<1>4. QED
  BY <1>2, <1>3, SamePatroni, RestOK DEF BalancingCheck, IInv

LEMMA PromotionType ==
    ASSUME TypeOK, NEW s \in Services, NEW n \in Nodes,
           (Switchover(s, n) /\ UNCHANGED faults) \/ PromotionFails(s, n)
    PROVE  PatroniTypeOK' /\ faults' \in 0 .. MaxFaults
<1>1. PatroniTypeOK
  BY DEF TypeOK
<1>2. QED
  BY <1>1, SamePatroni, PatroniStepType, FaultType DEF PromotionFails

LEMMA BalancingPromotionStep ==
    ASSUME IInv, NEW m \in Nodes, BalancingPromotion(m)
    PROVE  IInv'
<1>1. NotRequesting(m)
  BY InOtherPhase DEF BalancingPromotion
<1>2. RoundsOK
  BY <1>1, SelectRebootOK, EndRoundOK DEF BalancingPromotion
<1>3. round[m].to \in Nodes
  BY RoundOf, RoundType
<1>4. PatroniTypeOK' /\ faults' \in 0 .. MaxFaults
  BY <1>3, PromotionType DEF BalancingPromotion, IInv
<1>5. QED
  BY <1>2, <1>4, RestOK DEF BalancingPromotion

LEMMA DrainCheckStep ==
    ASSUME IInv, NEW m \in Nodes, DrainCheck(m)
    PROVE  IInv'
<1>1. NotRequesting(m)
  BY InOtherPhase DEF DrainCheck
<1>2. faults' \in 0 .. MaxFaults
  BY FaultType DEF DrainCheck, IInv
<1>3. RoundsOK
  <2> DEFINE all == [round[m] EXCEPT !.todo = round[m].reports[round[m].from].lead]
  <2>1. CASE EndRound(m) /\ UNCHANGED requests
    BY <1>1, <2>1, EndRoundOK
  <2>2. CASE \E s \in Services :
                Continue(m, [round[m] EXCEPT !.todo = @ \ {s}]) /\ UNCHANGED requests
    BY <1>1, <2>2, RoundOf, MovedRounds, ContinueOK
  <2>3. CASE DrainOrReboot(m, all)
    <3>1. round[m].reports[round[m].from].lead \subseteq Services
      BY RoundOf DEF DrainCheck, InPhase, CheckedRounds, Reports
    <3>2. all \in Rounds
      BY <3>1, RoundOf DEF Rounds
    <3>3. QED
      BY <1>1, <2>3, <3>2, DrainOrRebootOK
  <2>4. QED
    BY <2>1, <2>2, <2>3 DEF DrainCheck
<1>4. QED
  BY <1>2, <1>3, SamePatroni, RestOK DEF DrainCheck, IInv

LEMMA DrainStep ==
    ASSUME IInv, NEW m \in Nodes, Drain(m)
    PROVE  IInv'
<1>1. NotRequesting(m)
  BY InOtherPhase DEF Drain
<1>2. PICK s \in Services, n \in DrainTargets(m, round[m].reports, round[m].from) :
         \/ /\ Switchover(s, n)
            /\ DrainOrReboot(m,
                  [round[m] EXCEPT !.todo = @ \ {s}, !.reports[n].lead = @ \cup {s}])
            /\ UNCHANGED faults
         \/ /\ PromotionFails(s, n)
            /\ EndRound(m)
            /\ UNCHANGED requests
  BY DEF Drain
<1>3. n \in Nodes /\ round[m].reports[n] \in Reports
  BY RoundOf, RoundType DEF DrainTargets, Reported
<1>4. PatroniTypeOK' /\ faults' \in 0 .. MaxFaults
  BY <1>2, <1>3, PromotionType DEF IInv
<1>5. [round[m] EXCEPT !.todo = @ \ {s}, !.reports[n].lead = @ \cup {s}] \in Rounds
  BY <1>3, RoundOf, DrainedRound, MovedRounds DEF Drain, InPhase
<1>6. RoundsOK
  BY <1>1, <1>2, <1>5, DrainOrRebootOK, EndRoundOK
<1>7. QED
  BY <1>4, <1>6, RestOK DEF Drain

\* The requests that node m waits for are left to run.
LEMMA GivenUpOK ==
    ASSUME IInv, NEW m \in Nodes
    PROVE  /\ GivenUp(m) \subseteq Requests
           /\ \A q \in GivenUp(m) : \A n \in q.by :
                 n # m /\ n \in Nodes /\ round[n].phase = "requesting" /\ round[n].from = q.node
           /\ \A q, r \in GivenUp(m) : q.by \cap r.by # {} => q = r
<1>1. requests \subseteq Requests
  BY DEF IInv, TypeOK
<1>2. \A p \in GivenUp(m) : \E q \in requests :
         p \in Requests /\ p = [q EXCEPT !.by = @ \ {m}]
         /\ p.by = q.by \ {m} /\ p.node = q.node
  BY <1>1 DEF GivenUp, Requests
<1>3. GivenUp(m) \subseteq Requests
  BY <1>2
<1>4. ASSUME NEW p \in GivenUp(m), NEW n \in p.by
      PROVE  n # m /\ n \in Nodes /\ round[n].phase = "requesting" /\ round[n].from = p.node
  <2>1. PICK q \in requests : p.by = q.by \ {m} /\ p.node = q.node
    BY <1>2
  <2>2. n \in q.by /\ n # m /\ n \in Nodes
    BY <1>1, <1>4, <2>1 DEF Requests
  <2>3. QED
    BY <2>1, <2>2 DEF IInv, RebootsAwaited
<1>5. ASSUME NEW p \in GivenUp(m), NEW o \in GivenUp(m), p.by \cap o.by # {}
      PROVE  p = o
  <2>1. PICK q \in requests : p = [q EXCEPT !.by = @ \ {m}] /\ p.by = q.by \ {m}
    BY <1>2
  <2>2. PICK r \in requests : o = [r EXCEPT !.by = @ \ {m}] /\ o.by = r.by \ {m}
    BY <1>2
  <2>3. q.by \cap r.by # {}
    BY <1>5, <2>1, <2>2
  <2>4. q = r
    BY <2>3 DEF IInv, RebootsAwaited
  <2>5. QED
    BY <2>1, <2>2, <2>4
<1>6. QED
  BY <1>3, <1>4, <1>5

\* The rounds after the round of node m ended.
LEMMA RoundEnded ==
    ASSUME IInv, NEW m \in Nodes, round' = [round EXCEPT ![m] = NoRound],
           requests' \subseteq GivenUp(m)
    PROVE  RoundsOK
<1>1. NoRound \in CheckedRounds
  BY NoRoundType DEF NoRound, CheckedRounds
<1>2. round' \in [Nodes -> Rounds]
  BY NoRoundType DEF IInv, TypeOK
<1>3. \A n \in Nodes : n # m => round'[n] = round[n]
  BY DEF IInv, TypeOK
<1>4. CheckedReported'
  BY <1>1 DEF IInv, TypeOK, CheckedReported
<1>5. RebootsAwaited'
  BY <1>3, GivenUpOK DEF RebootsAwaited
<1>6. requests' \subseteq Requests
  BY GivenUpOK
<1>7. QED
  BY <1>2, <1>4, <1>5, <1>6 DEF RoundsOK

LEMMA RequestFailsStep ==
    ASSUME IInv, NEW m \in Nodes, RequestFails(m)
    PROVE  IInv'
<1>1. RoundsOK
  BY RoundEnded DEF RequestFails, EndRound, Continue
<1>2. faults' \in 0 .. MaxFaults
  BY FaultType DEF RequestFails, IInv
<1>3. QED
  BY <1>1, <1>2, SamePatroni, RestOK DEF RequestFails, IInv

LEMMA RoundStepKeeps ==
    ASSUME IInv, NEW m \in Nodes, RoundStep(m)
    PROVE  IInv'
BY ReportingStep, DecideStep, BalancingCheckStep, BalancingPromotionStep, DrainCheckStep,
   DrainStep, RequestFailsStep DEF RoundStep

-----------------------------------------------------------------------------
(***************************************************************************)
(* The handlers of /reboot, the nodes and the rest.                        *)
(***************************************************************************)
\* The request is answered: who waited for it ends its round.
LEMMA AnsweredOK ==
    ASSUME IInv, NEW q \in requests, Answered(q)
    PROVE  RoundsOK
<1>1. NoRound \in CheckedRounds
  BY NoRoundType DEF NoRound, CheckedRounds
<1>2. round' \in [Nodes -> Rounds] /\ requests' \subseteq Requests
  BY NoRoundType DEF IInv, TypeOK, Answered
<1>3. CheckedReported'
  BY <1>1 DEF IInv, CheckedReported, Answered
<1>4. RebootsAwaited'
  <2>1. \A r \in requests' : \A n \in r.by : n \in Nodes /\ n \notin q.by
    BY DEF IInv, TypeOK, Requests, RebootsAwaited, Answered
  <2>2. \A n \in Nodes : n \notin q.by => round'[n] = round[n]
    BY DEF Answered
  <2>3. requests' \subseteq requests
    BY DEF Answered
  <2>4. QED
    BY <2>1, <2>2, <2>3 DEF IInv, RebootsAwaited
<1>5. QED
  BY <1>2, <1>3, <1>4 DEF RoundsOK

LEMMA HandlerStepKeeps ==
    ASSUME IInv, NEW q \in requests, HandlerStep(q)
    PROVE  IInv'
<1>1. CASE AcceptReboot(q) \/ RefuseReboot(q)
  <2>1. RoundsOK
    BY <1>1, AnsweredOK DEF AcceptReboot, RefuseReboot
  <2>2. faults' \in 0 .. MaxFaults
    BY <1>1, FaultType DEF AcceptReboot, RefuseReboot, bounds, IInv
  <2>3. accepted' \subseteq Nodes
    BY <1>1 DEF AcceptReboot, RefuseReboot, IInv, TypeOK, Requests
  <2>4. PatroniTypeOK' /\ UNCHANGED <<view, needsReboot, elections, upgrades>>
    BY <1>1, SamePatroni DEF AcceptReboot, RefuseReboot, IInv, bounds
  <2>5. QED
    BY <2>1, <2>2, <2>3, <2>4 DEF IInv, TypeOK, RoundsOK
<1>2. CASE WaitForReboot(q)
  <2> DEFINE later == [q EXCEPT !.tries = @ + 1]
  <2>1. later \in Requests /\ later.by = q.by /\ later.node = q.node
    BY <1>2 DEF IInv, TypeOK, Requests, WaitForReboot, RebootTries
  <2>2. requests' = (requests \ {q}) \cup {later} /\ UNCHANGED round
    BY <1>2 DEF WaitForReboot
  <2> HIDE DEF later
  <2>3. round' \in [Nodes -> Rounds] /\ requests' \subseteq Requests
    BY <2>1, <2>2 DEF IInv, TypeOK
  <2>4. CheckedReported'
    BY <2>2 DEF IInv, CheckedReported
  <2>5. RebootsAwaited'
    BY <2>1, <2>2 DEF IInv, RebootsAwaited
  <2>6. RoundsOK
    BY <2>3, <2>4, <2>5 DEF RoundsOK
  <2>7. PatroniTypeOK' /\ faults' \in 0 .. MaxFaults
    BY <1>2, SamePatroni, FaultType DEF WaitForReboot, bounds, IInv
  <2>8. QED
    BY <1>2, <2>6, <2>7, RestOK DEF WaitForReboot, bounds
<1>3. QED
  BY <1>1, <1>2 DEF HandlerStep

LEMMA StopKeeps ==
    ASSUME IInv, NEW n \in Nodes, Reboot(n) \/ Crash(n)
    PROVE  IInv'
<1>1. RoundsOK
  BY RoundEnded DEF Reboot, Crash, Stop
<1>2. faults' \in 0 .. MaxFaults
  BY FaultType DEF Reboot, Crash, IInv
<1>3. PatroniTypeOK'
  BY NodeStepType DEF Reboot, Crash, Stop, IInv, TypeOK
<1>4. needsReboot' \in [Nodes -> BOOLEAN] /\ accepted' \subseteq Nodes
  BY DEF Reboot, Crash, Stop, IInv, TypeOK
<1>5. QED
  BY <1>1, <1>2, <1>3, <1>4 DEF Reboot, Crash, Stop, IInv, TypeOK, RoundsOK

\* What concerns neither rounds nor requests.
LEMMA SameRounds ==
    ASSUME IInv, UNCHANGED managerVars, TypeOK'
    PROVE  IInv'
<1>1. UNCHANGED <<round, requests>>
  BY DEF managerVars
<1>2. CheckedReported'
  BY <1>1 DEF IInv, CheckedReported
<1>3. RebootsAwaited'
  BY <1>1 DEF IInv, RebootsAwaited
<1>4. QED
  BY <1>2, <1>3 DEF IInv

LEMMA NodeStepsKeep ==
    ASSUME IInv, NEW n \in Nodes,
           Start(n) \/ Upgrade(n) \/ ElectLeader(n) \/ LearnLeader(n)
    PROVE  IInv'
<1>1. PatroniTypeOK'
  BY SamePatroni, NodeStepType DEF IInv, TypeOK, Start, Upgrade, ElectLeader, LearnLeader
<1>2. UNCHANGED managerVars
  BY DEF Start, Upgrade, ElectLeader, LearnLeader
<1>3. view' \in [Nodes -> Nodes]
  BY CoordinatorAssumption DEF IInv, TypeOK, Start, Upgrade, ElectLeader, LearnLeader
<1>4. needsReboot' \in [Nodes -> BOOLEAN]
  BY DEF IInv, TypeOK, Start, Upgrade, ElectLeader, LearnLeader
<1>5. elections' \in 0 .. MaxElections /\ upgrades' \in 0 .. MaxUpgrades /\ UNCHANGED faults
  BY BoundsAssumption DEF IInv, TypeOK, Start, Upgrade, ElectLeader, LearnLeader, bounds
<1>6. TypeOK'
  BY <1>1, <1>2, <1>3, <1>4, <1>5 DEF IInv, TypeOK, managerVars
<1>7. QED
  BY <1>2, <1>6, SameRounds

LEMMA PatroniStepsKeep ==
    ASSUME IInv, NEW s \in Services, NEW n \in Nodes, Patroni(s, n) \/ FallBehind(s, n)
    PROVE  IInv'
<1>1. PatroniTypeOK'
  <2>1. CASE Patroni(s, n)
    BY <2>1, PatroniStepType DEF IInv, TypeOK, Patroni
  <2>2. CASE FallBehind(s, n)
    BY <2>2 DEF IInv, TypeOK, PatroniTypeOK, FallBehind
  <2>3. QED
    BY <2>1, <2>2
<1>2. UNCHANGED <<view, needsReboot, managerVars, elections, upgrades>>
  BY DEF Patroni, FallBehind, bounds
<1>3. faults' \in 0 .. MaxFaults
  BY FaultType DEF Patroni, FallBehind, bounds, IInv
<1>4. TypeOK'
  BY <1>1, <1>2, <1>3 DEF IInv, TypeOK, managerVars
<1>5. QED
  BY <1>2, <1>4, SameRounds

-----------------------------------------------------------------------------
LEMMA InitInv == Init => IInv
<1> SUFFICES ASSUME Init PROVE IInv
  OBVIOUS
<1>1. PatroniTypeOK
  BY DEF Init, PatroniInit, PatroniTypeOK
<1>2. TypeOK
  BY <1>1, NoRoundType, CoordinatorAssumption, BoundsAssumption DEF Init, TypeOK
<1>3. CheckedReported
  BY NoRoundType DEF Init, CheckedReported, CheckedRounds, NoRound
<1>4. RebootsAwaited
  BY DEF Init, RebootsAwaited
<1>5. QED
  BY <1>2, <1>3, <1>4 DEF IInv

LEMMA NextInv == IInv /\ [Next]_vars => IInv'
<1> SUFFICES ASSUME IInv, [Next]_vars PROVE IInv'
  OBVIOUS
<1>1. ASSUME NEW m \in Nodes, RoundStep(m) PROVE IInv'
  BY <1>1, RoundStepKeeps
<1>2. ASSUME NEW q \in requests, HandlerStep(q) PROVE IInv'
  BY <1>2, HandlerStepKeeps
<1>3. ASSUME NEW n \in Nodes, Reboot(n) \/ Crash(n) PROVE IInv'
  BY <1>3, StopKeeps
<1>4. ASSUME NEW n \in Nodes, Start(n) \/ Upgrade(n) \/ ElectLeader(n) \/ LearnLeader(n)
      PROVE  IInv'
  BY <1>4, NodeStepsKeep
<1>5. ASSUME NEW s \in Services, NEW n \in Nodes, Patroni(s, n) \/ FallBehind(s, n)
      PROVE  IInv'
  BY <1>5, PatroniStepsKeep
<1>6. CASE UNCHANGED vars
  <2>1. TypeOK'
    BY <1>6, SamePatroni DEF vars, IInv, TypeOK
  <2>2. QED
    BY <1>6, <2>1, SameRounds DEF vars, managerVars
<1>7. QED
  BY <1>1, <1>2, <1>3, <1>4, <1>5, <1>6 DEF Next

\* Every round, with the reports it goes by and the services it has still to
\* move, and every request stay what they are declared to be.
THEOREM TypeCorrect == Spec => []TypeOK
<1>1. IInv => TypeOK
  BY DEF IInv
<1>2. QED
  BY <1>1, InitInv, NextInv, PTL DEF Spec

-----------------------------------------------------------------------------
(***************************************************************************)
(* Until another leader is elected the coordinator is the only manager,    *)
(* and never reboots itself.                                               *)
(***************************************************************************)
\* A round that has chosen a node to reboot has not chosen the coordinator.
Spares(rnd) == rnd.phase \in {"checking", "draining", "requesting"} => rnd.from # Coordinator

ManagerInv ==
    /\ \A n \in Nodes : view[n] = Coordinator
    /\ \A n \in Nodes \ {Coordinator} : round[n].phase = "idle"
    /\ Spares(round[Coordinator])

RequestsInv ==
    /\ Coordinator \notin accepted
    /\ \A q \in requests : q.node # Coordinator
    /\ faults = 0 => \A q \in requests : q.by = {Coordinator}

LInv == IInv /\ (elections = 0 => ManagerInv /\ RequestsInv)

\* What a step of the coordinator's round does, other than that it gives a
\* request up: it may request the reboot of the node it has chosen.
Requested(rnd) ==
    requests' = requests \cup {[by |-> {Coordinator}, node |-> rnd.from, tries |-> 0]}

SparingStep ==
    \E rnd \in Rounds :
        /\ Continue(Coordinator, rnd)
        /\ Spares(rnd)
        /\ UNCHANGED requests \/ (rnd.from # Coordinator /\ Requested(rnd))

LEMMA SparingContinues ==
    ASSUME NEW rnd \in Rounds, Continue(Coordinator, rnd), Spares(rnd), UNCHANGED requests
    PROVE  SparingStep
BY DEF SparingStep

LEMMA SparingEnds ==
    ASSUME EndRound(Coordinator), UNCHANGED requests
    PROVE  SparingStep
<1>1. Spares(NoRound)
  BY DEF Spares, NoRound
<1>2. QED
  BY <1>1, NoRoundType DEF SparingStep, EndRound

LEMMA SparingRequests ==
    ASSUME NEW rnd \in Rounds, rnd.from # Coordinator, RequestReboot(Coordinator, rnd)
    PROVE  SparingStep
<1> DEFINE asking == [rnd EXCEPT !.phase = "requesting"]
<1>1. asking \in Rounds /\ asking.from = rnd.from
  BY DEF Rounds
<1>2. Continue(Coordinator, asking) /\ (UNCHANGED requests \/ Requested(rnd))
  BY DEF RequestReboot, Requested
<1> HIDE DEF asking
<1>3. (UNCHANGED requests \/ Requested(asking)) /\ Spares(asking)
  BY <1>1, <1>2 DEF Requested, Spares
<1>4. QED
  BY <1>1, <1>2, <1>3 DEF SparingStep

LEMMA SparingDrains ==
    ASSUME NEW rnd \in Rounds, rnd.from # Coordinator, DrainOrReboot(Coordinator, rnd)
    PROVE  SparingStep
<1>1. [rnd EXCEPT !.phase = "draining"] \in Rounds /\ Spares([rnd EXCEPT !.phase = "draining"])
  BY DEF Rounds, Spares
<1>2. QED
  BY <1>1, SparingRequests, SparingContinues, SparingEnds DEF DrainOrReboot

\* The node to reboot is chosen among the others.
LEMMA SparingSelects ==
    ASSUME IInv, ManagerInv, SelectReboot(Coordinator)
    PROVE  SparingStep
<1>1. round[Coordinator] \in Rounds /\ view[Coordinator] = Coordinator
  BY RoundOf, CoordinatorAssumption DEF ManagerInv
<1>2. CASE EndRound(Coordinator) /\ UNCHANGED requests
  BY <1>2, SparingEnds
<1>3. ASSUME NEW night \in BOOLEAN, NEW n \in Nodes,
             n \in Rebootable(round[Coordinator].reports, view[Coordinator], night),
             LET chosen == [round[Coordinator] EXCEPT
                               !.phase = "checking", !.from = n,
                               !.todo = round[Coordinator].reports[n].lead]
             IN  IF chosen.todo = {} THEN RequestReboot(Coordinator, chosen)
                                     ELSE Continue(Coordinator, chosen) /\ UNCHANGED requests
      PROVE  SparingStep
  <2> DEFINE chosen == [round[Coordinator] EXCEPT
                           !.phase = "checking", !.from = n,
                           !.todo = round[Coordinator].reports[n].lead]
  <2>1. round[Coordinator].reports[n] \in Reports /\ n # Coordinator
    BY <1>1, <1>3, RoundType DEF Rebootable, Reported
  <2>2. chosen \in Rounds /\ chosen.from # Coordinator /\ Spares(chosen)
    BY <1>1, <2>1 DEF Rounds, Reports, Spares
  <2> HIDE DEF chosen
  <2>3. RequestReboot(Coordinator, chosen) \/ (Continue(Coordinator, chosen) /\ UNCHANGED requests)
    BY <1>3 DEF chosen
  <2>4. QED
    BY <2>2, <2>3, SparingRequests, SparingContinues
<1>4. QED
  BY <1>2, <1>3 DEF SelectReboot, IsFirst

\* The steps of a round that ask nothing of a node, nor have asked.
LEMMA SparingReports ==
    ASSUME IInv, ManagerInv, NEW n \in Nodes,
           \/ StartRound(Coordinator)
           \/ Report(Coordinator, n)
           \/ ReportFails(Coordinator, n)
    PROVE  SparingStep
<1>1. CASE StartRound(Coordinator)
  <2>1. [NoRound EXCEPT !.phase = "reporting", !.silent = Nodes] \in Rounds
    BY NoRoundType DEF Rounds
  <2>2. Spares([NoRound EXCEPT !.phase = "reporting", !.silent = Nodes])
    BY NoRoundType DEF Spares, Rounds
  <2>3. QED
    BY <1>1, <2>1, <2>2, SparingContinues DEF StartRound
<1>2. CASE Report(Coordinator, n)
  <2>1. PICK lead \in SUBSET Lead(n) :
           Continue(Coordinator, [round[Coordinator] EXCEPT
               !.reports[n] = [lead |-> lead, needs |-> needsReboot[n]],
               !.silent = @ \ {n}])
    BY <1>2 DEF Report
  <2> DEFINE report == [lead |-> lead, needs |-> needsReboot[n]]
             rnd == [round[Coordinator] EXCEPT !.reports[n] = report, !.silent = @ \ {n}]
  <2>2. report \in Reports
    BY DEF Reports, Lead, TypeOK, IInv
  <2>3. round[Coordinator] \in Rounds /\ round[Coordinator].phase = "reporting"
    BY <1>2, RoundOf, CoordinatorAssumption DEF Report, InPhase
  <2>4. Continue(Coordinator, rnd)
    BY <2>1
  <2> HIDE DEF report
  <2>5. rnd \in Rounds /\ rnd.phase = "reporting"
    BY <2>2, <2>3, ReportedRound, MovedRounds DEF Rounds
  <2> HIDE DEF rnd
  <2>6. QED
    BY <1>2, <2>4, <2>5, SparingContinues DEF Report, Spares
<1>3. CASE ReportFails(Coordinator, n)
  <2> DEFINE rnd == [round[Coordinator] EXCEPT !.silent = @ \ {n}]
  <2>1. rnd \in Rounds /\ rnd.phase = "reporting"
    BY <1>3, RoundOf, CoordinatorAssumption DEF ReportFails, InPhase, Rounds
  <2>2. Continue(Coordinator, rnd) /\ UNCHANGED requests
    BY <1>3 DEF ReportFails
  <2> HIDE DEF rnd
  <2>3. QED
    BY <2>1, <2>2, SparingContinues DEF Spares
<1>4. QED
  BY <1>1, <1>2, <1>3

LEMMA SparingDecides ==
    ASSUME IInv, ManagerInv, Decide(Coordinator)
    PROVE  SparingStep
<1>1. CASE SelectReboot(Coordinator)
  BY <1>1, SparingSelects
<1>2. ASSUME NEW from \in Nodes, NEW to \in Nodes,
             from \in Overloaded(round[Coordinator].reports),
             Continue(Coordinator,
                [round[Coordinator] EXCEPT !.phase = "balancing", !.from = from, !.to = to,
                    !.todo = round[Coordinator].reports[from].lead]),
             UNCHANGED requests
      PROVE  SparingStep
  <2> DEFINE todo == round[Coordinator].reports[from].lead
             rnd == [round[Coordinator] EXCEPT !.phase = "balancing", !.from = from, !.to = to,
                        !.todo = todo]
  <2>1. round[Coordinator] \in Rounds
    BY RoundOf, CoordinatorAssumption
  <2>2. todo \in SUBSET Services
    BY <1>2, <2>1, RoundType DEF Overloaded, Reported, Reports
  <2>3. Continue(Coordinator, rnd)
    BY <1>2
  <2> HIDE DEF todo
  <2>4. rnd \in Rounds /\ rnd.phase = "balancing"
    BY <2>1, <2>2 DEF Rounds
  <2> HIDE DEF rnd
  <2>5. QED
    BY <1>2, <2>3, <2>4, SparingContinues DEF Spares
<1>3. QED
  BY <1>1, <1>2 DEF Decide, IsFirst

LEMMA SparingBalances ==
    ASSUME IInv, ManagerInv, BalancingCheck(Coordinator) \/ BalancingPromotion(Coordinator)
    PROVE  SparingStep
<1> DEFINE c == round[Coordinator]
           promoting == [c EXCEPT !.phase = "promoting"]
           fewer(s) == [c EXCEPT !.todo = @ \ {s}]
<1>1. c \in Rounds
  BY RoundOf, CoordinatorAssumption
<1>2. promoting \in Rounds /\ Spares(promoting)
  BY <1>1 DEF Rounds, Spares
<1>3. CASE BalancingCheck(Coordinator)
  <2>1. PICK s \in Services :
           \/ Continue(Coordinator, promoting) /\ UNCHANGED requests
           \/ Continue(Coordinator, fewer(s)) /\ UNCHANGED requests
           \/ SelectReboot(Coordinator)
           \/ EndRound(Coordinator) /\ UNCHANGED requests
    BY <1>3 DEF BalancingCheck
  <2>2. fewer(s) \in Rounds /\ fewer(s).phase = "balancing"
    BY <1>1, <1>3 DEF Rounds, BalancingCheck, InPhase
  <2> HIDE DEF fewer, promoting
  <2>3. Spares(fewer(s))
    BY <2>2 DEF Spares
  <2>4. QED
    BY <1>2, <2>1, <2>2, <2>3, SparingContinues, SparingSelects, SparingEnds
<1>4. CASE BalancingPromotion(Coordinator)
  BY <1>4, SparingSelects, SparingEnds DEF BalancingPromotion
<1>5. QED
  BY <1>3, <1>4

LEMMA SparingChecks ==
    ASSUME IInv, ManagerInv, DrainCheck(Coordinator)
    PROVE  SparingStep
<1> DEFINE c == round[Coordinator]
           all == [c EXCEPT !.todo = c.reports[c.from].lead]
           fewer(s) == [c EXCEPT !.todo = @ \ {s}]
<1>1. c \in CheckedRounds /\ c \in Rounds
  BY RoundOf, CoordinatorAssumption
<1>2. c.phase = "checking" /\ c.from # Coordinator
  BY DEF DrainCheck, InPhase, ManagerInv, Spares
<1>3. c.reports[c.from].lead \subseteq Services
  BY <1>1, <1>2 DEF CheckedRounds, Reports
<1>4. all \in Rounds /\ all.from # Coordinator
  BY <1>1, <1>2, <1>3 DEF Rounds
<1>5. PICK s \in Services :
         \/ Continue(Coordinator, fewer(s)) /\ UNCHANGED requests
         \/ DrainOrReboot(Coordinator, all)
         \/ EndRound(Coordinator) /\ UNCHANGED requests
  BY DEF DrainCheck
<1>6. fewer(s) \in Rounds /\ Spares(fewer(s))
  BY <1>1, <1>2 DEF Rounds, Spares
<1> HIDE DEF all, fewer
<1>7. QED
  BY <1>4, <1>5, <1>6, SparingContinues, SparingDrains, SparingEnds

LEMMA SparingPromotes ==
    ASSUME IInv, ManagerInv, Drain(Coordinator)
    PROVE  SparingStep
<1> DEFINE c == round[Coordinator]
<1>1. c \in Rounds /\ c.phase = "draining" /\ c.from # Coordinator
  BY RoundOf, CoordinatorAssumption DEF Drain, InPhase, ManagerInv, Spares
<1>2. PICK s \in Services, n \in DrainTargets(Coordinator, c.reports, c.from) :
         \/ DrainOrReboot(Coordinator,
               [c EXCEPT !.todo = @ \ {s}, !.reports[n].lead = @ \cup {s}])
         \/ EndRound(Coordinator) /\ UNCHANGED requests
  BY DEF Drain
<1> DEFINE drained == [c EXCEPT !.todo = @ \ {s}, !.reports[n].lead = @ \cup {s}]
<1>3. n \in Nodes /\ c.reports[n] \in Reports
  BY <1>1, RoundType DEF DrainTargets, Reported
<1>4. drained.from = c.from
  BY <1>1 DEF Rounds
<1> HIDE DEF c
<1>5. drained \in Rounds
  BY <1>1, <1>3, DrainedRound, MovedRounds
<1>6. DrainOrReboot(Coordinator, drained) \/ (EndRound(Coordinator) /\ UNCHANGED requests)
  BY <1>2
<1> HIDE DEF drained
<1>7. QED
  BY <1>1, <1>4, <1>5, <1>6, SparingDrains, SparingEnds

LEMMA SparingKeeps ==
    ASSUME IInv, ManagerInv, RequestsInv, SparingStep,
           UNCHANGED <<view, accepted>>, faults' = 0 => faults = 0
    PROVE  ManagerInv' /\ RequestsInv'
<1>1. PICK rnd \in Rounds :
         /\ Continue(Coordinator, rnd)
         /\ Spares(rnd)
         /\ UNCHANGED requests \/ (rnd.from # Coordinator /\ Requested(rnd))
  BY DEF SparingStep
<1>2. /\ round'[Coordinator] = rnd
      /\ \A n \in Nodes \ {Coordinator} : round'[n] = round[n]
  BY <1>1, CoordinatorAssumption DEF Continue, IInv, TypeOK
<1>3. ManagerInv'
  BY <1>1, <1>2 DEF ManagerInv
<1>4. RequestsInv'
  BY <1>1 DEF RequestsInv, Requested
<1>5. QED
  BY <1>3, <1>4

\* With no fault the coordinator does not give up a request: while it waits
\* it is by its own request, and by none afterwards.
LEMMA SparingFails ==
    ASSUME IInv, ManagerInv, RequestsInv, RequestFails(Coordinator)
    PROVE  ManagerInv' /\ RequestsInv'
<1>1. round' = [round EXCEPT ![Coordinator] = NoRound] /\ requests' = GivenUp(Coordinator)
  BY DEF RequestFails, EndRound, Continue
<1>2. ManagerInv'
  <2>1. Spares(NoRound)
    BY DEF Spares, NoRound
  <2>2. /\ round'[Coordinator] = NoRound
        /\ \A n \in Nodes \ {Coordinator} : round'[n] = round[n]
    BY <1>1, CoordinatorAssumption DEF IInv, TypeOK
  <2>3. QED
    BY <2>1, <2>2 DEF ManagerInv, RequestFails
<1>3. \A q \in requests' : q.node # Coordinator
  <2>1. \A q \in requests : [q EXCEPT !.by = @ \ {Coordinator}].node = q.node
    BY DEF IInv, TypeOK, Requests
  <2>2. QED
    BY <1>1, <2>1 DEF GivenUp, RequestsInv
<1>4. ASSUME faults' = 0 PROVE requests' = {}
  <2>1. faults \in Nat
    BY BoundsAssumption DEF IInv, TypeOK
  <2>2. faults = 0 /\ ~ Fault
    BY <1>4, <2>1 DEF RequestFails, Fault
  <2>3. ~ (\E q \in requests : Coordinator \in q.by)
    BY <2>2 DEF RequestFails
  <2>4. requests = {}
    BY <2>2, <2>3 DEF RequestsInv
  <2>5. QED
    BY <1>1, <2>4 DEF GivenUp
<1>5. Coordinator \notin accepted'
  BY DEF RequestFails, RequestsInv
<1>6. QED
  BY <1>2, <1>3, <1>4, <1>5 DEF RequestsInv

\* Faults and elections are never undone.
LEMMA CountersGrow ==
    ASSUME IInv, [Next]_vars
    PROVE  (faults' = 0 => faults = 0) /\ (elections' = 0 => elections = 0)
<1>1. faults \in Nat /\ elections \in Nat
  BY BoundsAssumption DEF IInv, TypeOK
<1>2. UNCHANGED faults \/ Fault
  <2>1. ASSUME NEW m \in Nodes, RoundStep(m) PROVE UNCHANGED faults \/ Fault
    <3>1. CASE StartRound(m) \/ (\E n \in Nodes : Report(m, n) \/ ReportFails(m, n))
      BY <3>1 DEF StartRound, Report, ReportFails, bounds
    <3>2. CASE Decide(m) \/ BalancingCheck(m) \/ BalancingPromotion(m)
      BY <3>2 DEF Decide, BalancingCheck, BalancingPromotion, PromotionFails, bounds
    <3>3. CASE DrainCheck(m) \/ Drain(m) \/ RequestFails(m)
      BY <3>3 DEF DrainCheck, Drain, PromotionFails, RequestFails
    <3>4. QED
      BY <2>1, <3>1, <3>2, <3>3 DEF RoundStep
  <2>2. ASSUME NEW q \in requests, HandlerStep(q) PROVE UNCHANGED faults \/ Fault
    BY <2>2 DEF HandlerStep, AcceptReboot, WaitForReboot, RefuseReboot, bounds
  <2>3. ASSUME NEW n \in Nodes, \/ Reboot(n) \/ Crash(n) \/ Start(n)
                                \/ Upgrade(n) \/ ElectLeader(n) \/ LearnLeader(n)
        PROVE  UNCHANGED faults \/ Fault
    BY <2>3 DEF Reboot, Crash, Start, Upgrade, ElectLeader, LearnLeader, bounds
  <2>4. ASSUME NEW s \in Services, NEW n \in Nodes, Patroni(s, n) \/ FallBehind(s, n)
        PROVE  UNCHANGED faults \/ Fault
    BY <2>4 DEF Patroni, FallBehind, bounds
  <2>5. QED
    BY <2>1, <2>2, <2>3, <2>4 DEF Next, vars
<1>3. UNCHANGED elections \/ elections' = elections + 1
  BY DEF Next, vars, bounds, RoundStep, StartRound, Report, ReportFails, Decide, BalancingCheck,
         BalancingPromotion, DrainCheck, Drain, RequestFails, HandlerStep,
         AcceptReboot, WaitForReboot, RefuseReboot, Reboot, Crash, Stop, Start, Upgrade,
         ElectLeader, LearnLeader, Patroni, FallBehind
<1>4. faults' = 0 => faults = 0
  BY <1>1, <1>2 DEF Fault
<1>5. QED
  BY <1>1, <1>3, <1>4

\* Only the coordinator takes itself for the leader.
LEMMA RoundSpares ==
    ASSUME IInv, ManagerInv, RequestsInv, faults' = 0 => faults = 0,
           NEW m \in Nodes, RoundStep(m)
    PROVE  ManagerInv' /\ RequestsInv'
<1>1. m = Coordinator
  <2>1. CASE StartRound(m)
    BY <2>1 DEF StartRound, ManagerInv
  <2>2. CASE ~ StartRound(m)
    <3>1. round[m].phase # "idle"
      BY <2>2 DEF RoundStep, Report, ReportFails, Decide, BalancingCheck, BalancingPromotion,
                  DrainCheck, Drain, RequestFails, InPhase
    <3>2. QED
      BY <3>1 DEF ManagerInv
  <2>3. QED
    BY <2>1, <2>2
<1>2. CASE RequestFails(m)
  BY <1>1, <1>2, SparingFails
<1>3. CASE ~ RequestFails(m)
  <2>1. SparingStep
    BY <1>1, <1>3, SparingReports, SparingDecides, SparingBalances, SparingChecks,
       SparingPromotes DEF RoundStep
  <2>2. UNCHANGED <<view, accepted>>
    BY <1>3 DEF RoundStep, StartRound, Report, ReportFails, Decide, BalancingCheck,
                BalancingPromotion, DrainCheck, Drain
  <2>3. QED
    BY <2>1, <2>2, SparingKeeps
<1>4. QED
  BY <1>2, <1>3

LEMMA HandlerSpares ==
    ASSUME IInv, ManagerInv, RequestsInv, faults' = 0 => faults = 0,
           NEW q \in requests, HandlerStep(q)
    PROVE  ManagerInv' /\ RequestsInv'
<1>1. UNCHANGED view
  BY DEF HandlerStep, AcceptReboot, WaitForReboot, RefuseReboot
<1>2. CASE AcceptReboot(q) \/ RefuseReboot(q)
  <2>1. Answered(q) /\ accepted' \subseteq accepted \cup {q.node}
    BY <1>2 DEF AcceptReboot, RefuseReboot
  <2>2. \A n \in Nodes : round'[n] = round[n] \/ round'[n] = NoRound
    BY <2>1 DEF Answered
  <2>3. Spares(NoRound) /\ NoRound.phase = "idle"
    BY DEF Spares, NoRound
  <2>4. ManagerInv'
    BY <1>1, <2>2, <2>3, CoordinatorAssumption DEF ManagerInv
  <2>5. RequestsInv'
    BY <2>1 DEF RequestsInv, Answered
  <2>6. QED
    BY <2>4, <2>5
<1>3. CASE WaitForReboot(q)
  <2> DEFINE later == [q EXCEPT !.tries = @ + 1]
  <2>1. later.by = q.by /\ later.node = q.node
    BY DEF IInv, TypeOK, Requests
  <2>2. requests' = (requests \ {q}) \cup {later} /\ UNCHANGED <<round, accepted>>
    BY <1>3 DEF WaitForReboot
  <2> HIDE DEF later
  <2>3. ManagerInv' /\ RequestsInv'
    BY <1>1, <2>1, <2>2 DEF ManagerInv, RequestsInv
  <2>4. QED
    BY <2>3
<1>4. QED
  BY <1>2, <1>3 DEF HandlerStep

\* A crash of the coordinator is a fault, and it never reboots.
LEMMA StopSpares ==
    ASSUME IInv, ManagerInv, RequestsInv, faults' = 0 => faults = 0,
           NEW n \in Nodes, Reboot(n) \/ Crash(n)
    PROVE  ManagerInv' /\ RequestsInv'
<1>1. Stop(n)
  BY DEF Reboot, Crash
<1>2. ManagerInv'
  <2>1. \A o \in Nodes : round'[o] = round[o] \/ round'[o] = NoRound
    BY <1>1 DEF Stop, IInv, TypeOK
  <2>2. Spares(NoRound) /\ NoRound.phase = "idle"
    BY DEF Spares, NoRound
  <2>3. QED
    BY <1>1, <2>1, <2>2, CoordinatorAssumption DEF ManagerInv, Stop
<1>3. \A p \in requests' : \E q \in requests : p.node = q.node /\ p.by = q.by \ {n}
  BY <1>1 DEF Stop, GivenUp, IInv, TypeOK, Requests
<1>4. Coordinator \notin accepted'
  BY <1>1 DEF Stop, RequestsInv
<1>5. faults' = 0 => n # Coordinator
  BY BoundsAssumption DEF Reboot, Crash, Fault, RequestsInv, IInv, TypeOK
<1>6. RequestsInv'
  BY <1>3, <1>4, <1>5 DEF RequestsInv
<1>7. QED
  BY <1>2, <1>6

\* The other steps change none of it, or elect a leader.
LEMMA OthersSpare ==
    ASSUME IInv, ManagerInv, RequestsInv, faults' = 0 => faults = 0,
           UNCHANGED managerVars, UNCHANGED view \/ \E n \in Nodes : LearnLeader(n)
    PROVE  ManagerInv' /\ RequestsInv'
<1>1. \A n \in Nodes : view'[n] = Coordinator
  BY CoordinatorAssumption DEF ManagerInv, LearnLeader, IInv, TypeOK
<1>2. UNCHANGED <<round, requests, accepted>>
  BY DEF managerVars
<1>3. QED
  BY <1>1, <1>2 DEF ManagerInv, RequestsInv

LEMMA InitSpares == Init => LInv
<1> SUFFICES ASSUME Init PROVE LInv
  OBVIOUS
<1>1. ManagerInv
  BY CoordinatorAssumption DEF Init, ManagerInv, Spares, NoRound
<1>2. RequestsInv
  BY DEF Init, RequestsInv
<1>3. QED
  BY <1>1, <1>2, InitInv DEF LInv

LEMMA NextSpares == LInv /\ [Next]_vars => LInv'
<1> SUFFICES ASSUME LInv, [Next]_vars, elections' = 0 PROVE ManagerInv' /\ RequestsInv'
  BY NextInv DEF LInv
<1>1. faults' = 0 => faults = 0
  BY CountersGrow DEF LInv
<1>2. IInv /\ ManagerInv /\ RequestsInv
  BY CountersGrow DEF LInv
<1>3. ASSUME NEW m \in Nodes, RoundStep(m) PROVE ManagerInv' /\ RequestsInv'
  BY <1>1, <1>2, <1>3, RoundSpares
<1>4. ASSUME NEW q \in requests, HandlerStep(q) PROVE ManagerInv' /\ RequestsInv'
  BY <1>1, <1>2, <1>4, HandlerSpares
<1>5. ASSUME NEW n \in Nodes, Reboot(n) \/ Crash(n) PROVE ManagerInv' /\ RequestsInv'
  BY <1>1, <1>2, <1>5, StopSpares
<1>6. ASSUME NEW n \in Nodes, Start(n) \/ Upgrade(n) \/ LearnLeader(n)
      PROVE  ManagerInv' /\ RequestsInv'
  <2>1. UNCHANGED managerVars /\ (UNCHANGED view \/ LearnLeader(n))
    BY <1>6 DEF Start, Upgrade, LearnLeader
  <2>2. QED
    BY <1>1, <1>2, <2>1, OthersSpare
<1>7. ASSUME NEW n \in Nodes, ElectLeader(n) PROVE FALSE
  BY <1>2, <1>7, BoundsAssumption DEF ElectLeader, IInv, TypeOK
<1>8. ASSUME NEW s \in Services, NEW n \in Nodes, Patroni(s, n) \/ FallBehind(s, n)
      PROVE  ManagerInv' /\ RequestsInv'
  <2>1. UNCHANGED managerVars /\ UNCHANGED view
    BY <1>8 DEF Patroni, FallBehind
  <2>2. QED
    BY <1>1, <1>2, <2>1, OthersSpare
<1>9. CASE UNCHANGED vars
  <2>1. UNCHANGED managerVars /\ UNCHANGED view
    BY <1>9 DEF vars, managerVars
  <2>2. QED
    BY <1>1, <1>2, <2>1, OthersSpare
<1>10. QED
  BY <1>3, <1>4, <1>5, <1>6, <1>7, <1>8, <1>9 DEF Next

\* Until another leader is elected nobody asks the leader to reboot, however
\* many nodes crash and requests are given up, and if nothing fails no node
\* is asked while the handler of another is still at it.
THEOREM LeaderStays == Spec => []LeaderNotRebooted
<1>1. LInv => LeaderNotRebooted
  <2> SUFFICES ASSUME LInv, elections = 0
               PROVE  /\ Leader \notin accepted
                      /\ \A q \in requests : q.node # Leader
                      /\ faults = 0 => \A q, r \in requests : q = r
    BY DEF LeaderNotRebooted
  <2>1. Leader = Coordinator
    BY CoordinatorAssumption DEF Leader, LInv, ManagerInv
  <2>2. faults = 0 => \A q, r \in requests : q = r
    <3>1. faults = 0 => \A q, r \in requests : q.by \cap r.by = {Coordinator}
      BY DEF LInv, RequestsInv
    <3>2. QED
      BY <3>1 DEF LInv, IInv, RebootsAwaited
  <2>3. QED
    BY <2>1, <2>2 DEF LInv, RequestsInv
<1>2. QED
  BY <1>1, InitSpares, NextSpares, PTL DEF Spec

-----------------------------------------------------------------------------
(***************************************************************************)
(* The decision to balance, by counting leaderships.                       *)
(***************************************************************************)
\* As many elements as a set has at least can be taken from it one by one.
LEMMA PickElements ==
    ASSUME NEW T, IsFiniteSet(T), NEW k \in Nat, k <= Cardinality(T)
    PROVE  Injection(1 .. k, T) # {}
<1>1. PICK n \in Nat : ExistsBijection(1 .. n, T)
  BY FS_NatBijection
<1>2. PICK b : b \in Bijection(1 .. n, T)
  BY <1>1 DEF ExistsBijection
<1>3. n = Cardinality(T)
  BY <1>1, FS_CountingElements
<1> DEFINE f == [i \in 1 .. k |-> b[i]]
<1>4. \A i \in 1 .. k : i \in 1 .. n
  BY <1>3
<1>5. b \in [1 .. n -> T] /\ \A i, j \in 1 .. n : b[i] = b[j] => i = j
  BY <1>2 DEF Bijection, Injection, IsInjective
<1>6. f \in [1 .. k -> T] /\ \A i, j \in 1 .. k : f[i] = f[j] => i = j
  BY <1>4, <1>5
<1>7. f \in Injection(1 .. k, T)
  BY <1>6 DEF Injection, IsInjective
<1>8. QED
  BY <1>7

\* Disjoint subsets of S, each of at least k elements.
LEMMA DisjointSets ==
    ASSUME NEW S, IsFiniteSet(S), NEW R, IsFiniteSet(R), NEW k \in Nat,
           NEW L \in [R -> SUBSET S],
           \A n \in R : k <= Cardinality(L[n]),
           \A m, n \in R : m # n => L[m] \cap L[n] = {}
    PROVE  Cardinality(R) * k <= Cardinality(S)
<1> DEFINE F == [n \in R |-> CHOOSE f \in Injection(1 .. k, L[n]) : TRUE]
           g == [p \in R \X (1 .. k) |-> F[p[1]][p[2]]]
<1>1. ASSUME NEW n \in R  PROVE F[n] \in Injection(1 .. k, L[n])
  <2>1. IsFiniteSet(L[n])
    BY FS_Subset
  <2>2. Injection(1 .. k, L[n]) # {}
    BY <2>1, PickElements
  <2>3. QED
    BY <2>2
<1> HIDE DEF F
<1>2. \A n \in R, i \in 1 .. k : F[n][i] \in L[n] /\ F[n][i] \in S
  BY <1>1 DEF Injection
<1>3. \A n \in R, i, j \in 1 .. k : F[n][i] = F[n][j] => i = j
  BY <1>1 DEF Injection, IsInjective
<1>4. g \in [R \X (1 .. k) -> S]
  BY <1>2
<1>5. ASSUME NEW p \in R \X (1 .. k), NEW q \in R \X (1 .. k), g[p] = g[q]
      PROVE  p = q
  <2>1. /\ p[1] \in R /\ q[1] \in R /\ p[2] \in 1 .. k /\ q[2] \in 1 .. k
        /\ p = <<p[1], p[2]>> /\ q = <<q[1], q[2]>>
    OBVIOUS
  <2>2. F[p[1]][p[2]] = F[q[1]][q[2]]
    BY <1>5
  <2>3. p[1] = q[1]
    BY <1>2, <2>1, <2>2
  <2>4. p[2] = q[2]
    BY <1>3, <2>1, <2>2, <2>3
  <2>5. QED
    BY <2>1, <2>3, <2>4
<1>6. g \in Injection(R \X (1 .. k), S)
  BY <1>4, <1>5 DEF Injection, IsInjective
<1>7. Cardinality(R \X (1 .. k)) <= Cardinality(S)
  BY <1>6, FS_Injection
<1>8. IsFiniteSet(1 .. k) /\ Cardinality(1 .. k) = k
  <2>1. 1 \in Int /\ k \in Int /\ (IF 1 > k THEN 0 ELSE k - 1 + 1) = k
    OBVIOUS
  <2>2. QED
    BY <2>1, FS_Interval
<1>9. Cardinality(R \X (1 .. k)) = Cardinality(R) * k
  BY <1>8, FS_Product
<1>10. QED
  BY <1>7, <1>9

LEMMA SharesSuffice ==
    ASSUME NEW s \in Nat, NEW k \in Nat, k # 0
    PROVE  /\ (s + k - 1) \div k \in Nat
           /\ s <= k * ((s + k - 1) \div k)
OBVIOUS

\* If the reports claim no leadership that another report claims, then whenever
\* handlePatroniBalancing finds a node with more than its share of them it also
\* finds one with less: the balancing never stops for want of a candidate.
THEOREM OverloadLeavesRoom ==
    ASSUME IsFiniteSet(Nodes), IsFiniteSet(Services),
           NEW r \in [Nodes -> Reports \cup {NoReport}],
           \A m, n \in Reported(r) : m # n => r[m].lead \cap r[n].lead = {},
           Overloaded(r) # {}
    PROVE  Underloaded(r) # {}
<1> DEFINE R == Reported(r)
           opt == OptimalLeaderships(Cardinality(R))
<1>1. \A n \in R : n \in Nodes /\ r[n].lead \subseteq Services
  BY DEF Reported, Reports
<1>2. PICK o \in R : Cardinality(r[o].lead) > opt
  BY DEF Overloaded
<1>3. IsFiniteSet(R) /\ Cardinality(R) \in Nat /\ Cardinality(Services) \in Nat
  BY <1>1, FS_Subset, FS_CardinalityType
<1>4. Cardinality(R) # 0
  BY <1>2, <1>3, FS_EmptySet
<1>5. opt \in Nat
  BY <1>3, <1>4, SharesSuffice DEF OptimalLeaderships
<1>6. Cardinality(Services) <= Cardinality(R) * opt
  BY <1>3, <1>4, SharesSuffice DEF OptimalLeaderships
<1>7. \A n \in R : IsFiniteSet(r[n].lead) /\ Cardinality(r[n].lead) \in Nat
  BY <1>1, FS_Subset, FS_CardinalityType
<1> HIDE DEF opt
<1>8. SUFFICES ASSUME \A n \in R : Cardinality(r[n].lead) >= opt
               PROVE  FALSE
  BY <1>5, <1>7 DEF Underloaded, opt
<1>9. PICK x : x \in r[o].lead
  <2>1. Cardinality(r[o].lead) # 0
    BY <1>2, <1>5, <1>7
  <2>2. QED
    BY <2>1, FS_EmptySet
<1> DEFINE L == [n \in R |-> r[n].lead \ {x}]
           S == Services \ {x}
<1>10. L \in [R -> SUBSET S] /\ \A m, n \in R : m # n => L[m] \cap L[n] = {}
  BY <1>1
<1>11. ASSUME NEW n \in R  PROVE opt <= Cardinality(L[n])
  <2>1. CASE n = o
    <3> DEFINE T == r[o].lead
    <3>1. L[n] = T \ {x} /\ IsFiniteSet(T) /\ x \in T
      BY <1>7, <1>9, <2>1
    <3>2. Cardinality(T) > opt /\ Cardinality(T) \in Nat
      BY <1>2, <1>7
    <3> HIDE DEF T, L
    <3>3. Cardinality(T \ {x}) = Cardinality(T) - 1
      BY <3>1, FS_RemoveElement
    <3>4. QED
      BY <1>5, <3>1, <3>2, <3>3
  <2>2. CASE n # o
    <3>1. L[n] = r[n].lead
      BY <1>9, <2>2
    <3>2. QED
      BY <1>5, <1>7, <1>8, <3>1
  <2>3. QED
    BY <2>1, <2>2
<1>12. IsFiniteSet(S) /\ Cardinality(S) = Cardinality(Services) - 1
  BY <1>1, <1>9, FS_RemoveElement
<1> HIDE DEF L, S, R
<1>13. Cardinality(R) * opt <= Cardinality(S)
  BY <1>3, <1>5, <1>10, <1>11, <1>12, DisjointSets
<1>14. Cardinality(R) * opt \in Nat
  BY <1>3, <1>5
<1>15. QED
  BY <1>3, <1>6, <1>12, <1>13, <1>14
=============================================================================
