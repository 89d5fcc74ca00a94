---------------------- MODULE ConfigReplication_proofs ----------------------
(***************************************************************************)
(* Proofs about ConfigReplication, for any number of hosts, ids, services, *)
(* slots and updates.                                                      *)
(***************************************************************************)
EXTENDS ConfigReplication, TLAPS

-----------------------------------------------------------------------------
(***************************************************************************)
(* The operations on a configuration.                                      *)
(***************************************************************************)
\* Each operation of class Cluster makes a configuration out of one, and
\* numbers it one higher.
LEMMA OperationsType ==
    ASSUME NEW c \in ClusterInfo
    PROVE  /\ \A id \in NodeIds, h \in Hosts :
                 /\ WithNode(c, id, h) \in ClusterInfo
                 /\ WithNode(c, id, h).updated_at = c.updated_at + 1
           /\ \A id \in NodeIds :
                 /\ WithoutNode(c, id) \in ClusterInfo
                 /\ WithoutNode(c, id).updated_at = c.updated_at + 1
           /\ \A id \in NodeIds :
                 /\ WithLeader(c, id) \in ClusterInfo
                 /\ WithLeader(c, id).updated_at = c.updated_at + 1
           /\ \A s \in Services :
                 /\ WithService(c, s) \in ClusterInfo
                 /\ WithService(c, s).updated_at = c.updated_at + 1
                 /\ WithoutService(c, s) \in ClusterInfo
                 /\ WithoutService(c, s).updated_at = c.updated_at + 1
<1>1. CoordinatorId \in NodeIds
  BY MaxNodeIdAssumption DEF CoordinatorId, NodeIds
<1>2. Touched(c) \in Nat /\ Touched(c) = c.updated_at + 1
  BY DEF ClusterInfo, Touched
<1>3. ASSUME NEW id \in NodeIds, NEW h \in Hosts
      PROVE  /\ WithNode(c, id, h) \in ClusterInfo
             /\ WithNode(c, id, h).updated_at = c.updated_at + 1
  <2>1. [id |-> id, host |-> h, joined |-> Touched(c)] \in NodeInfo
    BY <1>2 DEF NodeInfo
  <2>2. QED
    BY <1>2, <2>1 DEF WithNode, ClusterInfo
<1>4. ASSUME NEW id \in NodeIds
      PROVE  /\ WithoutNode(c, id) \in ClusterInfo
             /\ WithoutNode(c, id).updated_at = c.updated_at + 1
  BY <1>1, <1>2 DEF WithoutNode, ClusterInfo
<1>5. ASSUME NEW id \in NodeIds
      PROVE  /\ WithLeader(c, id) \in ClusterInfo
             /\ WithLeader(c, id).updated_at = c.updated_at + 1
  BY <1>2 DEF WithLeader, ClusterInfo
<1>6. ASSUME NEW s \in Services
      PROVE  /\ WithService(c, s) \in ClusterInfo
             /\ WithService(c, s).updated_at = c.updated_at + 1
             /\ WithoutService(c, s) \in ClusterInfo
             /\ WithoutService(c, s).updated_at = c.updated_at + 1
  BY <1>2 DEF WithService, WithoutService, ClusterInfo
<1>7. QED
  BY <1>3, <1>4, <1>5, <1>6

\* The ids of a configuration are ids, and pushes go to other nodes than the
\* coordinator.
LEMMA TargetsType ==
    ASSUME NEW c \in ClusterInfo
    PROVE  /\ AssignedIds(c) \subseteq NodeIds
           /\ \A ignored : PushTargets(c, ignored) \subseteq NodeIds \ {CoordinatorId}
BY DEF AssignedIds, PushTargets, ClusterInfo, NodeInfo

\* The configuration a cluster starts with.
LEMMA InitialConfigType == InitialConfig \in ClusterInfo
<1>1. CoordinatorId \in NodeIds
  BY MaxNodeIdAssumption DEF CoordinatorId, NodeIds
<1>2. [id |-> CoordinatorId, host |-> Coordinator, joined |-> 0] \in NodeInfo
  BY <1>1, CoordinatorAssumption DEF NodeInfo
<1>3. QED
  BY <1>1, <1>2 DEF InitialConfig, ClusterInfo

-----------------------------------------------------------------------------
(***************************************************************************)
(* Type correctness.                                                       *)
(***************************************************************************)
\* What a step that publishes c does to the three variables it changes.
LEMMA PublishType ==
    ASSUME TypeOK, NEW c \in ClusterInfo, NEW ignored, Publish(c, ignored)
    PROVE  /\ mem' \in [Hosts -> ClusterInfo \cup {NoConfig}]
           /\ Current' = c
           /\ mem'[Coordinator] \in ClusterInfo
           /\ published' \subseteq ClusterInfo
           /\ pushes' \subseteq [to : NodeIds \ {CoordinatorId}, config : ClusterInfo]
<1>1. /\ mem' \in [Hosts -> ClusterInfo \cup {NoConfig}]
      /\ Current' = c
      /\ mem'[Coordinator] \in ClusterInfo
      /\ published' \subseteq ClusterInfo
  BY CoordinatorAssumption DEF TypeOK, Publish, Current
<1>2. pushes' \subseteq [to : NodeIds \ {CoordinatorId}, config : ClusterInfo]
  <2>1. \A id \in PushTargets(c, ignored) : id \in NodeIds \ {CoordinatorId}
    BY TargetsType
  <2>2. QED
    BY <2>1 DEF TypeOK, Publish
<1>3. QED
  BY <1>1, <1>2

LEMMA InitType == Init => TypeOK
<1>1. CoordinatorId \in NodeIds
  BY MaxNodeIdAssumption DEF CoordinatorId, NodeIds
<1>2. QED
  BY <1>1, InitialConfigType, CoordinatorAssumption
     DEF Init, TypeOK, NoElection, NoCheck, Replicas

LEMMA DeployType ==
    ASSUME TypeOK, NEW s \in Services, Deploy(s)  PROVE TypeOK'
<1>1. WithService(Current, s) \in ClusterInfo
  BY OperationsType DEF TypeOK, Current
<1>2. QED
  BY <1>1, PublishType DEF Deploy, TypeOK

LEMMA RemoveType ==
    ASSUME TypeOK, NEW s \in Services, Remove(s)  PROVE TypeOK'
<1>1. WithoutService(Current, s) \in ClusterInfo
  BY OperationsType DEF TypeOK, Current
<1>2. QED
  BY <1>1, PublishType DEF Remove, TypeOK

LEMMA JoinBeginType ==
    ASSUME TypeOK, NEW slot \in JoinSlots, NEW h \in Replicas, JoinBegin(slot, h)
    PROVE  TypeOK'
BY DEF JoinBegin, FreeIds, TypeOK

LEMMA JoinCommitType ==
    ASSUME TypeOK, NEW j \in joins, JoinCommit(j)  PROVE TypeOK'
<1>1. j.id \in NodeIds /\ j.host \in Replicas
  BY DEF TypeOK
<1>2. WithNode(Current, j.id, j.host) \in ClusterInfo
  BY <1>1, OperationsType DEF TypeOK, Current, Replicas
<1>3. Publish(WithNode(Current, j.id, j.host), {j.id})
  BY DEF JoinCommit
<1>4. offers' \subseteq [host : Replicas, config : ClusterInfo]
  BY <1>1, <1>2 DEF JoinCommit, TypeOK
<1>5. QED
  BY <1>2, <1>3, <1>4, PublishType DEF JoinCommit, TypeOK

LEMMA JoinFailType ==
    ASSUME TypeOK, NEW j \in joins, JoinFail(j)  PROVE TypeOK'
BY DEF JoinFail, TypeOK

LEMMA TakeOfferType ==
    ASSUME TypeOK, NEW o \in offers, TakeOffer(o)  PROVE TypeOK'
<1>1. o.host \in Replicas /\ o.config \in ClusterInfo
  BY DEF TypeOK
<1>2. QED
  BY <1>1 DEF TakeOffer, TypeOK, Replicas

LEMMA KickCommitType ==
    ASSUME TypeOK, NEW k \in kicks, KickCommit(k)  PROVE TypeOK'
<1>1. WithoutNode(Current, k.id) \in ClusterInfo
  BY OperationsType DEF TypeOK, Current
<1>2. CASE Publish(WithoutNode(Current, k.id), {})
  BY <1>1, <1>2, PublishType DEF KickCommit, TypeOK
<1>3. CASE UNCHANGED <<mem, published, pushes>>
  BY <1>3 DEF KickCommit, TypeOK
<1>4. QED
  BY <1>2, <1>3 DEF KickCommit

LEMMA ResetHostType ==
    ASSUME TypeOK, NEW h \in Replicas, ResetHost(h)  PROVE TypeOK'
BY DEF ResetHost, TypeOK, Replicas, NoCheck

LEMMA ElectionStartType ==
    ASSUME TypeOK, ElectionStart  PROVE TypeOK'
<1>1. AssignedIds(Current) \subseteq NodeIds
  BY TargetsType DEF TypeOK, Current
<1>2. QED
  BY <1>1 DEF ElectionStart, TypeOK

LEMMA ElectLeaderType ==
    ASSUME TypeOK, NEW id \in NodeIds, ElectLeader(id)  PROVE TypeOK'
<1>1. WithLeader(Current, id) \in ClusterInfo
  BY OperationsType DEF TypeOK, Current
<1>2. QED
  BY <1>1, PublishType DEF ElectLeader, TypeOK

LEMMA KeepLeaderType ==
    ASSUME TypeOK, NEW id \in NodeIds, KeepLeader(id)  PROVE TypeOK'
BY DEF KeepLeader, TypeOK, NoElection

LEMMA ElectionSettleType ==
    ASSUME TypeOK, ElectionSettle  PROVE TypeOK'
BY DEF ElectionSettle, TypeOK, NoElection

LEMMA DeliverPushType ==
    ASSUME TypeOK, NEW p \in pushes, NEW h \in Replicas, DeliverPush(p, h)
    PROVE  TypeOK'
<1>1. p.config \in ClusterInfo
  BY DEF TypeOK
<1>2. QED
  BY <1>1 DEF DeliverPush, TypeOK, Replicas

LEMMA AskCheckType ==
    ASSUME TypeOK, NEW h \in Replicas, AskCheck(h)  PROVE TypeOK'
BY DEF AskCheck, TypeOK, Replicas

LEMMA AnswerCheckType ==
    ASSUME TypeOK, NEW h \in Replicas, AnswerCheck(h)  PROVE TypeOK'
<1>1. Current \in ClusterInfo
  BY DEF TypeOK, Current
<1>2. check[h].asked \in ClusterInfo \cup {NoConfig}
  BY DEF TypeOK
<1>3. PICK a \in ClusterInfo \cup {NoConfig} :
         check' = [check EXCEPT ![h] =
                     [phase |-> "answered", asked |-> check[h].asked, answer |-> a]]
  BY <1>1 DEF AnswerCheck
<1>4. QED
  BY <1>2, <1>3 DEF AnswerCheck, TypeOK

LEMMA TakeAnswerType ==
    ASSUME TypeOK, NEW h \in Replicas, TakeAnswer(h)  PROVE TypeOK'
<1>1. check[h].answer \in ClusterInfo \cup {NoConfig}
  BY DEF TypeOK
<1>2. check' \in [Replicas -> [phase : {"idle", "asked", "answered"},
                              asked : ClusterInfo \cup {NoConfig},
                              answer : ClusterInfo \cup {NoConfig}]]
  BY DEF TakeAnswer, TypeOK, NoCheck
<1>3. CASE mem' = [mem EXCEPT ![h] = check[h].answer]
  BY <1>1, <1>2, <1>3 DEF TakeAnswer, TypeOK, Replicas
<1>4. CASE mem' = mem
  BY <1>2, <1>4 DEF TakeAnswer, TypeOK
<1>5. QED
  BY <1>3, <1>4 DEF TakeAnswer

LEMMA LoseCheckType ==
    ASSUME TypeOK, NEW h \in Replicas, LoseCheck(h)  PROVE TypeOK'
BY DEF LoseCheck, TypeOK, NoCheck

LEMMA RestartCoordinatorType ==
    ASSUME TypeOK, RestartCoordinator  PROVE TypeOK'
BY DEF RestartCoordinator, TypeOK, NoElection

-----------------------------------------------------------------------------
(***************************************************************************)
(* Which hosts act.  The specification lets every host take a push, reset  *)
(* itself or ask to join; that the coordinator never does follows from the *)
(* list of nodes, which names its host by the coordinator's id alone.      *)
(***************************************************************************)
\* The coordinator and the leader are listed, and the coordinator's host has
\* no second entry.
Headed(c) ==
    /\ {CoordinatorId, c.leader} \subseteq AssignedIds(c)
    /\ \A n \in c.nodes : n.host = Coordinator => n.id = CoordinatorId

\* Each operation keeps it, even if a join's tests no longer hold when it adds
\* its node.
LEMMA OperationsHeaded ==
    ASSUME NEW c \in ClusterInfo, Headed(c)
    PROVE  /\ \A id \in NodeIds, h \in Replicas : Headed(WithNode(c, id, h))
           /\ \A id \in NodeIds \ {CoordinatorId} : Headed(WithoutNode(c, id))
           /\ \A id \in AssignedIds(c) : Headed(WithLeader(c, id))
           /\ \A s \in Services : Headed(WithService(c, s)) /\ Headed(WithoutService(c, s))
<1>1. ASSUME NEW id \in NodeIds, NEW h \in Replicas  PROVE Headed(WithNode(c, id, h))
  <2> DEFINE n == [id |-> id, host |-> h, joined |-> Touched(c)]
             d == WithNode(c, id, h)
  <2>1. d.nodes = c.nodes \cup {n} /\ d.leader = c.leader /\ n.host # Coordinator
    BY DEF WithNode, ClusterInfo, Replicas
  <2> HIDE DEF n, d
  <2>2. QED
    BY <2>1 DEF Headed, AssignedIds, d
<1>2. ASSUME NEW id \in NodeIds \ {CoordinatorId}  PROVE Headed(WithoutNode(c, id))
  <2>1. /\ WithoutNode(c, id).nodes = {n \in c.nodes : n.id # id}
        /\ WithoutNode(c, id).leader = IF c.leader = id THEN CoordinatorId ELSE c.leader
    BY DEF WithoutNode, ClusterInfo
  <2>2. QED
    BY <2>1 DEF Headed, AssignedIds
<1>3. ASSUME NEW id \in AssignedIds(c)  PROVE Headed(WithLeader(c, id))
  <2>1. WithLeader(c, id).nodes = c.nodes /\ WithLeader(c, id).leader = id
    BY DEF WithLeader, ClusterInfo
  <2>2. QED
    BY <2>1 DEF Headed, AssignedIds
<1>4. ASSUME NEW s \in Services, NEW d \in {WithService(c, s), WithoutService(c, s)}
      PROVE  Headed(d)
  <2>1. d.nodes = c.nodes /\ d.leader = c.leader
    BY DEF WithService, WithoutService, ClusterInfo
  <2>2. QED
    BY <2>1 DEF Headed, AssignedIds
<1>5. QED
  BY <1>1, <1>2, <1>3, <1>4

\* The steps in which no message of another host reaches the coordinator.
ReplicaNext ==
    \/ \E s \in Services : Deploy(s) \/ Remove(s)
    \/ \E slot \in JoinSlots, h \in Replicas : JoinBegin(slot, h)
    \/ \E j \in joins : JoinCommit(j) \/ JoinFail(j)
    \/ \E o \in offers : TakeOffer(o)
    \/ \E slot \in KickSlots, n \in Current.nodes : KickBegin(slot, n)
    \/ \E k \in kicks : KickCommit(k)
    \/ ElectionStart
    \/ \E id \in NodeIds : ElectLeader(id) \/ KeepLeader(id)
    \/ ElectionSettle
    \/ \E p \in pushes, h \in Replicas : DeliverPush(p, h)
    \/ \E h \in Replicas : \/ ResetHost(h)
                           \/ AskCheck(h)
                           \/ AnswerCheck(h)
                           \/ TakeAnswer(h)
                           \/ LoseCheck(h)
    \/ RestartCoordinator

LEMMA NextIsReplicaNext ==
    ASSUME TypeOK, Headed(Current), [Next]_vars
    PROVE  [ReplicaNext]_vars
<1>1. ASSUME NEW slot \in JoinSlots, NEW h \in Hosts, JoinBegin(slot, h)
      PROVE  h \in Replicas
  BY <1>1, NoConfigAssumption DEF JoinBegin, TypeOK, Replicas
<1>2. ASSUME NEW p \in pushes, NEW h \in Hosts, DeliverPush(p, h)
      PROVE  h \in Replicas
  <2>1. p.to # CoordinatorId
    BY DEF TypeOK
  <2>2. PICK n \in Current.nodes : n.id = p.to /\ n.host = h
    BY <1>2 DEF DeliverPush, Answers
  <2>3. QED
    BY <2>1, <2>2 DEF Headed, Replicas
<1>3. ASSUME NEW h \in Hosts, ResetHost(h)  PROVE h \in Replicas
  BY <1>3 DEF ResetHost, TypeOK
<1>4. CASE Next
  BY <1>1, <1>2, <1>3, <1>4 DEF Next, ReplicaNext
<1>5. CASE UNCHANGED vars
  BY <1>5
<1>6. QED
  BY <1>4, <1>5

\* kick refuses the coordinator's id, so it resets another host.
LEMMA KickBeginType ==
    ASSUME TypeOK, Headed(Current),
           NEW slot \in KickSlots, NEW n \in Current.nodes, KickBegin(slot, n)
    PROVE  TypeOK'
<1>1. n.id \in NodeIds \ {CoordinatorId} /\ n.host \in Replicas
  BY DEF TypeOK, Current, ClusterInfo, NodeInfo, KickBegin, Headed, Replicas
<1>2. QED
  BY <1>1 DEF KickBegin, TypeOK

LEMMA NextType ==
    ASSUME TypeOK, Headed(Current), [ReplicaNext]_vars
    PROVE  TypeOK'
<1>1. CASE ReplicaNext
  BY <1>1, DeployType, RemoveType, JoinBeginType, JoinCommitType, JoinFailType,
     TakeOfferType, KickBeginType, KickCommitType, ResetHostType, ElectionStartType,
     ElectLeaderType, KeepLeaderType, ElectionSettleType, DeliverPushType,
     AskCheckType, AnswerCheckType, TakeAnswerType, LoseCheckType,
     RestartCoordinatorType
     DEF ReplicaNext
<1>2. CASE UNCHANGED vars
  BY <1>2 DEF vars, TypeOK
<1>3. QED
  BY <1>1, <1>2

\* A replica that takes c leaves the coordinator alone.
LEMMA AdoptLeavesCoordinator ==
    ASSUME TypeOK, NEW h \in Replicas, NEW c, mem' = [mem EXCEPT ![h] = c]
    PROVE  Current' = Current
BY CoordinatorAssumption DEF TypeOK, Current, Replicas

\* A step changes the coordinator's configuration by one of the operations.
LEMMA StepHeaded ==
    ASSUME TypeOK, [ReplicaNext]_vars, Headed(Current)
    PROVE  Headed(Current')
<1> Current \in ClusterInfo
  BY DEF TypeOK, Current
<1>1. ASSUME NEW s \in Services, Deploy(s) \/ Remove(s)  PROVE Headed(Current')
  <2>1. PICK d \in {WithService(Current, s), WithoutService(Current, s)} : Publish(d, {})
    BY <1>1 DEF Deploy, Remove
  <2>2. d \in ClusterInfo
    BY OperationsType
  <2>3. QED
    BY <2>1, <2>2, PublishType, OperationsHeaded
<1>2. ASSUME NEW j \in joins, JoinCommit(j)  PROVE Headed(Current')
  <2>1. j.id \in NodeIds /\ j.host \in Replicas /\ j.host \in Hosts
    BY DEF TypeOK, Replicas
  <2>2. Current' = WithNode(Current, j.id, j.host)
    BY <1>2, <2>1, OperationsType, PublishType DEF JoinCommit
  <2>3. QED
    BY <2>1, <2>2, OperationsHeaded
<1>3. ASSUME NEW k \in kicks, KickCommit(k)  PROVE Headed(Current')
  <2>1. k.id \in NodeIds \ {CoordinatorId}
    BY DEF TypeOK
  <2>2. CASE Publish(WithoutNode(Current, k.id), {})
    BY <2>1, <2>2, OperationsType, PublishType, OperationsHeaded
  <2>3. CASE UNCHANGED <<mem, published, pushes>>
    BY <2>3 DEF Current
  <2>4. QED
    BY <1>3, <2>2, <2>3 DEF KickCommit
<1>4. ASSUME NEW id \in NodeIds, ElectLeader(id)  PROVE Headed(Current')
  BY <1>4, OperationsType, PublishType, OperationsHeaded DEF ElectLeader
<1>5. ASSUME \E h \in Replicas : \E c : mem' = [mem EXCEPT ![h] = c]  PROVE Current' = Current
  BY <1>5, AdoptLeavesCoordinator
<1>6. CASE \/ \E o \in offers : TakeOffer(o)
           \/ \E p \in pushes, h \in Replicas : DeliverPush(p, h)
           \/ \E h \in Replicas : TakeAnswer(h) \/ ResetHost(h)
  <2>1. mem' = mem \/ \E h \in Replicas : \E c : mem' = [mem EXCEPT ![h] = c]
    BY <1>6 DEF TypeOK, TakeOffer, DeliverPush, TakeAnswer, ResetHost
  <2>2. QED
    BY <1>5, <2>1 DEF Current
<1>7. CASE \/ \E slot \in JoinSlots, h \in Replicas : JoinBegin(slot, h)
           \/ \E j \in joins : JoinFail(j)
           \/ \E slot \in KickSlots, n \in Current.nodes : KickBegin(slot, n)
           \/ ElectionStart
           \/ \E id \in NodeIds : KeepLeader(id)
           \/ ElectionSettle
           \/ \E h \in Replicas : AskCheck(h) \/ AnswerCheck(h) \/ LoseCheck(h)
           \/ RestartCoordinator
           \/ UNCHANGED vars
  BY <1>7 DEF Current, JoinBegin, JoinFail, KickBegin, ElectionStart, KeepLeader,
     ElectionSettle, AskCheck, AnswerCheck, LoseCheck, RestartCoordinator, vars
<1>8. QED
  BY <1>1, <1>2, <1>3, <1>4, <1>6, <1>7 DEF ReplicaNext

\* The types alone are not inductive: that no push is taken and no reset made
\* by the coordinator needs the list of nodes.
CoreInv == TypeOK /\ Headed(Current)

LEMMA CoreInvHolds == Spec => []CoreInv
<1>1. Init => CoreInv
  <2>1. Headed(InitialConfig)
    BY DEF InitialConfig, Headed, AssignedIds
  <2>2. Init => Current = InitialConfig
    BY CoordinatorAssumption DEF Init, Current
  <2>3. QED
    BY <2>1, <2>2, InitType DEF CoreInv
<1>2. CoreInv /\ [Next]_vars => CoreInv'
  <2> SUFFICES ASSUME TypeOK, Headed(Current), [Next]_vars
               PROVE  TypeOK' /\ Headed(Current')
    BY DEF CoreInv, Headed, AssignedIds
  <2>1. [ReplicaNext]_vars
    BY NextIsReplicaNext
  <2>2. QED
    BY <2>1, NextType, StepHeaded
<1>3. QED
  BY <1>1, <1>2, PTL DEF Spec

\* No step of another host's message is ever the coordinator's.
LEMMA StepsOfReplicas == Spec => [][ReplicaNext]_vars
<1>1. CoreInv /\ [Next]_vars => [ReplicaNext]_vars
  BY NextIsReplicaNext DEF CoreInv
<1>2. QED
  BY <1>1, CoreInvHolds, PTL DEF Spec

\* Every variable keeps its type: among others, no host ever holds or is sent
\* something that is not a configuration, the coordinator always has one, no
\* push is addressed to it, and no kick resets it.
THEOREM TypeCorrect == Spec => []TypeOK
<1>1. CoreInv => TypeOK
  BY DEF CoreInv
<1>2. QED
  BY <1>1, CoreInvHolds, PTL

-----------------------------------------------------------------------------
(***************************************************************************)
(* The coordinator's configuration only grows younger, and the replicas    *)
(* adopt nothing it has not published.                                     *)
(***************************************************************************)
\* The coordinator's configuration is replaced by a younger one; no other
\* host's configuration changes in that step.
Publishes ==
    /\ Current' \in ClusterInfo
    /\ Current'.updated_at = Current.updated_at + 1
    /\ published' = published \cup {Current'}
    /\ \A h \in Replicas : mem'[h] = mem[h]

\* Nothing changes for the coordinator, and at most one other host changes
\* its configuration, to one of the set given.
Adopts(configs) ==
    /\ Current' = Current
    /\ published' = published
    /\ \/ mem' = mem
       \/ \E h \in Replicas, c \in configs : mem' = [mem EXCEPT ![h] = c]

\* The configurations in the messages of the model.
InFlight ==
    {o.config : o \in offers} \cup {p.config : p \in pushes} \cup {check[h].answer : h \in Replicas}

LEMMA PublishPublishes ==
    ASSUME TypeOK, NEW c \in ClusterInfo, NEW ignored, Publish(c, ignored),
           c.updated_at = Current.updated_at + 1
    PROVE  Publishes
BY CoordinatorAssumption DEF Publish, Publishes, TypeOK, Current, Replicas

LEMMA StepPublishesOrAdopts ==
    ASSUME TypeOK, [ReplicaNext]_vars
    PROVE  Publishes \/ Adopts(InFlight \cup {NoConfig})
<1> Current \in ClusterInfo
  BY DEF TypeOK, Current
<1>1. ASSUME NEW s \in Services, Deploy(s) \/ Remove(s)  PROVE Publishes
  <2>1. CASE Deploy(s)
    BY <2>1, PublishPublishes, OperationsType DEF Deploy
  <2>2. CASE Remove(s)
    BY <2>2, PublishPublishes, OperationsType DEF Remove
  <2>3. QED
    BY <1>1, <2>1, <2>2
<1>2. ASSUME NEW j \in joins, JoinCommit(j)  PROVE Publishes
  <2>1. j.id \in NodeIds /\ j.host \in Hosts
    BY DEF TypeOK, Replicas
  <2>2. Publish(WithNode(Current, j.id, j.host), {j.id})
    BY <1>2 DEF JoinCommit
  <2>3. QED
    BY <2>1, <2>2, PublishPublishes, OperationsType
<1>3. ASSUME NEW k \in kicks, KickCommit(k)  PROVE Publishes \/ Adopts({})
  <2>1. k.id \in NodeIds
    BY DEF TypeOK
  <2>2. CASE Publish(WithoutNode(Current, k.id), {})
    BY <2>1, <2>2, PublishPublishes, OperationsType
  <2>3. CASE UNCHANGED <<mem, published, pushes>>
    BY <2>3 DEF Adopts, Current
  <2>4. QED
    BY <1>3, <2>2, <2>3 DEF KickCommit
<1>4. ASSUME NEW id \in NodeIds, ElectLeader(id)  PROVE Publishes
  BY <1>4, PublishPublishes, OperationsType DEF ElectLeader
<1>5. ASSUME NEW o \in offers, TakeOffer(o)  PROVE Adopts(InFlight)
  <2>1. o.host \in Replicas /\ o.config \in InFlight
    BY DEF TypeOK, InFlight
  <2>2. QED
    BY <1>5, <2>1, AdoptLeavesCoordinator DEF TakeOffer, Adopts
<1>6. ASSUME NEW p \in pushes, NEW h \in Replicas, DeliverPush(p, h)
      PROVE  Adopts(InFlight)
  <2>1. p.config \in InFlight
    BY DEF InFlight
  <2>2. QED
    BY <1>6, <2>1, AdoptLeavesCoordinator DEF DeliverPush, Adopts
<1>7. ASSUME NEW h \in Replicas, TakeAnswer(h)  PROVE Adopts(InFlight)
  <2>1. check[h].answer \in InFlight
    BY DEF InFlight
  <2>2. CASE mem' = mem
    BY <1>7, <2>2 DEF TakeAnswer, Adopts, Current
  <2>3. CASE mem' = [mem EXCEPT ![h] = check[h].answer]
    BY <1>7, <2>1, <2>3, AdoptLeavesCoordinator DEF TakeAnswer, Adopts
  <2>4. QED
    BY <1>7, <2>2, <2>3 DEF TakeAnswer
<1>8. ASSUME NEW h \in Replicas, ResetHost(h)  PROVE Adopts({NoConfig})
  BY <1>8, AdoptLeavesCoordinator DEF ResetHost, Adopts
<1>9. ASSUME UNCHANGED <<mem, published>>  PROVE Adopts({})
  BY <1>9 DEF Adopts, Current
<1>10. ASSUME \/ \E slot \in JoinSlots, h \in Replicas : JoinBegin(slot, h)
              \/ \E j \in joins : JoinFail(j)
              \/ \E slot \in KickSlots, n \in Current.nodes : KickBegin(slot, n)
              \/ ElectionStart
              \/ \E id \in NodeIds : KeepLeader(id)
              \/ ElectionSettle
              \/ \E h \in Replicas : AskCheck(h) \/ AnswerCheck(h) \/ LoseCheck(h)
              \/ RestartCoordinator
              \/ UNCHANGED vars
       PROVE  UNCHANGED <<mem, published>>
  BY <1>10 DEF JoinBegin, JoinFail, KickBegin, ElectionStart, KeepLeader,
     ElectionSettle, AskCheck, AnswerCheck, LoseCheck, RestartCoordinator, vars
<1>11. \A configs : configs \subseteq InFlight \cup {NoConfig} /\ Adopts(configs)
                       => Adopts(InFlight \cup {NoConfig})
  BY DEF Adopts
<1>12. \/ \E s \in Services : Deploy(s) \/ Remove(s)
       \/ \E j \in joins : JoinCommit(j)
       \/ \E k \in kicks : KickCommit(k)
       \/ \E id \in NodeIds : ElectLeader(id)
       \/ \E o \in offers : TakeOffer(o)
       \/ \E p \in pushes, h \in Replicas : DeliverPush(p, h)
       \/ \E h \in Replicas : TakeAnswer(h) \/ ResetHost(h)
       \/ UNCHANGED <<mem, published>>
  BY <1>10 DEF ReplicaNext
<1>13. QED
  BY <1>1, <1>2, <1>3, <1>4, <1>5, <1>6, <1>7, <1>8, <1>9, <1>11, <1>12

-----------------------------------------------------------------------------
(***************************************************************************)
(* The refinement of PublishedConfig.  A replica adopts only configurations*)
(* in flight, so it must be invariant that these have been published.      *)
(***************************************************************************)
FlightInv ==
    /\ TypeOK
    /\ Current \in published
    /\ InFlight \subseteq published \cup {NoConfig}

\* A step sends the coordinator's configuration or nothing.
LEMMA StepSendsCurrent ==
    ASSUME TypeOK, [ReplicaNext]_vars
    PROVE  InFlight' \subseteq InFlight \cup {Current', NoConfig}
<1>1. ASSUME NEW c \in ClusterInfo, NEW ignored, Publish(c, ignored)
      PROVE  \A p \in pushes' : p \in pushes \/ p.config = Current'
  <2>1. Current' = c
    BY <1>1, PublishType
  <2>2. \A p \in pushes' : p \in pushes \/ p.config = c
    BY <1>1 DEF Publish
  <2>3. QED
    BY <2>1, <2>2
<1>2. ASSUME NEW s \in Services, Deploy(s) \/ Remove(s)
      PROVE  InFlight' \subseteq InFlight \cup {Current', NoConfig}
  <2>1. \A p \in pushes' : p \in pushes \/ p.config = Current'
    <3>1. WithService(Current, s) \in ClusterInfo /\ WithoutService(Current, s) \in ClusterInfo
      BY OperationsType DEF TypeOK, Current
    <3>2. QED
      BY <1>1, <1>2, <3>1 DEF Deploy, Remove
  <2>2. QED
    BY <1>2, <2>1 DEF Deploy, Remove, InFlight
<1>3. ASSUME NEW j \in joins, JoinCommit(j)
      PROVE  InFlight' \subseteq InFlight \cup {Current', NoConfig}
  <2>1. WithNode(Current, j.id, j.host) \in ClusterInfo
    BY OperationsType DEF TypeOK, Current, Replicas
  <2>2. Publish(WithNode(Current, j.id, j.host), {j.id})
    BY <1>3 DEF JoinCommit
  <2>3. Current' = WithNode(Current, j.id, j.host)
    BY <2>1, <2>2, PublishType
  <2>4. \A o \in offers' : o \in offers \/ o.config = Current'
    BY <1>3, <2>3 DEF JoinCommit
  <2>5. \A p \in pushes' : p \in pushes \/ p.config = Current'
    BY <1>1, <2>1, <2>2
  <2>6. check' = check
    BY <1>3 DEF JoinCommit
  <2>7. QED
    BY <2>4, <2>5, <2>6 DEF InFlight
<1>4. ASSUME NEW k \in kicks, KickCommit(k)
      PROVE  InFlight' \subseteq InFlight \cup {Current', NoConfig}
  <2>1. WithoutNode(Current, k.id) \in ClusterInfo
    BY OperationsType DEF TypeOK, Current
  <2>2. \A p \in pushes' : p \in pushes \/ p.config = Current'
    BY <1>1, <1>4, <2>1 DEF KickCommit
  <2>3. QED
    BY <1>4, <2>2 DEF KickCommit, InFlight
<1>5. ASSUME NEW id \in NodeIds, ElectLeader(id)
      PROVE  InFlight' \subseteq InFlight \cup {Current', NoConfig}
  <2>1. WithLeader(Current, id) \in ClusterInfo
    BY OperationsType DEF TypeOK, Current
  <2>2. \A p \in pushes' : p \in pushes \/ p.config = Current'
    BY <1>1, <1>5, <2>1 DEF ElectLeader
  <2>3. QED
    BY <1>5, <2>2 DEF ElectLeader, InFlight
<1>6. ASSUME NEW h \in Replicas,
             ResetHost(h) \/ AskCheck(h) \/ TakeAnswer(h) \/ LoseCheck(h)
      PROVE  InFlight' \subseteq InFlight \cup {Current', NoConfig}
  <2>1. /\ offers' \subseteq offers
        /\ pushes' = pushes
    BY <1>6 DEF ResetHost, AskCheck, TakeAnswer, LoseCheck
  <2>2. \A i \in Replicas : check'[i].answer \in {check[i].answer, NoConfig}
    BY <1>6 DEF TypeOK, ResetHost, AskCheck, TakeAnswer, LoseCheck, NoCheck
  <2>3. QED
    BY <2>1, <2>2 DEF InFlight
<1>7. ASSUME NEW h \in Replicas, AnswerCheck(h)
      PROVE  InFlight' \subseteq InFlight \cup {Current', NoConfig}
  <2>1. offers' = offers /\ pushes' = pushes /\ Current' = Current
    BY <1>7 DEF AnswerCheck, Current
  <2>2. \A i \in Replicas : check'[i].answer \in {check[i].answer, Current, NoConfig}
    BY <1>7 DEF TypeOK, AnswerCheck
  <2>3. QED
    BY <2>1, <2>2 DEF InFlight
<1>8. ASSUME \/ \E slot \in JoinSlots, h \in Replicas : JoinBegin(slot, h)
             \/ \E j \in joins : JoinFail(j)
             \/ \E o \in offers : TakeOffer(o)
             \/ \E slot \in KickSlots, n \in Current.nodes : KickBegin(slot, n)
             \/ ElectionStart
             \/ \E id \in NodeIds : KeepLeader(id)
             \/ ElectionSettle
             \/ \E p \in pushes, h \in Replicas : DeliverPush(p, h)
             \/ RestartCoordinator
             \/ UNCHANGED vars
      PROVE  InFlight' \subseteq InFlight \cup {Current', NoConfig}
  <2>1. offers' \subseteq offers /\ pushes' \subseteq pushes /\ check' = check
    BY <1>8 DEF JoinBegin, JoinFail, TakeOffer, KickBegin, ElectionStart,
       KeepLeader, ElectionSettle, DeliverPush, RestartCoordinator, vars
  <2>2. QED
    BY <2>1 DEF InFlight
<1>9. QED
  BY <1>2, <1>3, <1>4, <1>5, <1>6, <1>7, <1>8 DEF ReplicaNext

LEMMA FlightInvHolds == Spec => []FlightInv
<1>1. Init => FlightInv
  <2> SUFFICES ASSUME Init  PROVE FlightInv
    OBVIOUS
  <2>1. TypeOK
    BY InitType
  <2>2. Current \in published /\ offers = {} /\ pushes = {}
    BY CoordinatorAssumption DEF Init, Current
  <2>3. \A h \in Replicas : check[h].answer = NoConfig
    BY DEF Init, NoCheck
  <2>4. QED
    BY <2>1, <2>2, <2>3 DEF FlightInv, InFlight
<1>2. FlightInv /\ TypeOK' /\ [ReplicaNext]_vars => FlightInv'
  <2> SUFFICES ASSUME FlightInv, TypeOK', [ReplicaNext]_vars  PROVE FlightInv'
    OBVIOUS
  <2>1. TypeOK /\ TypeOK'
    BY DEF FlightInv
  <2>2. published \subseteq published' /\ Current' \in published'
    BY <2>1, StepPublishesOrAdopts DEF Publishes, Adopts, FlightInv
  <2>3. InFlight' \subseteq InFlight \cup {Current', NoConfig}
    BY <2>1, StepSendsCurrent
  <2>4. QED
    BY <2>1, <2>2, <2>3 DEF FlightInv
<1>3. QED
  BY <1>1, <1>2, TypeCorrect, StepsOfReplicas, PTL DEF Spec

\* The coordinator and the replicas implement PublishedConfig: at any time a
\* replica holds nothing or exactly one configuration the coordinator had.
THEOREM Implements == Spec => PublishesConfig
<1> DEFINE view == [h \in Replicas |-> mem[h]]
<1>1. Init => Abstract!Init
  BY CoordinatorAssumption DEF Init, Abstract!Init, Current, Replicas
<1>2. FlightInv /\ [ReplicaNext]_vars => [Abstract!Next]_(Abstract!vars)
  <2> SUFFICES ASSUME FlightInv, [ReplicaNext]_vars
               PROVE  Abstract!Next \/ UNCHANGED Abstract!vars
    OBVIOUS
  <2>1. TypeOK
    BY DEF FlightInv
  <2>2. CASE Publishes
    <3>1. Current.updated_at < Current'.updated_at
      BY <2>1, <2>2 DEF Publishes, TypeOK, Current, ClusterInfo
    <3>2. view' = view
      BY <2>2 DEF Publishes
    <3>3. Abstract!Publish
      BY <2>2, <3>1, <3>2 DEF Publishes, Abstract!Publish
    <3>4. QED
      BY <3>3 DEF Abstract!Next
  <2>3. CASE Adopts(InFlight \cup {NoConfig})
    <3>1. CASE mem' = mem
      BY <2>3, <3>1 DEF Adopts, Abstract!vars
    <3>2. ASSUME NEW h \in Replicas, NEW c \in InFlight \cup {NoConfig},
                 mem' = [mem EXCEPT ![h] = c]
          PROVE  Abstract!Next
      <4>1. view' = [view EXCEPT ![h] = c]
        BY <2>1, <3>2 DEF TypeOK, Replicas
      <4>2. Current' = Current /\ published' = published
        BY <2>3 DEF Adopts
      <4>3. CASE c = NoConfig
        <5>1. Abstract!Forget(h)
          BY <4>1, <4>2, <4>3 DEF Abstract!Forget
        <5>2. QED
          BY <5>1 DEF Abstract!Next
      <4>4. CASE c \in published
        <5>1. Abstract!Adopt(h)
          BY <4>1, <4>2, <4>4 DEF Abstract!Adopt
        <5>2. QED
          BY <5>1 DEF Abstract!Next
      <4>5. QED
        BY <3>2, <4>3, <4>4 DEF FlightInv
    <3>3. QED
      BY <2>3, <3>1, <3>2 DEF Adopts
  <2>4. QED
    BY <2>1, <2>2, <2>3, StepPublishesOrAdopts
<1>3. QED
  BY <1>1, <1>2, FlightInvHolds, StepsOfReplicas, PTL
     DEF Spec, PublishesConfig, Abstract!Spec

-----------------------------------------------------------------------------
(***************************************************************************)
(* What holds of every configuration however joins and kicks overlap.      *)
(***************************************************************************)
CopyInv ==
    /\ FlightInv
    /\ \A h \in Hosts : mem[h] \in published \cup {NoConfig}
    /\ \A c \in published : Headed(c) /\ c.updated_at <= Current.updated_at
    /\ \A c, d \in published : c.updated_at = d.updated_at => c = d

LEMMA CopyInvHolds == Spec => []CopyInv
<1>1. Init => CopyInv
  <2> SUFFICES ASSUME Init  PROVE CopyInv
    OBVIOUS
  <2>1. FlightInv
    <3>1. TypeOK /\ Current \in published
      BY InitType, CoordinatorAssumption DEF Init, Current
    <3>2. InFlight \subseteq {NoConfig}
      BY DEF Init, NoCheck, InFlight
    <3>3. QED
      BY <3>1, <3>2 DEF FlightInv
  <2>2. Headed(InitialConfig)
    BY DEF InitialConfig, Headed, AssignedIds
  <2>3. InitialConfig.updated_at = 0
    BY DEF InitialConfig
  <2>4. QED
    BY <2>1, <2>2, <2>3, CoordinatorAssumption DEF Init, CopyInv, Current
<1>2. CopyInv /\ FlightInv' /\ [ReplicaNext]_vars => CopyInv'
  <2> SUFFICES ASSUME CopyInv, FlightInv', [ReplicaNext]_vars  PROVE CopyInv'
    OBVIOUS
  <2>1. TypeOK /\ TypeOK' /\ Current \in ClusterInfo /\ Current \in published
    BY DEF CopyInv, FlightInv, TypeOK, Current
  <2>2. Headed(Current')
    BY <2>1, StepHeaded DEF CopyInv
  <2>3. \A c \in published : c.updated_at \in Nat
    BY <2>1 DEF TypeOK, ClusterInfo
  <2>4. CASE Publishes
    <3>1. \A c \in published' : Headed(c) /\ c.updated_at <= Current'.updated_at
      BY <2>1, <2>2, <2>3, <2>4 DEF CopyInv, Publishes
    <3>2. \A c \in published : c.updated_at < Current'.updated_at
      BY <2>1, <2>3, <2>4 DEF CopyInv, Publishes
    <3>3. \A c, d \in published' : c.updated_at = d.updated_at => c = d
      BY <2>3, <2>4, <3>2 DEF CopyInv, Publishes
    <3>4. \A h \in Hosts : mem'[h] \in published' \cup {NoConfig}
      BY <2>4 DEF CopyInv, Publishes, Replicas, Current
    <3>5. QED
      BY <3>1, <3>3, <3>4 DEF CopyInv
  <2>5. CASE Adopts(InFlight \cup {NoConfig})
    <3>1. \A h \in Hosts : mem'[h] \in published \cup {NoConfig}
      BY <2>1, <2>5 DEF CopyInv, FlightInv, Adopts, TypeOK
    <3>2. QED
      BY <2>5, <3>1 DEF CopyInv, Adopts
  <2>6. QED
    BY <2>1, <2>4, <2>5, StepPublishesOrAdopts
<1>3. QED
  BY <1>1, <1>2, FlightInvHolds, StepsOfReplicas, PTL DEF Spec

\* Nothing the coordinator has decided is undone: its configuration is never
\* deleted, and never replaced by one that it had before, whatever pushes,
\* answers, offers and resets are late and however joins and kicks overlap.
THEOREM NothingIsUndone == Spec => CoordinatorNeverReverts
<1>1. CopyInv /\ [ReplicaNext]_vars
         => [Current' # Current => Current' \in ClusterInfo \ published]_vars
  <2> SUFFICES ASSUME CopyInv, [ReplicaNext]_vars, Current' # Current
               PROVE  Current' \in ClusterInfo \ published
    OBVIOUS
  <2>1. TypeOK /\ \A c \in published : c.updated_at <= Current.updated_at
    BY DEF CopyInv, FlightInv
  <2>2. Publishes
    BY <2>1, StepPublishesOrAdopts DEF Adopts
  <2>3. Current.updated_at \in Nat
    BY <2>1 DEF TypeOK, Current, ClusterInfo
  <2>4. QED
    BY <2>1, <2>2, <2>3 DEF Publishes
<1>2. QED
  BY <1>1, CopyInvHolds, StepsOfReplicas, PTL DEF CoordinatorNeverReverts

\* However joins, kicks, elections and messages overlap, the configuration of
\* every host lists the coordinator and its leader, so that both can always be
\* looked up: the only way it can be invalid is that a joined host is listed
\* twice.
THEOREM CopiesAreHeaded ==
    Spec => [](\A h \in Hosts : mem[h] # NoConfig => Headed(mem[h]))
<1>1. CopyInv => (\A h \in Hosts : mem[h] # NoConfig => Headed(mem[h]))
  BY DEF CopyInv
<1>2. QED
  BY <1>1, CopyInvHolds, PTL

\* Two hosts whose configurations are of the same update have the same one:
\* late messages leave a host behind, but never with one of its own.
THEOREM UpdatesNameConfigs ==
    Spec => [](\A g, h \in Hosts :
                  NoConfig \notin {mem[g], mem[h]} /\ mem[g].updated_at = mem[h].updated_at
                    => mem[g] = mem[h])
<1>1. CopyInv => (\A g, h \in Hosts :
                    NoConfig \notin {mem[g], mem[h]} /\ mem[g].updated_at = mem[h].updated_at
                      => mem[g] = mem[h])
  BY DEF CopyInv
<1>2. QED
  BY <1>1, CopyInvHolds, PTL

-----------------------------------------------------------------------------
(***************************************************************************)
(* The coordinator's configurations are valid when join requests do not    *)
(* overlap.  What a handler found out before its await must then still be  *)
(* true after it: the id and the host of a join under way are still free.  *)
(***************************************************************************)
Sound(c) == Valid(c) /\ NodesUnique(c)

\* Each operation keeps a sound configuration sound, the handlers' tests
\* granted, and only a join adds an id or a host.
LEMMA OperationsSound ==
    ASSUME NEW c \in ClusterInfo, Sound(c)
    PROVE  /\ \A id \in FreeIds(c), h \in Hosts \ Hostnames(c) :
                 /\ Sound(WithNode(c, id, h))
                 /\ AssignedIds(WithNode(c, id, h)) = AssignedIds(c) \cup {id}
                 /\ Hostnames(WithNode(c, id, h)) = Hostnames(c) \cup {h}
           /\ \A id \in NodeIds \ {CoordinatorId} :
                 /\ Sound(WithoutNode(c, id))
                 /\ AssignedIds(WithoutNode(c, id)) \subseteq AssignedIds(c)
                 /\ Hostnames(WithoutNode(c, id)) \subseteq Hostnames(c)
           /\ \A id \in AssignedIds(c) :
                 /\ Sound(WithLeader(c, id))
                 /\ AssignedIds(WithLeader(c, id)) = AssignedIds(c)
                 /\ Hostnames(WithLeader(c, id)) = Hostnames(c)
           /\ \A s \in Services : \A d \in {WithService(c, s), WithoutService(c, s)} :
                 /\ Sound(d)
                 /\ AssignedIds(d) = AssignedIds(c)
                 /\ Hostnames(d) = Hostnames(c)
<1>1. ASSUME NEW id \in FreeIds(c), NEW h \in Hosts \ Hostnames(c)
      PROVE  /\ Sound(WithNode(c, id, h))
             /\ AssignedIds(WithNode(c, id, h)) = AssignedIds(c) \cup {id}
             /\ Hostnames(WithNode(c, id, h)) = Hostnames(c) \cup {h}
  <2> DEFINE n == [id |-> id, host |-> h, joined |-> Touched(c)]
             d == WithNode(c, id, h)
  <2>1. d.nodes = c.nodes \cup {n} /\ d.leader = c.leader
    BY DEF WithNode, ClusterInfo
  <2>2. AssignedIds(d) = AssignedIds(c) \cup {id} /\ Hostnames(d) = Hostnames(c) \cup {h}
    <3>1. n.id = id /\ n.host = h
      OBVIOUS
    <3>2. AssignedIds(d) = AssignedIds(c) \cup {n.id}
      <4> HIDE DEF n, d
      <4>1. QED
        BY <2>1 DEF AssignedIds
    <3>3. Hostnames(d) = Hostnames(c) \cup {n.host}
      <4> HIDE DEF n, d
      <4>1. QED
        BY <2>1 DEF Hostnames
    <3>4. QED
      BY <3>1, <3>2, <3>3
  <2>3. \A m \in c.nodes : m.id # id /\ m.host # h
    BY DEF FreeIds, AssignedIds, Hostnames
  <2>4. Sound(d)
    BY <2>1, <2>2, <2>3 DEF Sound, Valid, NodesUnique
  <2>5. QED
    BY <2>2, <2>4
<1>2. ASSUME NEW id \in NodeIds \ {CoordinatorId}
      PROVE  /\ Sound(WithoutNode(c, id))
             /\ AssignedIds(WithoutNode(c, id)) \subseteq AssignedIds(c)
             /\ Hostnames(WithoutNode(c, id)) \subseteq Hostnames(c)
  <2> DEFINE d == WithoutNode(c, id)
  <2>1. /\ d.nodes = {n \in c.nodes : n.id # id}
        /\ d.leader = IF c.leader = id THEN CoordinatorId ELSE c.leader
    BY DEF WithoutNode, ClusterInfo
  <2>2. AssignedIds(d) = AssignedIds(c) \ {id} /\ Hostnames(d) \subseteq Hostnames(c)
    BY <2>1 DEF AssignedIds, Hostnames
  <2>3. QED
    BY <2>1, <2>2 DEF Sound, Valid, NodesUnique
<1>3. ASSUME NEW id \in AssignedIds(c)
      PROVE  /\ Sound(WithLeader(c, id))
             /\ AssignedIds(WithLeader(c, id)) = AssignedIds(c)
             /\ Hostnames(WithLeader(c, id)) = Hostnames(c)
  <2>1. WithLeader(c, id).nodes = c.nodes /\ WithLeader(c, id).leader = id
    BY DEF WithLeader, ClusterInfo
  <2>2. QED
    BY <2>1 DEF Sound, Valid, NodesUnique, AssignedIds, Hostnames
<1>4. ASSUME NEW s \in Services, NEW d \in {WithService(c, s), WithoutService(c, s)}
      PROVE  /\ Sound(d)
             /\ AssignedIds(d) = AssignedIds(c)
             /\ Hostnames(d) = Hostnames(c)
  <2>1. d.nodes = c.nodes /\ d.leader = c.leader
    BY DEF WithService, WithoutService, ClusterInfo
  <2>2. QED
    BY <2>1 DEF Sound, Valid, NodesUnique, AssignedIds, Hostnames
<1>5. QED
  BY <1>1, <1>2, <1>3, <1>4

MembershipInv ==
    /\ TypeOK
    /\ Current \in published
    /\ PublishedConfigsValid
    /\ \A i, j \in joins : i.slot = j.slot => i = j
    /\ \A j \in joins : j.id \notin AssignedIds(Current) /\ j.host \notin Hostnames(Current)

\* A step in which the coordinator publishes a sound configuration that adds
\* no id and no host, or in which nothing changes for it, keeps the invariant
\* if no join begins.
LEMMA MembershipKept ==
    ASSUME MembershipInv, TypeOK', joins' \subseteq joins,
           \/ Current' = Current /\ published' = published
           \/ /\ published' = published \cup {Current'}
              /\ Sound(Current')
              /\ AssignedIds(Current') \subseteq AssignedIds(Current)
              /\ Hostnames(Current') \subseteq Hostnames(Current)
    PROVE  MembershipInv'
BY DEF MembershipInv, PublishedConfigsValid, Sound

LEMMA MembershipStep ==
    ASSUME OneJoinAtATime, MembershipInv, TypeOK', [ReplicaNext]_vars
    PROVE  MembershipInv'
<1>1. TypeOK /\ TypeOK'
  BY DEF MembershipInv
<1>2. Current \in ClusterInfo /\ Sound(Current)
  BY DEF MembershipInv, PublishedConfigsValid, Sound, TypeOK, Current
<1>3. ASSUME NEW s \in Services, Deploy(s) \/ Remove(s)  PROVE MembershipInv'
  <2>1. PICK d \in {WithService(Current, s), WithoutService(Current, s)} : Publish(d, {})
    BY <1>3 DEF Deploy, Remove
  <2>2. Current' = d /\ published' = published \cup {d} /\ joins' = joins
    <3>1. d \in ClusterInfo
      BY <1>2, OperationsType
    <3>2. QED
      BY <1>1, <1>3, <2>1, <3>1, PublishType DEF Publish, Deploy, Remove
  <2>3. QED
    BY <1>1, <1>2, <2>2, OperationsSound, MembershipKept
<1>4. ASSUME NEW slot \in JoinSlots, NEW h \in Replicas, JoinBegin(slot, h)
      PROVE  MembershipInv'
  <2>1. PICK id \in FreeIds(Current) :
           /\ IsNextNodeId(Current, id)
           /\ joins' = joins \cup {[slot |-> slot, host |-> h, id |-> id]}
    BY <1>4 DEF JoinBegin
  <2>2. Current' = Current /\ published' = published
    BY <1>4 DEF JoinBegin, Current
  <2>3. id \notin AssignedIds(Current) /\ h \notin Hostnames(Current)
    BY <1>4, <2>1 DEF JoinBegin, FreeIds
  <2>4. \A i, j \in joins' : i.slot = j.slot => i = j
    BY <1>4, <2>1 DEF JoinBegin, MembershipInv
  <2>5. \A j \in joins' : j.id \notin AssignedIds(Current) /\ j.host \notin Hostnames(Current)
    BY <2>1, <2>3 DEF MembershipInv
  <2>6. AssignedIds(Current') = AssignedIds(Current) /\ Hostnames(Current') = Hostnames(Current)
    BY <2>2
  <2>7. PublishedConfigsValid'
    BY <2>2 DEF PublishedConfigsValid, MembershipInv
  <2>8. QED
    BY <1>1, <2>2, <2>4, <2>5, <2>6, <2>7 DEF MembershipInv
<1>5. ASSUME NEW j \in joins, JoinCommit(j)  PROVE MembershipInv'
  <2> DEFINE d == WithNode(Current, j.id, j.host)
  <2>1. j.id \in FreeIds(Current) /\ j.host \in Hosts \ Hostnames(Current)
    BY <1>1 DEF MembershipInv, TypeOK, FreeIds, Replicas
  <2>2. Publish(d, {j.id}) /\ joins' = joins \ {j}
    BY <1>5 DEF JoinCommit
  <2>3. d \in ClusterInfo
    BY <1>2, <2>1, OperationsType DEF FreeIds
  <2>4. Current' = d /\ published' = published \cup {d}
    BY <1>1, <2>2, <2>3, PublishType DEF Publish
  <2>5. Sound(d)
    BY <1>2, <2>1, OperationsSound
  <2>6. joins' = {}
    BY <1>1, <2>2 DEF OneJoinAtATime, MembershipInv, TypeOK
  <2>7. QED
    BY <1>1, <2>4, <2>5, <2>6 DEF MembershipInv, PublishedConfigsValid, Sound
<1>6. ASSUME NEW k \in kicks, KickCommit(k)  PROVE MembershipInv'
  <2>1. k.id \in NodeIds \ {CoordinatorId}
    BY <1>1 DEF TypeOK
  <2>2. CASE Publish(WithoutNode(Current, k.id), {})
    <3>1. WithoutNode(Current, k.id) \in ClusterInfo
      BY <1>2, <2>1, OperationsType
    <3>2. /\ Current' = WithoutNode(Current, k.id)
          /\ published' = published \cup {Current'}
          /\ joins' = joins
      BY <1>1, <1>6, <2>2, <3>1, PublishType DEF Publish, KickCommit
    <3>3. QED
      BY <1>1, <1>2, <2>1, <3>2, OperationsSound, MembershipKept
  <2>3. CASE UNCHANGED <<mem, published, pushes>>
    BY <1>1, <1>6, <2>3, MembershipKept DEF KickCommit, Current
  <2>4. QED
    BY <1>6, <2>2, <2>3 DEF KickCommit
<1>7. ASSUME NEW id \in NodeIds, ElectLeader(id)  PROVE MembershipInv'
  <2>1. WithLeader(Current, id) \in ClusterInfo
    BY <1>2, OperationsType
  <2>2. /\ id \in AssignedIds(Current)
        /\ Current' = WithLeader(Current, id)
        /\ published' = published \cup {Current'}
        /\ joins' = joins
    BY <1>1, <1>7, <2>1, PublishType DEF Publish, ElectLeader
  <2>3. QED
    BY <1>1, <1>2, <2>2, OperationsSound, MembershipKept
<1>8. ASSUME NEW h \in Replicas, NEW c, mem' = [mem EXCEPT ![h] = c], UNCHANGED <<published, joins>>
      PROVE  MembershipInv'
  BY <1>1, <1>8, AdoptLeavesCoordinator, MembershipKept
<1>9. ASSUME mem' = mem, published' = published, joins' \subseteq joins
      PROVE  MembershipInv'
  BY <1>1, <1>9, MembershipKept DEF Current
<1>10. ASSUME \/ \E o \in offers : TakeOffer(o)
              \/ \E p \in pushes, h \in Replicas : DeliverPush(p, h)
              \/ \E h \in Replicas : TakeAnswer(h) \/ ResetHost(h)
       PROVE  MembershipInv'
  <2>1. \A o \in offers : o.host \in Replicas
    BY <1>1 DEF TypeOK
  <2>2. UNCHANGED <<published, joins>>
    BY <1>10 DEF TakeOffer, DeliverPush, TakeAnswer, ResetHost
  <2>3. mem' = mem \/ \E h \in Replicas : \E c : mem' = [mem EXCEPT ![h] = c]
    BY <1>10, <2>1 DEF TakeOffer, DeliverPush, TakeAnswer, ResetHost
  <2>4. QED
    BY <1>8, <1>9, <2>2, <2>3
<1>11. ASSUME \/ \E j \in joins : JoinFail(j)
              \/ \E slot \in KickSlots, n \in Current.nodes : KickBegin(slot, n)
              \/ ElectionStart
              \/ \E id \in NodeIds : KeepLeader(id)
              \/ ElectionSettle
              \/ \E h \in Replicas : AskCheck(h) \/ AnswerCheck(h) \/ LoseCheck(h)
              \/ RestartCoordinator
              \/ UNCHANGED vars
       PROVE  MembershipInv'
  <2>1. mem' = mem /\ published' = published /\ joins' \subseteq joins
    BY <1>11 DEF JoinFail, KickBegin, ElectionStart, KeepLeader,
       ElectionSettle, AskCheck, AnswerCheck, LoseCheck, RestartCoordinator, vars
  <2>2. QED
    BY <1>9, <2>1
<1>12. QED
  BY <1>3, <1>4, <1>5, <1>6, <1>7, <1>10, <1>11 DEF ReplicaNext

LEMMA MembershipInit == Init => MembershipInv
<1> SUFFICES ASSUME Init  PROVE MembershipInv
  OBVIOUS
<1>1. TypeOK
  BY InitType
<1>2. Current = InitialConfig /\ published = {InitialConfig} /\ joins = {}
  BY CoordinatorAssumption DEF Init, Current
<1>3. Sound(InitialConfig)
  BY DEF Sound, Valid, NodesUnique, InitialConfig, AssignedIds
<1>4. QED
  BY <1>1, <1>2, <1>3 DEF MembershipInv, PublishedConfigsValid, Sound

LEMMA MembershipInvHolds == ASSUME OneJoinAtATime  PROVE Spec => []MembershipInv
<1>1. MembershipInv /\ TypeOK' /\ [ReplicaNext]_vars => MembershipInv'
  BY MembershipStep
<1>2. QED
  BY <1>1, MembershipInit, TypeCorrect, StepsOfReplicas, PTL DEF Spec

\* While the coordinator handles one join request at a time, every
\* configuration it ever has is one that validateClusterConfig accepts and in
\* which no id and no host occurs twice, whatever kicks, elections, restarts
\* and late messages come in between.
THEOREM SerialJoinsKeepConfigsValid ==
    ASSUME OneJoinAtATime
    PROVE  Spec => []PublishedConfigsValid
<1>1. MembershipInv => PublishedConfigsValid
  BY DEF MembershipInv
<1>2. QED
  BY <1>1, MembershipInvHolds, PTL
=============================================================================
