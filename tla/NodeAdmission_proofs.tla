------------------------ MODULE NodeAdmission_proofs ------------------------
(***************************************************************************)
(* Proofs about NodeAdmission, for any number of hosts, ids, timers, kicks *)
(* and faults.                                                             *)
(***************************************************************************)
EXTENDS NodeAdmission, TLAPS

-----------------------------------------------------------------------------
(***************************************************************************)
(* The inductive invariant.                                                *)
(***************************************************************************)
Ids(S) == {n.id : n \in S}

HostsOf(S) == {n.host : n \in S}

Without(S, id) == {n \in S : n.id # id}

\* Hosts that have been told that they are nodes, or are about to be.
ToldHosts == {h \in Replicas : conf[h] # NoConfig} \cup HostsOf(offers)

\* What every list of nodes is like that memory or the disk holds while etcd
\* has the members M.
NodeList(S, M) ==
    /\ Ids(S) \subseteq M
    /\ \A m, n \in S : m.id = n.id => m = n
    /\ \A n \in S : n.id # CoordinatorId => n.host \in Replicas

ListsInv ==
    /\ Up => NodeList(current.nodes, members)
    /\ disk[2] # Unreadable => NodeList(disk[2], members)

\* No host that was told it is a node is missing from a list.
ToldInv ==
    /\ Up => ToldHosts \ kicked \subseteq HostsOf(current.nodes)
    /\ disk[2] # Unreadable => ToldHosts \ kicked \subseteq HostsOf(disk[2])

\* The call of a join reserves an id that no node gets before it has ended.
JoinCall(k) ==
    /\ k.at = Coordinator
    /\ k.node \in [id : NodeIds, host : Replicas]
    /\ k.node.id \in k.ids
    /\ k.node.id \notin Ids(current.nodes)

CallsInv ==
    /\ \A k \in calls : k.at = Coordinator => Up
    /\ \A k \in calls : k.caller = "setup" => k.at = Coordinator
    /\ \A k \in calls : k.ids \ k.todo \subseteq members
    /\ \A k \in calls : k.caller = "join" => JoinCall(k)
    /\ \A j, k \in calls : j.caller = "join" /\ k.caller = "join" => j = k

KickInv ==
    kick # NoNode => Up /\ kick \in current.nodes /\ kick.id # CoordinatorId

IInv == TypeOK /\ ListsInv /\ ToldInv /\ CallsInv /\ KickInv

-----------------------------------------------------------------------------
(***************************************************************************)
(* Configurations and files.                                               *)
(***************************************************************************)
LEMMA CoordinatorIdType == CoordinatorId \in NodeIds
BY MaxNodeIdAssumption DEF CoordinatorId, NodeIds

\* What the two operations do to the list of nodes.
LEMMA OperationsType ==
    ASSUME NEW c \in ClusterInfo, NEW id \in NodeIds
    PROVE  /\ \A h \in Hosts :
                 /\ WithNode(c, id, h) \in ClusterInfo
                 /\ WithNode(c, id, h).nodes =
                       c.nodes \cup {[id |-> id, host |-> h, joined |-> Touched(c)]}
           /\ WithoutNode(c, id) \in ClusterInfo
           /\ WithoutNode(c, id).nodes = {n \in c.nodes : n.id # id}
<1>1. Touched(c) \in Nat
  BY DEF ClusterInfo, Touched
<1>2. ASSUME NEW h \in Hosts
      PROVE  /\ WithNode(c, id, h) \in ClusterInfo
             /\ WithNode(c, id, h).nodes =
                   c.nodes \cup {[id |-> id, host |-> h, joined |-> Touched(c)]}
  <2>1. [id |-> id, host |-> h, joined |-> Touched(c)] \in NodeInfo
    BY <1>1 DEF NodeInfo
  <2>2. QED
    BY <1>1, <2>1 DEF WithNode, ClusterInfo
<1>3. /\ WithoutNode(c, id) \in ClusterInfo
      /\ WithoutNode(c, id).nodes = {n \in c.nodes : n.id # id}
  BY <1>1, CoordinatorIdType DEF WithoutNode, ClusterInfo
<1>4. QED
  BY <1>2, <1>3

LEMMA InitialConfigType == InitialConfig \in ClusterInfo
<1>1. [id |-> CoordinatorId, host |-> Coordinator, joined |-> 0] \in NodeInfo
  BY CoordinatorIdType, CoordinatorAssumption DEF NodeInfo
<1>2. QED
  BY <1>1, CoordinatorIdType DEF InitialConfig, ClusterInfo

LEMMA IdsType ==
    ASSUME NEW c \in ClusterInfo
    PROVE  /\ AssignedIds(c) \subseteq NodeIds
           /\ Hostnames(c) \subseteq Hosts
           /\ AssignedIds(c) = Ids(c.nodes)
           /\ Hostnames(c) = HostsOf(c.nodes)
BY DEF AssignedIds, Hostnames, ClusterInfo, NodeInfo, Ids, HostsOf

LEMMA ContentsType ==
    ASSUME NEW c \in ClusterInfo
    PROVE  /\ Contents(c, 1) \in [updated_at : Nat, leader : NodeIds]
           /\ Contents(c, 2) = c.nodes
           /\ Contents(c, 2) \in SUBSET NodeInfo
           /\ Contents(c, 3) \in SUBSET Services
BY DEF Contents, ClusterInfo

\* However a save ends, a readable list on disk is the old or the new one.
LEMMA AnySave ==
    ASSUME StoreTypeOK, NEW c \in ClusterInfo,
           Save(c) \/ SaveThrows(c) \/ SaveDies(c)
    PROVE  /\ StoreTypeOK'
           /\ current' \in {c, NoConfig}
           /\ disk'[2] \in {c.nodes, disk[2], Unreadable}
<1>1. current' \in {c, NoConfig}
  BY DEF Save, SaveThrows, SaveDies
<1>2. DOMAIN disk' = Files /\ \A f \in Files : disk'[f] \in {Contents(c, f), disk[f], Unreadable}
  <2>1. CASE disk' = Written(c)
    BY <2>1 DEF Written
  <2>2. ASSUME NEW k \in 0 .. 2, disk' \in CutOff(c, k)
        PROVE  /\ DOMAIN disk' = Files
               /\ \A f \in Files : disk'[f] \in {Contents(c, f), disk[f], Unreadable}
    <3> DEFINE d == [f \in Files |-> IF f <= k THEN Contents(c, f) ELSE disk[f]]
    <3>1. disk' = d \/ disk' = [d EXCEPT ![k + 1] = Unreadable]
      BY <2>2 DEF CutOff
    <3>2. DOMAIN d = Files /\ \A f \in Files : d[f] \in {Contents(c, f), disk[f]}
      OBVIOUS
    <3> HIDE DEF d
    <3>3. QED
      BY <3>1, <3>2
  <2>3. QED
    BY <2>1, <2>2 DEF Save, SaveThrows, SaveDies
<1>3. QED
  BY <1>1, <1>2, ContentsType DEF StoreTypeOK, Files

LEMMA LoadType ==
    ASSUME StoreTypeOK, Load
    PROVE  /\ StoreTypeOK'
           /\ current' \in ClusterInfo
           /\ current'.nodes = disk[2]
           /\ disk[2] # Unreadable
           /\ UNCHANGED disk
<1>1. \A f \in Files : disk[f] # Unreadable
  BY DEF Load
<1>2. Loaded \in ClusterInfo /\ Loaded.nodes = disk[2]
  BY <1>1 DEF Loaded, ClusterInfo, StoreTypeOK, Files
<1>3. QED
  BY <1>1, <1>2 DEF Load, StoreTypeOK, Files

LEMMA SavedType ==
    ASSUME NEW c \in ClusterInfo, Saved(c)
    PROVE  Save(c) /\ peers' \subseteq Hosts
BY IdsType DEF Saved

-----------------------------------------------------------------------------
(***************************************************************************)
(* Type correctness.                                                       *)
(***************************************************************************)
LEMMA FaultType ==
    ASSUME TypeOK, Fault \/ UNCHANGED faults
    PROVE  faults' \in 0 .. MaxFaults
BY BoundsAssumption DEF TypeOK, Fault

LEMMA WriteEnvType ==
    ASSUME EtcdTypeOK, NEW h \in Hosts, NEW ids \in SUBSET NodeIds, WriteEnv(h, ids)
    PROVE  EtcdTypeOK'
BY DEF EtcdTypeOK, WriteEnv

LEMMA InitType == Init => TypeOK
<1> SUFFICES ASSUME Init PROVE TypeOK
  OBVIOUS
<1>1. StoreTypeOK
  BY InitialConfigType, ContentsType DEF Init, StoreInit, StoreTypeOK, Written, Files
<1>2. EtcdTypeOK
  BY CoordinatorIdType, CoordinatorAssumption DEF Init, EtcdInit, EtcdTypeOK
<1>3. QED
  BY <1>1, <1>2, BoundsAssumption DEF Init, TypeOK

LEMMA CallType ==
    ASSUME NEW caller \in Callers, NEW h \in Hosts, NEW ids \in SUBSET NodeIds,
           NEW node \in [id : NodeIds, host : Hosts] \cup {NoNode}
    PROVE  Call(caller, h, ids, node) \in Calls
BY DEF Call, Calls

LEMMA ReturnType ==
    ASSUME TypeOK, NEW k \in calls, Return(k), faults' \in 0 .. MaxFaults,
           k.caller = "setup" => Up
    PROVE  TypeOK'
<1>1. EtcdTypeOK'
  <2>1. CASE k.caller = "setup"
    <3>1. current \in ClusterInfo
      BY <2>1 DEF TypeOK, StoreTypeOK, Up
    <3>2. QED
      BY <2>1, <3>1, IdsType, WriteEnvType, CoordinatorAssumption DEF Return, TypeOK
  <2>2. CASE k.caller # "setup"
    BY <2>2 DEF Return, TypeOK, EtcdTypeOK, etcdVars
  <2>3. QED
    BY <2>1, <2>2
<1>2. QED
  BY <1>1 DEF Return, TypeOK, StoreTypeOK, storeVars

\* The fields of calls, offers and nodes.
LEMMA FieldTypes ==
    ASSUME TypeOK
    PROVE  /\ \A k \in calls : /\ k.caller \in Callers /\ k.at \in Hosts
                               /\ k.ids \subseteq NodeIds /\ k.todo \subseteq NodeIds
           /\ \A o \in offers : o.host \in Replicas /\ o.config \in ClusterInfo
           /\ Up => current \in ClusterInfo
           /\ \A h \in Hosts : conf[h] # NoConfig => conf[h] \in ClusterInfo
BY DEF TypeOK, Calls, StoreTypeOK, Up

LEMMA ListMembersType ==
    ASSUME TypeOK, NEW k \in calls, ListMembers(k)
    PROVE  TypeOK'
<1>1. [k EXCEPT !.listed = TRUE, !.todo = @ \ members] \in Calls
  BY DEF TypeOK, Calls
<1>2. QED
  BY <1>1 DEF ListMembers, TypeOK, StoreTypeOK, EtcdTypeOK, storeVars, etcdVars

LEMMA AddMemberType ==
    ASSUME TypeOK, NEW k \in calls, AddMember(k)
    PROVE  TypeOK'
<1>1. PICK m \in k.todo : /\ members' = members \cup {m}
                          /\ calls' = (calls \ {k}) \cup {[k EXCEPT !.todo = @ \ {m}]}
  BY DEF AddMember
<1>2. [k EXCEPT !.todo = @ \ {m}] \in Calls /\ m \in NodeIds
  BY DEF TypeOK, Calls
<1>3. QED
  BY <1>1, <1>2 DEF AddMember, TypeOK, StoreTypeOK, EtcdTypeOK, storeVars

LEMMA CallEndsType ==
    ASSUME TypeOK, CallsInv, NEW k \in calls, CallFails(k) \/ CallEnds(k)
    PROVE  TypeOK'
<1>1. Return(k) /\ (Fault \/ UNCHANGED faults)
  BY DEF CallFails, CallEnds
<1>2. k.caller = "setup" => Up
  BY DEF CallsInv
<1>3. QED
  BY <1>1, <1>2, FaultType, ReturnType

LEMMA TimerType ==
    ASSUME TypeOK, NEW h \in TimerHosts, Timer(h)
    PROVE  TypeOK'
<1>1. h \in Hosts /\ h \in Callers
  BY TimerHostsAssumption DEF Callers
<1>2. ConfigOf(h) \in ClusterInfo
  BY <1>1 DEF Timer, ConfigOf, TypeOK, StoreTypeOK
<1>3. Call(h, h, AssignedIds(ConfigOf(h)), NoNode) \in Calls
  BY <1>1, <1>2, CallType, IdsType
<1>4. QED
  BY <1>3 DEF Timer, TypeOK, StoreTypeOK, EtcdTypeOK, storeVars, etcdVars

LEMMA JoinBeginCall ==
    ASSUME TypeOK, NEW h \in Replicas, JoinBegin(h)
    PROVE  \E id \in FreeIds(current) :
              /\ id \in NodeIds
              /\ calls' = calls \cup {Call("join", Coordinator, IdsToJoin(id),
                                           [id |-> id, host |-> h])}
              /\ Call("join", Coordinator, IdsToJoin(id), [id |-> id, host |-> h]) \in Calls
<1>1. current \in ClusterInfo
  BY DEF JoinBegin, TypeOK, StoreTypeOK, Up
<1>2. PICK id \in FreeIds(current) :
         calls' = calls \cup {Call("join", Coordinator, IdsToJoin(id), [id |-> id, host |-> h])}
  BY DEF JoinBegin
<1>3. id \in NodeIds /\ IdsToJoin(id) \subseteq NodeIds
  BY <1>1, IdsType DEF FreeIds, IdsToJoin
<1>4. [id |-> id, host |-> h] \in [id : NodeIds, host : Hosts] \cup {NoNode}
  BY <1>3 DEF Replicas
<1>5. QED
  BY <1>2, <1>3, <1>4, CallType, CoordinatorAssumption DEF Callers

LEMMA JoinBeginType ==
    ASSUME TypeOK, NEW h \in Replicas, JoinBegin(h)
    PROVE  TypeOK'
BY JoinBeginCall DEF JoinBegin, TypeOK, StoreTypeOK, EtcdTypeOK, storeVars, etcdVars

\* The configuration a join makes.
LEMMA JoinConfig ==
    ASSUME TypeOK, CallsInv, NEW k \in calls, JoinCommit(k)
    PROVE  /\ k.node.id \in NodeIds /\ k.node.host \in Replicas
           /\ current \in ClusterInfo
           /\ WithNode(current, k.node.id, k.node.host) \in ClusterInfo
           /\ WithNode(current, k.node.id, k.node.host).nodes =
                 current.nodes \cup {[id |-> k.node.id, host |-> k.node.host,
                                      joined |-> Touched(current)]}
<1>1. current \in ClusterInfo
  BY DEF JoinCommit, MayUpdate, TypeOK, StoreTypeOK, Up
<1>2. k.node.id \in NodeIds /\ k.node.host \in Replicas
  BY DEF JoinCommit, CallsInv, JoinCall
<1>3. QED
  BY <1>1, <1>2, OperationsType DEF Replicas

LEMMA JoinCommitType ==
    ASSUME TypeOK, CallsInv, NEW k \in calls, JoinCommit(k)
    PROVE  TypeOK'
<1> DEFINE c == WithNode(current, k.node.id, k.node.host)
<1>1. c \in ClusterInfo /\ k.node.host \in Replicas
  BY JoinConfig
<1> HIDE DEF c
<1>2. Save(c) \/ SaveThrows(c) \/ SaveDies(c)
  BY SavedType DEF JoinCommit, Offered, Saved, c
<1>3. StoreTypeOK'
  BY <1>1, <1>2, AnySave DEF TypeOK
<1>4. faults' \in 0 .. MaxFaults
  BY FaultType DEF JoinCommit, Offered, Saved
<1>5. peers' \subseteq Hosts
  BY <1>1, SavedType DEF JoinCommit, Offered, c, TypeOK, EtcdTypeOK
<1>6. EtcdTypeOK'
  BY <1>5 DEF JoinCommit, EtcdTypeOK, TypeOK
<1>7. offers' \subseteq [host : Replicas, config : ClusterInfo]
  BY <1>1 DEF JoinCommit, Offered, TypeOK, c
<1>8. calls' \subseteq Calls /\ kick' \in NodeInfo \cup {NoNode} /\ kicked' \subseteq Replicas
  BY DEF JoinCommit, CoordinatorStops, TypeOK
<1>9. conf' = conf /\ resets' = resets /\ kicks' = kicks
  BY DEF JoinCommit
<1>10. QED
  BY <1>3, <1>4, <1>6, <1>7, <1>8, <1>9 DEF TypeOK

LEMMA OfferType ==
    ASSUME TypeOK, NEW o \in offers, TakeOffer(o) \/ LoseOffer(o)
    PROVE  TypeOK'
<1>1. o.host \in Hosts /\ o.config \in ClusterInfo
  BY FieldTypes DEF Replicas
<1>2. faults' \in 0 .. MaxFaults
  BY FaultType DEF TakeOffer, LoseOffer
<1>3. conf' \in [Hosts -> ClusterInfo \cup {NoConfig}] /\ offers' \subseteq offers
  BY <1>1 DEF TakeOffer, LoseOffer, TypeOK
<1>4. QED
  BY <1>2, <1>3
     DEF TakeOffer, LoseOffer, TypeOK, StoreTypeOK, EtcdTypeOK, storeVars, etcdVars

\* A node other than the coordinator's runs on another host.
LEMMA KickedHost ==
    ASSUME TypeOK, ListsInv, Up, NEW n \in current.nodes, n.id # CoordinatorId
    PROVE  n \in NodeInfo /\ n.id \in NodeIds /\ n.host \in Replicas
BY DEF TypeOK, StoreTypeOK, ClusterInfo, NodeInfo, ListsInv, NodeList, Up

LEMMA KickBeginType ==
    ASSUME TypeOK, ListsInv, Up, NEW n \in current.nodes, KickBegin(n)
    PROVE  TypeOK'
<1>1. n \in NodeInfo /\ n.host \in Replicas
  BY KickedHost DEF KickBegin, MayBeKicked
<1>2. faults' \in 0 .. MaxFaults /\ resets' \subseteq Replicas
  BY <1>1, FaultType DEF KickBegin, TypeOK
<1>3. kicks' \in 0 .. MaxKicks
  BY BoundsAssumption DEF KickBegin, TypeOK
<1>4. QED
  BY <1>1, <1>2, <1>3
     DEF KickBegin, TypeOK, StoreTypeOK, EtcdTypeOK, storeVars, etcdVars

\* The configuration a kick makes.
LEMMA KickConfig ==
    ASSUME TypeOK, ListsInv, KickInv, KickCommit
    PROVE  /\ kick \in NodeInfo /\ kick.id \in NodeIds /\ kick.host \in Replicas
           /\ kick \in current.nodes /\ kick.id # CoordinatorId
           /\ current \in ClusterInfo /\ Up
           /\ WithoutNode(current, kick.id) \in ClusterInfo
           /\ WithoutNode(current, kick.id).nodes = Without(current.nodes, kick.id)
<1>1. Up /\ kick \in current.nodes /\ kick.id # CoordinatorId
  BY DEF KickCommit, KickInv
<1>2. current \in ClusterInfo
  BY <1>1, FieldTypes
<1>3. QED
  BY <1>1, <1>2, KickedHost, OperationsType DEF Without

LEMMA KickCommitSaves ==
    ASSUME TypeOK, ListsInv, KickInv, KickCommit
    PROVE  LET c == WithoutNode(current, kick.id)
           IN  Save(c) \/ SaveThrows(c) \/ SaveDies(c)
BY SavedType, KickConfig DEF KickCommit

LEMMA KickCommitType ==
    ASSUME TypeOK, ListsInv, KickInv, KickCommit
    PROVE  TypeOK'
<1> DEFINE c == WithoutNode(current, kick.id)
<1>1. c \in ClusterInfo /\ kick.host \in Replicas
  BY KickConfig
<1>2. Save(c) \/ SaveThrows(c) \/ SaveDies(c)
  BY KickCommitSaves
<1>3. peers' \subseteq Hosts
  BY <1>1, SavedType DEF KickCommit, TypeOK, EtcdTypeOK
<1> HIDE DEF c
<1>4. StoreTypeOK'
  BY <1>1, <1>2, AnySave DEF TypeOK
<1>5. faults' \in 0 .. MaxFaults
  BY FaultType DEF KickCommit, Saved
<1>6. EtcdTypeOK'
  BY <1>3 DEF KickCommit, EtcdTypeOK, TypeOK
<1>7. calls' \subseteq Calls /\ kick' \in NodeInfo \cup {NoNode} /\ kicked' \subseteq Replicas
  BY <1>1 DEF KickCommit, CoordinatorStops, TypeOK
<1>8. conf' = conf /\ resets' = resets /\ kicks' = kicks /\ offers' = offers
  BY DEF KickCommit
<1>9. QED
  BY <1>4, <1>5, <1>6, <1>7, <1>8 DEF TypeOK

LEMMA ResetHostType ==
    ASSUME TypeOK, NEW h \in Replicas, ResetHost(h)
    PROVE  TypeOK'
<1>1. EtcdTypeOK'
  BY DEF ResetHost, Wipe, EtcdTypeOK, TypeOK
<1>2. QED
  BY <1>1 DEF ResetHost, TypeOK, StoreTypeOK, storeVars

LEMMA LearnType ==
    ASSUME TypeOK, NEW h \in Replicas, Learn(h)
    PROVE  TypeOK'
BY DEF Learn, Up, TypeOK, StoreTypeOK, EtcdTypeOK, storeVars, etcdVars, handlerVars

LEMMA SetupCoordinatorType ==
    ASSUME TypeOK, SetupCoordinator
    PROVE  TypeOK'
<1>1. AssignedIds(current) \subseteq NodeIds
  BY FieldTypes, IdsType DEF SetupCoordinator
<1>2. Call("setup", Coordinator, AssignedIds(current), NoNode) \in Calls
  BY <1>1, CallType, CoordinatorAssumption DEF Callers
<1>3. EtcdTypeOK'
  BY <1>1, WriteEnvType, CoordinatorAssumption
     DEF SetupCoordinator, TypeOK, EtcdTypeOK, etcdVars
<1>4. QED
  BY <1>2, <1>3 DEF SetupCoordinator, TypeOK, StoreTypeOK, storeVars

LEMMA SetupReplicaType ==
    ASSUME TypeOK, NEW h \in Replicas, SetupReplica(h)
    PROVE  TypeOK'
<1>1. h \in Hosts /\ AssignedIds(conf[h]) \subseteq NodeIds
  BY FieldTypes, IdsType DEF SetupReplica, Replicas
<1>2. EtcdTypeOK'
  BY <1>1, WriteEnvType DEF SetupReplica, TypeOK
<1>3. QED
  BY <1>2 DEF SetupReplica, TypeOK, StoreTypeOK, storeVars, handlerVars

LEMMA EtcdStepType ==
    ASSUME TypeOK, NEW h \in Hosts, EtcdStarts(h) \/ EtcdStops(h)
    PROVE  TypeOK'
<1>1. faults' \in 0 .. MaxFaults
  BY FaultType DEF EtcdStarts, EtcdStops
<1>2. EtcdTypeOK'
  BY DEF EtcdStarts, EtcdStops, Starts, EtcdTypeOK, TypeOK
<1>3. QED
  BY <1>1, <1>2 DEF EtcdStarts, EtcdStops, TypeOK, StoreTypeOK, storeVars, handlerVars

LEMMA CoordinatorDiesType ==
    ASSUME TypeOK, CoordinatorDies
    PROVE  TypeOK'
<1>1. faults' \in 0 .. MaxFaults
  BY FaultType DEF CoordinatorDies
<1>2. QED
  BY <1>1 DEF CoordinatorDies, Dies, CoordinatorStops, TypeOK, StoreTypeOK, EtcdTypeOK,
              etcdVars

LEMMA CoordinatorLoadsType ==
    ASSUME TypeOK, CoordinatorLoads
    PROVE  TypeOK'
<1>1. StoreTypeOK' /\ current' \in ClusterInfo
  BY LoadType DEF CoordinatorLoads, TypeOK
<1>2. peers' \subseteq Hosts
  BY <1>1, IdsType DEF CoordinatorLoads
<1>3. QED
  BY <1>1, <1>2 DEF CoordinatorLoads, TypeOK, EtcdTypeOK, handlerVars

-----------------------------------------------------------------------------
(***************************************************************************)
(* The lists of nodes.                                                     *)
(***************************************************************************)
\* Members are never removed: a list stays one.
LEMMA MoreMembers ==
    ASSUME NEW S, NEW M, NEW N, NodeList(S, M), M \subseteq N
    PROVE  NodeList(S, N)
BY DEF NodeList

LEMMA JoinList ==
    ASSUME NEW S, NEW M, NEW n, NodeList(S, M),
           n.id \in M, n.id \notin Ids(S), n.host \in Replicas
    PROVE  NodeList(S \cup {n}, M)
BY DEF NodeList, Ids

LEMMA KickList ==
    ASSUME NEW S, NEW M, NEW id, NodeList(S, M)
    PROVE  NodeList(Without(S, id), M)
BY DEF NodeList, Ids, Without

\* Steps that leave the lists as they are.
LEMMA ListsKept ==
    ASSUME ListsInv, members \subseteq members', current' \in {current, NoConfig},
           UNCHANGED disk
    PROVE  ListsInv'
BY MoreMembers DEF ListsInv, Up

LEMMA ToldKept ==
    ASSUME ToldInv, ToldHosts' \ kicked' \subseteq ToldHosts \ kicked,
           current' \in {current, NoConfig}, UNCHANGED disk
    PROVE  ToldInv'
BY DEF ToldInv, Up

LEMMA LoadKeeps ==
    ASSUME StoreTypeOK, ListsInv, ToldInv, Load, UNCHANGED <<members, conf, offers, kicked>>
    PROVE  ListsInv' /\ ToldInv'
BY LoadType DEF ListsInv, ToldInv, ToldHosts, Up

\* A save of c, however it ends.
LEMMA SaveLists ==
    ASSUME TypeOK, ListsInv, NEW c \in ClusterInfo,
           Save(c) \/ SaveThrows(c) \/ SaveDies(c),
           NodeList(c.nodes, members), UNCHANGED members
    PROVE  ListsInv'
BY AnySave DEF TypeOK, ListsInv, Up

\* A save of c of which no new host is told.
LEMMA SaveTold ==
    ASSUME TypeOK, ToldInv, NEW c \in ClusterInfo,
           Save(c) \/ SaveThrows(c) \/ SaveDies(c),
           ToldHosts' \ kicked' \subseteq ToldHosts \ kicked,
           ToldHosts \ kicked' \subseteq HostsOf(c.nodes)
    PROVE  ToldInv'
<1>1. ToldHosts' \ kicked' \subseteq HostsOf(c.nodes)
  OBVIOUS
<1>2. QED
  BY <1>1, AnySave DEF TypeOK, ToldInv, Up

LEMMA JoinCommitLists ==
    ASSUME IInv, NEW k \in calls, JoinCommit(k)
    PROVE  ListsInv'
<1> DEFINE n == [id |-> k.node.id, host |-> k.node.host, joined |-> Touched(current)]
           c == WithNode(current, k.node.id, k.node.host)
<1>1. Up /\ k.listed /\ k.todo = {} /\ JoinCall(k)
  BY DEF JoinCommit, MayUpdate, IInv, CallsInv
<1>2. n.id \in members
  BY <1>1 DEF JoinCall, IInv, CallsInv
<1>3. n.id \notin Ids(current.nodes) /\ n.host \in Replicas
  BY <1>1 DEF JoinCall
<1>4. c \in ClusterInfo /\ c.nodes = current.nodes \cup {n}
  BY JoinConfig DEF IInv
<1>5. NodeList(c.nodes, members)
  BY <1>1, <1>2, <1>3, <1>4, JoinList DEF IInv, ListsInv
<1>6. (Save(c) \/ SaveThrows(c) \/ SaveDies(c)) /\ UNCHANGED members
  BY SavedType DEF JoinCommit, Offered, Saved
<1>7. QED
  BY <1>4, <1>5, <1>6, SaveLists DEF IInv

LEMMA OneMoreHost ==
    ASSUME NEW S, NEW n
    PROVE  HostsOf(S \cup {n}) = HostsOf(S) \cup {n.host}
BY DEF HostsOf

LEMMA OneMoreOffer ==
    ASSUME NEW h \in Replicas, NEW c, UNCHANGED conf,
           offers' = offers \cup {[host |-> h, config |-> c]}
    PROVE  ToldHosts' = ToldHosts \cup {h}
<1> DEFINE o == [host |-> h, config |-> c]
<1>1. o.host = h /\ offers' = offers \cup {o}
  OBVIOUS
<1> HIDE DEF o
<1>2. HostsOf(offers') = HostsOf(offers) \cup {h}
  BY <1>1, OneMoreHost
<1>3. QED
  BY <1>2 DEF ToldHosts

LEMMA JoinCommitTold ==
    ASSUME IInv, NEW k \in calls, JoinCommit(k)
    PROVE  ToldInv'
<1> DEFINE node == [id |-> k.node.id, host |-> k.node.host,
                    joined |-> Touched(current)]
           c == WithNode(current, k.node.id, k.node.host)
<1>1. /\ Up /\ c \in ClusterInfo /\ c.nodes = current.nodes \cup {node}
      /\ node.host = k.node.host
  BY JoinConfig DEF IInv, JoinCommit, MayUpdate
<1> HIDE DEF node
<1>2. HostsOf(c.nodes) = HostsOf(current.nodes) \cup {k.node.host}
  BY <1>1, OneMoreHost
<1>3. ToldHosts \ kicked \subseteq HostsOf(current.nodes)
  BY <1>1 DEF IInv, ToldInv
<1>4. CASE Offered(c, k.node.host) /\ kicked' = kicked \ {k.node.host}
  <2>1. current' = c /\ disk'[2] = c.nodes
    BY <1>1, <1>4, ContentsType DEF Offered, Saved, Save, Written, Files
  <2>2. ToldHosts' = ToldHosts \cup {k.node.host}
    BY <1>4, JoinConfig, OneMoreOffer DEF Offered, JoinCommit, IInv
  <2>3. ToldHosts' \ kicked' \subseteq HostsOf(c.nodes)
    BY <1>2, <1>3, <1>4, <2>2
  <2>4. QED
    BY <2>1, <2>3 DEF ToldInv
<1>5. CASE (SaveThrows(c) \/ SaveDies(c)) /\ UNCHANGED <<offers, kicked>>
  <2>1. ToldHosts' = ToldHosts
    BY <1>5 DEF ToldHosts, JoinCommit
  <2>2. QED
    BY <1>1, <1>2, <1>3, <1>5, <2>1, SaveTold DEF IInv
<1>6. QED
  BY <1>4, <1>5 DEF JoinCommit

LEMMA KickCommitLists ==
    ASSUME IInv, KickCommit
    PROVE  ListsInv'
<1> DEFINE c == WithoutNode(current, kick.id)
<1>1. Up /\ c \in ClusterInfo /\ c.nodes = Without(current.nodes, kick.id)
  BY KickConfig DEF IInv
<1>2. NodeList(c.nodes, members)
  BY <1>1, KickList DEF IInv, ListsInv
<1>3. Save(c) \/ SaveThrows(c) \/ SaveDies(c)
  BY KickCommitSaves DEF IInv
<1>4. UNCHANGED members
  BY DEF KickCommit
<1>5. QED
  BY <1>1, <1>2, <1>3, <1>4, SaveLists DEF IInv

\* Only the kicked node has its id, so only its host leaves the list.
LEMMA KickCommitTold ==
    ASSUME IInv, KickCommit
    PROVE  ToldInv'
<1> DEFINE c == WithoutNode(current, kick.id)
<1>1. /\ Up /\ c \in ClusterInfo /\ kick \in current.nodes
      /\ c.nodes = Without(current.nodes, kick.id)
  BY KickConfig DEF IInv
<1>2. \A n \in current.nodes : n.id = kick.id => n = kick
  BY <1>1 DEF IInv, ListsInv, NodeList
<1>3. HostsOf(current.nodes) \ {kick.host} \subseteq HostsOf(c.nodes)
  BY <1>1, <1>2 DEF HostsOf, Without
<1>4. kicked' = kicked \cup {kick.host} /\ ToldHosts' = ToldHosts
  BY DEF KickCommit, ToldHosts
<1>5. ToldHosts \ kicked \subseteq HostsOf(current.nodes)
  BY <1>1 DEF IInv, ToldInv
<1>6. Save(c) \/ SaveThrows(c) \/ SaveDies(c)
  BY KickCommitSaves DEF IInv
<1>7. QED
  BY <1>1, <1>3, <1>4, <1>5, <1>6, SaveTold DEF IInv

-----------------------------------------------------------------------------
(***************************************************************************)
(* The calls of addMissingEtcdMembers, and the kick that waits.            *)
(***************************************************************************)
\* No more calls, and the same configuration.
LEMMA CallsKept ==
    ASSUME CallsInv, calls' \subseteq calls, members \subseteq members', UNCHANGED current
    PROVE  CallsInv'
BY DEF CallsInv, JoinCall, Up

\* The coordinator has stopped.
LEMMA CallsStopped ==
    ASSUME CallsInv, CoordinatorStops, members \subseteq members'
    PROVE  CallsInv'
<1>1. \A k \in calls' : k \in calls /\ k.at # Coordinator
  BY DEF CoordinatorStops
<1>2. \A k \in calls' : k.caller # "join" /\ k.caller # "setup"
  BY <1>1 DEF CallsInv, JoinCall
<1>3. QED
  BY <1>1, <1>2 DEF CallsInv

LEMMA KickStopped ==
    ASSUME CoordinatorStops
    PROVE  KickInv'
BY DEF CoordinatorStops, KickInv

\* A call goes on: the members it has left to add are the others of those it
\* was made for.
LEMMA CallGoesOn ==
    ASSUME TypeOK, CallsInv, NEW k \in calls, NEW l, UNCHANGED current,
           members \subseteq members', calls' = (calls \ {k}) \cup {l},
           l.caller = k.caller, l.at = k.at, l.node = k.node, l.ids = k.ids,
           l.ids \ l.todo \subseteq members'
    PROVE  CallsInv'
<1>1. \A j \in calls' : j.ids \ j.todo \subseteq members'
  BY DEF CallsInv
<1>2. \A j \in calls' : /\ j.at = Coordinator => Up'
                        /\ j.caller = "setup" => j.at = Coordinator
                        /\ j.caller = "join" => JoinCall(j)'
  BY DEF CallsInv, JoinCall, Up
<1>3. \A i, j \in calls' : i.caller = "join" /\ j.caller = "join" => i = j
  BY DEF CallsInv
<1>4. QED
  BY <1>1, <1>2, <1>3 DEF CallsInv

LEMMA ListMembersCalls ==
    ASSUME TypeOK, CallsInv, NEW k \in calls, ListMembers(k)
    PROVE  CallsInv'
<1> DEFINE l == [k EXCEPT !.listed = TRUE, !.todo = @ \ members]
<1>1. /\ UNCHANGED current /\ members' = members
      /\ calls' = (calls \ {k}) \cup {l}
  BY DEF ListMembers, storeVars, etcdVars
<1>2. /\ l.caller = k.caller /\ l.at = k.at /\ l.node = k.node /\ l.ids = k.ids
      /\ l.todo = k.todo \ members
  BY DEF TypeOK, Calls
<1> HIDE DEF l
<1>3. l.ids \ l.todo \subseteq members
  BY <1>2 DEF CallsInv
<1>4. QED
  BY <1>1, <1>2, <1>3, CallGoesOn

LEMMA AddMemberCalls ==
    ASSUME TypeOK, CallsInv, NEW k \in calls, AddMember(k)
    PROVE  CallsInv'
<1>1. PICK m \in k.todo : /\ members' = members \cup {m}
                          /\ calls' = (calls \ {k}) \cup {[k EXCEPT !.todo = @ \ {m}]}
  BY DEF AddMember
<1> DEFINE l == [k EXCEPT !.todo = @ \ {m}]
<1>2. /\ l.caller = k.caller /\ l.at = k.at /\ l.node = k.node /\ l.ids = k.ids
      /\ l.todo = k.todo \ {m}
  BY DEF TypeOK, Calls
<1>3. calls' = (calls \ {k}) \cup {l} /\ UNCHANGED current
  BY <1>1 DEF AddMember, storeVars
<1> HIDE DEF l
<1>4. l.ids \ l.todo \subseteq members'
  BY <1>1, <1>2 DEF CallsInv
<1>5. QED
  BY <1>1, <1>2, <1>3, <1>4, CallGoesOn

\* A new call that is not a join's.
LEMMA OtherCall ==
    ASSUME CallsInv, NEW caller, NEW h, NEW ids, NEW node, UNCHANGED <<current, members>>,
           calls' = calls \cup {Call(caller, h, ids, node)}, Up,
           caller # "join", caller = "setup" => h = Coordinator
    PROVE  CallsInv'
<1> DEFINE l == Call(caller, h, ids, node)
<1>1. l.caller = caller /\ l.at = h /\ l.ids \ l.todo = {}
  BY DEF Call
<1> HIDE DEF l
<1>2. calls' = calls \cup {l}
  BY DEF l
<1>3. QED
  BY <1>1, <1>2 DEF CallsInv, JoinCall, Up

LEMMA TimerCalls ==
    ASSUME CallsInv, NEW h \in TimerHosts, Timer(h)
    PROVE  CallsInv'
<1> DEFINE l == Call(h, h, AssignedIds(ConfigOf(h)), NoNode)
<1>1. l.caller = h /\ l.at = h /\ l.ids \ l.todo = {}
  BY DEF Call
<1>2. h # "join" /\ h # "setup"
  BY HostNamesAssumption, TimerHostsAssumption
<1>3. h = Coordinator => Up
  BY DEF Timer, ConfigOf, Up
<1>4. calls' = calls \cup {l} /\ UNCHANGED <<current, members>>
  BY DEF Timer, storeVars, etcdVars
<1> HIDE DEF l
<1>5. QED
  BY <1>1, <1>2, <1>3, <1>4 DEF CallsInv, JoinCall, Up

LEMMA JoinBeginCalls ==
    ASSUME TypeOK, CallsInv, NEW h \in Replicas, JoinBegin(h)
    PROVE  CallsInv'
<1>1. PICK id \in FreeIds(current) :
         /\ id \in NodeIds
         /\ calls' = calls \cup {Call("join", Coordinator, IdsToJoin(id),
                                      [id |-> id, host |-> h])}
  BY JoinBeginCall
<1> DEFINE node == [id |-> id, host |-> h]
<1>2. PICK l : /\ calls' = calls \cup {l}
               /\ l.caller = "join" /\ l.at = Coordinator /\ l.ids \ l.todo = {}
               /\ l.ids = IdsToJoin(id) /\ l.node = node
  <2> DEFINE call == Call("join", Coordinator, IdsToJoin(id), node)
  <2>1. /\ calls' = calls \cup {call}
        /\ call.caller = "join" /\ call.at = Coordinator /\ call.ids \ call.todo = {}
        /\ call.ids = IdsToJoin(id) /\ call.node = node
    BY <1>1 DEF Call
  <2> HIDE DEF call
  <2>2. QED
    BY <2>1
<1>3. node \in [id : NodeIds, host : Replicas] /\ node.id = id
  BY <1>1
<1>4. Up /\ UNCHANGED <<current, members>>
  BY DEF JoinBegin, storeVars, etcdVars
<1>5. id \in IdsToJoin(id) /\ id \notin Ids(current.nodes)
  BY <1>1 DEF IdsToJoin, FreeIds, AssignedIds, Ids
<1>6. \A k \in calls : k.caller # "join"
  BY DEF JoinBegin, Called, CallsInv, JoinCall
<1> HIDE DEF node
<1>7. JoinCall(l)
  BY <1>2, <1>3, <1>5 DEF JoinCall
<1>8. \A k \in calls' : k \in calls \/ k = l
  BY <1>2
<1>9. QED
  BY <1>2, <1>4, <1>6, <1>7, <1>8 DEF CallsInv, JoinCall, Up

LEMMA JoinCommitCalls ==
    ASSUME TypeOK, CallsInv, NEW k \in calls, JoinCommit(k)
    PROVE  CallsInv'
<1>1. CASE CoordinatorStops
  BY <1>1, CallsStopped DEF JoinCommit
<1>2. CASE ~ CoordinatorStops
  <2>1. calls' = calls \ {k} /\ k.caller = "join" /\ UNCHANGED members
    BY <1>2 DEF JoinCommit
  <2>2. current' = WithNode(current, k.node.id, k.node.host)
    BY <1>2 DEF JoinCommit, Offered, Saved, Save, SaveThrows
  <2>3. Up'
    BY <2>2, JoinConfig, NoConfigAssumption DEF Up
  <2>4. \A j \in calls' : j \in calls /\ j.caller # "join"
    BY <2>1 DEF CallsInv
  <2>5. QED
    BY <2>1, <2>3, <2>4 DEF CallsInv
<1>3. QED
  BY <1>1, <1>2

LEMMA JoinCommitKick ==
    ASSUME TypeOK, CallsInv, KickInv, NEW k \in calls, JoinCommit(k)
    PROVE  KickInv'
<1>1. CASE CoordinatorStops
  BY <1>1, KickStopped
<1>2. CASE ~ CoordinatorStops
  <2>1. UNCHANGED kick
    BY <1>2 DEF JoinCommit
  <2>2. current' = WithNode(current, k.node.id, k.node.host)
    BY <1>2 DEF JoinCommit, Offered, Saved, Save, SaveThrows
  <2>3. Up' /\ current.nodes \subseteq current'.nodes
    BY <2>2, JoinConfig, NoConfigAssumption DEF Up
  <2>4. QED
    BY <2>1, <2>3 DEF KickInv
<1>3. QED
  BY <1>1, <1>2

LEMMA KickCommitCalls ==
    ASSUME IInv, KickCommit
    PROVE  CallsInv' /\ KickInv'
<1> DEFINE c == WithoutNode(current, kick.id)
<1>1. CASE CoordinatorStops
  BY <1>1, CallsStopped, KickStopped DEF KickCommit, IInv
<1>2. CASE ~ CoordinatorStops
  <2>1. kick' = NoNode /\ UNCHANGED <<calls, members>>
    BY <1>2 DEF KickCommit
  <2>2. current' = c
    BY <1>2 DEF KickCommit, Saved, Save, SaveThrows
  <2>3. Up' /\ Up /\ Ids(current'.nodes) \subseteq Ids(current.nodes)
    BY <2>2, KickConfig, NoConfigAssumption DEF Up, IInv, Ids, Without
  <2>4. CallsInv'
    BY <2>1, <2>3 DEF CallsInv, JoinCall, IInv
  <2>5. QED
    BY <2>1, <2>4 DEF KickInv
<1>3. QED
  BY <1>1, <1>2

-----------------------------------------------------------------------------
(***************************************************************************)
(* Every step preserves the invariant.                                     *)
(***************************************************************************)
\* Steps that change neither the configuration, in memory and on disk, nor
\* the kick that waits, and tell no new host.
LEMMA Quiet ==
    ASSUME IInv, TypeOK', CallsInv', UNCHANGED <<current, disk, kick, kicked>>,
           members \subseteq members', ToldHosts' \subseteq ToldHosts
    PROVE  IInv'
<1>1. ListsInv'
  BY ListsKept DEF IInv
<1>2. ToldInv'
  BY ToldKept DEF IInv
<1>3. KickInv'
  BY DEF IInv, KickInv, Up
<1>4. QED
  BY <1>1, <1>2, <1>3 DEF IInv

LEMMA CallStepKeeps ==
    ASSUME IInv, NEW k \in calls, CallStep(k)
    PROVE  IInv'
<1>1. CASE ListMembers(k)
  <2>1. TypeOK' /\ CallsInv'
    BY <1>1, ListMembersType, ListMembersCalls DEF IInv
  <2>2. /\ UNCHANGED <<current, disk, kick, kicked, members, conf, offers>>
    BY <1>1 DEF ListMembers, storeVars, etcdVars
  <2>3. QED
    BY <2>1, <2>2, Quiet DEF ToldHosts
<1>2. CASE AddMember(k)
  <2>1. TypeOK' /\ CallsInv'
    BY <1>2, AddMemberType, AddMemberCalls DEF IInv
  <2>2. UNCHANGED <<current, disk, kick, kicked, conf, offers>> /\ members \subseteq members'
    BY <1>2 DEF AddMember, storeVars
  <2>3. QED
    BY <2>1, <2>2, Quiet DEF ToldHosts
<1>3. CASE CallFails(k) \/ CallEnds(k)
  <2>1. TypeOK'
    BY <1>3, CallEndsType DEF IInv
  <2>2. Return(k)
    BY <1>3 DEF CallFails, CallEnds
  <2>3. /\ UNCHANGED <<current, disk, kick, kicked, members, conf, offers>>
        /\ calls' \subseteq calls
    BY <2>2 DEF Return, WriteEnv, storeVars, etcdVars
  <2>4. CallsInv'
    BY <2>3, CallsKept DEF IInv
  <2>5. QED
    BY <2>1, <2>3, <2>4, Quiet DEF ToldHosts
<1>4. CASE JoinCommit(k)
  <2>1. TypeOK' /\ CallsInv' /\ KickInv'
    BY <1>4, JoinCommitType, JoinCommitCalls, JoinCommitKick DEF IInv
  <2>2. ListsInv' /\ ToldInv'
    BY <1>4, JoinCommitLists, JoinCommitTold
  <2>3. QED
    BY <2>1, <2>2 DEF IInv
<1>5. QED
  BY <1>1, <1>2, <1>3, <1>4 DEF CallStep

LEMMA TimerKeeps ==
    ASSUME IInv, NEW h \in TimerHosts, Timer(h)
    PROVE  IInv'
<1>1. TypeOK' /\ CallsInv'
  BY TimerType, TimerCalls DEF IInv
<1>2. UNCHANGED <<current, disk, kick, kicked, members, conf, offers>>
  BY DEF Timer, storeVars, etcdVars
<1>3. QED
  BY <1>1, <1>2, Quiet DEF ToldHosts

LEMMA JoinBeginKeeps ==
    ASSUME IInv, NEW h \in Replicas, JoinBegin(h)
    PROVE  IInv'
<1>1. TypeOK' /\ CallsInv'
  BY JoinBeginType, JoinBeginCalls DEF IInv
<1>2. UNCHANGED <<current, disk, kick, kicked, members, conf, offers>>
  BY DEF JoinBegin, storeVars, etcdVars
<1>3. QED
  BY <1>1, <1>2, Quiet DEF ToldHosts

LEMMA SetupCoordinatorKeeps ==
    ASSUME IInv, SetupCoordinator
    PROVE  IInv'
<1>1. TypeOK'
  BY SetupCoordinatorType DEF IInv
<1>2. UNCHANGED <<current, disk, kick, kicked, members, conf, offers>>
  BY DEF SetupCoordinator, WriteEnv, storeVars, etcdVars
<1>3. CASE calls' = calls
  BY <1>1, <1>2, <1>3, CallsKept, Quiet DEF ToldHosts, IInv
<1>4. CASE calls' = calls \cup {Call("setup", Coordinator, AssignedIds(current), NoNode)}
  <2>1. Up
    BY DEF SetupCoordinator
  <2>2. CallsInv'
    BY <1>2, <1>4, <2>1, OtherCall DEF IInv
  <2>3. QED
    BY <1>1, <1>2, <2>2, Quiet DEF ToldHosts
<1>5. QED
  BY <1>3, <1>4 DEF SetupCoordinator

LEMMA OfferKeeps ==
    ASSUME IInv, NEW o \in offers, TakeOffer(o) \/ LoseOffer(o)
    PROVE  IInv'
<1>1. TypeOK'
  BY OfferType DEF IInv
<1>2. UNCHANGED <<current, disk, kick, kicked, members, calls>>
  BY DEF TakeOffer, LoseOffer, storeVars, etcdVars
<1>3. CallsInv'
  BY <1>2, CallsKept DEF IInv
<1>4. ToldHosts' \subseteq ToldHosts
  <2>1. HostsOf(offers') \subseteq HostsOf(offers) /\ o.host \in HostsOf(offers)
    BY DEF TakeOffer, LoseOffer, HostsOf
  <2>2. \A h \in Replicas : conf'[h] = conf[h] \/ h = o.host
    BY DEF TakeOffer, LoseOffer, IInv, TypeOK, Replicas
  <2>3. QED
    BY <2>1, <2>2 DEF ToldHosts
<1>5. QED
  BY <1>1, <1>2, <1>3, <1>4, Quiet

LEMMA ReplicaKeeps ==
    ASSUME IInv, NEW h \in Replicas, ResetHost(h) \/ Learn(h) \/ SetupReplica(h)
    PROVE  IInv'
<1>1. TypeOK'
  BY ResetHostType, LearnType, SetupReplicaType DEF IInv
<1>2. /\ UNCHANGED <<current, disk, kick, kicked, members>>
      /\ calls' \subseteq calls
  BY DEF ResetHost, Learn, SetupReplica, Wipe, WriteEnv, storeVars, etcdVars, handlerVars
<1>3. CallsInv'
  BY <1>2, CallsKept DEF IInv
<1>4. ToldHosts' \subseteq ToldHosts
  <2>1. HostsOf(offers') \subseteq HostsOf(offers)
    BY DEF ResetHost, Learn, SetupReplica, handlerVars, HostsOf
  <2>2. \A r \in Replicas : conf'[r] # NoConfig => conf[r] # NoConfig
    BY DEF ResetHost, Learn, SetupReplica, IInv, TypeOK, Replicas
  <2>3. QED
    BY <2>1, <2>2 DEF ToldHosts
<1>5. QED
  BY <1>1, <1>2, <1>3, <1>4, Quiet

LEMMA EtcdStepKeeps ==
    ASSUME IInv, NEW h \in Hosts, EtcdStarts(h) \/ EtcdStops(h)
    PROVE  IInv'
<1>1. TypeOK'
  BY EtcdStepType DEF IInv
<1>2. UNCHANGED <<current, disk, kick, kicked, members, calls, conf, offers>>
  BY DEF EtcdStarts, EtcdStops, Starts, storeVars, handlerVars
<1>3. QED
  BY <1>1, <1>2, CallsKept, Quiet DEF ToldHosts, IInv

LEMMA KickBeginKeeps ==
    ASSUME IInv, Up, NEW n \in current.nodes, KickBegin(n)
    PROVE  IInv'
<1>1. TypeOK'
  BY KickBeginType DEF IInv
<1>2. UNCHANGED <<current, disk, kicked, members, calls, conf, offers>>
  BY DEF KickBegin, storeVars, etcdVars
<1>3. KickInv'
  BY <1>2 DEF KickBegin, MayBeKicked, KickInv, Up
<1>4. ListsInv' /\ ToldInv' /\ CallsInv'
  BY <1>2, ListsKept, ToldKept, CallsKept DEF ToldHosts, IInv
<1>5. QED
  BY <1>1, <1>3, <1>4 DEF IInv

LEMMA CoordinatorKeeps ==
    ASSUME IInv, CoordinatorDies \/ CoordinatorLoads
    PROVE  IInv'
<1>1. TypeOK'
  BY CoordinatorDiesType, CoordinatorLoadsType DEF IInv
<1>2. CASE CoordinatorDies
  <2>1. /\ current' = NoConfig /\ UNCHANGED <<disk, kicked, members, conf, offers>>
        /\ CoordinatorStops
    BY <1>2 DEF CoordinatorDies, Dies, etcdVars
  <2>2. ListsInv' /\ ToldInv'
    BY <2>1 DEF ListsInv, ToldInv, ToldHosts, Up, IInv
  <2>3. CallsInv' /\ KickInv'
    BY <2>1, CallsStopped, KickStopped DEF IInv
  <2>4. QED
    BY <1>1, <2>2, <2>3 DEF IInv
<1>3. CASE CoordinatorLoads
  <2>1. Load /\ ~ Up /\ UNCHANGED <<members, conf, offers, kicked, calls, kick>>
    BY <1>3 DEF CoordinatorLoads, Load, Up, handlerVars
  <2>2. ListsInv' /\ ToldInv'
    BY <2>1, LoadKeeps DEF IInv, TypeOK
  <2>3. CallsInv' /\ KickInv'
    BY <2>1 DEF CallsInv, KickInv, JoinCall, IInv
  <2>4. QED
    BY <1>1, <2>2, <2>3 DEF IInv
<1>4. QED
  BY <1>2, <1>3

LEMMA StutterKeeps ==
    ASSUME IInv, UNCHANGED vars
    PROVE  IInv'
<1>1. UNCHANGED <<current, disk, kick, kicked, members, calls, conf, offers>> /\ TypeOK'
  BY DEF vars, storeVars, etcdVars, handlerVars, IInv, TypeOK, StoreTypeOK, EtcdTypeOK
<1>2. QED
  BY <1>1, CallsKept, Quiet DEF ToldHosts, IInv

LEMMA InitHolds == Init => IInv
<1> SUFFICES ASSUME Init PROVE IInv
  OBVIOUS
<1>1. /\ current.nodes = {[id |-> CoordinatorId, host |-> Coordinator, joined |-> 0]}
      /\ disk[2] = current.nodes /\ members = {CoordinatorId}
  BY InitialConfigType, ContentsType
     DEF Init, StoreInit, EtcdInit, Written, Files, InitialConfig
<1>2. ListsInv
  BY <1>1 DEF ListsInv, NodeList, Ids
<1>3. ToldHosts = {}
  BY DEF Init, ToldHosts, HostsOf, Replicas
<1>4. QED
  BY <1>2, <1>3, InitType DEF IInv, ToldInv, CallsInv, KickInv, Init

LEMMA StepKeeps == IInv /\ [Next]_vars => IInv'
<1> SUFFICES ASSUME IInv, [Next]_vars PROVE IInv'
  OBVIOUS
<1>1. CASE \E k \in calls : CallStep(k)
  BY <1>1, CallStepKeeps
<1>2. CASE \E h \in TimerHosts : Timer(h)
  BY <1>2, TimerKeeps
<1>3. CASE \E h \in Hosts : EtcdStarts(h) \/ EtcdStops(h)
  BY <1>3, EtcdStepKeeps
<1>4. CASE \E h \in Replicas : JoinBegin(h) \/ ResetHost(h) \/ Learn(h) \/ SetupReplica(h)
  BY <1>4, JoinBeginKeeps, ReplicaKeeps
<1>5. CASE \E o \in offers : TakeOffer(o) \/ LoseOffer(o)
  BY <1>5, OfferKeeps
<1>6. CASE Up /\ \E n \in current.nodes : KickBegin(n)
  BY <1>6, KickBeginKeeps
<1>7. CASE KickCommit
  BY <1>7, KickCommitType, KickCommitLists, KickCommitTold, KickCommitCalls DEF IInv
<1>8. CASE SetupCoordinator
  BY <1>8, SetupCoordinatorKeeps
<1>9. CASE CoordinatorDies \/ CoordinatorLoads
  BY <1>9, CoordinatorKeeps
<1>10. CASE UNCHANGED vars
  BY <1>10, StutterKeeps
<1>11. QED
  BY <1>1, <1>2, <1>3, <1>4, <1>5, <1>6, <1>7, <1>8, <1>9, <1>10 DEF Next

-----------------------------------------------------------------------------
(***************************************************************************)
(* The theorems.                                                           *)
(***************************************************************************)
LEMMA IInvHolds == Spec => []IInv
<1>1. Init => IInv
  BY InitHolds
<1>2. IInv /\ [Next]_vars => IInv'
  BY StepKeeps
<1>3. QED
  BY <1>1, <1>2, PTL DEF Spec

\* The variables keep their types.  In particular the coordinator is never
\* kicked and never reset.
THEOREM TypeCorrect == Spec => []TypeOK
<1>1. IInv => TypeOK
  BY DEF IInv
<1>2. QED
  BY <1>1, IInvHolds, PTL

\* Every node of the configuration is a member of etcd, however many calls of
\* addMissingEtcdMembers run at once and wherever a save fails.
THEOREM MembersCoverNodes == Spec => []MembersCoverConfig
<1>1. IInv => MembersCoverConfig
  BY IdsType, FieldTypes DEF IInv, ListsInv, NodeList, MembersCoverConfig, Ids
<1>2. QED
  BY <1>1, IInvHolds, PTL

\* A host that was told it is a node is in the configuration the coordinator
\* works with, also after a restart, unless it was kicked.
THEOREM AnswersAreKept == Spec => []AnsweredJoinsLast
<1>1. IInv => AnsweredJoinsLast
  BY IdsType, FieldTypes DEF IInv, ToldInv, ToldHosts, AnsweredJoinsLast
<1>2. QED
  BY <1>1, IInvHolds, PTL
=============================================================================
