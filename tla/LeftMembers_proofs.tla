------------------------- MODULE LeftMembers_proofs -------------------------
(***************************************************************************)
(* The proof, for NodeAdmission, that an etcd member a failed join left    *)
(* behind is taken over by the next join: for any number of hosts, ids,    *)
(* timers and faults.                                                      *)
(***************************************************************************)
EXTENDS NodeAdmission_proofs

-----------------------------------------------------------------------------
(***************************************************************************)
(* The inductive invariant.                                                *)
(***************************************************************************)
\* The configurations with which h was told that it is a node, or is about to.
ToldConfigs(h) ==
    ({conf[h]} \ {NoConfig}) \cup {o.config : o \in {p \in offers : p.host = h}}

\* The nodes whose own hosts were told about them.
ToldNodes ==
    {n \in NodeInfo : n.host \in Replicas /\ \E c \in ToldConfigs(n.host) : n \in c.nodes}

\* The ids of all nodes that some host was told about.
ToldIds == {i \in NodeIds : \E h \in Replicas : \E c \in ToldConfigs(h) : i \in Ids(c.nodes)}

\* No member of M that is not in the list S has a larger id than a free one.
AtMostNext(S, M) == \A m \in M \ Ids(S), i \in NodeIds \ Ids(S) : m <= i

\* What a list of nodes is like that memory or the disk holds, while etcd has
\* the members M and the data D, and the nodes T were told.
Listed(S, M, D, T) ==
    /\ AtMostNext(S, M)
    /\ CoordinatorId \in Ids(S)
    /\ \A h \in Hosts : D[h] # NoMember => D[h] \in Ids(S)
    /\ T \subseteq S

\* x is a node in memory alone, as its save failed.  Its host does not know
\* of it, and so its etcd never starts: etcd takes in no other member.
Unstarted(x) ==
    /\ x.host \in Replicas \ ToldHosts
    /\ \A h \in Hosts : data[h] # x.id
    /\ members = Ids(current.nodes)
    /\ disk[2] # Unreadable => current.nodes \ {x} \subseteq disk[2]

OneNotOnDisk == \E x \in current.nodes : Unstarted(x)

\* What is known of a join while its call runs.
Reserved(k) ==
    /\ \A i \in NodeIds \ Ids(current.nodes) : k.node.id <= i
    /\ k.node.host \notin HostsOf(current.nodes)
    /\ k.ids \subseteq members \cup {k.node.id}

\* The calls that are not a join's ask for nothing that etcd does not have.
Asks(k) ==
    /\ k.todo \subseteq k.ids
    /\ k.caller = "join" => Reserved(k)
    /\ k.caller # "join" => k.ids \subseteq members

LeftListsInv ==
    /\ Up => Listed(current.nodes, members, data, ToldNodes)
    /\ disk[2] # Unreadable => Listed(disk[2], members, data, ToldNodes)
    /\ Up => disk[2] = current.nodes \/ OneNotOnDisk

LeftInv ==
    /\ kick = NoNode /\ resets = {} /\ kicked = {}
    /\ LeftListsInv
    /\ \A k \in calls : Asks(k)
    /\ ToldIds \subseteq members

MInv == IInv /\ (kicks = 0 => LeftInv)

-----------------------------------------------------------------------------
(***************************************************************************)
(* What the hosts were told.                                               *)
(***************************************************************************)
\* Nothing new was told.
NothingTold ==
    /\ ToldNodes' \subseteq ToldNodes
    /\ ToldIds' \subseteq ToldIds
    /\ ToldHosts' \subseteq ToldHosts

LEMMA SameTold ==
    ASSUME UNCHANGED <<conf, offers>>
    PROVE  NothingTold
BY DEF NothingTold, ToldNodes, ToldIds, ToldHosts, ToldConfigs

\* No host has a configuration it was not told before.
LEMMA FewerTold ==
    ASSUME \A h \in Replicas : ToldConfigs(h)' \subseteq ToldConfigs(h),
           ToldHosts' \subseteq ToldHosts
    PROVE  NothingTold
<1>1. ToldNodes' \subseteq ToldNodes
  BY DEF ToldNodes
<1>2. ToldIds' \subseteq ToldIds
  BY DEF ToldIds
<1>3. QED
  BY <1>1, <1>2 DEF NothingTold

\* Host r is told c, and nobody anything else.
LEMMA OneMoreTold ==
    ASSUME NEW r \in Replicas, NEW c \in ClusterInfo,
           \A h \in Replicas : ToldConfigs(h)' \subseteq ToldConfigs(h) \cup (IF h = r THEN {c} ELSE {})
    PROVE  /\ \A n \in ToldNodes' : n \in ToldNodes \/ (n \in c.nodes /\ n.host = r)
           /\ ToldIds' \subseteq ToldIds \cup Ids(c.nodes)
<1>1. ASSUME NEW n \in ToldNodes' PROVE n \in ToldNodes \/ (n \in c.nodes /\ n.host = r)
  <2>1. n \in NodeInfo /\ n.host \in Replicas
    BY DEF ToldNodes
  <2>2. PICK d \in ToldConfigs(n.host)' : n \in d.nodes
    BY DEF ToldNodes
  <2>3. d \in ToldConfigs(n.host) \/ (d = c /\ n.host = r)
    BY <2>1, <2>2
  <2>4. QED
    BY <2>1, <2>2, <2>3 DEF ToldNodes
<1>2. ASSUME NEW i \in ToldIds' PROVE i \in ToldIds \cup Ids(c.nodes)
  <2>1. PICK h \in Replicas : \E d \in ToldConfigs(h)' : i \in Ids(d.nodes)
    BY DEF ToldIds
  <2>2. PICK d \in ToldConfigs(h)' : i \in Ids(d.nodes)
    BY <2>1
  <2>3. d \in ToldConfigs(h) \/ d = c
    BY <2>2
  <2>4. i \in NodeIds
    BY DEF ToldIds
  <2>5. QED
    BY <2>2, <2>3, <2>4 DEF ToldIds
<1>3. QED
  BY <1>1, <1>2

\* The nodes and the ids that were told are of the right kind.
LEMMA OwnNode ==
    ASSUME TypeOK, NEW h \in Replicas, conf[h] # NoConfig, NEW n \in conf[h].nodes, n.host = h
    PROVE  n \in ToldNodes /\ h \in ToldHosts
<1>1. conf[h] \in ClusterInfo
  BY FieldTypes DEF Replicas
<1>2. n \in NodeInfo /\ conf[h] \in ToldConfigs(h)
  BY <1>1 DEF ClusterInfo, ToldConfigs
<1>3. QED
  BY <1>2 DEF ToldNodes, ToldHosts

LEMMA OwnIds ==
    ASSUME TypeOK, NEW h \in Replicas, conf[h] # NoConfig
    PROVE  AssignedIds(conf[h]) \subseteq ToldIds
<1>1. conf[h] \in ClusterInfo
  BY FieldTypes DEF Replicas
<1>2. AssignedIds(conf[h]) \subseteq NodeIds /\ AssignedIds(conf[h]) = Ids(conf[h].nodes)
  BY <1>1, IdsType
<1>3. conf[h] \in ToldConfigs(h)
  BY DEF ToldConfigs
<1>4. QED
  BY <1>2, <1>3 DEF ToldIds

-----------------------------------------------------------------------------
(***************************************************************************)
(* The lists.                                                              *)
(***************************************************************************)
LEMMA FewerToldListed ==
    ASSUME NEW S, NEW M, NEW D, NEW T, NEW U, Listed(S, M, D, T), U \subseteq T
    PROVE  Listed(S, M, D, U)
BY DEF Listed

\* A member is added that is smaller than every free id.
LEMMA MemberListed ==
    ASSUME NEW S, NEW M, NEW D, NEW T, NEW m, Listed(S, M, D, T),
           \A i \in NodeIds \ Ids(S) : m <= i
    PROVE  Listed(S, M \cup {m}, D, T)
BY DEF Listed, AtMostNext

\* Steps after which memory, disk, members and data are what they were.
LEMMA Still ==
    ASSUME LeftInv, NothingTold, \A k \in calls' : Asks(k)',
           UNCHANGED <<current, disk, members, data, kick, resets, kicked>>
    PROVE  LeftInv'
<1>1. (Up => Listed(current.nodes, members, data, ToldNodes))'
  BY FewerToldListed DEF LeftInv, LeftListsInv, NothingTold, Up
<1>2. (disk[2] # Unreadable => Listed(disk[2], members, data, ToldNodes))'
  BY FewerToldListed DEF LeftInv, LeftListsInv, NothingTold
<1>3. OneNotOnDisk => OneNotOnDisk'
  BY DEF OneNotOnDisk, Unstarted, NothingTold
<1>4. LeftListsInv'
  BY <1>1, <1>2, <1>3 DEF LeftInv, LeftListsInv, Up
<1>5. QED
  BY <1>4 DEF LeftInv, NothingTold

\* Calls that went on, or ended, ask for what they asked for.
LEMMA FewerCalls ==
    ASSUME \A k \in calls : Asks(k), UNCHANGED current, members \subseteq members',
           NEW k \in calls, NEW l, calls' \subseteq (calls \ {k}) \cup {l},
           l.caller = k.caller, l.node = k.node, l.ids = k.ids, l.todo \subseteq k.todo
    PROVE  \A j \in calls' : Asks(j)'
<1>1. \A j \in calls : Asks(j)'
  BY DEF Asks, Reserved
<1>2. Asks(l)'
  BY <1>1 DEF Asks, Reserved
<1>3. QED
  BY <1>1, <1>2

-----------------------------------------------------------------------------
(***************************************************************************)
(* The calls of addMissingEtcdMembers.                                     *)
(***************************************************************************)
LEMMA ListMembersLeft ==
    ASSUME IInv, LeftInv, NEW k \in calls, ListMembers(k)
    PROVE  LeftInv'
<1> DEFINE l == [k EXCEPT !.listed = TRUE, !.todo = @ \ members]
<1>1. /\ l.caller = k.caller /\ l.node = k.node /\ l.ids = k.ids
      /\ l.todo = k.todo \ members
  BY DEF IInv, TypeOK, Calls
<1>2. /\ calls' = (calls \ {k}) \cup {l}
      /\ UNCHANGED <<current, disk, members, data, kick, resets, kicked, conf, offers>>
  BY DEF ListMembers, storeVars, etcdVars
<1> HIDE DEF l
<1>3. \A j \in calls' : Asks(j)'
  BY <1>1, <1>2, FewerCalls DEF LeftInv
<1>4. QED
  BY <1>2, <1>3, SameTold, Still

\* While a node is missing from the disk, etcd takes in no member.
LEMMA NoMemberAdded ==
    ASSUME TypeOK, LeftInv, Up, OneNotOnDisk
    PROVE  members = Ids(current.nodes) /\ Alive # members
<1>1. PICK x \in current.nodes : Unstarted(x)
  BY DEF OneNotOnDisk
<1>2. members = Ids(current.nodes) /\ x.id \in members
  BY <1>1 DEF Unstarted, Ids
<1>3. x.id \notin Alive
  BY <1>1 DEF Unstarted, Alive, TypeOK, EtcdTypeOK
<1>4. QED
  BY <1>2, <1>3

\* Only a join's call finds a member to add: its own.
LEMMA AddMemberLeft ==
    ASSUME IInv, LeftInv, NEW k \in calls, AddMember(k)
    PROVE  LeftInv'
<1>1. PICK m \in k.todo : /\ Adds(k.at, m)
                          /\ members' = members \cup {m}
                          /\ calls' = (calls \ {k}) \cup {[k EXCEPT !.todo = @ \ {m}]}
  BY DEF AddMember
<1>2. m \notin members /\ Alive = members /\ Asks(k)
  BY <1>1 DEF Adds, LeftInv
<1>3. k.caller = "join" /\ m = k.node.id /\ Reserved(k)
  BY <1>2 DEF Asks, Reserved
<1>4. Up /\ JoinCall(k)
  BY <1>3 DEF IInv, CallsInv, JoinCall
<1>5. disk[2] = current.nodes
  BY <1>2, <1>4, NoMemberAdded DEF LeftInv, LeftListsInv, IInv
<1>6. UNCHANGED <<current, disk, data, kick, resets, kicked, conf, offers>>
  BY DEF AddMember, storeVars
<1>7. NothingTold
  BY <1>6, SameTold
<1>8. Listed(current.nodes, members', data, ToldNodes')
  <2>1. Listed(current.nodes, members, data, ToldNodes)
    BY <1>4 DEF LeftInv, LeftListsInv
  <2>2. \A i \in NodeIds \ Ids(current.nodes) : m <= i
    BY <1>3 DEF Reserved
  <2>3. Listed(current.nodes, members \cup {m}, data, ToldNodes)
    BY <2>1, <2>2, MemberListed
  <2>4. QED
    BY <1>1, <1>7, <2>3, FewerToldListed DEF NothingTold
<1>9. LeftListsInv'
  BY <1>5, <1>6, <1>8 DEF LeftListsInv, Up
<1>10. \A j \in calls' : Asks(j)'
  <2> DEFINE l == [k EXCEPT !.todo = @ \ {m}]
  <2>1. /\ l.caller = k.caller /\ l.node = k.node /\ l.ids = k.ids
        /\ l.todo \subseteq k.todo
    BY DEF IInv, TypeOK, Calls
  <2>2. calls' = (calls \ {k}) \cup {l} /\ members \subseteq members'
    BY <1>1
  <2> HIDE DEF l
  <2>3. QED
    BY <1>6, <2>1, <2>2, FewerCalls DEF LeftInv
<1>11. QED
  BY <1>1, <1>6, <1>7, <1>9, <1>10 DEF LeftInv, NothingTold

LEMMA ReturnLeft ==
    ASSUME LeftInv, NEW k \in calls, Return(k)
    PROVE  LeftInv'
<1>1. /\ calls' = calls \ {k}
      /\ UNCHANGED <<current, disk, members, data, kick, resets, kicked, conf, offers>>
  BY DEF Return, WriteEnv, storeVars, etcdVars
<1>2. \A j \in calls' : Asks(j)'
  BY <1>1 DEF LeftInv, Asks, Reserved
<1>3. QED
  BY <1>1, <1>2, SameTold, Still

\* One call more, of a timer, a set-up or a join.
LEMMA OneCallMore ==
    ASSUME LeftInv, NEW l, calls' = calls \cup {l}, Asks(l),
           UNCHANGED <<current, disk, members, data, kick, resets, kicked, conf, offers>>
    PROVE  LeftInv'
<1>1. \A j \in calls' : Asks(j)'
  BY DEF LeftInv, Asks, Reserved
<1>2. QED
  BY <1>1, SameTold, Still

LEMMA TimerLeft ==
    ASSUME IInv, LeftInv, NEW h \in TimerHosts, Timer(h)
    PROVE  LeftInv'
<1> DEFINE l == Call(h, h, AssignedIds(ConfigOf(h)), NoNode)
<1>1. h # "join" /\ h \in Hosts
  BY HostNamesAssumption, TimerHostsAssumption
<1>2. AssignedIds(ConfigOf(h)) \subseteq members
  <2>1. CASE h = Coordinator
    <3>1. Up /\ ConfigOf(h) = current /\ current \in ClusterInfo
      BY <2>1, FieldTypes DEF Timer, ConfigOf, Up, IInv
    <3>2. QED
      BY <3>1, IdsType DEF IInv, ListsInv, NodeList
  <2>2. CASE h # Coordinator
    BY <1>1, <2>2, OwnIds DEF Timer, ConfigOf, Replicas, IInv, LeftInv
  <2>3. QED
    BY <2>1, <2>2
<1>3. l.caller # "join" /\ l.ids \subseteq members /\ l.todo = l.ids
  BY <1>1, <1>2 DEF Call
<1>4. /\ calls' = calls \cup {l}
      /\ UNCHANGED <<current, disk, members, data, kick, resets, kicked, conf, offers>>
  BY DEF Timer, storeVars, etcdVars
<1> HIDE DEF l
<1>5. Asks(l)
  BY <1>3 DEF Asks
<1>6. QED
  BY <1>4, <1>5, OneCallMore

LEMMA SetupLeft ==
    ASSUME IInv, LeftInv, SetupCoordinator
    PROVE  LeftInv'
<1> DEFINE l == Call("setup", Coordinator, AssignedIds(current), NoNode)
<1>1. AssignedIds(current) \subseteq members
  <2>1. Up /\ current \in ClusterInfo
    BY FieldTypes DEF SetupCoordinator, IInv
  <2>2. QED
    BY <2>1, IdsType DEF IInv, ListsInv, NodeList
<1>2. l.caller # "join" /\ l.ids \subseteq members /\ l.todo = l.ids
  BY <1>1 DEF Call
<1>3. /\ calls' \in {calls, calls \cup {l}}
      /\ UNCHANGED <<current, disk, members, data, kick, resets, kicked, conf, offers>>
  BY DEF SetupCoordinator, WriteEnv, storeVars, etcdVars
<1> HIDE DEF l
<1>4. Asks(l)
  BY <1>2 DEF Asks
<1>5. CASE calls' = calls
  <2>1. \A j \in calls' : Asks(j)'
    BY <1>3, <1>5 DEF LeftInv, Asks, Reserved
  <2>2. QED
    BY <1>3, <2>1, SameTold, Still
<1>6. QED
  BY <1>3, <1>4, <1>5, OneCallMore

\* A join takes the first free id, which is no smaller than a member that is
\* left over.
LEMMA JoinBeginLeft ==
    ASSUME IInv, LeftInv, NEW h \in Replicas, JoinBegin(h)
    PROVE  LeftInv'
<1>1. current \in ClusterInfo /\ Up
  BY FieldTypes DEF JoinBegin, IInv
<1>2. PICK id \in FreeIds(current) :
         /\ IsNextNodeId(current, id)
         /\ calls' = calls \cup {Call("join", Coordinator, IdsToJoin(id),
                                      [id |-> id, host |-> h])}
  BY DEF JoinBegin
<1>3. PICK l : /\ calls' = calls \cup {l} /\ l.caller = "join"
               /\ l.ids = IdsToJoin(id) /\ l.todo = IdsToJoin(id)
               /\ l.node.id = id /\ l.node.host = h
  <2> DEFINE call == Call("join", Coordinator, IdsToJoin(id), [id |-> id, host |-> h])
  <2>1. /\ calls' = calls \cup {call} /\ call.caller = "join"
        /\ call.ids = IdsToJoin(id) /\ call.todo = IdsToJoin(id)
        /\ call.node.id = id /\ call.node.host = h
    BY <1>2 DEF Call
  <2> HIDE DEF call
  <2>2. QED
    BY <2>1
<1>4. /\ AssignedIds(current) = Ids(current.nodes) /\ Hostnames(current) = HostsOf(current.nodes)
      /\ Ids(current.nodes) \subseteq members
  BY <1>1, IdsType DEF IInv, ListsInv, NodeList
<1>5. \A i \in NodeIds \ Ids(current.nodes) : id <= i
  BY <1>2, <1>4 DEF IsNextNodeId, FreeIds
<1>6. h \notin HostsOf(current.nodes)
  BY <1>4 DEF JoinBegin
<1>7. l.ids \subseteq members \cup {id}
  BY <1>3, <1>4 DEF IdsToJoin
<1>8. Asks(l)
  BY <1>3, <1>5, <1>6, <1>7 DEF Asks, Reserved
<1>9. UNCHANGED <<current, disk, members, data, kick, resets, kicked, conf, offers>>
  BY DEF JoinBegin, storeVars, etcdVars
<1>10. QED
  BY <1>3, <1>8, <1>9, OneCallMore

-----------------------------------------------------------------------------
(***************************************************************************)
(* The hosts and their etcd.                                               *)
(***************************************************************************)
\* The node as which etcd starts on an empty directory is on both lists, and
\* is not the one that is missing from the disk.
LEMMA StartedNode ==
    ASSUME IInv, LeftInv, NEW h \in Hosts, NEW m \in NodeIds,
           ConfigOf(h) # NoConfig, IsNode(ConfigOf(h), h, m)
    PROVE  /\ Up => m \in Ids(current.nodes)
           /\ disk[2] # Unreadable => m \in Ids(disk[2])
           /\ Up => \A x \in current.nodes : x.host \in Replicas \ ToldHosts => x.id # m
<1>1. PICK n \in ConfigOf(h).nodes : n.host = h /\ n.id = m
  BY DEF IsNode
<1>2. CASE h = Coordinator
  <2>1. Up /\ n \in current.nodes
    BY <1>1, <1>2 DEF ConfigOf, Up
  <2>2. m = CoordinatorId
    BY <1>1, <1>2, <2>1 DEF IInv, ListsInv, NodeList, Replicas
  <2>3. \A x \in current.nodes : x.host \in Replicas => x.id # m
    BY <1>1, <1>2, <2>1 DEF IInv, ListsInv, NodeList, Replicas
  <2>4. QED
    BY <2>2, <2>3 DEF LeftInv, LeftListsInv, Listed
<1>3. CASE h # Coordinator
  <2>1. n \in ToldNodes /\ h \in ToldHosts
    BY <1>1, <1>3, OwnNode DEF ConfigOf, Replicas, IInv
  <2>2. /\ Up => n \in current.nodes
        /\ disk[2] # Unreadable => n \in disk[2]
    BY <2>1 DEF LeftInv, LeftListsInv, Listed
  <2>3. Up => \A x \in current.nodes : x.id = m => x.host = h
    BY <1>1, <2>2 DEF IInv, ListsInv, NodeList
  <2>4. QED
    BY <1>1, <2>1, <2>2, <2>3 DEF Ids
<1>4. QED
  BY <1>2, <1>3

LEMMA DataListed ==
    ASSUME NEW S, NEW M, NEW D, NEW E, NEW T, NEW m, NEW h \in Hosts, Listed(S, M, D, T),
           m \in Ids(S), \A g \in Hosts : E[g] = D[g] \/ (g = h /\ E[g] = m)
    PROVE  Listed(S, M, E, T)
BY DEF Listed

LEMMA EtcdStartsLeft ==
    ASSUME IInv, LeftInv, NEW h \in Hosts, EtcdStarts(h)
    PROVE  LeftInv'
<1>1. /\ UNCHANGED <<current, disk, members, kick, resets, kicked, calls, conf, offers>>
  BY DEF EtcdStarts, Starts, storeVars, handlerVars
<1>2. CASE UNCHANGED data
  <2>1. \A j \in calls' : Asks(j)'
    BY <1>1 DEF LeftInv, Asks, Reserved
  <2>2. QED
    BY <1>1, <1>2, <2>1, SameTold, Still
<1>3. CASE ~ UNCHANGED data
  <2>1. PICK m \in NodeIds : /\ m = data[h] \/ (ConfigOf(h) # NoConfig /\ IsNode(ConfigOf(h), h, m))
                             /\ Starts(h, m)
    BY DEF EtcdStarts
  <2>2. data[h] = NoMember /\ data' = [data EXCEPT ![h] = m]
    BY <1>3, <2>1 DEF Starts
  <2>3. ConfigOf(h) # NoConfig /\ IsNode(ConfigOf(h), h, m)
    BY <2>1, <2>2, MaxNodeIdAssumption DEF NodeIds, NoMember
  <2>4. /\ Up => m \in Ids(current.nodes)
        /\ disk[2] # Unreadable => m \in Ids(disk[2])
        /\ Up => \A x \in current.nodes : x.host \in Replicas \ ToldHosts => x.id # m
    BY <2>3, StartedNode
  <2>5. \A g \in Hosts : data'[g] = data[g] \/ (g = h /\ data'[g] = m)
    BY <2>2 DEF IInv, TypeOK, EtcdTypeOK
  <2>6. ToldNodes' = ToldNodes /\ ToldIds' = ToldIds /\ ToldHosts' = ToldHosts
    BY <1>1 DEF ToldNodes, ToldIds, ToldHosts, ToldConfigs
  <2>7. /\ Up => Listed(current.nodes, members, data', ToldNodes)
        /\ disk[2] # Unreadable => Listed(disk[2], members, data', ToldNodes)
    BY <2>4, <2>5, DataListed DEF LeftInv, LeftListsInv
  <2>8. Up /\ OneNotOnDisk => OneNotOnDisk'
    BY <1>1, <2>4, <2>5, <2>6 DEF OneNotOnDisk, Unstarted
  <2>9. LeftListsInv'
    BY <1>1, <2>6, <2>7, <2>8 DEF LeftInv, LeftListsInv, Up
  <2>10. \A j \in calls' : Asks(j)'
    BY <1>1 DEF LeftInv, Asks, Reserved
  <2>11. QED
    BY <1>1, <2>6, <2>9, <2>10 DEF LeftInv
<1>4. QED
  BY <1>2, <1>3

\* What a node learns is on disk as far as it concerns itself.
LEMMA LearnLeft ==
    ASSUME IInv, LeftInv, NEW h \in Replicas, Learn(h)
    PROVE  LeftInv'
<1>1. Up /\ current \in ClusterInfo /\ h \in ToldHosts
  BY FieldTypes DEF Learn, ToldHosts, IInv
<1>2. UNCHANGED <<current, disk, members, data, kick, resets, kicked, calls, offers>>
  BY DEF Learn, storeVars, etcdVars, handlerVars
<1>3. \A g \in Replicas : ToldConfigs(g)' \subseteq ToldConfigs(g) \cup (IF g = h THEN {current} ELSE {})
  BY <1>2 DEF Learn, ToldConfigs, IInv, TypeOK, Replicas
<1>4. /\ \A n \in ToldNodes' : n \in ToldNodes \/ (n \in current.nodes /\ n.host = h)
      /\ ToldIds' \subseteq ToldIds \cup Ids(current.nodes)
  <2>1. PICK c : c = current
    OBVIOUS
  <2>2. QED
    BY <1>1, <1>3, <2>1, OneMoreTold
<1>5. ToldHosts' \subseteq ToldHosts
  BY <1>1, <1>2 DEF Learn, ToldHosts, IInv, TypeOK, Replicas
<1>6. ToldNodes' \subseteq current.nodes
  BY <1>1, <1>4 DEF LeftInv, LeftListsInv, Listed
<1>7. ASSUME disk[2] # Unreadable PROVE ToldNodes' \subseteq disk[2]
  <2>1. ToldNodes \subseteq disk[2]
    BY <1>7 DEF LeftInv, LeftListsInv, Listed
  <2>2. \A n \in current.nodes : n.host = h => n \in disk[2]
    BY <1>1, <1>7 DEF LeftInv, LeftListsInv, OneNotOnDisk, Unstarted
  <2>3. QED
    BY <1>4, <2>1, <2>2
<1>8. /\ Listed(current.nodes, members, data, ToldNodes')
      /\ disk[2] # Unreadable => Listed(disk[2], members, data, ToldNodes')
  BY <1>1, <1>6, <1>7 DEF LeftInv, LeftListsInv, Listed
<1>9. OneNotOnDisk => OneNotOnDisk'
  BY <1>2, <1>5 DEF OneNotOnDisk, Unstarted
<1>10. LeftListsInv'
  BY <1>1, <1>2, <1>8, <1>9 DEF LeftInv, LeftListsInv, Up
<1>11. ToldIds' \subseteq members
  BY <1>1, <1>4 DEF LeftInv, IInv, ListsInv, NodeList
<1>12. \A j \in calls' : Asks(j)'
  BY <1>2 DEF LeftInv, Asks, Reserved
<1>13. QED
  BY <1>2, <1>10, <1>11, <1>12 DEF LeftInv

LEMMA OfferLeft ==
    ASSUME IInv, LeftInv, NEW o \in offers, TakeOffer(o) \/ LoseOffer(o)
    PROVE  LeftInv'
<1>1. UNCHANGED <<current, disk, members, data, kick, resets, kicked, calls>>
  BY DEF TakeOffer, LoseOffer, storeVars, etcdVars
<1>2. o.host \in Replicas /\ o.config \in ClusterInfo
  BY FieldTypes DEF IInv
<1>3. offers' = offers \ {o} /\ \A h \in Replicas : conf'[h] = conf[h] \/ (h = o.host /\ conf'[h] = o.config)
  BY DEF TakeOffer, LoseOffer, IInv, TypeOK, Replicas
<1>4. \A h \in Replicas : ToldConfigs(h)' \subseteq ToldConfigs(h)
  BY <1>3 DEF ToldConfigs
<1>5. ToldHosts' \subseteq ToldHosts
  BY <1>2, <1>3 DEF ToldHosts, HostsOf
<1>6. \A j \in calls' : Asks(j)'
  BY <1>1 DEF LeftInv, Asks, Reserved
<1>7. QED
  BY <1>1, <1>4, <1>5, <1>6, FewerTold, Still

\* Steps of which neither the lists nor the calls nor the hosts are told.
LEMMA OtherLeft ==
    ASSUME LeftInv, \/ \E h \in Hosts : EtcdStops(h)
                    \/ \E h \in Replicas : SetupReplica(h)
                    \/ UNCHANGED vars
    PROVE  LeftInv'
<1>1. UNCHANGED <<current, disk, members, data, kick, resets, kicked, calls, conf, offers>>
  BY DEF EtcdStops, SetupReplica, WriteEnv, vars, storeVars, etcdVars, handlerVars
<1>2. \A j \in calls' : Asks(j)'
  BY <1>1 DEF LeftInv, Asks, Reserved
<1>3. QED
  BY <1>1, <1>2, SameTold, Still

-----------------------------------------------------------------------------
(***************************************************************************)
(* A join is completed.                                                    *)
(***************************************************************************)
\* Where a join stands when its node is about to be added: the member it asked
\* for is the only one that is not a node, and the disk has every node.
LEMMA JoinReady ==
    ASSUME IInv, LeftInv, NEW k \in calls, JoinCommit(k)
    PROVE  /\ Up /\ JoinCall(k) /\ Reserved(k)
           /\ members = Ids(current.nodes) \cup {k.node.id}
           /\ disk[2] = current.nodes
           /\ k.node.host \notin ToldHosts
<1>1. Up /\ k.caller = "join" /\ k.listed /\ k.todo = {}
  BY DEF JoinCommit, MayUpdate
<1>2. JoinCall(k) /\ Reserved(k)
  BY <1>1 DEF IInv, CallsInv, LeftInv, Asks
<1>3. k.node.id \in members /\ k.node.id \notin Ids(current.nodes)
  BY <1>1, <1>2 DEF IInv, CallsInv, JoinCall
<1>4. Ids(current.nodes) \subseteq members
  BY <1>1 DEF IInv, ListsInv, NodeList
<1>5. \A m \in members \ Ids(current.nodes) : m = k.node.id
  <2>1. k.node.id \in NodeIds
    BY <1>2 DEF JoinCall
  <2> SUFFICES ASSUME NEW m \in members \ Ids(current.nodes) PROVE m = k.node.id
    OBVIOUS
  <2>2. m <= k.node.id
    BY <1>1, <1>3, <2>1 DEF LeftInv, LeftListsInv, Listed, AtMostNext
  <2>3. k.node.id <= m /\ m \in NodeIds
    BY <1>2 DEF Reserved, IInv, TypeOK, EtcdTypeOK
  <2>4. QED
    BY <2>1, <2>2, <2>3, MaxNodeIdAssumption DEF NodeIds
<1>6. disk[2] = current.nodes
  BY <1>1, <1>3, NoMemberAdded DEF LeftInv, LeftListsInv, IInv
<1>7. k.node.host \notin ToldHosts
  BY <1>1, <1>2 DEF Reserved, IInv, ToldInv, LeftInv
<1>8. QED
  BY <1>1, <1>2, <1>3, <1>4, <1>5, <1>6, <1>7

\* Once every member is a node, nothing is left over.
LEMMA NodeListed ==
    ASSUME NEW S, NEW D, NEW T, NEW n, NEW M, Listed(S, M, D, T), M = Ids(S \cup {n})
    PROVE  Listed(S \cup {n}, M, D, T)
<1>1. Ids(S) \subseteq Ids(S \cup {n})
  BY DEF Ids
<1>2. QED
  BY <1>1 DEF Listed, AtMostNext

LEMMA JoinCommitLeft ==
    ASSUME IInv, LeftInv, NEW k \in calls, JoinCommit(k)
    PROVE  LeftInv'
<1>1. PICK S : S = current.nodes
  OBVIOUS
<1>2. PICK n : n = [id |-> k.node.id, host |-> k.node.host, joined |-> Touched(current)]
  OBVIOUS
<1>3. PICK c \in ClusterInfo : /\ c = WithNode(current, k.node.id, k.node.host)
                               /\ c.nodes = S \cup {n}
  BY <1>1, <1>2, JoinConfig DEF IInv
<1>4. n.id = k.node.id /\ n.host = k.node.host
  BY <1>2
<1>5. /\ Up /\ JoinCall(k) /\ Reserved(k) /\ members = Ids(S) \cup {n.id}
      /\ disk[2] = S /\ n.host \notin ToldHosts
  BY <1>1, <1>4, JoinReady
<1>6. k.node.host \in Replicas /\ n.id \in NodeIds /\ n.id \notin Ids(S)
  BY <1>1, <1>4, <1>5 DEF JoinCall
<1>7. members = Ids(c.nodes)
  BY <1>3, <1>5 DEF Ids
<1>8. Listed(S, members, data, ToldNodes)
  BY <1>1, <1>5 DEF LeftInv, LeftListsInv
<1>9. Listed(c.nodes, members, data, ToldNodes)
  <2>1. members = Ids(S \cup {n})
    BY <1>3, <1>7
  <2>2. Listed(S \cup {n}, members, data, ToldNodes)
    BY <1>8, <2>1, NodeListed
  <2>3. QED
    BY <1>3, <2>2
<1>10. UNCHANGED <<members, data, conf, resets>> /\ kick' = NoNode /\ kicked' = {}
  BY DEF JoinCommit, CoordinatorStops, LeftInv
<1>11. \A j \in calls' : Asks(j)'
  <2>1. \A j \in calls' : j \in calls /\ j.caller # "join"
    BY DEF JoinCommit, CoordinatorStops, IInv, CallsInv, JoinCall
  <2>2. QED
    BY <1>10, <2>1 DEF LeftInv, Asks
<1>12. CASE Offered(c, k.node.host)
  <2>1. current' = c /\ disk'[2] = c.nodes
    BY <1>12, ContentsType DEF Offered, Saved, Save, Written, Files
  <2>2. PICK o : o.host = k.node.host /\ o.config = c /\ offers' = offers \cup {o}
    <3> DEFINE p == [host |-> k.node.host, config |-> c]
    <3>1. p.host = k.node.host /\ p.config = c /\ offers' = offers \cup {p}
      BY <1>12 DEF Offered
    <3> HIDE DEF p
    <3>2. QED
      BY <3>1
  <2>3. PICK r \in Replicas : r = k.node.host
    BY <1>6
  <2>4. \A h \in Replicas :
           ToldConfigs(h)' \subseteq ToldConfigs(h) \cup (IF h = r THEN {c} ELSE {})
    BY <1>10, <2>2, <2>3 DEF ToldConfigs
  <2>5. /\ \A m \in ToldNodes' : m \in ToldNodes \/ (m \in c.nodes /\ m.host = r)
        /\ ToldIds' \subseteq ToldIds \cup Ids(c.nodes)
    BY <2>4, OneMoreTold
  <2>6. Listed(c.nodes, members, data, ToldNodes')
    BY <1>9, <2>5 DEF Listed
  <2>7. LeftListsInv'
    BY <1>10, <2>1, <2>6 DEF LeftListsInv
  <2>8. ToldIds' \subseteq members'
    BY <1>7, <1>10, <2>5 DEF LeftInv
  <2>9. QED
    BY <1>10, <1>11, <2>7, <2>8 DEF LeftInv
<1>13. CASE (SaveThrows(c) \/ SaveDies(c)) /\ UNCHANGED offers
  <2>1. /\ current' \in {c, NoConfig}
        /\ disk'[2] \in {c.nodes, S, Unreadable}
    BY <1>5, <1>13, AnySave DEF IInv, TypeOK
  <2>2. ToldNodes' = ToldNodes /\ ToldIds' = ToldIds /\ ToldHosts' = ToldHosts
    BY <1>10, <1>13 DEF ToldNodes, ToldIds, ToldHosts, ToldConfigs
  <2>3. /\ Up' => Listed(current.nodes, members, data, ToldNodes)'
        /\ disk'[2] # Unreadable => Listed(disk[2], members, data, ToldNodes)'
    BY <1>8, <1>9, <1>10, <2>1, <2>2 DEF Up
  <2>4. ASSUME current' = c, disk'[2] # c.nodes PROVE Unstarted(n)'
    <3>1. \A h \in Hosts : data[h] # n.id
      <4>1. n.id # NoMember
        BY <1>6, MaxNodeIdAssumption DEF NodeIds, NoMember
      <4>2. QED
        BY <1>6, <1>8, <4>1 DEF Listed
    <3>2. current'.nodes \ {n} \subseteq S
      BY <1>3, <2>4
    <3>3. n.host \in Replicas \ ToldHosts
      BY <1>4, <1>5, <1>6
    <3>4. QED
      BY <1>7, <1>10, <2>1, <2>2, <2>4, <3>1, <3>2, <3>3 DEF Unstarted
  <2>5. Up' => disk'[2] = current'.nodes \/ OneNotOnDisk'
    BY <1>3, <2>1, <2>4 DEF OneNotOnDisk, Up
  <2>6. LeftListsInv'
    BY <2>3, <2>5 DEF LeftListsInv
  <2>7. QED
    BY <1>10, <1>11, <2>2, <2>6 DEF LeftInv
<1>14. QED
  BY <1>3, <1>12, <1>13 DEF JoinCommit

-----------------------------------------------------------------------------
(***************************************************************************)
(* The coordinator's daemon.                                               *)
(***************************************************************************)
LEMMA DiesLeft ==
    ASSUME IInv, LeftInv, CoordinatorDies
    PROVE  LeftInv'
<1>1. /\ current' = NoConfig /\ kick' = NoNode
      /\ UNCHANGED <<disk, members, data, resets, kicked, conf, offers>>
  BY DEF CoordinatorDies, Dies, CoordinatorStops, etcdVars
<1>2. \A j \in calls' : j \in calls /\ j.caller # "join"
  BY DEF CoordinatorDies, CoordinatorStops, IInv, CallsInv, JoinCall
<1>3. \A j \in calls' : Asks(j)'
  BY <1>1, <1>2 DEF LeftInv, Asks
<1>4. ToldNodes' = ToldNodes /\ ToldIds' = ToldIds
  BY <1>1 DEF ToldNodes, ToldIds, ToldConfigs
<1>5. LeftListsInv'
  BY <1>1, <1>4 DEF LeftInv, LeftListsInv, Up
<1>6. QED
  BY <1>1, <1>3, <1>4, <1>5 DEF LeftInv

LEMMA LoadsLeft ==
    ASSUME IInv, LeftInv, CoordinatorLoads
    PROVE  LeftInv'
<1>1. current'.nodes = disk[2] /\ disk[2] # Unreadable /\ UNCHANGED disk
  BY LoadType DEF CoordinatorLoads, IInv, TypeOK
<1>2. UNCHANGED <<members, data, calls, kick, resets, kicked, conf, offers>>
  BY DEF CoordinatorLoads, handlerVars
<1>3. ~ Up
  BY DEF CoordinatorLoads, Load, Up
<1>4. \A j \in calls' : j \in calls /\ j.caller # "join"
  BY <1>2, <1>3 DEF IInv, CallsInv, JoinCall
<1>5. \A j \in calls' : Asks(j)'
  BY <1>2, <1>4 DEF LeftInv, Asks
<1>6. ToldNodes' = ToldNodes /\ ToldIds' = ToldIds
  BY <1>2 DEF ToldNodes, ToldIds, ToldConfigs
<1>7. LeftListsInv'
  BY <1>1, <1>2, <1>6 DEF LeftInv, LeftListsInv
<1>8. QED
  BY <1>2, <1>5, <1>6, <1>7 DEF LeftInv

-----------------------------------------------------------------------------
(***************************************************************************)
(* The theorems.                                                           *)
(***************************************************************************)
LEMMA LeftInitHolds == Init => LeftInv
<1> SUFFICES ASSUME Init PROVE LeftInv
  OBVIOUS
<1>1. /\ current.nodes = {[id |-> CoordinatorId, host |-> Coordinator, joined |-> 0]}
      /\ disk[2] = current.nodes /\ members = {CoordinatorId}
  BY InitialConfigType, ContentsType
     DEF Init, StoreInit, EtcdInit, Written, Files, InitialConfig
<1>2. \A h \in Replicas : ToldConfigs(h) = {}
  BY DEF Init, ToldConfigs, Replicas
<1>3. ToldNodes = {} /\ ToldIds = {}
  BY <1>2 DEF ToldNodes, ToldIds
<1>4. Ids(current.nodes) = {CoordinatorId}
  BY <1>1 DEF Ids
<1>5. Listed(current.nodes, members, data, ToldNodes)
  BY <1>1, <1>3, <1>4 DEF Listed, AtMostNext, Init, EtcdInit
<1>6. LeftListsInv
  BY <1>1, <1>5 DEF LeftListsInv
<1>7. QED
  BY <1>3, <1>6 DEF LeftInv, Init

\* Without a kick every step preserves the invariant: a kick that waits, and a
\* host that is to reset, come of a kick.
LEMMA LeftStep ==
    ASSUME IInv, LeftInv, [Next]_vars, kicks' = 0
    PROVE  LeftInv'
<1>1. CASE \E k \in calls : CallStep(k)
  BY <1>1, ListMembersLeft, AddMemberLeft, ReturnLeft, JoinCommitLeft
     DEF CallStep, CallFails, CallEnds
<1>2. CASE \E h \in TimerHosts : Timer(h)
  BY <1>2, TimerLeft
<1>3. CASE \E h \in Hosts : EtcdStarts(h) \/ EtcdStops(h)
  BY <1>3, EtcdStartsLeft, OtherLeft
<1>4. CASE \E h \in Replicas : JoinBegin(h) \/ Learn(h) \/ SetupReplica(h)
  BY <1>4, JoinBeginLeft, LearnLeft, OtherLeft
<1>5. CASE \E o \in offers : TakeOffer(o) \/ LoseOffer(o)
  BY <1>5, OfferLeft
<1>6. CASE SetupCoordinator
  BY <1>6, SetupLeft
<1>7. CASE CoordinatorDies \/ CoordinatorLoads
  BY <1>7, DiesLeft, LoadsLeft
<1>8. CASE UNCHANGED vars
  BY <1>8, OtherLeft
<1>9. ~ \E h \in Replicas : ResetHost(h)
  BY DEF ResetHost, LeftInv
<1>10. ~ KickCommit
  BY DEF KickCommit, LeftInv
<1>11. ~ \E n \in current.nodes : KickBegin(n)
  BY BoundsAssumption DEF KickBegin, IInv, TypeOK
<1>12. QED
  BY <1>1, <1>2, <1>3, <1>4, <1>5, <1>6, <1>7, <1>8, <1>9, <1>10, <1>11 DEF Next

LEMMA KicksCounted ==
    ASSUME IInv, [Next]_vars, kicks' = 0
    PROVE  kicks = 0
<1>1. kicks' = kicks \/ kicks' = kicks + 1
  BY DEF Next, CallStep, ListMembers, AddMember, CallFails, CallEnds, Return, JoinCommit,
         Timer, EtcdStarts, EtcdStops, JoinBegin, ResetHost, Learn, SetupReplica,
         TakeOffer, LoseOffer, KickBegin, KickCommit, SetupCoordinator,
         CoordinatorDies, CoordinatorLoads, vars
<1>2. kicks \in Nat
  BY BoundsAssumption DEF IInv, TypeOK
<1>3. QED
  BY <1>1, <1>2

\* As long as no node is kicked, an etcd member that is not a node is the one
\* the next join asks for, whichever saves fail and whoever dies.
THEOREM FailedJoinsAreReused == Spec => []LeftMembersReused
<1>1. Init => MInv
  BY InitHolds, LeftInitHolds DEF MInv
<1>2. MInv /\ [Next]_vars => MInv'
  BY StepKeeps, LeftStep, KicksCounted DEF MInv
<1>3. MInv => LeftMembersReused
  <2> SUFFICES ASSUME MInv, kicks = 0, Up,
                      NEW m \in members \ AssignedIds(current), NEW id \in FreeIds(current)
               PROVE  m <= id
    BY DEF LeftMembersReused
  <2>1. AssignedIds(current) = Ids(current.nodes)
    BY FieldTypes, IdsType DEF MInv, IInv
  <2>2. QED
    BY <2>1 DEF MInv, LeftInv, LeftListsInv, Listed, AtMostNext, FreeIds
<1>4. QED
  BY <1>1, <1>2, <1>3, PTL DEF Spec
=============================================================================
