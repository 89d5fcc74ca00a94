------------------------- MODULE NodeServices_proofs -------------------------
(***************************************************************************)
(* Proofs about NodeServices: its variables keep their types, the last     *)
(* configuration wins on disk, and no configured service runs an older     *)
(* version of its files unless its own last update was cut off - for any   *)
(* services, any contents and any number of configurations and faults.     *)
(***************************************************************************)
EXTENDS NodeServices, TLAPS

CommandQueues == [Dirs -> Seq(Commands)]

Ops == {"up", "recreate", "down", "ps"}

SetupTypeOK(st) ==
    st \in [phase : {"idle", "deploying"}, config : Configs \cup {NoSetup.config},
            dir : Dirs, todo : SUBSET Dirs]
           \cup [phase : {"stopping"}, config : Configs \cup {NoSetup.config},
                 dir : Services, todo : SUBSET Services]

HealthTypeOK(hc) ==
    hc \in [stage : {"idle", "ps", "inspect", "up"}, dir : Dirs, todo : SUBSET Dirs]

-----------------------------------------------------------------------------
(***************************************************************************)
(* Command queues                                                          *)
(***************************************************************************)
\* r is q with cmd added behind the commands of d.
Grown(r, q, d, cmd) ==
    /\ r \in CommandQueues
    /\ \A e \in Dirs : e # d => r[e] = q[e]
    /\ Len(r[d]) = Len(q[d]) + 1
    /\ \A i \in 1 .. Len(q[d]) : r[d][i] = q[d][i]
    /\ r[d][Len(q[d]) + 1] = cmd

\* What Enqueue does to the queues: one command more, at the end, unread.
LEMMA EnqueueEffect ==
    ASSUME NEW q \in CommandQueues, NEW d \in Dirs, NEW op \in Ops,
           NEW by \in {"setup", "health"}
    PROVE  Grown(Enqueue(q, d, op, by), q, d, [op |-> op, by |-> by, files |-> NoFiles])
<1> DEFINE cmd == [op |-> op, by |-> by, files |-> NoFiles]
<1>1. cmd \in Commands
  BY DEF Commands, Ops
<1>2. q[d] \in Seq(Commands)
  BY DEF CommandQueues
<1>3. Enqueue(q, d, op, by) = [q EXCEPT ![d] = Append(q[d], cmd)]
  BY DEF Enqueue, CommandQueues
<1>4. /\ Append(q[d], cmd) \in Seq(Commands)
      /\ Len(Append(q[d], cmd)) = Len(q[d]) + 1
      /\ \A i \in 1 .. Len(q[d]) : Append(q[d], cmd)[i] = q[d][i]
      /\ Append(q[d], cmd)[Len(q[d]) + 1] = cmd
  BY <1>1, <1>2
<1> HIDE DEF cmd
<1>5. Grown(Enqueue(q, d, op, by), q, d, cmd)
  BY <1>3, <1>4 DEF CommandQueues, Grown
<1>6. QED
  BY <1>5 DEF cmd

\* The commands of a queue that has grown.
LEMMA GrownElements ==
    ASSUME NEW q \in CommandQueues, NEW d \in Dirs, NEW r, NEW cmd, Grown(r, q, d, cmd)
    PROVE  /\ \A e \in Dirs : Len(q[e]) \in Nat /\ Len(r[e]) \in Nat
           /\ \A e \in Dirs : \A i \in 1 .. Len(r[e]) :
                 \/ i \in 1 .. Len(q[e]) /\ r[e][i] = q[e][i]
                 \/ e = d /\ i = Len(q[d]) + 1 /\ r[e][i] = cmd
<1>1. \A e \in Dirs : Len(q[e]) \in Nat /\ Len(r[e]) \in Nat
  BY DEF CommandQueues, Grown
<1>2. \A i \in 1 .. Len(r[d]) :
         \/ i \in 1 .. Len(q[d]) /\ r[d][i] = q[d][i]
         \/ i = Len(q[d]) + 1 /\ r[d][i] = cmd
  BY <1>1 DEF Grown
<1>3. QED
  BY <1>1, <1>2 DEF Grown

\* What the end of a command does to the queues.
LEMMA EndedEffect ==
    ASSUME cmds \in CommandQueues, NEW d \in Dirs, cmds[d] # <<>>
    PROVE  /\ Ended(d) \in CommandQueues
           /\ \A e \in Dirs : e # d => Ended(d)[e] = cmds[e]
           /\ Len(Ended(d)[d]) = Len(cmds[d]) - 1
           /\ Len(cmds[d]) \in Nat \ {0}
           /\ \A i \in 1 .. Len(Ended(d)[d]) : Ended(d)[d][i] = cmds[d][i + 1]
           /\ Head(cmds[d]) = cmds[d][1]
           /\ Head(cmds[d]) \in Commands
<1>1. cmds[d] \in Seq(Commands)
  BY DEF CommandQueues
<1>2. Ended(d) = [cmds EXCEPT ![d] = Tail(cmds[d])]
  BY DEF Ended, CommandQueues
<1>3. /\ Tail(cmds[d]) \in Seq(Commands)
      /\ Len(Tail(cmds[d])) = Len(cmds[d]) - 1
      /\ Len(cmds[d]) \in Nat \ {0}
      /\ \A i \in 1 .. Len(Tail(cmds[d])) : Tail(cmds[d])[i] = cmds[d][i + 1]
      /\ Head(cmds[d]) = cmds[d][1]
      /\ Head(cmds[d]) \in Commands
  BY <1>1
<1>4. QED
  BY <1>2, <1>3 DEF CommandQueues

\* Reading the files changes nothing but the first command.
LEMMA ReadEffect ==
    ASSUME cmds \in CommandQueues, disk \in [Dirs -> Versions \cup {NoFiles}],
           NEW d \in Dirs, ComposeReads(d)
    PROVE  /\ cmds' \in CommandQueues
           /\ \A e \in Dirs : e # d => cmds'[e] = cmds[e]
           /\ Len(cmds'[d]) = Len(cmds[d])
           /\ Len(cmds[d]) \in Nat \ {0}
           /\ \A i \in 2 .. Len(cmds[d]) : cmds'[d][i] = cmds[d][i]
           /\ cmds'[d][1] = [cmds[d][1] EXCEPT !.files = disk[d]]
           /\ cmds[d][1] \in Commands
<1> DEFINE cmd == [cmds[d][1] EXCEPT !.files = disk[d]]
<1>1. cmds[d] \in Seq(Commands) /\ cmds[d] # <<>>
  BY DEF CommandQueues, ComposeReads
<1>2. cmds[d][1] \in Commands /\ Head(cmds[d]) = cmds[d][1] /\ Len(cmds[d]) \in Nat \ {0}
  BY <1>1
<1>3. cmd \in Commands
  BY <1>2 DEF Commands
<1>4. cmds' = [cmds EXCEPT ![d] = [cmds[d] EXCEPT ![1] = cmd]]
  BY <1>2 DEF ComposeReads, CommandQueues
<1> HIDE DEF cmd
<1>5. /\ [cmds[d] EXCEPT ![1] = cmd] \in Seq(Commands)
      /\ Len([cmds[d] EXCEPT ![1] = cmd]) = Len(cmds[d])
      /\ \A i \in 2 .. Len(cmds[d]) : [cmds[d] EXCEPT ![1] = cmd][i] = cmds[d][i]
      /\ [cmds[d] EXCEPT ![1] = cmd][1] = cmd
  BY <1>1, <1>2, <1>3
<1>6. QED
  BY <1>2, <1>4, <1>5 DEF CommandQueues, cmd

-----------------------------------------------------------------------------
(***************************************************************************)
(* Types                                                                   *)
(***************************************************************************)
\* The next command of a set-up keeps the types.
LEMMA StopNextType ==
    ASSUME TypeOK, NEW c \in Configs \cup {NoSetup.config}, NEW todo \in SUBSET Services,
           NEW q \in CommandQueues, StopNext(c, todo, q)
    PROVE  /\ disk' \in [Dirs -> Versions \cup {NoFiles}]
           /\ cmds' \in CommandQueues
           /\ SetupTypeOK(setup')
           /\ succeeded' \in BOOLEAN
<1>1. CASE /\ setup' = NoSetup /\ succeeded' = TRUE /\ cmds' = q
           /\ UNCHANGED disk
  <2>1. SetupTypeOK(NoSetup)
    BY DEF SetupTypeOK, NoSetup, Dirs
  <2>2. QED
    BY <1>1, <2>1 DEF TypeOK, ComposeTypeOK
<1>2. ASSUME NEW d \in todo,
             setup' = [phase |-> "stopping", config |-> c, dir |-> d, todo |-> todo \ {d}],
             cmds' = Enqueue(q, d, "down", "setup"), UNCHANGED <<disk, succeeded>>
      PROVE  /\ disk' \in [Dirs -> Versions \cup {NoFiles}]
             /\ cmds' \in CommandQueues
             /\ SetupTypeOK(setup')
             /\ succeeded' \in BOOLEAN
  <2>1. cmds' \in CommandQueues
    BY <1>2, EnqueueEffect DEF Ops, Grown, Dirs
  <2>2. SetupTypeOK(setup')
    BY <1>2 DEF SetupTypeOK
  <2>3. QED
    BY <1>2, <2>1, <2>2 DEF TypeOK, ComposeTypeOK
<1>3. QED
  BY <1>1, <1>2 DEF StopNext

LEMMA DeployNextType ==
    ASSUME TypeOK, NEW c \in Configs \cup {NoSetup.config}, NEW todo \in SUBSET Dirs,
           NEW q \in CommandQueues, DeployNext(c, todo, q)
    PROVE  /\ disk' \in [Dirs -> Versions \cup {NoFiles}]
           /\ cmds' \in CommandQueues
           /\ SetupTypeOK(setup')
           /\ succeeded' \in BOOLEAN
<1>1. CASE StopNext(c, Removed(c), q)
  <2>1. Removed(c) \in SUBSET Services
    BY DEF Removed
  <2>2. QED
    BY <1>1, <2>1, StopNextType
<1>2. ASSUME NEW d \in Dirs,
             disk' = [disk EXCEPT ![d] = c[d]],
             cmds' = Enqueue(q, d, IF d = Etcd THEN "up" ELSE "recreate", "setup"),
             setup' = [phase |-> "deploying", config |-> c, dir |-> d, todo |-> After(todo, d)],
             UNCHANGED succeeded
      PROVE  /\ disk' \in [Dirs -> Versions \cup {NoFiles}]
             /\ cmds' \in CommandQueues
             /\ SetupTypeOK(setup')
             /\ succeeded' \in BOOLEAN
  <2>1. (IF d = Etcd THEN "up" ELSE "recreate") \in Ops
    BY DEF Ops
  <2>2. cmds' \in CommandQueues
    BY <1>2, <2>1, EnqueueEffect DEF Grown
  <2>3. SetupTypeOK(setup')
    BY <1>2 DEF SetupTypeOK, After
  <2>4. c[d] \in Versions \cup {NoFiles}
    BY DEF Configs, NoSetup
  <2>5. QED
    BY <1>2, <2>2, <2>3, <2>4 DEF TypeOK, ComposeTypeOK
<1>3. QED
  BY <1>1, <1>2 DEF DeployNext

\* The health check keeps the types.
LEMMA CheckNextType ==
    ASSUME NEW todo \in SUBSET Dirs, NEW q \in CommandQueues, CheckNext(todo, q)
    PROVE  cmds' \in CommandQueues /\ HealthTypeOK(health')
<1>1. CASE health' = NoHealthCheck /\ cmds' = q
  BY <1>1 DEF HealthTypeOK, NoHealthCheck, Dirs
<1>2. ASSUME NEW d \in Dirs,
             health' = [stage |-> "ps", dir |-> d, todo |-> After(todo, d)],
             cmds' = Enqueue(q, d, "ps", "health")
      PROVE  cmds' \in CommandQueues /\ HealthTypeOK(health')
  <2>1. cmds' \in CommandQueues
    BY <1>2, EnqueueEffect DEF Ops, Grown
  <2>2. HealthTypeOK(health')
    BY <1>2 DEF HealthTypeOK, After
  <2>3. QED
    BY <2>1, <2>2
<1>3. QED
  BY <1>1, <1>2 DEF CheckNext

LEMMA RepairType ==
    ASSUME NEW d \in Dirs, NEW op \in Ops, NEW q \in CommandQueues,
           HealthTypeOK(health), Repair(d, op, q)
    PROVE  cmds' \in CommandQueues /\ HealthTypeOK(health')
<1>1. cmds' \in CommandQueues
  BY EnqueueEffect DEF Repair, Grown
<1>2. HealthTypeOK(health')
  BY DEF Repair, HealthTypeOK
<1>3. QED
  BY <1>1, <1>2

\* What is left of a container when the command of its directory is cut off.
LEMMA LeftOverType ==
    ASSUME TypeOK, NEW d \in Dirs
    PROVE  LeftOver(d) \subseteq Containers \cup {NoContainer}
<1>1. container[d] \in Containers \cup {NoContainer}
  BY DEF TypeOK, ComposeTypeOK
<1>2. RunningIn(d) \subseteq Commands
  BY EndedEffect DEF TypeOK, ComposeTypeOK, CommandQueues, RunningIn
<1>3. {cmd.files : cmd \in {c \in RunningIn(d) : IsUp(c)}} \ {NoFiles} \subseteq Versions
  BY <1>2 DEF Commands
<1>4. QED
  BY <1>1, <1>3 DEF LeftOver, Containers

\* The effects of docker-compose keep the types.
LEMMA EffectsType ==
    ASSUME TypeOK, NEW d \in Dirs, cmds[d] # <<>>,
           UpTakesEffect(d) \/ DownTakesEffect(d) \/ FailureTakesEffect(d)
    PROVE  container' \in [Dirs -> Containers \cup {NoContainer}]
<1>1. Head(cmds[d]) \in Commands
  BY EndedEffect DEF TypeOK, ComposeTypeOK, CommandQueues
<1>2. CASE UpTakesEffect(d)
  <2> DEFINE new == [version |-> Head(cmds[d]).files, status |-> "healthy"]
  <2>1. new \in Containers
    BY <1>1, <1>2 DEF UpTakesEffect, Commands, Containers
  <2>2. container' = [container EXCEPT ![d] = new] \/ UNCHANGED container
    BY <1>2 DEF UpTakesEffect
  <2> HIDE DEF new
  <2>3. QED
    BY <2>1, <2>2 DEF TypeOK, ComposeTypeOK
<1>3. CASE DownTakesEffect(d)
  BY <1>3 DEF DownTakesEffect, TypeOK, ComposeTypeOK
<1>4. CASE FailureTakesEffect(d)
  <2>1. PICK left \in LeftOver(d) : container' = [container EXCEPT ![d] = left]
    BY <1>4 DEF FailureTakesEffect
  <2>2. left \in Containers \cup {NoContainer}
    BY <2>1, LeftOverType
  <2>3. QED
    BY <2>1, <2>2 DEF TypeOK, ComposeTypeOK
<1>5. QED
  BY <1>2, <1>3, <1>4

LEMMA TypeUnfolded ==
    TypeOK <=> /\ disk \in [Dirs -> Versions \cup {NoFiles}]
               /\ cmds \in CommandQueues
               /\ container \in [Dirs -> Containers \cup {NoContainer}]
               /\ config \in Configs
               /\ queue \in Seq(Configs)
               /\ SetupTypeOK(setup)
               /\ succeeded \in BOOLEAN
               /\ interrupted \subseteq Dirs
               /\ HealthTypeOK(health)
               /\ changes \in 0 .. MaxChanges
               /\ faults \in 0 .. MaxFaults
BY DEF TypeOK, ComposeTypeOK, CommandQueues, SetupTypeOK, HealthTypeOK

LEMMA FaultType ==
    ASSUME TypeOK, Fault
    PROVE  faults' \in 0 .. MaxFaults
BY BoundsAssumption DEF TypeOK, Fault

\* Every step keeps the types.
LEMMA TypeStep ==
    ASSUME TypeOK, [Next]_vars
    PROVE  TypeOK'
<1> USE DEF CommandEnds
<1>t. /\ disk \in [Dirs -> Versions \cup {NoFiles}]
      /\ cmds \in CommandQueues
      /\ container \in [Dirs -> Containers \cup {NoContainer}]
      /\ config \in Configs
      /\ queue \in Seq(Configs)
      /\ SetupTypeOK(setup)
      /\ succeeded \in BOOLEAN
      /\ interrupted \subseteq Dirs
      /\ HealthTypeOK(health)
      /\ changes \in 0 .. MaxChanges
      /\ faults \in 0 .. MaxFaults
  BY TypeUnfolded
<1>i. SetupTypeOK(NoSetup) /\ HealthTypeOK(NoHealthCheck)
  BY DEF SetupTypeOK, NoSetup, HealthTypeOK, NoHealthCheck, Dirs
<1>s. /\ setup.config \in Configs \cup {NoSetup.config}
      /\ setup.todo \in SUBSET Dirs /\ setup.dir \in Dirs
      /\ setup.phase = "stopping" => setup.todo \in SUBSET Services
      /\ health.todo \in SUBSET Dirs /\ health.dir \in Dirs
  BY <1>t DEF SetupTypeOK, HealthTypeOK, Dirs
<1>e. \A d \in Dirs : cmds[d] # <<>> => Ended(d) \in CommandQueues
  BY <1>t, EndedEffect
<1>1. ASSUME NEW c \in Configs, ApplyConfig(c)
      PROVE  TypeOK'
  <2>1. queue' \in Seq(Configs)
    BY <1>t, <1>1 DEF ApplyConfig, Queued
  <2>2. changes' \in 0 .. MaxChanges
    BY <1>t, <1>1, BoundsAssumption DEF ApplyConfig
  <2>3. QED
    BY <1>t, <1>1, <2>1, <2>2
       DEF ApplyConfig, TypeOK, ComposeTypeOK, CommandQueues, SetupTypeOK, HealthTypeOK
<1>2. ASSUME RestartDaemon
      PROVE  TypeOK'
  <2>1. queue' \in Seq(Configs) /\ cmds' \in CommandQueues /\ interrupted' \subseteq Dirs
    BY <1>t, <1>s, <1>2 DEF RestartDaemon, CommandQueues
  <2>2. faults' \in 0 .. MaxFaults
    BY <1>2, FaultType DEF RestartDaemon
  <2>3. container' \in [Dirs -> Containers \cup {NoContainer}]
    BY <1>2, LeftOverType DEF RestartDaemon, KillsTakeEffect
  <2>4. QED
    BY <1>t, <1>i, <1>2, <2>1, <2>2, <2>3
       DEF RestartDaemon, TypeOK, ComposeTypeOK, CommandQueues, SetupTypeOK, HealthTypeOK
<1>3. ASSUME StartSetup
      PROVE  TypeOK'
  <2>1. Head(queue) \in Configs /\ queue' \in Seq(Configs)
    BY <1>t, <1>3 DEF StartSetup
  <2>2. Configured(Head(queue)) \in SUBSET Dirs
    BY DEF Configured
  <2>3. /\ disk' \in [Dirs -> Versions \cup {NoFiles}]
        /\ cmds' \in CommandQueues
        /\ SetupTypeOK(setup')
        /\ succeeded' \in BOOLEAN
    BY <1>t, <1>3, <2>1, <2>2, DeployNextType DEF StartSetup
  <2>4. QED
    BY <1>t, <1>3, <2>1, <2>3
       DEF StartSetup, TypeOK, ComposeTypeOK, CommandQueues, SetupTypeOK, HealthTypeOK
<1>4. ASSUME NEW d \in Dirs, SetupUpEnds(d)
      PROVE  TypeOK'
  <2>1. container' \in [Dirs -> Containers \cup {NoContainer}]
    BY <1>4, EffectsType DEF SetupUpEnds, Running
  <2>2. /\ disk' \in [Dirs -> Versions \cup {NoFiles}]
        /\ cmds' \in CommandQueues
        /\ SetupTypeOK(setup')
        /\ succeeded' \in BOOLEAN
    BY <1>s, <1>e, <1>4, DeployNextType DEF SetupUpEnds, Running
  <2>3. QED
    BY <1>t, <1>4, <2>1, <2>2
       DEF SetupUpEnds, TypeOK, ComposeTypeOK, CommandQueues, SetupTypeOK, HealthTypeOK
<1>5. ASSUME NEW d \in Dirs, SetupDownEnds(d)
      PROVE  TypeOK'
  <2>1. container' \in [Dirs -> Containers \cup {NoContainer}]
    BY <1>5, EffectsType DEF SetupDownEnds, Running
  <2>2. /\ disk' \in [Dirs -> Versions \cup {NoFiles}]
        /\ cmds' \in CommandQueues
        /\ SetupTypeOK(setup')
        /\ succeeded' \in BOOLEAN
    BY <1>s, <1>e, <1>5, StopNextType DEF SetupDownEnds, Running
  <2>3. QED
    BY <1>t, <1>5, <2>1, <2>2
       DEF SetupDownEnds, TypeOK, ComposeTypeOK, CommandQueues, SetupTypeOK, HealthTypeOK
<1>6. ASSUME NEW d \in Dirs, SetupCommandFails(d)
      PROVE  TypeOK'
  <2>1. container' \in [Dirs -> Containers \cup {NoContainer}]
    BY <1>6, EffectsType DEF SetupCommandFails, Running
  <2>2. cmds' \in CommandQueues /\ interrupted' \subseteq Dirs
    BY <1>t, <1>e, <1>6 DEF SetupCommandFails, Running
  <2>3. faults' \in 0 .. MaxFaults
    BY <1>6, FaultType DEF SetupCommandFails
  <2>4. QED
    BY <1>t, <1>i, <1>6, <2>1, <2>2, <2>3
       DEF SetupCommandFails, AbortedSetup, TypeOK, ComposeTypeOK, CommandQueues,
           SetupTypeOK, HealthTypeOK
<1>7. ASSUME StartHealthCheck
      PROVE  TypeOK'
  <2>1. Configured(config) \in SUBSET Dirs
    BY DEF Configured
  <2>2. cmds' \in CommandQueues /\ HealthTypeOK(health')
    BY <1>t, <1>7, <2>1, CheckNextType DEF StartHealthCheck
  <2>3. QED
    BY <1>t, <1>7, <2>2
       DEF StartHealthCheck, TypeOK, ComposeTypeOK, CommandQueues, SetupTypeOK, HealthTypeOK
<1>8. ASSUME NEW d \in Dirs, PsEnds(d)
      PROVE  TypeOK'
  <2>1. Ended(d) \in CommandQueues
    BY <1>e, <1>8 DEF PsEnds, Running
  <2>4. cmds' \in CommandQueues /\ HealthTypeOK(health')
    <3>1. CASE Repair(d, "up", Ended(d))
      BY <1>t, <2>1, <3>1, RepairType DEF Ops
    <3>2. CASE health' = [health EXCEPT !.stage = "inspect"] /\ cmds' = Ended(d)
      BY <1>t, <2>1, <3>2 DEF HealthTypeOK
    <3>3. QED
      BY <1>8, <3>1, <3>2 DEF PsEnds
  <2>5. QED
    BY <1>t, <1>8, <2>4
       DEF PsEnds, TypeOK, ComposeTypeOK, CommandQueues, SetupTypeOK, HealthTypeOK
<1>9. ASSUME InspectEnds
      PROVE  TypeOK'
  <2>1. cmds' \in CommandQueues /\ HealthTypeOK(health')
    <3>1. ASSUME NEW op \in Ops, Repair(health.dir, op, cmds)
          PROVE  cmds' \in CommandQueues /\ HealthTypeOK(health')
      BY <1>t, <1>s, <3>1, RepairType
    <3>2. ASSUME CheckNext(health.todo, cmds)
          PROVE  cmds' \in CommandQueues /\ HealthTypeOK(health')
      BY <1>t, <1>s, <3>2, CheckNextType
    <3>3. QED
      BY <1>9, <3>1, <3>2 DEF InspectEnds, Ops
  <2>2. QED
    BY <1>t, <1>9, <2>1
       DEF InspectEnds, TypeOK, ComposeTypeOK, CommandQueues, SetupTypeOK, HealthTypeOK
<1>10. ASSUME NEW d \in Dirs, CheckFails(d)
       PROVE  TypeOK'
  <2>1. cmds' \in CommandQueues /\ HealthTypeOK(health')
    BY <1>t, <1>e, <1>10, RepairType DEF CheckFails, Running, Ops
  <2>2. faults' \in 0 .. MaxFaults
    BY <1>10, FaultType DEF CheckFails
  <2>3. QED
    BY <1>t, <1>10, <2>1, <2>2
       DEF CheckFails, TypeOK, ComposeTypeOK, CommandQueues, SetupTypeOK, HealthTypeOK
<1>11. ASSUME NEW d \in Dirs, RepairEnds(d) \/ RepairFails(d)
       PROVE  TypeOK'
  <2>1. container' \in [Dirs -> Containers \cup {NoContainer}]
    BY <1>11, EffectsType DEF RepairEnds, RepairFails, Running
  <2>2. cmds' \in CommandQueues /\ HealthTypeOK(health')
    BY <1>s, <1>e, <1>11, CheckNextType DEF RepairEnds, RepairFails, Running
  <2>3. faults' \in 0 .. MaxFaults
    BY <1>t, <1>11, FaultType DEF RepairEnds, RepairFails
  <2>4. QED
    BY <1>t, <1>11, <2>1, <2>2, <2>3
       DEF RepairEnds, RepairFails, TypeOK, ComposeTypeOK, CommandQueues, SetupTypeOK,
           HealthTypeOK
<1>12. ASSUME NEW d \in Dirs, ContainerFails(d)
       PROVE  TypeOK'
  <2>1. container' \in [Dirs -> Containers \cup {NoContainer}]
    BY <1>t, <1>12 DEF ContainerFails, Containers
  <2>2. faults' \in 0 .. MaxFaults
    BY <1>12, FaultType DEF ContainerFails
  <2>3. QED
    BY <1>t, <1>12, <2>1, <2>2
       DEF ContainerFails, TypeOK, ComposeTypeOK, CommandQueues, SetupTypeOK, HealthTypeOK
<1>13. ASSUME NEW d \in Dirs, ReadFiles(d)
       PROVE  TypeOK'
  <2>1. cmds' \in CommandQueues
    BY <1>t, <1>13, ReadEffect DEF ReadFiles
  <2>2. QED
    BY <1>t, <1>13, <2>1
       DEF ReadFiles, ComposeReads, TypeOK, ComposeTypeOK, CommandQueues, SetupTypeOK,
           HealthTypeOK
<1>14. CASE UNCHANGED vars
  BY <1>14 DEF vars, TypeOK, ComposeTypeOK
<1>15. QED
  BY <1>1, <1>2, <1>3, <1>4, <1>5, <1>6, <1>7, <1>8, <1>9, <1>10, <1>11, <1>12,
     <1>13, <1>14 DEF Next

\* Every variable of a node keeps its type: the queues hold configurations
\* and commands, and a set-up or health check is where its record says.
THEOREM TypeCorrect == Spec => []TypeOK
<1>1. Init => TypeOK
  <2> SUFFICES ASSUME Init PROVE TypeOK
    OBVIOUS
  <2>1. config \in Configs
    BY DEF Init
  <2>2. queue \in Seq(Configs)
    BY <2>1 DEF Init
  <2>3. ComposeTypeOK
    BY DEF Init, ComposeInit, ComposeTypeOK
  <2>4. SetupTypeOK(NoSetup) /\ HealthTypeOK(NoHealthCheck)
    BY DEF SetupTypeOK, NoSetup, HealthTypeOK, NoHealthCheck, Dirs
  <2>5. 0 \in 0 .. MaxChanges /\ 0 \in 0 .. MaxFaults
    BY BoundsAssumption
  <2>6. QED
    BY <2>1, <2>2, <2>3, <2>4, <2>5 DEF Init, TypeOK, SetupTypeOK, HealthTypeOK
<1>2. TypeOK /\ [Next]_vars => TypeOK'
  BY TypeStep
<1>3. QED
  BY <1>1, <1>2, PTL DEF Spec

-----------------------------------------------------------------------------
(***************************************************************************)
(* Which commands are queued                                               *)
(*                                                                         *)
(* The set-up has at most one command, in the directory it is at and of    *)
(* the kind its phase calls for; only the first command of a directory has *)
(* read its files.                                                         *)
(***************************************************************************)
SetupCommandsMatch(q, st) ==
    \A d \in Dirs : \A i \in 1 .. Len(q[d]) :
        q[d][i].by = "setup" =>
            /\ st.dir = d
            /\ IsUp(q[d][i]) => st.phase = "deploying"
            /\ ~ IsUp(q[d][i]) => st.phase = "stopping"
            /\ q[d][i].op = "up" => d = Etcd

OneSetupCommand(q) ==
    \A d \in Dirs : \A i, j \in 1 .. Len(q[d]) :
        q[d][i].by = "setup" /\ q[d][j].by = "setup" => i = j

OnlyFirstHasRead(q) ==
    \A d \in Dirs : \A i \in 2 .. Len(q[d]) : q[d][i].files = NoFiles

QueueInv(q, st) ==
    SetupCommandsMatch(q, st) /\ OneSetupCommand(q) /\ OnlyFirstHasRead(q)

NoSetupCommand(q) ==
    \A d \in Dirs : \A i \in 1 .. Len(q[d]) : q[d][i].by # "setup"

LEMMA NoSetupCommandSuffices ==
    ASSUME NEW q, NEW st, NoSetupCommand(q), OnlyFirstHasRead(q)
    PROVE  QueueInv(q, st)
BY DEF NoSetupCommand, QueueInv, SetupCommandsMatch, OneSetupCommand

LEMMA EnqueueKeepsUnread ==
    ASSUME NEW q \in CommandQueues, NEW d \in Dirs, NEW op \in Ops,
           NEW by \in {"setup", "health"}, OnlyFirstHasRead(q)
    PROVE  OnlyFirstHasRead(Enqueue(q, d, op, by))
<1> DEFINE r == Enqueue(q, d, op, by)
           cmd == [op |-> op, by |-> by, files |-> NoFiles]
<1>2. Grown(r, q, d, cmd)
  BY EnqueueEffect
<1>3. cmd.files = NoFiles
  OBVIOUS
<1> HIDE DEF r, cmd
<1>1. \A e \in Dirs : \A i \in 1 .. Len(r[e]) :
              \/ i \in 1 .. Len(q[e]) /\ r[e][i] = q[e][i]
              \/ e = d /\ i = Len(q[d]) + 1 /\ r[e][i] = cmd
  BY <1>2, GrownElements
<1>4. \A e \in Dirs : Len(r[e]) \in Nat /\ Len(q[e]) \in Nat
  BY <1>2, GrownElements
<1>5. ASSUME NEW e \in Dirs, NEW i \in 2 .. Len(r[e])
      PROVE  r[e][i].files = NoFiles
  <2>1. i \in 1 .. Len(r[e])
    BY <1>4
  <2>2. CASE i \in 1 .. Len(q[e]) /\ r[e][i] = q[e][i]
    BY <1>4, <2>2 DEF OnlyFirstHasRead
  <2>3. CASE r[e][i] = cmd
    BY <1>3, <2>3
  <2>4. QED
    BY <1>1, <2>1, <2>2, <2>3
<1>6. QED
  BY <1>5 DEF OnlyFirstHasRead, r

LEMMA EnqueueHealth ==
    ASSUME NEW q \in CommandQueues, NEW d \in Dirs, NEW op \in Ops, NEW st, QueueInv(q, st)
    PROVE  QueueInv(Enqueue(q, d, op, "health"), st)
<1> DEFINE r == Enqueue(q, d, op, "health")
           cmd == [op |-> op, by |-> "health", files |-> NoFiles]
<1>g. Grown(r, q, d, cmd)
  BY EnqueueEffect
<1>b. cmd.by = "health" /\ cmd.op = op
  OBVIOUS
<1>c. OnlyFirstHasRead(r)
  BY EnqueueKeepsUnread DEF QueueInv
<1> HIDE DEF r, cmd
<1>a. \A e \in Dirs : \A i \in 1 .. Len(r[e]) :
              \/ i \in 1 .. Len(q[e]) /\ r[e][i] = q[e][i]
              \/ e = d /\ i = Len(q[d]) + 1 /\ r[e][i] = cmd
  BY <1>g, GrownElements
<1>1. ASSUME NEW e \in Dirs, NEW i \in 1 .. Len(r[e]), r[e][i].by = "setup"
      PROVE  i \in 1 .. Len(q[e]) /\ r[e][i] = q[e][i]
  BY <1>1, <1>a, <1>b
<1>2. SetupCommandsMatch(r, st)
  <2> SUFFICES ASSUME NEW e \in Dirs, NEW i \in 1 .. Len(r[e]), r[e][i].by = "setup"
               PROVE  /\ st.dir = e
                      /\ IsUp(r[e][i]) => st.phase = "deploying"
                      /\ ~ IsUp(r[e][i]) => st.phase = "stopping"
                      /\ r[e][i].op = "up" => e = Etcd
    BY DEF SetupCommandsMatch
  <2>1. i \in 1 .. Len(q[e]) /\ r[e][i] = q[e][i]
    BY <1>1
  <2>2. QED
    BY <2>1 DEF QueueInv, SetupCommandsMatch
<1>3. OneSetupCommand(r)
  <2> SUFFICES ASSUME NEW e \in Dirs, NEW i \in 1 .. Len(r[e]), NEW j \in 1 .. Len(r[e]),
                      r[e][i].by = "setup", r[e][j].by = "setup"
               PROVE  i = j
    BY DEF OneSetupCommand
  <2>1. /\ i \in 1 .. Len(q[e]) /\ r[e][i] = q[e][i]
        /\ j \in 1 .. Len(q[e]) /\ r[e][j] = q[e][j]
    BY <1>1
  <2>2. QED
    BY <2>1 DEF QueueInv, OneSetupCommand
<1>5. QED
  BY <1>2, <1>3, <1>c DEF QueueInv, r

LEMMA EnqueueSetup ==
    ASSUME NEW q \in CommandQueues, NEW d \in Dirs, NEW op \in Ops, NEW st,
           NoSetupCommand(q), OnlyFirstHasRead(q),
           st.dir = d,
           op \in {"up", "recreate"} => st.phase = "deploying",
           op \notin {"up", "recreate"} => st.phase = "stopping",
           op = "up" => d = Etcd
    PROVE  QueueInv(Enqueue(q, d, op, "setup"), st)
<1> DEFINE r == Enqueue(q, d, op, "setup")
           cmd == [op |-> op, by |-> "setup", files |-> NoFiles]
<1>g. Grown(r, q, d, cmd)
  BY EnqueueEffect
<1>b. cmd.by = "setup" /\ cmd.op = op
  OBVIOUS
<1>c. OnlyFirstHasRead(r)
  BY EnqueueKeepsUnread DEF QueueInv
<1> HIDE DEF r, cmd
<1>a. \A e \in Dirs : \A i \in 1 .. Len(r[e]) :
              \/ i \in 1 .. Len(q[e]) /\ r[e][i] = q[e][i]
              \/ e = d /\ i = Len(q[d]) + 1 /\ r[e][i] = cmd
  BY <1>g, GrownElements
<1>1. ASSUME NEW e \in Dirs, NEW i \in 1 .. Len(r[e]), r[e][i].by = "setup"
      PROVE  e = d /\ i = Len(q[d]) + 1 /\ r[e][i] = cmd
  BY <1>1, <1>a, <1>b DEF NoSetupCommand
<1>2. SetupCommandsMatch(r, st)
  <2> SUFFICES ASSUME NEW e \in Dirs, NEW i \in 1 .. Len(r[e]), r[e][i].by = "setup"
               PROVE  /\ st.dir = e
                      /\ IsUp(r[e][i]) => st.phase = "deploying"
                      /\ ~ IsUp(r[e][i]) => st.phase = "stopping"
                      /\ r[e][i].op = "up" => e = Etcd
    BY DEF SetupCommandsMatch
  <2>1. e = d /\ r[e][i].op = op
    BY <1>1, <1>b
  <2>2. QED
    BY <2>1 DEF IsUp
<1>3. OneSetupCommand(r)
  BY <1>1 DEF OneSetupCommand
<1>5. QED
  BY <1>2, <1>3, <1>c DEF QueueInv, r

LEMMA EndedKeepsQueueInv ==
    ASSUME cmds \in CommandQueues, NEW d \in Dirs, cmds[d] # <<>>, NEW st,
           QueueInv(cmds, st)
    PROVE  /\ QueueInv(Ended(d), st)
           /\ cmds[d][1].by = "setup" => NoSetupCommand(Ended(d))
<1> DEFINE r == Ended(d)
<1>1. Len(cmds[d]) \in Nat \ {0} /\ Len(r[d]) = Len(cmds[d]) - 1
  BY EndedEffect
<1>2. \A e \in Dirs : e # d => r[e] = cmds[e]
  BY EndedEffect
<1>3. \A i \in 1 .. Len(r[d]) : r[d][i] = cmds[d][i + 1] /\ i + 1 \in 2 .. Len(cmds[d])
  BY <1>1, EndedEffect
<1> HIDE DEF r
<1>4. SetupCommandsMatch(r, st)
  <2>1. ASSUME NEW e \in Dirs, NEW i \in 1 .. Len(r[e])
        PROVE  \E j \in 1 .. Len(cmds[e]) : r[e][i] = cmds[e][j]
    <3>1. CASE e = d
      <4>1. i + 1 \in 1 .. Len(cmds[d]) /\ r[d][i] = cmds[d][i + 1]
        BY <1>1, <1>3, <3>1
      <4>2. QED
        BY <3>1, <4>1
    <3>2. CASE e # d
      BY <1>2, <3>2
    <3>3. QED
      BY <3>1, <3>2
  <2>2. QED
    BY <2>1 DEF QueueInv, SetupCommandsMatch
<1>5. OneSetupCommand(r)
  <2> SUFFICES ASSUME NEW e \in Dirs, NEW i \in 1 .. Len(r[e]), NEW j \in 1 .. Len(r[e]),
                      r[e][i].by = "setup", r[e][j].by = "setup"
               PROVE  i = j
    BY DEF OneSetupCommand
  <2>1. CASE e = d
    <3>0. \A k \in 1 .. Len(r[d]) : k + 1 \in 1 .. Len(cmds[d]) /\ r[d][k] = cmds[d][k + 1]
      BY <1>1, <1>3
    <3>1. /\ i + 1 \in 1 .. Len(cmds[d]) /\ r[d][i] = cmds[d][i + 1]
          /\ j + 1 \in 1 .. Len(cmds[d]) /\ r[d][j] = cmds[d][j + 1]
      BY <2>1, <3>0
    <3>2. i + 1 = j + 1
      BY <2>1, <3>1 DEF QueueInv, OneSetupCommand
    <3>3. QED
      BY <1>1, <2>1, <3>2
  <2>2. CASE e # d
    BY <1>2, <2>2 DEF QueueInv, OneSetupCommand
  <2>3. QED
    BY <2>1, <2>2
<1>6. OnlyFirstHasRead(r)
  <2> SUFFICES ASSUME NEW e \in Dirs, NEW i \in 2 .. Len(r[e])
               PROVE  r[e][i].files = NoFiles
    BY DEF OnlyFirstHasRead
  <2>1. CASE e = d
    <3>1. i + 1 \in 2 .. Len(cmds[d]) /\ r[d][i] = cmds[d][i + 1]
      BY <1>1, <1>3, <2>1
    <3>2. QED
      BY <2>1, <3>1 DEF QueueInv, OnlyFirstHasRead
  <2>2. CASE e # d
    BY <1>2, <2>2 DEF QueueInv, OnlyFirstHasRead
  <2>3. QED
    BY <2>1, <2>2
<1>7. ASSUME cmds[d][1].by = "setup", NEW e \in Dirs, NEW i \in 1 .. Len(r[e])
      PROVE  r[e][i].by # "setup"
  <2>1. 1 \in 1 .. Len(cmds[d])
    BY <1>1
  <2>2. st.dir = d
    BY <1>7, <2>1 DEF QueueInv, SetupCommandsMatch
  <2>3. CASE e = d
    <3>1. i + 1 \in 1 .. Len(cmds[d]) /\ r[d][i] = cmds[d][i + 1] /\ i + 1 # 1
      BY <1>1, <1>3, <2>3
    <3>2. QED
      BY <1>7, <2>1, <2>3, <3>1 DEF QueueInv, OneSetupCommand
  <2>4. CASE e # d
    BY <1>2, <2>2, <2>4 DEF QueueInv, SetupCommandsMatch
  <2>5. QED
    BY <2>3, <2>4
<1>8. QED
  BY <1>4, <1>5, <1>6, <1>7 DEF QueueInv, NoSetupCommand, r

LEMMA StopNextQueue ==
    ASSUME NEW c, NEW todo \in SUBSET Dirs, NEW q \in CommandQueues,
           NoSetupCommand(q), OnlyFirstHasRead(q), StopNext(c, todo, q)
    PROVE  QueueInv(cmds', setup')
<1>1. CASE cmds' = q
  BY <1>1, NoSetupCommandSuffices
<1>2. ASSUME NEW d \in todo,
             setup' = [phase |-> "stopping", config |-> c, dir |-> d, todo |-> todo \ {d}],
             cmds' = Enqueue(q, d, "down", "setup")
      PROVE  QueueInv(cmds', setup')
  <2>1. setup'.dir = d /\ setup'.phase = "stopping"
    BY <1>2
  <2>2. d \in Dirs /\ "down" \in Ops /\ "down" \notin {"up", "recreate"} /\ "down" # "up"
    BY DEF Ops
  <2>3. QueueInv(Enqueue(q, d, "down", "setup"), setup')
    BY <2>1, <2>2, EnqueueSetup
  <2>4. QED
    BY <1>2, <2>3
<1>3. QED
  BY <1>1, <1>2 DEF StopNext

LEMMA DeployNextQueue ==
    ASSUME NEW c, NEW todo \in SUBSET Dirs, NEW q \in CommandQueues,
           NoSetupCommand(q), OnlyFirstHasRead(q), DeployNext(c, todo, q)
    PROVE  QueueInv(cmds', setup')
<1>1. CASE StopNext(c, Removed(c), q)
  <2>1. Removed(c) \in SUBSET Dirs
    BY DEF Removed, Dirs
  <2>2. QED
    BY <1>1, <2>1, StopNextQueue
<1>2. ASSUME NEW d \in Dirs,
             cmds' = Enqueue(q, d, IF d = Etcd THEN "up" ELSE "recreate", "setup"),
             setup' = [phase |-> "deploying", config |-> c, dir |-> d, todo |-> After(todo, d)]
      PROVE  QueueInv(cmds', setup')
  <2> DEFINE op == IF d = Etcd THEN "up" ELSE "recreate"
  <2>1. setup'.dir = d /\ setup'.phase = "deploying"
    BY <1>2
  <2>2. op \in Ops /\ op \in {"up", "recreate"} /\ (op = "up" => d = Etcd)
    BY DEF Ops
  <2>3. cmds' = Enqueue(q, d, op, "setup")
    BY <1>2
  <2> HIDE DEF op
  <2>4. QueueInv(Enqueue(q, d, op, "setup"), setup')
    BY <2>1, <2>2, EnqueueSetup
  <2>5. QED
    BY <2>3, <2>4
<1>3. QED
  BY <1>1, <1>2 DEF DeployNext

LEMMA CheckNextQueue ==
    ASSUME NEW todo \in SUBSET Dirs, NEW q \in CommandQueues, NEW st,
           QueueInv(q, st), CheckNext(todo, q)
    PROVE  QueueInv(cmds', st)
<1>1. CASE cmds' = q
  BY <1>1
<1>2. ASSUME NEW d \in Dirs, cmds' = Enqueue(q, d, "ps", "health")
      PROVE  QueueInv(cmds', st)
  <2>1. QueueInv(Enqueue(q, d, "ps", "health"), st)
    BY EnqueueHealth DEF Ops
  <2>2. QED
    BY <1>2, <2>1
<1>3. QED
  BY <1>1, <1>2 DEF CheckNext

\* What is known of the first command of a set-up.
LEMMA SetupCommandFacts ==
    ASSUME TypeOK, QueueInv(cmds, setup), NEW d \in Dirs, NEW ops, Running(d, ops, "setup")
    PROVE  /\ cmds[d] # <<>>
           /\ Head(cmds[d]) = cmds[d][1]
           /\ cmds[d][1].by = "setup"
           /\ cmds[d][1].op \in ops
           /\ setup.dir = d
           /\ IsUp(cmds[d][1]) => setup.phase = "deploying"
           /\ ~ IsUp(cmds[d][1]) => setup.phase = "stopping"
           /\ cmds[d][1].op = "up" => d = Etcd
           /\ Ended(d) \in CommandQueues
           /\ NoSetupCommand(Ended(d))
           /\ OnlyFirstHasRead(Ended(d))
<1>1. cmds[d] # <<>> /\ cmds \in CommandQueues
  BY TypeUnfolded DEF Running
<1>2. Head(cmds[d]) = cmds[d][1] /\ 1 \in 1 .. Len(cmds[d]) /\ Ended(d) \in CommandQueues
  BY <1>1, EndedEffect
<1>3. cmds[d][1].by = "setup" /\ cmds[d][1].op \in ops
  BY <1>2 DEF Running
<1>4. /\ setup.dir = d
      /\ IsUp(cmds[d][1]) => setup.phase = "deploying"
      /\ ~ IsUp(cmds[d][1]) => setup.phase = "stopping"
      /\ cmds[d][1].op = "up" => d = Etcd
  BY <1>2, <1>3 DEF QueueInv, SetupCommandsMatch
<1>5. NoSetupCommand(Ended(d)) /\ OnlyFirstHasRead(Ended(d))
  BY <1>1, <1>3, EndedKeepsQueueInv DEF QueueInv
<1>6. QED
  BY <1>1, <1>2, <1>3, <1>4, <1>5

\* Every step keeps the commands in order.
LEMMA QueueStep ==
    ASSUME TypeOK, QueueInv(cmds, setup), [Next]_vars
    PROVE  QueueInv(cmds, setup)'
<1> USE DEF CommandEnds
<1>t. /\ cmds \in CommandQueues
      /\ disk \in [Dirs -> Versions \cup {NoFiles}]
      /\ setup.todo \in SUBSET Dirs
      /\ health.todo \in SUBSET Dirs /\ health.dir \in Dirs
  BY TypeUnfolded DEF SetupTypeOK, HealthTypeOK, Dirs
<1>e. \A d \in Dirs : cmds[d] # <<>> =>
         Ended(d) \in CommandQueues /\ QueueInv(Ended(d), setup)
  BY <1>t, EndedEffect, EndedKeepsQueueInv
<1>r. \A d \in Dirs, op \in Ops, q \in CommandQueues :
         QueueInv(q, setup) /\ Repair(d, op, q) => QueueInv(cmds', setup)
  BY EnqueueHealth DEF Repair
<1>o. "up" \in Ops /\ "recreate" \in Ops
  BY DEF Ops
<1>1. ASSUME NEW c \in Configs, ApplyConfig(c)
      PROVE  QueueInv(cmds', setup')
  BY <1>1 DEF ApplyConfig
<1>2. ASSUME RestartDaemon
      PROVE  QueueInv(cmds', setup')
  <2>1. cmds' = [d \in Dirs |-> <<>>]
    BY <1>2 DEF RestartDaemon
  <2>2. \A d \in Dirs : Len(cmds'[d]) = 0
    BY <2>1
  <2>3. QED
    BY <2>2 DEF QueueInv, SetupCommandsMatch, OneSetupCommand, OnlyFirstHasRead
<1>3. ASSUME StartSetup
      PROVE  QueueInv(cmds', setup')
  <2>1. NoSetupCommand(cmds) /\ OnlyFirstHasRead(cmds)
    BY <1>3 DEF StartSetup, QueueInv, SetupCommandsMatch, NoSetupCommand
  <2>2. Configured(Head(queue)) \in SUBSET Dirs
    BY DEF Configured
  <2>3. QED
    BY <1>t, <1>3, <2>1, <2>2, DeployNextQueue DEF StartSetup
<1>4. ASSUME NEW d \in Dirs, SetupUpEnds(d)
      PROVE  QueueInv(cmds', setup')
  <2>1. /\ Ended(d) \in CommandQueues
        /\ NoSetupCommand(Ended(d))
        /\ OnlyFirstHasRead(Ended(d))
    BY <1>4, SetupCommandFacts DEF SetupUpEnds
  <2>2. QED
    BY <1>t, <1>4, <2>1, DeployNextQueue DEF SetupUpEnds
<1>5. ASSUME NEW d \in Dirs, SetupDownEnds(d)
      PROVE  QueueInv(cmds', setup')
  <2>1. /\ Ended(d) \in CommandQueues
        /\ NoSetupCommand(Ended(d))
        /\ OnlyFirstHasRead(Ended(d))
    BY <1>5, SetupCommandFacts DEF SetupDownEnds
  <2>2. QED
    BY <1>t, <1>5, <2>1, StopNextQueue DEF SetupDownEnds
<1>6. ASSUME NEW d \in Dirs, SetupCommandFails(d)
      PROVE  QueueInv(cmds', setup')
  <2>1. NoSetupCommand(Ended(d)) /\ OnlyFirstHasRead(Ended(d))
    BY <1>6, SetupCommandFacts DEF SetupCommandFails
  <2>2. QED
    BY <1>6, <2>1, NoSetupCommandSuffices DEF SetupCommandFails
<1>7. ASSUME StartHealthCheck
      PROVE  QueueInv(cmds', setup')
  <2>1. Configured(config) \in SUBSET Dirs
    BY DEF Configured
  <2>2. QED
    BY <1>t, <1>7, <2>1, CheckNextQueue DEF StartHealthCheck
<1>8. ASSUME NEW d \in Dirs, PsEnds(d)
      PROVE  QueueInv(cmds', setup')
  BY <1>e, <1>r, <1>o, <1>8 DEF PsEnds, Running
<1>9. ASSUME InspectEnds
      PROVE  QueueInv(cmds', setup')
  BY <1>t, <1>r, <1>o, <1>9, CheckNextQueue DEF InspectEnds
<1>10. ASSUME NEW d \in Dirs, CheckFails(d)
       PROVE  QueueInv(cmds', setup')
  BY <1>t, <1>e, <1>r, <1>o, <1>10 DEF CheckFails, Running
<1>11. ASSUME NEW d \in Dirs, RepairEnds(d) \/ RepairFails(d)
       PROVE  QueueInv(cmds', setup')
  BY <1>t, <1>e, <1>11, CheckNextQueue DEF RepairEnds, RepairFails, Running
<1>12. ASSUME NEW d \in Dirs, ContainerFails(d)
       PROVE  QueueInv(cmds', setup')
  BY <1>12 DEF ContainerFails
<1>13. ASSUME NEW d \in Dirs, ReadFiles(d)
       PROVE  QueueInv(cmds', setup')
  <2>1. /\ \A e \in Dirs : e # d => cmds'[e] = cmds[e]
        /\ Len(cmds'[d]) = Len(cmds[d])
        /\ Len(cmds[d]) \in Nat \ {0}
        /\ \A i \in 2 .. Len(cmds[d]) : cmds'[d][i] = cmds[d][i]
        /\ cmds'[d][1] = [cmds[d][1] EXCEPT !.files = disk[d]]
        /\ cmds[d][1] \in Commands
    BY <1>t, <1>13, ReadEffect DEF ReadFiles
  <2>2. setup' = setup
    BY <1>13 DEF ReadFiles
  <2>3. cmds'[d][1].by = cmds[d][1].by /\ cmds'[d][1].op = cmds[d][1].op
    BY <2>1 DEF Commands
  <2>4. \A i \in 1 .. Len(cmds[d]) :
           cmds'[d][i].by = cmds[d][i].by /\ cmds'[d][i].op = cmds[d][i].op
    <3> SUFFICES ASSUME NEW i \in 1 .. Len(cmds[d])
                 PROVE  cmds'[d][i].by = cmds[d][i].by /\ cmds'[d][i].op = cmds[d][i].op
      OBVIOUS
    <3>1. CASE i = 1
      BY <2>3, <3>1
    <3>2. CASE i # 1
      <4>1. i \in 2 .. Len(cmds[d])
        BY <2>1, <3>2
      <4>2. QED
        BY <2>1, <4>1
    <3>3. QED
      BY <3>1, <3>2
  <2>5. \A e \in Dirs : /\ Len(cmds'[e]) = Len(cmds[e])
                       /\ \A i \in 1 .. Len(cmds[e]) :
                             /\ cmds'[e][i].by = cmds[e][i].by
                             /\ cmds'[e][i].op = cmds[e][i].op
    BY <2>1, <2>4
  <2>6. SetupCommandsMatch(cmds', setup')
    BY <2>2, <2>5 DEF QueueInv, SetupCommandsMatch, IsUp
  <2>7. OneSetupCommand(cmds')
    BY <2>5 DEF QueueInv, OneSetupCommand
  <2>8. OnlyFirstHasRead(cmds')
    BY <2>1 DEF QueueInv, OnlyFirstHasRead
  <2>9. QED
    BY <2>6, <2>7, <2>8 DEF QueueInv
<1>14. CASE UNCHANGED vars
  BY <1>14 DEF vars
<1>15. QED
  BY <1>1, <1>2, <1>3, <1>4, <1>5, <1>6, <1>7, <1>8, <1>9, <1>10, <1>11, <1>12,
     <1>13, <1>14 DEF Next

-----------------------------------------------------------------------------
(***************************************************************************)
(* The last configuration wins                                             *)
(*                                                                         *)
(* The last configuration is the last in the queue or, when the queue is   *)
(* empty, the one being set up.  A set-up has written the files of every   *)
(* configured directory it does not still have to look at.                 *)
(***************************************************************************)
Written(c, dsk, rest) == \A d \in Configured(c) \ rest : dsk[d] = c[d]

Progress(st, dsk) ==
    st.phase # "idle" =>
        Written(st.config, dsk, IF st.phase = "deploying" THEN st.todo ELSE {})

LastIsQueued ==
    /\ queue # <<>> => queue[Len(queue)] = config
    /\ queue = <<>> /\ setup.phase # "idle" => setup.config = config

SetupInv == LastIsQueued /\ Progress(setup, disk) /\ LastConfigWins

\* How a step of a set-up of c leaves it.
SetUpSoFar(c) ==
    /\ setup'.phase # "idle" => setup'.config = c /\ Progress(setup', disk')
    /\ setup'.phase = "idle" => Written(c, disk', {})

LEMMA StopNextProgress ==
    ASSUME NEW c, NEW todo, NEW q, Written(c, disk, {}), StopNext(c, todo, q)
    PROVE  SetUpSoFar(c)
<1>1. disk' = disk
  BY DEF StopNext
<1>2. setup'.phase # "idle" => setup'.phase = "stopping" /\ setup'.config = c
  BY DEF StopNext, NoSetup
<1>3. QED
  BY <1>1, <1>2 DEF SetUpSoFar, Progress

\* The directories are written in order: those before the first that has to
\* be changed are as they should be.
LEMMA DeployNextProgress ==
    ASSUME TypeOK, NEW c, NEW todo \in SUBSET Dirs, NEW q,
           Written(c, disk, todo), DeployNext(c, todo, q)
    PROVE  SetUpSoFar(c)
<1>1. CASE Outdated(c, todo) = {} /\ StopNext(c, Removed(c), q)
  <2>1. Written(c, disk, {})
    BY <1>1 DEF Outdated, Written
  <2>2. QED
    BY <1>1, <2>1, StopNextProgress
<1>2. ASSUME NEW d \in Dirs,
             IsFirst(d, Outdated(c, todo)),
             disk' = [disk EXCEPT ![d] = c[d]],
             setup' = [phase |-> "deploying", config |-> c, dir |-> d, todo |-> After(todo, d)]
      PROVE  SetUpSoFar(c)
  <2>1. Written(c, disk', After(todo, d))
    <3> SUFFICES ASSUME NEW e \in Configured(c), e \notin After(todo, d)
                 PROVE  disk'[e] = c[e]
      BY DEF Written
    <3>1. e \in Dirs /\ e \in Nat /\ d \in Nat
      BY DirsAssumption DEF Configured
    <3>2. disk'[e] = IF e = d THEN c[d] ELSE disk[e]
      BY <1>2, <3>1, TypeUnfolded
    <3>3. CASE e = d
      BY <3>2, <3>3
    <3>4. CASE e # d /\ e \in todo
      <4>1. ~ (d <= e)
        BY <3>1, <3>4 DEF After
      <4>2. e \notin Outdated(c, todo)
        BY <1>2, <4>1 DEF IsFirst
      <4>3. QED
        BY <3>2, <3>4, <4>2 DEF Outdated
    <3>5. CASE e # d /\ e \notin todo
      BY <3>2, <3>5 DEF Written
    <3>6. QED
      BY <3>3, <3>4, <3>5
  <2>2. setup'.phase = "deploying" /\ setup'.config = c /\ setup'.todo = After(todo, d)
    BY <1>2
  <2>3. QED
    BY <2>1, <2>2 DEF SetUpSoFar, Progress
<1>3. QED
  BY <1>1, <1>2 DEF DeployNext

\* A set-up of the last configuration that ends has written it.
LEMMA SetUpSoFarSuffices ==
    ASSUME NEW c, SetUpSoFar(c),
           queue' # <<>> => queue'[Len(queue')] = config',
           queue' = <<>> => c = config'
    PROVE  SetupInv'
<1>1. LastIsQueued'
  BY DEF SetUpSoFar, LastIsQueued
<1>2. Progress(setup, disk)'
  BY DEF SetUpSoFar, Progress
<1>3. LastConfigWins'
  BY DEF SetUpSoFar, LastConfigWins, Drained, Written
<1>4. QED
  BY <1>1, <1>2, <1>3 DEF SetupInv

LEMMA SetupStep ==
    ASSUME TypeOK, QueueInv(cmds, setup), SetupInv, [Next]_vars
    PROVE  SetupInv'
<1> USE DEF CommandEnds
<1>t. queue \in Seq(Configs) /\ setup.todo \in SUBSET Dirs
  BY TypeUnfolded DEF SetupTypeOK, Dirs
<1>1. ASSUME NEW c \in Configs, ApplyConfig(c)
      PROVE  SetupInv'
  <2>1. queue' # <<>> /\ queue'[Len(queue')] = config'
    BY <1>t, <1>1 DEF ApplyConfig, Queued
  <2>2. setup' = setup /\ disk' = disk
    BY <1>1 DEF ApplyConfig
  <2>3. QED
    BY <2>1, <2>2 DEF SetupInv, LastIsQueued, Progress, LastConfigWins, Drained
<1>2. ASSUME RestartDaemon
      PROVE  SetupInv'
  <2>1. queue' # <<>> /\ queue'[Len(queue')] = config' /\ setup'.phase = "idle"
    BY <1>2 DEF RestartDaemon, NoSetup
  <2>2. QED
    BY <2>1 DEF SetupInv, LastIsQueued, Progress, LastConfigWins, Drained
<1>3. ASSUME StartSetup
      PROVE  SetupInv'
  <2>1. Written(Head(queue), disk, Configured(Head(queue)))
    BY DEF Written
  <2>2. Configured(Head(queue)) \in SUBSET Dirs
    BY DEF Configured
  <2>3. SetUpSoFar(Head(queue))
    BY <1>3, <2>1, <2>2, DeployNextProgress DEF StartSetup
  <2>4. queue # <<>> /\ queue' = Tail(queue) /\ config' = config
    BY <1>3 DEF StartSetup
  <2>5. queue[Len(queue)] = config
    BY <2>4 DEF SetupInv, LastIsQueued
  <2>6. queue' # <<>> => queue'[Len(queue')] = config'
    BY <1>t, <2>4, <2>5
  <2>7. queue' = <<>> => Head(queue) = config'
    <3>1. Head(queue) = queue[1] /\ Len(Tail(queue)) = Len(queue) - 1 /\ Len(queue) \in Nat
      BY <1>t, <2>4
    <3>2. queue' = <<>> => Len(queue) = 1
      BY <2>4, <3>1
    <3>3. QED
      BY <2>4, <2>5, <3>1, <3>2
  <2>8. QED
    BY <2>3, <2>6, <2>7, SetUpSoFarSuffices
<1>4. ASSUME NEW d \in Dirs, SetupUpEnds(d)
      PROVE  SetupInv'
  <2>1. setup.phase = "deploying"
    BY <1>4, SetupCommandFacts DEF SetupUpEnds, IsUp
  <2>2. Written(setup.config, disk, setup.todo)
    BY <2>1 DEF SetupInv, Progress
  <2>3. SetUpSoFar(setup.config)
    BY <1>t, <1>4, <2>2, DeployNextProgress DEF SetupUpEnds
  <2>4. queue' = queue /\ config' = config
    BY <1>4 DEF SetupUpEnds
  <2>5. QED
    BY <2>1, <2>3, <2>4, SetUpSoFarSuffices DEF SetupInv, LastIsQueued
<1>5. ASSUME NEW d \in Dirs, SetupDownEnds(d)
      PROVE  SetupInv'
  <2>1. setup.phase = "stopping"
    BY <1>5, SetupCommandFacts DEF SetupDownEnds, IsUp
  <2>2. Written(setup.config, disk, {})
    BY <2>1 DEF SetupInv, Progress
  <2>3. SetUpSoFar(setup.config)
    BY <1>5, <2>2, StopNextProgress DEF SetupDownEnds
  <2>4. queue' = queue /\ config' = config
    BY <1>5 DEF SetupDownEnds
  <2>5. QED
    BY <2>1, <2>3, <2>4, SetUpSoFarSuffices DEF SetupInv, LastIsQueued
<1>6. ASSUME NEW d \in Dirs, SetupCommandFails(d)
      PROVE  SetupInv'
  <2>1. setup'.phase = "idle" /\ succeeded' = FALSE /\ queue' = queue /\ config' = config
    BY <1>6 DEF SetupCommandFails, AbortedSetup, NoSetup
  <2>2. QED
    BY <2>1 DEF SetupInv, LastIsQueued, Progress, LastConfigWins
<1>7. ASSUME UNCHANGED <<disk, config, queue, setup, succeeded>>
      PROVE  SetupInv'
  BY <1>7 DEF SetupInv, LastIsQueued, Progress, Written, LastConfigWins, Drained
<1>8. QED
  BY <1>1, <1>2, <1>3, <1>4, <1>5, <1>6, <1>7
     DEF Next, vars, StartHealthCheck, InspectEnds, PsEnds, RepairEnds, CheckFails,
         RepairFails, ContainerFails, ReadFiles, ComposeReads

\* Init establishes, and every step keeps, what the last configuration needs.
LEMMA InvInit ==
    ASSUME Init
    PROVE  QueueInv(cmds, setup) /\ SetupInv
<1>1. \A d \in Dirs : cmds[d] = <<>> /\ Len(cmds[d]) = 0
  BY DEF Init, ComposeInit
<1>2. QueueInv(cmds, setup)
  BY <1>1 DEF QueueInv, SetupCommandsMatch, OneSetupCommand, OnlyFirstHasRead
<1>3. queue # <<>> /\ queue[Len(queue)] = config /\ setup.phase = "idle"
  BY DEF Init, NoSetup
<1>4. SetupInv
  BY <1>3 DEF SetupInv, LastIsQueued, Progress, LastConfigWins, Drained
<1>5. QED
  BY <1>2, <1>4

\* When the last set-up has succeeded and none is left, the files of every
\* configured service are those of the last configuration.
THEOREM LastConfigurationWins == Spec => []LastConfigWins
<1> DEFINE Inv == QueueInv(cmds, setup) /\ SetupInv
<1>1. Init => Inv
  BY InvInit
<1>2. TypeOK /\ Inv /\ [Next]_vars => Inv'
  BY QueueStep, SetupStep
<1>3. Inv => LastConfigWins
  BY DEF SetupInv
<1> HIDE DEF Inv
<1>4. QED
  BY <1>1, <1>2, <1>3, TypeCorrect, PTL DEF Spec

-----------------------------------------------------------------------------
(***************************************************************************)
(* No container is stale                                                   *)
(*                                                                         *)
(* A container runs, and an `up' has read, the files its directory has     *)
(* now, unless the directory is excused: it is the one that the set-up has *)
(* just written, or an earlier update of it was cut off.                   *)
(***************************************************************************)
Excused(cut, st) == cut \cup (IF st.phase = "deploying" THEN {st.dir} ELSE {})

FreshContainers(ctr, dsk, ex) ==
    \A d \in Dirs : ctr[d] # NoContainer => ctr[d].version = dsk[d] \/ d \in ex

FreshReads(q, dsk, ex) ==
    \A d \in Dirs : q[d] # <<>> =>
        \/ q[d][1].files \in {NoFiles, dsk[d]}
        \/ q[d][1].by = "health" /\ d \in ex

FreshInv ==
    /\ FreshContainers(container, disk, Excused(interrupted, setup))
    /\ FreshReads(cmds, disk, Excused(interrupted, setup))

\* A command is queued unread, behind the one that runs.
LEMMA EnqueueFresh ==
    ASSUME NEW q \in CommandQueues, NEW d \in Dirs, NEW op \in Ops,
           NEW by \in {"setup", "health"}, NEW dsk, NEW ex, FreshReads(q, dsk, ex)
    PROVE  FreshReads(Enqueue(q, d, op, by), dsk, ex)
<1> DEFINE r == Enqueue(q, d, op, by)
           cmd == [op |-> op, by |-> by, files |-> NoFiles]
<1>1. Grown(r, q, d, cmd)
  BY EnqueueEffect
<1>2. cmd.files = NoFiles
  OBVIOUS
<1> HIDE DEF r, cmd
<1>3. ASSUME NEW e \in Dirs, r[e] # <<>>
      PROVE  \/ r[e][1].files \in {NoFiles, dsk[e]}
             \/ r[e][1].by = "health" /\ e \in ex
  <2>1. CASE e # d
    BY <1>1, <1>3, <2>1 DEF Grown, FreshReads
  <2>2. CASE e = d /\ q[d] = <<>>
    <3>1. Len(q[d]) = 0
      BY <2>2
    <3>2. r[d][1] = cmd
      BY <1>1, <3>1 DEF Grown
    <3>3. QED
      BY <1>2, <2>2, <3>2
  <2>3. CASE e = d /\ q[d] # <<>>
    <3>1. q[d] \in Seq(Commands)
      BY DEF CommandQueues
    <3>2. 1 \in 1 .. Len(q[d])
      BY <2>3, <3>1
    <3>3. r[d][1] = q[d][1]
      BY <1>1, <3>2 DEF Grown
    <3>4. QED
      BY <2>3, <3>3 DEF FreshReads
  <2>4. QED
    BY <2>1, <2>2, <2>3
<1>4. QED
  BY <1>3 DEF FreshReads, r

\* The command after the one that has ended has read nothing.
LEMMA EndedFresh ==
    ASSUME cmds \in CommandQueues, NEW d \in Dirs, cmds[d] # <<>>,
           OnlyFirstHasRead(cmds), NEW dsk, NEW ex, NEW less,
           FreshReads(cmds, dsk, ex), ex \ {d} \subseteq less
    PROVE  FreshReads(Ended(d), dsk, less)
<1>1. \A e \in Dirs : e # d => Ended(d)[e] = cmds[e]
  BY EndedEffect
<1>2. ASSUME Ended(d)[d] # <<>>
      PROVE  Ended(d)[d][1].files = NoFiles
  <2>1. Len(cmds[d]) \in Nat \ {0} /\ Len(Ended(d)[d]) = Len(cmds[d]) - 1
    BY EndedEffect
  <2>2. Ended(d)[d] \in Seq(Commands)
    BY EndedEffect DEF CommandQueues
  <2>3. Len(Ended(d)[d]) \in Nat \ {0}
    BY <1>2, <2>2
  <2>4. 1 \in 1 .. Len(Ended(d)[d]) /\ 2 \in 2 .. Len(cmds[d])
    <3>1. \A m \in Nat \ {0}, n \in Nat \ {0} : m = n - 1 => 1 \in 1 .. m /\ 2 \in 2 .. n
      OBVIOUS
    <3>2. QED
      BY <2>1, <2>3, <3>1
  <2>5. Ended(d)[d][1] = cmds[d][2]
    BY <2>4, EndedEffect
  <2>6. QED
    BY <2>4, <2>5 DEF OnlyFirstHasRead
<1>3. QED
  BY <1>1, <1>2 DEF FreshReads

\* More may be excused.
LEMMA FreshMonotonic ==
    ASSUME NEW q, NEW ctr, NEW dsk, NEW ex, NEW more, ex \subseteq more
    PROVE  /\ FreshReads(q, dsk, ex) => FreshReads(q, dsk, more)
           /\ FreshContainers(ctr, dsk, ex) => FreshContainers(ctr, dsk, more)
BY DEF FreshReads, FreshContainers

\* What a set-up writes, it excuses.
LEMMA StopNextFresh ==
    ASSUME NEW c, NEW todo \in SUBSET Dirs, NEW q \in CommandQueues, NEW ctr, NEW cut,
           FreshReads(q, disk, cut), FreshContainers(ctr, disk, cut), StopNext(c, todo, q)
    PROVE  /\ FreshContainers(ctr, disk', Excused(cut, setup'))
           /\ FreshReads(cmds', disk', Excused(cut, setup'))
<1>1. disk' = disk
  BY DEF StopNext
<1>2. FreshReads(cmds', disk, cut)
  <2>1. \A d \in todo : FreshReads(Enqueue(q, d, "down", "setup"), disk, cut)
    BY EnqueueFresh DEF Ops
  <2>2. QED
    BY <2>1 DEF StopNext
<1>3. cut \subseteq Excused(cut, setup')
  BY DEF Excused
<1>4. QED
  BY <1>1, <1>2, <1>3, FreshMonotonic

LEMMA DeployNextFresh ==
    ASSUME TypeOK, NEW c, NEW todo \in SUBSET Dirs, NEW q \in CommandQueues, NEW ctr,
           NEW cut, NoSetupCommand(q),
           FreshReads(q, disk, cut), FreshContainers(ctr, disk, cut),
           DeployNext(c, todo, q)
    PROVE  /\ FreshContainers(ctr, disk', Excused(cut, setup'))
           /\ FreshReads(cmds', disk', Excused(cut, setup'))
<1>1. CASE StopNext(c, Removed(c), q)
  <2>1. Removed(c) \in SUBSET Dirs
    BY DEF Removed, Dirs
  <2>2. QED
    BY <1>1, <2>1, StopNextFresh
<1>2. ASSUME NEW d \in Dirs,
             disk' = [disk EXCEPT ![d] = c[d]],
             cmds' = Enqueue(q, d, IF d = Etcd THEN "up" ELSE "recreate", "setup"),
             setup' = [phase |-> "deploying", config |-> c, dir |-> d, todo |-> After(todo, d)]
      PROVE  /\ FreshContainers(ctr, disk', Excused(cut, setup'))
             /\ FreshReads(cmds', disk', Excused(cut, setup'))
  <2> DEFINE ex == Excused(cut, setup')
  <2>1. d \in ex /\ cut \subseteq ex
    BY <1>2 DEF Excused
  <2>2. \A e \in Dirs : e # d => disk'[e] = disk[e]
    BY <1>2, TypeUnfolded
  <2> HIDE DEF ex
  <2>3. FreshContainers(ctr, disk', ex)
    BY <2>1, <2>2 DEF FreshContainers
  <2>4. FreshReads(q, disk', ex)
    <3> SUFFICES ASSUME NEW e \in Dirs, q[e] # <<>>
                 PROVE  \/ q[e][1].files \in {NoFiles, disk'[e]}
                        \/ q[e][1].by = "health" /\ e \in ex
      BY DEF FreshReads
    <3>1. q[e] \in Seq(Commands)
      BY DEF CommandQueues
    <3>2. q[e][1] \in Commands /\ 1 \in 1 .. Len(q[e])
      BY <3>1
    <3>3. q[e][1].by = "health"
      BY <3>2 DEF NoSetupCommand, Commands
    <3>4. QED
      BY <2>1, <2>2, <3>3 DEF FreshReads
  <2>5. (IF d = Etcd THEN "up" ELSE "recreate") \in Ops
    BY DEF Ops
  <2>6. FreshReads(cmds', disk', ex)
    BY <1>2, <2>4, <2>5, EnqueueFresh
  <2>7. QED
    BY <2>3, <2>6 DEF ex
<1>3. QED
  BY <1>1, <1>2 DEF DeployNext

LEMMA CheckNextFresh ==
    ASSUME NEW todo \in SUBSET Dirs, NEW q \in CommandQueues, NEW dsk, NEW ex,
           FreshReads(q, dsk, ex), CheckNext(todo, q)
    PROVE  FreshReads(cmds', dsk, ex)
<1>1. \A d \in Dirs : FreshReads(Enqueue(q, d, "ps", "health"), dsk, ex)
  BY EnqueueFresh DEF Ops
<1>2. QED
  BY <1>1 DEF CheckNext

LEMMA UpFresh ==
    ASSUME TypeOK, NEW d \in Dirs, cmds[d] # <<>>, UpTakesEffect(d),
           NEW ex, FreshContainers(container, disk, ex), FreshReads(cmds, disk, ex)
    PROVE  /\ FreshContainers(container', disk, ex)
           /\ \/ /\ UNCHANGED container
                 /\ Head(cmds[d]).op = "up"
                 /\ d = Etcd => container[d].version = Head(cmds[d]).files
              \/ container'[d].version = Head(cmds[d]).files
           /\ \A e \in Dirs : e # d => container'[e] = container[e]
           /\ Head(cmds[d]).files # NoFiles
<1> DEFINE new == [version |-> Head(cmds[d]).files, status |-> "healthy"]
<1>1. Head(cmds[d]) = cmds[d][1]
  BY TypeUnfolded, EndedEffect
<1>2. Head(cmds[d]).files # NoFiles
  BY DEF UpTakesEffect
<1>3. CASE container' = [container EXCEPT ![d] = new]
  <2>1. container'[d] = new /\ \A e \in Dirs : e # d => container'[e] = container[e]
    BY <1>3, TypeUnfolded
  <2>2. container'[d].version = cmds[d][1].files
    BY <1>1, <2>1
  <2>3. cmds[d][1].files = disk[d] \/ d \in ex
    BY <1>1, <1>2 DEF FreshReads
  <2> HIDE DEF new
  <2>4. FreshContainers(container', disk, ex)
    BY <2>1, <2>2, <2>3 DEF FreshContainers
  <2>5. QED
    BY <1>1, <1>2, <2>1, <2>2, <2>4
<1>4. CASE UNCHANGED container /\ Head(cmds[d]).op = "up" /\ MayKeep(d, Head(cmds[d]).files)
  BY <1>2, <1>4 DEF MayKeep
<1>5. QED
  BY <1>3, <1>4 DEF UpTakesEffect

\* The set-up's own command has read what the set-up wrote.
LEMMA SetupUpFresh ==
    ASSUME TypeOK, QueueInv(cmds, setup), FreshInv, NEW d \in Dirs,
           Running(d, {"up", "recreate"}, "setup"), UpTakesEffect(d)
    PROVE  /\ FreshContainers(container', disk, interrupted \ {d})
           /\ FreshReads(Ended(d), disk, interrupted \ {d})
<1>1. /\ cmds[d] # <<>>
      /\ Head(cmds[d]) = cmds[d][1]
      /\ cmds[d][1].by = "setup"
      /\ cmds[d][1].op = "up" => d = Etcd
      /\ setup.dir = d
  BY SetupCommandFacts
<1>2. Excused(interrupted, setup) \ {d} \subseteq interrupted \ {d}
  BY <1>1 DEF Excused
<1>3. cmds[d][1].files = disk[d]
  BY <1>1, UpFresh DEF FreshInv, FreshReads
<1>4. container'[d].version = disk[d] /\ \A e \in Dirs : e # d => container'[e] = container[e]
  BY <1>1, <1>3, UpFresh DEF FreshInv
<1>5. FreshContainers(container', disk, interrupted \ {d})
  BY <1>2, <1>4 DEF FreshInv, FreshContainers
<1>6. FreshReads(Ended(d), disk, interrupted \ {d})
  BY <1>1, <1>2, EndedFresh, TypeUnfolded DEF QueueInv, FreshInv
<1>7. QED
  BY <1>5, <1>6

\* Removing a container makes none stale.
LEMMA DownFresh ==
    ASSUME TypeOK, NEW d \in Dirs, DownTakesEffect(d), NEW dsk, NEW ex,
           FreshContainers(container, dsk, ex)
    PROVE  FreshContainers(container', dsk, ex)
<1>1. container'[d] = NoContainer /\ \A e \in Dirs : e # d => container'[e] = container[e]
  BY TypeUnfolded DEF DownTakesEffect
<1>2. QED
  BY <1>1 DEF FreshContainers

\* What a command that is cut off leaves is no staler than what it has read.
LEMMA LeftOverFresh ==
    ASSUME TypeOK, NEW d \in Dirs, NEW dsk, NEW ex, NEW left \in LeftOver(d),
           FreshContainers(container, dsk, ex), FreshReads(cmds, dsk, ex)
    PROVE  d \in ex \/ left = NoContainer \/ left.version = dsk[d]
<1>1. CASE left = container[d] \/ left = NoContainer
  BY <1>1 DEF FreshContainers
<1>2. ASSUME NEW cmd \in RunningIn(d), cmd.files # NoFiles, left.version = cmd.files
      PROVE  d \in ex \/ left.version = dsk[d]
  <2>1. cmds[d] # <<>> /\ cmd = Head(cmds[d])
    BY DEF RunningIn
  <2>2. cmd = cmds[d][1]
    BY <2>1, EndedEffect, TypeUnfolded
  <2>3. QED
    BY <1>2, <2>1, <2>2 DEF FreshReads
<1>3. QED
  BY <1>1, <1>2 DEF LeftOver

LEMMA FailureFresh ==
    ASSUME TypeOK, NEW d \in Dirs, FailureTakesEffect(d), NEW dsk, NEW ex,
           FreshContainers(container, dsk, ex), FreshReads(cmds, dsk, ex)
    PROVE  FreshContainers(container', dsk, ex)
<1>1. PICK left \in LeftOver(d) : container' = [container EXCEPT ![d] = left]
  BY DEF FailureTakesEffect
<1>2. container'[d] = left /\ \A e \in Dirs : e # d => container'[e] = container[e]
  BY <1>1, TypeUnfolded
<1>3. d \in ex \/ left = NoContainer \/ left.version = dsk[d]
  BY LeftOverFresh
<1>4. QED
  BY <1>2, <1>3 DEF FreshContainers

LEMMA FreshStep ==
    ASSUME TypeOK, QueueInv(cmds, setup), FreshInv, [Next]_vars
    PROVE  FreshInv'
<1> USE DEF CommandEnds
<1> DEFINE ex == Excused(interrupted, setup)
<1>t. /\ cmds \in CommandQueues
      /\ disk \in [Dirs -> Versions \cup {NoFiles}]
      /\ container \in [Dirs -> Containers \cup {NoContainer}]
      /\ setup.todo \in SUBSET Dirs
      /\ health.todo \in SUBSET Dirs /\ health.dir \in Dirs
  BY TypeUnfolded DEF SetupTypeOK, HealthTypeOK, Dirs
<1>f. FreshContainers(container, disk, ex) /\ FreshReads(cmds, disk, ex)
  BY DEF FreshInv
<1>e. \A d \in Dirs : cmds[d] # <<>> =>
         Ended(d) \in CommandQueues /\ FreshReads(Ended(d), disk, ex)
  BY <1>t, <1>f, EndedEffect, EndedFresh DEF QueueInv
<1>r. \A d \in Dirs, op \in Ops, q \in CommandQueues :
         FreshReads(q, disk, ex) /\ Repair(d, op, q) => FreshReads(cmds', disk, ex)
  BY EnqueueFresh DEF Repair
<1>o. "up" \in Ops /\ "recreate" \in Ops
  BY DEF Ops
<1>s. ASSUME disk' = disk, setup' = setup, interrupted' = interrupted,
             FreshContainers(container', disk, ex), FreshReads(cmds', disk, ex)
      PROVE  FreshInv'
  BY <1>s DEF FreshInv
<1> HIDE DEF ex
<1>1. ASSUME NEW c \in Configs, ApplyConfig(c)
      PROVE  FreshInv'
  BY <1>f, <1>s, <1>1 DEF ApplyConfig
<1>2. ASSUME RestartDaemon
      PROVE  FreshInv'
  <2>1. Excused(interrupted', setup') = ex
    BY <1>2 DEF RestartDaemon, Excused, NoSetup, ex
  <2>2. FreshReads(cmds', disk, ex)
    BY <1>2 DEF RestartDaemon, FreshReads
  <2>3. \A d \in Dirs : container'[d] \in LeftOver(d)
    BY <1>2 DEF RestartDaemon, KillsTakeEffect
  <2>4. FreshContainers(container', disk, ex)
    BY <1>f, <2>3, LeftOverFresh DEF FreshContainers
  <2>5. QED
    BY <1>2, <2>1, <2>2, <2>4 DEF RestartDaemon, FreshInv
<1>3. ASSUME StartSetup
      PROVE  FreshInv'
  <2>1. NoSetupCommand(cmds)
    BY <1>3 DEF StartSetup, QueueInv, SetupCommandsMatch, NoSetupCommand
  <2>2. Configured(Head(queue)) \in SUBSET Dirs
    BY DEF Configured
  <2>3. ex = interrupted
    BY <1>3 DEF StartSetup, Excused, ex
  <2>4. /\ FreshContainers(container, disk', Excused(interrupted, setup'))
        /\ FreshReads(cmds', disk', Excused(interrupted, setup'))
    BY <1>t, <1>f, <1>3, <2>1, <2>2, <2>3, DeployNextFresh DEF StartSetup
  <2>5. QED
    BY <1>3, <2>4 DEF StartSetup, FreshInv
<1>4. ASSUME NEW d \in Dirs, SetupUpEnds(d)
      PROVE  FreshInv'
  <2>1. Ended(d) \in CommandQueues /\ NoSetupCommand(Ended(d))
    BY <1>4, SetupCommandFacts DEF SetupUpEnds
  <2>2. /\ FreshContainers(container', disk, interrupted')
        /\ FreshReads(Ended(d), disk, interrupted')
    BY <1>4, SetupUpFresh DEF SetupUpEnds
  <2>3. DeployNext(setup.config, setup.todo, Ended(d))
    BY <1>4 DEF SetupUpEnds
  <2>4. /\ FreshContainers(container', disk', Excused(interrupted', setup'))
        /\ FreshReads(cmds', disk', Excused(interrupted', setup'))
    BY <1>t, <2>1, <2>2, <2>3, DeployNextFresh
  <2>5. QED
    BY <2>4 DEF FreshInv
<1>5. ASSUME NEW d \in Dirs, SetupDownEnds(d)
      PROVE  FreshInv'
  <2>1. cmds[d] # <<>> /\ setup.phase = "stopping"
    BY <1>5, SetupCommandFacts DEF SetupDownEnds, IsUp
  <2>2. ex = interrupted
    BY <2>1 DEF Excused, ex
  <2>3. FreshContainers(container', disk, interrupted)
    BY <1>f, <1>5, <2>2, DownFresh DEF SetupDownEnds
  <2>4. Ended(d) \in CommandQueues /\ FreshReads(Ended(d), disk, interrupted)
    BY <1>e, <2>1, <2>2
  <2>5. StopNext(setup.config, setup.todo, Ended(d)) /\ interrupted' = interrupted
    BY <1>5 DEF SetupDownEnds
  <2>6. /\ FreshContainers(container', disk', Excused(interrupted, setup'))
        /\ FreshReads(cmds', disk', Excused(interrupted, setup'))
    BY <1>t, <2>3, <2>4, <2>5, StopNextFresh
  <2>7. QED
    BY <2>5, <2>6 DEF FreshInv
<1>6. ASSUME NEW d \in Dirs, SetupCommandFails(d)
      PROVE  FreshInv'
  <2>1. /\ cmds[d] # <<>>
        /\ Head(cmds[d]) = cmds[d][1]
        /\ setup.dir = d
        /\ IsUp(cmds[d][1]) => setup.phase = "deploying"
        /\ ~ IsUp(cmds[d][1]) => setup.phase = "stopping"
    BY <1>6, SetupCommandFacts DEF SetupCommandFails
  <2>2. Excused(interrupted', setup') = ex
    BY <1>6, <2>1 DEF SetupCommandFails, AbortedSetup, NoSetup, Excused, ex
  <2>3. FreshContainers(container', disk, ex)
    BY <1>f, <1>6, FailureFresh DEF SetupCommandFails
  <2>4. cmds' = Ended(d) /\ disk' = disk
    BY <1>6 DEF SetupCommandFails
  <2>5. QED
    BY <1>e, <2>1, <2>2, <2>3, <2>4 DEF FreshInv
<1>7. ASSUME StartHealthCheck
      PROVE  FreshInv'
  <2>1. Configured(config) \in SUBSET Dirs
    BY DEF Configured
  <2>2. FreshReads(cmds', disk, ex)
    BY <1>t, <1>f, <1>7, <2>1, CheckNextFresh DEF StartHealthCheck
  <2>3. QED
    BY <1>f, <1>s, <1>7, <2>2 DEF StartHealthCheck
<1>8. ASSUME NEW d \in Dirs, PsEnds(d)
      PROVE  FreshInv'
  <2>1. FreshReads(cmds', disk, ex)
    BY <1>e, <1>r, <1>o, <1>8 DEF PsEnds, Running
  <2>2. QED
    BY <1>f, <1>s, <1>8, <2>1 DEF PsEnds
<1>9. ASSUME InspectEnds
      PROVE  FreshInv'
  <2>1. FreshReads(cmds', disk, ex)
    BY <1>t, <1>f, <1>r, <1>o, <1>9, CheckNextFresh DEF InspectEnds
  <2>2. QED
    BY <1>f, <1>s, <1>9, <2>1 DEF InspectEnds
<1>10. ASSUME NEW d \in Dirs, CheckFails(d)
       PROVE  FreshInv'
  <2>1. FreshReads(cmds', disk, ex)
    BY <1>t, <1>f, <1>e, <1>r, <1>o, <1>10 DEF CheckFails, Running
  <2>2. QED
    BY <1>f, <1>s, <1>10, <2>1 DEF CheckFails
<1>11. ASSUME NEW d \in Dirs, RepairEnds(d) \/ RepairFails(d)
       PROVE  FreshInv'
  <2>1. cmds[d] # <<>>
    BY <1>11 DEF RepairEnds, RepairFails, Running
  <2>2. FreshReads(cmds', disk, ex)
    BY <1>t, <1>e, <1>11, <2>1, CheckNextFresh DEF RepairEnds, RepairFails
  <2>3. FreshContainers(container', disk, ex)
    BY <1>f, <1>11, <2>1, UpFresh, FailureFresh DEF RepairEnds, RepairFails
  <2>4. QED
    BY <1>s, <1>11, <2>2, <2>3 DEF RepairEnds, RepairFails
<1>12. ASSUME NEW d \in Dirs, ContainerFails(d)
       PROVE  FreshInv'
  <2>1. \A e \in Dirs : e # d => container'[e] = container[e]
    BY <1>t, <1>12 DEF ContainerFails
  <2>2. container'[d] # NoContainer => container'[d].version = container[d].version
    BY <1>t, <1>12 DEF ContainerFails, Containers
  <2>3. container[d] # NoContainer
    BY <1>12 DEF ContainerFails
  <2>4. FreshContainers(container', disk, ex)
    BY <1>f, <2>1, <2>2, <2>3 DEF FreshContainers
  <2>5. QED
    BY <1>f, <1>s, <1>12, <2>4 DEF ContainerFails
<1>13. ASSUME NEW d \in Dirs, ReadFiles(d)
       PROVE  FreshInv'
  <2>1. /\ \A e \in Dirs : e # d => cmds'[e] = cmds[e]
        /\ cmds'[d][1] = [cmds[d][1] EXCEPT !.files = disk[d]]
        /\ cmds[d][1] \in Commands
    BY <1>t, <1>13, ReadEffect DEF ReadFiles
  <2>2. cmds'[d][1].files = disk[d]
    BY <2>1 DEF Commands
  <2>3. FreshReads(cmds', disk, ex)
    BY <1>f, <2>1, <2>2 DEF FreshReads
  <2>4. QED
    BY <1>f, <1>s, <1>13, <2>3 DEF ReadFiles, ComposeReads
<1>14. CASE UNCHANGED vars
  BY <1>f, <1>s, <1>14 DEF vars
<1>15. QED
  BY <1>1, <1>2, <1>3, <1>4, <1>5, <1>6, <1>7, <1>8, <1>9, <1>10, <1>11, <1>12,
     <1>13, <1>14 DEF Next

\* When the last set-up has succeeded and none is left, no configured service
\* runs an older version of its files, unless its own last update was cut off.
THEOREM ContainersAreFresh == Spec => []NoStaleContainer
<1> DEFINE Inv == QueueInv(cmds, setup) /\ SetupInv /\ FreshInv
<1>1. Init => Inv
  <2> SUFFICES ASSUME Init PROVE FreshInv
    BY InvInit
  <2>1. \A d \in Dirs : container[d] = NoContainer /\ cmds[d] = <<>>
    BY DEF Init, ComposeInit
  <2>2. QED
    BY <2>1 DEF FreshInv, FreshContainers, FreshReads
<1>2. TypeOK /\ Inv /\ [Next]_vars => Inv'
  BY QueueStep, SetupStep, FreshStep
<1>3. Inv => NoStaleContainer
  <2> SUFFICES ASSUME Inv, Drained, succeeded, NEW d \in Configured(config) \ interrupted
               PROVE  container[d] = NoContainer \/ container[d].version = config[d]
    BY DEF NoStaleContainer
  <2>1. d \in Dirs /\ disk[d] = config[d]
    BY DEF SetupInv, LastConfigWins, Configured
  <2>2. d \notin Excused(interrupted, setup)
    BY DEF Drained, Excused
  <2>3. QED
    BY <2>1, <2>2 DEF FreshInv, FreshContainers
<1> HIDE DEF Inv
<1>4. QED
  BY <1>1, <1>2, <1>3, TypeCorrect, PTL DEF Spec
=============================================================================
