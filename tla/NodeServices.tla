---------------------------- MODULE NodeServices ----------------------------
(***************************************************************************)
(* How the daemon of a node keeps its containers in line with the          *)
(* configuration: the set-ups queued by every new configuration            *)
(* (setupServices, src/cluster/serviceDeployment.ts) and the periodic      *)
(* health check (src/cluster/healthManager.ts), which meet in the command  *)
(* queues of module ComposeCommands.                                       *)
(*                                                                         *)
(* The daemon is single threaded, and what follows the end of a command is *)
(* done in the same step: its caller goes on until it waits for its next   *)
(* command.  Only the start of a queued set-up is a step of its own.       *)
(*                                                                         *)
(* The node is a replica: each configuration is a new object that nobody   *)
(* changes.  HAProxy, which only the coordinator runs, is left out, and so *)
(* is the coordinator's etcd membership work at the start of a set-up.     *)
(* Writing the files of a directory and their hash does not fail.          *)
(***************************************************************************)
EXTENDS ComposeCommands

CONSTANTS
    MaxChanges,  \* bound: the node gets this many configurations after the first
    MaxFaults    \* bound: so often a command or container fails or the daemon restarts

ASSUME BoundsAssumption == MaxChanges \in Nat /\ MaxFaults \in Nat

VARIABLES
    config,       \* config[d]: the files the node's configuration gives d
    queue,        \* the configurations waiting for set-up
    setup,        \* the set-up that is running
    succeeded,    \* history: the last set-up ended without an error
    interrupted,  \* history: directories whose files were written by a set-up
                  \* whose command then failed or was cut off
    health,       \* the health check that is running (healthCheckPromise)
    changes,      \* configurations received
    faults        \* faults so far

vars == <<disk, cmds, container, config, queue, setup, succeeded, interrupted,
          health, changes, faults>>

Configs ==
    {c \in [Dirs -> Versions \cup {NoFiles}] : c[Etcd] # NoFiles}

Configured(c) == {d \in Dirs : c[d] # NoFiles}

NoSetup == [phase |-> "idle", config |-> [d \in Dirs |-> NoFiles], dir |-> Etcd, todo |-> {}]

NoHealthCheck == [stage |-> "idle", dir |-> Etcd, todo |-> {}]

\* Among others, a set-up stops services only, never etcd.
TypeOK ==
    /\ ComposeTypeOK
    /\ config \in Configs
    /\ queue \in Seq(Configs)
    /\ setup \in
          [phase : {"idle", "deploying"}, config : Configs \cup {NoSetup.config},
           dir : Dirs, todo : SUBSET Dirs]
          \cup [phase : {"stopping"}, config : Configs \cup {NoSetup.config},
                dir : Services, todo : SUBSET Services]
    /\ succeeded \in BOOLEAN
    /\ interrupted \subseteq Dirs
    /\ health \in [stage : {"idle", "ps", "inspect", "up"}, dir : Dirs, todo : SUBSET Dirs]
    /\ changes \in 0 .. MaxChanges
    /\ faults \in 0 .. MaxFaults

\* The node has just joined: it has a configuration without services.
Init ==
    /\ ComposeInit
    /\ config \in {c \in Configs : Configured(c) = {Etcd}}
    /\ queue = <<config>>
    /\ setup = NoSetup
    /\ succeeded = FALSE
    /\ interrupted = {}
    /\ health = NoHealthCheck
    /\ changes = 0
    /\ faults = 0

Fault == faults < MaxFaults /\ faults' = faults + 1

-----------------------------------------------------------------------------
(***************************************************************************)
(* Configurations                                                          *)
(***************************************************************************)
\* Mutant: the newest configuration is set up first.
QueuedFirst(c) == <<c>> \o queue

Queued(c) == Append(queue, c)

\* applyClusterConfig, for a configuration from the coordinator: it replaces
\* the one in memory and is queued for set-up.
ApplyConfig(c) ==
    /\ changes < MaxChanges
    /\ changes' = changes + 1
    /\ config' = c
    /\ queue' = Queued(c)
    /\ UNCHANGED <<disk, cmds, container, setup, succeeded, interrupted, health, faults>>

\* The daemon restarts: its queues and everything that waited in them are
\* gone, the commands it ran are killed, wherever they have got to, and the
\* configuration it loads is set up.  Containers outlive it.
RestartDaemon ==
    /\ Fault
    /\ KillsTakeEffect
    /\ queue' = <<config>>
    /\ cmds' = [d \in Dirs |-> <<>>]
    /\ interrupted' = interrupted \cup
                         (IF setup.phase = "deploying" THEN {setup.dir} ELSE {})
    /\ setup' = NoSetup
    /\ health' = NoHealthCheck
    /\ UNCHANGED <<disk, config, succeeded, changes>>

-----------------------------------------------------------------------------
(***************************************************************************)
(* Set-up.  q is the command queues without the command that has ended.    *)
(***************************************************************************)
\* stopRemovedServices: `down' in every directory of a service that is not
\* configured, whether or not it still has a container.
StopNext(c, todo, q) ==
    \/ /\ todo = {}
       /\ setup' = NoSetup
       /\ succeeded' = TRUE
       /\ cmds' = q
       /\ UNCHANGED disk
    \/ \E d \in todo :
          /\ setup' = [phase |-> "stopping", config |-> c, dir |-> d, todo |-> todo \ {d}]
          /\ cmds' = Enqueue(q, d, "down", "setup")
          /\ UNCHANGED <<disk, succeeded>>

\* Mutant: the directory of etcd, which is not a configured service, is not
\* passed over.
RemovedWithEtcd(c) == {d \in Dirs : disk[d] # NoFiles /\ d \notin Configured(c) \cap Services}

Removed(c) == {d \in Services : disk[d] # NoFiles /\ d \notin Configured(c)}

\* The directories whose files writeServiceConfigs has to change.
Outdated(c, todo) == {d \in todo : disk[d] # c[d]}

\* The first such directory gets its files, and then their hash, before
\* `up' is run in it.
DeployNext(c, todo, q) ==
    \/ Outdated(c, todo) = {} /\ StopNext(c, Removed(c), q)
    \/ \E d \in Dirs :
       /\ IsFirst(d, Outdated(c, todo))
       /\ disk' = [disk EXCEPT ![d] = c[d]]
       /\ cmds' = Enqueue(q, d, IF d = Etcd THEN "up" ELSE "recreate", "setup")
       /\ setup' = [phase |-> "deploying", config |-> c, dir |-> d, todo |-> After(todo, d)]
       /\ UNCHANGED succeeded

StartSetup ==
    /\ setup.phase = "idle"
    /\ queue # <<>>
    /\ queue' = Tail(queue)
    /\ DeployNext(Head(queue), Configured(Head(queue)), cmds)
    /\ UNCHANGED <<container, config, interrupted, health, changes, faults>>

SetupUpEnds(d) ==
    /\ Running(d, {"up", "recreate"}, "setup")
    /\ UpTakesEffect(d)
    /\ interrupted' = interrupted \ {d}
    /\ DeployNext(setup.config, setup.todo, Ended(d))
    /\ UNCHANGED <<config, queue, health, changes, faults>>

SetupDownEnds(d) ==
    /\ setup.phase = "stopping"
    /\ Running(d, {"down"}, "setup")
    /\ DownTakesEffect(d)
    /\ StopNext(setup.config, setup.todo, Ended(d))
    /\ UNCHANGED <<config, queue, interrupted, health, changes, faults>>

\* Mutant: the error leaves the set-up unfinished.
StuckSetup == setup

AbortedSetup == NoSetup

\* The error ends the set-up, whatever it still had to do.
SetupCommandFails(d) ==
    /\ Running(d, {"up", "recreate", "down"}, "setup")
    /\ Fault
    /\ FailureTakesEffect(d)
    /\ cmds' = Ended(d)
    /\ setup' = AbortedSetup
    /\ succeeded' = FALSE
    /\ interrupted' = interrupted \cup (IF IsUp(Head(cmds[d])) THEN {d} ELSE {})
    /\ UNCHANGED <<disk, config, queue, health, changes>>

-----------------------------------------------------------------------------
(***************************************************************************)
(* Health check                                                            *)
(***************************************************************************)
\* Mutant: a directory without a container is not looked at.
CheckableWithContainer(d, q) ==
    disk[d] # NoFiles /\ q[d] = <<>> /\ container[d] # NoContainer

\* checkService looks at a directory with files in which no command runs.
Checkable(d, q) == disk[d] # NoFiles /\ q[d] = <<>>

\* The check goes on with the next directory of the list it made at its start.
CheckNext(todo, q) ==
    LET able == {d \in todo : Checkable(d, q)}
    IN  \/ able = {} /\ health' = NoHealthCheck /\ cmds' = q
        \/ \E d \in Dirs :
           /\ IsFirst(d, able)
           /\ health' = [stage |-> "ps", dir |-> d, todo |-> After(todo, d)]
           /\ cmds' = Enqueue(q, d, "ps", "health")

\* repairDeployment
Repair(d, op, q) ==
    /\ health' = [health EXCEPT !.stage = "up"]
    /\ cmds' = Enqueue(q, d, op, "health")

StartHealthCheck ==
    /\ health.stage = "idle"
    /\ CheckNext(Configured(config), cmds)
    /\ UNCHANGED <<disk, container, config, queue, setup, succeeded, interrupted,
                   changes, faults>>

\* `ps' lists a container that is not stopped; whether it lists one that is
\* depends on the version of docker-compose.
PsEnds(d) ==
    /\ Running(d, {"ps"}, "health")
    /\ \/ /\ container[d] # NoContainer => container[d].status = "stopped"
          /\ Repair(d, "up", Ended(d))
       \/ /\ container[d] # NoContainer
          /\ health' = [health EXCEPT !.stage = "inspect"]
          /\ cmds' = Ended(d)
    /\ UNCHANGED <<disk, container, config, queue, setup, succeeded, interrupted,
                   changes, faults>>

\* `docker inspect', which is not a command of the queue.  It fails if the
\* container has gone since it was listed.
InspectEnds ==
    LET d == health.dir IN
    /\ health.stage = "inspect"
    /\ \/ container[d] = NoContainer /\ Repair(d, "up", cmds)
       \/ /\ container[d] # NoContainer
          /\ container[d].status # "healthy"
          /\ Repair(d, "recreate", cmds)
       \/ /\ container[d] # NoContainer
          /\ container[d].status = "healthy"
          /\ CheckNext(health.todo, cmds)
    /\ UNCHANGED <<disk, container, config, queue, setup, succeeded, interrupted,
                   changes, faults>>

\* `ps' or `inspect' fails: the deployment is repaired on suspicion.
CheckFails(d) ==
    /\ Fault
    /\ \/ Running(d, {"ps"}, "health") /\ Repair(d, "up", Ended(d))
       \/ health.stage = "inspect" /\ health.dir = d /\ Repair(d, "up", cmds)
    /\ UNCHANGED <<disk, container, config, queue, setup, succeeded, interrupted,
                   changes>>

RepairEnds(d) ==
    /\ Running(d, {"up", "recreate"}, "health")
    /\ UpTakesEffect(d)
    /\ CheckNext(health.todo, Ended(d))
    /\ UNCHANGED <<disk, config, queue, setup, succeeded, interrupted, changes, faults>>

\* A failed repair is logged.
RepairFails(d) ==
    /\ Running(d, {"up", "recreate"}, "health")
    /\ Fault
    /\ FailureTakesEffect(d)
    /\ CheckNext(health.todo, Ended(d))
    /\ UNCHANGED <<disk, config, queue, setup, succeeded, interrupted, changes>>

\* A container stops or becomes unhealthy, or is removed by hand.
ContainerFails(d) ==
    /\ Fault
    /\ container[d] # NoContainer
    /\ \/ \E status \in {"unhealthy", "stopped"} :
             container' = [container EXCEPT ![d].status = status]
       \/ container' = [container EXCEPT ![d] = NoContainer]
    /\ UNCHANGED <<disk, cmds, config, queue, setup, succeeded, interrupted, health,
                   changes>>

ReadFiles(d) ==
    /\ ComposeReads(d)
    /\ UNCHANGED <<config, queue, setup, succeeded, interrupted, health, changes, faults>>

-----------------------------------------------------------------------------
\* A command of d ends as it should.
CommandEnds(d) == SetupUpEnds(d) \/ SetupDownEnds(d) \/ PsEnds(d) \/ RepairEnds(d)

Next ==
    \/ \E c \in Configs : ApplyConfig(c)
    \/ RestartDaemon
    \/ StartSetup
    \/ StartHealthCheck
    \/ InspectEnds
    \/ \E d \in Dirs : \/ ReadFiles(d)
                       \/ CommandEnds(d)
                       \/ SetupCommandFails(d)
                       \/ CheckFails(d)
                       \/ RepairFails(d)
                       \/ ContainerFails(d)

Spec == Init /\ [][Next]_vars

\* Set-ups start when their turn comes, the timer of the health check fires,
\* and every command ends.
Fairness ==
    /\ WF_vars(StartSetup)
    /\ WF_vars(StartHealthCheck)
    /\ WF_vars(InspectEnds)
    /\ \A d \in Dirs : WF_vars(ReadFiles(d)) /\ WF_vars(CommandEnds(d))

FairSpec == Spec /\ Fairness

-----------------------------------------------------------------------------
(***************************************************************************)
(* Properties                                                              *)
(***************************************************************************)
\* Every configuration received has been set up, or its set-up has failed.
Drained == queue = <<>> /\ setup.phase = "idle"

Quiet == \A d \in Dirs : cmds[d] = <<>>

\* When the last set-up has succeeded, the files of every configured service
\* are those of the last configuration, however many configurations arrived
\* while earlier ones were being set up and whatever failed before.
LastConfigWins ==
    Drained /\ succeeded => \A d \in Configured(config) : disk[d] = config[d]

\* Then no configured service runs an older version of its files either,
\* unless its own last update was cut off: a repair that has read older files
\* never ends after the set-up that replaced them.
NoStaleContainer ==
    Drained /\ succeeded =>
        \A d \in Configured(config) \ interrupted :
            container[d] = NoContainer \/ container[d].version = config[d]

\* When configurations stop arriving the queue of set-ups drains for good,
\* although set-ups and the health check wait for each other's commands and
\* any of them may fail.
SetupsDrain == <>[]Drained

\* When configurations and faults stop, every configured service that has
\* files runs for good: those that set-up passes over because their files
\* have not changed are started by the health check.
ServicesRecover ==
    <>[](\A d \in Configured(config) :
            disk[d] # NoFiles =>
                container[d] # NoContainer /\ container[d].status = "healthy")

\* "has been removed from cluster config and will be undeployed from the
\* cluster" (src/src/cli/remove.ts:27): when every set-up has ended and the
\* last has succeeded, no service runs that is not configured.
RemovedServicesStop ==
    Drained /\ Quiet /\ succeeded =>
        \A d \in Dirs \ Configured(config) : container[d] = NoContainer

\* "write them to the service directory, and deploy the service"
\* (src/src/cluster/serviceDeployment.ts:124, 145): when every set-up has
\* ended and the last has succeeded, a service that runs runs what was written.
DeploymentTakesEffect ==
    Drained /\ Quiet /\ succeeded =>
        \A d \in Services \cap Configured(config) :
            container[d] = NoContainer \/ container[d].version = config[d]
=============================================================================
