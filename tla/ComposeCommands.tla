-------------------------- MODULE ComposeCommands --------------------------
(***************************************************************************)
(* The service directories of a node and the docker-compose commands run   *)
(* in them: writeServiceConfigs and runComposeCommand                      *)
(* (src/cluster/serviceDeployment.ts).  A command waits for every earlier  *)
(* command of its directory; the commands of different directories run at  *)
(* the same time.                                                          *)
(*                                                                         *)
(* The files generated for a service and the hash stored beside them are   *)
(* one version.  docker-compose is external: `up' reads the files when it  *)
(* starts and has its effect on the container when it ends.                *)
(***************************************************************************)
EXTENDS Naturals, Sequences

CONSTANTS
    Etcd,         \* the directory of etcd, which every configuration needs
    Services,     \* the directories of the deployed services
    Versions,     \* the contents the files of a directory may have
    NoFiles,      \* the directory has no files
    NoContainer   \* the directory has no container

\* Directories are numbered in the order in which they are set up and checked.
Dirs == {Etcd} \cup Services

ASSUME DirsAssumption ==
    /\ Dirs \subseteq Nat
    /\ \A s \in Services : Etcd < s
    /\ NoFiles \notin Versions

VARIABLES
    disk,       \* disk[d]: the version of the files and of the stored hash
    cmds,       \* cmds[d]: the commands of d, the running one first
    container   \* container[d]: what docker runs for d

\* `recreate' is `up --force-recreate'; files is what an `up' has read.
Commands ==
    [op : {"up", "recreate", "down", "ps"}, by : {"setup", "health"},
     files : Versions \cup {NoFiles}]

\* What docker reports of a container.
Containers == [version : Versions, status : {"healthy", "unhealthy", "stopped"}]

ComposeTypeOK ==
    /\ disk \in [Dirs -> Versions \cup {NoFiles}]
    /\ cmds \in [Dirs -> Seq(Commands)]
    /\ container \in [Dirs -> Containers \cup {NoContainer}]

ComposeInit ==
    /\ disk = [d \in Dirs |-> NoFiles]
    /\ cmds = [d \in Dirs |-> <<>>]
    /\ container = [d \in Dirs |-> NoContainer]

-----------------------------------------------------------------------------
IsFirst(d, dirs) == d \in dirs /\ \A e \in dirs : d <= e

After(dirs, d) == {e \in dirs : d < e}

\* Mutant: a command does not wait for the earlier ones of its directory.
EnqueueAtOnce(q, d, op, by) ==
    [q EXCEPT ![d] = <<[op |-> op, by |-> by, files |-> NoFiles]>> \o @]

\* runComposeCommand chains a command to the last one of its directory.
Enqueue(q, d, op, by) ==
    [q EXCEPT ![d] = Append(@, [op |-> op, by |-> by, files |-> NoFiles])]

\* The command that ran in d has ended and is taken out of the state of d.
Ended(d) == [cmds EXCEPT ![d] = Tail(@)]

\* A command of one of the given kinds runs in d for the given caller.
Running(d, ops, by) ==
    /\ cmds[d] # <<>>
    /\ Head(cmds[d]).op \in ops
    /\ Head(cmds[d]).by = by

IsUp(cmd) == cmd.op \in {"up", "recreate"}

\* An `up' that has just started reads the directory.
ComposeReads(d) ==
    /\ cmds[d] # <<>>
    /\ IsUp(Head(cmds[d]))
    /\ Head(cmds[d]).files = NoFiles
    /\ cmds' = [cmds EXCEPT ![d] = [@ EXCEPT ![1] = [Head(cmds[d]) EXCEPT !.files = disk[d]]]]
    /\ UNCHANGED <<disk, container>>

\* Without --force-recreate docker-compose may keep a container that runs.
\* It replaces the one of etcd, whose files are its environment, if they have
\* changed.
MayKeep(d, files) ==
    /\ container[d] # NoContainer
    /\ container[d].status # "stopped"
    /\ d = Etcd => container[d].version = files

UpTakesEffect(d) ==
    LET cmd == Head(cmds[d])
        new == [version |-> cmd.files, status |-> "healthy"]
    IN  /\ cmd.files # NoFiles
        /\ \/ container' = [container EXCEPT ![d] = new]
           \/ cmd.op = "up" /\ MayKeep(d, cmd.files) /\ UNCHANGED container

DownTakesEffect(d) == container' = [container EXCEPT ![d] = NoContainer]

RunningIn(d) == IF cmds[d] = <<>> THEN {} ELSE {Head(cmds[d])}

\* What may be left of the container of d when the command that runs there is
\* cut off: what there was, nothing, or the new one, started or not.
LeftOver(d) ==
    {container[d]}
        \cup {NoContainer : cmd \in {c \in RunningIn(d) : c.op # "ps"}}
        \cup [version : {cmd.files : cmd \in {c \in RunningIn(d) : IsUp(c)}} \ {NoFiles},
              status  : {"healthy", "stopped"}]

FailureTakesEffect(d) ==
    \E left \in LeftOver(d) : container' = [container EXCEPT ![d] = left]

\* The commands of all directories are killed.
KillsTakeEffect ==
    container' \in {left \in [Dirs -> UNION {LeftOver(d) : d \in Dirs}] :
                       \A d \in Dirs : left[d] \in LeftOver(d)}
=============================================================================
