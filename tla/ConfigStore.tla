---------------------------- MODULE ConfigStore ----------------------------
(***************************************************************************)
(* The copy of the configuration a daemon keeps in memory and the three    *)
(* files it is loaded from at start (src/cluster/config.ts).  A save       *)
(* writes the files one after the other and in place: it may throw, or the *)
(* daemon may die, with some of them written and one of them truncated.    *)
(***************************************************************************)
EXTENDS ClusterConfig

VARIABLES
    current,  \* clusterConfigSingleton; NoConfig while the daemon is down
    disk      \* disk[f]: what file f holds

storeVars == <<current, disk>>

\* config.json, nodes.json and services.json, in the order they are written.
Files == 1 .. 3

\* A file that was truncated and not written can not be parsed.
Unreadable == NoConfig

Contents(c, f) ==
    CASE f = 1 -> [updated_at |-> c.updated_at, leader |-> c.leader]
      [] f = 2 -> c.nodes
      [] f = 3 -> c.services

Written(c) == [f \in Files |-> Contents(c, f)]

StoreTypeOK ==
    /\ current \in ClusterInfo \cup {NoConfig}
    /\ disk[1] \in [updated_at : Nat, leader : NodeIds] \cup {Unreadable}
    /\ disk[2] \in (SUBSET NodeInfo) \cup {Unreadable}
    /\ disk[3] \in (SUBSET Services) \cup {Unreadable}
    /\ DOMAIN disk = Files

\* After `create'.
StoreInit ==
    /\ current = InitialConfig
    /\ disk = Written(InitialConfig)

-----------------------------------------------------------------------------
\* The disk after a save of c that got no further than k files, and may have
\* truncated the next one.
CutOff(c, k) ==
    LET d == [f \in Files |-> IF f <= k THEN Contents(c, f) ELSE disk[f]]
    IN  {d, [d EXCEPT ![k + 1] = Unreadable]}

\* The operations of class Cluster change the configuration in memory and
\* then call saveClusterConfigToDisk.
Save(c) ==
    /\ current' = c
    /\ disk' = Written(c)

\* The save throws: memory keeps the change.
SaveThrows(c) ==
    /\ current' = c
    /\ \E k \in 0 .. 2 : disk' \in CutOff(c, k)

\* The daemon dies during the save, or right after it.
SaveDies(c) ==
    /\ current' = NoConfig
    /\ disk' = Written(c) \/ \E k \in 0 .. 2 : disk' \in CutOff(c, k)

Dies ==
    /\ current # NoConfig
    /\ current' = NoConfig
    /\ UNCHANGED disk

\* What the files make together.
Loaded ==
    [updated_at |-> disk[1].updated_at, leader |-> disk[1].leader,
     nodes |-> disk[2], services |-> disk[3]]

\* The daemon is started again until it can load the files, which it can not
\* if one is unreadable or if validateClusterConfig refuses what they make.
Load ==
    /\ current = NoConfig
    /\ Unreadable \notin {disk[f] : f \in Files}
    /\ Valid(Loaded)
    /\ current' = Loaded
    /\ UNCHANGED disk
=============================================================================
