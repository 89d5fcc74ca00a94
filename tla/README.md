# Linux-PaaS in TLA+

Linux-PaaS turns a handful of Debian machines into a small platform: one daemon
per machine, a WireGuard network between them, web services and Patroni
(PostgreSQL) services run by docker-compose, an etcd cluster under Patroni.
This directory holds TLA+ modules that model the daemon's core logic, TLC
configurations that check them on small instances, and theorems about them
that TLAPS proves for instances of any size. File names are relative to the
repository (`src/cluster/config.ts`); `PROJECT.json` maps every definition to
its lines and lists the runs, mutants, hazards, findings and theorems.

## 1. The system

One Node.js process runs on each machine. It is single threaded: between two
`await`s nothing else happens in the process, so every interleaving is one of
awaits, timers, HTTP handlers and CLI commands. One node, fixed at `create`, is
the **coordinator**: it owns the configuration. One node, elected, is the
**leader**: it runs the leader manager. They may be the same node.

| Component | State | Operations | Talks to | Hard part | Correct when |
|---|---|---|---|---|---|
| Cluster configuration (`cluster/config.ts`, `models/config.ts`) | the `Cluster` object: nodes, services, leader, `updated_at` | create, join, kick, set leader, deploy, remove, validate | read by everything | none by itself: one value to the next | validation accepts what the operations build; ids and hosts unique |
| Configuration replication (`config.ts`, `app/httpServer.ts`, `cli/{accept,join,kick,deploy,remove}.ts`) | every node's copy; joins, kicks and checks that wait; requests in flight | push (`/set_config`), pull (`/config_check`), `/join`, kick with `/reset_node`, restart | coordinator ↔ nodes over HTTP | handlers read, await, then write; pushes tried once, unordered, compared with nothing; ids reused | replicas hold whole configurations the coordinator had and converge; the coordinator never goes back |
| Service ports (`config.ts`) | the ports of every service | set web / Patroni service, remove | deploy, remove | overlapping ranges, first fit, exhaustion in the middle | no port given twice, none moves, the daemon's port stays free |
| Leader election (`cluster/leaderElection.ts`) | cooldowns, running election, votes | request, poll `/get_node_status`, choose, push | coordinator, all nodes | list of nodes and votes age while polled; pushes have no timeout | no leader stays down; no election because of a leader that is none any more |
| Ping monitor (`config.ts`) | failure counts per node | ping every second with a timeout of 5 s, request an election | all nodes | rounds overlap; count read modulo 3 | a dead leader is noticed, a former one is not |
| Configuration store (`config.ts`) | three files | save, load | disk | no atomic write; memory replaced first | every node on disk is an etcd member, and every host that was told it is a node is on disk |
| Etcd membership (`serviceDeployment.ts`, `etcdConfigFiles.ts`) | etcd's member list | list, add, from joins and a timer | etcd | member added before the node is; lists age while members are added; a new member needs every other one connected | every node is a member; every host that joins ends up with a running etcd |
| Service deployment (`cluster/serviceDeployment.ts`) | queue of set-ups, files and stored hash per directory | write files, `up`, `down` | compose queue, disk | set-ups queue up while configurations arrive; one failure ends a set-up; hash stored before `up` | the last configuration wins, removed services stop |
| Compose command queue (`serviceDeployment.ts`) | a chain of commands per directory | enqueue, run | docker-compose | set-up and health check meet here | commands of a directory do not overlap |
| Node health (`cluster/healthManager.ts`) | the running check | `ps`, inspect, repair, every 30 s | compose queue, docker | works from a list of services that ages | every deployed service is brought back |
| Leader manager (`cluster/leaderManager.ts`) | the running round | reports, balance Patroni leaders, drain and reboot, every 60 s | all nodes, Patroni | reports age; two leaders for a while; partial failure | leaderships balanced, required reboots happen |
| Reboot safety (`app/httpServer.ts`) | reboot requests being handled | `/reboot` | leader manager, Patroni | checks, answers, reboots a second later | no Patroni leader reboots |
| Patroni and WireGuard adapters | – | switchover, health, who leads; peers | REST, `wg` | lost answers | – |
| CLI, IPC, middleware, templates, installer | – | dispatch, text | – | – | – |

## 2. Modules

| Module | Models | Extends |
|---|---|---|
| `ClusterConfig` | the configuration as a value, `validateClusterConfig`, every operation that builds the next one. No state. | |
| `PublishedConfig` | abstract specification: one owner publishes ever newer values; every other host has one of them, whole, or nothing | |
| `ConfigReplication` | coordinator and replicas: handlers, push, pull, election's effect, resets, restarts | `ClusterConfig`; refines `PublishedConfig` |
| `ConfigStore` | the coordinator's copy in memory and its three files; saves that throw or are cut off, and the load | `ClusterConfig` |
| `EtcdMembers` | etcd's members, quorum, data directories and initial clusters (mostly external), the coordinator's WireGuard peers | `ClusterConfig` |
| `NodeAdmission` | join, kick and reset across etcd, memory, disk, peers and the host; `addMissingEtcdMembers` and its three callers; restarts | `ConfigStore`, `EtcdMembers` |
| `ServicePorts` | `allocatePort`, `listUsedServicePorts`, deploy, redeploy, remove | |
| `ComposeCommands` | directories of a node and the chains of docker-compose commands | |
| `NodeServices` | a node: configurations, queue of set-ups, health check, failures, restarts | `ComposeCommands` |
| `LeaderCandidates` | `findOptimalLeader`. No state. | |
| `PingMonitor` | overlapping rounds of pings and the failures they count | `LeaderCandidates` |
| `LeaderElection` | requests, cooldowns, timer, poll, choice, pushes, config checks, daemons that stop | `PingMonitor` |
| `PatroniClusters` | nodes going up and down, Patroni's leaders and replicas (external) | |
| `LeaderManager` | rounds on the leader, `/get_node_report`, `/reboot`, old and new leader | `PatroniClusters` |
| `MCConfigReplication`, `MCNodeServices`, `MCLeaderElection` | symmetry sets and the rounds that TLC follows | |
| `*_proofs` (of `ConfigReplication`, `NodeAdmission`, `ServicePorts`, `NodeServices`, `LeaderElection`, `LeaderManager`) | theorems | the module named |
| `LeftMembers_proofs` | the theorem about members that failed joins leave over | `NodeAdmission_proofs` |

The three modules about the configuration look at it from three sides.
`ConfigReplication` has messages and overlapping handlers, and a disk that
never fails; `NodeAdmission` has the disk, etcd and the peers, and lets a node
learn the coordinator's configuration in one step; `LeaderElection` fixes the
nodes and has the time that elections and pings depend on.

### How state and actions correspond to the code

**Steps.** An action is what the process does from one `await` to the next.
`JoinBegin` is the `/join` handler up to `addMissingEtcdMembers`, `JoinCommit`
or `JoinFail` what follows it. `KickBegin`/`KickCommit` stand on both sides of
the request to `/reset_node`, `ElectionStart`/`ElectLeader`/`ElectionSettle`
around the poll and the pushes; a push may arrive after the election has
settled, since one whose request failed may still be handled. Every host takes
pushes and resets, the coordinator's included, as the handlers are the same. `SetupUpEnds(d)` is the end of a command and
everything the set-up does until it waits for its next one, writing files and
hash included. `Decide`, `BalancingCheck`, `DrainCheck` and `Drain` are the
parts of one `checkCluster`; a request to a node that is down is not handled
and fails. In `NodeAdmission` a running call of
`addMissingEtcdMembers` is a record in `calls`: `ListMembers` is the one
`member list`, `AddMember` each `member add`, `CallFails` the exception, and
`JoinCommit` what `joinNode` does after it. `SetupCoordinator` is the
coordinator's `setupEtcd`, which every set-up runs, whether anything changed or
not. Members are added in the order of the list, the joining node last
(`Joins`). In `LeaderElection`, `Starts` is
`attemptLeaderElection` up to the poll, `Elect` what `runLeaderElection` does
once every node has answered or failed to, `EndPush` the end of one push, and
`StartRound`, `EndPing` and `EndRound` are the parts of `pingNodes`. A round
pings every node, and a ping counts whoever leads when it ends; only what
`EndRound` asks is about the leader the round began under, which is why
`LeaderReplaced` looks at open rounds again when an election ends.

**Messages.** In `ConfigReplication` a message is in a set until it is taken,
so messages overtake one another and may never arrive; nothing promises that a
push is taken. A request and answer of the pull are one record, `check[h]`.
In `LeaderManager` `requests` are the `/reboot` requests that a node is
handling; `by` tells whether the sender still waits.

**What is abstracted.** A host stands for its hostname, address and key;
`updated_at` is a counter; the files of a service with their stored hash are
one version; a service in `ConfigReplication` is its name. `asBuilt` keeps of
the field order of services what the hash of the configuration sees. The
election's choice, the loads that break ties and the hour of the day are open
choices in `ConfigReplication` and `LeaderManager`; in `LeaderElection` the choice is
`FindOptimalLeader` of reports with any loads. Except there, times do not exist: a timeout is a
failure that may happen while an answer is possible, a timer fires at any
time. `LeaderElection` counts time in ticks of five seconds, the timeout of
pings, polls and requests; a tick waits for nothing but them, so that each of
them sees at most one. The hard cooldown is three ticks, the interval of the
timer any greater number. Of `failedPings` the
code sees only whether it is 0 and its remainder by three: `OneMore` keeps these. The configuration is written to disk in the step that
changes it; in `NodeAdmission` that step may also write only some files, with
the next one truncated, and throw or die.

**External.** docker-compose (`ReadFiles`, `UpTakesEffect`, `MayKeep`,
`FailureTakesEffect`, `KillsTakeEffect`, `ContainerFails`): `up` reads the files when it starts
and acts when it ends; without `--force-recreate` it may keep a running
container, except etcd's when its environment changed; a command that fails,
or that is killed with the daemon (`RestartDaemon`), leaves the old container,
none, or, if it was an `up`, the new one, running or not (`LeftOver`). Patroni (`Switchover`, `Failover`,
`CatchUp`, `FallBehind`): a switchover to a streaming replica takes effect at
once; the member with the newest data stays the primary while its node is
down if no replica streams. etcd (`Lists`, `Adds`, `Starts`): a list needs a
quorum, a member is added only while all others are connected (the errors
`accept.ts` translates), and a process with no data joins only with an initial
cluster that equals the members. It is assumed that a member that starts
again on an empty directory is taken in.

## 3. Runs

Each property has a mutant in `PROJECT.json`: a definition changed as a
plausible mistake would change it, with which the run reports the property
violated.

| Run (cfg) | Instance | Checks |
|---|---|---|
| `replication` (`MCReplication`) | 2 hosts taking turns with the one free id, 1 service, 2 kick commands at once, 4 updates, fair; 0.51 M states | `TypeOK`, `PublishedConfigsValid`, `CoordinatorNeverReverts`, `PublishesConfig` (the refinement of `PublishedConfig`), `Converges` |
| `node_admission` (`NodeAdmission`) | 2 hosts that join, 3 ids, one timer, 3 updates, a kick or failures, 2 in all, fair; 0.59 M | `TypeOK`, `MembersCoverConfig`, `AnsweredJoinsLast`, `LeftMembersReused`, `HostsJoin` |
| `leader_election` (`MCLeaderElection`) | 2 nodes, two overlapping rounds on the coordinator, 2 loads, an interval of 4 ticks, 1 stop, fair; 0.30 M | `TypeOK`, `WatchIsCurrent`, `LeadersFollowInTurn`, `DeadLeaderReplaced`, `LeaderWatched` |
| `service_ports` (`ServicePorts`) | 4 services, ranges that overlap and run out, exactly 4 REST ports below the daemon's; 501 | `TypeOK`, `PortsDistinct`, `PortsStable`, `DaemonPortFree`, `PortsSuffice` |
| `node_services` (`MCNodeServices`) | etcd and 1 service, 2 versions, 3 changes, 1 fault, fair; 0.29 M | `TypeOK`, `LastConfigWins`, `NoStaleContainer`, `SetupsDrain`, `ServicesRecover` |
| `leader_manager` (`LeaderManager`) | 2 nodes, 2 services, 1 election, 1 upgrade, 1 fault, fair; 0.22 M | `TypeOK`, `LeaderNotRebooted`, `LeadershipsBalanced`, `RebootsHappen` |

What the less obvious properties say:

- `CoordinatorNeverReverts`: `/set_config` and `/reset_node` are served on the
  coordinator like everywhere, and neither looks at the sender or at the age of
  what it is sent. A late push would put an old configuration in the place of
  the only current one, and a reset would delete it; that none gets there rests
  on the addresses that pushes and kicks use, and on every configuration that a
  late message carries naming the coordinator's host once.
- `Converges`: the pull alone brings a node to the coordinator's configuration,
  although late pushes and answers put older ones back, and although the node
  has the id and the address of another host, for which some were meant.
- `PortsSuffice`: no history of deployments and removals fragments the ranges,
  and the types do not take each other's ports although their ranges overlap:
  a new service is refused only when the services of its own type have used up
  their range (web ports, or two read ports each), and a redeployment never is.
- `MembersCoverConfig`: a join adds the member first and the node afterwards,
  and no crash, failed save or other caller in between leaves a node, in
  memory or on disk, that is not a member. So the timer that every daemon has
  "if we failed at some point" never finds anything to add.
- `AnsweredJoinsLast`: the answer to a join is sent after the save, so a host
  that believes it is a node is on the coordinator's disk, whatever happens to
  the daemon; the kick that removes it is the only exception.
- `LeftMembersReused`: a join that adds its member and then fails leaves a
  member that is no node. As long as nobody is kicked the next join picks the
  same id and finds it listed, so there is at most one of them: failed joins
  cost no ids and no quorum.
- `HostsJoin`: without kicks and failures every host ends up a node with a
  running etcd, although each join recreates etcd on every node and a member
  that has not started makes the next join fail for the time being.
- `WatchIsCurrent`: the coordinator's rounds of pings may be outdated by an
  election they overlap; the hard cooldown is long enough that none of them
  can start the next election. A cooldown of one timeout would not be.
- `LeadersFollowInTurn`: `leaderElectionPromise` holds until the last push has
  ended, and the cooldown alone would not do: a late push of one election
  could otherwise put back the leader that the next one has replaced.
- `DeadLeaderReplaced`, `LeaderWatched`: a leader that is down does not stay
  the leader while the coordinator runs. With overlapping rounds, which can
  skip the count of three, the five-minute timer is needed for it; with rounds
  that do not overlap it is not.
- `LeaderNotRebooted`: the rounds never reboot the node they run on, and
  without failures ask one node at a time. It says nothing of what follows an
  election: the new leader may have been asked by the old one, and two
  leaders may ask two nodes.

The states of `ServicePorts` are few because the allocation is deterministic:
they are all the states a history of any length can reach.

**Why the bounds are enough.** In the replication two hosts and one free id
are the least with which an id is reused by another host; four updates let a
host join, an election or a deployment send it a push, the host be kicked and
another one join with its id while messages of both are under way. Two kick
commands are the least with which a kick finds no node, or another one, at the
id it looked up. Three ids and overlapping joins are left to the proofs, which put no
bound on them, and to the run of two joins. The set-up queue is interesting when one set-up runs, a
second waits and a repair holds a directory: etcd and one service with two
changes after the first configuration give that, the third lets a service be
removed and come back, and a fault is a cut-off set-up or a failed repair; two
services and two faults add nothing that the proofs do not cover. The port
ranges are shrunk, keeping their order and overlaps, until the fourth service
runs out of ports in the middle of its allocation. One fault and one election
make a stale report, a request that was given up while it is still handled,
or two leaders with rounds at the same time. Instances with three nodes and
two services (one election, or two nodes that require a reboot, or a fault as
well) have up to 1.2 million states and hold as well. In `node_admission` the
second join meets the etcd that the first has not finished with, the third
update is a kick, and a failure is anything from a cut-off save to an etcd
that goes away: two are enough for a join that fails with its member added and
a restart or another failed join after it; the theorems put no bound on hosts and failures. In
`leader_election` two nodes are enough for a leader that is not the
coordinator, and two overlapping rounds for a count that moves past three
between two looks; in the code up to five rounds overlap, for which
`WatchNeverOutdated` is proved. An interval of 4 ticks is the least above the
hard cooldown.

`CHECK_DEADLOCK FALSE` is said of `NodeAdmission` alone: when every host has
joined or the bounds are used up nothing is left to do.

**Fairness.** `ConfigReplication` asks it of the pull alone: the timer fires
again and again (weak), and a host that asks for ever is answered and receives
the answer some day (strong, since a request can be lost each time). This
leaves out a config check that hangs for ever, which the code, having no
timeout there, would allow (see the hazards). `NodeServices` assumes that the timers
fire and that every docker-compose command ends; the code sets no limit on
them, so this is an assumption about docker-compose. `LeaderManager` assumes
that rounds go on, that every request to a node is handled (per request: one
handler does not hold up another), that a node that went down comes back, that
the result of an election arrives, and that Patroni replaces a lost leader and
lets replicas catch up. `NodeAdmission` assumes that hosts go on trying to
join (a user's part, without which nothing would join), that etcdctl's calls
end, that set-ups run and containers are started again (docker's restart
policy and the health check), and that nodes hear of the configuration; the
timer is not assumed to fire. `LeaderElection` assumes that rounds start, and
that pings, polls and pushes that do not hang end; of the coordinator's timer only
`DeadLeaderReplaced` asks that it goes off. A push that the node took and will
never answer stays for ever: both properties are under the premise that there
is none. No fairness is asked of anything that a user or a
fault does. The eventual properties speak of the time after the last
bounded change, election or fault; without such a bound nothing would have to
settle.

## 4. What disagrees

Six runs expect a violation. Each checks one property that a comment, a
message or the program's own validation states.

| Run | The code says | The run shows |
|---|---|---|
| `replication_two_joins` (`CurrentConfigLoads`) | a listed host's second join is refused (`cli/accept.ts:82`), a hostname listed twice is invalid (`config.ts:616`) | two overlapping `/join` requests of one host are both accepted, and the coordinator cannot load its configuration after a restart |
| `replication_two_kicks` (`KickRemovesItsTarget`) | `kick` "Removes a node from the cluster", the one with the id it is given and has looked up (`cli.ts:38-39`, `cli/kick.ts:25`) | two kicks of one node overlap, another host joins with the freed id while the second waits, and is removed by it without having been asked for or told to reset itself (`kick.ts:53`) |
| `replication_up_to_date` (`UpToDateIsRecognised`) | nodes "retrieve the latest config if not" up to date (`httpServer.ts:77`) | after a deploy the coordinator's hash differs from that of an equal configuration on a replica, until the coordinator restarts: every check sends and applies the whole configuration |
| `node_services_removed` (`RemovedServicesStop`) | a removed service "will be undeployed" (`cli/remove.ts:27`) | a health check that began before the removal starts it again, for good |
| `node_services_effect` (`DeploymentTakesEffect`) | write the files "and deploy the service" (`serviceDeployment.ts:124`) | a set-up cut off after it stored the hash is followed by one that finds nothing to do: the old container stays |
| `node_admission_rejoin` (`RemovedHostsRejoin`) | "Remove existing node from configuration before trying again" (`cli/accept.ts:82`) | the kick leaves the node's etcd member, and nothing removes one: in a cluster of two, etcd has no quorum any more and refuses every later join |

Seen in the models and read in the code, without a run of their own:

- One failed command ends a set-up; services after it have no files and the
  health check passes over them, although the set-up "resolves when all
  services have been triggered" (`serviceDeployment.ts:29`).
- When every node requires a reboot and the first one leads a service there is
  nowhere to drain to, and no node is ever rebooted (`leaderManager.ts:187`,
  `211`). `RebootsHappen` has the premise that the leader requires none.
- In the second between its last look and its reboot a node can be given a
  leadership by the balancing of the next round (`httpServer.ts:182-184`).
- A new leader that takes the push of its own election and dies before it
  answers leaves `leaderElectionPromise` set (`leaderElection.ts:114`; the push
  has no timeout): there is no election any more until the coordinator
  restarts. Without the premise `NoPushHangs`, TLC finds `DeadLeaderReplaced`
  violated this way.
- A comment says that members are added "so that we don't need to restart
  etcd" (`serviceDeployment.ts:74`); the list of nodes is in etcd's `.env`, and
  a changed `.env` recreates the container.

A contradiction within the code, for which no property was worth a run: the comment on `waitUntilRebootSafe` (`httpServer.ts:35-36`)
speaks of 15 seconds, while the code looks twice, five seconds apart, waits
another five without looking again, and leaves `REBOOT_RETRY_COUNT` unused. A
request can so be refused by a node that leads nothing any more; the next
round repeats it.

## 5. Theorems

All theorems are for every value of the constants that meets the modules'
`ASSUME`s, which state only that bounds are natural numbers, that the special values are
not ordinary ones, and that the coordinator is a host.

**`ConfigReplication_proofs`.** `TypeCorrect`. `Implements`: the replication
implements `PublishedConfig`. The refinement is not inductive by `TypeOK`: it
needs `FlightInv`, that everything in flight (pushes, offers, answers) and
every copy is a published configuration. Not even the types are inductive: every host
takes pushes and resets itself in the specification, and that the coordinator
is sent none needs `Headed`, that every configuration names its host by its id
alone (`CoreInv`; `NextIsReplicaNext` then has the steps of the replicas only).
Three theorems need no assumption about overlapping requests, from `CopyInv`:
`NothingIsUndone`, that the coordinator's configuration is never deleted and
never replaced by one it had before, `CopiesAreHeaded`, that every host's
configuration lists the coordinator and its own leader, so that a host listed
twice is all that can make it invalid, and `UpdatesNameConfigs`, that
configurations of the same update are equal: a host may be behind, but never
has a configuration of its own. `SerialJoinsKeepConfigsValid`
assumes `OneJoinAtATime`, without which `replication_two_joins` refutes it.
Its invariant `MembershipInv` says that the configuration is valid and its
nodes distinct, and that the id and host a waiting join has picked are still
free: kicks can only free ids, and no other join can take one.
About kicks nothing of the kind is proved: commands are handled concurrently,
and `replication_two_kicks` shows what two of them do.

**`ServicePorts_proofs`.** `TypeCorrect`, `PortsNeverShared` and
`PortsNeverMove`, from `PortInv`: types, and no port twice. `PortsNeverMove`
needs it to see that an existing port is still in its range and not used by
another service, so that `allocatePort` keeps it. `DaemonPortNeverTaken` is by
counting: first fit takes a port only if every lower one of its range is in
use, each service uses at most one of the REST ports, and there are fewer
other services than ports below the daemon's. `DeploymentsFindPorts` counts the
same way in the ranges that only one type ends up using, which is why
`LowPorts` is needed: web services own the ports above the daemon's, Patroni
services two each of the read ports.

**`NodeAdmission_proofs`.** `TypeCorrect`, `MembersCoverNodes` and
`AnswersAreKept`, from one invariant. `ListsInv`: the nodes in memory and in
a readable `nodes.json` are members, and have different ids. `CallsInv`: what a
running call has found listed or has added is a member, and a join's call
holds an id no node has. The two need each other: a node is added when its
call has nothing left to do. `ToldInv` says the same of hosts that were told,
for memory and disk, which is why no crash in a save can lose them; `KickInv`
that a waiting kick's node is still listed. Joins are handled one at a time
and so are kicks; what overlapping ones do is `ConfigReplication`'s subject.

**`LeftMembers_proofs`.** `FailedJoinsAreReused`, from `LeftInv` on top of that
invariant. No call but a join's asks etcd for anything it lacks; a node that is
in memory and not on disk, because its save failed, keeps etcd from taking in
another member, for its own has never started (`OneNotOnDisk`); and once a
join has been completed nothing is left over, so that the id a join picks, the
least that is free, is that of the left-over member.

**`NodeServices_proofs`.** `TypeCorrect`, `LastConfigurationWins`,
`ContainersAreFresh`, along three invariants. `QueueInv`: a set-up that waits
has exactly one command, in its own directory; only the first command of a
queue has read its files. `SetupInv`: what is still to be set up ends with
the node's configuration, and the set-up under way has written every
directory before the one it waits for. `FreshInv`: every container and every
`up` that has read its files is of the version on disk, except in the
directory the set-up has just written and where an earlier update was cut off.
A command that fails or is killed leaves nothing newer or older than that (`LeftOverFresh`). `LastConfigWins` alone
is not inductive, for it is silent while set-ups are waiting.

**`LeaderElection_proofs`.** About `findOptimalLeader`: `OneOptimalLeader`,
that among any statuses exactly one node is before all others, so that the
result does not depend on the order of answers, and `LeaderReplacedByBetter`,
that a leader which answers is replaced only by a node with a smaller load, or
the same load and fewer votes. `TypeCorrect`. `WatchNeverOutdated` from
`WatchInv`: a poll ends at most one tick after its election began, a round that
watches the leader it replaced has begun by then and lasts one tick more, and
the cooldown of three ticks, counted from the beginning, is not over when it
ends. `OneElectionAtATime` from `TurnInv`, that there is no poll while a push
is awaited, however long one hangs; that the elected node is one that answered
is `OneOptimalLeader` again.

**`LeaderManager_proofs`.** `TypeCorrect`. The type
of a round depends on a fact about its past, `CheckedReported`: the node whose
services are being checked has reported; that a request is awaited by its own
round alone (`RebootsAwaited`) is part of the invariant, too. `LeaderStays` from `LInv`: until an
election no other node has a round, the node that a round has chosen is never
the leader, however its reports have aged, and while nothing has failed every
request is awaited by the one round of the leader, which waits for one.
`OverloadLeavesRoom` is by counting: disjoint sets of services, each of at
least the share of a node, would have more services than there are. It is the
part of `LeadershipsBalanced` that can be proved: a decision to balance never
stops for want of a candidate, as long as no leadership is reported twice,
which a switchover between two reports can bring about until the next round.

**Model-checked only.** Liveness under fairness (`Converges`, `SetupsDrain`,
`ServicesRecover`, `LeadershipsBalanced`, `RebootsHappen`, `HostsJoin`,
`DeadLeaderReplaced`, `LeaderWatched`) is not within the proof system's reach.

## 6. What is not modelled, and the plan

In order of importance:

1. HAProxy and the coordinator's set-up in `NodeServices`: commands change the
   object that a set-up works from while it waits (`serviceDeployment.ts:45`).
2. The end of a round under a configuration that is applied late: a replica
   that takes an old answer of a config check can ask for an election against
   the new leader. It needs `LeaderElection` on top of `ConfigReplication`'s
   messages, instead of a fixed set of nodes and one bit per replica.
3. Kicks of the leader, which also change it, in `LeaderElection`.
4. Overlapping joins and kicks in `NodeAdmission`, with the disk and etcd.

Also left out: a second `create` on a host, ids up to 255 (10.0.0.255 is the
broadcast address), the middleware's access control, messages and credentials,
the text of generated files, read-only commands, IPC dispatch, installation
scripts (`reset-node.sh` is `ResetHost`). They keep no state that the
properties tell apart.

Known hazards without a property are listed with the reason in `PROJECT.json`.
Among them: a node down for a reboot is not waited for, so that a second one may
go down a round later; a local Patroni that does not answer counts as one that
does not lead; nothing recovers from a coordinator that restarts between the
reset and the removal of a kicked node, except a second kick.

## 7. Running

    tlc -config LeaderManager.cfg LeaderManager.tla
    tlc -config MCNodeServices.cfg MCNodeServices.tla
    tlc -config MCLeaderElection.cfg MCLeaderElection.tla
    tlapm NodeServices_proofs.tla

The `MCReplication*` configurations belong to `MCConfigReplication`, the
`MCNodeServices*` ones to `MCNodeServices`, `NodeAdmissionRejoin` to
`NodeAdmission`, the others to the module their name
begins with. Every run ends within a few minutes on two workers.
