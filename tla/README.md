# A verification of FasterEdge in TLA+

FasterEdge is a Go library for edge nodes. A program builds an *Atom*, registers
Data and Ability components with it, and lets it mount, run and tear them down.
This directory holds TLA+ modules translated from that code, TLC configurations
that model-check them on small instances, and proofs, checked by TLAPS, about
the lifecycle and the abilities for every instance.

Source paths below are relative to `src/`.

## 1. The system

### How the parts interact

- The **Atom** (`types/atom.go`, `types/lifecycle.go`) holds a registry of
  components and a state (created, mounted, running, stopped, failed). It
  *calls* them: Check and Mount in dependency order, Run in one goroutine per
  Runner, Unmount in reverse order with a time budget each. A callback may fail,
  panic, change its name or never return.
- **Commands** (`types/command.go`) reach an ability in any state of the Atom,
  from any goroutine. Abilities have no lock in common with the Atom; each has
  its own. Every ability module therefore lets its commands interleave freely
  with each other and with its own Unmount.
- **Remote commands** are authenticated first: OneKeyAbility asks the keyring
  whether the token is accepted, dispatch finds the component, and abilities of the
  edge or the cloud ask RoleAbility for the role. Each step is under another lock.
- **Abilities use each other** through the registry: algorithm distribution
  drives file transfers and polls them; Sh and Bash run their commands through
  CmdAbility; One-Key issues tokens into KeyringData; the configuration file
  ability loads and saves ConfigData.
- **Outside** are the injected transports (MQTT, serial, file, Docker,
  Kubernetes, Modbus), the operating system's processes and files, and time
  sources, InfluxDB and eKuiper. They are modelled by how the code uses them, with every outcome the
  code distinguishes, and marked `external` in the map.

### Inventory

| Component | State it keeps | Operations | What is hard | What makes it correct |
|---|---|---|---|---|
| Registry and lifecycle | state, transitioning, registry, mounted | AddData/Ability, RemoveData/Ability, MountAll, UnmountAll, RunAll, Reset | work outside the lock between a guard and its finish; callbacks that hang; results in any order | one transaction at a time; dependencies up; nothing mounted is forgotten; Stopped is quiet; no callback hangs a teardown |
| Dependency ordering | none | dependencyOrder | Go map order; cycles met anywhere in the stack | succeeds exactly on mountable registries; a reported cycle is one; deterministic |
| MQTT queue | buffer, closed flag, condition variable, timers | push, drain, close | signal, broadcast and timer against waiters | each message to one place in order; no sleeper beside mail; close releases everybody |
| MQTT subscriptions | table of queues, connection | connect, disconnect, subscribe, unsubscribe, Unmount | network calls between two critical sections | no queue leaks or survives Unmount; table and broker agree but for calls that failed |
| File transfers | status and cancel channel per transfer, slots | upload, download, cancel, clear_finished, Unmount | cancel against completion; closing a channel twice; WaitGroup during Wait | nobody left running; channels closed once; Unmount drains; statuses follow their contract |
| Algorithm distribution | catalogue, jobs, watchers | register, unregister, distribute, cancel, clear_finished, Unmount | polling another ability's transfers that may be cleared | jobs never claim more than transfers; outcomes final; watchers drained |
| Command jobs | slots, job table, allowlist | run, start, wait, kill, clear_finished, set_allowlist, Unmount | overshooting counter with five ways back; blocking on done | slots balance; no process escapes; a kill releases all waiters once the output is closed |
| Keyring, One-Key | secret, tokens, revocations, counters, file | issue, verify, revoke, rotate, save, load | two critical sections of issue_token; crashes between write, rename and sync | dead tokens stay dead; genuine ones accepted; no crash leaves a file that contradicts itself |
| Serial ports | open ports and configurations | open, close, set_config, Unmount | device calls outside the lock | no descriptor leaks; table and devices agree |
| Time | base time, slots, mode | sync_*, get_time, configure_run, Run | a base replaced beside a reader; slow sources | always an answer; ahead of the source by no more than the estimate of NTP allows; a default never replaces a sync |
| Configuration and file | values, file | set, delete, load, save | in-place write, crashes, size limits | a load restores what was saved, or nothing |
| Events and metrics | sinks, ring of durations | Add, emit, Snapshot | panicking sinks; ring at capacity | every sink told; the latest samples kept |
| Docker, Kubernetes | transport, context, call counter | every command | lock-free limit; two lock sections | limit kept, no slot lost; names are sent as checked; the namespace was in force |
| Modbus | unit, transport | read, write, set_unit_id, Unmount | late, lost or damaged responses | success only for what a unit did |
| Dispatch, authentication, roles | role, capabilities, services | CommandContext, AuthenticatedCommandContext, set_role, the commands of edge and cloud | tokens revoked and roles set between check and execution, each under another lock | no remote call without an accepted token; administration is local; an ability has its role; limits kept |
| Status, health, WaitState | none | Status, Health, WaitState | components asked without the lock while the Atom goes on | a report tells of one moment; WaitState sees a state that holds |
| Sh, Bash | shell, two allowlists beside that of CmdAbility | SetShell, set_allowlist, run, start | three lists under three locks; quoting against the scan for metacharacters | the shell in force can be started; what is admitted is started; the text arrives as it was given |
| eKuiper | tables of streams and rules | create, drop, start, stop | remote call between two critical sections | tables and engine agree |
| InfluxDB | configuration, secret, revision; series | setters, configure, rotate, write, query, delete | read-change-write of a configuration; rotation and a new transport during an operation | no field lost; a token in use is not overwritten; one set of credentials per transport |
| Databases | configuration, secret, revision | configure, get_config, snapshot, set_secret, clear_secret | slices shared with callers, checked before they are copied | the configuration is the store's own, and what was validated if its caller leaves it alone meanwhile |
| Network map | interfaces, default one, peers | scans, set_default_iface, register, update, lookup, topology | interfaces come and go between two snapshots; scans fail | a topology is consistent; no update is lost |
| TSN | streams, priorities, gate states | set_interface, register, unregister, set_priority_map, set_time_aware | an answer read after unlocking; a map checked before it is copied; shared slices | one registration per stream; the tables belong to the ability |
| MQTT client of the example | connection, channel of acknowledgements | Connect, Publish, Subscribe, Unsubscribe, Disconnect | late acknowledgements, read loops that outlive a connection | success only for what the broker did; one reader; messages whole |
| Entry points, error types, base data | none | | | not modelled, see section 8 |

`PROJECT.json` lists every component with its sources and status, and the
hazards of the code at their lines.

## 2. The modules

| Module | Models | State and actions against the code |
|---|---|---|
| `AtomContract` | what an Atom promises | six atomic operations on the state, the registry and what serves |
| `AtomLifecycle` | registry and lifecycle | per caller: `pc` is the place in MountAll, unmountWithTimeout or RunAll, `items`/`pos` the list it walks, `reply`/`budget` the select on a callback and its timer; `strays` are abandoned goroutines, `up` what is mounted and not yet unmounted |
| `Dependencies` | the orders `dependencyOrder` may return | used by both modules above |
| `DependencyOrder` | `dependencyOrder` itself | validation, then one action per turn of a loop; `stack` is that of the calls of `visit`, `rest` what the loop of each has left, `mark` is the code's `state` |
| `MQTTQueue` | `mqttQueue` | one action per lock section of push, drain, close; mutex, condition variable and timer callback are explicit |
| `MQTTSubscriptions` | MQTTAbility's table | one action per critical section and per broker call; a call that fails may have been done or not; `ghosts` is a history |
| `TransferContract` | the life of a transfer's status | |
| `FileTransfer` | FileTransferAbility | commands, worker, Unmount; implements `TransferContract` |
| `AlgorithmDistribution` | AlgDistAbility | built on `TransferContract`: transfers move, are cancelled and cleared beside it |
| `CmdJobs` | CmdAbility | counter, registration, process, its output, publication of done, slot |
| `Keyring` | KeyringData and OneKeyAbility | `durable` is the set of files a crash may leave; `TooLarge` is LoadSnapshot's limit |
| `CommandGate` | command.go, RoleAbility, EdgeRoleAbility, CloudRoleAbility | one action per lock: authenticate, dispatch, check the role, execute |
| `StatusReports` | Status, Health, WaitState | beside any Atom that keeps `AtomContract` (INSTANCE): `AtomSteps` is its Next; `moments` is a history |
| `StreamEngine` | EKuiperAbility and the engine | check, call, record as three actions |
| `Credentials` | InfluxDBData, InfluxAbility, databaseStore's secret | `mu` is d.mu; each later section of an operation is an action |
| `Databases` | the five database components | `memory` is what each slice holds, so that sharing shows; `configuring` are the calls between check and copy |
| `MQTTClient` | the MQTT transport in `examples/verify` | the call that holds t.mu, one read loop per connection, the packets of each |
| `Shells` | ShAbility, BashAbility, CmdAbility's list | a text is a sequence of characters by what a shell makes of them |
| `NetworkMap`, `TimeSensitive` | NetMapData and NetMapAbility, TSNAbility | one action per command; get_topology and set_priority_map are two, set_interface four |
| `SerialPorts`, `TimeSync`, `ConfigFile`, `Observers`, `Orchestrators`, `ModbusMaster` | the abilities of the same subject | `Orchestrators` is Docker and Kubernetes, which share the shape of their gate; in `TimeSync` an NTP query is its two legs, and times are in halves of a tick |
| `Abilities` | these six side by side | the parts rest but one; so in the next two |
| `Tables` | `MQTTSubscriptions`, `MQTTClient`, `StreamEngine`, `Shells`, `NetworkMap`, `TimeSensitive`, `Databases`, `Credentials`, `StatusReports`, `DependencyOrder` side by side | the last twice in lock-step, on one registry listed in two ways |
| `RemoteAccess` | `Keyring` and `CommandGate` side by side | |
| `MC*` | instances for TLC | |
| `AtomLifecycleProofs`, `FileTransferProofs`, `AlgorithmDistributionProofs`, `CmdJobsProofs`, `MQTTQueueProofs` | theorems about the module of that name, which each extends | section 6 |
| `KeyringProofs`, `TablesProofs`, `AbilitiesProofs` | theorems about the parts of `RemoteAccess`, `Tables` and `Abilities` | section 6 |

Conventions: an action is a whole critical section or a whole call to the
outside; what the code does under one lock is one step, what it does after
unlocking is another. A command the code rejects, with nothing changed, is not an
action. A variable or field described as *history* exists for properties only.
An operator commented `Variant:` is a plausible bug next to the definition it
would replace; the mutation runs replace the definition by it.

## 3. What each run checks

| Run | Shows |
|---|---|
| `atom_lifecycle` | `OneTransaction`, `DependenciesUp`, `NothingLeftUp`, `StoppedIsQuiet`; the refinement of `AtomContract`; under fairness `TeardownEnds`, `RunAllEnds` |
| `mqtt_queue` | `ExactlyOnceInOrder`, `NoSleeperBehindMail`; under fairness `CloseReleases` |
| `tables` (`MCTables`) | `QueuesClosed`, `BrokerAgrees` (MQTT subscriptions); `ClientHonest` (MQTT client); `EngineAgrees` (eKuiper); `ShellsHold` (Sh, Bash); `TablesHold` (network map, TSN, databases); `CredentialsHold` (InfluxDB); `ReportsHonest` (status, health, WaitState); `AnswerSound`, against the definition in `Dependencies`, and `Deterministic` (dependencyOrder) |
| `file_transfer` | `TransfersOwned` (`RunningIsOwned`, `UnmountDrains`, `ChannelClosedOnce`), `CancelReachesTransport`, the refinement of `TransferContract` |
| `alg_distribution` | `JobsHonest`, `WatchersEnd` (`WatcherSettles`, `WatchersDrained`), `OutcomeFinal` |
| `cmd_jobs` | `SlotsBalanced`, `NothingEscapes`; under fairness `CancelReleases`, `UnmountReturns` |
| `keyring` | `FileSound` (`SnapshotLoads`, `SavedIsDurable`), `TokensSound` (`DeadStaysDead`, `GenuineAccepted`), `CommandsGated` (`CommandGate`) |
| `abilities` | `PortsHonest` (`PortsReleased`, `ConfigInForce`; serial); `BaseHonest` (time); `LoadRestores` (configuration file); `EventsComplete` (events, metrics); `GatesHold` (Docker, Kubernetes); `MasterHonest` (Modbus) |
| `runner_fault_reported`, `mqtt_drain_ends`, `file_transfer_cancel_wins`, `cmd_unmount_cancels_all` | one property each that the repository states and the code breaks: section 5 |

Type invariants are the first conjunct of a safety invariant of each module,
except in `atom_lifecycle`, where `TypeOK` is checked by itself because the
proofs rest on it. Every property has at least one mutant: the configuration
finds it violated when a mapped definition is replaced by its variant.

### Bounds, and why they are enough

| Run | Instance | Why |
|---|---|---|
| `atom_lifecycle` | 2 callers, 3 components (one dependency, two Runners, two Unmounters), 2 mounts | two callers race for every guard; one dependency and one independent component give more than one order; two Runners give every order of results; the second mount meets callbacks of the first |
| `mqtt_queue` | capacity 2, 5 pushes, 2 drains | overflow, and both drains asleep at one push |
| `tables` | subscriptions: 2 clients, 2 topics, 3 queues | a topic replaced while its command is on the network, beside one that is not |
| | MQTT client: 2 connections, 2 requests, 2 packets under way each; lengths 128 and 2^20 + 1 | a request of the second connection meets the answer to one of the first; two length bytes, and one more than the limit |
| | eKuiper: 2 clients, 1 stream, 1 rule, 2 definitions | a rule dropped and created anew, with another definition, while a start is with the engine |
| | InfluxDB: 2 clients, 2 revisions, 2 transports, 1 series | an operation during a rotation, before and after a new transport |
| | shells: 2 clients, 2 shells, texts of up to 3 characters | two changes at once, a run between any two; every metacharacter inside and outside quotes, and a closed pair of them |
| | network map: 2 interfaces, 2 peers, 2 hosts; TSN: 2 clients, 1 stream, 3 slices of 2 contents; databases: 3 slices, 2 changes | an interface that goes between two snapshots; both directions of a stream; a map or slice that its caller changes between check and copy; a slice handed out beside the one in force |
| | status: 1 observer, 2 components, calls of up to 4 moments | an Atom that is mounted, run and torn down while it is asked |
| | dependencyOrder: 3 keys, 4 declarable, every listing of the items and one more of each list of dependencies | a cycle of three, one entered from outside, a missing and a wrongly typed dependency |
| `file_transfer` | 2 users, 3 transfers, 2 slots | the limit is reached; cancel races Unmount on one transfer |
| `alg_distribution` | 2 users, 2 transfers | a job cancelled by one user while another starts one |
| `cmd_jobs`, `cmd_unmount_cancels_all` | 2 users, 2 jobs, 1 slot (2 in the second) | the counter overshoots; two jobs are under way at Unmount |
| `keyring` | keyring: 1 user, 2 tokens, 2 secrets, 3 files a crash may leave, a file of 2 tokens too large; gate: 2 clients, 1 token, 2 names, limits of 1 | issue beside rotation, revocation, save and crash; a call beside a revocation or a change of role; a full table |
| `abilities` | 2 goroutines each; 1 port, 2 configurations; clock to 2, 1 slot; 1 namespace that is clean and 1 that is not, stop timeouts from -1; 2 keys of which 1 may be set, 2 saves; 2 sinks, ring of 2, 5 events; limits of 1; 2 units, 2 registers, 10 coils, 2 requests | each limit is reached and exceeded; a query whose request alone is slow; ten coils need a second byte |

The counters (`MaxMounts`, `MaxPushes`, `MaxQueues`, `MaxTransfers`, `MaxJobs`,
`MaxTokens`, `MaxFiles`, `MaxTime`, `MaxSaved`, `MaxEvents`, `MaxSends`, `MaxConns`, `MaxPackets`,
`MaxCalls`, `MaxRevision`, `MaxTransports`, `MaxChanges`) bound quantities that only
grow in the code; each appears in a guard or as the range of one. `MaxText` bounds
the texts, `MaxMoments` how far the Atom goes on during one call.

`abilities` checks six parts at once, `tables` ten and `keyring` two.
The parts of a run share no variable, lock or goroutine in the model or, where they
do in the code, only through what one module has of the other (the allowlist of
CmdAbility in `Shells`, the accepted tokens in `CommandGate`, the contract of the Atom
in `StatusReports`). So a behaviour of the composition projects to a behaviour of each.
The variable `part` picks at the start the one that moves and the rest stay in their
initial states: an invariant of one part then holds of every interleaving.

Symmetry is used for goroutines, topics, secrets and names, never in a run with a liveness
property. No run switches the deadlock check off; where a part ends (dependencyOrder
has answered) it stutters.

### Fairness

- `AtomLifecycle!Fairness`: the supervising goroutine and the timers are weakly
  fair. The callbacks are not: Check, Mount, Unmount and Run may hang for ever.
  Go runs every runnable goroutine and fires timers.
- `MQTTQueue!Fairness`: goroutines run, timers fire, and a goroutine that asks
  for `q.mu` again and again gets it (strong fairness; `sync.Mutex` has a
  starvation mode for exactly this). Pushes and closing are not fair.
- `CmdJobs!Fairness`: a process whose context is cancelled dies (`exec.CommandContext`
  kills it), an ended one is published, a call whose channel is closed returns, and
  Unmount goes on. A process nobody cancels need not end, and no user need act. Nor
  need what a killed process has started: it may hold the pipes of the output, for
  which `cmd.Run` waits without a limit, as no `WaitDelay` is set
  (`ability/cmd_ability.go:418`). `OutputCloses` is therefore not fair, and
  `CancelReleases` and `UnmountReturns` claim a return only of a job whose output is
  not kept open.

## 4. Abstractions worth knowing

- Time is a set of possible orders: a timer fires at any moment after it is armed.
  Only `TimeSync` has a clock, because its property is about differences of it.
- A message is its number, a token its entry, a configuration a function from
  keys to sizes, a Docker name is *clean*, *padded* or *dirty*, a namespace,
  which is trimmed and not checked, clean or dirty. Modbus PDUs are
  sequences of bytes, because the encoding is what the properties are about.
- A crash (`Keyring`, `ConfigFile`) keeps any of the contents that may have
  reached the disk: what was written without a sync may be old, new or torn.
- `Keyring` gives each entry its own number. Two tokens of one subject with equal
  times would be one entry in the code; they are one in the model as well.
- `FileTransfer` and `AlgorithmDistribution` leave paths and targets out, and
  resolve the ability they depend on before a command begins, as Check does.

- `MQTTClient` follows a behaviour until somebody connects while an earlier read
  loop runs, since two loops on one connection read arbitrary pieces of packets. The
  variables `early`, `late` (client), `disturbed` (eKuiper), `overlap` (Influx),
  `crossed` and `calm` (shells), `alone` and `stirred` (TSN), `changed` (databases),
  `ghosts` and `trouble` (subscriptions) and `whole` (network map) mark what the
  code makes no promise about: section 5 says what goes wrong there.
- The answer of `sync_net` tells the source's time at some moment of the call. That of
  `sync_ntp` is the sum the code makes, the clock and the offset by which the four
  timestamps put it: off by half the difference of the two legs of the query.
- `StatusReports` takes the Atom from its contract: nothing that keeps it can make a
  report false. The order in which components are asked is left open.
- `DependencyOrder` keeps what a loop over a sorted list has left as a set, of which it takes the
  least: a dependency that is listed twice is visited once, the second visit of the code
  finds it ordered. Errors of the validation are a set as well.
- In `Databases` and `TimeSensitive` a slice is a cell of a memory, so that two holders
  of one slice are told from two equal slices.

## 5. Where code and text disagree

Four have a run that finds them (`findings` in `PROJECT.json`):

- **A Runner's fault is lost** when another Runner returned `context.Canceled`
  first: the drain loop (`types/lifecycle.go:500`) drops later results. The
  core-hardening design, section 7, wants it returned by RunAtom.
- **A drain may sleep beyond its deadline** (`ability/mqtt_ability.go:197`): its
  timer can broadcast before `cond.Wait` has joined the waiters, without `q.mu`.
  `mqtt_queue_drain_regression_test.go` wants it to return.
- **A cancelled transfer may end completed** (`ability/file_transfer_ability.go:524`):
  cancel's status and its close of the channel are two steps and the worker decides
  by the channel. The comment at line 523 gives precedence to cancel.
- **Unmount leaves jobs uncancelled** (`ability/cmd_ability.go:205`): a job is
  cancelled only when the loop comes to it, and the loop waits for the one before.
  When its context ends the jobs behind go on, and no second Unmount will cancel
  them. The comment at line 176 says it cancels every active job.

Others are stated in the modules, or only here, without a run; each is what the
code does, found while translating it:

- Lifecycle. `ResetAfterTeardown`: Reset is possible while an abandoned callback
  still executes, and may overlap the next mount. `UnmountAfterRunners`: after the
  shutdown timeout components are unmounted although a Runner still uses them,
  against the design. `TimeoutOnlyWhenLate`: the budget's context is released
  (:586) after the callback answered, and a late look at it can count an Unmount in
  time as timed out.
- MQTT. With overlapping commands `NoGhost` and `NoSilentLoss` fail: the wire calls
  of unsubscribe and of a later subscribe can reach the broker in the other order,
  and connect restores from an old snapshot. `UnmountDisconnects`: a connect under
  way may connect after Unmount (:369, :395).
  The comments of subscribe and connect want no ghost subscriptions; but the errors of
  Unsubscribe (:524, :548) are ignored, a Subscribe that fails after the broker has done
  it (:507-515; for the client of the examples, an acknowledgement that comes too
  late, `examples/verify/mqtt_transport.go:180`) is not withdrawn, and a Disconnect that
  fails (:294, :417) may leave the whole session. `NoGhost` claims nothing of the topics
  of such calls (`ghosts`) until the session ends.
- Command jobs. kill (:564) waits without a limit, and Unmount as long as its context
  lasts, for a job whose process is dead but has left something that holds its output
  open, such as a child of its own: `cmd.Run` has no `WaitDelay` (:418).
- Algorithm distribution. `CanceledKept`: a cancelled job whose transfer was
  cleared is overwritten with failed (:561). `UnmountConverges`: a watcher gives up
  after 30 s and its job stays running for good (:534).
- Health. `AskedWhileMounted`: the components are asked after the lock was released
  (`types/status.go:100`), so one may be unmounted by then. The two seconds of the
  comment at :55 are a context handed to the component: one that ignores it is
  waited for without a limit.
- Dispatch. A role is asked for before the ability takes its own lock
  (`edge_role_ability.go:134`), so a command may take effect after the role was taken away.
- Roles. The comment at `role_ability.go:65-67` says that a peer with a valid token may
  set any legal role, a soft control; `one_key_ability.go:134-139` refuses every
  remote set_role. The two contradict each other: `AdministrationIsLocal` states what
  the code does, which is the second.
- Keyring. It is saved only by Unmount: a crash brings revoked tokens back. After a
  save that failed, mounting the same Atom again replaces memory by the older file.
  SaveSnapshot writes a table of any size and LoadSnapshot refuses a file beyond
  4 MiB (:538): an Atom whose table has grown past that cannot be mounted again.
  `SnapshotLoads` therefore excepts what is `TooLarge`.
- Serial. Of two opens of one port the loser closes the device of the winner
  (:205); a close that is slow may close a reopened port (:237).
- Configuration. `SavedLoads`: one value may be as long as the whole file that
  load accepts (`config_data.go:22`), so a saved configuration may not load.
  `LoadsWhole`: a load beside a save can install a mixture of two versions. Save
  without overwrite checks for the file and then writes (:271).
- Time. A sync that is slow replaces a newer one (:261); a source that answers
  the zero time counts as no sync. `sync_ntp` stores an estimate
  (`time_ntp.go:128`), which is ahead of the server by half of what the request took
  longer than the response: `NoHeadStart` allows for half of the query.
- Databases. configure validates the caller's slice (`database_components.go:150`,
  :202) and copies it afterwards (:153, :206), both outside the lock: a caller that
  writes to it in between has a configuration stored that nobody validated.
- Docker. `WhatWasChecked`: the image of create_container is checked trimmed and
  sent untrimmed (:220, :244). The counter of both gates can refuse a call while
  fewer than the limit execute, because a refused call is counted until it is
  taken off again. `TimeoutNatural`: a negative stop timeout goes through
  (`docker_ability.go:284`, :292), since only the upper limit of :33-35 is applied.
- Kubernetes. `OutputBounded`: the comment at :34 bounds what get_logs, list and
  get return; only get_logs is cut. `NamespaceChecked`: the comment at :413-416 has the
  whitelist guard the paths `/api/v1/namespaces/{ns}/...`, but a namespace is only
  trimmed, in the commands (:237, :264, :293, :324, :363) and in set_context (:173).
- Modbus. A read response names no address, so a late response of the same shape is
  taken for the answer; the echo of write_holding_multi names no values. An error
  does not mean that the unit did nothing.
- TSN. set_interface answers with a field it reads after unlocking
  (`tsn_ability.go:140`), so it may answer with another caller's interface.
  set_priority_map checks the caller's map before the lock (:183-190) and reads it again
  under it (:193-195): a queue that does not exist may be stored if the caller
  writes to the map in between.
- eKuiper. create_stream checks, calls the engine and records in three steps
  (:192 on); two creations of one name reach the engine both, and a create that
  overlaps a drop, or a start that overlaps a stop, may be recorded in the other order.
- Influx. An operation that ends after SetTransport notes its old revision (:299),
  and the new transport is then refused as stale. The first operation after
  SetTransport is admitted under any credentials (:285 says so), so the rotation the
  comment at :65 wants detected goes unnoticed when it comes before that operation.
- MQTT client. The read loops are said to be the only readers
  (`examples/verify/mqtt_transport.go:89`, :94), but an old loop that has not
  noticed its end may read the next connection. Acknowledgements carry a constant
  identifier, so one that comes after its request's timeout answers the next (:184).
  A connection lost from the other side is never closed here.
- Shells. Two overlapping SetShell may leave CmdAbility with the older shell,
  against "始终允许 sh -c 调用" (`sh_ability.go:138`). Sh replaces the whole
  allowlist of the CmdAbility it is given, also one somebody else uses.
- Network map. After a scan that failed the default interface may be one that the
  table no longer has.
- An ability's `closing` flag is never reset (`serial_ability.go:142` and others):
  after Reset and a second mount it refuses every command.

## 6. Proofs

Each theorem is about the specification of its module, for every value of the
constants that the assumption named with it allows. "Property" is what a run checks
on a small instance.

| Module | Theorem | States |
|---|---|---|
| `AtomLifecycleProofs` | `TypeCorrect` | `TypeOK`, and that every call stays within its list (`Positions`) |
| | `OneTransactionHolds` | one lifecycle call at a time, and no guard outlives its call |
| | `RegistryFrozenHolds` | a mounted or running Atom's registry is what was mounted |
| | `NothingLeftUpHolds` | nothing is up in a created, stopped or failed Atom |
| | `MountedOnceHolds` | no component is mounted or torn down twice in a transaction |
| | `DependenciesUpHolds` | a component is up only while its dependencies are |
| | `StoppedIsQuietHolds` | a stopped Atom has no callback of its mount executing |
| | `ContractImplemented` | `AtomLifecycle` implements `AtomContract` |
| `FileTransferProofs` | `TransfersOwnedHolds` | a running transfer is in somebody's hands, a channel is closed once, Unmount drains |
| | `CancelReachesTransportHolds` | a cancellation reaches the transport that still runs |
| | `ContractImplemented` | `FileTransfer` implements `TransferContract` |
| `AlgorithmDistributionProofs` | `JobsHonestHolds` | a job never claims more than its transfer, transfers are not shared |
| | `WatchersEndHolds` | a watcher settles its job or is out of time, none outlives Unmount |
| | `OutcomeFinalHolds` | an outcome stays until it is cleared (an action property) |
| `CmdJobsProofs` | `SlotsBalancedHolds` | the counter is the number of slot holders, and the limit holds |
| | `NothingEscapesHolds` | kill and Unmount find every process, and none is left after Unmount |
| `KeyringProofs` | `FileSoundHolds` | every file a crash may leave loads, unless it has outgrown the limit; a save that returned nil is durable |
| | `TokensSoundHolds` | dead tokens stay dead, genuine ones are accepted |
| | `CommandsGatedHolds` | tokens, administration, roles and limits of remote commands |
| `MQTTQueueProofs` | `ExactlyOnceInOrderHolds` | every message is in one place, in order |
| | `NoSleeperBehindMailHolds` | no drain sleeps while a message has nobody awake to take it |
| `TablesProofs` | `ReportsHonestHolds` | Status, Health and WaitState tell of moments the Atom has been through |
| | `QueuesClosedHolds` | at rest the open queues are those of the table; Unmount leaves none |
| | `BrokerAgreesHolds` | of commands one by one the table of subscriptions and the broker agree at rest, but for what calls that failed have left in this session |
| | `ClientHonestHolds` | a request that succeeds was done by the broker, one loop reads each connection, a message keeps its length |
| | `ShellsAlwaysHold` | the shell in force is the one CmdAbility starts; what Bash admits is started; bash reads every text as it was given, and the scan finds a metacharacter just when a shell sees one |
| | `AnswersAreSound` | dependencyOrder returns one of the orders there are, or an error if there is none; the cycle it names is one |
| | `OrderIsDeterministic` | its answer depends neither on the order in which the registry is listed nor on that in which a component lists what it depends on |
| | `EngineAgreesHolds` | the tables of eKuiper agree with the engine's on what is at rest |
| | `CredentialsAlwaysHold` | one setter at a time loses no field; a rotation without overlap replaces no token in use; an operation has one set of credentials |
| | `TablesAlwaysHold` | a topology names an interface it has and misses no peer that stayed; no update is lost; a stream has one registration; gate states stay what was set, whatever callers do to their slices; priority maps and configurations are what was validated, unless the caller writes to its argument during the call itself |
| `AbilitiesProofs` | `PortsHonestHolds` | no descriptor leaks; of commands one by one the table is true |
| | `BaseHonestHolds` | get_time always answers, the base is ahead of its source by at most half of the query of sync_ntp, a default never replaces a sync |
| | `GatesAlwaysHold` | the limit of calls in the transports holds and no slot is lost; the names and kinds sent (but create's image) were checked, timeouts and lines limited from above; a command without a namespace acts in one in force |
| | `LoadRestoresHolds` | a load that no save disturbs restores what a save wrote, whole (an action property) |
| | `EventsCompleteHolds` | an emission tells the sinks that were there; a snapshot has the latest durations |
| | `MasterHonestHolds` | a read that succeeds is complete, and what its unit held if the response is its own; a write that succeeds was done by some unit |

### Assumptions

They are about the bounds and about model values, never about the behaviour:

| Assumption | Says |
|---|---|
| `AtomLifecycle!ConstantsAssumption` | finitely many components, relations over them, `MaxMounts` a number |
| `FileTransfer!TransferAssumption`, `AlgorithmDistribution!TransfersAssumption` | the bounds are numbers |
| `CmdJobs!SlotAssumption` | finitely many users, a limit of at least 1, as the constructor sees to |
| `Keyring!KeyringAssumption` | the bound and the limit are numbers; the empty secret is no secret; *no file* and *torn* are no snapshots |
| `CommandGate!LimitAssumption` | the two limits are numbers |
| `MQTTQueue!QueueAssumption` | finitely many drains, a capacity of at least 1 (`newMQTTQueue`) |
| `MQTTSubscriptions!TableAssumption` | `MaxQueues` is a number |
| `MQTTClient!ClientAssumption` | the bounds are numbers, a length is one that four bytes can say, *none* and *message* are no requests |
| `DependencyOrder!OrderAssumption` | finitely many keys, each with a position of its own; a declaration is a list, and what stands for a panic is none |
| `Shells!ShellAssumption` | `sh` is a shell, `bash` the first word of some command, the bound on texts is a number |
| `Credentials!CredentialsAssumption` | the bounds are numbers, finitely many measurements, *free* is no client |
| `NetworkMap!MapAssumption` | *none* is no name of an interface, a peer or a host |
| `TimeSensitive!StreamsAssumption` | the slice the ability allocates is no client's |
| `Databases!DatabaseAssumption` | unusable addresses are addresses, *none* is no slice, the bound is a number |
| `ConfigFile!FileAssumption` | finitely many keys, the limits are numbers; *no file* and *torn* are no configurations |
| `Observers!EventsAssumption` | finitely many goroutines, a ring of at least one slot (`ringCapacity` is 1024), the bound is a number |
| `SerialPorts!ConfigAssumption` | *not open* is no configuration |
| `TimeSync!ClockAssumption` | the bound of the clock is a number |
| `ModbusMaster!CommandsAssumption` | unit 1 exists, the sizes and limits are numbers; a request reads a number of values from an address or writes natural numbers, a single write one, a coil 0 or 1 |
| `Orchestrators!OrdersAssumption` | finitely many clients; the limits are numbers, with room for a line of log; the default is a namespace, and clean; dirty namespaces are namespaces; get_logs is no change of a resource |

TLC evaluates each in the run of its module. Users, clients, drains and keys are
finitely many only where a cardinality of them is compared with a number. `StatusReports` and
`StreamEngine` need no assumption.

### The arguments

None of the properties is inductive by itself; each module strengthens its own to
`Inductive`, which has one lemma for each part and one case for each action.

- **Lifecycle.** `NothingLeftUp` says nothing of
  a call halfway through its list. The strengthening has five parts:
  types; `Positions`, where a call can be in its list; `Guarded`, that a call past its
  guard is what holds the guard, so that all other calls are idle; `Walked`, that
  what is up is *exactly* the prefix of the list the call has reached (growing while
  it mounts, shrinking while it tears down); and `AbandonedFails`, that a callback of
  this mount is abandoned only by a call that ends in Failed. The lists are in
  dependency order (`OrderLists`), and a prefix of such a list contains what its
  members depend on (`FirstClosed`): that is `DependenciesUp`. The refinement maps
  `registry` to `registered` and `serving` to the elements of `mounted`; only the ends of the
  transactions are not stutters, and that a mount's registry is mountable follows
  from the existence of its order (`OrderMountable`).
- **File transfers.** `Owned`: a transfer is with its worker or with one command,
  never both. `Signals`: whoever is about to close a channel is the only one, because
  each such step begins with a transfer that leaves "running", where nothing
  returns. `Shutdown`: what each step of Unmount has reached. The refinement is a
  case per action: one status moves as the contract allows, or none.
- **Algorithm distribution.** A job has one transfer and one watcher (`Owned`,
  `Watchful`). What a watcher has read of a transfer is still true when the job shows it,
  since an outcome of a transfer only ever gives way to its being cleared (`Follows`); so
  `Settled` survives every step of the other ability.
- **Command jobs.** Counting: `Counted` equates the counter with the calls
  and jobs that hold a slot and `Limited` counts those admitted alone, which the
  overshooting counter does not. `Recount` says what one move does to a
  cardinality. `Found`: each live job is ahead of Unmount.
- **Keyring.** `Books` are the conditions LoadSnapshot checks, in the form that the
  operations preserve: open tokens and revocations together are at most the total. They hold of memory and,
  with the ghost of what was dead then, of every file that may be found (`Filed`).
  `Accounted` and `Signatures` follow tokens between the two sections of issue_token:
  one that is or will be signed has the secret in force or is dead.
- **Commands.** The phase of a call tells what it has passed: `Admitted` after the
  authentication, `Checked` after the role check, of what it saw then. A role may be gone
  by the time it acts (section 5), and the theorem does not say otherwise.
- **MQTT queue.** `Ordered`: what has left the buffer is older than all it holds. For the
  sleepers, a drain about to sleep has held the lock since it saw the buffer empty
  (`Dozing`), a push adds a message and wakes one, and a drain that takes none leaves none.
- **Status and health.** The Atom is any that keeps `AtomContract` (`AtomOK`). Of a
  call, one moment, whichever, accounts for all it has been told so far
  (`Accounted`).
- **Subscriptions.** Every open queue has exactly one owner: the table under one topic, one
  call that took it out, or Unmount (`QueuesOwned`). `Places` says what each place in
  a call can own; at rest only the table does. Against the broker, of commands one by one
  (`AsOne`): where the two differ, the one command there is has still to withdraw or
  restore the topic (`Ghosts`, `Losses`) or Unmount has still to drop the session
  (`Pending`), and what it goes on to tell the broker is still right (`Informed`). A call
  that fails adds its topic to the history `ghosts`, which a new session empties; that
  is all that is excepted.
- **MQTT client.** First the encoding: a length of one to four bytes is decoded to what was
  encoded (`LengthKept`). Then a ledger for each kind of request that has never
  timed out (`Ledger`): nothing of that kind is under way while no call waits for it; a call the
  broker has not performed has its one request on one connection and no answer
  anywhere; and one that was performed has no request left, and one answer, which is coming, with a
  read loop or in the channel. So an answer of the kind a call waits for is its own. A kind that
  has timed out leaves the ledger, since a late answer stays in the channel (section 5).
- **Shells.** Texts have any length, so what the scan, the quoting and the reader compute is
  shown by induction along the text (`Along`: a function of the position whose value at each
  is a step from the one before). The scan and the reader go through the same states and agree on
  what is active (`Agree`); what quoting has written so far is read back as the
  text so far, with the quote open and nothing found (`Literal`). Of the lists: when
  changes do not overlap, whoever changes one is alone (`OneSets`), so the list of CmdAbility holds
  the shell in force when nobody is; and beside a run that is undisturbed there is no change
  (`NoneSets`), so what it has read is still in force (`Steady`).
- **dependencyOrder.** `Walk` is what a depth-first walk keeps: the stack is a path of
  dependencies that visits nothing twice (`PathOf`), what has been ordered has all it depends on in
  front of it (`Behind`), the marks say where a component lies (`MarksTell`), and what the loop of a
  component on the stack has passed is ordered, but for the one it is visiting (`SeenOf`). So a
  dependency that is on the stack closes a cycle, and each member of a cycle depends on another,
  so that none can come first. Once nothing is left every component is ordered, and the
  first of any part of them depends on none of that part. Two calls agree on every variable (`TwinAgrees`),
  since the state tells which step comes next (`TurnTold`), and what a loop turns to, the least
  of what it has left, is the same in both.
- **Streams and rules.** `Agreed`, of each item apart: the commands on it commute
  (`Compatible`), each knows what its own step will find (`Knows`), and where the table
  and the engine differ a command on its way back is to record the difference
  (`Follows`). A lost answer or a conflict takes the item out of what is claimed.
- **Credentials.** `OneSetter`: a setter that is not overlapped holds what is in force but
  for its own field. `TokensKept`: a rotation that is not overlapped has nobody use the token
  it replaces, because an operation without overlap is the only one (`OnlyOperation`), so that
  what the ability remembers between its sections (`Remembers`) is still what the data
  serve (`Serves`).
- **Network map, TSN, databases.** `Answering`: a set_interface that nothing overlaps still
  has its name in force when it reads its answer. `MapCall`: in a topology that a caller
  reads, the node's own part is whole, and the peers that stayed are among those there.
  `SliceOwned` and `ConfigOwned`: the gate states and the configuration in force lie in
  memory that was never handed out; what a configure or set_priority_map under way holds
  is what it validated, as long as its caller has left it alone.
- **Serial ports.** `NoneLeaks`: an open device is in the table, or with a call
  that will record or close it, or its Close has failed. While commands come one by one and
  Close succeeds (`Calm`), `TableInForce` relates each port to the call on it.
- **Time.** `Based`: a command about to read the base has seen that there is one or put one
  there, and so has the runner past its start; the base is never taken away. A task
  that is to set the base has read its source no later than now, or has estimated its time
  from a query whose request took no longer than the whole (`Estimated`): what it puts
  is ahead by no more than half of that.
- **Orders.** `Ordered` is what a call carries at each stage: but for a namespace it was checked
  when it was begun, and its namespace was in force at some time since. `Holding` are the calls that have
  raised the counter and not lowered it, which `OrdersCounted` follows from step to step;
  those admitted found the counter below the limit.
- **Configuration file.** `OneWriter`: a save still marked clean has the file for itself.
  `AsSaved`: between saves the file is what the last one wrote, whole. `AsRead`: a load still
  marked clean holds what the file is. Each mark is lost by the step of another goroutine, so
  the three stand or fall together.
- **Events.** `Told`: those called and those still on the list of an emission are together those
  that were there when it began. `Holds` relates the ring to what was recorded: slots up to the
  position hold the last lap, the others the lap before; the snapshot is a rotation
  of the latest durations, and a bijection carries the one to the other (`SameTimes`).

- **Modbus.** First the encoding: what `decodeRegs` and `decodeCoils` make of a unit's bytes is
  what was encoded (`RegistersDecoded`, `CoilsDecoded`), for sequences of every length, and the
  five bytes of an echo tell writes apart (`WriteBegins`, `WordsDiffer`). Then the
  log of what was sent: every entry is what a unit made of that request (`LogSound`), a
  call knows its own entry (`OwnExchange`), and what it has received came from some entry,
  perhaps damaged (`Arrived`). No damage passes for the echo of a write (`WrittenHonestly`).

The theorems about parts are of the composition's specification (`Tables!Spec`,
`Abilities!Spec`, `RemoteAccess!AccessSpec`): each step of it is a step of the part or
leaves the part alone (`OneMoves`), so the part's own invariant is one of the
composition. The modules that TLC checks only choose values for its constants.
`OneCardinality` and its like are there because an instance brings its own copy of
the operators of FiniteSets.

### What stays with TLC

- Liveness and everything that needs ENABLED: `TeardownEnds`, `RunAllEnds`,
  `CloseReleases`, `CancelReleases`, `UnmountReturns`.

## 7. Running

    tlc -config AtomLifecycle.cfg MCAtomLifecycle.tla
    tlapm AtomLifecycleProofs.tla

and so for the other modules named `*Proofs`. Each takes
one to six minutes from nothing, `TablesProofs` a quarter of an hour.

Every `X.cfg` belongs to `MCX.tla`; `AtomLifecycleRunnerFaultReported.cfg`,
`MQTTQueueDrainEnds.cfg`, `FileTransferCancelWins.cfg` and `CmdJobsUnmountCancels.cfg` to
the module their name begins with. `Abilities.cfg`, `Tables.cfg` and `Keyring.cfg` take
two to four minutes each with two workers, the others less.

## 8. Not modelled, and the plan

Not modelled by choice:

- the entry points RunAtom and CloseAtom, which check their options and call
  RunAll and Close, and the standard skeleton, a fixed list of registrations;
- the verification program of the examples, beyond its MQTT client: it registers
  components and prints what they answer;
- the wording of errors, and base data (constant answers);
- the validation of addresses, host names and identifiers, which works on strings
  character by character, and the endpoints that Docker, Modbus and eKuiper store and
  only read back;
- of the roles: zone, latencies, the controller, heartbeat and status, each one value
  behind the gate that is modelled;
- of the network map: the node's own name.

What is left, in order:

1. The composition of an ability's `closing` flag with Reset and a second mount.
2. `ConfigFile`: set_path and the confinement of paths.
3. Events: SetEventSink beside an emission.
