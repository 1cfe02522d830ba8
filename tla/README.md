# PIMAD-Edge: specifications, model checking and proofs

PIMAD-Edge is a gateway between hubs on a local MQTT broker and a server reached over
gRPC. It is one process of tokio tasks that own their state and talk over bounded
channels. This directory holds TLA+ modules translated from the Rust source
(`src/src/...`), TLC runs that check them on small instances, and theorems about them that
TLAPS has proved. `PROJECT.json` maps each definition to the lines it models and lists the
runs, the mutants (a plausible bug that each property must catch), the findings, the hazards
and the theorems.

## 1. Inventory

| Component (source) | State | Operations | Correct when |
|---|---|---|---|
| General FSM, machine (`third_layer/fsm/domain.rs`) | global state and three sub-states | `FsmState::step`, `compute_on_entry` | the hierarchy is kept; every waiting state is left by a timeout |
| General FSM, runtime (`third_layer/fsm/logic.rs`) | session (votes, attempts, epoch), channels, the last mode and heartbeat command | `run_fsm`, `handle_events_and_actions`, the quorum algorithms | session, announced mode and heartbeats follow the machine; no epoch opens two balances; attempts are limited; the balance ends |
| Watchdogs (`fsm/domain.rs`, `heartbeat/domain.rs`, `metrics/logic.rs`, `firmware/logic.rs`) | idle, or a sleep | `InitTimer`, `StopTimer`, the timeout | no timer is lost, none outlives its state |
| Heartbeat monitor (`third_layer/heartbeat`) | `FsmHeartbeat`, status | beat, timeout, tell three services | a silent server is declared dead, a beating one is not, the services agree |
| gRPC service (`first_layer/grpc_service`) | `StateClient`, session, two channels | connect, upload, report, back off | it gets back to the server; it drops only what a broken stream carried |
| Message service (`second_layer/message`) | server and local status | route readings, commands and batches | a reading goes to the server or to the database, and to one of them |
| Data service (`second_layer/database`) | buffer of four vectors, status, tables | buffer, flush, pop a batch, epoch, topology | what is stored leaves in a batch exactly once |
| Middlewares (`second_layer_middleware`, `third_layer_middleware`) | none | pass messages on | they do not block for ever |
| Network service (`third_layer/network`) | topology in memory, in the database, as MQTT subscriptions | add, change, delete a network; link a hub; settings | the three views agree on the networks; what is acked is done |
| Firmware service (`third_layer/firmware`) | phase of an update, answers of the hubs | update the edge, update the hubs | one outcome per update, whatever comes late |
| MQTT service (`first_layer/mqtt`) | connection, subscriptions | publish, subscribe, reconnect | what the topology asks for is subscribed after a reconnection |
| Metrics (`third_layer/metrics`) | connection, timer | collect, send while connected | it reports while connected |
| Quorum settings, configuration, checks, context, wiring (`quorum`, `config.rs`, `system`, `context`, `main.rs`) | read at start | builders | – |

**How they interact.** A hub's message enters by the MQTT service and goes through the
message service and the second middleware to the FSM, the data, the network or the firmware
service. An upload goes from any service to the message service, on to `GrpcService::run`
and from there to the client task. The status of the server has two sources that do not know
of each other: the gRPC client (to the message service) and the heartbeat monitor (to the
metrics, the data and the message service). The status of the broker goes from MQTT through
the message service to the FSM. The topology is shared behind a read-write lock; all else is
messages.

**What is hard.** Every service is a loop around `tokio::select!` whose branches await sends
on bounded channels, so a full channel stops a whole service and cycles of services can stop
each other. Services that work on an event hold on to an older state of their peers. Sleeps
race the messages that should cancel them: a watchdog whose `select!` receives something
else than a `StopTimer` swallows it and goes deaf until the sleep ends. Rows are deleted
before they are sent, errors of the database are dropped, a restart keeps the tables only.
The hazards of `PROJECT.json` give the lines.

## 2. Modules

| Module | What it is |
|---|---|
| `FsmDomain` | the machine of the general FSM as a pure function, `Step(state, event)`: a set with one transition, or empty |
| `Watchdog` | the states of a watchdog task, `deaf` included; used by both state machines |
| `EdgeFsm` | the FSM runtime: `run_fsm`, the handler, the watchdog, the channels between them, the epoch in the database, with hubs, broker, topology and restarts around it. Extends the two above |
| `MCEdgeFsm` | symmetry for TLC |
| `EdgeFsm_proofs` | theorems about `EdgeFsm`: types, hierarchy, epochs |
| `EdgeFsmQuiet_proofs` | theorems about what its tasks agree on when nothing is on its way |
| `GrpcLink` | `GrpcService::run`, the client task, the network and the server |
| `StoreForward` | extends `GrpcLink` with the message service, the second middleware and the data service: the way of a reading from the hub to the server |
| `MCStoreForward` | sets of readings for TLC |
| `HeartbeatMonitor` | the monitor's machine, handler and watchdog |
| `MetricsReports` | extends `HeartbeatMonitor` with the metrics service it tells: `system_metrics`, `metrics_timer` and the third middleware between them |
| `FailureDetector` | what the monitor promises; `HeartbeatMonitor` implements it |
| `HubOta` | the firmware service: relay, `hub_ota`, `edge_ota`, watchdog, with the hubs, the server and the restart of the process |
| `MCHubOta` | networks of hubs for TLC |
| `MqttClient` | the task `mqtt`: its states, subscriptions, requests not yet sent, and the broker's clean session |
| `HeartbeatMonitor_proofs`, `MetricsReports_proofs`, `HubOta_proofs`, `NetworkTopology_proofs`, `StoreForward_proofs` | theorems about the modules they are named for |
| `SequenceLemmas` | what receiving, sending and joining do to a sequence, for the proofs |
| `NetworkTopology` | extends `MqttClient` with the network service, the data service's side of it (tables `network` and `hub`) and `FsmService::run` around `create_runtime` |

**Granularity.** An action is one task running from one await that can block to the next.
What a task still has to send is part of its state (`outbox`, `held`, `sending`,
`forwarding`, ...); it receives nothing until that is sent. An `async` send is enabled when
its channel has room, so waiting, and waiting in a circle, is visible. One branch of the code
is one action: `TakeActions` is the second branch of the handler's `select!`,
`EnterHandshake` one arm of `handle_action`, `FlushToDb` the function `flush_to_db`. A
command of `NetworkTopology` changes the memory in one step and leaves in `todo` the steps that
follow, one per await: a SQL statement (with what follows it if it fails), a command to the
MQTT client, an ack, `Run`. A crash may come between any two. `hub_ota` keeps what the event in
hand still sends in `outbox`, the panic of an index out of bounds among it: the release build
aborts on a panic, so `Panic` ends the process and `Restart` begins a new one.

**Data.** Messages are their kind and what the properties tell apart (an epoch, a hub, the
readings carried). Percentages are compared as integers, with the cases the code's floats make of
a division by zero. The eleven topics of a network come and go together, so the network stands for
them; payloads that are published are left out. Logging, serialization, topics and metadata are
left out.

**Time.** A sleep may end at any moment, or (with `Prompt` in `EdgeFsm`, always in
`HeartbeatMonitor`, `MetricsReports` and `HubOta`) once the tasks have handled what is in flight;
the sleeps take from 30 s on, and handling takes milliseconds. Even then the `Timeout` it sends
races everything that comes after its end.

**What is not in the code.** `EdgeFsm.shouted` holds the epochs broadcast;
`StoreForward.received`, `GrpcLink.lost` and `delivered` where readings have been;
`HeartbeatMonitor.silent` and `fresh` whether a whole sleep passed since the last beat;
`HubOta.reported` which hubs have ever reported success; `NetworkTopology.acked` what the server
was last told of each network. No guard of a task reads them, with one exception: hubs answer
epochs in `shouted`, which is what they have heard.

## 3. Runs

| Run | Properties | Shows |
|---|---|---|
| `EdgeFsmHubs` | `SessionFollows`, `NormalDisarmed` | two hubs that answer late, twice or never, one or both of them registered, no disconnection: handler and machine stay in step, and in the normal mode the watchdog is idle, or deaf with its `StopTimer` waiting |
| `EdgeFsmLinks` | `LinkFollowed`, `ModeAnnounced`, `HeartbeatsMatch`, `RepeatsBounded` | four connection events anywhere, one or two hubs registered, saves of the epoch that may fail: machine, mode and heartbeats end where the last event puts them, and balances that are cut and counts that come late do not repeat a handshake more than `MaxAttempts + 1` times |
| `EdgeFsmFaults` | `TypeOK`, `Hierarchy`, `NeverStranded`, `EpochRecorded`, `FreshEpoch` | failed reads, a restart, disconnections, a topology that becomes empty, timers that end at any moment: the machine never waits for nobody, and until a read fails the handshake that opens a balance goes out with an epoch that none was broadcast with |
| `EdgeFsmLive` | `NeverStranded`, `Settles` | channels of one message between handler, watchdog and machine: no message is lost, and the balance and the safe mode end |
| `StoreForward` | `TypeOK`, `Conserved` | two readings, an outage, a monitor that changes its mind twice: a reading is in exactly one place unless a stream broke under it |
| `StoreForwardLive` | `EventuallyDelivered`, `Reconnects` | with room for the uploads of the outage, the client reconnects and every reading arrives |
| `HeartbeatMonitor` (module `MetricsReports`) | `MetricsTypeOK`, `ServicesTold`, `Watched`, `Armed`, `Detects` | seven beats racing the timeouts: the monitor implements `FailureDetector`, and the metrics service has a report on the way while the server is there |
| `HubOta` | `TypeOK`, `Watched`, `OnlyReported`, `RolloutEnds` | overlapping requests, late and missing answers, an update of the edge in the middle: no rollout waits untimed or for ever, none counts a hub that has not reported |
| `NetworkTopology` | `TypeOK`, `AcksAreDurable`, `NetworksAreDatabase`, `HearsNetworks`, `HubsRunTheFsm`, `DeletionsAreComplete`, `Reconnects`, `FsmKnowsTheLink` | three commands, an outage of the broker, a crash anywhere and a failed statement: the networks in memory and in the database, the subscriptions and the FSM agree when at rest, what was acked survives, an acked deletion leaves no hub behind, the client gets back |
| `StoreForwardSchema` (violation) | `Conserved` | stored measurements and alerts are lost: their INSERTs name a column that the tables lack |
| `HubOtaLateTimeout` (violation) | `TimeoutOfRollout` | a `Timeout` overtaken by the last answer makes `hub_ota` index past the end of its vector, and the process aborts |
| `NetworkTopologyDeaf` (violation) | `HubsCanLink` | after the first network of an edge is inserted no hub can be heard until a restart; after a later change none can be linked until a reconnection |

**Bounds.** `Max...` constants bound what the environment does. The runs of `EdgeFsm` have one or
two hubs, four or fewer messages and connection events: one balance with all its repetitions, cut
in any place, and the start of the next; `HubCounts` is what the topology may say, now and later:
one or two in `EdgeFsmHubs`, so that one hub can make a quorum and four messages carry a balance
through the three phases to the normal mode, and in `EdgeFsmLinks`, so that the one hub that
answers makes a quorum or not and its late vote asks for a count of its own. The counters
(attempts, epochs) follow from these. `PenaltyStep` is the literal 5.0 of `fsm/logic.rs:921`, but
in `EdgeFsmHubs`: there it is 40, as `MaxAttempts` is 2 where `protocol.toml` has
14: fourteen attempts bring the threshold down to what one hub of two reaches, and so do two with
40, while two with 5 would leave it at 75 %. Channels have their real capacity where blocking is
not the question, and one message where it is (`EdgeFsmLive`). The circular wait of `run_fsm` and
the handler, which needs 50 vectors and a full channel of events at once, is avoided by the
capacity of `events`; that is an assumption of these runs, as the hazard at `logic.rs:1249` says.
`StoreForward` has two readings, `Limit` 1 (for 10), `BatchSize` 2 (for 49) and channels of one
message where the code has 10 to 100: a table holds more than one batch, a vector fills, and the
tasks block on each other. Two channels are larger: `OutboundCap` 3 and `HandleCap` 3 hold what is
uploaded in the bounded outage, so that nobody blocks on them; what happens when they do not is
the third of the findings without a run. `HubOta` has two hubs, two requests and three answers: a
rollout, its repetition over the same hubs, an answer of the first in the second. `HubOta`'s
channels into the tasks hold one command, so the relay blocks, and the watchdog's two, so
`hub_ota` blocks on a deaf one. The seven beats of the monitor fill its channels of actions and
commands, and make the server come and go while `metrics_timer` is deaf; `ConnCap` has room for
every change of status those beats make. `NetworkTopology` has two networks (one that changes, one
that must not), a hub that may ask to be in either, and one each of outage, crash and failed
statement, which meet in every order with three commands: an insertion, a change and a deletion,
or a deletion and a new insertion.

**Fairness.** Weak fairness of each task, of the ends of sleeps and of tickers: tokio runs a task
that can run, and a sleep ends. Strong fairness only for `TakeActions`: `select!` picks at random
among its ready branches and does not pass over one for ever. So it is for `TakeNetCommand` and
`SendRequest` of `MqttClient`, which compete in one `select!`, and for the sleeps of
`MetricsReports`, which end although the other service goes on having work. `HubOta` assumes that
downloads end and that a supervisor starts the process again. `GrpcLink` assumes that a server
that is gone comes back, that a dead stream is noticed (keep-alive, 40 s + 20 s) and that an open
stream delivers. The hubs, the broker, the commands and the beats of the server are not fair.

**Findings.** The three violation runs, each against a line of the documentation; and these,
which came up while modelling and have no run of their own:

1. *Stale votes.* The entry into `InHandshake` does not clear `handshake_hash`
   (`fsm/logic.rs:465`): votes of a balance that was cut short approve the next one.
2. *A phase skipped.* Every report past the percentage sends `QuorumPhase` again
   (`fsm/logic.rs:963`), and a second one ends the next phase too.
3. *The gRPC service wedged.* While the client is not in `Work` nobody receives uploads; once they
   fill their channel (61 places, a state of the edge every 10 s: an outage of a quarter of an
   hour), `GrpcService::run` waits for room (`grpc_service/domain.rs:113`), no longer receives the
   client's events, and the two wait for each other for ever.
4. *A service that waits for itself.* `handle_mqtt_message` sends to the channel that only its own
   task drains (`message/logic.rs:942`).
5. *Failed statements reported as done.* `DataHandle` answers `Ok(_) => true`
   (`database/domain.rs:136`, `162`, `176`, `214`): a failed INSERT of the epoch counts as saved
   (hence the assumption of the epoch theorems), an unsaved network is acked with 100, and the
   codes 101, 301 and 401 are never sent (hence `spent.faults = 0` in `AcksAreDurable` and
   `NetworksAreDatabase`).
6. *Hubs of deleted networks.* `remove_network` leaves them in memory (`network/domain.rs:94`), so
   they are counted for the quorum, and a hub that comes back is "already registered" though its
   row is gone. `linkage` acks a hub of an unknown network (`network/domain.rs:117`).
7. *A command repeated after a crash.* The change is in the database and the ack was not sent: the
   repeated command is `Ignore`, and never acked (`network/logic.rs:172`).
8. *Settings of a hub.* `cast_settings_to_hub_row` (`message/domain.rs:151`) gives the row no id,
   so all settings share the key `""` (`Nameless`): the first to come is stored, also for a network
   that does not exist as long as there is one, and the INSERTs of all others fail. It is stored in
   the database only (`network/logic.rs:365`); a restart loads it as a hub of its network that is
   nobody, counts it for the quorum and starts the FSM for it. The hub itself stays unknown until
   it links. With 6, and with a hub that links to a second network (its row is there already, in the
   first one), this is why memory and database agree on the networks only.
9. *Rollouts.* A `Timeout` that comes late skips the next hub; a request during a rollout replaces
   it without an outcome, and leaves its watchdog deaf; when the version cannot be fetched the
   error names the network of the rollout before (`firmware/logic.rs:217`).
10. *Reports without a server.* `system_metrics` starts its timer at the start, before any
    connection, and a `Timeout` that races a disconnection starts it again: the reports go on
    "si hay conexión activa" (`metrics/domain.rs:46`) or not.
11. *A deaf watchdog in the normal mode.* A report that ends the phase `Monitor` may race the
    `Timeout` of that phase (`fsm/domain.rs:421`): the `Timeout` then leaves `OutHandshake`, whose
    watchdog runs, the repetition of the handshake starts it again (`fsm/domain.rs:838`), and the
    `StopTimer` of the approval waits behind the sleep. The `Timeout` that follows is ignored in
    the normal mode; if the broker is lost and found before, it falls into the next balance.
12. *A balance with the old epoch.* The `BalanceEpochOk` of a balance that a disconnection cut is
    handled in the next one, which enters its handshake before it has read its epoch
    (`fsm/logic.rs:443`). If that read fails, `BalanceEpochNotOk` is ignored there: the handshake
    goes on with the epoch of the session before, and the mode announced stays `Disconnected`
    (why `EdgeFsmLinks` has no failed read, nor `ModeAnnouncedCorrect`).
13. *A circular wait* of `run_fsm` and the handler (`fsm/logic.rs:1249`), and attempts of a
    balance that reached no phase, which are charged to the next one (`RepeatsBounded` says that the
    sum keeps to the limit; a balance that follows others may get fewer attempts, or none).
14. *A count that answers another check.* A late vote asks for a count of its own; the
    `NotApproveQuorum` it sends (`fsm/logic.rs:936`) may be taken by the check that the `Timeout`
    led to, whose own count then comes when the machine repeats the handshake.

## 4. Proofs

Eight modules hold the theorems. They are proved for all sets of hubs, networks and readings and
all capacities and bounds that satisfy the assumptions of the modules (natural numbers, Booleans,
finite sets: `BoundsAssumption` and its like). Where a theorem needs more, it says so in an
`ASSUME` of its own, listed here. TLC also finds the inductive invariants true on the components'
runs, but for `ToldInv` and the `OrderInv` of the heartbeat monitor, which quantify over all
sequences.

**`EdgeFsm_proofs`.**
- `TypeCorrect`: `TypeOK` is inductive; one lemma per task, one step per action. It rests on
  `StepWellformed`: a transition leads to a well-formed state with well-formed actions.
- `HierarchyKept`: inductive together with `TypeOK`, by the same lemma on `Step`.
- `EpochsRecorded`: with `SaveMayFail = FALSE`. Saves come before use, `EnterHandshake` broadcasts
  the session's epoch, a restart forgets the session. The code takes a failed save for a success
  (finding 5), hence the assumption.

**`EdgeFsmQuiet_proofs`.** The properties of `EdgeFsm` speak of quiet states. What makes them
inductive is a statement about the busy ones: `Pending(p, d, W, T)` says that of the actions of `W`
still to be performed, in the vectors of `Pipe` (the channel and the vector `run_fsm` is blocked
with) and in the vector `doing`, the last one is in `T`. When nothing of `W` is left, its effect is
there.
- `LinkFollowedCorrect`: the last connection command, or else the last connection event on its way,
  is that of the broker; if there is none the machine has heard it (`LinkInv`).
- `HeartbeatsMatchCorrect`, `ModeAnnouncedCorrect`: the last action that sets the pace (the mode)
  sets that of the machine (`BeatInv`, `AnnouncedInv`). `EpochInv`, for the epoch of the mode,
  holds when no read fails: `MaxReadErrors = 0` (finding 12).
- `FreshEpochs`: with `SaveMayFail = FALSE`, and until a read fails (`spent.read = 0` in
  `FreshEpoch`; finding 12 is what happens after). A handshake that opens a balance, and a
  `BalanceEpochOk` that leads to one, find the session with an epoch never broadcast, or with the
  entry that takes `dbEpoch + 1` still ahead of them (`FreshInv`, `Ready`): so a `BalanceEpochOk`
  left of a balance that was cut opens the next with an epoch of its own.
- `SessionFollowsCorrect`, `NeverStrandedCorrect`: `EnteredInv`, the last action that is not a
  count enters the state of the machine, and after it the session is in that state, what the state
  asks for is answered by an event on its way, and the watchdog runs, is about to be started, or
  the event that leaves the state is on its way (`Settled`). Without the last part a lost
  `InitTimer` would be possible: this is where deafness and stray `StopTimer`s are shown harmless.
- `RepeatsBoundedCorrect`: with `Prompt = TRUE`. `RepeatInv` says that repetitions come one at a
  time: a `Timeout` on its way, a check that waits for its answer and the entry that repeats the
  handshake exclude each other (`OneAtATime`), that entry is alone in its vector (`Single`), and
  the answer that leads to it was given while attempts were left, none of which has been spent
  since (`Allowed`). The counts of late votes are the hard part: their answers are dropped
  everywhere but in a check, where they stand for its own. `Prompt` is needed: without it TLC
  finds 59 states (no attempts, two hubs counted, six connection events, one message) at whose end
  a handshake is repeated once too often.
- `NormalDisarmedCorrect`: with `MaxLinkEvents = 0` and `Prompt = TRUE`, as in its run. The sleeps
  last thirty seconds and more, the tasks milliseconds, hence `Prompt`, without which TLC refutes
  it. That the broker stays is an assumption of the proof: the order of the vectors below is that
  of one balance. With two broker events TLC found no counterexample (12 million states, three
  messages), but that is neither proved nor a run. The argument (`DisarmInv`): there is one
  `Timeout` at a time, and none while the machine waits for an answer of the handler; of the
  vectors in the channel, those that start the watchdog for the first handshake or its repetition
  (`Opening`) come before all others that start it, those of the last handshake repeated and of
  the safe mode (`Closing`) after them, and all between stop it first (`Rearming`). So every
  `InitTimer` finds the watchdog stopped (`Solid`), except the last of all (`Sealed`), which a
  running watchdog swallows: only the `StopTimer` of the normal mode can then be behind it. TLC
  found `DisarmInv` true on the constants of `EdgeFsmHubs` with a crash and a failed read added
  (7.5 million states).

**`HeartbeatMonitor_proofs`, `MetricsReports_proofs`.**
- `ServicesToldCorrect`: the status of the machine, the vectors in the channel and the three
  services form a chain (`ToldInv`). `WatchedCorrect`: the newest command to the timer starts it.
- `DetectsSafely`: the initial states and the steps of the monitor are those of `FailureDetector`,
  or stutter (the safety half of `Detects`). The hard step is `Timeout` in `NotHeartbeatYet`,
  which must follow a whole sleep without a beat: `OrderInv` gives the order in which beats,
  timeouts and the commands they cause can stand in the channels.
- `MonitorImplemented`: the composition with the metrics service, for which the monitor waits,
  implements the monitor alone, so that its theorems carry over. `ArmedCorrect`: the newest
  message on each stretch from the monitor to `metrics_timer` is the one that starts it.

**`HubOta_proofs`.** `OnlyReportedCorrect`: every answer in a channel is one that a hub gave
(`Truthful`). It does not say in which rollout: an answer names none, and `hub_ota`
(`firmware/logic.rs:234`) counts one that the same hub gave in an earlier rollout, late, as its
answer in the rollout in hand. `WatchedCorrect`: the index of a working rollout is inside its
vector, and its `InitTimer` is in the outbox or its channel, the timer sleeps, or the `Timeout` is
on its way (`WatchedInv`). That the index stays inside says that the abort of `HubOtaLateTimeout`
comes from idle states only.

**`NetworkTopology_proofs`.** `Invariant` proves `IInv`, from which the five properties follow
(`TypeCorrect` apart): what memory, tables, acks, subscriptions and the runtime will be once the
steps in `todo` are done. `HearsNetworksCorrect` is about all networks in memory, paused ones too.
`GoneInv` is for `DeletionsAreComplete`: a network that was acked as deleted has no row, nor have
its hubs, and no statement ahead brings one back; before an ack that is to say so, the statements
that make it true are done or still ahead of it. `IInv` also needs the shape of `todo` (a step is one of
those a command has), the state of a load after a restart (`Loading`), and for each network the
last request of the client that mentions it.

**`StoreForward_proofs`.** `TypeCorrect`: `ChannelsInv` types each channel by its receiver; a
client that is not in `Work` has an empty session. `ConservedCorrect`: the places of a reading are
counted, the copies are one for what was received and not lost with a stream, else none
(`CopyInv`); lemmas say how `Append`, `Tail`, a join, a flush and a batch change a count.
Assumption: every reading is of a kind in `Insertable`, whose INSERT names only columns of its
table. For the other kinds the conclusion is false, which is the finding of `StoreForwardSchema`.

**Only model-checked.**
- `RolloutEnds`, `Reconnects`, `FsmKnowsTheLink`, `Settles`, `EventuallyDelivered` and the
  fairness half of `Detects`: liveness under fairness, and `ENABLED`, are out of the prover's
  reach.
- The three violation runs: they refute.

## 5. Not modelled

- **`heartbeat_generator`, `edge_state`**: only the last command they were given.
- **Message service**: messages to the hubs and commands of the server share its channels
  and are not modelled; in `StoreForward` the state of the edge stands for other traffic.
- **MQTT payloads**: what is published, and what comes in besides a linkage request. While the
  client waits, is in error or handles an update of subscriptions it takes nothing to publish.
- **The lock around the topology**, a failing DELETE in a batch, a crash of the store-and-forward
  path: listed as hazards. `linkage` and `load_memory` hold the write lock across sends,
  `update_subscriptions` and `hub_ota` the read lock; the modules read the topology in one step.
- **What is measured** (`MetricsCollector`), **downloads** (`self_update`, the firmware's
  version): outcomes only. **Start-up checks, configuration, wiring**: I/O done once, no state.
  Shutdown: every task leaves its loop, whatever it held is lost.

## 6. Plan

1. `FsmDomain`, `Watchdog`, `EdgeFsm` and its proofs (done).
2. `GrpcLink`, `StoreForward`, `HeartbeatMonitor` implementing `FailureDetector` (done).
3. `HubOta`, `NetworkTopology` with `MqttClient`, `MetricsReports` (done).
4. Theorems: every safety property that a passing run checks (done).
5. Should more be modelled: the lock around the topology with its holders, the heartbeat
   generator (its `Stop...` racing the end of its sleep), a crash of store and forward and a
   failing DELETE.

At most twelve runs are kept: later ones replace violation runs, whose findings then stay in
this file.
