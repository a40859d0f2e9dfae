# TLA+ models of SimVisionSDK

A verification project for the server in this repository: TLA+ modules that
model its concurrent core, TLC configurations that check small instances, and
TLAPS proofs for every value of the constants. Paths are relative to the
repository root; `commands.md`, `design.md` and so on are the documents at that
root.

## 1. The system

One process with four kinds of threads:

```
 HTTPS clients                                         ZeroMQ subscribers
      |                                                        ^
      v                                                        |
 accept thread -> queue_ -> workers                     publisher thread
                              |  \______ drain() ______        ^
                        CommandHandler                 \       | pop_all()
                         |          |                   v      |
                 SessionManager  ChannelManager     DataPipeline: 3 rings
                                    ^                          ^
                                    | is_active()              | push()
                                    +---- CaptureEngine thread-+
 main: start-up, signals, stop() of each part, last drain
```

| Component (source) | State | Operations | What makes it correct |
|---|---|---|---|
| ChannelFrameQueue (`src/data/SPSCQueue.cpp`) | two counters `head_`, `tail_`, a buffer, `pushed_`, `dropped_` | `try_push`, `try_pop`, `size` | a bounded FIFO that refuses the newest frame when it is full; a slot is written only after it was handed back |
| DataPipeline (`src/data/DataPipeline.cpp`) | three rings, `notified_`, a mutex and a condition variable | `push`, `pop_all`, `drain`, `drain_group` | no frame lost or reordered between `push` and the publisher; no notification lost |
| DataPublisher (`src/data/DataPublisher.cpp`) | sockets per group, `running_`, counters | `start`, `run`, `stop`, `send_group`, `publish_shutdown`, `drain` | what was taken is sent or counted as dropped; it ends when told to; damage to a message stays in that message |
| ChannelManager (`src/data/ChannelManager.cpp`) | subscriptions per client, count and force flag per type | `start_capture`, `stop_capture`, `disconnect_client`, `activate_channel`, `deactivate_channel`, queries | counts equal the sets; a type is on exactly when somebody wants it |
| SessionManager (`src/api/SessionManager.cpp`) | set of client ids | `connect`, `disconnect`, `is_connected` | a connected client is there once |
| CommandHandler (`src/api/CommandHandler.cpp`) | none of its own | 12 commands, each a sequence of locked calls | a client without a session has no subscriptions; queues of groups that go off are flushed |
| AdminServer (`src/api/AdminServer.cpp`) | `running_`, `stopping_`, `queue_`, `listen_fd_`, `ssl_ctx_`, threads | `start`, `stop`, `accept_loop`, `worker_loop`, `handle_connection` | every descriptor closed once; queued connections served; `stop()` returns; the TLS context outlives its users |
| CaptureEngine (`src/capture/CaptureEngine.cpp`) | `running_`, frame numbers, a pacer | `run`, `build_frame`, `stop` | frames only of what is on; one `pair_id` and one timestamp per tick; the pace of `fps`; it ends when told to |
| SimDataSource (`src/datasource/SimDataSource.cpp`) | `pairs_`, `cursor_` | `load`, `next_stereo`, synthesised payloads | images in the order of their indexes, over and over |
| ParameterManager (`src/common/Parameter.cpp`) | the parameters with their values | `register_parameter`, `set_value`, `get`, `all` | values in range whatever is loaded or requested |
| main (`src/main.cpp`) | the life cycle, `CameraSetting.json` | start-up, load, save, shutdown | settings survive a restart; a bounded shutdown |
| Config, Response, Logger | a record, none, a log stream | load, format, log | |

What is hard here:

* **Two consumers of single-consumer rings.** `drain_group` pops in whatever
  thread runs the command, while the publisher pops too.
* **Locks per call, decisions over several calls.** A command tests the session
  in one locked call and acts in another; `any_subscriber()` and
  `group_active()` are asked and then acted upon.
* **Condition variables** with and without the mutex held by the notifier.
* **Stop while work is in flight**: the pool, the publisher, the last drain,
  the order in which resources are freed.
* **Peers that stay quiet**, queues that are full, and PUB sockets that throw away
  what they have accepted.
* **A file that outlives the process**: edited by hand, loaded member by member
  under one exception handler, truncated and rewritten by a process that a
  script kills after ten seconds.
* **Two reads of a clock** for one timestamp, and a pace kept by sleeping.

The list with source lines, and the properties aimed at each, is under
`hazards` in `PROJECT.json`.

## 2. The modules

| Module | Models | Extends |
|---|---|---|
| `Ring` | the buffer and counters of a ring as a record, and each access to it as an operator | |
| `BoundedFifo` | abstract specification: a queue of at most `QueueSize` frames that refuses the newest | |
| `SPSCQueue` | the ring and the threads on it, one action per memory access | `Ring` |
| `Types` | the table of types and groups | |
| `ChannelManager` | the channel state, one action per method | `Types` |
| `CommandHandler` | commands over sessions and channels, one action per locked call | `ChannelManager` |
| `ConnectionService` | abstract specification: what the pool promises about connections, without threads | |
| `AdminServer` | the thread pool, its connections and `stop()` | |
| `DataPipeline` | `push`, `pop_all`, the publisher's loop and its `stop()` | `Types` |
| `Node` | the commands with the capture thread, the queues, the publisher and the shutdown of main | `CommandHandler` |
| `DataPublisher` | the pieces of a message on the three sockets, the broadcast, and the end of main | `Types` |
| `Settings` | the parameters and `CameraSetting.json` over starts, stops and kills of the node | |
| `SimDataSource` | the stereo pairs: what `load` makes of a directory, and `next_stereo` | |
| `Capture` | the tick of the capture thread: clock, timestamp, frames, sleep | `SimDataSource`, `Types` |
| `MCSettings`, `MCCapture`, `MCCommandHandler` | a parameter surface, directories and a symmetry set for the runs | `Settings`, `Capture`, `CommandHandler` |
| `*Proofs` | the theorems about the module they are named after; `CommandHandlerProofs` also those about `ChannelManager` | that module, `TLAPS` |

The modules carry a few operators marked *Faulty variant*, for instance
`PushAdmitted_PublishFirst`. They occur in no next-state relation. Each is a
plausible mistake in the definition next to it, and `PROJECT.json` names the
property that catches it.

### SPSCQueue

`ring` holds `head_`, `tail_` and `buffer_`. The producer's action
`PushAdmitted` is the test of line 17, `PushWrite` the slot (23), `PushPublish`
the store of the head (24) and `PushCount` the statistics; `try_pop` and
`size()` are split in the same way. Frames are numbers in push order and `Null`
is a reset `shared_ptr`. A *consumer* is any thread that calls `try_pop`: the
publisher alone in normal running, and also the workers inside a drain. With
one consumer, interleaving the accesses is exact, since each counter has one
writer and is published with release and acquire. With two consumers the code
has a data race on the slot; the model splits the move into a read and a write,
so it has the outcomes in which both threads leave with the same pointer, and
leaves out only worse ones.

`FifoSpec` says the ring implements `BoundedFifo`: the abstract queue is the
slots between the two counters, an abstract push is the store of the head and an
abstract pop the store of the tail.

### ChannelManager and CommandHandler

Every method of `ChannelManager` holds `mtx_` throughout, so it is one action.
A request's list of types is a set, because the loops skip types the client has
already or no longer has. `CommandHandler` gives each worker a place in the
command it runs and its locals; a step is one locked call, so commands
interleave between calls. Commands refused by their first test change nothing
(`Refuse`). `unflushed` is a history of groups whose queue may hold frames: it
grows when a type is switched on and shrinks in a drain that finds the group
off; what the capture thread adds to a queue afterwards is seen in `Node` only. `OneAtATime` restricts clients to one command at a time.

### AdminServer

The accept thread, the workers and main, each with its place. `qmtx_` is held
over a single step, except from the test of the predicate in `wait` to the
sleep; the place `block` stands for that, and `Unlocked` says no worker is there.
`stop()` is one action per store or call, since it takes no lock. TLS and HTTP
appear only in how they end: `HandshakeFails`, `ReadFails`, `ReadDone`
(enabled when the peer has sent or gone, because a read that times out goes
round again, `AdminServer.cpp:50`), `HandleEnds`. `conn` is the life of a
descriptor.

`ServiceSpec` says the pool implements `ConnectionService`, in which a connection
arrives, is refused if `MaxPending` others wait and admitted otherwise, is served
in the order of arrival by one of as many servers as there are workers, and is
closed. What the accept thread holds is `arriving`, what the workers hold is
`serving`, and the service is up while there is a TLS context: it goes down with
the join of the workers, holding nothing, and serves nothing after that.

### DataPipeline

The capture thread in `push` and the publisher in `run` and `pop_all`. A push or
a pop of one ring is one step, which is what `SPSCQueueProofs!ImplementsFifo`
justifies as long as pops take turns. The two meet in `BoundedFifo`:
`QueuesAreFifos` says that each queue, with the frames it took (`admitted`), gave
out (`taken`) and dropped, is that FIFO. `Sweeping(i, waited)` is the
publisher in the `i`-th queue of the first or second sweep of `pop_all`; `wait`,
`block` and `asleep` split `wait_for` as in `AdminServer`.

### Node

Composes the commands with what they act upon. `capture` is the place of the
capture thread in `run`: `GroupTestsOn` and `GroupFoundOn` are the locked calls
of `group_active`, one per type; `CaptureBuilds` those of `build_frame`, which
asks again, so that a frame may come out without parts; `CapturePushes` is
`push`. A queue is the number of frames in it, since the question is how many
frames stay behind. A drain pops one frame at a time (`DrainPops`) and moves on
when it has found the queue empty (`DrainMovesOn`, which is `DrainNext` or
`DrainLast` of `CommandHandler` on the variables of that module); capture,
publisher and other drains go on meanwhile. `main` is `main.cpp:219-222`. Who
pops a frame, and how, is in `SPSCQueue` and `DataPipeline`. A pop is one step
although the publisher and the drains really overlap (finding 1 below): what an
overlap leaves in a queue besides is null slots, never a frame, so the bounds on
old frames stand. Left out are the
pace of the ticks (a tick may come at any time) and frame numbers, which are in
`Capture`, and payloads.

### DataPublisher

One action per `zmq_msg_send`. `unended` is the message that is open on a
socket; `Kind` is what a subscriber makes of a message when it ends: the header
says how many parts belong to it. Any send may be refused (`PieceRefused`,
`EventRefused`: no memory for the message, or the context going down). A send that
is accepted need not arrive: a PUB socket without a subscriber, or with one whose
queue is at `ZMQ_SNDHWM`, throws the whole message away and reports success. So
`Accepts` counts a message in `accepted` when it ends, and in `arrived`, what a
subscriber got, or not. That, and that `zmq_ctx_destroy` waits for the sockets, is
all that is supposed of libzmq. main sends its event at any point
between two sends of the thread, because `publish_shutdown` takes no lock. Two
threads inside one socket at the same moment is undefined; the model takes the
calls one at a time and so shows the least that can go wrong. `damage` counts,
per socket, one for a refused part and two for an event inside a message (the
message it ends, and the one its remaining parts make).

### Settings

`params` is the memory of `ParameterManager` and ends with the process; `file`
is `CameraSetting.json` and stays. main goes `down -> load -> serve -> save ->
open -> write -> down`, and `Killed` may come at any place but the first: `run.sh`
kills what has not stopped in ten seconds. `LoadMember` and `LoadThrows` are one
round of the loop of `load_camera_setting`: `get<>()` throws for a member of
another type and the handler is outside the loop, so what is behind it is not
loaded; an unknown key is passed over, and a value that `set_value` refuses is
ignored. `SaveOpens` truncates the file and `SaveWrites` fills it; in
`SaveFails` the stream could not, which the code does not notice, so that the
properties about saved settings excuse it. A worker's
set_parameter is `SetBegins` (the lookup and the conversion) and `SetApplies`
(`set_value`, under its mutex); `SetThrows` is a value of another type, which ends
the process, since nothing in a worker catches it, and `FieldThrows` a name or
`data_type` that is no string, in any command that reads one. `config.json` may change
between two starts and gives some parameters their defaults, and the file may be
edited by hand (`EditFile`). Keys are numbers in the order in which the JSON
library visits them; a JSON value has a kind (whole number, fraction, string)
because that decides what throws and what is truncated. A file that is absent and
one that does not parse have no members.

### SimDataSource and Capture

`Capture` is `CaptureEngine::run`, each read of a clock an action: `TickStarts`,
`ReadsSec`, `ReadsNsec` and `Paces` read it and let it move by `Drift` at most;
`Pushes(on)` builds and pushes the frame of a group from the members that are on,
taking a stereo pair from `SimDataSource` if there is one; `SleepEnds` is the
sleep to its time, because `sleep_for` waits for a predicate that only `wake`
makes true, and nobody calls `wake`. fps may be set at any moment
(`SetFps`), and `StopCapture` is the store of `stop()`. Which groups are on at a
tick is left open: in the node the commands decide (`Node`). A clock unit is a
millisecond, to which the code cuts a period and the time a tick took.

`SimDataSource` has the files `load` accepts by side, index and name. Of two
files for one side the one the directory iterator comes to last is kept, and its
order is nobody's promise: so `Loaded` is a set of outcomes, each the pairs in
the order of their indexes. A side without a file
is mirrored; one that cannot be read stays blank.

## 3. The runs

| Run | Question | Instance |
|---|---|---|
| `MCSPSCQueue` | is the ring a bounded FIFO? | capacity 2, 6 frames, one consumer, one observer |
| `MCSPSCQueueDrainOrder` | and with a drain in another thread? (violated) | capacity 2, 3 frames, two consumers |
| `MCCommandHandler` | channel state and flushing under concurrent commands | 2 workers, 2 clients, 3 types in 2 groups |
| `MCCommandHandlerOrphan` | and for one client with two commands at once? (violated) | 2 workers, 1 client, 1 type |
| `MCAdminServer` | the pool as a service; descriptors, TLS context, wake-ups and stop | 2 workers, 2 connections, queue of 1 |
| `MCAdminServerStop` | does `stop()` return? (violated) | 2 workers, 1 connection |
| `MCDataPipeline` | conservation, wake-ups, delivery and stop of the publisher | 3 queues of 1, 4 frames, 1 type |
| `MCNode` | drains against capture, what is produced, sessions, the last drain | 2 workers, 1 client that waits, 2 types in 2 groups, queues of 2 |
| `MCDataPublisher` | messages and counters, whatever is refused or thrown away | 3 sockets, 3 types, 4 frames |
| `MCDataPublisherReturns` | does main return? (violated) | 3 sockets, 1 frame |
| `MCSettings` | ranges, and settings over stops, kills, failed starts and edits | 3 starts, 3 parameters and an unknown key, 3 values, 1 worker, 2 sets, 1 edit |
| `MCCapture` | timestamps, pair ids, pace, images, stop | seconds of 4 units, drift 1, 2 rates, 3 ticks, 3 directories, 2 types |

**Bounds.** `MaxFrames` bounds pushes (the only unbounded counters); in
`MCSPSCQueue` six pushes through two slots go round the buffer three times, so
every index is reused and both `full` and `empty` are met in every phase, and the
counters themselves stay below `2^64` in any run of the program. `SizeMod = 256`
stands for `2^64` in `size()`; any number larger than the counters shows the
wrap. Two clients are enough for one to keep a type on that another leaves, and
two workers for every interleaving of two commands, of different clients and of
one; workers and clients are interchangeable there, hence the symmetry set. Two
types in different groups separate "any subscriber" from "group active"; with one
client in each, the last of each can leave at the same time. The third type shares
a group with one of them, so `group_active` asks for two, one lock at a time.
In `MCAdminServer` two connections and a queue of one let one connection wait,
a second find the queue full, and both be with workers; two workers let one be
notified while the other is on its way to sleep. With a queue of one the run
says nothing of the order in which connections are served; the theorem does, for
any bound, and three connections with a queue of two pass as well, in a few
minutes. In `MCDataPipeline` queues of
one fill and drop, and four pushes reach a push in each window of `pop_all`
twice. `MCNode` has one client, since the channel state of several is
`MCCommandHandler`'s question; its second worker runs `activate_channel` and
`deactivate_channel`, which name no client, and so drains at the same time as the
first. Queues of two hold one frame more than the bound of one that is claimed. In
`MCDataPublisher` four frames let a message be cut, continued by another, cut
again and followed by a whole one; the three types give frames of one and of two
parts. In `MCSettings` three starts are a clean stop, a start that is killed or
fails, and one that must find the settings of the first; the three parameters are
an Enum, a read-only Integer and the Integer that `config.json` gives a value
outside its range, and the three values are two that are legal and one that is
not. One worker is enough there, since set_parameter is one locked call of each.
In `MCCapture` a second of four units and a drift of one make timestamps that are
torn by the end of a second and whole ones; with the rates 1 and 2 a tick may fit
into its period or not; three ticks show two of them without a frame of a group
between. The directories are an empty one, one with a single left image, and one
with two files for a side and one that cannot be read. All numbers other than
these come from the source.

**Deadlock** is checked except in the runs of `AdminServer`, `DataPipeline`,
`Node`, `DataPublisher` and `Capture`, whose threads end after `stop()`, and of
`Settings`, where no start may be left.

**Fairness.**

* Threads (`WF`): an operating-system thread that can run does run.
  `AcceptStep`, `WorkerStep(w)` for each worker, `StopStep` once begun,
  `PublisherStep`, the producer's two steps inside `push`, the consumer of
  `SPSCQueue` (`DataPublisher::run` loops); in `Node` the capture thread and main
  once it shuts down, and nobody else: the publisher need not take anything. In
  `Capture` the capture thread (`CaptureStep`), whose sleep has a time-out.
* Locks (`SF`): a thread that waits for a mutex which is free again and again
  gets it. The locks are held for a few instructions, by threads that must give
  them up to sleep.
* Not fair: signals (`StopBegins`, `PublisherStop`, `StopCapture`), new frames, new
  connections, spurious returns of `wait`, time-outs of `wait_for`. So
  `QueuedIsSent` does not lean on the 10 ms time-out of `pop_all`.
* `BusyClientsSpec` adds that a client sends its request or leaves. The server
  does not enforce that (see below), so liveness of `AdminServer` is claimed
  under that condition.
* `StopReturns` of `DataPipeline` supposes `SF` of `WaitTimesOut`: nobody
  notifies the publisher in `stop()`, it leaves by its deadline. The deadline of
  `wait_for` is absolute, so spurious returns do not postpone it for ever.

### What the runs check

* `SPSCQueue`: `DeliveredInOrder` (frames come out in the order accepted, none
  twice; with a second consumer, violated), `RingInv` (the inductive invariant),
  `ReportedDepthTellsWraps` (what `size()` tells a third thread: a depth within
  the capacity, or a number so large that it cannot be taken for one), `FifoSpec`
  (refinement), `AcceptedIsDelivered` (liveness).
* `CommandHandler`: `RefcountExact` and `ActiveIffWanted` (of
  `ChannelManager`, under concurrent commands), `LastLeaverFlushes` (when all commands are answered
  and nobody subscribes, every group that is off has been flushed; two last
  leavers do not each leave it to the other, because each asks after its own
  stop). Violated: `DisconnectedHasNone`.
* `AdminServer`: `ServiceSpec` (refinement), `OwnedOnce` (a descriptor is in exactly one place while open
  and in none after its close), `ContextAlive`, `WorkIsNoticed` (no connection
  waits while every remaining worker sleeps), `OneStranded` (once `stop()` has
  called `notify_all` one worker at most is asleep: what finding 3 may cost),
  `QueuedIsServed`, `AwakeStopReturns`. Violated: `StopReturns`.
* `Node`: `StrayAtMostOne` (a group that has been flushed since it was last
  switched on has one frame at most, the one capture was at), `OldFramesBounded`
  (so after the last subscriber has left and all is answered, a later subscriber
  meets one old frame at most in a group that is off), `NothingLeft` (after the
  last drain the queues stay empty), `SubscribersAreConnected` (for clients that
  wait for their answers), `WantedIsProduced` (a type that stays on is produced
  again and again), `ShutdownEnds` (the last drain chases no producer),
  `ShutdownHasNoLoop` (once the engine has been told to end, no step of any thread
  adds to what the shutdown has still to do, and each step of main and of capture
  takes from it).
* `DataPublisher`: `EveryFrameCounted`, `DamageIsBounded` (no more broken
  messages than refused parts and interruptions: the stream recovers by itself),
  `SentIsHonest` and `ShutdownIsCounted` (the counters `check_status` reports lie
  between what a subscriber got and what libzmq took, the damage apart; they do not
  say that anybody got it). Violated: `ShutdownReturns`.
* `DataPipeline`: `QueuesAreFifos` (refinement: what each queue took it holds or
  has given out, in order, and it drops only when it is full), `Conserved` (what
  `pop_all` took out of a queue is sent or in the batch, in order: the batch mixes
  the groups, and is cleared where nothing may be in it), `AsleepMeansEmpty`, `QueuedIsSent`, `StopReturns`.
* `Settings`: `ValuesLegal` (a value is one `set_value` admits, or the one the
  parameter was registered with), `AnsweredIsSaved` (a clean stop saves what the
  answered commands have set, none comes in between), `KeptAcrossRestarts` (those
  settings are in force at any later start, unless a write was cut or failed or
  the file was edited), `LoadedUpToTheFault` (what of a file takes effect).
* `Capture`: `StampHonest` (a timestamp is never in the future, and a second
  before its tick at most), `SnapshotShared` (frames of one tick, and only those,
  share `pair_id` and timestamp), `PaceKept` (two ticks are a period apart at
  least, and no later than the work of the tick and one read allow),
  `PairsInTurn`, `CaptureStops` (liveness).

The type invariants are in no run of their own: they are theorems (section 5) and
conjuncts of the inductive invariants there.

## 4. Where the code and its documents part

Runs with a counterexample:

1. **Drains make a second consumer** (`MCSPSCQueueDrainOrder`). `drain_group`
   pops in a worker or in main while the publisher pops. A frame is delivered
   twice or out of order; the tail can also move back, after which the counters
   differ by more than the capacity. `SPSCQueue.h:3` promises one consumer.
2. **start_capture races disconnect** (`MCCommandHandlerOrphan`). The session is
   tested before the subscription is made, in two locked calls. What is left
   over keeps a type on until a stop_capture with that client id, or until the
   client connects and disconnects again.
3. **stop() may hang** (`MCAdminServerStop`). `stopping_` is stored and
   `notify_all` called without `qmtx_`; a worker between its test and its sleep
   misses both. `OneStranded` says that it is the only one, and
   `AwakeStopReturns` is the part of the promise that holds.
4. **main does not return** (`MCDataPublisherReturns`). `zmq_ctx_destroy`
   (`main.cpp:225`) waits until the sockets are closed, and they are closed by
   `~DataPublisher`, which runs when main returns; `stop()` only joins the
   thread, where `thread_dataflow.md:95` has it close the sockets. The settings
   are saved before that, so what is lost is the clean end.

Seen while modelling, without a run of their own:

* `size()` loads the head before the tail and the difference is unsigned, so
  `check_status` may report a depth near 2^64. `ReportedDepthTellsWraps` says
  that this is the only wrong answer it gives while pops take turns.
* A group that goes off while a type of another group still has a subscriber
  keeps its frames, unless `deactivate_channel` was what switched it off:
  disconnect and stop_capture flush only when nobody subscribes to anything.
  `design.md:116` has whole groups flushed when they go inactive.
* `config.json` may give `fps` a value up to 240 (`Config.cpp:76`, `design.md:92`),
  while `main.cpp` registers the parameter with 1..120. The value is in force and
  is saved, and is refused when it is loaded again; `ValuesLegal` and
  `KeptAcrossRestarts` are stated with that in mind.
* The section `parameters` of `config.json`, which `config.md` shows, is read by
  nobody.
* `status.md:74` has `dropped_hwm` count the frames dropped at the high-water mark,
  by `EAGAIN`. A PUB socket does not answer `EAGAIN` there: it takes the message,
  throws it away silently (as `data.md:51` says) and the frame is counted in
  `sent_*`. So `sent_*` may be above what any subscriber got without any error,
  and `dropped_hwm` counts other failures only (`Accepts`, `SentIsHonest`); the
  same holds of `shutdown_sent` when nobody is connected (`ShutdownIsCounted`).
* A value of the wrong type in set_parameter ends the process
  (`SetThrows`), and so does a `name` or a `data_type` that is no string, in
  get_parameter, activate_channel and deactivate_channel too
  (`CommandHandler.cpp:225`, `239`, `325`, `339`; `FieldThrows`); one in `CameraSetting.json` ends the load, with the members
  before it applied (`LoadThrows`).
* `data.md:95` has a timestamp set after the frame is read, and `API_module.md:121`
  at that moment; it is taken before, and when the second ends between its two
  reads it lies a second back (lemma `TornStamp`).
* When the image directory does not exist, the log says that frames will be
  synthesised (`SimDataSource.cpp:168`); none is, and a group with nothing but
  `stereo_image` on pushes nothing.
* `1000 / fps` is cut to milliseconds, so the rate is a little above `fps` (15 per
  second gives 66 ms).
* A message on a socket need not be a header and its parts, as `data.md:58` has
  it: a part refused after its header leaves the message open, and the next
  header continues it (`PieceRefused`); the event of `publish_shutdown` may come
  between two pieces (`EventSent`), and is then not seen as an event either.
  `DamageIsBounded` says how far this goes.
* `thread_dataflow.md:103` says that new clients never receive old frames.
  `OldFramesBounded` allows one per group, the frame capture was building when
  its group went off, and the model reaches it; frames the publisher has taken
  already come on top.
* `cmd_stop_capture` asks for no session; `commands.md:18` lists `connect` as a
  prerequisite. The model has it as the code does (`StopBegin`).
* The drain of the last subscriber empties all three queues, also those of types
  that are on because they are forced (`LastTestNone` drains `GroupOrder`).
* A connection that finds the queue full is closed without a response;
  `API_module.md:11` says it is rejected with 503 (`AcceptRefuses`).
* A client that completes the handshake and stays quiet holds its worker past
  every receive time-out, and `stop()` with it. Without the fairness of
  `BusyClientsSpec`, `AwakeStopReturns` fails.
* A connection queued after the last worker has ended is never closed by the
  pool; `QueuedIsServed` therefore speaks of connections that were queued while
  a worker was there.

## 5. What is proved

For every value of the constants; all proofs are checked by `tlapm`.

| Module | Theorem | Says |
|---|---|---|
| `SPSCQueueProofs` | `TypeCorrect`, `DepthIsBounded`, `OrderPreserved`, `WritesFreeSlot`, `RingInvariant` | the safety properties of the ring (that the depth is bounded and that the producer's slot is free are stated here only) |
| | `ReportedDepthIsTelling` | what `size()` may report |
| | `ImplementsFifo` | `FifoSpec`: the ring implements `BoundedFifo` |
| | `OneConsumerTakesTurns` | with one consumer thread the hypothesis of all of these holds |
| `CommandHandlerProofs` | `ChannelTypeCorrect`, `RefcountsExact`, `ActiveExactlyWhenWanted` | the channel state under any sequence of calls |
| | `CommandTypeCorrect`, `CommandRefcounts` | the same invariants under the commands of any number of workers |
| | `SubscribersConnected` | only connected clients subscribe, if clients wait |
| | `LastLeaverHasFlushed` | after the last subscriber, every group that is off has been flushed |
| `NodeProofs` | `NodeRunsCommands` | the node runs the commands of `CommandHandler`, so all of the above holds in it |
| | `NodeTypeCorrect`, `StrayBounded`, `OldFramesAreBounded`, `NothingIsLeft` | the safety properties of the node |
| | `ShutdownIsFinite` | `ShutdownHasNoLoop`: every step of main and of capture brings the shutdown nearer to its end, and no other step takes it away from it |
| `AdminServerProofs` | `AdminTypeCorrect`, `WorkNoticed`, `ContextStaysAlive` | bound of the queue, wake-ups, life of the TLS context |
| | `ConnectionsOwnedOnce` | a connection is in one place while open and in none after |
| | `StopStrandsOne` | the unlocked `notify_all` misses one worker at most, of any number |
| | `PoolImplementsService` | `ServiceSpec`: the pool implements `ConnectionService` |
| `DataPipelineProofs` | `PipelineTypeCorrect`, `NoLostNotification` | bound of each queue, `AsleepMeansEmpty` |
| | `QueuesKeepOrder`, `QueuesImplementFifos` | `QueuesAreFifos`, and what a queue holds in terms of what it took and gave out |
| | `BatchLosesNothing`, `FramesSentInOrder` | `Conserved`; what is sent of a group is a beginning of what its queue took |
| `DataPublisherProofs` | `PublisherTypeCorrect`, `FramesAreCounted`, `DamageStaysBounded`, `SentStaysHonest`, `EventsAreCounted` | messages and counters, for frames of any number of parts |
| `SettingsProofs` | `ValuesStayLegal`, `AnswersAreSaved`, `SettingsAreKept`, `LoadsUpToTheFault` | all four properties of `Settings`, for any parameters, files and workers |
| `CaptureProofs` | `CaptureTypeCorrect`, `StampsAreHonest`, `SnapshotsAreShared`, `PaceIsKept` | the properties of a tick, for any length of a second, drift and rates |
| | `PairsAreInTurn` | the pairs go round in the order of their indexes, for any directories |

**Arguments.**

* *Ring.* `TypeOK` alone is not inductive: that a pop returns a frame depends on
  the slots between the counters being filled. `RingInv` is the conjunction of
  `CountersAreLengths` (the counters are the lengths of the histories),
  `AdmissionHolds` (a free place found by the producer stays free until it
  publishes), `OccupiedSlots` and `FreeSlots` (which slots hold the frame
  accepted at their index and which are null, with the one exception each side
  makes) and `ConsumerOwnsTail` (the tail a consumer loaded is still the tail).
  The theorems are about `InTurnSpec`, the behaviours of `Spec` in which two pops
  never overlap (`PopsInTurn`), which finding 1 shows to be necessary. One
  consumer thread is enough for that (`OneConsumerTakesTurns`); several that take
  turns are as good, so a mutex around `try_pop` would repair finding 1 and keep
  every theorem. The refinement uses `RingInv` in each step that moves a counter.
* *Channels.* `RefcountExact` and the types together are inductive; the step
  lemmas count the subscribers before and after a change of one client, so the
  theorems assume `IsFiniteSet(Clients)`.
* *Commands.* Each action is a `ChannelManager` action or leaves its variables
  alone, because each call is locked, so the invariants of `ChannelSpec` carry over
  (lemma `CommandsImplementChannels`).
  `SerialInv` strengthens `SubscribersAreConnected` with what a command knows
  between its calls: at most one worker acts for a client, a worker about to
  subscribe acts for a client with a session, and one about to forget a session
  has dropped its subscriptions. It assumes `OneAtATime`, which finding 2 shows
  to be necessary.
  `FlushInv` strengthens `LastLeaverFlushes`: while nobody subscribes, each
  unflushed group that is off has a worker on its way to flushing it (`Covers`:
  it has still to ask for subscribers, or has the group on its list). A worker
  that leaves without a drain has seen a subscriber, which is why each must ask
  after its own stop.
* *Node.* The steps of the node are steps of the commands or leave their
  variables alone. `StrayInv` adds to `StrayAtMostOne` that a group that is on is
  unflushed and that the types capture has still to test are of its group: so a
  frame is begun only for an unflushed group, and a group becomes flushed only
  when its queue has been found empty with one frame in flight at most.
  `OldFramesAreBounded` joins this with `LastLeaverHasFlushed`. `ShutdownInv` says
  that capture has ended and which queues main has passed.
  `ShutdownIsFinite` is the half of `ShutdownEnds` that needs no fairness:
  `MainWork + CaptureWork` counts the steps the two threads may still take.
  `CaptureWork` goes down with every step of a tick, since the groups and the types
  of a group are finite and `running_` is tested before the next tick; `MainWork`
  supposes full queues until capture has ended, and then counts the frames, which
  no thread adds to any more. The rest of `ShutdownEnds`, that one of the two can
  always go on and does, is left to TLC.
* *Pool.* `WorkInv` adds to `WorkIsNoticed` that a worker between its test and
  its sleep has found the queue empty and it still is, because it holds the
  mutex. `StrandInv` is what makes `OneStranded` true: the mutex lets one worker at a time
  be between its test and its sleep, and `stopping_`, set before `notify_all`,
  lets no worker that tests later get there. `ContextInv` says that the context is there unless every worker has
  ended, and an ended worker never moves again.
  `OwnedInv` says `OwnedOnce` place by place, without counting: what the accept
  thread, the queue and a worker hold is open, no two of them hold the same, and
  what is open is held. The step lemmas move one connection at a time;
  `OwnedInvCounts` turns places into counts. With it each step is one of
  `ConnectionService` or leaves its variables alone: what is new is held by
  nobody, so it may arrive; what a worker takes was in the queue alone; a worker
  without a connection is a free server, which `FreeServer` counts (hence
  `IsFiniteSet(Workers)`). `UpInv` and `ContextInv` say that the context is there
  when a connection arrives, is taken or is closed, and gone after the last join.
* *Pipeline.* `WakeInv` says what makes `AsleepMeansEmpty` true at every place
  of the publisher: a frame in a queue that this sweep has passed, or in any
  queue while the publisher waits, is announced by `notified_` or by a producer
  about to set it; a publisher about to sleep has `notified_` down; and if it
  sleeps with `notified_` up, the producer is about to signal.
  `QueueInv` is the order of a queue: the frames admitted are those taken followed
  by those it holds, each of its group and younger than the one before. It makes
  each push and pop a step of `BoundedFifo`. `SentInv` adds to `Conserved` the
  places of the publisher: the batch is empty where `pop_all` clears it, and while
  it is sent the frames of a group leave it in the order in which they came, which
  the lemmas about `CountOf` say of a batch that loses its first frame or gets
  a new last one.
* *Publisher.* `DamageIsBounded` and `SentIsHonest` say nothing of the message
  that is still open, and so are not inductive. `InOrder` adds it: `Spoilt(g)`
  says that the open message is not the beginning of the frame the thread is at
  (`Begun`), and then one more broken message is due and must be paid for
  already. A piece that is sent leaves a message unspoilt if it was; a last part
  ends an unspoilt message as a whole one and a spoilt one as a broken one or, if
  the pieces happen to fit, a whole one; a refused part spoils what was begun,
  and an event spoils it twice. `KindOfFrame`, `KindOfSpoilt` and `KindOfPart` say
  what a subscriber makes of a message by its last piece. All of this is about
  the messages libzmq took; `FewerArrive` carries the bounds over to those that
  arrived.
* *Settings.* `SettingsIInv`: while main is not serving no worker is in a command
  (`Joined`), so that the copy it writes is what is in force (`ImageTaken`); unless
  a write has been cut the file holds the settings of the last clean stop
  (`FileKept`); and the load is right about the members it has visited and has
  seen no fault while some are left (`LoadRight`). A file main has written loads
  without an exception, whatever the values (`SavedLoads`).
* *Capture.* `CaptureIInv`: what each place of the thread knows of the clock
  (`ClockRead`), that a tick starts a period after the one before (`Paced`), and
  that frames carry the numbers and instants of their ticks (`FramesDated`). The
  arithmetic is in `TornStamp`: the seconds of one instant with the rest of a
  later one, less than a second after, make that later one or a second less.
  `TurnInv` is behind `PairsInTurn`: `pairs_` is in the order of the indexes, each
  index once and with files of that index (`PairsByIndex`), and the `n`-th pair
  shown is the one at `n - 1` modulo their number (`ShownInTurn`).

**Assumptions on constants** are named in the modules (`QueueSize`,
`MaxPending`, `MaxFrames` are positive or natural, `NoConn` and `NoClient` name
no connection and no client) and TLC evaluates them.

**Model-checked only.** Liveness (`AcceptedIsDelivered`, `QueuedIsServed`,
`AwakeStopReturns`, `QueuedIsSent`, `StopReturns`, `WantedIsProduced`,
`ShutdownEnds`, `CaptureStops`), which the prover does not reach. Every invariant,
every action property and every refinement of a passing run is a theorem. The properties that are violated
are refuted on one instance, which is all it takes.

## 6. What is not modelled

* `full`, `empty` and `reset_stats` of the ring: nothing calls the first two in
  a decision, nothing calls the last.
* Queries (`check_status`, `list_*`, `get_parameter`) change no state. They are
  `Other`, except for `size()`.
* TLS records, HTTP and JSON text, log lines, payload bytes.
* `Config`: a pure function from `config.json` to a record, read before any
  thread runs. What it may make of `fps` is an input of `Settings`.
* `Response` and `Logger`: formatting, and one mutex around one stream.
* `probe_image` and the synthesised payloads of `SimDataSource`: functions of their
  arguments, whose bytes no property is about. `frames_produced_` of the capture
  thread and `recv_timestamp` of an answer are only shown.
* Parameters of type Float, of which the node registers none.
* A failure of `start()` of the server, which ends the program before a client is
  there (`StartFails` of `Settings` and of `DataPublisher` are what it leaves).
* The reuse of a descriptor number after `close(listen_fd_)`, and the race on
  the plain `int` that holds it: what the accept thread would meet is a
  descriptor of another part of the process.
* The whole node at once. `Node` has commands, capture, publisher and main with
  counts of frames; the pool, the sockets and the file meet them only in the
  order of main's calls, which each of their modules has.

## 7. Plan

Done in this order: `Ring`, `BoundedFifo`, `SPSCQueue` and their proofs;
`ChannelManager`, `CommandHandler`; `AdminServer`; `DataPipeline`; `Node`;
`DataPublisher`; `Settings`; `SimDataSource` and `Capture`; the proofs of
`OwnedOnce` and of the publisher's counters; `ConnectionService` and the proof
that the pool implements it; the queues of `DataPipeline` as `BoundedFifo` and the
proofs of `Conserved` and `PairsInTurn`; the ring for pops that take turns; how far
a shutdown is from its end, and how many workers `stop()` may leave asleep; the
messages a PUB socket throws away.

What would be next, most important first:

1. **Node, further**: one row of `list_channels` being consistent
   (`CommandHandler.cpp:302-303`), a drain against a producer that keeps pushing.
2. **Proofs**: the safety half of the other liveness properties, as
   `ShutdownIsFinite` is for `ShutdownEnds` (a queued connection's place only moves
   forward; a deadline only comes nearer), and that `OldFramesBounded` is exact.
3. **Pure functions**: `normalize_command`, `expand_types` with groups and
   wildcards, and what `Config` accepts, against reference definitions.
