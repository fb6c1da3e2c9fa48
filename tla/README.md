# HELIC-DAQ: TLA+ specifications and proofs

HELIC-DAQ is a real-time data-acquisition and control system: two-core RP2350
firmware that samples and drives an experiment, a TCP control protocol and a UDP
record stream, a broker that shares one device among several local programs, and
host clients. This directory models the parts whose correctness depends on the
order in which independent actors act, checks them with TLC on small instances
and proves their main invariants with TLAPS for all instances.

`PROJECT.json` lists every run, every theorem and, definition by definition, the
source lines a definition stands for.

## 1. Inventory

| Component | State | Operations | Interacts with | What is hard |
|---|---|---|---|---|
| Parameter path: `helic-core/table_buffer.rs`, `helic-rt/params*`, the drain of `rt_loop.rs` | two banks per buffer, `active`/`pending` atomics, command queue, host-visible shadows, live values | `SetPar`, `SetBlock`, `Commit`; stage, publish, enqueue, cancel; drain, activate | core 0 and core 1 through lock-free memory | two cores, no locks; linear tokens; a full queue after publication |
| Output safety: `helic-rt/{shared,safety}.rs`, `safety_gate`, `control_run`/`serve` of `tcp.rs`, a rig's `actuate` and `prepare_reboot` | armed and tripped flags, output levels, reboot handshake | arm, disarm, connect, lose the connection, fault, clamp, quieten, reboot | control server on core 0, tick on core 1, boot ROM | multi-word updates against multi-word loads, time-outs, rejected reboots |
| Stream session: `comms/udp.rs`, `comms/mod.rs`, the record enqueue of `rt_loop.rs` | `STREAM`, record ring, streamer locals | sample, set up, start, stop, connect, lose the connection, pack, send, complete | control task, streamer task, core 1 | decisions made before an `await` and used after it; ring overflow |
| Broker server: `helic-broker/server.rs` | upstream connection with a generation, metadata, shared session state, clients, table owner, epoch | requests of clients, reconnection, heartbeat, packet fan-out, table transactions | clients, device, recorder | many tasks, four locks, awaits under and between them |
| Broker recorder: `storage.rs`, `history.rs` | open segment, queue to the storage thread, recent packets, files | start, append, rotate, stop, shut down, recent | broker server, file system | I/O failure or a kill between any two file operations, a full queue, waiting for a thread that has died |
| Registries and discovery: `params.rs`, `rig.rs`, `payload.rs`, the discovery half of `server.rs` | groups pushed, pages, what the broker knows | push, validate, serve a page, discover, write by index | firmware start-up, control server, broker | indices counted twice by different walks, page limits, a device that restarts between two pages |
| Programme and signal processing: `program.rs`, `control.rs`, `helic-core` | phases, table player, PID | one step per tick, the commands between ticks | parameter path, safety gate | fixed-point wrap, passes interrupted by commands, state kept from an earlier run |
| Phase-locked loop: `helic-core/pll.rs` | lock state, correction, dwell clocks | update, enable, reset, reacquire, setters | a rig's programme | lock hysteresis, windup, a range that moves under a running loop |
| Laser service: `integrations/optoncdt`, `helic-drivers/optoncdt.rs` | configuration step, reply and measurement parsers, counters | detect the rate, configure, drain, receive, publish | sampling core, serial line | late replies taken for new ones, lost bytes, retries |
| Protocol: `helic-proto` | none | encode, decode | every peer | framing limits |
| Host clients: Python, Julia, MATLAB | sequence number, stream gap state | request, receive | device or broker | late answers, wrap of counters |
| Drivers, boards, build support, test rigs | registers | word encoding, bring-up | hardware | outside a model's reach |

The properties that make each part correct:

* Parameter path: core 0 never writes what core 1 reads; an accepted update is
  applied whole, in order, exactly once; a rejected one leaves no trace; a buffer
  that is busy becomes free; a host reads back what core 1 has or will have; a
  waveform that plays was checked word for word.
* Output safety: nothing is armed without a connection; a disarmed tick leaves the
  output at its safe level; what is driven is finite and inside the window; a
  fault cannot be wiped by an arm that came before it; after the quiescence report
  every channel is at rest.
* Stream session: a session keeps the configuration it was armed with; a finite
  one sends exactly what was asked for and then ends; a loss is never silent; one
  session's end does not end another.
* Broker: a session, its recording and the device agree; a table transaction has
  one owner; the device is disarmed when the last client leaves; a reconnection
  leaves no state of the old connection behind.
* Recorder: a file under its final name is what it says it is, whenever the process
  died; the segments of a session continue one another; a session marked complete
  holds everything delivered; nobody waits for a dead recorder; a replay is exact.
* Discovery: what the broker publishes is the registry of the device at the other end;
  a write reaches the parameter it names and no other; a registry that was accepted can
  be discovered.
* Programme: a triggered pass begins, is one whole pass, and stays in the table;
  overrides of the frequency do not linger; the control forgets its earlier runs.
* Phase-locked loop: the frequency stays in range; lock and loss of lock are earned over
  whole dwells; a loss is latched.
* Laser: the receive loop only runs on a configured sensor; a published distance is one
  measurement's; the error counters mean what they say.

## 2. Modules and plan

| Module | Models |
|---|---|
| `ParamSpec` | abstract parameter store: live values and a FIFO of whole updates |
| `CommandPath` | the parameter path at the grain of one shared-memory access |
| `MCCommandPath` | encoding of settings for TLC |
| `CommandPath_proofs` | theorems about `CommandPath` |
| `OutputSafety` | safety gate, connection loss and reboot, at the same grain |
| `StreamSession` | streamer, control server and record ring, at the grain of an await |
| `MCStreamSession` | packet capacities for TLC |
| `StreamSession_proofs` | theorems about `StreamSession` |
| `Broker` | the broker's tasks around one device connection, at the grain of an await |
| `Broker_proofs` | theorems about `Broker` |
| `MCBroker` | symmetry of clients and layouts, and the focus of `broker_session` |
| `Recorder`, `MCRecorder` | storage thread, files, history window, failure monitor and shut-down |
| `Recorder_proofs` | theorems about `Recorder` |
| `Discovery`, `MCDiscovery` | registry composition, validation, paged discovery, routing of a write |
| `Discovery_proofs` | theorems about `Discovery` |
| `Program`, `MCProgram` | tick and commands of the standard programme: generator, table player, control |
| `Program_proofs` | theorems about `Program` |
| `Pll`, `MCPll` | the phase-locked loop and its setters |
| `Pll_proofs` | theorems about `Pll` |
| `Laser` | laser service, its parsers, the sensor and the serial line |
| `Device_proofs` | theorems about `OutputSafety` and `Laser`, the two parts that run on the device whatever its host does |

The parts meet at these places. `CommandPath` delivers the commands `Program` applies, and
`Discovery` shows which parameter a command reaches. `Program` steps inside the tick whose
gate is in `OutputSafety`; both enter through the enabled flag. `Broker` takes the recorder
as a flag that `Recorder` opens up, and the device as an external partner whose promises
(disarm and stop at the end of a connection) `OutputSafety` and `StreamSession` show.

Done, in the order of importance: parameter path, safety gate, stream session, broker
server, recorder, discovery, programme, phase-locked loop, laser service. To come, on the
host side: sequence check of a request, gap accounting of the stream receivers, the
firmware's time watchdog.

## 3. How the models correspond to the code

### CommandPath

Variables are the shared memory (`banks`, `length`, `active`, `pending`, `queue`,
`table_len`, `command_backlog_max`) and the locals of the two cores. Core 0's
program counter `pc0` walks through one request: `BufferLoadPending`,
`BufferLoadActive` and `WriteWord` are `Staging::buffer` and the copy into the
borrowed bank; `Seal` is the finiteness check and length update of a table commit;
`CommitLoadPending`, `CommitLoadActive` and `Publish` are `Staging::commit`;
`Enqueue` and `Cancel` are `ParamStore::finish_staged`. Core 1's `pc1` walks
through one tick: `Dequeue`, then `ActivateLoad`, `ActivateSwap`, `ActivateClear`
(`Active::activate`) and `PublishLength` per command, then the backlog account and
the programme step. Each load or store of shared memory is one step, so the cores
interleave between any two of them. `RequestReboot` raises the reboot request, and
`TickStart` waits for none: `run_hot_loop` looks for one before each tick, and from then on
core 1 only quiesces its rig and spins, while core 0 goes on serving if the ROM rejects the
reboot.

A request in the model has passed its group's range validation; which index names
which parameter is data. A value is one of a few finite numbers or `NaN`, which
stands for every non-finite one. A scalar's stored setting and the word that core 1
receives are different things (`Encode`): several frequencies share a phase
increment.

`ParamSpec` says what the path promises: a FIFO of whole updates, of which each
buffer has at most one outstanding, applied in order until a `Stop`. `CommandPath` maps a
token to the contents of the bank it names, and a reboot request to `Stop`.

### OutputSafety

`armed`, `tripped` and the reboot flags are atomics, and `ArmClear`/`ArmSet` and
`LoadArmed`/`LoadTripped` are separate steps, as in `Safety::arm` and
`Safety::load_inputs`. A tick is `TickStart`, the two loads, the programme's `Step`
(which picks any level the control law could produce, a non-finite one included),
`Gate` (`safety_decide` and the latch) and `Actuate`. The server is `Connect`, the
requests, `Drop` and `Close`, where `Close` is the disarm and stream stop on every
path back to `accept`. A reboot is `RebootDisarm`, `RebootRequest`, core 1's
`PrepareReboot` steps, `MarkQuiesced`, the time-out or success of the poll, and the
boot ROM's reset, which may be refused.

Signal levels are reduced to the classes the gate tells apart: safe, inside the
window, outside it, non-finite. The diagnostic counts of quiet and clamped ticks are
written together with the trip and are reduced to flags. `gated` is the rig's choice of a
safety gate and never changes; a gated rig drives one channel here.

### StreamSession

The control server and the streamer are tasks of one cooperative executor, so they
interleave at awaits only: the streamer's ticker and `send_to`. Core 1 interleaves
everywhere. `Wake` takes the snapshot of `STREAM` that the flush works from, re-arms on a
new generation and chooses between flushing and draining; `Fill`, `FillEnd`, `Header` and
`Sent` are the flush loop. `EnqueueRecord` and `CountDropped` are the end of core 1's tick:
core 1 never waits for room, so any number of records in a row may be lost. The losses are
told apart up to `MaxLost` and stay there (`OneMore`); the `u32` of `records_dropped` does
not wrap in the model. Record values, packet encoding and the stream target (always set
together with `enabled`) are left out. `lost`, `was_reset`, `armed_as` and `packed` are
history variables that only properties read.

### Broker

The tasks of `Broker` are the clients' `serve_client` tasks, the heartbeat (task 0), one
UDP receiver per connection (named by its generation) and the reconnection loop. The
runtime has several threads, so a step is one critical section, one request under the
upstream lock or one change of a shared cell;
`pc` says where it is and `op` which handler it runs. The state lock and the upstream lock
never outlive a step; `stream_operations` does, and is a variable. FIFO order of waiters
is not modelled: any waiting task may get it.

`NotConnected`, `Answered`, `Refused` and `Failed` are the outcomes of
`request_with_generation`; after a failure the device may or may not have done what it was
asked. `Take`, `Reset`, `StopRecording`, `ClearMetadata`, `ReadEpoch` and `MoveEpoch` are
`mark_upstream_failed` and, in its own order, `complete_mcu_reboot`. `StreamSetup`,
`CheckGeneration` and `WriteConfiguration` are `stream_setup`; `StreamStart`, `Prepare`,
`StartRecording`, `Run`, `CurrentUdp` and the request are `start_client`, with
`CloseSession` and `CloseRecording` as its rollback, the end of `stream_stop` and the end
of a complete session. `TableRequest` and `RecordOwner` are the two critical sections of
`table_request`.

The device is external: it serves one connection, answers, refuses or fails, keeps its
set-up across connections unless it restarts, and disarms and stops streaming when its
connection ends (which `OutputSafety` and `StreamSession` show of the firmware). The
recorder is a flag, because commands reach it in order and each sender waits for the
answer. One datagram is on its way at a time and carries one record. The quiet flag, the
history and its replay only choose what a client is sent; requests that are passed through
without touching broker state behave as the heartbeat's. `failed` is a history variable.

The theorems hold for every value of the bounds. `MaxGeneration` bounds the connections
made: the last connection neither fails nor is rebooted or given up, so that recovery is
judged on a connection that lasts. `MaxReceived` bounds the records of a session that are
counted. `Requests` and `Faults` select what clients do and what fails, besides requests,
heartbeats and connections, in a run.

### Recorder

The storage thread is `wpc`: it receives a command, opens a segment, writes rows and then
the packet table, finalises and renames, and every one of these may fail with part of its
work done. `Fail` is `SegmentSession`'s error path: the thread reports through the watch,
drops its queue and ends, which fails every sender (`SendFails`). The size limit may be
reached at any packet: `AppendPacket` is then followed by `Finalise`, `Rename` and
`OpenSegment`. `Crash` ends the process between any two steps, and `Booted` is the next one,
which finds the files. Callers are the broker's handlers: they queue a command, wait for
room or an answer, and mark the session. `Monitor` is the task that waits for the storage
thread's report (`storage_failure_monitor`); the shut-down sequence is `ShutdownBegin`,
`ShutdownStop`, `ShutdownRecording` and `Exit`. A record is its sample index, a file is its
rows, its packet table and the three attributes written last. The HDF5 library is external.
`delivered` and `due` are history: what clients were sent, and how much of it the recorder
was still expected to hold when its last Stop was queued.

### Discovery

`Push` and `Validate` are the start-up of the store, with one operator per kind of
assertion; a failed assertion is a panic. `Total`, `Base`, `Group` and `LocalId` are the walk
of `locate`. `PageEnd` is the packing rule of `encode_param_page`, a page is the definitions it
carries. `OnStatus`, `OnPage`, `OnSources`, `OnExperiment` and `OnFirmware` are
`discover_device` reply by reply, each with the checks that make it bail out. A text is a
name, its length and whether it has a NUL, so that only what the limits and the
NUL-delimited parsing decide is kept: `Readable` and `SourcesSound` refuse a text with a NUL,
which shifts the fields that follow it (a shifted parse that happens to pass every check,
possible when the next count is 256 or more, is refused too), and `Readable` a count of 0,
for which `size()` is 0. The length of an identity text is not modelled. `Learn` is a client
that discovers the device through the broker, or a disarm that has read its index; `held`
is what it has learnt and whether over this connection. `Write` sends one of these indices
over whichever connection is there, as `set_parameter` does, and `Close` is the moment
`serve_client` sees that the epoch has moved. `Restart` may come back with any firmware image;
`calm` marks the time from which nothing fails any more, for the liveness property.

### Program

One action per command of `StandardProgram::apply` and `Step` for the tick: phase, player,
control, frequency. The player has one operator per arm of `TablePlayer::step`. Sample
values are left out except the knots that are read; the PID is kept in whole quanta with
one tick as the unit of time, and a filtered derivative is any value between its old and
its raw one. `rig` selects the control compiled in (pass-through, PID, or any control that
steers the frequency) and the commands a host uses. `travel` and `age` are history: the
unwrapped way of the pass that sounds, and the enabled ticks since the last enabling edge.

### Pll

`Update` is one sample: `WarmingUp`, then an observation that is valid with any phase or is
not, then the acquisition (`EnterLocked`, `Acquire`, `AcquisitionFailed`) or `UpdateLock`.
Phases are whole degrees of `Turn`, corrections whole quanta, the clocks samples. The
limits of the correction are off by any error up to `Rounding`, as the code's f32
conversion of a u32 difference is; `AddSigned` is the saturating addition and clamp that
follow. Every setter of the type is an action. `good`, `bad` and `pinned` are history: what
the dwells claim to measure.

### Laser

`pc` is the service's place in `detect_baudrate`, `configure`, `drain_stopped_stream` and
the receive loop. Waiting for a reply takes one item of the receive buffer at a time, so a
reply that comes late is there for the next command. `Drain` discards what has come, and
`DrainQuiet` ends the drain as soon as nothing is there: 2 ms of silence say nothing of an
answer that is still due or of a stream that goes on. `overdue` records how many answers
were due then. `Parse`, `Accumulate`, `Count` and `Frame` are the parser and what `laser_run`
does with its events. The sensor is external: it boots, answers, refuses, and sends
measurements byte by byte, any of which may be lost and is then reported by the UART.
`disturbed`, `overdue` and `last` are history. `n` counts attempts, rates or commands, as
`pc` says; `LaserTypeOK` bounds it by the table it counts in. The specification is
`LaserSpec`, so that one module can extend `Laser` and `OutputSafety`.

### Memory and arithmetic

The atomics use acquire and release where the double buffer hands a bank over and
relaxed accesses for flags. The models are sequentially consistent: they check the
order of accesses in the program, not reordering by the hardware. The sample index
and the packet sequence number wrap (`IndexModulus`, `SeqModulus`); the countdown is
shown never to go below zero, so its `u32` does not wrap.

## 4. Runs

| Run | Instance | Shows |
|---|---|---|
| `command_table` | one table of three words, one scalar, queue of two | no write to a live bank, no unchecked word played, the reported length is the played one |
| `command_refine` | one coefficient vector of two words, one scalar with two settings, queue of two drained one command a tick | read-back with several updates of one parameter queued, refinement of `ParamSpec`, no buffer busy for ever unless a reboot is requested |
| `safety` | a gated rig with one channel and an ungated one with three | arming, faults, disarming, connection loss and reboot at every interleaving |
| `stream_session` | continuous and finite sessions, two starts, any number of losses, two told apart | exact countdown, reported losses, end of a finite session that keeps getting records |
| `broker_session` | two clients, two layouts, two connections; see the focus below | recording and session stay in step over stop, completion, rollback, failure and reboot; the configuration of a running session is fixed |
| `broker_recovery` | one client, table, arm and reboot requests, two connections | old failures do not touch a new connection; the broker always reconnects |
| `recorder` | two sessions of two packets, two segments, queue of one, one kill | files and replay claim nothing untrue at any point of failure; callers are answered; a storage failure ends the broker |
| `laser` | two baud rates, a wrong and a right one, four measurements, three losses, three upsets | a sensor that is read has accepted its settings, but for as many of the last as answers were overdue after the drain, less one; if none was, it sends, distances are whole and errors are explained; the sensor is configured in the end |
| `pll` | a turn of four, range up to four quanta, dwells of two | frequency in range; lock and loss of lock are earned |
| `program` | a modulus of four, tables of two and three knots, four rigs | a triggered pass begins and is one pass; the control forgets |
| `discovery` | firmware images: three that are discovered, four that pass the validation and cannot be described, one for each assertion that fails | metadata is the device's registry, writes by current indices reach what they name, discovery of a describable registry ends |
| `broker_disarm` | one client, two connections | a statement of the docs that does not hold, see below |

A property that is proved for every value of the constants is not in a run as well, unless
it is the main one of its module. The theorems of section 6 were checked by TLC on the same
instances before they were proved.

Bounds. A double buffer's protocol depends on one buffer, its other bank and at most
one token, so one buffer with a second target in the queue meets every case; a queue of two
is often full and holds two updates of one parameter, and three table words separate a
short prefix from a long one. `CommandsPerTick` is reached. Three channels let the
output move between them before a reboot. Two stream starts are what a stale
completion needs; index period 2 makes the index wrap many times. `MaxStarts` is the only
counter that is cut off, and losses are told apart up to `MaxLost`; the theorems hold for
every value of them.

Two connections and two clients are what the broker's races need: an old connection's late
clean-up against a new one, and one client's handler inside another's. Two layouts
distinguish a session's configuration from a late write-back. `broker_session` cuts its
state space with `Focus`: as long as a finite session, a datagram or a storage failure is
followed, one client is served, with one set-up and without a reboot; two clients race over
continuous sessions, and a reboot is explored while the other client is idle or away.
`RecordingFollowsSession` and `SessionConfigStable` are proved without any such limit.

In `recorder`, two sessions and two segments show a name that is taken, a queue of one is
full at once, and one kill leaves every prefix of the file operations behind. The sample
indices of a session are 0, 3 and then 1, past the wrap at five. In `laser`, a wrong and the
right rate, more upsets than any one command survives, and a stream of bytes longer than the
receive buffer are enough for every arm of the service but one: the arm of `push_event` for
an L byte in the middle of a value is reached only when a loss goes unreported. In `pll`,
dwells of two tell an interrupted dwell from a whole one. In `program`, increments of two
and three quarter turns wrap at different places, and a multiplier of three crosses a period
within a tick. In `discovery`, each invalid image fails one assertion and no other, each
image that cannot be described fails one check of the broker, and the pages hold one or two
definitions, so every image takes several.

With packets of one record the flush loop can follow the sampling core for ever without
returning to its ticker, which only the speed of the network rules out. `FiniteCompletes`
therefore speaks of a session the streamer has adopted. It also supposes that the ring keeps
coming to hold a record the decimation keeps (`Fed`): since core 1 never waits, a streamer
that is late in step with the decimation can lose just these, for ever.

### Where the code and its texts disagree

* **The last client's disarm can be skipped** (`broker_disarm`). The clean-up after a lost
  connection takes the connection, then resets the state, and only then clears the
  metadata. The reconnection loop may install the next connection's metadata before that;
  it is wiped, `disarm` finds no parameter index and returns, and the device stays armed
  although no client is left.

Further observations have no run of their own. The first three are behaviours of the
models, which no property excludes; the others were read from the code while modelling it.

* Broker: a lost connection can leave a client open (`ReadEpoch`, `MoveEpoch`). The epoch is
  read, incremented and replaced in two steps without a lock (`server.rs:287`). The clean-ups
  of two connections may both read it before either replaces it; a client that subscribes
  between the two replacements started from the number the second one writes, so
  `serve_client` finds nothing changed, although `docs/broker.md:76` says that the loss
  "closes all client connections".
* Laser: replies to the configuration can be ambiguous (`DrainQuiet`). An answer later than
  its wait and the drain's 2 ms of silence is read as the acceptance of the next command,
  and every later one as that of its successor; the refusal of `OUTPUT RS422` is then read
  by no one, and the receive loop waits for a sensor that sends nothing. `laser.rs:184` says
  that stopping the stream makes the replies "quiet and unambiguous". `SettingsAccepted`
  says how much the task may still conclude.
* Discovery: an index of an earlier connection can be used (`Write`). `serve_client` selects
  between a request and the change of the epoch (`server.rs:1040`), so a request that is
  already there may be handled after the loss, and `set_parameter` forwards its index to the
  connection that is installed by then. If the device came back with other firmware, another
  parameter is written, although clients are said to be closed and to "rediscover state"
  (`docs/broker.md:76`). `WriteReaches` is about the indices of the connection in use.
* Stream: the completion of a finite session clears `STREAM.enabled` after the last
  packet's `await` without looking at the generation (`udp.rs:145`). A stop and a start
  acknowledged during that `await` are undone: the new session is disabled before it sends
  anything (`comms/mod.rs:28` describes the generation as what tells sessions apart).
* Stream: records are packed as the ring holds them (`udp.rs:103`), so a packet may span a
  gap, which only its drop count shows; `docs/protocol.md:292` describes a packet as
  contiguous. The records of up to one ticker interval before `StreamStart` lead the
  first packet. A flush that awaits the network when the connection ends goes on to pack
  and send. Decimation by `index % decimation` is uneven where the u32 index wraps, unless
  the decimation divides 2^32.
* Broker: the owner of a table transaction is checked before the request and recorded
  after it (`server.rs:1371`, `1388`), so two clients can both find the table free and
  interleave, against `docs/broker.md:69`. A session may be marked running after a
  reconnection cleared its configuration, and a late completion may end a newer session. A
  set-up's configuration may be written after its connection was replaced, when that happens
  between the second look at the generation and the write (`server.rs:1160`).
* Recorder: a packet that arrives after the Stop of the shut-down was queued is delivered
  to clients and not recorded; `CompleteHoldsAll` counts from that Stop. A kill between
  finalising and renaming leaves a `.partial` file marked clean, which
  `docs/broker.md:178` excludes.
* Safety: an arm written between the tick that latched a trip and the next tick's load is
  not seen as an edge by the programme (`program.rs:199`): its control continues from the
  state at the fault, while the output stays governed by the gate. After a rejected reboot
  core 1 spins for ever while parameters are still accepted: a published buffer then stays
  busy, which is why `BusyIsTransient` and the fairness of `ParamSpec` end with a reboot
  request. The count of quiet ticks
  wraps at 2^32.
* Parameter path: the backlog diagnostic reads the queue length after the drain, so
  commands that arrive during it are counted with those drained.
* Programme: a free one-shot never plays phase 0, and the sample at which it wraps is
  silent; with an increment of 0 it never ends.
* Phase-locked loop: `set_target_phase` in Fixed starts an acquisition although the loop
  was not enabled (`docs/proposals/selectable-control-and-pll.md:495` speaks of "while PLL
  mode is active"); in Acquiring it does not restart the dwell. Raising a time constant
  while locked re-enters the warm-up, during which a loss is not noticed. A centre moved
  while the loop tracks keeps the old correction. No rig of the repository uses the loop.
* Laser: the drain goes on while a stream that was not stopped comes without a pause of
  2 ms; a sensor that
  restarts later is not configured again; a distance is stored before the stream is
  synchronised, and stays when the stream ends.
* Discovery: the validation accepts a name or source with an embedded NUL, a definition
  with count 0 and a registry without the identity texts, all of which the broker refuses at
  every attempt. Each is an image of the run; `DiscoverySucceeds` is about the others
  (`Describable`).

## 5. Fairness

* Core 1 (`WF` on its next step): the hot loop never blocks; a missing hardware tick
  times out into the next iteration. Once a reboot is requested no tick starts, so nothing
  is promised of the queue from then on.
* A handler of core 0 that was begun finishes: handlers contain no await.
* Core 1's sampling and the streamer continue: the ticker fires and the network takes
  a packet in the end. That the ring offers records worth keeping is a condition of
  `FiniteCompletes`, not assumed of the specification.
* The boot ROM performs a reset it has accepted; the control server's poll ends by its
  deadline.
* The broker's tasks go on once they have begun something (requests have time-outs), the
  reconnection loop retries for ever, the heartbeat finds a dead connection by its
  time-out, and the device finds one by TCP keep-alive.
* The storage thread, the callers that have begun and the broker's monitor go on; the file
  system answers, with success or failure.
* The laser task runs; a powered sensor boots and answers in the end. Its bytes, losses
  and refusals are not fair, and upsets are finite in number.
* The tick of the programme is driven by a hardware timer.
* The device's server and the broker's discovery loop go on; failures end at some time
  (`calm`), and only then is discovery promised, of a device that has started. No client is
  obliged to learn, write or close.
* Nothing obliges a host: no request, connection or start is fair.

`CHECK_DEADLOCK` is on in every run.

## 6. Proofs

All theorems are about the same modules TLC checks, under the `ASSUME`s in them, which TLC
evaluates on every run:

* `CommandPath`: buffers, tables and scalars are disjoint, sizes are positive naturals,
  `NaN` is not finite, the encoding of a setting is a value.
* `Broker`: clients are not numbers (which name the heartbeat and the receivers) and
  `NoClient` is neither a client nor a layout; counts and bounds are naturals.
* `Recorder`: packets, capacities, the queue, the decimation and the index modulus are
  positive; there is a session to start; no stop reason is the mark of a segment that was
  not closed (`"none"`).
* `Discovery`: an image's groups, domains and sources have the types the compiler gives
  them; lengths and limits are naturals, and `MAX_SOURCES` fits the status reply's byte.
  An image is otherwise arbitrary: what makes it valid is checked by `Validate`, not
  assumed.
* `OutputSafety`: `LastChannel` is a natural. `StreamSession`: capacities, moduli and
  decimations are positive. `Program`: increments, multipliers and offsets are words, and a
  table has at least two knots, as `table.rs` demands.
* `Pll`: sizes are naturals, and `MaxDwell`, the length to which the history `good` is kept,
  is at least every lock dwell the host sets; it is a bound of the model and may be as large
  as one likes.
* `Laser`: there is a rate, a frame to synchronise on and room in the buffer; `MaxEarly`, the
  measurements a sensor left streaming may send, is part of `MaxMeasurements`.

* **CommandPath**. `TypeCorrect`, `TokensAreLinear`, `BorrowsArePrivate`,
  `LiveBanksAreStable`, `BacklogIsBounded`. The inductive invariant `Protocol` has three
  parts. `TypeInv` is `TypeOK` with what the program counters imply (`Control`).
  `TokenLinear` is itself needed for induction: that a bank is published exactly while one
  token exists is what makes core 1's activation name the bank core 0 sealed.
  `BankDiscipline` ties the cached bank, `active` and `pending` together at each step of an
  activation: outside `ActivateSwap`/`ActivateClear` the cache equals `active`, so a bank
  chosen as "not active" while nothing is pending is not the one core 1 reads, and nothing
  can become pending while core 0 holds it.

  `PlayedTablesAreSound` adds `TableInv`: the live bank and every published one are finite
  up to their length, and so is the bank of a commit between its check (`Seal`) and its
  publication; the length core 1 reports lags only inside an activation. That core 0 cannot
  write a sealed bank again is `BankDiscipline`. `ReadBackIsExact` adds `ShadowInv`: a
  staged bank is what the host sent, the shadow of a vector is the published bank once its
  token is in the queue and the live one otherwise, and the shadow of a scalar is the last
  word queued for it. `UpdatesAreAtomic` is the safety part of `AtomicUpdates`: the tokens
  in the queue and in core 1's hand, each replaced by the contents of the bank it names, are
  the FIFO of `ParamSpec`. Enqueuing accepts an update, the swap of an activation applies
  it, and every other step is a stutter, because no bank that a token names is written
  (`TokensAreLinear`, `BankDiscipline`).
* **OutputSafety** (in `Device_proofs`). `SafetyTypeCorrect`, `LossDisarms`, `DisarmQuiets`,
  `WindowHolds`, `FaultsLatch`, `QuiescedRests`, from `IInv == TypeOK /\ Unattended /\
  TickHistory /\ RebootProgress`: what has been disarmed at each point of `Close`; what the
  tick's loaded flags say about the time since `TickStart`; and which channels have been put
  to rest by the quiescence steps so far.
* **StreamSession**. `StreamTypeCorrect`, `ConfigFixed`, `CountExact`, `LossesReported`,
  from `IInv == FlagsOK /\ StateOK /\ Generations /\ Countdown /\ LossesCounted`: while
  `STREAM` is enabled under the generation that was armed its configuration is the armed
  one, since set-up is refused while enabled; the countdown is positive wherever a flush may
  begin; a record's recorded losses have been counted by the time it is in the ring.
* **Broker**. `SessionsRecorded` and `WakeupsKept`, from `IInv == ControlOK /\
  ReceiversFresh /\ NoLostWakeup /\ ClosersKnown /\ RecordingFollowsSession`. Most steps are
  `Plain`: they move one task between labels at which it owes nothing, so what the others
  owe is unchanged, and are handled by one lemma. The rest hand over a debt: the reset of a
  lost connection takes the recording of a running session (`ClosersKnown` says which tasks
  still carry it), a start opens the recording before it marks the session running, the end
  of a session marks it ended before it closes the recording. `ReceiversFresh` is needed
  because installing a connection starts a receiver task, which must not be one that owes
  something. No lock is needed for either theorem: the state lock's critical sections alone
  order the debts.

  `BrokerTypeCorrect`, `ConfigurationStays` and `DropsHaveCause` need the rest of the state:
  `BrokerInv` adds `DataOK`, `LocalsOK`, `Disciplined` for every task, `NoneToReplace`,
  `EpochCounted` and `ReceivedCounted`. A handler of kind set-up, start or stop holds
  `stream_operations`; a set-up that may still write its configuration found no session
  running, and only a start, under the same lock, marks one running: so a write-back cannot
  meet a running session (`ConfigurationStays`). Whoever is about to take a connection has
  seen it fail, and a new one is installed only where there is none (`DropsHaveCause`). That
  the epoch stays within the connections made is a count: a connection is being made, is
  there, was taken by a task that has yet to move the epoch on (`Connecting`), or has moved
  it already. What a task has read and is about to put there may be behind the epoch, which
  others have moved on since, so `EpochCounted` bounds `next_epoch` by itself; that the
  epoch grows is not claimed, and does not hold (section 4, observations).
* **Recorder**. `RecorderTypes`, `FinalFilesAreSound`, `SegmentsAreLinked`,
  `CompleteSessionsHoldAll`, `ReplayIsExact`, from `RecorderInv == Types /\ Tables /\
  Control /\ Pipeline /\ Links`, each layer inductive given the ones before. `Tables` says
  of the open segment how far its rows, its packet table and its attributes have got, which
  is what a rename makes final. `Control` says which command of which caller is in the
  queue, in the storage thread's hand or still owed. `Pipeline` cuts the packets handed on
  at one place `k`: those before it are in the session's files, the next ones are in hand
  and in the queue, in this order, and no Stop stands before a packet it owes. `Links`
  chains the segments of a session by index and record offset. From these, the concatenation
  of the files is a prefix of what was handed on, and for a session marked complete it is at
  least what its Stop owed. `Window` is the invariant of the history: its packets are the
  newest of the session that runs. Files are compared with folds over sequences of any
  length; the facts about them are proved by induction, see below.
* **Discovery**. `DiscoveryTypeCorrect`, `MetadataIsTheDevices`,
  `WritesReachTheirParameter`, `DiscoveryNeverRefused`, from `DiscoveryInv == Registry /\
  Knowledge /\ Connection /\ Holding /\ WriteReaches` and the type of `calm`. `Holding` says
  that indices learnt over this connection are the broker's own, and that a write on its way
  with one of them names the definition it was learnt from; nothing is claimed of older ones
  (section 4, observations). `Registry` says that a serving store is valid and is the image it was
  composed from. `Knowledge` and `Connection` say what the broker knows at each step, and
  that the request or reply on the wire is the one for that step, computed from the store of
  the device that holds the connection; a device that restarts takes the connection with it.
  The parameters known are the definitions `0 .. start - 1` in order. Three facts about the
  operators carry the proof: `Located` (every index has exactly one group and local index in
  the walk), `PageEndIs` and `PageAdvances` (a page is the longest run of definitions that
  fits, and is never empty for a definition that passed `FitsPage`) and `ClaimedOnce` with
  `ReachesOwn` (a domain in a valid image leads to its own group only).
  `DiscoveryNeverRefused` states the half of `DiscoverySucceeds` that needs no fairness: no
  check of `discover_device`, the zero size and NUL checks included, rejects a reply of a
  validated device that is `Describable`, and both identity texts are found. The condition
  is what the broker asks beyond the validation, see above.

* **Pll**. `PllTypeCorrect`, `FrequencyInRange`, `LossIsEarned`, `LossStays`, `LockIsEarned`, from
  `IInv == Numbers /\ InRange /\ Counted`. `InRange` is inductive given the types: whatever
  an observation asks for, `AddSigned` brings back, and each setter of the range keeps the
  centre inside. `Counted` says that the unlock and saturation clocks of a locked loop are
  the histories `bad` and `pinned`. Nothing is assumed about the gains, the delay or the
  rounding but that they are numbers. `LockIsEarned` adds `Dwelling`: while the loop
  acquires, the last corrections of the run within tolerance, as many as the dwell has
  counted, lie between `lock_correction_min` and `lock_correction_max`. Their spread is then
  at most the difference the code compares (`SpreadBounded`; the extremes of the set exist by
  `LeastMember`). An update that falls outside restarts the count and the extremes together,
  and no setter lets the one survive the other.
* **Program**. `ProgramTypeCorrect`, `OnePassOnly`, `PassesAreWhole`, `KnotsStayInTable`,
  `NominalIsRestored`, `ControlStartsAfresh`, `WindupLimited`. The player's invariant adds
  to `OnePass` that a locked pass that runs has a table and took the master phase at the
  last tick (`PlaybackOK`): only then is the wrapping difference of two phases the
  increment (`DifferenceIsIncrement`), whatever the increments were. The integrator's two
  bounds rest on one lemma about conditional integration (`IntegrateBounded`), in which the
  three products are bounded one by one.
* **Laser** (in `Device_proofs`). `LaserInvariance`, `LaserTypeCorrect`,
  `OnlyConfiguredSensorsRun`, `DistancesAreWhole`, `ErrorsHaveCauses`,
  `WholeMeasurementsArePublished`, from `LaserInv == LineOK /\ TaskOK /\ Matched /\ Fresh /\
  Counts /\ Tracked /\ (overdue = 0 /\ sensor_baud = Required => Setup /\ Reception /\
  Tallies)`, for any number of rates, upsets, losses and measurements. `overdue` is decided
  when the drain ends, whose 2 ms of silence do not show that the sensor has finished.

  `Matched` is why only a configured sensor is read, however late it answers
  (`OnlyConfiguredSensorsRun`). A sensor that has not booted or is at another rate sends no
  prompt after the drain (`Asleep`, `Garbled`). Otherwise the items in the receive buffer can
  be numbered by the command whose answer they belong to (`Numbering`): the numbers go up by
  one at a prompt and end at the command the sensor answers next (`Due`). When the drain ends
  the buffer is empty and the first number is behind the next command by the answers that are
  due; reading a prompt moves both on by one, so the task never gets further ahead than that
  (`Numbered`). The prompt that ends a refusal has its error code before it, in the buffer or
  in `reply_error` (`Marked`), so no refusal that is read passes for an acceptance. At the
  fifth prompt the settings up to the fifth command less `overdue` have been read as
  accepted. A time-out or a refusal goes back to before the drain.

  `Setup` says more if nothing was overdue: the output has stopped (`Stopping`), nothing is
  on the line, and from there to the receive loop at most one command is under way, in one
  of the forms of its answer (`Unanswered`, `RefusedNow`, `AcceptedNow`). Distances and
  errors need this: a late reply in the stream is no measurement, and the parser takes the
  end of its text for an L byte.

  `Reception` is about the stream once `OUTPUT RS422` has been accepted. What is received and
  not yet parsed is a `Stream`: bytes follow each other as the sensor sends them, and where
  they do not there is the report of a loss. `Parsing` says that the parser's accumulator is
  the beginning of the measurement that continues there (`DistancesAreWhole`), and that the
  resynchronisations made and still to be made (`Pending`: one after the loss of an L and an M
  byte, two after that of an L byte) are at most two for each UART error
  (`ErrorsHaveCauses`). `ReceiveKinds` then leaves four of the cases of `push_event` and of
  the receive loop: a loss, a byte in its place, one out of place after a loss, the end of a
  distance. `Counts` gives the parser and the counters their types, whatever is received.
  `Tracked` relates the parser to the last two bytes alone, with no assumption about what
  came before them (`WholeMeasurementsArePublished`).

Induction over data. The folds over packets, rows and parameter lists are about sequences of
any length. The library's induction theorems take a predicate as a parameter, which the
backends cannot instantiate, so the proofs use induction stated with sets: a set of naturals
that holds 0 and is closed under successor is `Nat` (`NatInd`, from the minimal element of a
well-founded relation, `WFMin`), and likewise a set of sequences that holds the empty one and
is closed under `Append` (`SeqInd`). An induction is then an application to a set written out
in the proof.

Only model-checked: every liveness property (`BusyIsTransient`, the fairness part of
`AtomicUpdates`, `LossQuiets`, `RebootQuiesces`, `FiniteCompletes`, `Reconnects`,
`CallersAnswered`, `FailureEndsBroker`, `Configured`, `ArmedBegins`, and that a discovery
ends, `DiscoverySucceeds`), which need fairness and ENABLED, beyond the prover. Every safety
property of a passing run is also a theorem.

## 7. Not modelled

Floating-point arithmetic of the signal path (filters, Fourier statistics, the sine table),
hardware registers, the word encodings of drivers, frame and CRC formats, beacons, network
bring-up, build support, the broker's entry point and the host clients, each for the reason
given in `PROJECT.json`. Of the broker: the quiet flag and which packets a client is
replayed (the window they come from is in `Recorder`), and beacon answers. Of the programme:
the sample-rate tables and signal names. Hardware reordering of relaxed atomics.
