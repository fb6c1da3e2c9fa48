------------------------------- MODULE Broker -------------------------------
(***************************************************************************)
(* The broker server: one device connection and one stream session shared  *)
(* by any number of clients.                                               *)
(*                                                                         *)
(* The tasks are the clients' serve_client tasks, the heartbeat (task 0)   *)
(* and one UDP receiver per connection (task g for generation g), besides  *)
(* the reconnection loop.  They run on several threads; one step is one    *)
(* critical section of the state lock, one request under the upstream      *)
(* lock, or one change of a shared cell.  The lock stream_operations is    *)
(* held across steps.  The device is external: it serves one connection,   *)
(* disarms and stops streaming when that ends, and may answer, refuse or   *)
(* leave any request unanswered.  The recorder takes its commands in the   *)
(* order they are sent.  The quiet flag, the history and its replay only   *)
(* select which datagrams a client is sent, and are left out.              *)
(***************************************************************************)
EXTENDS Naturals, FiniteSets

CONSTANTS
    Clients,
    NoClient,        \* no table owner
    Layouts,         \* source lists and decimations
    Counts,          \* record counts a client asks for, 0 for continuous
    Requests,        \* the kinds of request clients make
    Faults,          \* what fails besides requests, heartbeats and connections
    MaxGeneration,   \* bound: connections made; the last one never fails
    MaxReceived      \* bound: records of one session that are counted

Generations == 1..MaxGeneration
Heartbeat == 0
Tasks == Clients \cup {Heartbeat} \cup Generations
Configurations == [layout : Layouts, count : Counts]
NoConfiguration == [layout |-> NoClient, count |-> 0]
Unlocked == MaxGeneration + 1
RequestKinds == {"setup", "start", "stop", "block", "commit", "arm", "reboot"}

ASSUME BrokerAssumption ==
    /\ MaxGeneration \in Nat \ {0}
    /\ MaxReceived \in Nat
    /\ Clients \cap Nat = {}
    /\ NoClient \notin Clients \cup Layouts
    /\ Counts \subseteq Nat
    /\ Requests \subseteq RequestKinds
    /\ Faults \subseteq {"receive", "restart", "storage"}

VARIABLES
    \* App
    upstream,          \* generation of the connection, 0 for none
    next_generation,
    metadata,          \* device metadata is present
    epoch,             \* the value of the watch channel
    reconnect,         \* the stored permit of the Notify
    stream_operations, \* the task that holds the lock, or Unlocked
    \* SharedState
    configuration, running, received_records,
    clients,           \* clients[c]: "none" or how c is attached
    table_owner,
    \* The recorder
    recording, fatal,
    \* Tasks
    pc, op,
    generation,        \* generation[t]: the connection t works for
    was_running,       \* was_running[t]: t still has to close a recording
    seen,              \* seen[t]: the epoch t started in
    next_epoch,        \* next_epoch[t]: the epoch t is about to put there
    argument,          \* argument[c]: the configuration c sets up
    loop,              \* the reconnection loop
    \* The device
    device,
    packet,            \* a datagram on its way, with its socket and layout
    \* History
    failed             \* connections that failed, were rebooted or given up

session == <<configuration, running, received_records, clients>>
locals == <<pc, op, generation, was_running, seen, argument>>
epochs == <<epoch, next_epoch>>
link == <<upstream, next_generation, metadata, epochs, reconnect, loop, failed>>
recorder == <<recording, fatal>>
world == <<device, packet>>
vars == <<link, stream_operations, session, table_owner, recorder, locals, world>>

NoPacket == [socket |-> 0, layout |-> NoClient]

Init ==
    /\ upstream = 0 /\ next_generation = 1 /\ metadata = FALSE
    /\ epoch = 0 /\ next_epoch = [t \in Tasks |-> 0] /\ reconnect = FALSE
    /\ stream_operations = Unlocked
    /\ configuration = NoConfiguration /\ running = FALSE /\ received_records = 0
    /\ clients = [c \in Clients |-> "none"]
    /\ table_owner = NoClient
    /\ recording = FALSE /\ fatal = FALSE
    /\ pc = [t \in Tasks |-> IF t = Heartbeat THEN "idle" ELSE "off"]
    /\ op = [t \in Tasks |-> "none"]
    /\ generation = [t \in Tasks |-> 0]
    /\ was_running = [t \in Tasks |-> FALSE]
    /\ seen = [t \in Tasks |-> 0]
    /\ argument = [c \in Clients |-> NoConfiguration]
    /\ loop = "check"
    /\ device = [serving |-> 0, armed |-> FALSE, socket |-> 0, left |-> 0,
                 setup |-> NoConfiguration]
    /\ packet = NoPacket
    /\ failed = {}

-----------------------------------------------------------------------------
(* Moving a task on.  A fatal error ends the broker: no task moves after   *)
(* it.                                                                     *)

Goto(t, l) ==
    /\ ~fatal
    /\ pc' = [pc EXCEPT ![t] = l]

(* A handler returns: its guard on stream_operations is dropped and its    *)
(* locals are gone.  "none" is where a task ends, or waits for the next    *)
(* request, datagram or tick.                                              *)
Return(t, l) ==
    /\ Goto(t, l)
    /\ op' = [op EXCEPT ![t] = "none"]
    /\ generation' = [generation EXCEPT ![t] = 0]
    /\ was_running' = [was_running EXCEPT ![t] = FALSE]
    /\ argument' = [c \in Clients |-> IF c = t THEN NoConfiguration ELSE argument[c]]
    /\ stream_operations' = IF stream_operations = t THEN Unlocked ELSE stream_operations
    /\ seen' = [seen EXCEPT ![t] = IF l \in {"leave", "off"} THEN 0 ELSE @]

Stay(t, l) ==
    /\ Goto(t, l)
    /\ UNCHANGED <<op, generation, was_running, seen, argument, stream_operations>>

(* What follows a request that returned an error.  A client's handler      *)
(* returns it, which ends the client; a start is rolled back first; the    *)
(* heartbeat goes on, the receiver and the last client's disarm end.       *)
AfterError(t) ==
    \/ /\ op[t] = "start"
       /\ Goto(t, "close")
       /\ op' = [op EXCEPT ![t] = "failedstart"]
       /\ UNCHANGED <<generation, was_running, seen, argument, stream_operations>>
    \/ /\ op[t] # "start"
       /\ Return(t, IF t = Heartbeat THEN "idle"
                    ELSE IF t \in Generations \/ op[t] = "disarm" THEN "off"
                    ELSE "leave")

-----------------------------------------------------------------------------
(* Losing the connection: mark_upstream_failed and complete_mcu_reboot.    *)

(* The connection is taken only by a task that worked for it.  (Mutants:   *)
(* whatever connection is there; the clean-up runs although another task   *)
(* has taken it.)                                                          *)
TakesAny(t) == upstream # 0
TakesAlways(t) == TRUE
Takes(t) == upstream # 0 /\ upstream = generation[t]

Take(t) ==
    /\ pc[t] = "take"
    /\ IF Takes(t)
         THEN upstream' = 0 /\ Stay(t, "reset")
         ELSE AfterError(t) /\ UNCHANGED upstream
    /\ UNCHANGED <<next_generation, metadata, epochs, reconnect, loop, failed, session, table_owner,
                   recorder, world>>

Detached == [c \in Clients |-> IF clients[c] = "none" THEN "none" ELSE "detached"]

(* The shared state is reset under its lock.  After a failure the          *)
(* recording is closed next, after a reboot it is closed last.             *)
Reset(t) ==
    /\ pc[t] = "reset"
    /\ running' = FALSE
    /\ configuration' = NoConfiguration
    /\ received_records' = 0
    /\ clients' = Detached
    /\ table_owner' = NoClient
    /\ was_running' = [was_running EXCEPT ![t] = running]
    /\ Goto(t, IF running /\ op[t] # "reboot" THEN "stop" ELSE "metadata")
    /\ UNCHANGED <<link, stream_operations, recorder, op, generation, seen, argument, world>>

(* Stop reaches the recorder.                                              *)
StopRecording(t) ==
    /\ pc[t] = "stop"
    /\ recording' = FALSE
    /\ IF op[t] = "reboot"
         THEN AfterError(t)
         ELSE /\ Goto(t, "metadata")
              /\ was_running' = [was_running EXCEPT ![t] = FALSE]
              /\ UNCHANGED <<op, generation, seen, argument, stream_operations>>
    /\ UNCHANGED <<link, session, table_owner, fatal, world>>

ClearMetadata(t) ==
    /\ pc[t] = "metadata"
    /\ metadata' = FALSE
    /\ Stay(t, "epoch")
    /\ UNCHANGED <<upstream, next_generation, epochs, reconnect, loop, failed, session, table_owner,
                   recorder, world>>

(* The epoch is read, and the next one put there, without a lock.          *)
ReadEpoch(t) ==
    /\ pc[t] = "epoch"
    /\ next_epoch' = [next_epoch EXCEPT ![t] = epoch + 1]
    /\ Stay(t, "replace")
    /\ UNCHANGED <<upstream, next_generation, metadata, epoch, reconnect, loop, failed, session,
                   table_owner, recorder, world>>

(* The epoch moves on, and the reconnection loop is woken.  (Mutant: the   *)
(* notification only reaches a loop that already waits.)                   *)
NotifyWaiting == loop = "wait"
Notify == TRUE

MoveEpoch(t) ==
    /\ pc[t] = "replace"
    /\ epoch' = next_epoch[t]
    /\ next_epoch' = [next_epoch EXCEPT ![t] = 0]
    /\ reconnect' = (reconnect \/ Notify)
    /\ IF was_running[t] THEN Stay(t, "stop") ELSE AfterError(t)
    /\ UNCHANGED <<upstream, next_generation, metadata, loop, failed, session, table_owner,
                   recorder, world>>

Cleanup(t) ==
    \/ Take(t) \/ Reset(t) \/ StopRecording(t) \/ ClearMetadata(t)
    \/ ReadEpoch(t) \/ MoveEpoch(t)

-----------------------------------------------------------------------------
(* Requests to the device.                                                 *)

(* What the device does with an accepted request of task t.                *)
Refuses(t) ==
    \/ op[t] = "setup" /\ device.socket # 0
    \/ op[t] = "start" /\ device.setup = NoConfiguration

Performed(t) ==
    CASE op[t] = "setup"  -> [device EXCEPT !.setup = argument[t]]
      [] op[t] = "start" ->
            [device EXCEPT !.socket = generation[t], !.left = device.setup.count]
      [] op[t] = "stop"   -> [device EXCEPT !.socket = 0, !.left = 0]
      [] op[t] = "arm"    -> [device EXCEPT !.armed = TRUE]
      [] op[t] = "disarm" -> [device EXCEPT !.armed = FALSE]
      [] op[t] \in {"reboot", "plainreboot"} ->
            [device EXCEPT !.serving = 0, !.armed = FALSE, !.socket = 0, !.left = 0,
                           !.setup = NoConfiguration]
      [] OTHER            -> device

(* Where a handler goes on after the answer it wanted.  A table request    *)
(* records its outcome in op; a reboot retires the connection it was       *)
(* acknowledged on, unless the metadata that names its parameter was       *)
(* missing ("plainreboot") or the client is gone before it is told.        *)
AfterAnswer(t) ==
    CASE op[t] = "setup"  -> Stay(t, "written")
      [] op[t] = "stop"   -> Stay(t, "close")
      [] op[t] = "disarm" -> Return(t, "off")
      [] op[t] \in {"block", "commit"} ->
            /\ Goto(t, "own")
            /\ op' = [op EXCEPT ![t] = IF @ = "block" THEN "owned" ELSE "released"]
            /\ UNCHANGED <<generation, was_running, seen, argument, stream_operations>>
      [] op[t] = "reboot" ->
            \/ /\ Goto(t, "take")
               /\ generation' = [generation EXCEPT ![t] = upstream]
               /\ UNCHANGED <<op, was_running, seen, argument, stream_operations>>
            \/ Return(t, "leave")
      [] OTHER            -> Return(t, "idle")

(* ... and after an error answer.  A commit that the device finds Busy     *)
(* keeps its owner; a start is rolled back; a disarm that is refused ends  *)
(* the connection.                                                         *)
AfterRefusal(t) ==
    CASE op[t] = "start" -> Stay(t, "close")
      [] op[t] = "disarm" -> Stay(t, "force")
      [] op[t] = "commit" ->
            /\ Goto(t, "own")
            /\ \E r \in {"released", "kept"} : op' = [op EXCEPT ![t] = r]
            /\ UNCHANGED <<generation, was_running, seen, argument, stream_operations>>
      [] OTHER            -> Return(t, "idle")

NotConnected(t) ==
    /\ pc[t] = "request"
    /\ upstream = 0
    /\ AfterError(t)
    /\ UNCHANGED <<link, session, table_owner, recorder, world>>

Answered(t) ==
    /\ pc[t] = "request"
    /\ upstream # 0 /\ upstream = device.serving
    /\ ~Refuses(t)
    /\ op[t] \in {"reboot", "plainreboot"} => upstream < MaxGeneration
    /\ device' = Performed(t)
    /\ failed' = IF op[t] \in {"reboot", "plainreboot"} THEN failed \cup {upstream} ELSE failed
    /\ AfterAnswer(t)
    /\ UNCHANGED <<upstream, next_generation, metadata, epochs, reconnect, loop, session,
                   table_owner, recorder, packet>>

Refused(t) ==
    /\ pc[t] = "request"
    /\ t \in Clients
    /\ upstream # 0 /\ upstream = device.serving
    /\ op[t] = "disarm" => upstream < MaxGeneration
    /\ AfterRefusal(t)
    /\ UNCHANGED <<link, session, table_owner, recorder, world>>

(* No answer in time, or a broken connection; the device may have done     *)
(* what it was asked.                                                      *)
Failed(t) ==
    /\ pc[t] = "request"
    /\ upstream # 0
    /\ upstream # device.serving \/ upstream < MaxGeneration
    /\ \/ UNCHANGED device
       \/ /\ upstream = device.serving
          /\ ~Refuses(t)
          /\ device' = Performed(t)
    /\ failed' = failed \cup {upstream}
    /\ generation' = [generation EXCEPT ![t] = upstream]
    /\ op' = [op EXCEPT ![t] = IF @ = "reboot" THEN "plainreboot" ELSE @]
    /\ Goto(t, "take")
    /\ UNCHANGED <<upstream, next_generation, metadata, epochs, reconnect, loop, session,
                   stream_operations, table_owner, recorder, was_running, seen, argument,
                   packet>>

Request(t) == NotConnected(t) \/ Answered(t) \/ Refused(t) \/ Failed(t)

(* force_upstream_disconnect gives up the connection that is there now.    *)
ForceDisconnect(t) ==
    /\ pc[t] = "force"
    /\ upstream # MaxGeneration
    /\ IF upstream = 0
         THEN Return(t, "off") /\ UNCHANGED failed
         ELSE /\ Goto(t, "take")
              /\ generation' = [generation EXCEPT ![t] = upstream]
              /\ failed' = failed \cup {upstream}
              /\ UNCHANGED <<op, was_running, seen, argument, stream_operations>>
    /\ UNCHANGED <<upstream, next_generation, metadata, epochs, reconnect, loop, session, table_owner,
                   recorder, world>>

-----------------------------------------------------------------------------
(* Clients: serve_client.                                                  *)

(* A connection is dropped at once unless the device is connected.         *)
Accept(c) ==
    /\ pc[c] = "off"
    /\ upstream # 0
    /\ Stay(c, "accepted")
    /\ UNCHANGED <<link, session, table_owner, recorder, world>>

Register(c) ==
    /\ pc[c] = "accepted"
    /\ clients' = [clients EXCEPT ![c] = "detached"]
    /\ Stay(c, "registered")
    /\ UNCHANGED <<link, configuration, running, received_records, table_owner, recorder, world>>

(* The epoch a client or a receiver starts in; also upstream_udp_loop.     *)
Subscribe(t) ==
    /\ pc[t] = "registered"
    /\ seen' = [seen EXCEPT ![t] = epoch]
    /\ Goto(t, "idle")
    /\ UNCHANGED <<link, stream_operations, session, table_owner, recorder, op, generation,
                   was_running, argument, world>>

(* The client hangs up or its connection breaks.                           *)
Hangup(c) ==
    /\ pc[c] = "idle"
    /\ Return(c, "leave")
    /\ UNCHANGED <<link, session, table_owner, recorder, world>>

(* The epoch has moved on: a client is closed, a receiver ends.            *)
EpochClosed(t) ==
    /\ t # Heartbeat
    /\ pc[t] = "idle"
    /\ seen[t] # epoch
    /\ Return(t, IF t \in Clients THEN "leave" ELSE "off")
    /\ UNCHANGED <<link, session, table_owner, recorder, world>>

(* unregister_client; the last client has the device disarmed.             *)
OwnerAfter(c) == IF table_owner = c THEN NoClient ELSE table_owner

Unregister(c) ==
    /\ pc[c] = "leave"
    /\ clients' = [clients EXCEPT ![c] = "none"]
    /\ table_owner' = OwnerAfter(c)
    /\ IF \A d \in Clients \ {c} : clients[d] = "none"
         THEN Stay(c, "disarm") ELSE Stay(c, "off")
    /\ UNCHANGED <<link, configuration, running, received_records, recorder, world>>

(* disarm needs the metadata to know the parameter.                        *)
Disarm(c) ==
    /\ pc[c] = "disarm"
    /\ IF metadata
         THEN /\ Goto(c, "request")
              /\ op' = [op EXCEPT ![c] = "disarm"]
              /\ UNCHANGED <<generation, was_running, seen, argument, stream_operations>>
         ELSE Return(c, "off")
    /\ UNCHANGED <<link, session, table_owner, recorder, world>>

Begin(c, kind, l) ==
    /\ kind \in Requests
    /\ pc[c] = "idle"
    /\ Goto(c, l)
    /\ op' = [op EXCEPT ![c] = kind]

(* set_parameter: which parameter reboots is read before the request.      *)
SetParameter(c) ==
    /\ \/ Begin(c, "arm", "request")
       \/ /\ "reboot" \in Requests
          /\ pc[c] = "idle"
          /\ Goto(c, "request")
          /\ op' = [op EXCEPT ![c] = IF metadata THEN "reboot" ELSE "plainreboot"]
    /\ UNCHANGED <<link, stream_operations, session, table_owner, recorder, generation, was_running,
                   seen, argument, world>>

(* stream_setup: refused while running, then requested of the connection   *)
(* that is there.                                                          *)
StreamSetup(c, config) ==
    /\ Begin(c, "setup", "request")
    /\ stream_operations = Unlocked
    /\ ~running
    /\ stream_operations' = c
    /\ generation' = [generation EXCEPT ![c] = upstream]
    /\ argument' = [argument EXCEPT ![c] = config]
    /\ UNCHANGED <<link, session, table_owner, recorder, was_running, seen, world>>

(* ... written back if the connection is still the same, in two steps.     *)
CheckGeneration(c) ==
    /\ pc[c] = "written"
    /\ IF upstream = generation[c] THEN Stay(c, "write") ELSE Return(c, "idle")
    /\ UNCHANGED <<link, session, table_owner, recorder, world>>

WriteConfiguration(c) ==
    /\ pc[c] = "write"
    /\ configuration' = argument[c]
    /\ Return(c, "idle")
    /\ UNCHANGED <<link, running, received_records, clients, table_owner, recorder, world>>

(* start_client on a running session attaches the client and returns.      *)
Attach(c) ==
    /\ "start" \in Requests
    /\ ~fatal
    /\ pc[c] = "idle"
    /\ stream_operations = Unlocked
    /\ running
    /\ clients' = [clients EXCEPT ![c] = "attached"]
    /\ UNCHANGED <<link, stream_operations, configuration, running, received_records, table_owner,
                   recorder, locals, world>>

(* ... otherwise it starts one.  (Mutant: without taking the lock.)        *)
MayStartAlways == TRUE
MayStart == stream_operations = Unlocked

StreamStart(c) ==
    /\ Begin(c, "start", "prepare")
    /\ MayStart
    /\ ~running
    /\ configuration # NoConfiguration
    /\ stream_operations' = c
    /\ UNCHANGED <<link, session, table_owner, recorder, generation, was_running, seen, argument,
                   world>>

(* ... which needs the metadata,                                           *)
Prepare(c) ==
    /\ pc[c] = "prepare"
    /\ IF metadata THEN Stay(c, "record") ELSE Return(c, "leave")
    /\ UNCHANGED <<link, session, table_owner, recorder, world>>

(* ... starts the recording, which a recorder with an open one refuses,    *)
StartRecording(c) ==
    /\ pc[c] = "record"
    /\ IF recording
         THEN Return(c, "leave") /\ fatal' = TRUE /\ UNCHANGED recording
         ELSE Stay(c, "run") /\ recording' = TRUE /\ UNCHANGED fatal
    /\ UNCHANGED <<link, session, table_owner, world>>

(* ... marks the session running,                                          *)
Run(c) ==
    /\ pc[c] = "run"
    /\ running' = TRUE
    /\ received_records' = 0
    /\ clients' = [clients EXCEPT ![c] = "attached"]
    /\ Stay(c, "socket")
    /\ UNCHANGED <<link, configuration, table_owner, recorder, world>>

(* ... and names the socket of the connection that is there now.           *)
CurrentUdp(c) ==
    /\ pc[c] = "socket"
    /\ IF upstream = 0
         THEN AfterError(c)
         ELSE /\ Goto(c, "request")
              /\ generation' = [generation EXCEPT ![c] = upstream]
              /\ UNCHANGED <<op, was_running, seen, argument, stream_operations>>
    /\ UNCHANGED <<link, session, table_owner, recorder, world>>

StreamStop(c) ==
    /\ Begin(c, "stop", "request")
    /\ stream_operations = Unlocked
    /\ stream_operations' = c
    /\ UNCHANGED <<link, session, table_owner, recorder, generation, was_running, seen, argument,
                   world>>

(* broker_info notices that a table transaction has timed out.             *)
ExpireOwner(c) ==
    /\ ~fatal
    /\ pc[c] = "idle"
    /\ table_owner # NoClient
    /\ table_owner' = NoClient
    /\ UNCHANGED <<link, stream_operations, session, recorder, locals, world>>

(* table_request: another client's transaction answers Busy, unless it     *)
(* has timed out; then the request, then the bookkeeping.                  *)
TableRequest(c, kind) ==
    /\ Begin(c, kind, "request")
    /\ kind \in {"block", "commit"}
    /\ \/ table_owner \in {NoClient, c} /\ UNCHANGED table_owner
       \/ table_owner # NoClient /\ table_owner' = NoClient
    /\ UNCHANGED <<link, stream_operations, session, recorder, generation, was_running, seen,
                   argument, world>>

RecordOwner(c) ==
    /\ pc[c] = "own"
    /\ table_owner' = CASE op[c] = "owned"    -> c
                        [] op[c] = "released" -> NoClient
                        [] OTHER              -> table_owner
    /\ Return(c, "idle")
    /\ UNCHANGED <<link, session, recorder, world>>

-----------------------------------------------------------------------------
(* The end of a session, under stream_operations: stream_stop, a start     *)
(* that is rolled back, and a finite session that is complete.             *)
AfterClose(t) ==
    Return(t, IF op[t] = "failedstart" THEN "leave" ELSE "idle")

(* (Mutant: the recording is stopped whether or not a session ran.)        *)
MustStopAlways == TRUE
MustStop == running

CloseSession(t) ==
    /\ pc[t] = "close"
    /\ running' = FALSE
    /\ received_records' = 0
    /\ clients' = Detached
    /\ IF MustStop THEN Stay(t, "closing") ELSE AfterClose(t)
    /\ UNCHANGED <<link, configuration, table_owner, recorder, world>>

CloseRecording(t) ==
    /\ pc[t] = "closing"
    /\ recording' = FALSE
    /\ AfterClose(t)
    /\ UNCHANGED <<link, session, table_owner, fatal, world>>

-----------------------------------------------------------------------------
(* Receivers: upstream_udp_loop and process_packet.                        *)

Complete(n) == configuration.count # 0 /\ n >= configuration.count

(* A datagram that belongs to no session, or not to this one, is dropped;  *)
(* otherwise it is recorded and counted under the state lock.              *)
Receive(g) ==
    /\ ~fatal
    /\ pc[g] = "idle"
    /\ packet.socket = g
    /\ packet' = NoPacket
    /\ IF ~running \/ configuration = NoConfiguration
            \/ packet.layout # configuration.layout
         THEN UNCHANGED <<received_records, fatal, locals, stream_operations>>
         ELSE IF ~recording
         THEN fatal' = TRUE /\ Return(g, "off") /\ UNCHANGED received_records
         ELSE /\ received_records' = received_records + 1
              /\ IF Complete(received_records + 1) THEN Stay(g, "complete") ELSE Stay(g, "idle")
              /\ UNCHANGED fatal
    /\ UNCHANGED <<link, configuration, running, clients, table_owner, recording, device>>

(* The completion takes stream_operations after the datagram was sent on.  *)
CompleteSession(g) ==
    /\ pc[g] = "complete"
    /\ stream_operations = Unlocked
    /\ stream_operations' = g
    /\ Goto(g, "close")
    /\ UNCHANGED <<link, session, table_owner, recorder, op, generation, was_running, seen, argument,
                   world>>

ReceiveError(g) ==
    /\ "receive" \in Faults
    /\ pc[g] = "idle"
    /\ g < MaxGeneration
    /\ Goto(g, "take")
    /\ generation' = [generation EXCEPT ![g] = g]
    /\ failed' = failed \cup {g}
    /\ UNCHANGED <<upstream, next_generation, metadata, epochs, reconnect, loop, session,
                   stream_operations, table_owner, recorder, op, was_running, seen, argument, world>>

(* The heartbeat's request; an answer changes nothing.                     *)
HeartbeatAnswered ==
    /\ pc[Heartbeat] = "idle"
    /\ upstream # 0 /\ upstream = device.serving
    /\ UNCHANGED vars

HeartbeatFails ==
    /\ pc[Heartbeat] = "idle"
    /\ upstream # 0
    /\ upstream # device.serving \/ upstream < MaxGeneration
    /\ Goto(Heartbeat, "take")
    /\ generation' = [generation EXCEPT ![Heartbeat] = upstream]
    /\ failed' = failed \cup {upstream}
    /\ UNCHANGED <<upstream, next_generation, metadata, epochs, reconnect, loop, session,
                   stream_operations, table_owner, recorder, op, was_running, seen, argument, world>>

-----------------------------------------------------------------------------
(* The reconnection loop.  An attempt that fails changes nothing.          *)
LoopCheck ==
    /\ ~fatal /\ loop = "check"
    /\ loop' = IF upstream # 0 THEN "ready" ELSE "connect"
    /\ UNCHANGED <<upstream, next_generation, metadata, epochs, reconnect, failed,
                   stream_operations, session, table_owner, recorder, locals, world>>

LoopWait ==
    /\ ~fatal /\ loop = "ready"
    /\ loop' = "wait"
    /\ UNCHANGED <<upstream, next_generation, metadata, epochs, reconnect, failed,
                   stream_operations, session, table_owner, recorder, locals, world>>

LoopNotified ==
    /\ ~fatal /\ loop = "wait"
    /\ reconnect
    /\ reconnect' = FALSE
    /\ loop' = "check"
    /\ UNCHANGED <<upstream, next_generation, metadata, epochs, failed, stream_operations,
                   session, table_owner, recorder, locals, world>>

LoopConnect ==
    /\ ~fatal /\ loop = "connect"
    /\ device.serving = 0
    /\ next_generation <= MaxGeneration
    /\ device' = [device EXCEPT !.serving = next_generation]
    /\ next_generation' = next_generation + 1
    /\ loop' = "describe"
    /\ UNCHANGED <<upstream, metadata, epochs, reconnect, failed, stream_operations, session,
                   table_owner, recorder, locals, packet>>

LoopMetadata ==
    /\ ~fatal /\ loop = "describe"
    /\ metadata' = TRUE
    /\ loop' = "install"
    /\ UNCHANGED <<upstream, next_generation, epochs, reconnect, failed, stream_operations,
                   session, table_owner, recorder, locals, world>>

(* The new connection is installed and its receiver spawned.               *)
LoopInstall ==
    /\ loop = "install"
    /\ upstream' = next_generation - 1
    /\ Stay(next_generation - 1, "registered")
    /\ loop' = "check"
    /\ UNCHANGED <<next_generation, metadata, epochs, reconnect, failed, session, table_owner,
                   recorder, world>>

Loop == LoopCheck \/ LoopWait \/ LoopNotified \/ LoopConnect \/ LoopMetadata \/ LoopInstall

-----------------------------------------------------------------------------
(* The device and the network.                                             *)

(* The device sends a record of the session it was started for.            *)
DeviceSend ==
    /\ ~fatal
    /\ device.socket # 0
    /\ packet = NoPacket
    /\ received_records < MaxReceived
    /\ packet' = [socket |-> device.socket, layout |-> device.setup.layout]
    /\ device' = IF device.setup.count = 0 THEN device
                 ELSE [device EXCEPT !.left = @ - 1,
                                     !.socket = IF device.left = 1 THEN 0 ELSE @]
    /\ UNCHANGED <<link, stream_operations, session, table_owner, recorder, locals>>

PacketLost ==
    /\ ~fatal
    /\ packet # NoPacket
    /\ packet' = NoPacket
    /\ UNCHANGED <<link, stream_operations, session, table_owner, recorder, locals, device>>

(* The device's connection ends: its control server disarms and stops      *)
(* streaming, and a device that restarted has lost its set-up.             *)
Ended == [device EXCEPT !.serving = 0, !.armed = FALSE, !.socket = 0, !.left = 0]
Orphaned == device.serving # upstream /\ loop \in {"check", "ready", "wait", "connect"}

DeviceDrop ==
    /\ ~fatal
    /\ device.serving # 0
    /\ Orphaned \/ device.serving < MaxGeneration
    /\ \/ device' = Ended
       \/ "restart" \in Faults /\ device' = [Ended EXCEPT !.setup = NoConfiguration]
    /\ UNCHANGED <<link, stream_operations, session, table_owner, recorder, locals, packet>>

(* Writing fails (a full queue or the file system): the broker ends.       *)
StorageFails ==
    /\ "storage" \in Faults
    /\ ~fatal
    /\ recording
    /\ fatal' = TRUE
    /\ UNCHANGED <<link, stream_operations, session, table_owner, recording, locals, world>>

Device == DeviceSend \/ PacketLost \/ DeviceDrop

-----------------------------------------------------------------------------
(* What a task does once it has begun; no step waits for a client.         *)
Proceed(t) ==
    \/ Cleanup(t)
    \/ Request(t)
    \/ Subscribe(t)
    \/ CloseSession(t)
    \/ CloseRecording(t)

ClientProceed(c) ==
    \/ Register(c) \/ Unregister(c)
    \/ Disarm(c) \/ ForceDisconnect(c)
    \/ CheckGeneration(c) \/ WriteConfiguration(c)
    \/ Prepare(c) \/ StartRecording(c) \/ Run(c) \/ CurrentUdp(c)
    \/ RecordOwner(c)

ClientRequest(c) ==
    \/ Accept(c)
    \/ Hangup(c)
    \/ SetParameter(c)
    \/ \E config \in Configurations : StreamSetup(c, config)
    \/ Attach(c) \/ StreamStart(c)
    \/ StreamStop(c)
    \/ ExpireOwner(c)
    \/ \E kind \in {"block", "commit"} : TableRequest(c, kind)

Receiver(g) == Receive(g) \/ CompleteSession(g) \/ ReceiveError(g)

Stopped == fatal /\ UNCHANGED vars

Next ==
    \/ \E t \in Tasks : Proceed(t) \/ EpochClosed(t)
    \/ \E c \in Clients : ClientProceed(c) \/ ClientRequest(c)
    \/ \E g \in Generations : Receiver(g)
    \/ HeartbeatAnswered \/ HeartbeatFails
    \/ Loop
    \/ Device
    \/ StorageFails
    \/ Stopped

(* Tasks that have begun something proceed, the reconnection loop keeps    *)
(* trying, and heartbeat and device notice in the end that their           *)
(* connection is gone.                                                     *)
Spec ==
    /\ Init
    /\ [][Next]_vars
    /\ \A t \in Tasks : WF_vars(Proceed(t))
    /\ \A c \in Clients : WF_vars(ClientProceed(c))
    /\ WF_vars(Loop)
    /\ WF_vars(Orphaned /\ DeviceDrop)
    /\ WF_vars(upstream # device.serving /\ HeartbeatFails)

-----------------------------------------------------------------------------
(* Properties.                                                             *)

Labels == {"off", "accepted", "registered", "idle", "leave", "disarm", "request", "force",
           "take", "reset", "stop", "metadata", "epoch", "replace", "written", "write", "prepare",
           "record", "run", "socket", "close", "closing", "own", "complete"}

(* Every variable holds a value of its kind.                               *)
TypeOK ==
    /\ upstream \in 0..MaxGeneration
    /\ next_generation \in 1..(MaxGeneration + 1)
    /\ metadata \in BOOLEAN /\ reconnect \in BOOLEAN
    /\ epoch \in 0..MaxGeneration /\ next_epoch \in [Tasks -> 0..MaxGeneration]
    /\ stream_operations \in Tasks \cup {Unlocked}
    /\ configuration \in Configurations \cup {NoConfiguration}
    /\ running \in BOOLEAN
    /\ received_records \in 0..MaxReceived
    /\ clients \in [Clients -> {"none", "detached", "attached"}]
    /\ table_owner \in Clients \cup {NoClient}
    /\ recording \in BOOLEAN /\ fatal \in BOOLEAN
    /\ pc \in [Tasks -> Labels]
    /\ generation \in [Tasks -> 0..MaxGeneration]
    /\ was_running \in [Tasks -> BOOLEAN]
    /\ seen \in [Tasks -> 0..MaxGeneration]
    /\ argument \in [Clients -> Configurations \cup {NoConfiguration}]
    /\ loop \in {"check", "ready", "wait", "connect", "describe", "install"}
    /\ failed \subseteq Generations

(* Tasks that still have to send Stop, or that have sent Start and still   *)
(* have to mark the session running.                                       *)
Pending == {t \in Tasks : pc[t] \in {"run", "closing"} \/ was_running[t]}

(* The recorder and the session agree across every path that starts or     *)
(* ends one (a stop, a completion, a rolled back start, a lost connection, *)
(* a reboot): while a session runs its recording is open, and an open      *)
(* recording without a session has exactly one task that will close it or  *)
(* mark it running.  A second Stop would close the next session's file, a  *)
(* missing one would make the next Start fatal.                            *)
RecordingFollowsSession ==
    /\ running => recording
    /\ recording => running \/ Pending # {}
    /\ Pending # {} => recording /\ ~running
    /\ \A t, u \in Pending : t = u

(* The configuration of a running session never changes: set-up is refused *)
(* while one runs, and a late write-back cannot overtake a start.          *)
SessionConfigStable ==
    [][running /\ running' => configuration' = configuration]_vars

(* A connection is dropped only after it has itself failed, been rebooted  *)
(* or been given up: late failures of an older connection do not touch it. *)
DroppedForCause ==
    [][upstream # 0 /\ upstream' # upstream => upstream \in failed]_vars

(* The wake-up of the reconnection loop is never lost: while it waits, or  *)
(* is about to, without a connection, a permit is stored or some task that *)
(* has taken the connection will store one.                                *)
NoLostWakeup ==
    upstream = 0 /\ loop \in {"ready", "wait"} =>
        reconnect \/ \E t \in Tasks : \/ pc[t] \in {"reset", "metadata", "epoch", "replace"}
                                      \/ pc[t] = "stop" /\ op[t] # "reboot"

(* Whatever connection breaks, in whichever task and however often, the    *)
(* broker comes back to a connection the device serves: no wake-up, take   *)
(* or clean-up is lost on the way.                                         *)
Live == upstream # 0 /\ upstream = device.serving
Reconnects == ~Live ~> Live \/ fatal

(* docs/user_guide.md:536: the broker "explicitly disarms when its final   *)
(* downstream" client disconnects.  With no client left and none leaving,  *)
(* the connected device is not armed.                                      *)
ArmedIsAttended ==
    device.armed /\ device.serving = upstream => \E c \in Clients : pc[c] # "off"

=============================================================================
