----------------------------- MODULE Recorder -----------------------------
(* The recorder of helic-broker: the bounded command queue and the storage *)
(* thread of storage.rs with the files it leaves behind, the recent-packet *)
(* window of history.rs, and the broker tasks that drive them (start, stop *)
(* and packet handling, the failure monitor and the shut-down sequence of  *)
(* server.rs).                                                             *)
(*                                                                         *)
(* A step of the storage thread is one operation on a file, which may fail *)
(* with part of its effect done.  The process may be killed between any    *)
(* two steps; files survive it.                                            *)
EXTENDS Naturals, Sequences, SequencesExt

CONSTANTS
    PacketSize,     \* records in packet 1, 2, ... of a session
    StopReasons,    \* CloseReason of a stop: StreamStop, CountComplete, UpstreamLost, ...
    QueueCap,       \* QUEUE_CAPACITY
    Capacity,       \* records the history is sized for in session 1, 2, ...
    Decimation,     \* sample index distance between two records
    IndexModulus,   \* 2^32
    MaxSessions,    \* bound: sessions started
    MaxPackets,     \* bound: packets of all sessions
    MaxSegment,     \* bound: highest segment index
    MaxCrashes      \* bound: kills of the process

ASSUME RecorderAssumption ==
    /\ PacketSize \in [1..MaxPackets -> Nat \ {0}]
    /\ Capacity \in [1..MaxSessions -> Nat \ {0}]
    /\ QueueCap \in Nat \ {0}
    /\ Decimation \in Nat \ {0} /\ IndexModulus \in Nat \ {0}
    /\ "none" \notin StopReasons           \* a segment not yet closed
    /\ MaxSessions \in Nat \ {0} /\ MaxPackets \in Nat /\ MaxSegment \in Nat /\ MaxCrashes \in Nat

VARIABLES
    queue, alive, error,                  \* mpsc channel, its receiving end, the error watch
    wpc, cmd,                             \* storage thread: next step and command in hand
    session, stamp, segment_index, session_record_offset, segment,   \* SegmentSession
    files,                                \* output directory
    running, receiving, history,          \* broker state: session, UDP task, History
    call, main, fatal,                    \* callers of the recorder, run(), the fatal watch
    started, crashes,                     \* bounds
    delivered, due                        \* history: packets handed on, and how many a stop owes

storage == <<queue, alive, error, wpc, cmd, session, stamp, segment_index,
             session_record_offset, segment, files>>
worker == <<session, stamp, segment_index, session_record_offset, segment>>
brokerState == <<running, receiving, history>>
control == <<call, main, fatal>>
ghosts == <<started, crashes, delivered, due>>
vars == <<storage, brokerState, control, ghosts>>

----------------------------------------------------------------------------
(* Data *)

Callers == {"ops", "main"}
Sessions == 1..MaxSessions
(* Start times, to the millisecond, numbered in the order they are first   *)
(* used: two sessions may have the same.                                   *)
Stamps == 1..MaxSessions
Names == Stamps \X (0..MaxSegment)
NoSegment == <<>>
Idle == [st |-> "idle"]
Pending(c) == call[c].st \in {"sending", "waiting"}

(* CloseReason::completes_session *)
CompletesSession(reason) == reason \in {"StreamStop", "CountComplete", "BrokerShutdown"}

(* Sample index of record k of a packet (first_index.wrapping_add). *)
SampleIndex(first, k) == (first + k * Decimation) % IndexModulus
Rows(p) == [k \in 1..p.n |-> SampleIndex(p.first, k - 1)]
AllRows(packets) == FlattenSeq([i \in 1..Len(packets) |-> Rows(packets[i])])
RecordCount(packets) == Len(AllRows(packets))

----------------------------------------------------------------------------
(* History *)

(* History::push: drop whole packets from the front while over capacity,   *)
(* but never the newest.                                                   *)
Push(packets, p, capacity) ==
    LET all == Append(packets, p)
        Kept(i) == SubSeq(all, i, Len(all))
        first == CHOOSE i \in 1..Len(all) :
                    /\ i = Len(all) \/ RecordCount(Kept(i)) <= capacity
                    /\ \A j \in 1..(i - 1) : RecordCount(Kept(j)) > capacity
    IN  Kept(first)

(* History::recent for 0 < requested <= records: the newest packets that   *)
(* hold at least that many records, the oldest of them trimmed at its      *)
(* front.  (Mutant: it is not.)                                            *)
RecentUntrimmed(packets, requested) ==
    LET Selected(i) == SubSeq(packets, i, Len(packets))
        from == CHOOSE i \in 1..Len(packets) :
                    /\ RecordCount(Selected(i)) >= requested
                    /\ i = Len(packets) \/ RecordCount(Selected(i + 1)) < requested
    IN  Selected(from)

Recent(packets, requested) ==
    LET Selected(i) == SubSeq(packets, i, Len(packets))
        from == CHOOSE i \in 1..Len(packets) :
                    /\ RecordCount(Selected(i)) >= requested
                    /\ i = Len(packets) \/ RecordCount(Selected(i + 1)) < requested
        excess == RecordCount(Selected(from)) - requested
        oldest == packets[from]
    IN  <<[first |-> SampleIndex(oldest.first, excess), n |-> oldest.n - excess]>>
            \o SubSeq(packets, from + 1, Len(packets))

----------------------------------------------------------------------------
(* A process that has just started: SegmentSession::new and App. *)
Booted ==
    /\ queue = <<>> /\ alive = TRUE /\ error = FALSE /\ wpc = "recv" /\ cmd = Idle
    /\ session = 0 /\ stamp = 1
    /\ segment_index = 0 /\ session_record_offset = 0 /\ segment = NoSegment
    /\ running = FALSE /\ receiving = TRUE /\ history = <<>>
    /\ call = [c \in Callers |-> Idle] /\ main = "serving" /\ fatal = FALSE

Init ==
    /\ Booted
    /\ files = <<>> /\ started = 0 /\ crashes = 0
    /\ delivered = [s \in Sessions |-> <<>>] /\ due = [s \in Sessions |-> 0]

(* The process is killed and started again. *)
Crash ==
    /\ crashes < MaxCrashes /\ crashes' = crashes + 1
    /\ queue' = <<>> /\ alive' = TRUE /\ error' = FALSE /\ wpc' = "recv" /\ cmd' = Idle
    /\ session' = 0 /\ stamp' = 1
    /\ segment_index' = 0 /\ session_record_offset' = 0 /\ segment' = NoSegment
    /\ running' = FALSE /\ receiving' = TRUE /\ history' = <<>>
    /\ call' = [c \in Callers |-> Idle] /\ main' = "serving" /\ fatal' = FALSE
    /\ UNCHANGED <<files, started, delivered, due>>

----------------------------------------------------------------------------
(* Broker side: StorageHandle and its callers *)

(* A caller awaits room in the queue, then the answer (start, stop); the   *)
(* shut-down command wants no answer.                                      *)
Ask(c, command) == call' = [call EXCEPT ![c] = [st |-> "sending", command |-> command]]

Enqueue(c) ==
    /\ call[c].st = "sending" /\ alive /\ Len(queue) < QueueCap
    /\ queue' = Append(queue, call[c].command)
    /\ call' = [call EXCEPT ![c].st = IF call[c].command.type = "shutdown" THEN "ok" ELSE "waiting"]
    /\ UNCHANGED <<alive, error, wpc, cmd, worker, files, brokerState, main, fatal, ghosts>>

(* (Mutant: a closed queue is tried again.)                                *)
SendRetried(c) == call[c].st = "sending" /\ ~alive /\ UNCHANGED vars
SendFails(c) ==
    /\ call[c].st = "sending" /\ ~alive
    /\ call' = [call EXCEPT ![c].st = "failed"]
    /\ UNCHANGED <<storage, brokerState, main, fatal, ghosts>>

(* start_client: the recording is opened before the session runs. *)
StartCall(t) ==
    /\ main # "exited" /\ ~running /\ call["ops"] = Idle /\ started < MaxSessions
    /\ t <= started + 1
    /\ Ask("ops", [type |-> "start", session |-> started + 1, stamp |-> t, by |-> "ops"])
    /\ started' = started + 1
    /\ UNCHANGED <<storage, brokerState, main, fatal, crashes, delivered, due>>

(* The answer to a start: History::reset and state.running. *)
StartDone ==
    /\ call["ops"].st \in {"ok", "failed"} /\ call["ops"].command.type = "start"
    /\ call' = [call EXCEPT !["ops"] = Idle]
    /\ running' = (call["ops"].st = "ok")
    /\ history' = <<>>
    /\ UNCHANGED <<storage, receiving, main, fatal, ghosts>>

(* Every way a session ends but shut-down: the session is marked ended,    *)
(* then its recording is stopped.                                          *)
StopCall(reason) ==
    /\ main # "exited" /\ running /\ call["ops"] = Idle
    /\ running' = FALSE /\ history' = <<>>
    /\ Ask("ops", [type |-> "stop", reason |-> reason, by |-> "ops"])
    /\ due' = IF main = "serving" THEN [due EXCEPT ![started] = Len(delivered[started])] ELSE due
    /\ UNCHANGED <<storage, receiving, main, fatal, started, crashes, delivered>>

StopDone ==
    /\ call["ops"].st \in {"ok", "failed"} /\ call["ops"].command.type = "stop"
    /\ call' = [call EXCEPT !["ops"] = Idle]
    /\ UNCHANGED <<storage, brokerState, main, fatal, ghosts>>

(* process_packet: try_send to the recorder first; only then is the packet *)
(* kept and passed on.  A refusal is fatal and ends the receiving task.    *)
(* (Mutant: a packet the full queue refuses is dropped.)                   *)
ProcessPacketLossy ==
    LET sent == delivered[started]
        packet == [first |-> SampleIndex(0, RecordCount(sent)), n |-> PacketSize[Len(sent) + 1]]
    IN  /\ main # "exited" /\ running /\ receiving /\ Len(FlattenSeq(delivered)) < MaxPackets
        /\ queue' = IF alive /\ Len(queue) < QueueCap
                    THEN Append(queue, [type |-> "packet", packet |-> packet]) ELSE queue
        /\ history' = Push(history, packet, Capacity[started])
        /\ delivered' = [delivered EXCEPT ![started] = Append(sent, packet)]
        /\ UNCHANGED <<alive, error, wpc, cmd, worker, files, running, receiving, control,
                       started, crashes, due>>

ProcessPacket ==
    LET sent == delivered[started]
        packet == [first |-> SampleIndex(0, RecordCount(sent)), n |-> PacketSize[Len(sent) + 1]]
    IN  /\ main # "exited" /\ running /\ receiving /\ Len(FlattenSeq(delivered)) < MaxPackets
        /\ IF alive /\ Len(queue) < QueueCap
           THEN /\ queue' = Append(queue, [type |-> "packet", packet |-> packet])
                /\ history' = Push(history, packet, Capacity[started])
                /\ delivered' = [delivered EXCEPT ![started] = Append(sent, packet)]
                /\ UNCHANGED <<receiving, fatal>>
           ELSE /\ fatal' = TRUE /\ receiving' = FALSE
                /\ UNCHANGED <<queue, history, delivered>>
        /\ UNCHANGED <<alive, error, wpc, cmd, worker, files, running, call, main,
                       started, crashes, due>>

(* storage_failure_monitor.  (Mutant: it watches running sessions only.)   *)
MonitorRunning ==
    /\ error /\ ~fatal /\ main = "serving" /\ running
    /\ fatal' = TRUE
    /\ UNCHANGED <<storage, brokerState, call, main, ghosts>>

Monitor ==
    /\ error /\ ~fatal /\ main = "serving"
    /\ fatal' = TRUE
    /\ UNCHANGED <<storage, brokerState, call, main, ghosts>>

(* App::shutdown on Ctrl-C or a fatal error.  What it read of the session  *)
(* is used after the device was asked to stop, and a running session still *)
(* counts as running while its recording is stopped.                       *)
ShutdownBegin ==
    /\ main = "serving"
    /\ IF running
       THEN /\ main' = "stream_stop" /\ UNCHANGED call
            /\ due' = [due EXCEPT ![started] = Len(delivered[started])]
       ELSE /\ main' = "closing" /\ Ask("main", [type |-> "shutdown"]) /\ UNCHANGED due
    /\ UNCHANGED <<storage, brokerState, fatal, started, crashes, delivered>>

ShutdownStop ==
    /\ main = "stream_stop" /\ main' = "stopping"
    /\ Ask("main", [type |-> "stop", reason |-> "BrokerShutdown", by |-> "main"])
    /\ UNCHANGED <<storage, brokerState, fatal, ghosts>>

ShutdownRecording ==
    /\ main = "stopping" /\ call["main"].st \in {"ok", "failed"}
    /\ main' = "closing" /\ Ask("main", [type |-> "shutdown"])
    /\ UNCHANGED <<storage, brokerState, fatal, ghosts>>

(* run() returns and the runtime drops its tasks; it waits for the storage *)
(* thread.                                                                 *)
Exit ==
    /\ main = "closing" /\ call["main"].st \in {"ok", "failed"}
    /\ main' = "exited" /\ call' = [c \in Callers |-> Idle]
    /\ UNCHANGED <<storage, brokerState, fatal, ghosts>>

----------------------------------------------------------------------------
(* Storage thread *)

(* The thread ends: the queue and the answers it still owes are dropped.   *)
(* (Mutant: the queue stays open.)                                         *)
Answered(c, st) == IF call[c].st = "waiting" THEN [call EXCEPT ![c].st = st] ELSE call

DieOpen ==
    /\ wpc' = "dead" /\ queue' = <<>> /\ cmd' = Idle
    /\ call' = [c \in Callers |-> IF call[c].st = "waiting" THEN [call[c] EXCEPT !.st = "failed"]
                                                          ELSE call[c]]
    /\ UNCHANGED alive

Die ==
    /\ wpc' = "dead" /\ alive' = FALSE /\ queue' = <<>> /\ cmd' = Idle
    /\ call' = [c \in Callers |-> IF call[c].st = "waiting" THEN [call[c] EXCEPT !.st = "failed"]
                                                          ELSE call[c]]

(* A failed command: the caller is told, the segment is abandoned, the     *)
(* error is published and the thread ends.  Shut-down ignores a failure.   *)
(* (Mutant: the thread goes on with the segment it has.)                   *)
FailAndGoOn(c) ==
    /\ error' = (error \/ c.type # "shutdown")
    /\ IF c.type = "shutdown"
       THEN Die
       ELSE /\ wpc' = "recv" /\ cmd' = Idle /\ UNCHANGED alive
            /\ call' = IF c.type = "packet" THEN call ELSE Answered(c.by, "failed")
            /\ queue' = IF wpc = "recv" THEN Tail(queue) ELSE queue
    /\ UNCHANGED worker

Fail(c) ==
    /\ Die
    /\ error' = (error \/ c.type # "shutdown")
    /\ segment' = NoSegment /\ session' = 0
    /\ UNCHANGED <<stamp, segment_index, session_record_offset>>

(* A command has succeeded; rest is what remains of the queue. *)
Succeed(c, rest) ==
    IF c.type = "shutdown"
    THEN Die /\ UNCHANGED error
    ELSE /\ wpc' = "recv" /\ cmd' = Idle /\ queue' = rest
         /\ call' = IF c.type = "packet" THEN call ELSE Answered(c.by, "ok")
         /\ UNCHANGED <<alive, error>>

Quiet == UNCHANGED <<brokerState, main, fatal, ghosts>>
Working == UNCHANGED <<queue, alive, error, call>>

(* blocking_recv, then start, append or stop up to its first file access. *)
Receive ==
    LET next == Head(queue)
        Begun(pc) == /\ wpc' = pc /\ cmd' = next /\ queue' = Tail(queue)
                     /\ UNCHANGED <<alive, error, call>>
    IN  /\ wpc = "recv" /\ queue # <<>>
        /\ \/ /\ next.type = "start" /\ segment = NoSegment
              /\ session' = next.session /\ stamp' = next.stamp
              /\ segment_index' = 0 /\ session_record_offset' = 0
              /\ Begun("open") /\ UNCHANGED segment
           \/ /\ next.type = "packet" /\ session # 0 /\ segment # NoSegment
              /\ Begun("rows") /\ UNCHANGED worker
           \/ /\ next.type \in {"stop", "shutdown"} /\ segment # NoSegment
              /\ Begun("finalise") /\ UNCHANGED worker
           \/ /\ next.type \in {"stop", "shutdown"} /\ segment = NoSegment
              /\ Succeed(next, Tail(queue)) /\ UNCHANGED worker
           \/ /\ \/ next.type = "start" /\ segment # NoSegment
                 \/ next.type = "packet" /\ (session = 0 \/ segment = NoSegment)
              /\ Fail(next)
        /\ UNCHANGED files /\ Quiet

(* open_segment: refuses a name in use; a failure may leave a partial      *)
(* file.  (Mutants: each segment's offsets begin at 0; only the `.partial` *)
(* name is looked for.)                                                    *)
NewFileFromZero ==
    [session |-> session, index |-> segment_index, base |-> 0,
     rows |-> <<>>, packets |-> <<>>, reason |-> "none", clean |-> FALSE,
     complete |-> FALSE, final |-> FALSE]
NewFile ==
    [session |-> session, index |-> segment_index, base |-> session_record_offset,
     rows |-> <<>>, packets |-> <<>>, reason |-> "none", clean |-> FALSE,
     complete |-> FALSE, final |-> FALSE]

Taken(name) == name \in DOMAIN files

OpenSegment ==
    LET name == <<stamp, segment_index>>
        created == [f \in DOMAIN files \cup {name} |-> IF f = name THEN NewFile ELSE files[f]]
    IN  /\ wpc = "open"
        /\ \/ /\ ~Taken(name)
              /\ files' = created /\ segment' = name
              /\ Succeed(cmd, queue) /\ UNCHANGED <<session, stamp, segment_index, session_record_offset>>
           \/ Taken(name) /\ Fail(cmd) /\ UNCHANGED files
           \/ ~Taken(name) /\ Fail(cmd) /\ files' \in {files, created}
        /\ Quiet

(* append: the rows of the packet, then its entry in the packet tables.    *)
AppendRows ==
    LET rows == Rows(cmd.packet)
        Written(k) == [files EXCEPT ![segment].rows = @ \o SubSeq(rows, 1, k)]
    IN  /\ wpc = "rows"
        /\ \/ /\ files' = Written(Len(rows)) /\ wpc' = "packet"
              /\ UNCHANGED <<worker, cmd>> /\ Working
           \/ \E k \in 0..Len(rows) : files' = Written(k) /\ Fail(cmd)
        /\ Quiet

(* Once a second the file is then flushed and its size looked at.          *)
AppendPacket ==
    LET written == [files EXCEPT ![segment].packets =
                       Append(@, [packet |-> cmd.packet, offset |-> session_record_offset])]
    IN  /\ wpc = "packet"
        /\ \/ /\ files' = written
              /\ session_record_offset' = session_record_offset + cmd.packet.n
              /\ \/ Succeed(cmd, queue)
                 \/ segment_index < MaxSegment /\ wpc' = "finalise" /\ UNCHANGED cmd /\ Working
              /\ UNCHANGED <<session, stamp, segment_index, segment>>
           \/ files' \in {files, written} /\ Fail(cmd)
        /\ Quiet

(* close_segment for a stop, a shut-down or a rotation. *)
Reason == CASE cmd.type = "packet"   -> "SegmentLimit"
            [] cmd.type = "stop"     -> cmd.reason
            [] cmd.type = "shutdown" -> "BrokerShutdown"

(* The writer is closed, then finalise_file writes close_reason,           *)
(* clean_close and session_complete, in this order.                        *)
Finalise ==
    LET f == files[segment]
        closed == [f EXCEPT !.reason = Reason]
        clean == [closed EXCEPT !.clean = TRUE]
        done == [clean EXCEPT !.complete = CompletesSession(Reason)]
    IN  /\ wpc = "finalise"
        /\ \/ /\ files' = [files EXCEPT ![segment] = done]
              /\ wpc' = "rename" /\ UNCHANGED <<worker, cmd>> /\ Working
           \/ /\ \E g \in {f, closed, clean, done} : files' = [files EXCEPT ![segment] = g]
              /\ Fail(cmd)
        /\ Quiet

(* rename, then what close_segment's caller does: open the next segment of *)
(* a rotation, or forget the session.                                      *)
Rename ==
    /\ wpc = "rename"
    /\ \/ /\ files' = [files EXCEPT ![segment].final = TRUE]
          /\ segment' = NoSegment
          /\ \/ /\ cmd.type = "packet"
                /\ segment_index' = segment_index + 1 /\ wpc' = "open"
                /\ UNCHANGED <<session, cmd>> /\ Working
             \/ /\ cmd.type # "packet"
                /\ session' = 0 /\ Succeed(cmd, queue) /\ UNCHANGED segment_index
          /\ UNCHANGED <<stamp, session_record_offset>>
       \/ Fail(cmd) /\ UNCHANGED files
    /\ Quiet

Worker == Receive \/ OpenSegment \/ AppendRows \/ AppendPacket \/ Finalise \/ Rename

(* The broker has ended and its storage thread with it. *)
Ended == main = "exited" /\ wpc = "dead" /\ UNCHANGED vars

Next ==
    \/ \E c \in Callers : Enqueue(c) \/ SendFails(c)
    \/ \E t \in Sessions : StartCall(t)
    \/ StartDone
    \/ \E reason \in StopReasons : StopCall(reason)
    \/ StopDone
    \/ ProcessPacket
    \/ Monitor \/ ShutdownBegin \/ ShutdownStop \/ ShutdownRecording \/ Exit
    \/ Worker \/ Crash \/ Ended

(* While the process has something to do by itself it does something: the  *)
(* storage thread, the callers, the monitor, a shut-down that was begun,   *)
(* and a fatal error that makes run() begin one.  No host is obliged.      *)
Progress ==
    \/ \E c \in Callers : Enqueue(c) \/ SendFails(c)
    \/ StartDone \/ StopDone \/ Monitor \/ (fatal /\ ShutdownBegin)
    \/ ShutdownStop \/ ShutdownRecording \/ Exit \/ Worker

Fairness == WF_vars(Progress)

Spec == Init /\ [][Next]_vars /\ Fairness

----------------------------------------------------------------------------
(* Properties *)

TypeOK ==
    /\ Len(queue) <= QueueCap /\ alive \in BOOLEAN /\ error \in BOOLEAN
    /\ alive = (wpc # "dead")
    /\ wpc \in {"recv", "open", "rows", "packet", "finalise", "rename", "dead"}
    /\ session \in 0..MaxSessions /\ segment_index \in 0..MaxSegment
    /\ session_record_offset \in Nat /\ stamp \in Stamps
    /\ segment = NoSegment \/ segment \in DOMAIN files
    /\ DOMAIN files \subseteq Names
    /\ running \in BOOLEAN /\ receiving \in BOOLEAN /\ fatal \in BOOLEAN
    /\ main \in {"serving", "stream_stop", "stopping", "closing", "exited"}

(* The files of a session, in the order of their segment index. *)
SessionFiles(s) ==
    LET mine == {f \in DOMAIN files : files[f].session = s}
    IN  CHOOSE fs \in SetToSeqs(mine) :
            \A i, j \in DOMAIN fs : i < j => files[fs[i]].index < files[fs[j]].index
Recorded(s) ==
    LET fs == SessionFiles(s)
    IN  FlattenSeq([i \in 1..Len(fs) |-> files[fs[i]].rows])
Entries(f) == [i \in 1..Len(files[f].packets) |-> files[f].packets[i].packet]

(* A file that carries the final name is finished: it is marked clean, has *)
(* a close reason, its record and packet tables describe the same records, *)
(* and every packet's record_offset is its place in the session.  I/O      *)
(* errors and kills at any step leave such damage only under `.partial`.   *)
FinalIsSound ==
    \A f \in DOMAIN files : files[f].final =>
        /\ files[f].clean /\ files[f].reason # "none"
        /\ files[f].rows = AllRows(Entries(f))
        /\ \A i \in 1..Len(files[f].packets) :
              files[f].packets[i].offset
                  = files[f].base + RecordCount(SubSeq(Entries(f), 1, i - 1))

(* Rotation neither loses nor repeats: the segments of a session are       *)
(* numbered from 0, all but the last are final, each begins where its      *)
(* predecessor ended, and together they hold a prefix of what was handed   *)
(* on, whatever failed.                                                    *)
SegmentsLinked ==
    \A s \in Sessions :
        LET fs == SessionFiles(s)
        IN  /\ \A i \in 1..Len(fs) :
                  /\ files[fs[i]].index = i - 1
                  /\ i < Len(fs) => /\ files[fs[i]].final /\ ~files[fs[i]].complete
                                    /\ files[fs[i + 1]].base
                                         = files[fs[i]].base + Len(files[fs[i]].rows)
            /\ IsPrefix(Recorded(s), AllRows(delivered[s]))

(* A session whose last segment says session_complete holds every packet   *)
(* that clients were given before its end was asked for (docs/broker.md:   *)
(* session_complete is "1 on the final clean session segment").            *)
CompleteHoldsAll ==
    \A s \in Sessions :
        (\E f \in DOMAIN files : files[f].session = s /\ files[f].final /\ files[f].complete)
            => IsPrefix(AllRows(SubSeq(delivered[s], 1, due[s])), Recorded(s))

(* History::recent returns exactly the newest records that were asked for, *)
(* with their own sample indices, and the window is over its capacity only *)
(* when a single packet is.                                                *)
ReplayExact ==
    LET all == AllRows(history)
        sent == AllRows(delivered[started])
    IN  history # <<>> =>
          /\ Len(all) <= Capacity[started] \/ Len(history) = 1
          /\ IsSuffix(all, sent)
          /\ \A r \in 1..Len(all) :
                AllRows(Recent(history, r)) = SubSeq(sent, Len(sent) - r + 1, Len(sent))

(* No task waits for ever for the recorder: a thread that ends takes its   *)
(* queue and the answers it owes with it, and callers see that.            *)
CallersAnswered == \A c \in Callers : Pending(c) ~> ~Pending(c)

(* A storage failure ends the broker (README: it "terminates the broker    *)
(* rather than silently dropping promised data").                          *)
FailureEndsBroker == error ~> (main = "exited" \/ ~error)
=============================================================================
