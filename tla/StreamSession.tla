--------------------------- MODULE StreamSession ---------------------------
(***************************************************************************)
(* Sample streaming: core 1 fills the record ring, the streamer task on    *)
(* core 0 drains it every few milliseconds into packets, and the control   *)
(* server, another task of the same executor, sets up, starts and stops    *)
(* the session they share through STREAM.                                  *)
(*                                                                         *)
(* The two tasks interleave only where one of them awaits: the streamer at *)
(* its ticker and in send_to, the control server between requests.  Core 1 *)
(* interleaves everywhere.  The stream target is left out: it is set by    *)
(* every StreamStart together with "enabled".                              *)
(***************************************************************************)
EXTENDS Integers, Sequences

CONSTANTS
    RingCap,        \* records the ring holds (RECORD_QUEUE_LEN - 1)
    IndexModulus,   \* 2^32, the period of the u32 sample index
    SeqModulus,     \* 2^32, the period of the u32 packet sequence number
    MaxRecords,     \* MaxRecords[l]: records of layout l that fit one packet
    Decimations,    \* decimations a host asks for
    Counts,         \* record counts a host asks for, 0 for continuous
    MaxStarts,      \* bound: StreamStarts in one behaviour
    MaxLost         \* bound: losses told apart; the counts stay there after it

Layouts == DOMAIN MaxRecords   \* source selections
NoLayout == "none"

ASSUME StreamAssumption ==
    /\ RingCap \in Nat \ {0}
    /\ IndexModulus \in Nat \ {0}
    /\ SeqModulus \in Nat \ {0}
    /\ MaxRecords \in [Layouts -> Nat \ {0}]
    /\ Decimations \subseteq Nat \ {0}
    /\ Counts \subseteq Nat
    /\ MaxStarts \in Nat
    /\ MaxLost \in Nat
    /\ NoLayout \notin Layouts

VARIABLES
    \* Core 1
    index, ring, records_dropped,
    counting,     \* a record was refused and is about to be counted
    \* STREAM
    stream,
    \* The streamer task
    pc,
    snapshot,     \* STREAM as read at the last ticker wake
    generation, seq, remaining,
    packet,       \* records packed so far
    dropped,      \* the header's drop count
    \* History
    lost,         \* records the ring refused
    was_reset,    \* diag_reset has been written
    armed_as,     \* the snapshot with which the current session was armed
    packed        \* records a finite session has packed since then

core1 == <<index, ring, records_dropped, counting, lost>>
streamer == <<pc, snapshot, generation, seq, remaining, packet, dropped, armed_as, packed>>
vars == <<core1, stream, streamer, was_reset>>

NoSession == [enabled |-> FALSE, control_connected |-> FALSE, layout |-> NoLayout,
              decimation |-> 1, count |-> 0, generation |-> 0]

Init ==
    /\ index = 0 /\ ring = <<>> /\ records_dropped = 0
    /\ counting = FALSE
    /\ stream = NoSession
    /\ pc = "ticker"
    /\ snapshot = NoSession
    /\ generation = 0 /\ seq = 0 /\ remaining = 0
    /\ packet = <<>> /\ dropped = 0
    /\ lost = 0 /\ was_reset = FALSE
    /\ armed_as = NoSession
    /\ packed = 0

-----------------------------------------------------------------------------
(* Core 1, the end of a tick: enqueue the record; a full ring refuses it   *)
(* and the loss is counted next.  Core 1 never waits for room: any number  *)
(* of records in a row may be lost, and the index moves on over them.  The *)
(* history field "lost" of a record says how much had been lost when it    *)
(* was sampled.                                                            *)
OneMore(n) == IF n < MaxLost THEN n + 1 ELSE n

EnqueueRecord ==
    /\ ~counting
    /\ index' = (index + 1) % IndexModulus
    /\ IF Len(ring) < RingCap
         THEN /\ ring' = Append(ring, [index |-> index, lost |-> lost])
              /\ UNCHANGED <<counting, lost>>
         ELSE /\ lost' = OneMore(lost)
              /\ counting' = TRUE
              /\ UNCHANGED ring
    /\ UNCHANGED <<records_dropped, stream, streamer, was_reset>>

(* (Mutant: the loss is not counted.)                                      *)
CountedNever(n) == n
Counted(n) == OneMore(n)

CountDropped ==
    /\ counting
    /\ records_dropped' = Counted(records_dropped)
    /\ counting' = FALSE
    /\ UNCHANGED <<index, ring, lost, stream, streamer, was_reset>>

-----------------------------------------------------------------------------
(* The control server; it runs while the streamer awaits.                  *)
Awaiting == pc \in {"ticker", "send"}

Connect ==
    /\ Awaiting
    /\ ~stream.control_connected
    /\ stream' = [stream EXCEPT !.control_connected = TRUE]
    /\ UNCHANGED <<core1, streamer, was_reset>>

Disconnect ==
    /\ Awaiting
    /\ stream.control_connected
    /\ stream' = [stream EXCEPT !.enabled = FALSE, !.control_connected = FALSE]
    /\ UNCHANGED <<core1, streamer, was_reset>>

(* A live stream cannot be reconfigured.                                   *)
SetupAllowed == ~stream.enabled

StreamSetup(layout, decimation, count) ==
    /\ Awaiting
    /\ stream.control_connected
    /\ SetupAllowed
    /\ stream' = [stream EXCEPT !.layout = layout, !.decimation = decimation,
                                !.count = count]
    /\ UNCHANGED <<core1, streamer, was_reset>>

StreamStart ==
    /\ Awaiting
    /\ stream.control_connected
    /\ stream.layout # NoLayout
    /\ stream.generation < MaxStarts
    /\ stream' = [stream EXCEPT !.enabled = TRUE, !.generation = @ + 1]
    /\ UNCHANGED <<core1, streamer, was_reset>>

(* StreamStop, and the stop that precedes a reboot.                        *)
StreamStop ==
    /\ Awaiting
    /\ stream.control_connected
    /\ stream' = [stream EXCEPT !.enabled = FALSE]
    /\ UNCHANGED <<core1, streamer, was_reset>>

DiagReset ==
    /\ Awaiting
    /\ stream.control_connected
    /\ records_dropped' = 0
    /\ was_reset' = TRUE
    /\ UNCHANGED <<index, ring, counting, lost, stream, streamer>>

Control ==
    \/ Connect
    \/ Disconnect
    \/ \E l \in Layouts, d \in Decimations, c \in Counts : StreamSetup(l, d, c)
    \/ StreamStart
    \/ StreamStop
    \/ DiagReset

-----------------------------------------------------------------------------
(* The streamer task.                                                      *)

(* What the task adopts when it sees a new generation.  (Mutant: the       *)
(* countdown keeps its old value.)                                         *)
RearmKeepsCount(s) == remaining
Rearm(s) == s.count

(* The ticker fires: snapshot STREAM, re-arm on a new generation, then     *)
(* flush the ring or, without a session or a connection, drain it.         *)
Wake ==
    /\ pc = "ticker"
    /\ snapshot' = stream
    /\ generation' = stream.generation
    /\ IF stream.generation # generation
         THEN /\ seq' = 0
              /\ remaining' = Rearm(stream)
              /\ armed_as' = stream
              /\ packed' = 0
         ELSE UNCHANGED <<seq, remaining, armed_as, packed>>
    /\ packet' = <<>>
    /\ pc' = IF stream.enabled /\ stream.control_connected THEN "fill" ELSE "drain"
    /\ UNCHANGED <<core1, stream, dropped, was_reset>>

Drain ==
    /\ pc = "drain"
    /\ IF ring = <<>> THEN pc' = "ticker" /\ UNCHANGED ring
                      ELSE ring' = Tail(ring) /\ UNCHANGED pc
    /\ UNCHANGED <<index, records_dropped, counting, lost, stream, snapshot, generation, seq,
                   remaining, packet, dropped, armed_as, packed, was_reset>>

Full == Len(packet) >= MaxRecords[snapshot.layout]
Finite == snapshot.count # 0

(* Which records the decimation keeps.  (Mutant: a remainder that no index *)
(* has.)                                                                   *)
KeptNever(i) == i % snapshot.decimation = snapshot.decimation
Kept(i) == i % snapshot.decimation = 0

(* Dequeue one record; keep it when the decimation says so.                *)
Fill ==
    /\ pc = "fill"
    /\ ~Full
    /\ ring # <<>>
    /\ ring' = Tail(ring)
    /\ IF Kept(Head(ring).index)
         THEN /\ packet' = Append(packet, Head(ring))
              /\ packed' = IF Finite THEN packed + 1 ELSE packed
              /\ remaining' = IF Finite THEN remaining - 1 ELSE remaining
              /\ pc' = IF Finite /\ remaining = 1 THEN "header" ELSE "fill"
         ELSE UNCHANGED <<packet, packed, remaining, pc>>
    /\ UNCHANGED <<index, records_dropped, counting, lost, stream, snapshot, generation, seq,
                   dropped, armed_as, was_reset>>

(* The packet is full or the ring is empty.                                *)
FillEnd ==
    /\ pc = "fill"
    /\ Full \/ ring = <<>>
    /\ pc' = IF packet = <<>> THEN "ticker" ELSE "header"
    /\ UNCHANGED <<core1, stream, snapshot, generation, seq, remaining, packet, dropped,
                   armed_as, packed, was_reset>>

(* The header takes the drop count last; then send_to awaits buffer space. *)
Header ==
    /\ pc = "header"
    /\ dropped' = records_dropped
    /\ seq' = (seq + 1) % SeqModulus
    /\ pc' = "send"
    /\ UNCHANGED <<core1, stream, snapshot, generation, remaining, packet, armed_as, packed,
                   was_reset>>

Complete == Finite /\ remaining = 0

(* send_to returns: a completed session disables streaming, a packet with  *)
(* room to spare ends the flush, otherwise the next packet is filled.      *)

Sent ==
    /\ pc = "send"
    /\ stream' = [stream EXCEPT !.enabled = @ /\ ~Complete]
    /\ pc' = IF Complete \/ ~Full THEN "ticker" ELSE "fill"
    /\ packet' = <<>>
    /\ UNCHANGED <<core1, snapshot, generation, seq, remaining, dropped, armed_as, packed,
                   was_reset>>

Streamer ==
    \/ Wake
    \/ Drain
    \/ Fill
    \/ FillEnd
    \/ Header
    \/ Sent

Next == EnqueueRecord \/ CountDropped \/ Control \/ Streamer

(* Core 1 keeps sampling and the streamer keeps running: its ticker fires  *)
(* and the network takes the packet in the end.                            *)
Spec ==
    /\ Init
    /\ [][Next]_vars
    /\ WF_vars(EnqueueRecord \/ CountDropped)
    /\ WF_vars(Streamer)

-----------------------------------------------------------------------------
(* Properties.                                                             *)

Sessions == [enabled : BOOLEAN, control_connected : BOOLEAN,
             layout : Layouts \cup {NoLayout}, decimation : Nat \ {0},
             count : Nat, generation : 0..MaxStarts]

Records == [index : 0..(IndexModulus - 1), lost : 0..MaxLost]

FlagsOK ==
    /\ counting \in BOOLEAN
    /\ was_reset \in BOOLEAN

StateOK ==
    /\ index \in 0..(IndexModulus - 1)
    /\ ring \in Seq(Records)
    /\ Len(ring) <= RingCap
    /\ records_dropped \in Nat
    /\ stream \in Sessions
    /\ pc \in {"ticker", "drain", "fill", "header", "send"}
    /\ snapshot \in Sessions
    /\ generation \in 0..MaxStarts
    /\ seq \in 0..(SeqModulus - 1)
    /\ remaining \in Nat
    /\ packet \in Seq(Records)
    /\ dropped \in Nat
    /\ lost \in 0..MaxLost
    /\ armed_as \in Sessions
    /\ packed \in Nat

(* Every variable holds a value of its kind; the finite-session countdown, *)
(* a u32 in the code, never goes below zero.                               *)
TypeOK == FlagsOK /\ StateOK

(* While records are packed, the layout, decimation and count in use are   *)
(* the ones the session was armed with, although STREAM is read again at   *)
(* every wake and the host may reconfigure between two of them.            *)
SessionConfigFixed ==
    pc \in {"fill", "header", "send"} =>
        /\ snapshot.layout = armed_as.layout
        /\ snapshot.decimation = armed_as.decimation
        /\ snapshot.count = armed_as.count

(* A finite session packs exactly the records it was asked for: the        *)
(* countdown and what was packed always add up, and packing stops at zero  *)
(* (the u32 "remaining -= 1" never underflows).                            *)
FiniteCountExact ==
    pc \in {"fill", "header", "send"} /\ Finite =>
        /\ packed + remaining = snapshot.count
        /\ pc = "fill" => remaining > 0

(* Every loss before a record is in the drop count of the packet that      *)
(* carries the record (unless the count was reset): a host that sees no    *)
(* change in the count has missed nothing.                                 *)
DropsReported ==
    pc = "send" /\ ~was_reset =>
        \A i \in 1..Len(packet) : packet[i].lost <= dropped

(* A finite session that the streamer has adopted ends, however much the   *)
(* ring loses and whatever the host does on the way (a further StreamStart *)
(* makes it another session), as long as the ring keeps coming to hold a   *)
(* record that its decimation keeps.  The code cannot do without that: a   *)
(* streamer late in step with the decimation could lose just these.        *)
Running == stream.enabled /\ stream.generation = generation /\ stream.count # 0
Fed == ~Running \/ \E i \in DOMAIN ring : ring[i].index % stream.decimation = 0
FiniteCompletes == []<>Fed => (Running ~> ~Running)

=============================================================================
