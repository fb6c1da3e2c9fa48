----------------------- MODULE StreamSession_proofs ------------------------
(***************************************************************************)
(* The streaming session's invariants for every ring size, packet layout,  *)
(* decimation, record count and number of sessions.                        *)
(*                                                                         *)
(* The argument turns on the generation: while STREAM is enabled under the *)
(* generation the streamer has armed, its configuration cannot have        *)
(* changed (StreamSetup is refused) and its countdown has not run out      *)
(* (completion disables STREAM).                                           *)
(***************************************************************************)
EXTENDS StreamSession, TLAPS, SequenceTheorems

SameConfig(s, t) ==
    /\ s.layout = t.layout
    /\ s.decimation = t.decimation
    /\ s.count = t.count

Flushing == {"fill", "header", "send"}

(* STREAM as the streamer knows it.                                        *)
Generations ==
    /\ generation <= stream.generation
    /\ stream.enabled => stream.layout # NoLayout
    /\ stream.enabled /\ stream.generation = generation => SameConfig(stream, armed_as)
    /\ pc \in Flushing => SameConfig(snapshot, armed_as) /\ snapshot.layout # NoLayout

(* The countdown of a finite session.                                      *)
Countdown ==
    /\ armed_as.count # 0 => packed + remaining = armed_as.count
    /\ pc = "fill" /\ armed_as.count # 0 => remaining > 0
    /\ /\ stream.enabled /\ stream.generation = generation
       /\ armed_as.count # 0 /\ pc \in {"ticker", "drain"}
       => remaining > 0

(* Every loss that precedes a record has been counted.                     *)
LossFacts ==
    /\ ~counting => records_dropped = lost
    /\ counting => OneMore(records_dropped) = lost
    /\ \A i \in 1..Len(ring) : ring[i].lost <= records_dropped
    /\ \A i \in 1..Len(packet) : packet[i].lost <= records_dropped
    /\ pc = "send" => \A i \in 1..Len(packet) : packet[i].lost <= dropped

LossesCounted == ~was_reset => LossFacts

IInv == FlagsOK /\ StateOK /\ Generations /\ Countdown /\ LossesCounted

-----------------------------------------------------------------------------

(* The initial session is well typed.                                      *)
LEMMA NoSessionType == NoSession \in Sessions
  BY StreamAssumption DEF NoSession, Sessions

LEMMA InitIInv == Init => IInv
  <1> SUFFICES ASSUME Init PROVE IInv
    OBVIOUS
  <1> USE StreamAssumption DEF Init
  <1>1. FlagsOK
    BY Zenon DEF FlagsOK
  <1>2. StateOK
    BY NoSessionType DEF StateOK
  <1>3. Generations
    BY DEF Generations, NoSession, Flushing
  <1>4. Countdown
    BY DEF Countdown, NoSession
  <1>5. LossesCounted
    BY DEF LossesCounted, LossFacts
  <1> QED
    BY <1>1, <1>2, <1>3, <1>4, <1>5 DEF IInv

(* Every step keeps the Boolean variables Boolean.                         *)
LEMMA FlagsStep == FlagsOK /\ [Next]_vars => FlagsOK'
  <1> SUFFICES ASSUME FlagsOK, [Next]_vars PROVE FlagsOK'
    OBVIOUS
  <1> USE DEF FlagsOK
  <1>1. CASE EnqueueRecord \/ CountDropped
    BY <1>1, Zenon DEF EnqueueRecord, CountDropped
  <1>2. CASE Control
    BY <1>2, Zenon DEF Control, Connect, Disconnect, StreamSetup, StreamStart, StreamStop,
         DiagReset, core1
  <1>3. CASE Wake \/ Drain \/ Fill \/ FillEnd \/ Header
    BY <1>3, Zenon DEF Wake, Drain, Fill, FillEnd, Header, core1
  <1>4. CASE Sent
    BY <1>4, Zenon DEF Sent, core1
  <1>5. CASE UNCHANGED vars
    BY <1>5, Zenon DEF vars, core1
  <1> QED
    BY <1>1, <1>2, <1>3, <1>4, <1>5 DEF Next, Streamer

(* A step of the control server starts a session, or leaves the generation *)
(* and, where STREAM stays enabled, its configuration.                     *)
Started ==
    /\ stream'.generation = stream.generation + 1
    /\ stream'.layout = stream.layout
    /\ stream.layout # NoLayout

AsArmed ==
    /\ stream'.generation = stream.generation
    /\ stream'.enabled => stream.enabled /\ SameConfig(stream', stream)

LEMMA ControlStream ==
  ASSUME StateOK, Control
  PROVE  stream' \in Sessions /\ (Started \/ AsArmed)
  <1>1. stream \in Sessions
    BY DEF StateOK
  <1> USE <1>1, StreamAssumption DEF Sessions, SameConfig, Started, AsArmed
  <1>2. CASE Connect
    BY <1>2 DEF Connect
  <1>3. CASE Disconnect
    BY <1>3 DEF Disconnect
  <1>4. CASE StreamStop
    BY <1>4 DEF StreamStop
  <1>5. CASE StreamStart
    <2>1. stream.generation + 1 \in 0..MaxStarts /\ stream.layout # NoLayout
      BY <1>5 DEF StreamStart
    <2>2. stream' = [stream EXCEPT !.enabled = TRUE, !.generation = stream.generation + 1]
      BY <1>5 DEF StreamStart
    <2>3. stream' \in Sessions
      BY <2>1, <2>2
    <2>4. Started
      BY <2>1, <2>2
    <2> QED
      BY <2>3, <2>4
  <1>6. CASE DiagReset
    BY <1>6 DEF DiagReset
  <1>7. ASSUME NEW l \in Layouts, NEW d \in Decimations, NEW c \in Counts,
               StreamSetup(l, d, c)
        PROVE  stream' \in Sessions /\ (Started \/ AsArmed)
    BY <1>7 DEF StreamSetup, SetupAllowed
  <1> QED
    BY <1>2, <1>3, <1>4, <1>5, <1>6, <1>7 DEF Control

(* It leaves the streamer and the ring alone, and only diag_reset touches  *)
(* the drop count.                                                         *)
LEMMA ControlFrame ==
  ASSUME Control
  PROVE  /\ UNCHANGED <<index, ring, counting, lost>>
         /\ UNCHANGED <<pc, snapshot, generation, seq, remaining, packet, dropped, armed_as, packed>>
         /\ Awaiting
  BY Zenon DEF Control, Connect, Disconnect, StreamSetup, StreamStart, StreamStop, DiagReset,
       core1, streamer

LEMMA ControlDrops ==
  ASSUME Control
  PROVE  \/ UNCHANGED <<records_dropped, was_reset>>
         \/ records_dropped' = 0 /\ was_reset'
  BY Zenon DEF Control, Connect, Disconnect, StreamSetup, StreamStart, StreamStop, DiagReset,
       core1

(* Every step keeps the other variables in their types; the countdown      *)
(* cannot underflow because a session is filled only while records remain. *)
LEMMA StateStep == IInv /\ [Next]_vars => StateOK'
  <1> SUFFICES ASSUME IInv, [Next]_vars PROVE StateOK'
    OBVIOUS
  <1> USE StreamAssumption DEF IInv, StateOK
  <1>1. CASE EnqueueRecord
    <2>1. index' \in 0..(IndexModulus - 1)
      BY <1>1 DEF EnqueueRecord
    <2>2. [index |-> index, lost |-> lost] \in Records
      BY DEF Records, Sessions
    <2>3. ring' \in Seq(Records) /\ Len(ring') <= RingCap
      <3> DEFINE r == [index |-> index, lost |-> lost]
      <3>1. Append(ring, r) \in Seq(Records) /\ Len(Append(ring, r)) = Len(ring) + 1
        <4> HIDE DEF r
        <4> QED
          BY <2>2, AppendProperties DEF r
      <3>2. (Len(ring) < RingCap /\ ring' = Append(ring, r)) \/ ring' = ring
        BY <1>1 DEF EnqueueRecord
      <3> HIDE DEF r
      <3> QED
        BY <3>1, <3>2
    <2>4. lost' \in 0..MaxLost
      BY <1>1 DEF EnqueueRecord, OneMore
    <2> QED
      BY <1>1, <2>1, <2>3, <2>4 DEF EnqueueRecord, streamer
  <1>2. CASE CountDropped
    BY <1>2 DEF CountDropped, Counted, OneMore, streamer
  <1>3. CASE Control
    <2>1. records_dropped' \in Nat
      BY <1>3, ControlDrops
    <2> QED
      BY <1>3, <2>1, ControlFrame, ControlStream
  <1>4. CASE Wake
    <2>1. stream.count \in Nat /\ stream.generation \in 0..MaxStarts
      BY DEF Sessions
    <2>2. seq' \in 0..(SeqModulus - 1) /\ remaining' \in Nat /\ armed_as' \in Sessions /\ packed' \in Nat
      BY <1>4, <2>1 DEF Wake, Rearm
    <2>3. packet' \in Seq(Records) /\ pc' \in {"fill", "drain"}
      BY <1>4 DEF Wake
    <2> QED
      BY <1>4, <2>1, <2>2, <2>3 DEF Wake, core1
  <1>5. CASE Drain
    BY <1>5 DEF Drain
  <1>6. CASE Fill
    <2>1. Head(ring) \in Records /\ Tail(ring) \in Seq(Records) /\ Len(Tail(ring)) <= RingCap
      BY <1>6 DEF Fill
    <2>2. packet' \in Seq(Records)
      <3>1. Append(packet, Head(ring)) \in Seq(Records)
        BY <2>1
      <3> QED
        BY <1>6, <3>1 DEF Fill
    <2>3. Finite => remaining > 0
      BY <1>6 DEF Fill, Finite, Countdown, Generations, Flushing, SameConfig
    <2>4. remaining' \in Nat /\ packed' \in Nat /\ pc' \in {"fill", "header"}
      BY <1>6, <2>3 DEF Fill
    <2> QED
      BY <1>6, <2>1, <2>2, <2>4 DEF Fill
  <1>7. CASE FillEnd \/ Header
    <2>1. seq' \in 0..(SeqModulus - 1) /\ pc' \in {"ticker", "header", "send"}
      BY <1>7 DEF FillEnd, Header
    <2>2. dropped' \in Nat
      BY <1>7 DEF FillEnd, Header
    <2> QED
      BY <1>7, <2>1, <2>2 DEF FillEnd, Header, core1
  <1>8. CASE Sent
    <2>1. stream' \in Sessions
      BY <1>8 DEF Sent, Sessions
    <2> QED
      BY <1>8, <2>1 DEF Sent, core1
  <1>9. CASE UNCHANGED vars
    BY <1>9 DEF vars, core1, streamer
  <1> QED
    BY <1>1, <1>2, <1>3, <1>4, <1>5, <1>6, <1>7, <1>8, <1>9 DEF Next, Streamer

(* While enabled under the armed generation, STREAM keeps its config.      *)
LEMMA GenerationsStep == IInv /\ [Next]_vars => Generations'
  <1> SUFFICES ASSUME IInv, [Next]_vars PROVE Generations'
    OBVIOUS
  <1> USE DEF IInv, StateOK, Generations, SameConfig, Flushing, Sessions
  <1>1. CASE EnqueueRecord \/ CountDropped
    BY <1>1 DEF EnqueueRecord, CountDropped, streamer
  <1>2. CASE Control
    <2>1. UNCHANGED <<pc, snapshot, generation, armed_as>>
      BY <1>2, ControlFrame
    <2>2. CASE Started
      BY <2>1, <2>2 DEF Started
    <2>3. CASE AsArmed
      BY <2>1, <2>3 DEF AsArmed
    <2> QED
      BY <1>2, <2>2, <2>3, ControlStream
  <1>3. CASE Wake
    <2>1. /\ stream' = stream /\ snapshot' = stream /\ generation' = stream.generation
          /\ pc' \in Flushing => stream.enabled
      BY <1>3 DEF Wake
    <2>2. CASE stream.generation # generation
      BY <1>3, <2>1, <2>2 DEF Wake
    <2>3. CASE stream.generation = generation
      <3>1. armed_as' = armed_as
        BY <1>3, <2>3 DEF Wake
      <3> QED
        BY <2>1, <2>3, <3>1
    <2> QED
      BY <2>2, <2>3
  <1>4. CASE Drain \/ Fill \/ FillEnd \/ Header
    BY <1>4 DEF Drain, Fill, FillEnd, Header
  <1>5. CASE Sent
    BY <1>5 DEF Sent
  <1>6. CASE UNCHANGED vars
    BY <1>6 DEF vars, streamer
  <1> QED
    BY <1>1, <1>2, <1>3, <1>4, <1>5, <1>6 DEF Next, Streamer

(* The countdown and the records packed add up.                            *)
LEMMA CountdownStep == IInv /\ [Next]_vars => Countdown'
  <1> SUFFICES ASSUME IInv, [Next]_vars PROVE Countdown'
    OBVIOUS
  <1> USE DEF IInv, StateOK, Countdown, Sessions
  <1>1. CASE EnqueueRecord \/ CountDropped
    BY <1>1 DEF EnqueueRecord, CountDropped, streamer
  <1>2. CASE Control
    <2>1. UNCHANGED <<pc, generation, remaining, armed_as, packed>>
      BY <1>2, ControlFrame
    <2>2. CASE Started
      BY <2>1, <2>2 DEF Started, Generations
    <2>3. CASE AsArmed
      BY <2>1, <2>3 DEF AsArmed
    <2> QED
      BY <1>2, <2>2, <2>3, ControlStream
  <1>3. CASE Wake
    <2>1. CASE stream.generation # generation
      BY <1>3, <2>1 DEF Wake, Rearm
    <2>2. CASE stream.generation = generation
      BY <1>3, <2>2 DEF Wake
    <2> QED
      BY <2>1, <2>2
  <1>4. CASE Drain
    BY <1>4 DEF Drain
  <1>5. CASE Fill
    <2>1. snapshot.count = armed_as.count
      BY <1>5 DEF Fill, Generations, Flushing, SameConfig
    <2>2. UNCHANGED <<stream, generation, armed_as>> /\ pc = "fill"
      BY <1>5 DEF Fill
    <2>3. CASE UNCHANGED <<packed, remaining, pc>>
      BY <2>2, <2>3
    <2>4. CASE /\ packed' = IF Finite THEN packed + 1 ELSE packed
               /\ remaining' = IF Finite THEN remaining - 1 ELSE remaining
               /\ pc' = IF Finite /\ remaining = 1 THEN "header" ELSE "fill"
      BY <2>1, <2>2, <2>4 DEF Finite
    <2> QED
      BY <1>5, <2>3, <2>4 DEF Fill
  <1>6. CASE FillEnd
    BY <1>6 DEF FillEnd
  <1>7. CASE Header
    BY <1>7 DEF Header
  <1>8. CASE Sent
    <2>1. snapshot.count = armed_as.count
      BY <1>8 DEF Sent, Generations, Flushing, SameConfig
    <2>2. UNCHANGED <<generation, armed_as, packed, remaining>>
      BY <1>8 DEF Sent
    <2>3. stream'.enabled => ~Complete
      BY <1>8 DEF Sent
    <2>4. pc' = "fill" => ~Complete
      BY <1>8 DEF Sent
    <2> QED
      BY <2>1, <2>2, <2>3, <2>4 DEF Complete, Finite
  <1>9. CASE UNCHANGED vars
    BY <1>9 DEF vars, streamer
  <1> QED
    BY <1>1, <1>2, <1>3, <1>4, <1>5, <1>6, <1>7, <1>8, <1>9 DEF Next, Streamer

(* The loss a record was stamped with is a number.                         *)
LEMMA RecordLoss ==
  ASSUME NEW s \in Seq(Records), NEW i \in 1..Len(s)
  PROVE  s[i].lost \in Nat
  <1>1. s[i] \in Records
    OBVIOUS
  <1>2. \A r \in Records : r.lost \in Nat
    BY StreamAssumption DEF Records
  <1> QED
    BY <1>1, <1>2

(* A record is enqueued only once every earlier loss has been counted.     *)
LEMMA LossesStep == IInv /\ [Next]_vars => LossesCounted'
  <1> SUFFICES ASSUME IInv, [Next]_vars, ~was_reset' PROVE LossFacts'
    BY DEF LossesCounted
  <1>1. StateOK /\ (~was_reset => LossFacts)
    BY DEF IInv, LossesCounted
  <1>2. CASE Control
    <2>1. UNCHANGED <<ring, counting, lost, pc, packet, dropped>>
      BY <1>2, ControlFrame
    <2>2. UNCHANGED records_dropped /\ ~was_reset
      BY <1>2, ControlDrops
    <2> QED
      BY <1>1, <2>1, <2>2 DEF LossFacts
  <1>3. CASE ~Control
    <2>1. UNCHANGED was_reset
      BY <1>3 DEF Next, EnqueueRecord, CountDropped, Streamer, Wake, Drain, Fill, FillEnd, Header,
           Sent, vars
    <2>2. LossFacts
      BY <1>1, <2>1
    <2> USE <1>1, <2>2 DEF StateOK, LossFacts
    <2>3. CASE EnqueueRecord
      <3>1. UNCHANGED <<records_dropped, pc, packet, dropped>> /\ ~counting
        BY <2>3 DEF EnqueueRecord, streamer
      <3>2. CASE Len(ring) < RingCap
        <4> DEFINE r == [index |-> index, lost |-> lost]
        <4>1. ring' = Append(ring, r) /\ UNCHANGED <<counting, lost>> /\ r.lost = lost
          BY <2>3, <3>2 DEF EnqueueRecord
        <4> HIDE DEF r
        <4>2. \A i \in 1..Len(ring') : ring'[i] = IF i <= Len(ring) THEN ring[i] ELSE r
          BY <4>1
        <4>3. \A i \in 1..Len(ring') : ring'[i].lost <= records_dropped
          BY <3>1, <4>1, <4>2
        <4> QED
          BY <3>1, <4>1, <4>3
      <3>3. CASE ~(Len(ring) < RingCap)
        <4>1. UNCHANGED ring /\ lost' = OneMore(lost) /\ counting'
          BY <2>3, <3>3 DEF EnqueueRecord
        <4> QED
          BY <3>1, <4>1
      <3> QED
        BY <3>2, <3>3
    <2>4. CASE CountDropped
      <3>1. records_dropped' = OneMore(records_dropped) /\ counting /\ ~counting'
        BY <2>4 DEF CountDropped, Counted
      <3>0. records_dropped <= records_dropped'
        BY <3>1 DEF OneMore
      <3>2. UNCHANGED <<ring, lost, pc, packet, dropped>>
        BY <2>4 DEF CountDropped, streamer
      <3>3. \A i \in 1..Len(ring) : ring[i].lost \in Nat
        BY RecordLoss
      <3>4. \A i \in 1..Len(packet) : packet[i].lost \in Nat
        BY RecordLoss
      <3> QED
        BY <3>0, <3>1, <3>2, <3>3, <3>4
    <2>5. CASE Wake
      BY <2>5 DEF Wake, core1
    <2>6. CASE Drain
      <3>1. UNCHANGED <<records_dropped, counting, lost, packet, dropped>> /\ pc' # "send"
        BY <2>6 DEF Drain
      <3>2. CASE ring = <<>>
        BY <2>6, <3>1, <3>2 DEF Drain
      <3>3. CASE ring # <<>>
        <4>1. ring' = Tail(ring)
          BY <2>6, <3>3 DEF Drain
        <4>2. \A i \in 1..Len(ring') : i + 1 \in 1..Len(ring) /\ ring'[i] = ring[i + 1]
          BY <3>3, <4>1
        <4>3. \A i \in 1..Len(ring') : ring'[i].lost <= records_dropped
          BY <4>2
        <4> QED
          BY <3>1, <4>3
      <3> QED
        BY <3>2, <3>3
    <2>7. CASE Fill
      <3>1. UNCHANGED <<records_dropped, counting, lost>> /\ ring # <<>> /\ pc' # "send"
        BY <2>7 DEF Fill
      <3>2. ring' = Tail(ring)
        BY <2>7 DEF Fill
      <3>3. \A i \in 1..Len(ring') : i + 1 \in 1..Len(ring) /\ ring'[i] = ring[i + 1]
        BY <3>1, <3>2
      <3>4. \A i \in 1..Len(ring') : ring'[i].lost <= records_dropped
        BY <3>3
      <3>5. packet' = packet \/ packet' = Append(packet, ring[1])
        BY <2>7, <3>1 DEF Fill
      <3>6. 1 \in 1..Len(ring)
        BY <3>1
      <3>7. \A i \in 1..Len(packet') :
               (i \in 1..Len(packet) /\ packet'[i] = packet[i]) \/ packet'[i] = ring[1]
        <4>1. CASE packet' = packet
          BY <4>1
        <4>2. CASE packet' = Append(packet, ring[1])
          <5>1. ring[1] \in Records /\ packet \in Seq(Records)
            BY <3>6
          <5> QED
            BY <4>2, <5>1, AppendProperties
        <4> QED
          BY <3>5, <4>1, <4>2
      <3>8. \A i \in 1..Len(packet') : packet'[i].lost <= records_dropped
        BY <3>6, <3>7
      <3> QED
        BY <3>1, <3>4, <3>8
    <2>8. CASE FillEnd
      BY <2>8 DEF FillEnd, core1
    <2>9. CASE Header
      BY <2>9 DEF Header, core1
    <2>10. CASE Sent
      BY <2>10 DEF Sent, core1
    <2>11. CASE UNCHANGED vars
      BY <2>11 DEF vars, core1, streamer
    <2> QED
      BY <1>3, <2>3, <2>4, <2>5, <2>6, <2>7, <2>8, <2>9, <2>10, <2>11 DEF Next, Streamer
  <1> QED
    BY <1>2, <1>3

(* The inductive invariant holds in every reachable state.                 *)
THEOREM StreamInvariance == Spec => []IInv
  <1>1. IInv /\ [Next]_vars => IInv'
    BY FlagsStep, StateStep, GenerationsStep, CountdownStep, LossesStep DEF IInv
  <1> QED
    BY <1>1, InitIInv, PTL DEF Spec

(* Type correctness, with a countdown that never underflows.               *)
THEOREM StreamTypeCorrect == Spec => []TypeOK
  <1>1. IInv => TypeOK
    BY DEF IInv, TypeOK
  <1> QED
    BY <1>1, StreamInvariance, PTL

(* A session is packed with the configuration it was armed with.           *)
THEOREM ConfigFixed == Spec => []SessionConfigFixed
  <1>1. IInv => SessionConfigFixed
    BY DEF IInv, Generations, SameConfig, Flushing, SessionConfigFixed
  <1> QED
    BY <1>1, StreamInvariance, PTL

(* A finite session packs exactly the records it was asked for.            *)
THEOREM CountExact == Spec => []FiniteCountExact
  <1>1. IInv => FiniteCountExact
    BY DEF IInv, Generations, Countdown, SameConfig, Flushing, FiniteCountExact, Finite
  <1> QED
    BY <1>1, StreamInvariance, PTL

(* The drop count of a packet covers every loss before its last record.    *)
THEOREM LossesReported == Spec => []DropsReported
  <1>1. IInv => DropsReported
    BY DEF IInv, LossesCounted, LossFacts, DropsReported
  <1> QED
    BY <1>1, StreamInvariance, PTL

=============================================================================
