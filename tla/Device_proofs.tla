--------------------------- MODULE Device_proofs ---------------------------
(***************************************************************************)
(* What the microcontroller does on its own, whatever its host does: the   *)
(* output safety gate (OutputSafety) and the laser service (Laser).        *)
(*                                                                         *)
(* The gate, for any number of channels, gated or not.  Three chains of    *)
(* facts are carried through the steps of the two cores: what core 0's     *)
(* position says about the armed flag, what the history of a tick says     *)
(* about the level it drives, and how far core 1's reboot sequence has     *)
(* got.                                                                    *)
(*                                                                         *)
(* The laser, for any rates, buffer, measurements, losses and refusals.    *)
(* After the drain the prompts in the receive buffer can be numbered by    *)
(* the commands they answer, and the task is ahead of them by no more than *)
(* the answers that were overdue.  If none was, a single command is under  *)
(* way, in one of the forms its answer can take; once the sensor has been  *)
(* started, what is received and not yet parsed is a stream of             *)
(* measurements in which every loss is reported in its place, and the      *)
(* parser holds the beginning of it.                                       *)
(***************************************************************************)
EXTENDS Integers, OutputSafety, Laser, SequenceTheorems, TLAPS

(* Core 0: between the end of serve and the next connection.               *)
Unattended ==
    /\ UnattendedIsDisarmed
    /\ pc0 = "close" => ~streaming /\ ~connected

(* Core 1: the snapshot and the level about to be driven never run ahead   *)
(* of what the tick has seen.                                              *)
InTick == {"loadArmed", "loadTripped", "step", "gate", "actuate"}

TickHistory ==
    /\ armed => since.armed
    /\ pc1 \in {"loadTripped", "step", "gate"} /\ safety_inputs.armed => since.armed
    /\ gated /\ pc1 = "actuate" /\ ~since.armed => applied = "safe"
    /\ gated /\ pc1 = "actuate" => applied \in {"safe", "zero", "inside", "edge"}
    /\ QuietAfterDisarmedTick
    /\ DrivenWithinWindow
    /\ FaultNotMasked

(* The reboot sequence: the channels already visited are at rest.          *)
RebootProgress ==
    /\ pc1 \in InTick => reboot_step = 0
    /\ reboot_step # 0 \/ pc1 \in {"mark", "spin"} => reboot # "idle"
    /\ reboot_step \in Channels
    /\ pc1 = "wait" => \A c \in Channels : c < reboot_step => dac[c] = Rest
    /\ pc1 \in {"mark", "spin"} => \A c \in Channels : dac[c] = Rest
    /\ reboot = "quiesced" => pc1 = "spin"

IInv == TypeOK /\ Unattended /\ TickHistory /\ RebootProgress

-----------------------------------------------------------------------------

(* The rig, and with it its channels and their rest level, never changes.  *)
LEMMA RigFixed ==
    [Next]_vars => /\ gated' = gated /\ Channels' = Channels /\ TopChannel' = TopChannel
                   /\ Rest' = Rest
  <1> SUFFICES ASSUME [Next]_vars PROVE gated' = gated
    BY DEF Channels, TopChannel, Rest
  <1> QED
    BY DEF Next, Core0, Core1, ChipReset, vars

LEMMA InitIInv == Init => IInv
  <1> SUFFICES ASSUME Init PROVE IInv
    OBVIOUS
  <1> USE RigAssumption DEF Init
  <1>1. FlagsOK
    BY Zenon DEF FlagsOK
  <1>2. StateOK
    BY DEF StateOK, Rest, Channels, TopChannel, Levels, Commanded
  <1>3. Unattended
    BY DEF Unattended, UnattendedIsDisarmed
  <1>4. TickHistory
    BY DEF TickHistory, QuietAfterDisarmedTick, DrivenWithinWindow, FaultNotMasked, Rest
  <1>5. RebootProgress
    BY DEF RebootProgress, InTick, Channels, TopChannel
  <1> QED
    BY <1>1, <1>2, <1>3, <1>4, <1>5 DEF IInv, TypeOK

(* Every step keeps the Boolean variables Boolean.                         *)
LEMMA FlagsStep == FlagsOK /\ StateOK /\ [Next]_vars => FlagsOK'
  <1> SUFFICES ASSUME FlagsOK, StateOK, [Next]_vars PROVE FlagsOK'
    OBVIOUS
  <1> USE RigFixed DEF FlagsOK
  <1>1. CASE Core0
    BY <1>1, Zenon DEF Core0, Handler, Connect, ArmClear, ArmSet, Disarm, HostDisarm, DiagReset,
         StreamStart, StreamStop, Drop, Close, RebootDisarm, RebootRequest, RebootPolled,
         shared, core0, core1
  <1>2. CASE TickStart \/ LoadArmed \/ LoadTripped \/ Actuate \/ PrepareReboot \/ MarkQuiesced
    BY <1>2, Zenon DEF TickStart, LoadArmed, LoadTripped, Actuate, PrepareReboot, MarkQuiesced,
         shared, core0
  <1>3. CASE Step
    BY <1>3, Zenon DEF Step, Enabled, shared, core0
  <1>4. ASSUME NEW fault \in BOOLEAN, Gate(fault) PROVE FlagsOK'
    BY <1>4, Zenon DEF Gate, core0
  <1>5. CASE ChipReset
    BY <1>5, Zenon DEF ChipReset
  <1>6. CASE UNCHANGED vars
    BY <1>6, Zenon DEF vars, shared, core0, core1
  <1> QED
    BY <1>1, <1>2, <1>3, <1>4, <1>5, <1>6 DEF Next, Core1

(* Every step keeps the other variables in their types.                    *)
LEMMA StateStep == FlagsOK /\ StateOK /\ [Next]_vars => StateOK'
  <1> SUFFICES ASSUME FlagsOK, StateOK, [Next]_vars PROVE StateOK'
    OBVIOUS
  <1> USE RigAssumption, RigFixed DEF StateOK
  <1>1. CASE Core0
    <2>1. CASE Connect \/ HostDisarm \/ DiagReset \/ StreamStart \/ StreamStop \/ Drop
      BY <2>1 DEF Connect, Disarm, HostDisarm, DiagReset, StreamStart, StreamStop, Drop,
           shared, core0, core1
    <2>2. CASE RebootDisarm \/ RebootRequest \/ RebootPolled \/ Close
      BY <2>2 DEF RebootDisarm, Disarm, RebootRequest, RebootPolled, Close, shared, core0, core1
    <2>3. CASE ArmClear \/ ArmSet
      <3>1. since' \in [armed : BOOLEAN, arm : BOOLEAN, fault : BOOLEAN]
        BY <2>3 DEF ArmClear, ArmSet
      <3> QED
        BY <2>3, <3>1 DEF ArmClear, ArmSet, core1
    <2> QED
      BY <1>1, <2>1, <2>2, <2>3 DEF Core0, Handler
  <1>2. CASE TickStart \/ LoadArmed \/ LoadTripped
    BY <1>2, FlagsOK DEF FlagsOK, TickStart, LoadArmed, LoadTripped, shared, core0, core1, Selectable
  <1>3. CASE Step
    <2>1. commanded' \in Commanded /\ control' \in {"reset", "running", "faulted"}
      BY <1>3 DEF Step, Commanded
    <2> QED
      BY <1>3, <2>1 DEF Step, shared, core0
  <1>4. ASSUME NEW fault \in BOOLEAN, Gate(fault) PROVE StateOK'
    <2>1. applied' \in Levels /\ control' \in {"reset", "running", "faulted"}
      BY <1>4 DEF Gate, Clamp, Commanded, Levels
    <2>2. since' \in [armed : BOOLEAN, arm : BOOLEAN, fault : BOOLEAN]
      BY <1>4 DEF Gate
    <2> QED
      BY <1>4, <2>1, <2>2 DEF Gate, core0
  <1>5. CASE Actuate
    BY <1>5 DEF Actuate, shared, core0, core1
  <1>6. CASE PrepareReboot
    <2>1. Rest \in Levels
      BY DEF Rest, Levels, Commanded
    <2>2. reboot_step' \in 0..255 /\ pc1' \in {"wait", "mark"}
      BY <1>6 DEF PrepareReboot, NextRebootStep
    <2>3. dac' \in [Channels -> Levels]
      BY <1>6, <2>1 DEF PrepareReboot
    <2> QED
      BY <1>6, <2>2, <2>3 DEF PrepareReboot, shared, core0
  <1>7. CASE MarkQuiesced
    BY <1>7 DEF MarkQuiesced, shared, core0, core1
  <1>8. CASE ChipReset
    BY <1>8 DEF ChipReset, Channels, TopChannel, Levels, Commanded, Rest
  <1>9. CASE UNCHANGED vars
    BY <1>9 DEF vars, shared, core0, core1
  <1> QED
    BY <1>1, <1>2, <1>3, <1>4, <1>5, <1>6, <1>7, <1>8, <1>9 DEF Next, Core1

(* Nothing is armed and nothing streams without a connection.              *)
LEMMA UnattendedStep == TypeOK /\ Unattended /\ [Next]_vars => Unattended'
  <1> SUFFICES ASSUME TypeOK, Unattended, [Next]_vars PROVE Unattended'
    OBVIOUS
  <1> USE DEF TypeOK, FlagsOK, StateOK, Unattended, UnattendedIsDisarmed
  <1>1. CASE Core0
    BY <1>1 DEF Core0, Handler, Connect, ArmClear, ArmSet, Disarm, HostDisarm, DiagReset,
         StreamStart, StreamStop, Drop, Close, RebootDisarm, RebootRequest, RebootPolled,
         shared, core0, core1
  <1>2. CASE Core1
    <2>1. armed' = armed /\ UNCHANGED core0
      BY <1>2 DEF Core1, TickStart, LoadArmed, LoadTripped, Step, Gate, Actuate, PrepareReboot,
           MarkQuiesced, shared, core0
    <2> QED
      BY <2>1 DEF core0
  <1>3. CASE ChipReset
    BY <1>3 DEF ChipReset
  <1>4. CASE UNCHANGED vars
    BY <1>4 DEF vars, shared, core0
  <1> QED
    BY <1>1, <1>2, <1>3, <1>4 DEF Next

(* A gated rig has one channel, the one every tick drives.                 *)
LEMMA OneChannel ==
    TypeOK /\ gated => Channels = {0} /\ output_channel = 0 /\ dac = [c \in {0} |-> dac[0]]
  BY RigAssumption DEF TypeOK, StateOK, Channels, TopChannel

(* What a tick drives follows from what it has seen.                       *)
LEMMA TickHistoryStep == TypeOK /\ TickHistory /\ [Next]_vars => TickHistory'
  <1> SUFFICES ASSUME TypeOK, TickHistory, [Next]_vars PROVE TickHistory'
    OBVIOUS
  <1> USE RigFixed DEF TypeOK, FlagsOK, StateOK, TickHistory, QuietAfterDisarmedTick, DrivenWithinWindow, FaultNotMasked
  <1>1. CASE Core0
    BY <1>1 DEF Core0, Handler, Connect, ArmClear, ArmSet, Disarm, HostDisarm, DiagReset,
         StreamStart, StreamStop, Drop, Close, RebootDisarm, RebootRequest, RebootPolled,
         shared, core0, core1
  <1>2. CASE TickStart
    BY <1>2 DEF TickStart, shared, core0, core1
  <1>3. CASE LoadArmed \/ LoadTripped
    BY <1>3 DEF LoadArmed, LoadTripped, shared, core0, core1
  <1>4. CASE Step
    BY <1>4 DEF Step, shared, core0, core1
  <1>5. ASSUME NEW fault \in BOOLEAN, Gate(fault) PROVE TickHistory'
    <2> gated' = gated /\ Channels' = Channels
      BY RigFixed
    <2> HIDE RigFixed
    <2>1. CASE gated
      BY <1>5, <2>1 DEF Gate, NewlyTripped, MustQuiet, Clamp, Commanded, shared, core0, core1
    <2>2. CASE ~gated
      BY <1>5, <2>2 DEF Gate, shared, core0, core1
    <2> QED
      BY <2>1, <2>2
  <1>6. CASE Actuate
    <2>1. CASE gated
      BY <1>6, <2>1, OneChannel DEF Actuate, shared, core0, core1
    <2>2. CASE ~gated
      BY <1>6, <2>2 DEF Actuate, shared, core0, core1
    <2> QED
      BY <2>1, <2>2
  <1>7. CASE PrepareReboot
    BY <1>7 DEF PrepareReboot, Rest, shared, core0, core1
  <1>8. CASE MarkQuiesced
    BY <1>8 DEF MarkQuiesced, shared, core0, core1
  <1>9. CASE ChipReset
    BY <1>9 DEF ChipReset, Rest
  <1>10. CASE UNCHANGED vars
    BY <1>10 DEF vars, shared, core0, core1
  <1> QED
    BY <1>1, <1>2, <1>3, <1>4, <1>5, <1>6, <1>7, <1>8, <1>9, <1>10 DEF Next, Core1

(* The reboot sequence visits every channel before it reports quiescence.  *)
LEMMA RebootStep == TypeOK /\ RebootProgress /\ [Next]_vars => RebootProgress'
  <1> SUFFICES ASSUME TypeOK, RebootProgress, [Next]_vars PROVE RebootProgress'
    OBVIOUS
  <1> USE RigAssumption, RigFixed DEF TypeOK, FlagsOK, StateOK, RebootProgress, InTick
  <1>1. CASE Core0
    <2>1. /\ UNCHANGED core1
          /\ reboot # "idle" => reboot' = reboot
          /\ reboot' = "quiesced" => reboot = "quiesced"
      BY <1>1 DEF Core0, Handler, Connect, ArmClear, ArmSet, Disarm, HostDisarm, DiagReset,
           StreamStart, StreamStop, Drop, Close, RebootDisarm, RebootRequest, RebootPolled,
           shared, core0
    <2> QED
      BY <2>1 DEF core1
  <1>2. CASE TickStart \/ LoadArmed \/ LoadTripped \/ Step \/ \E fault \in BOOLEAN : Gate(fault)
    <2>1. /\ UNCHANGED <<reboot, reboot_step, dac>>
          /\ pc1' \in InTick
          /\ pc1 \in InTick \/ (pc1 = "wait" /\ reboot = "idle")
      BY <1>2 DEF TickStart, LoadArmed, LoadTripped, Step, Gate, shared
    <2> QED
      BY <2>1
  <1>3. CASE Actuate
    BY <1>3 DEF Actuate, shared, core0, Channels
  <1>4. CASE PrepareReboot
    <2>1. CASE LastRebootStep(reboot_step)
      BY <1>4, <2>1 DEF PrepareReboot, LastRebootStep, Channels, TopChannel, shared
    <2>2. CASE ~LastRebootStep(reboot_step)
      BY <1>4, <2>2 DEF PrepareReboot, LastRebootStep, NextRebootStep, Channels, TopChannel, shared
    <2> QED
      BY <2>1, <2>2
  <1>5. CASE MarkQuiesced
    BY <1>5 DEF MarkQuiesced
  <1>6. CASE ChipReset
    BY <1>6 DEF ChipReset, Channels, TopChannel
  <1>7. CASE UNCHANGED vars
    BY <1>7 DEF vars, shared, core1
  <1> QED
    BY <1>1, <1>2, <1>3, <1>4, <1>5, <1>6, <1>7 DEF Next, Core1

(* The inductive invariant holds in every reachable state.                 *)
THEOREM Invariance == Spec => []IInv
  <1>1. IInv /\ [Next]_vars => IInv'
    BY FlagsStep, StateStep, UnattendedStep, TickHistoryStep, RebootStep DEF IInv, TypeOK
  <1> QED
    BY <1>1, InitIInv, PTL DEF Spec

(* Type correctness of the output safety model, for every rig.             *)
THEOREM SafetyTypeCorrect == Spec => []TypeOK
  <1>1. IInv => TypeOK
    BY DEF IInv
  <1> QED
    BY <1>1, Invariance, PTL

(* Comms-loss quieting (control_run): between two connections the output   *)
(* is disarmed and no stream is enabled.                                   *)
THEOREM LossDisarms == Spec => []UnattendedIsDisarmed
  <1>1. IInv => UnattendedIsDisarmed
    BY DEF IInv, Unattended
  <1> QED
    BY <1>1, Invariance, PTL

(* A disarm quiets a gated actuator within one tick, at every              *)
(* interleaving of the two cores' loads and stores.                        *)
THEOREM DisarmQuiets == Spec => []QuietAfterDisarmedTick
  <1>1. IInv => QuietAfterDisarmedTick
    BY DEF IInv, TickHistory
  <1> QED
    BY <1>1, Invariance, PTL

(* A gated actuator never leaves its window (safety_decide and the clamp). *)
THEOREM WindowHolds == Spec => []DrivenWithinWindow
  <1>1. IInv => DrivenWithinWindow
    BY DEF IInv, TickHistory
  <1> QED
    BY <1>1, Invariance, PTL

(* An arm that races a faulty tick never masks the fault.                  *)
THEOREM FaultsLatch == Spec => []FaultNotMasked
  <1>1. IInv => FaultNotMasked
    BY DEF IInv, TickHistory
  <1> QED
    BY <1>1, Invariance, PTL

(* A rig that reported quiescence has every channel at rest, however many  *)
(* channels it has and whatever core 0 does meanwhile.                     *)
THEOREM QuiescedRests == Spec => []QuiescedAtRest
  <1>1. IInv => QuiescedAtRest
    BY DEF IInv, RebootProgress, QuiescedAtRest
  <1> QED
    BY <1>1, Invariance, PTL

-----------------------------------------------------------------------------
(* The laser service *)

(* What the line carries.                                                  *)
Flags == {"L", "M", "H", "X", ">", "E", "fault"}
Items == [flags : Flags, m : Nat, in_range : BOOLEAN]
Prompt == Text(">")
Refusal == Text("E")

(* The receive buffer, the commands under way and the sensor.              *)
LineOK ==
    /\ rx \in Seq(Items) /\ Len(rx) <= RxCap
    /\ tx \in Seq({"GetUserLevel"} \cup {Commands[i] : i \in 1..5})
    /\ outputting \in BOOLEAN /\ booted \in BOOLEAN /\ disturbed \in BOOLEAN /\ overdue \in Nat
    /\ settings \subseteq Settings
    /\ next \in [m : Nat \ {0}, byte : 1..6]

(* The task: which attempt, rate or command a state counts, and the rate the *)
(* UART runs at.                                                           *)
TaskOK ==
    /\ pc \in {"stop", "stop_wait", "probe", "probe_wait", "command", "command_wait", "drain",
               "running"}
    /\ pc \in {"stop", "stop_wait"} => n \in 1..3
    /\ pc \in {"probe", "probe_wait"} => n \in 1..Bauds
    /\ pc \in {"command", "command_wait"} => n \in 1..5
    /\ pc \in {"drain", "running"} => n = 1
    /\ baud \in 1..Bauds /\ sensor_baud \in 1..Bauds /\ reply_error \in BOOLEAN
    /\ pc \in {"stop_wait", "command", "command_wait", "drain", "running"} => baud = Required
    /\ pc = "probe_wait" => baud = n

(* The sensor has accepted every setting before command i.                 *)
AcceptedBefore(i) ==
    /\ i >= 3 => sensor_baud = Required /\ "Measrate" \in settings
    /\ i >= 4 => "NoReduction" \in settings
    /\ i >= 5 => "DistanceOnly" \in settings

(* The only command under way, and every form its answer can take.         *)
Unanswered ==
    /\ rx = <<>> /\ ~reply_error /\ ~outputting
    /\ tx \in {<<>>, <<Commands[n]>>} /\ (tx # <<>> => sensor_baud = Required)
RefusedNow ==
    /\ sensor_baud = Required /\ tx = <<>> /\ ~outputting
    /\ \/ rx = <<Refusal, Prompt>> /\ ~reply_error
       \/ rx = <<Prompt>> /\ reply_error
AcceptedNow ==
    /\ sensor_baud = Required /\ tx = <<>> /\ ~reply_error /\ rx # <<>> /\ Head(rx) = Prompt
    /\ n < 5 => rx = <<Prompt>> /\ ~outputting /\ Commands[n] \in settings
    /\ n = 5 => outputting

(* If no answer was overdue, one command at a time is under way.           *)
Setup ==
    /\ pc \in {"command", "command_wait"} /\ n >= 2 => AcceptedBefore(n)
    /\ pc = "command" /\ n >= 2 => rx = <<>> /\ tx = <<>> /\ ~outputting
    /\ pc = "command_wait" /\ n >= 2 => Unanswered \/ RefusedNow \/ AcceptedNow
    /\ pc = "running" =>
         /\ tx = <<>> /\ sensor_baud = Required /\ outputting /\ settings = Settings

(* The number of the command that is answered next, overdue answers first. *)
Due == IF pc = "command" THEN n - Len(tx) ELSE n + 1 - Len(tx)

(* c numbers the items of s by the command whose answer they belong to, k  *)
(* being the command answered next.                                        *)
Numbering(c, s, k) ==
    /\ c \in [1..(Len(s) + 1) -> Int]
    /\ \A i \in 1..Len(s) : c[i + 1] = IF s[i].flags = ">" THEN c[i] + 1 ELSE c[i]
    /\ c[Len(s) + 1] = k

(* The prompt that ends the refusal of a setting follows its error code,   *)
(* which error tells if it has been read.                                  *)
Marked(c, s, error, accepted) ==
    \A i \in 1..Len(s) :
      s[i].flags = ">" /\ c[i] \in 2..4 /\ Commands[c[i]] \notin accepted =>
        IF i = 1 THEN error ELSE s[i - 1].flags = "E"

(* What the numbers tell: the task is ahead of the answers by no more than *)
(* was overdue, and the settings whose answers it has read are accepted.   *)
Numbered(c) ==
    /\ Numbering(c, rx, Due)
    /\ c[1] + overdue >= n
    /\ \A j \in 2..4 : j < c[1] => Commands[j] \in settings
    /\ Marked(c, rx, pc = "command_wait" /\ reply_error, settings)
Sent == \A j \in 1..Len(tx) : Due + j >= 3 => tx[j] = Commands[Due + j - 1]

(* A sensor that has not booted says nothing.                              *)
Asleep ==
    ~booted => pc \in {"stop", "stop_wait", "probe", "probe_wait"} /\ tx = <<>> /\ rx = <<>>

(* A sensor at another rate says nothing the task understands.             *)
Garbled ==
    sensor_baud # Required =>
      /\ pc # "running"
      /\ pc \in {"command", "command_wait"} /\ n >= 2 =>
           n = 2 /\ \A i \in 1..Len(rx) : rx[i].flags # ">"

(* The output has stopped when all that was sent before the drain is        *)
(* answered.                                                               *)
Stopping ==
    sensor_baud = Required /\ (pc = "drain" \/ (pc = "command_wait" /\ n = 1)) =>
      IF tx = <<>> THEN ~outputting ELSE tx[Len(tx)] = "OutputNone"

(* After the drain the answers come in the order of the commands.          *)
InOrder ==
    sensor_baud = Required /\ pc \in {"command", "command_wait"} /\ n >= 2 =>
      Sent /\ \E c : Numbered(c)

Accepted == pc = "running" => \A k \in 2..4 : k + overdue <= 5 => Commands[k] \in settings

Matched == Asleep /\ Garbled /\ Stopping /\ InOrder /\ Accepted

(* laser_run begins with a new parser and its counters at zero.            *)
Fresh ==
    pc # "running" =>
      /\ stage = 0 /\ acc = <<>> /\ synchronised = FALSE /\ clean_frames = 0 /\ destination = <<>>
      /\ frames_received = 0 /\ uart_errors = 0 /\ parse_errors = 0 /\ invalid_frames = 0
      /\ unexpected_values = 0 /\ sync_errors = 0 /\ last = <<>>

-----------------------------------------------------------------------------

(* The place of an item in its measurement, 0 for the report of a loss.    *)
Place(item) == CASE item.flags = "L" -> 1 [] item.flags = "M" -> 2 [] item.flags = "H" -> 3
                 [] OTHER -> 0
IsByte(item) == item \in Items /\ Place(item) # 0

(* Bytes follow each other as the sensor sends them: b of measurement l    *)
(* comes after a of measurement k.                                         *)
Follows(a, k, b, l) == IF a = 3 THEN b = 1 /\ l = k + 1 ELSE b = a + 1 /\ l = k

(* What comes after the first i items of s, when nx is still to be sent.   *)
PlaceAfter(s, i, nx) == IF i < Len(s) THEN Place(s[i + 1]) ELSE nx.byte
NumberAfter(s, i, nx) == IF i < Len(s) THEN s[i + 1].m ELSE nx.m

(* A stream of measurements with losses reported where they happened.      *)
Stream(s, nx) ==
    \A i \in 1..Len(s) :
      \/ s[i] = Fault
      \/ /\ IsByte(s[i])
         /\ \/ PlaceAfter(s, i, nx) = 0
            \/ Follows(Place(s[i]), s[i].m, PlaceAfter(s, i, nx), NumberAfter(s, i, nx))

(* The resynchronisations a parser at stage st has still to make when the  *)
(* byte at place b is the next.                                            *)
Pending(st, b) == IF st = 0 /\ b \in {2, 3} THEN 4 - b ELSE 0

(* What is received and not yet parsed, once the sensor has been started.  *)
Unparsed == IF pc = "running" THEN rx ELSE Tail(rx)
Started == pc = "running" \/ (pc = "command_wait" /\ n = 5 /\ AcceptedNow)

(* What the parser holds is the beginning of what is still to be parsed; a *)
(* parser that lost its place has been told so; errors already counted and *)
(* resynchronisations still owed are paid for by reported losses.          *)
Parsing(s) ==
    LET b == PlaceAfter(s, 0, next)
        k == NumberAfter(s, 0, next)
    IN  /\ next.byte \in 1..3
        /\ Stream(s, next)
        /\ stage \in 0..2
        /\ stage = 1 => \E a \in Nat : acc = <<a>> /\ (b = 0 \/ (b = 2 /\ k = a))
        /\ stage = 2 => \E a \in Nat : acc = <<a, a>> /\ (b = 0 \/ (b = 3 /\ k = a))
        /\ ~disturbed => b = stage + 1 /\ \A i \in 1..Len(s) : s[i] # Fault
        /\ synchronised => parse_errors + Pending(stage, b) <= 2 * uart_errors

(* The types of the parser and the counters, whatever is received.         *)
Counts ==
    /\ frames_received \in Nat /\ uart_errors \in Nat /\ parse_errors \in Nat
    /\ sync_errors \in Nat /\ invalid_frames \in Nat /\ unexpected_values \in Nat
    /\ synchronised \in BOOLEAN /\ clean_frames \in 0..SyncFrames /\ stage \in 0..2
    /\ ~synchronised => clean_frames < SyncFrames

(* What the counters say of the line, and what was published.              *)
Tallies ==
    /\ unexpected_values = 0
    /\ ~synchronised => parse_errors = 0 /\ uart_errors = 0
    /\ ~disturbed => sync_errors = 0 /\ uart_errors = 0 /\ parse_errors = 0
    /\ destination = <<>> \/ \E a \in Nat : destination = <<a, a, a>>

(* The parser is where the last two bytes leave it.                        *)
Tracked ==
    /\ last \in Seq(Items) /\ Len(last) <= 2
    /\ last # <<>> /\ last[Len(last)].flags = "L" => stage = 1 /\ acc = <<last[Len(last)].m>>
    /\ Len(last) = 2 /\ last[1].flags = "L" /\ last[2].flags = "M" =>
         stage = 2 /\ acc = <<last[1].m, last[2].m>>

(* Once the sensor has been started its answer is followed by measurements. *)
Reception == Started => Parsing(Unparsed)

(* The inductive invariant.  Nothing is left over from before the drain    *)
(* when no answer was overdue as it ended.                                 *)
LaserInv ==
    /\ LineOK /\ TaskOK /\ Matched /\ Fresh /\ Counts /\ Tracked
    /\ overdue = 0 /\ sensor_baud = Required => Setup /\ Reception /\ Tallies

-----------------------------------------------------------------------------
(* The line *)

(* The three texts are items and differ.                                   *)
LEMMA ItemsKnown ==
    /\ Fault \in Items /\ Prompt \in Items /\ Refusal \in Items
    /\ Fault.flags = "fault" /\ Prompt.flags = ">" /\ Refusal.flags = "E"
    /\ Prompt # Fault /\ Refusal # Fault /\ Prompt # Refusal
  <1>1. Fault \in Items /\ Prompt \in Items /\ Refusal \in Items
    BY DEF Items, Flags, Fault, Prompt, Refusal, Text
  <1>2. Fault.flags = "fault" /\ Prompt.flags = ">" /\ Refusal.flags = "E"
    BY DEF Fault, Prompt, Refusal, Text
  <1> QED
    BY <1>1, <1>2

(* A loss is reported in its place, once for a run of lost bytes.          *)
LEMMA LoseAdds ==
    ASSUME NEW s \in Seq(Items)
    PROVE  /\ Lose(s) \in Seq(Items) /\ Lose(s) # <<>>
           /\ Len(Lose(s)) >= Len(s) /\ Len(Lose(s)) <= Len(s) + 1
           /\ \A i \in 1..Len(s) : Lose(s)[i] = s[i]
           /\ \A i \in 1..Len(Lose(s)) : i > Len(s) => Lose(s)[i] = Fault
           /\ Lose(s)[Len(Lose(s))] = Fault
           /\ s # <<>> => Head(Lose(s)) = Head(s)
  <1>1. CASE s # <<>> /\ Last(s) = Fault
    BY <1>1 DEF Lose, Last
  <1>2. CASE ~(s # <<>> /\ Last(s) = Fault)
    BY <1>2, ItemsKnown DEF Lose
  <1> QED
    BY <1>1, <1>2

(* configure's five commands.                                              *)
LEMMA CommandsKnown ==
    /\ Commands[1] = "OutputNone" /\ Commands[2] = "Measrate" /\ Commands[3] = "NoReduction"
    /\ Commands[4] = "DistanceOnly" /\ Commands[5] = "OutputRs422"
  BY DEF Commands

(* One and two items.                                                      *)
LEMMA Short ==
    ASSUME NEW a, NEW b
    PROVE  /\ Head(<<a>>) = a /\ Tail(<<a>>) = <<>> /\ Head(<<a, b>>) = a /\ Tail(<<a, b>>) = <<b>>
           /\ Len(<<a>>) = 1 /\ Len(<<a, b>>) = 2 /\ <<a>> # <<>> /\ <<a, b>> # <<>>
  OBVIOUS

(* Appending to a sequence of one or two.                                  *)
LEMMA Longer ==
    ASSUME NEW a \in Nat, NEW b \in Nat, NEW c \in Nat
    PROVE  Append(<<a>>, b) = <<a, b>> /\ Append(<<a, b>>, c) = <<a, b, c>>
  <1>1. <<a>> \in Seq(Nat) /\ <<a, b>> \in Seq(Nat) /\ <<a, b, c>> \in Seq(Nat)
    OBVIOUS
  <1>2. /\ Len(<<a>>) = 1 /\ Len(<<a, b>>) = 2 /\ Len(<<a, b, c>>) = 3
    OBVIOUS
  <1>3. Append(<<a>>, b) = <<a, b>>
    <2> DEFINE s == Append(<<a>>, b)
    <2>1. s \in Seq(Nat) /\ Len(s) = 2 /\ s[1] = a /\ s[2] = b
      BY <1>1, <1>2
    <2> HIDE DEF s
    <2>2. \A i \in 1..Len(s) : s[i] = <<a, b>>[i]
      BY <2>1
    <2>3. s = <<a, b>>
      BY <1>1, <1>2, <2>1, <2>2, SeqEqual
    <2> QED
      BY <2>3 DEF s
  <1>4. Append(<<a, b>>, c) = <<a, b, c>>
    <2> DEFINE s == Append(<<a, b>>, c)
    <2>1. s \in Seq(Nat) /\ Len(s) = 3 /\ s[1] = a /\ s[2] = b /\ s[3] = c
      BY <1>1, <1>2
    <2> HIDE DEF s
    <2>2. \A i \in 1..Len(s) : s[i] = <<a, b, c>>[i]
      BY <2>1
    <2>3. s = <<a, b, c>>
      BY <1>1, <1>2, <2>1, <2>2, SeqEqual
    <2> QED
      BY <2>3 DEF s
  <1> QED
    BY <1>3, <1>4

Names == {"GetUserLevel"} \cup {Commands[i] : i \in 1..5}

(* Where the outcome of a wait leads.                                      *)
LEMMA OutcomeLeads ==
    ASSUME TaskOK, NEW r \in {"ok", "error", "none"}, Outcome(r)
    PROVE  /\ pc' \in {"stop", "probe", "command", "drain", "running"}
           /\ pc' = "stop" => n' \in 1..3
           /\ pc' = "probe" => n' \in 1..Bauds
           /\ pc' = "command" =>
                \/ n' = 1 /\ pc \in {"stop", "stop_wait"} /\ r # "none"
                \/ n' = 1 /\ pc \in {"probe", "probe_wait"} /\ n = Required /\ r # "none"
                \/ n' \in 3..5 /\ pc \in {"command", "command_wait"} /\ n' = n + 1 /\ r = "ok"
           /\ pc' = "drain" => n' = 1 /\ pc \in {"command", "command_wait"} /\ r = "ok"
           /\ pc' = "running" => n' = 1 /\ pc \in {"command", "command_wait"} /\ n = 5 /\ r = "ok"
  <1> USE LaserAssumption
  <1>1. CASE pc \in {"stop", "stop_wait"}
    BY <1>1 DEF Outcome, NextProbe, Go, TaskOK
  <1>2. CASE pc \in {"probe", "probe_wait"}
    BY <1>2 DEF Outcome, NextProbe, Go, TaskOK
  <1>3. CASE pc \in {"command", "command_wait"}
    BY <1>3 DEF Outcome, NextProbe, Go, TaskOK
  <1> QED
    BY <1>1, <1>2, <1>3 DEF Outcome

-----------------------------------------------------------------------------
(* The task *)

(* Every step keeps the task's counts within its tables.                   *)
LEMMA TaskStep == TaskOK /\ LineOK /\ [LaserNext]_laser_vars => TaskOK'
  <1> SUFFICES ASSUME TaskOK, LineOK, [LaserNext]_laser_vars PROVE TaskOK'
    OBVIOUS
  <1> USE LaserAssumption
  <1>0. Required \in 1..Bauds
    BY DEF Required
  <1>1. ASSUME UNCHANGED <<task, sensor_baud>> PROVE TaskOK'
    BY <1>1 DEF task, TaskOK
  <1>2. CASE Boot \/ Busy \/ Drain \/ Receive \/ UNCHANGED laser_vars
    BY <1>1, <1>2 DEF Boot, Busy, Drain, Receive, laser_vars, sensor
  <1>3. ASSUME NEW ok \in BOOLEAN, Answer(ok) PROVE TaskOK'
    BY <1>1, <1>3 DEF Answer
  <1>4. ASSUME NEW in_range \in BOOLEAN, NEW lost \in BOOLEAN, Emit(in_range, lost) PROVE TaskOK'
    BY <1>1, <1>4 DEF Emit
  <1>5. CASE Stop
    BY <1>0, <1>5 DEF Stop, Go, Send, sensor, TaskOK
  <1>6. CASE Probe
    BY <1>6 DEF Probe, Go, Send, sensor, TaskOK
  <1>7. CASE Command
    BY <1>7 DEF Command, Go, Send, sensor, TaskOK
  <1>8. CASE DrainQuiet
    BY <1>8 DEF DrainQuiet, DrainEnds, Go, sensor, TaskOK
  <1>9. ASSUME NEW r \in {"ok", "error", "none"}, Outcome(r), baud' \in 1..Bauds,
               UNCHANGED sensor_baud, reply_error' \in BOOLEAN,
               pc' \in {"command", "drain", "running"} => baud' = Required
        PROVE  TaskOK'
    BY <1>9, OutcomeLeads DEF TaskOK
  <1>10. CASE ReadReply
    <2>1. Waiting /\ UNCHANGED <<baud, sensor_baud>>
      BY <1>10 DEF ReadReply, sensor
    <2>2. ASSUME NEW r \in {"ok", "error", "none"}, Outcome(r)
          PROVE  pc' \in {"command", "drain", "running"} => baud' = Required
      BY <2>1, <2>2, OutcomeLeads DEF Waiting, TaskOK
    <2>3. CASE Outcome("none") /\ UNCHANGED reply_error
      BY <1>9, <2>1, <2>2, <2>3 DEF TaskOK
    <2>4. CASE Outcome(IF reply_error THEN "error" ELSE "ok") /\ UNCHANGED reply_error
      <3>1. CASE reply_error
        BY <1>9, <2>1, <2>2, <2>4, <3>1 DEF TaskOK
      <3>2. CASE ~reply_error
        BY <1>9, <2>1, <2>2, <2>4, <3>2 DEF TaskOK
      <3> QED
        BY <3>1, <3>2
    <2>5. CASE UNCHANGED <<pc, n>> /\ reply_error' \in BOOLEAN
      BY <2>1, <2>5 DEF TaskOK
    <2> QED
      BY <1>10, <2>3, <2>4, <2>5 DEF ReadReply, TaskOK
  <1>11. CASE Timeout
    BY <1>9, <1>11, OutcomeLeads DEF Timeout, Waiting, sensor, TaskOK
  <1>12. CASE WriteFails
    <2>1. baud' \in 1..Bauds
      <3>1. CASE pc = "stop"
        BY <1>0, <1>12, <3>1 DEF WriteFails
      <3>2. CASE pc = "probe"
        BY <1>12, <3>2 DEF WriteFails, TaskOK
      <3>3. CASE pc = "command"
        BY <1>12, <3>3 DEF WriteFails, TaskOK
      <3> QED
        BY <1>12, <3>1, <3>2, <3>3 DEF WriteFails
    <2>2. pc' \notin {"command", "drain", "running"}
      BY <1>12, OutcomeLeads DEF WriteFails
    <2> QED
      BY <1>9, <1>12, <2>1, <2>2 DEF WriteFails, sensor, TaskOK
  <1> QED
    BY <1>2, <1>3, <1>4, <1>5, <1>6, <1>7, <1>8, <1>10, <1>11, <1>12 DEF LaserNext, Task

-----------------------------------------------------------------------------
(* The line and the sensor *)

(* Every step keeps what is on the line well formed.                       *)
LEMMA LineStep == TaskOK /\ LineOK /\ [LaserNext]_laser_vars => LineOK'
  <1> SUFFICES ASSUME TaskOK, LineOK, [LaserNext]_laser_vars PROVE LineOK'
    OBVIOUS
  <1> USE LaserAssumption
  <1>1. ASSUME UNCHANGED <<sensor, tx>>, disturbed' \in BOOLEAN, overdue' \in Nat,
               rx' = rx \/ (rx # <<>> /\ rx' = Tail(rx))
        PROVE  LineOK'
    <2>1. rx' \in Seq(Items) /\ Len(rx') <= RxCap
      <3>1. rx \in Seq(Items) /\ Len(rx) <= RxCap /\ RxCap \in Nat
        BY DEF LineOK
      <3>2. CASE rx # <<>> /\ rx' = Tail(rx)
        <4>1. Tail(rx) \in Seq(Items) /\ Len(Tail(rx)) = Len(rx) - 1 /\ Len(rx) \in Nat
          BY <3>1, <3>2
        <4> QED
          BY <3>1, <3>2, <4>1
      <3> QED
        BY <1>1, <3>1, <3>2
    <2> QED
      BY <1>1, <2>1 DEF sensor, LineOK
  <1>2. CASE Busy \/ Drain \/ DrainQuiet \/ Receive \/ ReadReply \/ Timeout \/ WriteFails
             \/ UNCHANGED laser_vars
    <2>1. CASE DrainQuiet
      <3>1. disturbed' \in BOOLEAN
        BY <2>1, Zenon DEF DrainQuiet, DrainEnds
      <3>2. overdue' \in Nat
        BY <2>1 DEF DrainQuiet, DrainEnds, LineOK
      <3> QED
        BY <1>1, <2>1, <3>1, <3>2 DEF DrainQuiet, DrainEnds
    <2>2. CASE ~DrainQuiet
      BY <1>1, <1>2, <2>2 DEF Busy, Drain, Receive, ReadReply, Timeout, WriteFails, laser_vars,
                              history, LineOK
    <2> QED
      BY <2>1, <2>2
  <1>3. CASE Boot
    BY <1>3 DEF Boot, history, LineOK
  <1>4. ASSUME NEW name \in Names, NEW rate, Send(name, rate) PROVE LineOK'
    BY <1>4 DEF Send, sensor, history, LineOK, Names
  <1>5. CASE Stop \/ Probe \/ Command
    <2>1. CASE Stop
      BY <1>4, <2>1, CommandsKnown DEF Stop, Names
    <2>2. CASE Probe
      BY <1>4, <2>2 DEF Probe, Names
    <2>3. CASE Command
      BY <1>4, <2>3 DEF Command, Names, TaskOK
    <2> QED
      BY <1>5, <2>1, <2>2, <2>3
  <1>6. ASSUME NEW ok \in BOOLEAN, Answer(ok) PROVE LineOK'
    <2> DEFINE text == IF ok THEN <<Text(">")>> ELSE <<Text("E"), Text(">")>>
    <2>1. text \in Seq(Items) /\ Len(text) \in 1..2
      BY ItemsKnown DEF Prompt, Refusal
    <2>2. rx' \in Seq(Items) /\ Len(rx') <= RxCap
      BY <1>6, <2>1, LoseAdds DEF Answer, LineOK
    <2>3. tx' \in Seq(Names)
      BY <1>6 DEF Answer, LineOK, Names
    <2>4. outputting' \in BOOLEAN /\ settings' \subseteq Settings
      BY <1>6 DEF Answer, LineOK
    <2>5. next' \in [m : Nat \ {0}, byte : 1..6]
      <3>1. next' = next \/ next' = [next EXCEPT !.byte = 1]
        BY <1>6 DEF Answer
      <3>2. next \in [m : Nat \ {0}, byte : 1..6]
        BY DEF LineOK
      <3> QED
        BY <3>1, <3>2
    <2> QED
      BY <1>6, <2>2, <2>3, <2>4, <2>5 DEF Answer, history, LineOK, Names
  <1>7. ASSUME NEW in_range \in BOOLEAN, NEW lost \in BOOLEAN, Emit(in_range, lost) PROVE LineOK'
    <2> DEFINE byte == [flags |-> <<"L", "M", "H", "L", "M", "X">>[next.byte], m |-> next.m,
                        in_range |-> in_range]
    <2>1. byte \in Items
      <3>1. next.byte \in 1..6 /\ next.m \in Nat
        BY DEF LineOK
      <3>2. <<"L", "M", "H", "L", "M", "X">>[next.byte] \in Flags
        BY <3>1 DEF Flags
      <3> QED
        BY <3>1, <3>2 DEF Items
    <2>2. rx' \in Seq(Items) /\ Len(rx') <= RxCap
      <3> HIDE DEF byte
      <3>1. rx' = Lose(rx) \/ rx' = Append(rx, byte)
        BY <1>7 DEF Emit, byte
      <3>2. rx \in Seq(Items) /\ Len(rx) < RxCap
        BY <1>7 DEF Emit, LineOK
      <3> QED
        BY <2>1, <3>1, <3>2, LoseAdds
    <2>3. disturbed' \in BOOLEAN
      BY <1>7 DEF Emit, LineOK
    <2>4. next.m \in Nat \ {0} /\ next.byte \in 1..6
      BY DEF LineOK
    <2>5. next' \in [m : Nat \ {0}, byte : 1..6]
      <3> DEFINE width == IF "DistanceOnly" \in settings THEN 3 ELSE 6
      <3>1. width \in {3, 6}
            /\ next' = IF next.byte >= width THEN [m |-> next.m + 1, byte |-> 1]
                                             ELSE [next EXCEPT !.byte = @ + 1]
        BY <1>7 DEF Emit
      <3>2. next \in [m : Nat \ {0}, byte : 1..6]
        BY DEF LineOK
      <3> HIDE DEF width
      <3> QED
        BY <2>4, <3>1, <3>2
    <2> QED
      BY <1>7, <2>2, <2>3, <2>5 DEF Emit, LineOK
  <1> QED
    BY <1>2, <1>3, <1>5, <1>6, <1>7 DEF LaserNext, Task

-----------------------------------------------------------------------------
(* Configuration *)

(* After the drain a prompt answers the command that is waited for: a late *)
(* answer to an earlier command was discarded, and a retry drains again.   *)
LEMMA SetupStep ==
    TaskOK /\ LineOK /\ Setup /\ [LaserNext]_laser_vars /\ ~DrainQuiet => Setup'
  <1> SUFFICES ASSUME TaskOK, LineOK, Setup, [LaserNext]_laser_vars, ~DrainQuiet PROVE Setup'
    OBVIOUS
  <1> USE CommandsKnown
  <1>1. ASSUME UNCHANGED <<pc, n, reply_error, rx, tx, sensor_baud, outputting, settings>>
        PROVE  Setup'
    BY <1>1 DEF Setup, AcceptedBefore, Unanswered, RefusedNow, AcceptedNow
  <1>2. CASE Boot \/ Busy \/ UNCHANGED laser_vars
    BY <1>1, <1>2 DEF Boot, Busy, laser_vars, task, sensor
  <1>3. ASSUME pc' \in {"stop", "stop_wait", "probe", "probe_wait", "drain"}
                 \/ (pc' \in {"command", "command_wait"} /\ n' = 1)
        PROVE  Setup'
    BY <1>3 DEF Setup
  <1>4. CASE Stop \/ Probe \/ Drain \/ WriteFails
    <2>1. CASE WriteFails
      BY <1>3, <2>1, OutcomeLeads DEF WriteFails
    <2> QED
      BY <1>3, <1>4, <2>1 DEF Stop, Probe, Drain, Go, task
  <1>5. CASE Command
    <2>1. CASE n = 1
      BY <1>3, <1>5, <2>1 DEF Command, Go
    <2>2. CASE n # 1
      <3>1. n \in 2..5 /\ pc = "command"
        BY <1>5, <2>2 DEF Command, TaskOK
      <3>2. /\ pc' = "command_wait" /\ n' = n /\ ~reply_error' /\ rx' = rx
            /\ UNCHANGED <<sensor_baud, outputting, settings>>
            /\ tx' = IF booted /\ baud = sensor_baud THEN Append(tx, Commands[n]) ELSE tx
        BY <1>5 DEF Command, Go, Send, sensor
      <3>3. rx = <<>> /\ tx = <<>> /\ ~outputting /\ AcceptedBefore(n) /\ baud = Required
        BY <3>1 DEF Setup, TaskOK
      <3>4. Unanswered'
        BY <3>2, <3>3 DEF Unanswered
      <3> QED
        BY <3>1, <3>2, <3>3, <3>4 DEF Setup, AcceptedBefore
    <2> QED
      BY <2>1, <2>2
  <1>7. CASE Timeout
    BY <1>3, <1>7, OutcomeLeads DEF Timeout
  <1>8. CASE ReadReply
    <2>1. Waiting /\ rx # <<>> /\ rx' = Tail(rx)
          /\ UNCHANGED <<tx, sensor_baud, outputting, settings>>
      BY <1>8 DEF ReadReply, sensor
    <2>2. CASE ~(pc = "command_wait" /\ n >= 2)
      <3>1. ASSUME NEW r \in {"ok", "error", "none"}, Outcome(r) PROVE Setup'
        <4>1. pc' # "running" /\ (pc' = "command" => n' = 1)
          BY <2>1, <2>2, <3>1, OutcomeLeads DEF Waiting, TaskOK
        <4> QED
          BY <1>3, <3>1, <4>1, OutcomeLeads
      <3>2. CASE UNCHANGED <<pc, n>>
        BY <1>3, <2>1, <2>2, <3>2 DEF Waiting, TaskOK
      <3> QED
        BY <1>8, <3>1, <3>2 DEF ReadReply
    <2>3. CASE pc = "command_wait" /\ n >= 2
      <3>1. (RefusedNow \/ AcceptedNow) /\ AcceptedBefore(n) /\ n \in 2..5
        BY <2>1, <2>3 DEF Setup, Unanswered, TaskOK
      <3>2. CASE RefusedNow /\ ~reply_error
        <4>0. rx = <<Refusal, Prompt>>
          BY <3>2, Zenon DEF RefusedNow
        <4>1. Head(rx) = Refusal /\ Tail(rx) = <<Prompt>>
          BY <4>0, Short
        <4>2. reply_error' = TRUE /\ UNCHANGED <<pc, n>>
          BY <1>8, <4>1, ItemsKnown DEF ReadReply
        <4>3. RefusedNow'
          BY <2>1, <3>2, <4>1, <4>2 DEF RefusedNow
        <4> QED
          BY <2>1, <2>3, <3>1, <4>2, <4>3 DEF Setup, AcceptedBefore
      <3>3. CASE RefusedNow /\ reply_error
        <4>1. Head(rx) = Prompt
          BY <3>3 DEF RefusedNow
        <4>2. Outcome("error")
          BY <1>8, <3>3, <4>1, ItemsKnown DEF ReadReply
        <4> QED
          BY <1>3, <2>3, <4>2, OutcomeLeads
      <3>4. CASE AcceptedNow
        <4>1. Head(rx) = Prompt /\ ~reply_error
          BY <3>4 DEF AcceptedNow
        <4>2. Outcome("ok")
          BY <1>8, <4>1, ItemsKnown DEF ReadReply
        <4>3. CASE n = 5
          <5>1. pc' = "running"
            BY <2>3, <4>2, <4>3 DEF Outcome, Go
          <5>2. settings = Settings
            <6>1. {"Measrate", "NoReduction", "DistanceOnly"} \subseteq settings
              BY <3>1, <4>3 DEF AcceptedBefore
            <6> QED
              BY <6>1, Zenon DEF LineOK, Settings
          <5> QED
            BY <2>1, <3>4, <4>3, <5>1, <5>2 DEF Setup, AcceptedNow
        <4>4. CASE n \in 2..4
          <5>1. pc' = "command" /\ n' = n + 1
            BY <2>3, <4>2, <4>4 DEF Outcome, Go
          <5>0. rx = <<Prompt>>
            BY <3>4, <4>4 DEF AcceptedNow
          <5>2. rx' = <<>> /\ tx' = <<>> /\ ~outputting' /\ Commands[n] \in settings'
                /\ sensor_baud' = Required
            BY <2>1, <3>4, <4>4, <5>0, Short DEF AcceptedNow
          <5> QED
            BY <2>1, <3>1, <4>4, <5>1, <5>2 DEF Setup, AcceptedBefore
        <4> QED
          BY <3>1, <4>3, <4>4
      <3> QED
        BY <3>1, <3>2, <3>3, <3>4 DEF RefusedNow
    <2> QED
      BY <2>2, <2>3
  <1>9. CASE Receive
    BY <1>9 DEF Receive, task, sensor, Setup
  <1>10. ASSUME NEW ok \in BOOLEAN, Answer(ok) PROVE Setup'
    <2>1. tx # <<>> /\ tx' = Tail(tx) /\ UNCHANGED <<pc, n, baud, reply_error, sensor_baud>>
      BY <1>10 DEF Answer, task
    <2>2. CASE ~(pc = "command_wait" /\ n >= 2)
      BY <1>3, <2>1, <2>2 DEF Setup, TaskOK
    <2>3. CASE pc = "command_wait" /\ n >= 2
      <3>1. Unanswered /\ AcceptedBefore(n) /\ n \in 2..5 /\ baud = Required
        BY <2>1, <2>3 DEF Setup, RefusedNow, AcceptedNow, TaskOK
      <3>2. tx = <<Commands[n]>> /\ sensor_baud = Required /\ tx' = <<>> /\ Head(tx) = Commands[n]
        <4>1. tx = <<Commands[n]>> /\ sensor_baud = Required
          BY <2>1, <3>1 DEF Unanswered
        <4> QED
          BY <2>1, <4>1, Short
      <3>3. rx = <<>> /\ ~reply_error /\ ~outputting
        BY <3>1 DEF Unanswered
      <3>4. settings \subseteq settings'
        BY <1>10 DEF Answer
      <3>5. AcceptedBefore(n)'
        BY <2>1, <3>1, <3>4 DEF AcceptedBefore
      <3>6. CASE ~ok
        <4>1. rx' = <<Refusal, Prompt>> /\ outputting' = outputting
          BY <1>10, <3>1, <3>2, <3>3, <3>6 DEF Answer, Refusal, Prompt
        <4>2. RefusedNow'
          BY <2>1, <3>2, <3>3, <4>1 DEF RefusedNow
        <4> QED
          BY <2>1, <2>3, <3>5, <4>2 DEF Setup
      <3>7. CASE ok
        <4>1. rx' = <<Prompt>>
          BY <1>10, <3>1, <3>2, <3>3, <3>7 DEF Answer, Prompt
        <4>2. CASE n = 5
          <5>1. outputting'
            BY <1>10, <3>2, <3>7, <4>2 DEF Answer
          <5>2. AcceptedNow'
            BY <2>1, <3>2, <3>3, <4>1, <4>2, <5>1 DEF AcceptedNow
          <5> QED
            BY <2>1, <2>3, <3>5, <5>2 DEF Setup
        <4>3. CASE n \in 2..4
          <5>1. Commands[n] \in Settings /\ Commands[n] \notin {"OutputNone", "OutputRs422"}
            BY <4>3 DEF Settings
          <5>2. outputting' = outputting /\ Commands[n] \in settings'
            BY <1>10, <3>2, <3>7, <5>1 DEF Answer
          <5>3. AcceptedNow'
            BY <2>1, <3>2, <3>3, <4>1, <4>3, <5>2 DEF AcceptedNow
          <5> QED
            BY <2>1, <2>3, <3>5, <5>3 DEF Setup
        <4> QED
          BY <3>1, <4>2, <4>3
      <3> QED
        BY <3>6, <3>7
    <2> QED
      BY <2>2, <2>3
  <1>11. ASSUME NEW in_range \in BOOLEAN, NEW lost \in BOOLEAN, Emit(in_range, lost) PROVE Setup'
    <2>1. outputting /\ UNCHANGED <<pc, n, reply_error, tx, sensor_baud, outputting, settings>>
      BY <1>11 DEF Emit, task
    <2>2. rx # <<>> => rx' # <<>> /\ Head(rx') = Head(rx)
      <3> DEFINE byte == [flags |-> <<"L", "M", "H", "L", "M", "X">>[next.byte], m |-> next.m,
                          in_range |-> in_range]
      <3>1. rx' = Lose(rx) \/ rx' = Append(rx, byte)
        BY <1>11 DEF Emit
      <3> HIDE DEF byte
      <3> QED
        BY <3>1, LoseAdds DEF LineOK
    <2> QED
      BY <2>1, <2>2 DEF Setup, AcceptedBefore, Unanswered, RefusedNow, AcceptedNow, TaskOK
  <1> QED
    BY <1>2, <1>4, <1>5, <1>7, <1>8, <1>9, <1>10, <1>11 DEF LaserNext, Task

-----------------------------------------------------------------------------
(* The answers and the commands *)

(* Only the end of the drain tells what is overdue; the sensor keeps its   *)
(* rate.                                                                   *)
LEMMA OverdueKept ==
    [LaserNext]_laser_vars => (DrainQuiet \/ overdue' = overdue) /\ sensor_baud' = sensor_baud
  BY DEF LaserNext, Task, Boot, Busy, Answer, Emit, Stop, Probe, Command, Send, ReadReply, Timeout,
         WriteFails, Drain, DrainQuiet, DrainEnds, Receive, sensor, history, laser_vars

(* The numbers of what is left when the first item has been read.          *)
LEMMA NumberingTail ==
    ASSUME NEW s \in Seq(Items), s # <<>>, NEW c, NEW k \in Int, Numbering(c, s, k)
    PROVE  \E d : /\ Numbering(d, Tail(s), k)
                  /\ \A i \in 1..Len(s) : d[i] = c[i + 1]
  <1> DEFINE d == [i \in 1..Len(s) |-> c[i + 1]]
  <1>1. /\ Len(s) \in Nat \ {0} /\ Tail(s) \in Seq(Items) /\ Len(Tail(s)) = Len(s) - 1
        /\ \A i \in 1..Len(Tail(s)) : Tail(s)[i] = s[i + 1]
    OBVIOUS
  <1>2. c \in [1..(Len(s) + 1) -> Int]
    BY DEF Numbering
  <1>3. d \in [1..Len(s) -> Int] /\ \A i \in 1..Len(s) : d[i] = c[i + 1]
    BY <1>1, <1>2
  <1> HIDE DEF d
  <1>4. \A i \in 1..Len(Tail(s)) : d[i + 1] = IF Tail(s)[i].flags = ">" THEN d[i] + 1 ELSE d[i]
    <2> SUFFICES ASSUME NEW i \in 1..Len(Tail(s))
                 PROVE  d[i + 1] = IF Tail(s)[i].flags = ">" THEN d[i] + 1 ELSE d[i]
      OBVIOUS
    <2>1. i \in 1..Len(s) /\ i + 1 \in 1..Len(s)
      BY <1>1
    <2>2. d[i] = c[i + 1] /\ d[i + 1] = c[i + 1 + 1]
      BY <1>3, <2>1
    <2>3. c[i + 1 + 1] = IF s[i + 1].flags = ">" THEN c[i + 1] + 1 ELSE c[i + 1]
      BY <2>1 DEF Numbering
    <2> QED
      BY <1>1, <2>2, <2>3
  <1>5. d[Len(Tail(s)) + 1] = k
    <2>1. d[Len(s)] = c[Len(s) + 1]
      BY <1>1, <1>3
    <2> QED
      BY <1>1, <2>1 DEF Numbering
  <1>6. Numbering(d, Tail(s), k)
    BY <1>1, <1>3, <1>4, <1>5 DEF Numbering
  <1> QED
    BY <1>3, <1>6

(* The numbers when one more item is received.                             *)
LEMMA NumberingAppend ==
    ASSUME NEW s \in Seq(Items), NEW e \in Items, NEW c, NEW k \in Int, Numbering(c, s, k)
    PROVE  \E d : /\ Numbering(d, Append(s, e), IF e.flags = ">" THEN k + 1 ELSE k)
                  /\ \A i \in 1..(Len(s) + 1) : d[i] = c[i]
  <1> DEFINE t == Append(s, e)
             l == IF e.flags = ">" THEN k + 1 ELSE k
             d == [i \in 1..(Len(s) + 2) |-> IF i <= Len(s) + 1 THEN c[i] ELSE l]
  <1>1. /\ Len(s) \in Nat /\ t \in Seq(Items) /\ Len(t) = Len(s) + 1
        /\ \A i \in 1..Len(s) : t[i] = s[i]
        /\ t[Len(s) + 1] = e
    OBVIOUS
  <1>2. c \in [1..(Len(s) + 1) -> Int] /\ l \in Int
    BY DEF Numbering
  <1> HIDE DEF l, t
  <1>3. /\ d \in [1..(Len(s) + 2) -> Int] /\ \A i \in 1..(Len(s) + 1) : d[i] = c[i]
        /\ d[Len(s) + 2] = l
    BY <1>1, <1>2
  <1> HIDE DEF d
  <1>4. \A i \in 1..Len(t) : d[i + 1] = IF t[i].flags = ">" THEN d[i] + 1 ELSE d[i]
    <2> SUFFICES ASSUME NEW i \in 1..Len(t)
                 PROVE  d[i + 1] = IF t[i].flags = ">" THEN d[i] + 1 ELSE d[i]
      OBVIOUS
    <2>1. CASE i \in 1..Len(s)
      <3>1. i + 1 \in 1..(Len(s) + 1) /\ i \in 1..(Len(s) + 1)
        BY <1>1, <2>1
      <3>2. c[i + 1] = IF s[i].flags = ">" THEN c[i] + 1 ELSE c[i]
        BY <2>1 DEF Numbering
      <3> QED
        BY <1>1, <1>3, <2>1, <3>1, <3>2
    <2>2. CASE i = Len(s) + 1
      <3>1. t[i] = e /\ d[i] = k /\ d[i + 1] = l
        <4>1. i + 1 = Len(s) + 2 /\ i \in 1..(Len(s) + 1)
          BY <1>1, <2>2
        <4>2. c[i] = k
          BY <2>2 DEF Numbering
        <4> QED
          BY <1>1, <1>3, <2>2, <4>1, <4>2
      <3> QED
        BY <3>1 DEF l
    <2> QED
      BY <1>1, <2>1, <2>2
  <1>5. Numbering(d, t, l)
    BY <1>1, <1>3, <1>4 DEF Numbering
  <1> QED
    BY <1>3, <1>5 DEF t, l

(* The first byte comes after Boot.                                        *)
LEMMA AsleepStep == TaskOK /\ Asleep /\ [LaserNext]_laser_vars => Asleep'
  <1> SUFFICES ASSUME TaskOK, Asleep, [LaserNext]_laser_vars, ~booted' PROVE Asleep'
    BY DEF Asleep
  <1>1. ~booted
    BY DEF LaserNext, Task, Boot, Busy, Answer, Emit, Stop, Probe, Command, Send, ReadReply, Timeout,
           WriteFails, Drain, DrainQuiet, DrainEnds, Receive, sensor, laser_vars
  <1>2. pc \in {"stop", "stop_wait", "probe", "probe_wait"} /\ tx = <<>> /\ rx = <<>>
    BY <1>1 DEF Asleep
  <1>3. CASE Timeout \/ WriteFails
    <2>1. Outcome("none") /\ UNCHANGED <<rx, tx>>
      BY <1>3 DEF Timeout, WriteFails
    <2>2. pc' \in {"stop", "probe"}
      BY <1>2, <2>1, OutcomeLeads
    <2> QED
      BY <1>2, <2>1, <2>2 DEF Asleep
  <1>4. CASE Stop \/ Probe
    BY <1>1, <1>2, <1>4 DEF Stop, Probe, Go, Send, Asleep
  <1>5. CASE UNCHANGED laser_vars
    BY <1>1, <1>2, <1>5 DEF laser_vars, task, Asleep
  <1> QED
    BY <1>1, <1>2, <1>3, <1>4, <1>5
       DEF LaserNext, Task, Boot, Busy, Answer, Emit, Command, ReadReply, Drain, DrainQuiet,
           DrainEnds, Receive

(* Nothing a sensor at another rate sends is taken for a prompt.           *)
LEMMA GarbledStep == TaskOK /\ LineOK /\ Garbled /\ [LaserNext]_laser_vars => Garbled'
  <1> SUFFICES ASSUME TaskOK, LineOK, Garbled, [LaserNext]_laser_vars, sensor_baud # Required
               PROVE  Garbled'
    BY OverdueKept DEF Garbled
  <1> DEFINE Silent(s) == \A i \in 1..Len(s) : s[i].flags # ">"
  <1>1. pc # "running" /\ (pc \in {"command", "command_wait"} /\ n >= 2 => n = 2 /\ Silent(rx))
    BY DEF Garbled
  <1>2. ASSUME pc' # "running", pc' \in {"command", "command_wait"} /\ n' >= 2 => n' = 2 /\ Silent(rx')
        PROVE  Garbled'
    BY <1>2 DEF Garbled
  <1> HIDE DEF Silent
  <1>3. CASE Boot \/ Busy \/ UNCHANGED laser_vars
    BY <1>1, <1>2, <1>3 DEF Boot, Busy, laser_vars, task
  <1>4. CASE Stop \/ Probe \/ Command
    BY <1>1, <1>2, <1>4 DEF Stop, Probe, Command, Go, Send
  <1>5. CASE Timeout \/ WriteFails
    BY <1>1, <1>2, <1>5, OutcomeLeads DEF Timeout, WriteFails
  <1>6. CASE Drain \/ Receive
    BY <1>1, <1>2, <1>6 DEF Drain, Receive, task
  <1>7. CASE DrainQuiet
    <2>1. Silent(<<>>)
      BY DEF Silent
    <2> QED
      BY <1>2, <1>7, <2>1 DEF DrainQuiet, DrainEnds, Go
  <1>8. CASE ReadReply
    <2>1. Waiting /\ rx # <<>> /\ rx' = Tail(rx)
      BY <1>8 DEF ReadReply
    <2>2. CASE pc = "command_wait" /\ n >= 2
      <3>1. n = 2 /\ Silent(rx)
        BY <1>1, <2>2
      <3>2. Head(rx).flags # ">" /\ Silent(rx')
        BY <2>1, <3>1 DEF Silent, LineOK
      <3>3. Outcome("none") \/ UNCHANGED <<pc, n>>
        BY <1>8, <3>2 DEF ReadReply
      <3>4. CASE Outcome("none")
        BY <1>2, <2>2, <3>4, OutcomeLeads
      <3>5. CASE UNCHANGED <<pc, n>>
        BY <1>2, <2>2, <3>1, <3>2, <3>5
      <3> QED
        BY <3>3, <3>4, <3>5
    <2>3. CASE ~(pc = "command_wait" /\ n >= 2)
      <3>1. ASSUME NEW r \in {"ok", "error", "none"}, Outcome(r) PROVE Garbled'
        <4>1. pc' # "running" /\ (pc' = "command" => n' = 1) /\ pc' # "command_wait"
          BY <2>1, <2>3, <3>1, OutcomeLeads DEF Waiting, TaskOK
        <4> QED
          BY <1>2, <4>1
      <3>2. CASE UNCHANGED <<pc, n>>
        BY <1>2, <2>1, <2>3, <3>2 DEF Waiting, TaskOK
      <3> QED
        BY <1>8, <3>1, <3>2 DEF ReadReply
    <2> QED
      BY <2>2, <2>3
  <1>9. ASSUME rx' = Lose(rx), UNCHANGED <<pc, n>> PROVE Garbled'
    <2>1. Silent(rx) => Silent(rx')
      BY <1>9, LoseAdds, ItemsKnown DEF Silent, LineOK
    <2> QED
      BY <1>1, <1>2, <1>9, <2>1
  <1>10. ASSUME NEW ok \in BOOLEAN, Answer(ok) PROVE Garbled'
    <2>1. UNCHANGED <<pc, n>> /\ rx' = IF baud = sensor_baud THEN rx' ELSE Lose(rx)
      BY <1>10 DEF Answer, task
    <2>2. CASE pc \in {"command", "command_wait"}
      BY <1>9, <2>1, <2>2 DEF TaskOK
    <2>3. CASE pc \notin {"command", "command_wait"}
      BY <1>1, <1>2, <2>1, <2>3
    <2> QED
      BY <2>2, <2>3
  <1>11. ASSUME NEW in_range \in BOOLEAN, NEW lost \in BOOLEAN, Emit(in_range, lost) PROVE Garbled'
    <2>1. UNCHANGED <<pc, n>> /\ rx' = IF baud = sensor_baud THEN rx' ELSE Lose(rx)
      BY <1>11 DEF Emit, task
    <2>2. CASE pc \in {"command", "command_wait"}
      BY <1>9, <2>1, <2>2 DEF TaskOK
    <2>3. CASE pc \notin {"command", "command_wait"}
      BY <1>1, <1>2, <2>1, <2>3
    <2> QED
      BY <2>2, <2>3
  <1> QED
    BY <1>3, <1>4, <1>5, <1>6, <1>7, <1>8, <1>10, <1>11 DEF LaserNext, Task

(* OUTPUT NONE is the last command before the drain, and is never refused. *)
LEMMA StoppingStep == TaskOK /\ LineOK /\ Asleep /\ Stopping /\ [LaserNext]_laser_vars => Stopping'
  <1> DEFINE Scope == pc = "drain" \/ (pc = "command_wait" /\ n = 1)
             Done == IF tx = <<>> THEN ~outputting ELSE tx[Len(tx)] = "OutputNone"
  <1> SUFFICES ASSUME TaskOK, LineOK, Asleep, Stopping, [LaserNext]_laser_vars,
                      sensor_baud = Required, Scope'
               PROVE  Done'
    BY OverdueKept DEF Stopping
  <1>1. Scope => Done
    BY DEF Stopping
  <1>2. ASSUME Scope, UNCHANGED <<tx, outputting>> PROVE Done'
    BY <1>1, <1>2
  <1>3. CASE Boot \/ Busy \/ Drain \/ Receive \/ UNCHANGED laser_vars
    BY <1>2, <1>3 DEF Boot, Busy, Drain, Receive, laser_vars, task, sensor
  <1>4. CASE Stop \/ Probe \/ DrainQuiet
    BY <1>4 DEF Stop, Probe, DrainQuiet, DrainEnds, Go
  <1>5. CASE Timeout \/ WriteFails
    BY <1>5, OutcomeLeads DEF Timeout, WriteFails
  <1>6. CASE Command
    <2>1. n = 1 /\ booted /\ baud = Required
      BY <1>6 DEF Command, Go, Asleep, TaskOK
    <2>2. tx' = Append(tx, "OutputNone") /\ tx \in Seq(Names)
      BY <1>6, <2>1, CommandsKnown DEF Command, Send, LineOK, Names
    <2>3. tx' # <<>> /\ tx'[Len(tx')] = "OutputNone"
      BY <2>2, CommandsKnown DEF Names
    <2> QED
      BY <2>3
  <1>7. CASE ReadReply
    <2>1. Waiting /\ UNCHANGED <<tx, outputting>>
      BY <1>7 DEF ReadReply, sensor
    <2>2. Scope
      <3>1. CASE UNCHANGED <<pc, n>>
        BY <3>1
      <3>2. ASSUME NEW r \in {"ok", "error", "none"}, Outcome(r) PROVE Scope
        <4>1. pc' = "drain"
          BY <3>2, OutcomeLeads
        <4> QED
          BY <2>1, <3>2, <4>1 DEF Outcome, NextProbe, Go, Waiting
      <3> QED
        BY <1>7, <3>1, <3>2 DEF ReadReply
    <2> QED
      BY <1>2, <2>1, <2>2
  <1>8. ASSUME NEW ok \in BOOLEAN, Answer(ok) PROVE Done'
    <2>1. tx # <<>> /\ tx' = Tail(tx) /\ tx \in Seq(Names) /\ UNCHANGED <<pc, n>>
      BY <1>8 DEF Answer, task, LineOK, Names
    <2>2. tx[Len(tx)] = "OutputNone"
      BY <1>1, <2>1
    <2>3. CASE Len(tx) = 1
      <3>1. Head(tx) = "OutputNone" /\ tx' = <<>>
        BY <2>1, <2>2, <2>3
      <3>2. ok
        BY <1>8, <3>1 DEF Answer, Settings
      <3>3. ~outputting'
        BY <1>8, <3>1, <3>2 DEF Answer
      <3> QED
        BY <3>1, <3>3
    <2>4. CASE Len(tx) # 1
      <3>1. Len(tx) \in Nat /\ Len(tx) # 0
        BY <2>1
      <3>2. Len(tx) > 1 /\ Len(tx) - 1 + 1 = Len(tx) /\ Len(tx) - 1 \in 1..(Len(tx) - 1)
        <4>1. \A l \in Nat : l # 0 /\ l # 1 => l > 1 /\ l - 1 + 1 = l /\ l - 1 \in 1..(l - 1)
          OBVIOUS
        <4> QED
          BY <2>4, <3>1, <4>1, Zenon
      <3>3. Len(tx') = Len(tx) - 1 /\ \A i \in 1..(Len(tx) - 1) : tx'[i] = tx[i + 1]
        BY <2>1, HeadTailProperties
      <3>4. tx'[Len(tx')] = "OutputNone"
        BY <2>2, <3>2, <3>3
      <3>5. tx' # <<>>
        BY <3>2, <3>3
      <3> QED
        BY <3>4, <3>5
    <2> QED
      BY <2>3, <2>4
  <1>9. ASSUME NEW in_range \in BOOLEAN, NEW lost \in BOOLEAN, Emit(in_range, lost) PROVE Done'
    BY <1>2, <1>9 DEF Emit, task
  <1> QED
    BY <1>3, <1>4, <1>5, <1>6, <1>7, <1>8, <1>9 DEF LaserNext, Task

(* The marks when one more item is received.                               *)
LEMMA MarkedAppend ==
    ASSUME NEW s \in Seq(Items), NEW e \in Items, NEW c, NEW d, NEW k \in Int, NEW error,
           NEW accepted, NEW more, accepted \subseteq more,
           Numbering(c, s, k), Marked(c, s, error, accepted),
           \A i \in 1..(Len(s) + 1) : d[i] = c[i],
           e.flags = ">" /\ k \in 2..4 /\ Commands[k] \notin more =>
             s # <<>> /\ s[Len(s)].flags = "E"
    PROVE  Marked(d, Append(s, e), error, more)
  <1> DEFINE t == Append(s, e)
  <1>1. /\ Len(s) \in Nat /\ Len(t) = Len(s) + 1 /\ \A i \in 1..Len(s) : t[i] = s[i]
        /\ t[Len(s) + 1] = e /\ (s # <<>> => Len(s) > 0)
    OBVIOUS
  <1> HIDE DEF t
  <1>2. SUFFICES ASSUME NEW i \in 1..Len(t), t[i].flags = ">", d[i] \in 2..4, Commands[d[i]] \notin more
                 PROVE  IF i = 1 THEN error ELSE t[i - 1].flags = "E"
    BY DEF Marked, t
  <1>3. CASE i \in 1..Len(s)
    <2>1. t[i] = s[i] /\ d[i] = c[i] /\ Commands[c[i]] \notin accepted
      BY <1>1, <1>2, <1>3
    <2>2. IF i = 1 THEN error ELSE s[i - 1].flags = "E"
      BY <1>2, <1>3, <2>1 DEF Marked
    <2>3. CASE i = 1
      BY <2>2, <2>3
    <2>4. CASE i # 1
      <3>1. i - 1 \in 1..Len(s)
        BY <1>1, <1>3, <2>4
      <3> QED
        BY <1>1, <2>2, <2>4, <3>1
    <2> QED
      BY <2>3, <2>4
  <1>4. CASE i = Len(s) + 1
    <2>1. d[i] = k /\ t[i] = e
      BY <1>1, <1>4 DEF Numbering
    <2>2. s # <<>> /\ s[Len(s)].flags = "E"
      BY <1>2, <2>1
    <2>3. i # 1 /\ i - 1 = Len(s) /\ t[Len(s)] = s[Len(s)]
      BY <1>1, <1>4, <2>2
    <2> QED
      BY <2>2, <2>3
  <1> QED
    BY <1>1, <1>3, <1>4

(* What the numbers tell when an item has been read that is no refusal.    *)
LEMMA ReadNumbered ==
    ASSUME LineOK, TaskOK, NEW c, Numbered(c), rx # <<>>, Head(rx).flags = ">" => ~reply_error
    PROVE  \E d : /\ Numbering(d, Tail(rx), Due)
                  /\ d[1] = IF Head(rx).flags = ">" THEN c[1] + 1 ELSE c[1]
                  /\ \A j \in 2..4 : j < d[1] => Commands[j] \in settings
                  /\ Marked(d, Tail(rx), Head(rx).flags = "E", settings)
  <1>1. /\ rx \in Seq(Items) /\ Len(rx) \in Nat \ {0} /\ Head(rx) = rx[1]
        /\ Len(Tail(rx)) = Len(rx) - 1 /\ \A i \in 1..Len(Tail(rx)) : Tail(rx)[i] = rx[i + 1]
    BY DEF LineOK
  <1>2. n \in Int /\ Len(tx) \in Int /\ Due \in Int
    <2>1. n \in Nat
      BY LaserAssumption DEF TaskOK
    <2>2. Len(tx) \in Nat
      BY DEF LineOK
    <2> QED
      BY <2>1, <2>2 DEF Due
  <1>3. Numbering(c, rx, Due)
    BY DEF Numbered
  <1>4. PICK d : Numbering(d, Tail(rx), Due) /\ \A i \in 1..Len(rx) : d[i] = c[i + 1]
    BY <1>1, <1>2, <1>3, NumberingTail
  <1>5. c[1] \in Int /\ d[1] = IF Head(rx).flags = ">" THEN c[1] + 1 ELSE c[1]
    <2>1. c[1] \in Int
      BY <1>1, <1>3 DEF Numbering
    <2>2. d[1] = c[2] /\ c[2] = IF rx[1].flags = ">" THEN c[1] + 1 ELSE c[1]
      BY <1>1, <1>3, <1>4 DEF Numbering
    <2> QED
      BY <1>1, <2>1, <2>2
  <1>6. ASSUME NEW j \in 2..4, j < d[1] PROVE Commands[j] \in settings
    <2>1. CASE j < c[1]
      BY <2>1 DEF Numbered
    <2>2. CASE j = c[1] /\ Head(rx).flags = ">"
      BY <1>1, <2>2 DEF Numbered, Marked
    <2> QED
      BY <1>5, <1>6, <2>1, <2>2
  <1>7. Marked(d, Tail(rx), Head(rx).flags = "E", settings)
    <2> SUFFICES ASSUME NEW i \in 1..Len(Tail(rx)), Tail(rx)[i].flags = ">", d[i] \in 2..4,
                        Commands[d[i]] \notin settings
                 PROVE  IF i = 1 THEN Head(rx).flags = "E" ELSE Tail(rx)[i - 1].flags = "E"
      BY DEF Marked
    <2>1. i \in 1..Len(rx) /\ i + 1 \in 1..Len(rx) /\ i + 1 # 1 /\ i + 1 - 1 = i
      BY <1>1
    <2>2. rx[i + 1].flags = ">" /\ d[i] = c[i + 1]
      BY <1>1, <1>4, <2>1
    <2>3. rx[i].flags = "E"
      <3>1. Marked(c, rx, pc = "command_wait" /\ reply_error, settings)
        BY DEF Numbered
      <3> QED
        BY <2>1, <2>2, <3>1 DEF Marked
    <2>4. CASE i = 1
      BY <1>1, <2>3, <2>4
    <2>5. CASE i # 1
      <3>1. i - 1 \in 1..Len(Tail(rx)) /\ i - 1 + 1 = i
        BY <1>1, <2>5
      <3> QED
        BY <1>1, <2>3, <2>5, <3>1
    <2> QED
      BY <2>4, <2>5
  <1> QED
    BY <1>4, <1>5, <1>6, <1>7

(* A prompt that is read answers the command waited for, or one of the     *)
(* overdue ones before it.                                                 *)
LEMMA InOrderStep == TaskOK /\ LineOK /\ Asleep /\ InOrder /\ [LaserNext]_laser_vars => InOrder'
  <1> DEFINE Scope == pc \in {"command", "command_wait"} /\ n >= 2
             Right == Sent /\ \E c : Numbered(c)
  <1> SUFFICES ASSUME TaskOK, LineOK, Asleep, InOrder, [LaserNext]_laser_vars,
                      sensor_baud = Required, Scope'
               PROVE  Right'
    BY OverdueKept DEF InOrder
  <1>1. Scope => Right
    BY DEF InOrder
  <1>2. /\ n \in Nat /\ tx \in Seq(Names) /\ Len(tx) \in Nat /\ rx \in Seq(Items) /\ overdue \in Nat
        /\ Due \in Int
    <2>1. n \in Nat
      BY LaserAssumption DEF TaskOK
    <2>2. tx \in Seq(Names) /\ Len(tx) \in Nat /\ rx \in Seq(Items) /\ overdue \in Nat
      BY DEF LineOK, Names
    <2> QED
      BY <2>1, <2>2 DEF Due
  <1>3. CASE Boot \/ Busy \/ UNCHANGED laser_vars
    <2>1. UNCHANGED <<pc, n, reply_error, rx, tx, settings, overdue>>
      BY <1>3 DEF Boot, Busy, laser_vars, task, sensor, history
    <2> QED
      BY <1>1, <2>1 DEF Numbered, Sent, Due
  <1>4. CASE Stop \/ Probe \/ Drain \/ Receive
    BY <1>4 DEF Stop, Probe, Drain, Receive, Go, task
  <1>5. CASE Timeout \/ WriteFails
    BY <1>5, OutcomeLeads DEF Timeout, WriteFails
  <1>6. CASE Command
    <2>1. /\ pc = "command" /\ pc' = "command_wait" /\ n' = n /\ n >= 2 /\ baud = Required /\ booted
          /\ UNCHANGED <<rx, settings, overdue>>
      BY <1>6 DEF Command, Go, Send, sensor, history, Asleep, TaskOK
    <2>2. tx' = Append(tx, Commands[n]) /\ Commands[n] \in Names
      BY <1>6, <2>1 DEF Command, Send, TaskOK, Names
    <2>3. Len(tx') = Len(tx) + 1 /\ (\A j \in 1..Len(tx) : tx'[j] = tx[j]) /\ tx'[Len(tx) + 1] = Commands[n]
      BY <1>2, <2>2
    <2>4. Due' = Due /\ Due + Len(tx) = n
      <3>1. Due = n - Len(tx)
        BY <2>1 DEF Due
      <3>2. Due' = n + 1 - (Len(tx) + 1)
        <4>1. pc' # "command" /\ n' = n /\ Len(tx') = Len(tx) + 1
          BY <2>1, <2>3
        <4>2. Due' = n' + 1 - Len(tx')
          BY <4>1 DEF Due
        <4> QED
          BY <4>1, <4>2, Zenon
      <3> QED
        BY <1>2, <3>1, <3>2
    <2>5. Sent'
      <3> SUFFICES ASSUME NEW j \in 1..Len(tx'), Due' + j >= 3 PROVE tx'[j] = Commands[Due' + j - 1]
        BY DEF Sent
      <3>1. CASE j \in 1..Len(tx)
        BY <1>1, <2>1, <2>3, <2>4, <3>1 DEF Sent
      <3>2. CASE j = Len(tx) + 1
        BY <1>2, <2>3, <2>4, <3>2
      <3> QED
        BY <1>2, <2>3, <3>1, <3>2
    <2>6. PICK c : Numbered(c)
      BY <1>1, <2>1
    <2>7. Marked(c, rx, FALSE, settings)
      BY <2>1, <2>6 DEF Numbered, Marked
    <2>8. Marked(c, rx', (pc = "command_wait" /\ reply_error)', settings')
      BY <2>1, <2>7 DEF Marked
    <2>9. Numbered(c)'
      BY <2>1, <2>4, <2>6, <2>8 DEF Numbered
    <2> QED
      BY <2>5, <2>9
  <1>7. CASE DrainQuiet
    <2>1. pc' = "command" /\ n' = 2 /\ rx' = <<>> /\ tx' = tx /\ overdue' = Len(tx)
      BY <1>7 DEF DrainQuiet, DrainEnds, Go
    <2>2. Due' = 2 - Len(tx) /\ Due' \in Int
      BY <1>2, <2>1 DEF Due
    <2>3. Sent'
      BY <1>2, <2>1, <2>2 DEF Sent
    <2>4. PICK c \in [1..1 -> Int] : c[1] = Due'
      <3>1. [i \in 1..1 |-> Due'] \in [1..1 -> Int] /\ [i \in 1..1 |-> Due'][1] = Due'
        BY <2>2
      <3> QED
        BY <3>1
    <2>5. Numbering(c, rx', Due') /\ Marked(c, rx', (pc = "command_wait" /\ reply_error)', settings')
      BY <2>1, <2>4 DEF Numbering, Marked
    <2>6. c[1] + overdue' >= n' /\ \A j \in 2..4 : j < c[1] => Commands[j] \in settings'
      BY <1>2, <2>1, <2>2, <2>4
    <2>7. Numbered(c)'
      BY <2>5, <2>6 DEF Numbered
    <2> QED
      BY <2>3, <2>7
  <1>8. CASE ReadReply
    <2>1. Waiting /\ rx # <<>> /\ rx' = Tail(rx) /\ UNCHANGED <<tx, settings, overdue>>
      BY <1>8 DEF ReadReply, sensor, history
    <2>2. \/ /\ pc = "command_wait" /\ pc' = "command" /\ n' = n + 1 /\ n >= 2
             /\ Head(rx).flags = ">" /\ ~reply_error
          \/ /\ pc = "command_wait" /\ UNCHANGED <<pc, n>> /\ n >= 2
             /\ Head(rx).flags # ">" /\ (Head(rx).flags = "E" => reply_error')
      <3>1. CASE UNCHANGED <<pc, n>> /\ Head(rx).flags # ">" /\ (Head(rx).flags = "E" => reply_error')
        BY <2>1, <3>1 DEF Waiting
      <3>2. ASSUME NEW r \in {"error", "none"}, Outcome(r) PROVE FALSE
        BY <2>1, <3>2, OutcomeLeads DEF Waiting
      <3>3. CASE Outcome("ok") /\ Head(rx).flags = ">" /\ ~reply_error
        <4>1. n' \in 3..5 /\ pc = "command_wait" /\ n' = n + 1 /\ pc' = "command"
          BY <2>1, <3>3, OutcomeLeads DEF Waiting
        <4> QED
          BY <1>2, <3>3, <4>1
      <3>4. CASE reply_error
        BY <1>8, <3>1, <3>2, <3>4 DEF ReadReply
      <3>5. CASE ~reply_error
        BY <1>8, <3>1, <3>2, <3>3, <3>5 DEF ReadReply
      <3> QED
        BY <3>4, <3>5
    <2>3. Due' = Due
      BY <1>2, <2>1, <2>2 DEF Due
    <2>4. Sent'
      BY <1>1, <2>1, <2>2, <2>3 DEF Sent
    <2>5. PICK c : Numbered(c)
      BY <1>1, <2>2
    <2>6. PICK d : /\ Numbering(d, Tail(rx), Due)
                   /\ d[1] = IF Head(rx).flags = ">" THEN c[1] + 1 ELSE c[1]
                   /\ \A j \in 2..4 : j < d[1] => Commands[j] \in settings
                   /\ Marked(d, Tail(rx), Head(rx).flags = "E", settings)
      BY <2>1, <2>2, <2>5, ReadNumbered
    <2>7. d[1] + overdue >= n'
      <3>1. c[1] \in Int
        BY <1>2, <2>5 DEF Numbered, Numbering
      <3>2. c[1] + overdue >= n
        BY <2>5 DEF Numbered
      <3> QED
        BY <1>2, <2>2, <2>6, <3>1, <3>2
    <2>8. Marked(d, rx', (pc = "command_wait" /\ reply_error)', settings')
      <3>1. Head(rx).flags = "E" => (pc = "command_wait" /\ reply_error)'
        BY <2>2
      <3> QED
        BY <2>1, <2>6, <3>1 DEF Marked
    <2>9. Numbered(d)'
      BY <2>1, <2>3, <2>6, <2>7, <2>8 DEF Numbered
    <2> QED
      BY <2>4, <2>9
  <1>9. ASSUME NEW ok \in BOOLEAN, Answer(ok) PROVE Right'
    <2>1. /\ tx # <<>> /\ tx' = Tail(tx) /\ UNCHANGED <<pc, n, reply_error, overdue>> /\ baud = sensor_baud
          /\ settings \subseteq settings'
      BY <1>9 DEF Answer, task, history, TaskOK
    <2>2. Scope
      BY <2>1
    <2>3. /\ Len(tx) > 0 /\ Len(tx') = Len(tx) - 1 /\ Head(tx) = tx[1]
          /\ \A j \in 1..Len(tx') : tx'[j] = tx[j + 1]
      BY <1>2, <2>1
    <2>4. Due' = Due + 1
      BY <1>2, <2>1, <2>3 DEF Due
    <2>5. Sent'
      <3> SUFFICES ASSUME NEW j \in 1..Len(tx'), Due' + j >= 3 PROVE tx'[j] = Commands[Due' + j - 1]
        BY DEF Sent
      <3>1. j + 1 \in 1..Len(tx) /\ Due + (j + 1) >= 3 /\ Due + (j + 1) - 1 = Due' + j - 1
        BY <1>2, <2>3, <2>4
      <3> QED
        BY <1>1, <2>2, <2>3, <3>1 DEF Sent
    <2>6. PICK c : Numbered(c)
      BY <1>1, <2>2
    <2>7. ok /\ Due \in 2..4 => Commands[Due] \in settings'
      <3> SUFFICES ASSUME ok, Due \in 2..4 PROVE Commands[Due] \in settings'
        OBVIOUS
      <3>1. 1 \in 1..Len(tx) /\ Due + 1 >= 3 /\ Due + 1 - 1 = Due
        BY <1>2, <2>3
      <3>2. Head(tx) = Commands[Due]
        BY <1>1, <2>2, <2>3, <3>1 DEF Sent
      <3>3. Commands[Due] \in Settings
        BY CommandsKnown DEF Settings
      <3> QED
        BY <1>9, <3>2, <3>3 DEF Answer
    <2>8. Numbering(c, rx, Due) /\ Marked(c, rx, pc = "command_wait" /\ reply_error, settings)
      BY <2>6 DEF Numbered
    <2>9. ASSUME NEW d, Numbering(d, rx', Due'), d[1] = c[1],
                 Marked(d, rx', pc = "command_wait" /\ reply_error, settings')
          PROVE  Right'
      <3>1. Numbered(d)'
        BY <2>1, <2>6, <2>9 DEF Numbered
      <3> QED
        BY <2>5, <3>1
    <2>10. CASE ok
      <3>1. rx' = Append(rx, Prompt)
        BY <1>2, <1>9, <2>1, <2>10, ItemsKnown DEF Answer, Prompt
      <3>2. PICK d : Numbering(d, Append(rx, Prompt), Due + 1) /\ \A i \in 1..(Len(rx) + 1) : d[i] = c[i]
        BY <1>2, <2>8, ItemsKnown, NumberingAppend
      <3>3. Marked(d, Append(rx, Prompt), pc = "command_wait" /\ reply_error, settings')
        BY <1>2, <2>1, <2>7, <2>8, <2>10, <3>2, ItemsKnown, MarkedAppend
      <3>4. d[1] = c[1]
        BY <1>2, <3>2
      <3> QED
        BY <2>4, <2>9, <3>1, <3>2, <3>3, <3>4
    <2>11. CASE ~ok
      <3> DEFINE s == Append(rx, Refusal)
      <3>1. rx' = Append(s, Prompt) /\ s \in Seq(Items) /\ Len(s) = Len(rx) + 1 /\ s[Len(s)] = Refusal
        BY <1>2, <1>9, <2>1, <2>11, ItemsKnown DEF Answer, Prompt, Refusal
      <3>2. PICK b : Numbering(b, s, Due) /\ \A i \in 1..(Len(rx) + 1) : b[i] = c[i]
        BY <1>2, <2>8, ItemsKnown, NumberingAppend
      <3>3. Marked(b, s, pc = "command_wait" /\ reply_error, settings)
        BY <1>2, <2>8, <3>2, ItemsKnown, MarkedAppend
      <3> HIDE DEF s
      <3>4. PICK d : Numbering(d, Append(s, Prompt), Due + 1) /\ \A i \in 1..(Len(s) + 1) : d[i] = b[i]
        BY <1>2, <3>1, <3>2, ItemsKnown, NumberingAppend
      <3>5. s # <<>> /\ s[Len(s)].flags = "E"
        BY <1>2, <3>1, ItemsKnown
      <3>6. Marked(d, Append(s, Prompt), pc = "command_wait" /\ reply_error, settings')
        BY <1>2, <2>1, <3>1, <3>2, <3>3, <3>4, <3>5, ItemsKnown, MarkedAppend
      <3>7. d[1] = c[1]
        BY <1>2, <3>1, <3>2, <3>4
      <3> QED
        BY <2>4, <2>9, <3>1, <3>4, <3>6, <3>7
    <2> QED
      BY <2>10, <2>11
  <1>10. ASSUME NEW in_range \in BOOLEAN, NEW lost \in BOOLEAN, Emit(in_range, lost) PROVE Right'
    <2> DEFINE byte == [flags |-> <<"L", "M", "H", "L", "M", "X">>[next.byte], m |-> next.m,
                        in_range |-> in_range]
    <2>1. UNCHANGED <<pc, n, reply_error, tx, settings, overdue>>
      BY <1>10 DEF Emit, task
    <2>2. byte \in Items /\ byte.flags # ">"
      <3>1. next.byte \in 1..6 /\ next.m \in Nat
        BY DEF LineOK
      <3>2. <<"L", "M", "H", "L", "M", "X">>[next.byte] \in Flags \ {">"}
        BY <3>1 DEF Flags
      <3> QED
        BY <3>1, <3>2 DEF Items
    <2>3. rx' = Lose(rx) \/ rx' = Append(rx, byte)
      BY <1>10 DEF Emit
    <2> HIDE DEF byte
    <2>4. Due' = Due /\ Scope
      BY <2>1 DEF Due
    <2>5. PICK c : Numbered(c)
      BY <1>1, <2>4
    <2>6. Sent'
      BY <1>1, <2>1, <2>4 DEF Sent
    <2>7. CASE rx' = rx
      BY <2>1, <2>4, <2>5, <2>6, <2>7 DEF Numbered
    <2>8. ASSUME NEW e \in Items, e.flags # ">", rx' = Append(rx, e) PROVE Right'
      <3>1. Numbering(c, rx, Due) /\ Marked(c, rx, pc = "command_wait" /\ reply_error, settings)
        BY <2>5 DEF Numbered
      <3>2. PICK d : Numbering(d, Append(rx, e), Due) /\ \A i \in 1..(Len(rx) + 1) : d[i] = c[i]
        BY <1>2, <2>8, <3>1, NumberingAppend
      <3>3. Marked(d, Append(rx, e), pc = "command_wait" /\ reply_error, settings)
        BY <1>2, <2>8, <3>1, <3>2, MarkedAppend
      <3>4. d[1] = c[1]
        BY <1>2, <3>2
      <3>5. Numbered(d)'
        BY <2>1, <2>4, <2>5, <2>8, <3>2, <3>3, <3>4 DEF Numbered
      <3> QED
        BY <2>6, <3>5
    <2>9. rx' = rx \/ rx' = Append(rx, Fault) \/ rx' = Append(rx, byte)
      BY <2>3 DEF Lose
    <2> QED
      BY <2>2, <2>7, <2>8, <2>9, ItemsKnown
  <1> QED
    BY <1>3, <1>4, <1>5, <1>6, <1>7, <1>8, <1>9, <1>10 DEF LaserNext, Task

(* The receive loop starts after the fifth prompt; settings are kept.      *)
LEMMA AcceptedStep ==
    TaskOK /\ LineOK /\ Garbled /\ InOrder /\ Accepted /\ [LaserNext]_laser_vars => Accepted'
  <1> SUFFICES ASSUME TaskOK, LineOK, Garbled, InOrder, Accepted, [LaserNext]_laser_vars,
                      pc' = "running", NEW k \in 2..4, k + overdue' <= 5
               PROVE  Commands[k] \in settings'
    BY DEF Accepted
  <1>1. ~DrainQuiet
    BY DEF DrainQuiet, DrainEnds, Go
  <1>2. overdue' = overdue
    BY <1>1, OverdueKept
  <1>3. settings \subseteq settings'
    BY DEF LaserNext, Task, Boot, Busy, Answer, Emit, Stop, Probe, Command, Send, ReadReply, Timeout,
           WriteFails, Drain, DrainQuiet, DrainEnds, Receive, sensor, laser_vars
  <1>4. CASE pc = "running"
    BY <1>2, <1>3, <1>4 DEF Accepted
  <1>5. CASE pc # "running"
    <2>1. ReadReply
      BY <1>1, <1>5, OutcomeLeads
         DEF LaserNext, Task, Boot, Busy, Answer, Emit, Stop, Probe, Command, Go, Timeout, WriteFails,
             Drain, Receive, task, laser_vars
    <2>2. Waiting /\ rx # <<>>
      BY <2>1 DEF ReadReply
    <2>3. pc = "command_wait" /\ n = 5 /\ Head(rx).flags = ">" /\ ~reply_error
      <3>1. ~UNCHANGED <<pc, n>>
        BY <1>5
      <3>2. ASSUME NEW r \in {"error", "none"}, Outcome(r) PROVE FALSE
        BY <3>2, OutcomeLeads
      <3>3. ASSUME Outcome("ok") PROVE pc = "command_wait" /\ n = 5
        BY <2>2, <3>3, OutcomeLeads DEF Waiting
      <3>4. CASE reply_error
        BY <2>1, <3>1, <3>2, <3>4 DEF ReadReply
      <3>5. CASE ~reply_error
        BY <2>1, <3>1, <3>2, <3>3, <3>5 DEF ReadReply
      <3> QED
        BY <3>4, <3>5
    <2>4. sensor_baud = Required
      BY <2>3 DEF Garbled
    <2>5. PICK c : Numbered(c)
      BY <2>3, <2>4 DEF InOrder
    <2>6. PICK d : /\ d[1] = c[1] + 1
                   /\ \A j \in 2..4 : j < d[1] => Commands[j] \in settings
      BY <2>2, <2>3, <2>5, ReadNumbered
    <2>7. c[1] \in Int /\ c[1] + overdue >= 5 /\ overdue \in Nat
      BY <2>3, <2>5 DEF Numbered, Numbering, LineOK
    <2> QED
      BY <1>2, <1>3, <2>6, <2>7
  <1> QED
    BY <1>4, <1>5

(* What the task concludes from the answers goes on being right.           *)
LEMMA MatchedStep == TaskOK /\ LineOK /\ Matched /\ [LaserNext]_laser_vars => Matched'
  BY AsleepStep, GarbledStep, StoppingStep, InOrderStep, AcceptedStep DEF Matched

-----------------------------------------------------------------------------
(* Streams *)

(* Only the report of a loss and a reply have no place in a measurement.   *)
LEMMA PlaceKnown ==
    ASSUME NEW item \in Items
    PROVE  /\ Place(item) \in 0..3 /\ Place(Fault) = 0 /\ item.m \in Nat
           /\ Place(item) = 1 <=> item.flags = "L"
           /\ Place(item) = 2 <=> item.flags = "M"
           /\ Place(item) = 3 <=> item.flags = "H"
  BY ItemsKnown DEF Place, Items

(* The first item is parsed.                                               *)
LEMMA StreamTail ==
    ASSUME NEW s \in Seq(Items), s # <<>>, NEW nx \in [m : Nat, byte : 1..3], Stream(s, nx)
    PROVE  /\ Stream(Tail(s), nx)
           /\ PlaceAfter(s, 0, nx) = Place(Head(s)) /\ NumberAfter(s, 0, nx) = Head(s).m
           /\ PlaceAfter(Tail(s), 0, nx) \in 0..3
           /\ \/ Head(s) = Fault
              \/ /\ IsByte(Head(s))
                 /\ \/ PlaceAfter(Tail(s), 0, nx) = 0
                    \/ Follows(Place(Head(s)), Head(s).m,
                               PlaceAfter(Tail(s), 0, nx), NumberAfter(Tail(s), 0, nx))
  <1> DEFINE u == Tail(s)
  <1>1. /\ u \in Seq(Items) /\ Len(u) = Len(s) - 1 /\ Len(s) \in Nat \ {0} /\ Head(s) = s[1]
        /\ \A i \in 1..Len(u) : u[i] = s[i + 1]
    OBVIOUS
  <1> HIDE DEF u
  <1>2. \A i \in 0..Len(u) : /\ PlaceAfter(u, i, nx) = PlaceAfter(s, i + 1, nx)
                             /\ NumberAfter(u, i, nx) = NumberAfter(s, i + 1, nx)
    BY <1>1 DEF PlaceAfter, NumberAfter
  <1>3. Stream(u, nx)
    <2> SUFFICES ASSUME NEW i \in 1..Len(u), u[i] # Fault
                 PROVE  /\ IsByte(u[i])
                        /\ \/ PlaceAfter(u, i, nx) = 0
                           \/ Follows(Place(u[i]), u[i].m, PlaceAfter(u, i, nx), NumberAfter(u, i, nx))
      BY DEF Stream
    <2>1. i + 1 \in 1..Len(s) /\ u[i] = s[i + 1] /\ i \in 0..Len(u)
      BY <1>1
    <2> QED
      BY <1>2, <2>1 DEF Stream
  <1>4. PlaceAfter(s, 0, nx) = Place(Head(s)) /\ NumberAfter(s, 0, nx) = Head(s).m
    BY <1>1 DEF PlaceAfter, NumberAfter
  <1>5. PlaceAfter(u, 0, nx) \in 0..3
    BY <1>1, PlaceKnown DEF PlaceAfter
  <1>6. \/ Head(s) = Fault
        \/ /\ IsByte(Head(s))
           /\ \/ PlaceAfter(u, 0, nx) = 0
              \/ Follows(Place(Head(s)), Head(s).m, PlaceAfter(u, 0, nx), NumberAfter(u, 0, nx))
    <2>1. 1 \in 1..Len(s) /\ 0 \in 0..Len(u)
      BY <1>1
    <2>2. PlaceAfter(u, 0, nx) = PlaceAfter(s, 1, nx) /\ NumberAfter(u, 0, nx) = NumberAfter(s, 1, nx)
      BY <1>2, <2>1
    <2> QED
      BY <1>1, <2>1, <2>2 DEF Stream
  <1> QED
    BY <1>3, <1>4, <1>5, <1>6 DEF u

(* The byte that was to be sent arrives.                                   *)
LEMMA StreamAppend ==
    ASSUME NEW s \in Seq(Items), NEW nx \in [m : Nat, byte : 1..3], Stream(s, nx),
           NEW item \in Items, Place(item) = nx.byte, item.m = nx.m,
           NEW ny \in [m : Nat, byte : 1..3], Follows(nx.byte, nx.m, ny.byte, ny.m)
    PROVE  /\ Stream(Append(s, item), ny)
           /\ PlaceAfter(Append(s, item), 0, ny) = PlaceAfter(s, 0, nx)
           /\ NumberAfter(Append(s, item), 0, ny) = NumberAfter(s, 0, nx)
  <1> DEFINE u == Append(s, item)
  <1>1. /\ u \in Seq(Items) /\ Len(u) = Len(s) + 1 /\ Len(s) \in Nat /\ u[Len(s) + 1] = item
        /\ \A i \in 1..Len(s) : u[i] = s[i]
    OBVIOUS
  <1> HIDE DEF u
  <1>2. \A i \in 0..Len(s) : /\ PlaceAfter(u, i, ny) = PlaceAfter(s, i, nx)
                             /\ NumberAfter(u, i, ny) = NumberAfter(s, i, nx)
    BY <1>1 DEF PlaceAfter, NumberAfter
  <1>3. PlaceAfter(u, Len(s) + 1, ny) = ny.byte /\ NumberAfter(u, Len(s) + 1, ny) = ny.m
    BY <1>1 DEF PlaceAfter, NumberAfter
  <1>4. Stream(u, ny)
    <2> SUFFICES ASSUME NEW i \in 1..Len(u), u[i] # Fault
                 PROVE  /\ IsByte(u[i])
                        /\ \/ PlaceAfter(u, i, ny) = 0
                           \/ Follows(Place(u[i]), u[i].m, PlaceAfter(u, i, ny), NumberAfter(u, i, ny))
      BY DEF Stream
    <2>1. CASE i = Len(s) + 1
      BY <1>1, <1>3, <2>1 DEF IsByte
    <2>2. CASE i # Len(s) + 1
      <3>1. i \in 1..Len(s) /\ i \in 0..Len(s) /\ u[i] = s[i]
        BY <1>1, <2>2
      <3> QED
        BY <1>2, <3>1 DEF Stream
    <2> QED
      BY <2>1, <2>2
  <1>5. 0 \in 0..Len(s)
    BY <1>1
  <1> QED
    BY <1>2, <1>4, <1>5 DEF u

(* It is lost.                                                             *)
LEMMA StreamLose ==
    ASSUME NEW s \in Seq(Items), NEW nx \in [m : Nat, byte : 1..3], Stream(s, nx),
           NEW ny \in [m : Nat, byte : 1..3]
    PROVE  /\ Stream(Lose(s), ny)
           /\ \/ PlaceAfter(Lose(s), 0, ny) = 0
              \/ /\ PlaceAfter(Lose(s), 0, ny) = PlaceAfter(s, 0, nx)
                 /\ NumberAfter(Lose(s), 0, ny) = NumberAfter(s, 0, nx)
  <1> DEFINE u == Lose(s)
  <1>1. /\ u \in Seq(Items) /\ Len(s) \in Nat /\ Len(u) \in {Len(s), Len(s) + 1} /\ Len(u) >= 1
        /\ \A i \in 1..Len(s) : u[i] = s[i]
        /\ \A i \in 1..Len(u) : i > Len(s) => u[i] = Fault
        /\ u[Len(u)] = Fault
    BY LoseAdds
  <1> HIDE DEF u
  <1>2. Stream(u, ny)
    <2> SUFFICES ASSUME NEW i \in 1..Len(u), u[i] # Fault
                 PROVE  /\ IsByte(u[i])
                        /\ \/ PlaceAfter(u, i, ny) = 0
                           \/ Follows(Place(u[i]), u[i].m, PlaceAfter(u, i, ny), NumberAfter(u, i, ny))
      BY DEF Stream
    <2>1. i \in 1..Len(s) /\ i < Len(u) /\ u[i] = s[i]
      BY <1>1
    <2>2. CASE i < Len(s)
      <3>1. u[i + 1] = s[i + 1]
        BY <1>1, <2>1, <2>2
      <3>2. PlaceAfter(u, i, ny) = PlaceAfter(s, i, nx) /\ NumberAfter(u, i, ny) = NumberAfter(s, i, nx)
        BY <2>1, <2>2, <3>1 DEF PlaceAfter, NumberAfter
      <3> QED
        BY <2>1, <3>2 DEF Stream
    <2>3. CASE ~(i < Len(s))
      <3>1. u[i + 1] = Fault
        BY <1>1, <2>1, <2>3
      <3>2. PlaceAfter(u, i, ny) = 0
        BY <2>1, <3>1, ItemsKnown, PlaceKnown DEF PlaceAfter
      <3> QED
        BY <2>1, <3>2 DEF Stream
    <2> QED
      BY <2>2, <2>3
  <1>3. CASE Len(s) = 0
    <2>1. u[0 + 1] = Fault /\ 0 < Len(u)
      BY <1>1, <1>3
    <2> QED
      BY <1>2, <2>1, ItemsKnown, PlaceKnown DEF PlaceAfter, u
  <1>4. CASE Len(s) # 0
    <2>1. u[0 + 1] = s[0 + 1] /\ 0 < Len(s) /\ 0 < Len(u)
      BY <1>1, <1>4
    <2> QED
      BY <1>2, <2>1 DEF PlaceAfter, NumberAfter, u
  <1> QED
    BY <1>3, <1>4

-----------------------------------------------------------------------------
(* The receive loop *)

(* Only the receive loop touches the parser and the counters.              *)
LEMMA OnlyReceive == [LaserNext]_laser_vars => Receive \/ UNCHANGED receiver
  BY DEF LaserNext, Task, Boot, Busy, Answer, Emit, Stop, Probe, Command, Send, ReadReply, Timeout,
         WriteFails, Drain, DrainQuiet, DrainEnds, laser_vars

(* laser_run never returns.                                                *)
LEMMA RunsOn == [LaserNext]_laser_vars /\ pc = "running" => pc' = "running"
  BY DEF LaserNext, Task, Boot, Busy, Answer, Emit, Stop, Probe, Command, ReadReply, Timeout,
         WriteFails, Drain, DrainQuiet, DrainEnds, Receive, Waiting, laser_vars, task

(* Nothing is counted before the receive loop runs.                        *)
LEMMA FreshStep == Fresh /\ [LaserNext]_laser_vars => Fresh'
  <1> SUFFICES ASSUME Fresh, [LaserNext]_laser_vars, pc' # "running" PROVE Fresh'
    BY DEF Fresh
  <1>1. pc # "running"
    BY RunsOn
  <1>2. UNCHANGED receiver
    BY <1>1, OnlyReceive DEF Receive
  <1> QED
    BY <1>1, <1>2 DEF Fresh, receiver, parser, counters

(* The four things that can happen to an item of the receive loop: a loss, a *)
(* byte in its place, one out of place after a loss, the end of a distance. *)
AfterLoss ==
    /\ Head(rx) = Fault /\ disturbed /\ stage' = 0 /\ acc' = <<>> /\ last' = <<>>
    /\ Count(TRUE, FALSE, FALSE)
InPlace ==
    /\ Head(rx).flags = (IF stage = 0 THEN "L" ELSE "M") /\ stage \in 0..1 /\ stage' = stage + 1
    /\ acc' = IF stage = 0 THEN <<Head(rx).m>> ELSE <<Head(rx).m, Head(rx).m>>
    /\ UNCHANGED <<synchronised, clean_frames, destination, counters>>
OutOfPlace ==
    /\ Place(Head(rx)) \in {2, 3} /\ disturbed /\ stage = 0 /\ stage' = 0
    /\ Count(FALSE, TRUE, FALSE)
Completes ==
    /\ Head(rx).flags = "H" /\ stage = 2 /\ stage' = 0 /\ acc = <<Head(rx).m, Head(rx).m>>
    /\ Frame(Head(rx))

(* There are no others: push_event's remaining cases need a byte that the  *)
(* stream of a configured sensor does not have at that point.              *)
LEMMA ReceiveKinds ==
    ASSUME LineOK, TaskOK, Reception, Receive
    PROVE  /\ rx \in Seq(Items) /\ rx # <<>> /\ Head(rx) \in Items /\ rx' = Tail(rx)
           /\ UNCHANGED <<task, tx, sensor, disturbed>> /\ pc = "running"
           /\ Parsing(rx)
           /\ AfterLoss \/ InPlace \/ OutOfPlace \/ Completes
  <1> DEFINE item == Head(rx)
             p == Place(item)
  <1>1. /\ pc = "running" /\ rx \in Seq(Items) /\ rx # <<>> /\ item \in Items /\ item = rx[1]
        /\ 1 \in 1..Len(rx)
    BY DEF Receive, LineOK
  <1>2. Parsing(rx)
    BY <1>1 DEF Reception, Started, Unparsed
  <1>3. next \in [m : Nat, byte : 1..3]
    BY <1>2 DEF Parsing, LineOK
  <1>4. PlaceAfter(rx, 0, next) = p /\ NumberAfter(rx, 0, next) = item.m
        /\ (item = Fault \/ IsByte(item))
    BY <1>1, <1>2, <1>3, StreamTail DEF Parsing
  <1>5. /\ stage \in 0..2
        /\ stage = 1 => \E a \in Nat : acc = <<a>> /\ (p = 0 \/ (p = 2 /\ item.m = a))
        /\ stage = 2 => \E a \in Nat : acc = <<a, a>> /\ (p = 0 \/ (p = 3 /\ item.m = a))
        /\ ~disturbed => p = stage + 1 /\ \A i \in 1..Len(rx) : rx[i] # Fault
    BY <1>2, <1>4 DEF Parsing
  <1>6. CASE item = Fault
    <2>1. disturbed
      BY <1>1, <1>5, <1>6
    <2>2. AfterLoss
      BY <1>6, <2>1 DEF Receive, AfterLoss, ParserReset
    <2> QED
      BY <1>1, <1>2, <2>2 DEF Receive, history
  <1>7. CASE item # Fault
    <2>1. p \in 1..3 /\ item.m \in Nat
      BY <1>1, <1>4, <1>7, PlaceKnown DEF IsByte
    <2>2. /\ (p = 1 <=> item.flags = "L") /\ (p = 2 <=> item.flags = "M")
          /\ (p = 3 <=> item.flags = "H")
      BY <1>1, PlaceKnown
    <2> DEFINE parsed == Parse(item)
    <2>3. /\ stage' = parsed.stage /\ acc' = Accumulate(item)
          /\ parsed.event = "Pending" => UNCHANGED <<synchronised, clean_frames, destination, counters>>
          /\ parsed.event = "Resynchronised" => Count(FALSE, TRUE, FALSE)
          /\ parsed.event = "Value" /\ item.flags = "H" => Frame(item)
      BY <1>7, <2>1, <2>2 DEF Receive, history
    <2> HIDE DEF item, p
    <2>4. CASE p = 1
      <3>1. item.flags = "L" /\ stage = 0
        BY <1>5, <2>2, <2>4
      <3>2. parsed = [stage |-> 1, event |-> "Pending"]
        BY <3>1 DEF Parse
      <3>3. acc' = <<item.m>>
        BY <2>3, <3>1 DEF Accumulate
      <3>4. InPlace
        BY <2>3, <3>1, <3>2, <3>3 DEF InPlace, item
      <3> QED
        BY <1>1, <1>2, <3>4 DEF Receive, history, item
    <2>5. CASE p = 2 /\ stage = 1
      <3>1. item.flags = "M" /\ acc = <<item.m>>
        BY <1>5, <2>2, <2>5
      <3>2. parsed = [stage |-> 2, event |-> "Pending"]
        BY <2>5, <3>1 DEF Parse
      <3>3. acc' = <<item.m, item.m>>
        <4>1. Append(<<item.m>>, item.m) = <<item.m, item.m>>
          BY <2>1, Longer
        <4> QED
          BY <2>3, <2>5, <3>1, <4>1 DEF Accumulate
      <3>4. InPlace
        BY <2>3, <2>5, <3>1, <3>2, <3>3 DEF InPlace, item
      <3> QED
        BY <1>1, <1>2, <3>4 DEF Receive, history, item
    <2>6. CASE p \in {2, 3} /\ stage = 0
      <3>1. item.flags \in {"M", "H"} /\ disturbed
        BY <1>5, <2>2, <2>6
      <3>2. parsed = [stage |-> 0, event |-> "Resynchronised"]
        BY <2>6, <3>1 DEF Parse
      <3>3. OutOfPlace
        <4>0. parsed.stage = 0 /\ parsed.event = "Resynchronised"
          BY <3>2
        <4>1. stage' = 0 /\ Count(FALSE, TRUE, FALSE)
          BY <2>3, <4>0, Zenon
        <4>2. Place(Head(rx)) \in {2, 3}
          BY <2>6 DEF p, item
        <4> QED
          BY <2>6, <3>1, <4>1, <4>2 DEF OutOfPlace
      <3> QED
        BY <1>1, <1>2, <3>3 DEF Receive, history, item
    <2>7. CASE p = 3 /\ stage = 2
      <3>1. item.flags = "H" /\ acc = <<item.m, item.m>>
        BY <1>5, <2>2, <2>7
      <3>2. parsed = [stage |-> 0, event |-> "Value"]
        BY <2>7, <3>1 DEF Parse
      <3>3. Completes
        BY <2>3, <2>7, <3>1, <3>2 DEF Completes, item
      <3> QED
        BY <1>1, <1>2, <3>3 DEF Receive, history, item
    <2> QED
      BY <1>5, <2>1, <2>4, <2>5, <2>6, <2>7
  <1> QED
    BY <1>6, <1>7

(* What one item does to the counters, whatever it is.                     *)
LEMMA ReceiveCounts ==
    ASSUME LineOK, Counts, Receive
    PROVE  /\ stage' \in 0..2
           /\ \/ Count(TRUE, FALSE, FALSE) \/ Count(FALSE, TRUE, FALSE) \/ Count(FALSE, FALSE, TRUE)
              \/ UNCHANGED <<synchronised, clean_frames, destination, counters>>
              \/ Frame(Head(rx))
  <1> DEFINE item == Head(rx)
  <1>1. CASE item = Fault
    <2>1. stage' = 0
      BY <1>1 DEF Receive, ParserReset
    <2>2. Count(TRUE, FALSE, FALSE)
      BY <1>1, Zenon DEF Receive
    <2>3. stage' \in 0..2
      BY <2>1
    <2> QED
      BY <2>2, <2>3, Zenon
  <1>2. CASE item # Fault
    <2>1. /\ stage' = Parse(item).stage
          /\ CASE Parse(item).event = "Pending" ->
                      UNCHANGED <<synchronised, clean_frames, destination, counters>>
               [] Parse(item).event = "Resynchronised" -> Count(FALSE, TRUE, FALSE)
               [] Parse(item).event = "Value" /\ item.flags = "X" -> Count(FALSE, FALSE, TRUE)
               [] Parse(item).event = "Value" /\ item.flags = "H" -> Frame(item)
      BY <1>2 DEF Receive
    <2> HIDE DEF item
    <2>2. /\ Parse(item).stage \in 0..2
          /\ \/ Parse(item).event = "Pending"
             \/ Parse(item).event = "Resynchronised"
             \/ Parse(item).event = "Value" /\ item.flags \in {"H", "X"}
      BY DEF Parse
    <2>3. CASE Parse(item).event = "Pending"
      BY <2>1, <2>2, <2>3
    <2>4. CASE Parse(item).event = "Resynchronised"
      BY <2>1, <2>2, <2>4
    <2>5. CASE Parse(item).event = "Value" /\ item.flags = "X"
      BY <2>1, <2>2, <2>5
    <2>6. CASE Parse(item).event = "Value" /\ item.flags = "H"
      BY <2>1, <2>2, <2>6 DEF item
    <2> QED
      BY <2>2, <2>3, <2>4, <2>5, <2>6
  <1> QED
    BY <1>1, <1>2

(* The counters keep their types.                                          *)
LEMMA CountsStep ==
    LineOK /\ Counts /\ [LaserNext]_laser_vars => Counts'
  <1> SUFFICES ASSUME LineOK, Counts, [LaserNext]_laser_vars PROVE Counts'
    OBVIOUS
  <1> USE LaserAssumption
  <1>1. CASE UNCHANGED receiver
    BY <1>1 DEF receiver, parser, counters, Counts
  <1>2. CASE Receive
    <2>1. stage' \in 0..2
      BY <1>2, ReceiveCounts
    <2>2. ASSUME NEW uart \in BOOLEAN, NEW parse \in BOOLEAN, NEW unexpected \in BOOLEAN,
                 Count(uart, parse, unexpected)
          PROVE  Counts'
      BY <2>1, <2>2 DEF Count, Counts
    <2>3. CASE UNCHANGED <<synchronised, clean_frames, destination, counters>>
      BY <2>1, <2>3 DEF counters, Counts
    <2>4. CASE Frame(Head(rx))
      <3>5. /\ clean_frames' = IF synchronised THEN clean_frames ELSE clean_frames + 1
            /\ synchronised' = (synchronised \/ clean_frames + 1 = SyncFrames)
            /\ frames_received' \in Nat /\ invalid_frames' \in Nat
            /\ UNCHANGED <<uart_errors, parse_errors, unexpected_values, sync_errors>>
        BY <2>4 DEF Frame, Counts
      <3>6. synchronised' \in BOOLEAN /\ clean_frames' \in 0..SyncFrames
            /\ (~synchronised' => clean_frames' < SyncFrames /\ ~synchronised)
        <4>1. CASE synchronised
          BY <3>5, <4>1 DEF Counts
        <4>2. CASE ~synchronised
          <5>1. clean_frames \in 0..SyncFrames /\ clean_frames < SyncFrames
            BY <4>2 DEF Counts
          <5>2. clean_frames' = clean_frames + 1
            BY <3>5, <4>2
          <5>3. synchronised' = (clean_frames + 1 = SyncFrames)
            BY <3>5, <4>2
          <5>4. synchronised' \in BOOLEAN /\ (~synchronised' => clean_frames + 1 # SyncFrames)
            BY <5>3, Zenon
          <5>5. clean_frames' \in 0..SyncFrames
            BY <5>1, <5>2
          <5>6. clean_frames + 1 # SyncFrames => clean_frames' < SyncFrames
            BY <5>1, <5>2
          <5> QED
            BY <4>2, <5>4, <5>5, <5>6, Zenon
        <4> QED
          BY <4>1, <4>2
      <3> QED
        BY <2>1, <3>5, <3>6 DEF Counts
    <2> QED
      BY <1>2, <2>2, <2>3, <2>4, ReceiveCounts
  <1> QED
    BY <1>1, <1>2, OnlyReceive

(* The counters stay consistent with each other and with what was lost.    *)
LEMMA TalliesStep ==
    LineOK /\ TaskOK /\ Counts /\ Reception /\ Tallies /\ [LaserNext]_laser_vars /\ ~DrainQuiet
    => Tallies'
  <1> SUFFICES ASSUME LineOK, TaskOK, Counts, Reception, Tallies, [LaserNext]_laser_vars, ~DrainQuiet
               PROVE  Tallies'
    OBVIOUS
  <1> USE LaserAssumption
  <1>1. CASE Receive
    <2>1. UNCHANGED disturbed /\ Head(rx) \in Items /\ (AfterLoss \/ InPlace \/ OutOfPlace \/ Completes)
      BY <1>1, ReceiveKinds
    <2>2. CASE AfterLoss
      BY <2>1, <2>2 DEF AfterLoss, Count, Tallies, Counts
    <2>3. CASE InPlace
      BY <2>1, <2>3 DEF InPlace, counters, Tallies
    <2>4. CASE OutOfPlace
      BY <2>1, <2>4 DEF OutOfPlace, Count, Tallies, Counts
    <2>5. CASE Completes
      <3> DEFINE m == Head(rx).m
      <3>1. m \in Nat
        BY <2>1, PlaceKnown
      <3>2. acc = <<m, m>> /\ Append(<<m, m>>, m) = <<m, m, m>>
        BY <2>5, <3>1, Longer DEF Completes
      <3> HIDE DEF m
      <3>3. destination' = <<m, m, m>> \/ destination' = destination
        BY <2>5, <3>2 DEF Completes, Frame, m
      <3>4. destination' = <<>> \/ \E a \in Nat : destination' = <<a, a, a>>
        BY <3>1, <3>3 DEF Tallies
      <3>5. UNCHANGED <<uart_errors, parse_errors, unexpected_values, sync_errors>>
            /\ (synchronised => synchronised')
        BY <2>5 DEF Completes, Frame
      <3> QED
        BY <2>1, <3>4, <3>5 DEF Tallies
    <2> QED
      BY <2>1, <2>2, <2>3, <2>4, <2>5
  <1>2. CASE ~Receive
    <2>1. UNCHANGED receiver
      BY <1>2, OnlyReceive
    <2>2. disturbed' = disturbed \/ disturbed' = TRUE
      BY <1>2 DEF LaserNext, Task, Boot, Busy, Answer, Emit, Stop, Probe, Command, Send,
         ReadReply, Timeout, WriteFails, Drain, history, laser_vars, LineOK
    <2> QED
      BY <2>1, <2>2 DEF receiver, counters, Tallies
  <1> QED
    BY <1>1, <1>2

(* The last two bytes after another one.                                   *)
LEMMA LastTwo ==
    ASSUME NEW s \in Seq(Items), Len(s) <= 2, NEW item \in Items,
           NEW u, u = IF Len(s) < 2 THEN Append(s, item) ELSE <<s[2], item>>
    PROVE  /\ u \in Seq(Items) /\ Len(u) \in 1..2 /\ u[Len(u)] = item /\ u # <<>>
           /\ Len(u) = 2 => s # <<>> /\ u[1] = s[Len(s)] /\ u[2] = item
  <1>1. CASE Len(s) = 0
    BY <1>1
  <1>2. CASE Len(s) = 1
    BY <1>2
  <1>3. CASE Len(s) = 2
    <2>1. u = <<s[2], item>> /\ s[2] \in Items
      BY <1>3
    <2>2. u \in Seq(Items)
      BY <2>1
    <2>3. Len(u) = 2 /\ u[1] = s[2] /\ u[2] = item
      BY <2>1
    <2> QED
      BY <1>3, <2>2, <2>3
  <1>4. Len(s) \in Nat
    OBVIOUS
  <1> QED
    BY <1>1, <1>2, <1>3, <1>4

(* The parser's stage and accumulator follow the last two bytes.           *)
LEMMA TrackedStep ==
    LineOK /\ Tracked /\ [LaserNext]_laser_vars => Tracked'
  <1> SUFFICES ASSUME LineOK, Tracked, [LaserNext]_laser_vars PROVE Tracked'
    OBVIOUS
  <1>1. CASE UNCHANGED receiver
    BY <1>1 DEF receiver, parser, Tracked
  <1>2. CASE Receive
    <2> DEFINE item == Head(rx)
    <2>1. item \in Items
      BY <1>2 DEF Receive, LineOK
    <2>2. CASE last' = <<>>
      BY <2>2 DEF Tracked
    <2>3. CASE item # Fault
      <3>1. /\ stage' = Parse(item).stage /\ acc' = Accumulate(item)
            /\ last' = IF Len(last) < 2 THEN Append(last, item) ELSE <<last[2], item>>
        BY <1>2, <2>3 DEF Receive
      <3> HIDE DEF item
      <3>2. last \in Seq(Items) /\ Len(last) <= 2
        BY DEF Tracked
      <3>3. /\ last' \in Seq(Items) /\ Len(last') \in 1..2 /\ last'[Len(last')] = item
            /\ last' # <<>>
            /\ Len(last') = 2 => last # <<>> /\ last'[1] = last[Len(last)] /\ last'[2] = item
        BY <2>1, <3>1, <3>2, LastTwo
      <3>4. item.flags = "L" => stage' = 1 /\ acc' = <<item.m>>
        BY <3>1 DEF Parse, Accumulate
      <3>5. ASSUME Len(last') = 2, last'[1].flags = "L", last'[2].flags = "M"
            PROVE  stage' = 2 /\ acc' = <<last'[1].m, last'[2].m>>
        <4>1. last # <<>> /\ last[Len(last)].flags = "L" /\ item.flags = "M"
          BY <3>3, <3>5
        <4>2. stage = 1 /\ acc = <<last[Len(last)].m>>
          BY <4>1 DEF Tracked
        <4>3. stage' = 2 /\ acc' = Append(acc, item.m)
          BY <3>1, <4>1, <4>2 DEF Parse, Accumulate
        <4>4. last[Len(last)] \in Items
          BY <3>2, <4>1
        <4>5. Append(<<last[Len(last)].m>>, item.m) = <<last[Len(last)].m, item.m>>
          BY <2>1, <4>4, PlaceKnown, Longer
        <4> QED
          BY <3>3, <3>5, <4>2, <4>3, <4>5
      <3> QED
        BY <3>3, <3>4, <3>5 DEF Tracked
    <2> QED
      BY <1>2, <2>2, <2>3 DEF Receive
  <1> QED
    BY <1>1, <1>2, OnlyReceive

-----------------------------------------------------------------------------
(* Nothing is parsed that the sensor did not send *)

(* An item is taken out of the buffer and parsed.                          *)
LEMMA ReceiveParsing ==
    ASSUME LineOK, TaskOK, Counts, Tallies, Reception, Receive
    PROVE  Parsing(rx)'
  <1> DEFINE s == Tail(rx)
             b == PlaceAfter(s, 0, next)
             k == NumberAfter(s, 0, next)
             item == Head(rx)
             p == Place(item)
  <1>1. /\ rx \in Seq(Items) /\ rx # <<>> /\ item \in Items /\ rx' = s
        /\ UNCHANGED <<next, disturbed>> /\ Parsing(rx)
        /\ AfterLoss \/ InPlace \/ OutOfPlace \/ Completes
    BY ReceiveKinds DEF sensor
  <1>2. next \in [m : Nat, byte : 1..3]
    BY <1>1 DEF Parsing, LineOK
  <1>3. /\ Stream(s, next) /\ b \in 0..3
        /\ PlaceAfter(rx, 0, next) = p /\ NumberAfter(rx, 0, next) = item.m
        /\ item = Fault \/ b = 0 \/ Follows(p, item.m, b, k)
    BY <1>1, <1>2, StreamTail DEF Parsing
  <1>4. s \in Seq(Items) /\ Len(s) = Len(rx) - 1 /\ Len(rx) \in Nat
        /\ \A i \in 1..Len(s) : s[i] = rx[i + 1] /\ i + 1 \in 1..Len(rx)
    BY <1>1
  <1>5. ~disturbed => b # 0 /\ item # Fault /\ \A i \in 1..Len(s) : s[i] # Fault
    <2> SUFFICES ASSUME ~disturbed
                 PROVE  b # 0 /\ item # Fault /\ \A i \in 1..Len(s) : s[i] # Fault
      OBVIOUS
    <2>1. \A i \in 1..Len(rx) : rx[i] # Fault
      BY <1>1 DEF Parsing
    <2>2. \A i \in 1..Len(s) : s[i] # Fault
      BY <1>4, <2>1
    <2>3. item # Fault
      BY <1>1, <2>1
    <2>4. b # 0
      <3>1. CASE Len(s) = 0
        BY <1>2, <3>1 DEF PlaceAfter
      <3>2. CASE Len(s) # 0
        <4>1. 1 \in 1..Len(s) /\ 0 < Len(s)
          BY <1>4, <3>2
        <4>2. IsByte(s[1])
          BY <1>3, <2>2, <4>1 DEF Stream
        <4> QED
          BY <4>1, <4>2 DEF PlaceAfter, IsByte
      <3> QED
        BY <3>1, <3>2
    <2> QED
      BY <2>2, <2>3, <2>4
  <1>6. /\ PlaceAfter(rx, 0, next)' = b /\ NumberAfter(rx, 0, next)' = k
        /\ Stream(rx, next)' /\ next'.byte \in 1..3
        /\ (\A i \in 1..Len(s) : s[i] # Fault) => (\A i \in 1..Len(rx) : rx[i] # Fault)'
    BY <1>1, <1>2, <1>3
  <1>7. synchronised => parse_errors + Pending(stage, p) <= 2 * uart_errors
    BY <1>1, <1>3 DEF Parsing
  <1>8. /\ frames_received \in Nat /\ uart_errors \in Nat /\ parse_errors \in Nat
        /\ sync_errors \in Nat
        /\ synchronised \in BOOLEAN /\ (~synchronised => parse_errors = 0 /\ uart_errors = 0)
    BY DEF Tallies, Counts
  <1>9. (p = 1 <=> item.flags = "L") /\ (p = 2 <=> item.flags = "M") /\ (p = 3 <=> item.flags = "H")
        /\ item.m \in Nat
    BY <1>1, PlaceKnown
  <1> HIDE DEF b, k, p, item
  <1>11. CASE AfterLoss
    <2>1. /\ stage' = 0 /\ disturbed /\ synchronised' = synchronised
          /\ parse_errors' = parse_errors /\ frames_received' = frames_received
          /\ uart_errors' = uart_errors + IF synchronised THEN 1 ELSE 0
          /\ sync_errors' = sync_errors + IF synchronised THEN 0 ELSE 1
      BY <1>8, <1>11 DEF AfterLoss, Count
    <2>2. synchronised => parse_errors <= 2 * uart_errors
      BY <1>3, <1>7, <1>8 DEF Pending
    <2>3. synchronised' => parse_errors' + Pending(stage', b) <= 2 * uart_errors'
      BY <1>3, <1>8, <2>1, <2>2 DEF Pending
    <2> QED
      BY <1>1, <1>6, <2>1, <2>3 DEF Parsing
  <1>12. CASE InPlace
    <2>1. /\ stage \in 0..1 /\ stage' = stage + 1 /\ p = stage + 1
          /\ stage = 0 => acc' = <<item.m>>
          /\ stage = 1 => acc' = <<item.m, item.m>>
          /\ UNCHANGED <<synchronised, parse_errors, uart_errors, sync_errors, frames_received>>
      BY <1>9, <1>12 DEF InPlace, counters, item
    <2>2. b = 0 \/ (b = p + 1 /\ k = item.m)
      <3>1. item # Fault
        BY <1>9, <2>1, ItemsKnown
      <3> QED
        BY <1>3, <2>1, <3>1 DEF Follows
    <2>3. synchronised' => parse_errors' + Pending(stage', b) <= 2 * uart_errors'
      BY <1>7, <1>8, <2>1 DEF Pending
    <2>4. /\ stage' = 1 => \E a \in Nat : acc' = <<a>> /\ (b = 0 \/ (b = 2 /\ k = a))
          /\ stage' = 2 => \E a \in Nat : acc' = <<a, a>> /\ (b = 0 \/ (b = 3 /\ k = a))
      BY <1>9, <2>1, <2>2
    <2>5. ~disturbed => b = stage' + 1
      BY <1>5, <2>1, <2>2
    <2> QED
      BY <1>1, <1>5, <1>6, <2>1, <2>3, <2>4, <2>5 DEF Parsing
  <1>13. CASE OutOfPlace
    <2>1. /\ stage = 0 /\ stage' = 0 /\ disturbed /\ p \in {2, 3} /\ synchronised' = synchronised
          /\ frames_received' = frames_received /\ uart_errors' = uart_errors
          /\ parse_errors' = parse_errors + IF synchronised THEN 1 ELSE 0
          /\ sync_errors' = sync_errors + IF synchronised THEN 0 ELSE 1
      BY <1>8, <1>13 DEF OutOfPlace, Count, item, p
    <2>2. b = 0 \/ (p = 2 /\ b = 3) \/ (p = 3 /\ b = 1)
      <3>1. item # Fault
        BY <1>9, <2>1, ItemsKnown
      <3> QED
        BY <1>3, <2>1, <3>1 DEF Follows
    <2>3. synchronised' => parse_errors' + Pending(stage', b) <= 2 * uart_errors'
      BY <1>7, <1>8, <2>1, <2>2 DEF Pending
    <2> QED
      BY <1>1, <1>6, <2>1, <2>3 DEF Parsing
  <1>14. CASE Completes
    <2>1. /\ stage = 2 /\ stage' = 0 /\ p = 3
          /\ frames_received' = frames_received + IF synchronised' THEN 1 ELSE 0
          /\ UNCHANGED <<parse_errors, uart_errors, sync_errors>>
      BY <1>9, <1>14 DEF Completes, Frame, item
    <2>2. b = 0 \/ b = 1
      <3>1. item # Fault
        BY <1>9, <2>1, ItemsKnown
      <3> QED
        BY <1>3, <2>1, <3>1 DEF Follows
    <2>3. parse_errors' + Pending(stage', b) <= 2 * uart_errors'
      BY <1>7, <1>8, <2>1, <2>2 DEF Pending
    <2>4. ~disturbed => b = stage' + 1
      BY <1>5, <2>1, <2>2
    <2> QED
      BY <1>1, <1>5, <1>6, <2>1, <2>3, <2>4 DEF Parsing
  <1> QED
    BY <1>1, <1>11, <1>12, <1>13, <1>14

(* Another byte is sent while s is unparsed: it joins s or is reported     *)
(* lost there.                                                             *)
LEMMA EmitParsing ==
    ASSUME LineOK, TaskOK, Setup, Started,
           NEW in_range \in BOOLEAN, NEW lost \in BOOLEAN, Emit(in_range, lost),
           Parsing(Unparsed), Counts
    PROVE  Parsing(Unparsed)'
  <1> DEFINE s == Unparsed
             item == [flags |-> <<"L", "M", "H", "L", "M", "X">>[next.byte], m |-> next.m,
                      in_range |-> in_range]
             b == PlaceAfter(s, 0, next)
             k == NumberAfter(s, 0, next)
             c == PlaceAfter(Unparsed', 0, next')
             l == NumberAfter(Unparsed', 0, next')
  <1>1. /\ rx \in Seq(Items) /\ next \in [m : Nat, byte : 1..3] /\ next.m \in Nat \ {0}
    BY DEF LineOK, Parsing
  <1>2. /\ s \in Seq(Items)
        /\ Unparsed' = IF pc = "running" THEN rx' ELSE Tail(rx')
        /\ pc # "running" => rx # <<>> /\ rx[1] = Prompt
    BY <1>1 DEF Unparsed, Started, AcceptedNow, Emit, task
  <1>3. "DistanceOnly" \in settings /\ baud = sensor_baud
    <2>1. CASE pc = "running"
      BY <2>1 DEF Setup, Settings, TaskOK
    <2>2. CASE pc = "command_wait" /\ n = 5 /\ AcceptedNow
      BY <2>2 DEF Setup, AcceptedBefore, AcceptedNow, TaskOK
    <2> QED
      BY <2>1, <2>2 DEF Started
  <1>4. /\ next' \in [m : Nat, byte : 1..3]
        /\ Follows(next.byte, next.m, next'.byte, next'.m)
    <2>1. next' = IF next.byte >= 3 THEN [m |-> next.m + 1, byte |-> 1]
                                    ELSE [next EXCEPT !.byte = @ + 1]
      BY <1>3 DEF Emit
    <2>2. CASE next.byte = 3
      <3>1. next' = [m |-> next.m + 1, byte |-> 1]
        BY <2>1, <2>2
      <3>2. next'.m = next.m + 1 /\ next'.byte = 1 /\ next' \in [m : Nat, byte : 1..3]
        BY <1>1, <3>1
      <3> QED
        BY <1>1, <2>2, <3>2 DEF Follows
    <2>3. CASE next.byte \in 1..2
      <3>1. next' = [next EXCEPT !.byte = next.byte + 1]
        BY <1>1, <2>1, <2>3
      <3>2. next'.m = next.m /\ next'.byte = next.byte + 1 /\ next' \in [m : Nat, byte : 1..3]
        BY <1>1, <2>3, <3>1
      <3> QED
        BY <1>1, <2>3, <3>2 DEF Follows
    <2> QED
      BY <1>1, <2>2, <2>3
  <1>5. item \in Items /\ Place(item) = next.byte /\ item.m = next.m /\ item # Fault
    <2>1. /\ next.byte = 1 => item.flags = "L"
          /\ next.byte = 2 => item.flags = "M"
          /\ next.byte = 3 => item.flags = "H"
      OBVIOUS
    <2>2. item.flags \in {"L", "M", "H"} /\ item.m = next.m /\ item.in_range = in_range
      BY <1>1, <2>1
    <2>3. item \in Items
      BY <1>1, <2>2 DEF Items, Flags
    <2> HIDE DEF item
    <2> QED
      BY <1>1, <2>1, <2>2, <2>3, PlaceKnown, ItemsKnown
  <1>6. /\ rx' = IF lost THEN Lose(rx) ELSE Append(rx, item)
        /\ disturbed' = IF lost THEN TRUE ELSE disturbed
        /\ UNCHANGED <<stage, acc, synchronised, uart_errors, parse_errors, sync_errors,
                       frames_received>>
    BY <1>3 DEF Emit, receiver, parser, counters, LineOK
  <1> HIDE DEF item
  <1>7. Unparsed' = IF lost THEN Lose(s) ELSE Append(s, item)
    <2>1. CASE pc = "running"
      BY <1>2, <1>6, <2>1 DEF Unparsed
    <2>2. CASE pc # "running"
      <3>1. s = Tail(rx) /\ rx # <<>> /\ Unparsed' = Tail(rx')
        BY <1>2, <2>2 DEF Unparsed
      <3>2. ASSUME NEW it \in Items PROVE Tail(Append(rx, it)) = Append(Tail(rx), it)
        <4> DEFINE u == Tail(Append(rx, it))
                   v == Append(Tail(rx), it)
        <4>1. /\ u \in Seq(Items) /\ v \in Seq(Items) /\ Len(u) = Len(rx) /\ Len(v) = Len(rx)
              /\ Len(rx) \in Nat \ {0}
          BY <1>1, <3>1
        <4>2. \A i \in 1..Len(rx) : u[i] = v[i]
          BY <1>1, <3>1
        <4> HIDE DEF u, v
        <4>3. u = v
          BY <4>1, <4>2, SeqEqual
        <4> QED
          BY <4>3 DEF u, v
      <3>3. CASE ~lost
        BY <1>5, <1>6, <3>1, <3>2, <3>3
      <3>4. CASE lost
        <4>1. rx' = Lose(rx)
          BY <1>6, <3>4
        <4>2. CASE Len(rx) = 1
          <5>1. Last(rx) # Fault
            BY <1>2, <2>2, <4>2, ItemsKnown DEF Last
          <5>2. s = <<>>
            BY <1>1, <3>1, <4>2
          <5> QED
            BY <3>1, <3>2, <3>4, <4>1, <5>1, <5>2, ItemsKnown DEF Lose
        <4>3. CASE Len(rx) # 1
          <5>1. s # <<>> /\ Last(s) = Last(rx)
            <6>1. Len(rx) \in Nat \ {0, 1} /\ Len(s) = Len(rx) - 1
              BY <1>1, <3>1, <4>3
            <6>2. \A i \in 1..Len(s) : s[i] = rx[i + 1]
              BY <1>1, <3>1
            <6>3. Len(s) \in 1..Len(s) /\ Len(s) + 1 = Len(rx)
              BY <6>1
            <6>4. s[Len(s)] = rx[Len(rx)]
              BY <6>2, <6>3
            <6> QED
              BY <6>1, <6>4 DEF Last
          <5>2. CASE Last(rx) = Fault
            BY <3>1, <3>4, <4>1, <5>1, <5>2 DEF Lose
          <5>3. CASE Last(rx) # Fault
            BY <3>1, <3>2, <3>4, <4>1, <5>1, <5>3, ItemsKnown DEF Lose
          <5> QED
            BY <5>2, <5>3
        <4> QED
          BY <4>2, <4>3
      <3> QED
        BY <3>3, <3>4
    <2> QED
      BY <2>1, <2>2
  <1>8. Stream(s, next)
    BY DEF Parsing
  <1>9. /\ Stream(Unparsed', next') /\ Len(Unparsed') <= Len(s) + 1 /\ Len(Unparsed') \in Nat
        /\ c = 0 \/ (c = b /\ l = k)
        /\ ~lost => c = b /\ l = k
    <2> HIDE DEF s
    <2>1. CASE lost
      <3>1. Unparsed' = Lose(s)
        BY <1>7, <2>1
      <3>2. /\ Stream(Lose(s), next')
            /\ \/ PlaceAfter(Lose(s), 0, next') = 0
               \/ /\ PlaceAfter(Lose(s), 0, next') = PlaceAfter(s, 0, next)
                  /\ NumberAfter(Lose(s), 0, next') = NumberAfter(s, 0, next)
        BY <1>1, <1>2, <1>4, <1>8, StreamLose
      <3>3. Len(Lose(s)) \in Nat /\ Len(Lose(s)) <= Len(s) + 1
        BY <1>2, LoseAdds
      <3> QED
        BY <2>1, <3>1, <3>2, <3>3
    <2>2. CASE ~lost
      <3>1. Unparsed' = Append(s, item)
        BY <1>7, <2>2
      <3>2. /\ Stream(Append(s, item), next')
            /\ PlaceAfter(Append(s, item), 0, next') = PlaceAfter(s, 0, next)
            /\ NumberAfter(Append(s, item), 0, next') = NumberAfter(s, 0, next)
        BY <1>1, <1>2, <1>4, <1>5, <1>8, StreamAppend
      <3>3. Len(Append(s, item)) = Len(s) + 1 /\ Len(s) \in Nat
        BY <1>2, <1>5
      <3> QED
        BY <2>2, <3>1, <3>2, <3>3
    <2> QED
      BY <2>1, <2>2
  <1>10. ~disturbed' => \A i \in 1..Len(Unparsed') : Unparsed'[i] # Fault
    <2> SUFFICES ASSUME ~disturbed' PROVE \A i \in 1..Len(Unparsed') : Unparsed'[i] # Fault
      OBVIOUS
    <2>1. ~lost /\ ~disturbed
      BY <1>6
    <2>2. Unparsed' = Append(s, item) /\ \A i \in 1..Len(s) : s[i] # Fault
      BY <1>7, <2>1 DEF Parsing
    <2> HIDE DEF s, item
    <2>3. item # Fault /\ s \in Seq(Items)
      BY <1>2, <1>5
    <2>4. /\ Len(Append(s, item)) = Len(s) + 1 /\ Len(s) \in Nat
          /\ \A i \in 1..Len(s) : Append(s, item)[i] = s[i]
          /\ Append(s, item)[Len(s) + 1] = item
      BY <2>3
    <2>5. ASSUME NEW i \in 1..(Len(s) + 1) PROVE Append(s, item)[i] # Fault
      <3>1. CASE i \in 1..Len(s)
        BY <2>2, <2>4, <3>1
      <3>2. CASE i = Len(s) + 1
        BY <2>3, <2>4, <3>2
      <3> QED
        BY <2>4, <3>1, <3>2
    <2> QED
      BY <2>2, <2>4, <2>5
  <1>11. /\ stage \in 0..2
         /\ stage = 1 => \E a \in Nat : acc = <<a>> /\ (b = 0 \/ (b = 2 /\ k = a))
         /\ stage = 2 => \E a \in Nat : acc = <<a, a>> /\ (b = 0 \/ (b = 3 /\ k = a))
         /\ ~disturbed => b = stage + 1
         /\ synchronised => parse_errors + Pending(stage, b) <= 2 * uart_errors
    BY DEF Parsing
  <1> HIDE DEF b, k, s
  <1>12. /\ stage = 1 => \E a \in Nat : acc = <<a>> /\ (c = 0 \/ (c = 2 /\ l = a))
         /\ stage = 2 => \E a \in Nat : acc = <<a, a>> /\ (c = 0 \/ (c = 3 /\ l = a))
    BY <1>9, <1>11
  <1>13. ~disturbed' => c = stage + 1
    BY <1>6, <1>9, <1>11
  <1>14. synchronised => parse_errors + Pending(stage, c) <= 2 * uart_errors
    BY <1>9, <1>11 DEF Pending, Counts
  <1>15. stage' = 1 => \E a \in Nat : acc' = <<a>> /\ (c = 0 \/ (c = 2 /\ l = a))
    BY <1>6, <1>12
  <1>16. stage' = 2 => \E a \in Nat : acc' = <<a, a>> /\ (c = 0 \/ (c = 3 /\ l = a))
    BY <1>6, <1>12
  <1>17. /\ next'.byte \in 1..3 /\ stage' \in 0..2 /\ (~disturbed' => c = stage' + 1)
         /\ synchronised' => parse_errors' + Pending(stage', c) <= 2 * uart_errors'
    BY <1>4, <1>6, <1>11, <1>13, <1>14
  <1> QED
    BY <1>9, <1>10, <1>15, <1>16, <1>17 DEF Parsing

(* Parser, buffer and sensor stay in step.                                 *)
LEMMA ReceptionStep ==
    LineOK /\ TaskOK /\ Setup /\ Fresh /\ Counts /\ Tallies /\ Reception
    /\ [LaserNext]_laser_vars /\ ~DrainQuiet => Reception'
  <1> SUFFICES ASSUME LineOK, TaskOK, Setup, Fresh, Counts, Tallies, Reception,
                      [LaserNext]_laser_vars, ~DrainQuiet, Started'
               PROVE  Parsing(Unparsed)'
    BY DEF Reception
  <1>1. \/ pc' = "running"
        \/ pc' = "command_wait" /\ n' = 5 /\ rx' # <<>> /\ Head(rx') = Prompt /\ ~reply_error'
           /\ outputting'
    BY DEF Started, AcceptedNow
  <1>2. ASSUME Started, Unparsed' = Unparsed, UNCHANGED <<receiver, next, disturbed>>
        PROVE  Parsing(Unparsed)'
    <2>1. Parsing(Unparsed)
      BY <1>2 DEF Reception
    <2>2. UNCHANGED <<stage, acc, synchronised, uart_errors, parse_errors, sync_errors,
                      frames_received, next, disturbed>>
      BY <1>2 DEF receiver, parser, counters
    <2> HIDE DEF Unparsed
    <2> QED
      BY <1>2, <2>1, <2>2 DEF Parsing
  <1>3. CASE Boot \/ Busy \/ UNCHANGED laser_vars
    <2>1. UNCHANGED <<task, receiver, rx, tx, sensor_baud, outputting, settings, next, disturbed>>
      BY <1>3 DEF Boot, Busy, laser_vars, sensor, history
    <2>2. Started /\ Unparsed' = Unparsed
      BY <2>1 DEF Started, AcceptedNow, Unparsed, task
    <2> QED
      BY <1>2, <2>1, <2>2
  <1>4. CASE Stop \/ Probe \/ Drain
    BY <1>1, <1>4 DEF Stop, Probe, Drain, Go, task
  <1>5. CASE Timeout \/ WriteFails
    BY <1>1, <1>5, OutcomeLeads DEF Timeout, WriteFails
  <1>6. CASE Command
    <2>1. pc = "command" /\ n' = n /\ rx' = rx /\ pc' = "command_wait"
      BY <1>6 DEF Command, Go, Send
    <2> QED
      BY <1>1, <2>1 DEF Setup
  <1>7. CASE ReadReply
    <2>1. Waiting /\ rx # <<>> /\ rx' = Tail(rx) /\ UNCHANGED <<receiver, next, disturbed>>
      BY <1>7 DEF ReadReply, sensor, history
    <2>2. ~(pc = "command_wait" /\ n >= 2 /\ Unanswered)
      BY <2>1 DEF Unanswered
    <2>3. ASSUME pc = "command_wait", n >= 2, RefusedNow PROVE FALSE
      <3>1. CASE rx = <<Refusal, Prompt>>
        <4>1. Head(rx) = Refusal
          BY <3>1, Short
        <4>2. reply_error' /\ UNCHANGED <<pc, n>>
          BY <1>7, <4>1, ItemsKnown DEF ReadReply
        <4> QED
          BY <1>1, <2>1, <4>2 DEF Waiting
      <3>2. CASE rx = <<Prompt>> /\ reply_error
        <4>1. Head(rx) = Prompt
          BY <3>2, Short
        <4>2. Outcome("error")
          BY <1>7, <3>2, <4>1, ItemsKnown DEF ReadReply
        <4> QED
          BY <1>1, <4>2, OutcomeLeads
      <3> QED
        BY <2>3, <3>1, <3>2 DEF RefusedNow
    <2>4. pc = "command_wait" /\ n = 5
      <3>1. CASE UNCHANGED <<pc, n>>
        BY <1>1, <2>1, <3>1 DEF Waiting
      <3>2. ASSUME NEW r \in {"ok", "error", "none"}, Outcome(r) PROVE pc = "command_wait" /\ n = 5
        BY <1>1, <2>1, <3>2, OutcomeLeads DEF Waiting
      <3> QED
        BY <1>7, <3>1, <3>2 DEF ReadReply
    <2>5. AcceptedNow
      BY <2>2, <2>3, <2>4 DEF Setup
    <2>6. Outcome("ok")
      BY <1>7, <2>5, ItemsKnown DEF ReadReply, AcceptedNow
    <2>7. pc' = "running"
      BY <2>4, <2>6 DEF Outcome, Go
    <2>8. Started /\ Unparsed' = Unparsed
      BY <2>1, <2>4, <2>5, <2>7 DEF Started, Unparsed
    <2> QED
      BY <1>2, <2>1, <2>8
  <1>8. CASE Receive
    <2>1. pc = "running" /\ pc' = "running"
      BY <1>8 DEF Receive, task
    <2>2. Unparsed' = rx'
      BY <2>1 DEF Unparsed
    <2>3. Parsing(rx)'
      BY <1>8, ReceiveParsing
    <2> QED
      BY <2>2, <2>3 DEF Parsing
  <1>9. ASSUME NEW ok \in BOOLEAN, Answer(ok) PROVE Parsing(Unparsed)'
    <2>1. tx # <<>> /\ UNCHANGED <<pc, n, baud, receiver, sensor_baud, disturbed>>
      BY <1>9 DEF Answer, task, history
    <2>2. pc = "command_wait" /\ n = 5
      BY <1>1, <2>1 DEF Setup
    <2>3. Unanswered /\ baud = Required
      BY <2>1, <2>2 DEF Setup, RefusedNow, AcceptedNow, TaskOK
    <2>4. rx = <<>> /\ ~outputting /\ sensor_baud = Required
      BY <2>1, <2>3 DEF Unanswered
    <2>5. outputting'
      BY <1>1, <2>1, <2>2
    <2>6. ok
      BY <1>9, <2>4, <2>5 DEF Answer
    <2>7. rx' = <<Prompt>>
      BY <1>9, <2>3, <2>4, <2>6 DEF Answer, Prompt
    <2>8. Unparsed' = <<>>
      BY <2>1, <2>2, <2>7, Short DEF Unparsed
    <2>9. next' = [next EXCEPT !.byte = 1]
      BY <1>9, <2>4, <2>5 DEF Answer
    <2>10. next'.byte = 1 /\ next'.m \in Nat \ {0}
      BY <2>9 DEF LineOK
    <2>11. /\ stage' = 0 /\ synchronised' = FALSE /\ frames_received' = 0 /\ uart_errors' = 0
           /\ parse_errors' = 0 /\ sync_errors' = 0
      BY <2>1, <2>2 DEF Fresh, receiver, parser, counters
    <2>12. Len(Unparsed') = 0 /\ PlaceAfter(Unparsed', 0, next') = 1
      BY <2>8, <2>10 DEF PlaceAfter
    <2> QED
      BY <2>10, <2>11, <2>12 DEF Parsing, Stream
  <1>10. ASSUME NEW in_range \in BOOLEAN, NEW lost \in BOOLEAN, Emit(in_range, lost)
         PROVE  Parsing(Unparsed)'
    <2>1. UNCHANGED <<pc, n>> /\ outputting
      BY <1>10 DEF Emit, task
    <2>2. Started
      <3>1. CASE pc = "running"
        BY <3>1 DEF Started
      <3>2. CASE pc = "command_wait" /\ n = 5
        BY <2>1, <3>2 DEF Setup, Unanswered, RefusedNow, Started
      <3> QED
        BY <1>1, <2>1, <3>1, <3>2
    <2> QED
      BY <1>10, <2>2, EmitParsing DEF Reception
  <1> QED
    BY <1>3, <1>4, <1>5, <1>6, <1>7, <1>8, <1>9, <1>10 DEF LaserNext, Task

(* A drain that ends when the sensor has finished leaves nothing that could *)
(* be read as the answer to a later command, and every counter at zero.    *)
LEMMA DrainStep ==
    LineOK /\ Matched /\ Fresh /\ DrainQuiet /\ overdue' = 0 /\ sensor_baud = Required =>
      Setup' /\ Reception' /\ Tallies'
  <1> SUFFICES ASSUME LineOK, Matched, Fresh, DrainQuiet, overdue' = 0, sensor_baud = Required
               PROVE  Setup' /\ Reception' /\ Tallies'
    OBVIOUS
  <1>1. /\ pc = "drain" /\ pc' = "command" /\ n' = 2 /\ rx' = <<>> /\ UNCHANGED receiver
        /\ tx' = tx /\ outputting' = outputting /\ overdue' = Len(tx)
    BY DEF DrainQuiet, DrainEnds, Go, sensor
  <1>2. tx = <<>>
    BY <1>1 DEF LineOK
  <1>6. ~outputting
    BY <1>1, <1>2 DEF Matched, Stopping
  <1>3. Setup'
    BY <1>1, <1>2, <1>6 DEF Setup, AcceptedBefore
  <1>4. Reception'
    BY <1>1 DEF Reception, Started
  <1>5. Tallies'
    BY <1>1 DEF Fresh, receiver, counters, Tallies
  <1> QED
    BY <1>3, <1>4, <1>5

-----------------------------------------------------------------------------
(* Theorems *)

(* The invariant holds when the task is spawned.                           *)
LEMMA LaserInitial == LaserInit => LaserInv
  <1> SUFFICES ASSUME LaserInit PROVE LaserInv
    OBVIOUS
  <1> USE LaserAssumption
  <1>1. LineOK
    <2>1. next = [m |-> 1, byte |-> 1]
      BY DEF LaserInit
    <2>2. next \in [m : Nat \ {0}, byte : 1..6]
      BY <2>1
    <2>3. rx = <<>> /\ tx = <<>> /\ booted = FALSE /\ disturbed = FALSE /\ outputting \in BOOLEAN
          /\ overdue = 0 /\ settings \subseteq Settings
      BY DEF LaserInit
    <2>4. rx \in Seq(Items) /\ Len(rx) <= RxCap
      BY <2>3
    <2>5. tx \in Seq(Names)
      BY <2>3
    <2> QED
      BY <2>2, <2>3, <2>4, <2>5 DEF LineOK, Names
  <1>2. TaskOK
    <2>1. pc = "stop" /\ n = 1 /\ baud = 1 /\ sensor_baud \in 1..Bauds
      BY DEF LaserInit, Required
    <2>2. n \in 1..3 /\ baud \in 1..Bauds
      BY <2>1
    <2>3. reply_error \in BOOLEAN
      BY Zenon DEF LaserInit
    <2>4. /\ pc \notin {"probe", "probe_wait"} /\ pc \notin {"command", "command_wait"}
          /\ pc \notin {"drain", "running"} /\ pc # "probe_wait"
          /\ pc \notin {"stop_wait", "command", "command_wait", "drain", "running"}
      BY <2>1
    <2>5. pc \in {"stop", "stop_wait", "probe", "probe_wait", "command", "command_wait", "drain",
                 "running"}
      BY <2>1
    <2> QED
      BY <2>1, <2>2, <2>3, <2>4, <2>5, Zenon DEF TaskOK
  <1> USE DEF LaserInit
  <1>3. Setup
    BY DEF Setup
  <1>4. Fresh
    BY DEF Fresh
  <1>5. Reception
    BY DEF Reception, Started
  <1>6. Tallies
    BY DEF Tallies
  <1>8. Counts
    <2>1. clean_frames \in 0..SyncFrames /\ clean_frames < SyncFrames /\ stage \in 0..2
      OBVIOUS
    <2>2. /\ frames_received \in Nat /\ uart_errors \in Nat /\ parse_errors \in Nat
          /\ sync_errors \in Nat /\ invalid_frames \in Nat /\ unexpected_values \in Nat
      OBVIOUS
    <2>3. synchronised \in BOOLEAN
      BY Zenon
    <2> HIDE DEF LaserInit
    <2> QED
      BY <2>1, <2>2, <2>3, Zenon DEF Counts
  <1>7. Tracked
    BY DEF Tracked
  <1>9. Matched
    BY DEF Matched, Asleep, Garbled, Stopping, InOrder, Accepted
  <1> QED
    BY <1>1, <1>2, <1>3, <1>4, <1>5, <1>6, <1>7, <1>8, <1>9, Zenon DEF LaserInv

(* The line, the task and the parser agree about what has been sent, what  *)
(* has been answered and what has been lost.                               *)
THEOREM LaserInvariance == LaserSpec => []LaserInv
  <1>1. LaserInv /\ [LaserNext]_laser_vars => LaserInv'
    <2> SUFFICES ASSUME LaserInv, [LaserNext]_laser_vars PROVE LaserInv'
      OBVIOUS
    <2>1. (LineOK /\ TaskOK /\ Matched /\ Fresh /\ Counts /\ Tracked)'
      BY TaskStep, LineStep, MatchedStep, FreshStep, CountsStep, TrackedStep DEF LaserInv
    <2>3. sensor_baud' = sensor_baud
      BY OverdueKept
    <2>2. ASSUME overdue' = 0, sensor_baud = Required PROVE (Setup /\ Reception /\ Tallies)'
      <3>1. CASE DrainQuiet
        BY <2>2, <3>1, DrainStep DEF LaserInv
      <3>2. CASE ~DrainQuiet
        <4>1. Setup /\ Reception /\ Tallies
          BY <2>2, <3>2, OverdueKept DEF LaserInv
        <4> QED
          BY <3>2, <4>1, SetupStep, ReceptionStep, TalliesStep DEF LaserInv
      <3> QED
        BY <3>1, <3>2
    <2> QED
      BY <2>1, <2>2, <2>3 DEF LaserInv
  <1> QED
    BY <1>1, LaserInitial, PTL DEF LaserSpec

(* Type correctness of the laser model for any table of rates, buffer and  *)
(* line: detect_baudrate's attempts and rates, configure's commands, the   *)
(* parser's stage and the count of clean frames stay within their bounds.  *)
THEOREM LaserTypeCorrect == LaserSpec => []LaserTypeOK
  <1>1. LaserInv => LaserTypeOK
    <2> SUFFICES ASSUME LaserInv PROVE LaserTypeOK
      OBVIOUS
    <2> USE LaserAssumption DEF LaserInv
    <2>1. n \in CASE pc \in {"stop", "stop_wait"} -> 1..3
                  [] pc \in {"probe", "probe_wait"} -> 1..Bauds
                  [] OTHER -> 1..5
      BY DEF TaskOK
    <2>4. \A c \in 1..6 : counters[c] \in Nat
      BY DEF Counts, counters
    <2>5. Len(rx) <= RxCap /\ settings \subseteq Settings
      BY DEF LineOK
    <2>6. synchronised \in BOOLEAN /\ clean_frames \in 0..SyncFrames /\ stage \in 0..2
      BY DEF Counts
    <2> QED
      BY <2>1, <2>4, <2>5, <2>6 DEF LaserTypeOK, TaskOK
  <1> QED
    BY <1>1, LaserInvariance, PTL

(* laser_run only starts on a sensor at REQUIRED_BAUD that has accepted the *)
(* settings of configure, however many waits timed out and however often it *)
(* refused: all of them, if at most one answer was overdue when the drain's *)
(* 2 ms of silence ended, and otherwise all but the last overdue - 1.      *)
THEOREM OnlyConfiguredSensorsRun == LaserSpec => []SettingsAccepted
  <1>1. LaserInv => SettingsAccepted
    <2> SUFFICES ASSUME LaserInv, pc = "running"
                 PROVE  /\ baud = Required /\ sensor_baud = Required
                        /\ \A k \in 2..4 : k + overdue <= 5 => Commands[k] \in settings
                        /\ overdue = 0 => outputting
      BY DEF SettingsAccepted
    <2>1. baud = Required /\ sensor_baud = Required
      BY DEF LaserInv, TaskOK, Matched, Garbled
    <2>2. \A k \in 2..4 : k + overdue <= 5 => Commands[k] \in settings
      BY DEF LaserInv, Matched, Accepted
    <2>3. overdue = 0 => outputting
      BY <2>1 DEF LaserInv, Setup
    <2> QED
      BY <2>1, <2>2, <2>3
  <1> QED
    BY <1>1, LaserInvariance, PTL

(* A sensor at another rate never comes into service, and leaves the        *)
(* counters as they were.                                                  *)
LEMMA TalliesHold == LaserInv /\ overdue = 0 => Tallies
  <1>1. CASE sensor_baud = Required
    BY <1>1 DEF LaserInv
  <1>2. CASE LaserInv /\ sensor_baud # Required
    BY <1>2 DEF LaserInv, Matched, Garbled, Fresh, Tallies
  <1> QED
    BY <1>1, <1>2

(* What laser_run publishes was put together from the bytes of a single    *)
(* measurement, whichever bytes were lost (Parser::push_event and reset).  *)
THEOREM DistancesAreWhole == LaserSpec => []DistanceWhole
  <1>1. LaserInv => DistanceWhole
    <2> SUFFICES ASSUME LaserInv, overdue = 0,
                        NEW i \in 1..Len(destination), NEW j \in 1..Len(destination)
                 PROVE  destination[i] = destination[j]
      BY DEF DistanceWhole
    <2>3. Tallies
      BY TalliesHold
    <2>1. CASE destination = <<>>
      BY <2>1
    <2>2. ASSUME NEW a \in Nat, destination = <<a, a, a>> PROVE destination[i] = destination[j]
      <3>1. i \in 1..3 /\ j \in 1..3
        BY <2>2
      <3>2. \A x \in 1..3 : <<a, a, a>>[x] = a
        OBVIOUS
      <3> QED
        BY <2>2, <3>1, <3>2
    <2> QED
      BY <2>1, <2>2, <2>3 DEF Tallies
  <1> QED
    BY <1>1, LaserInvariance, PTL

(* The diagnostics of laser_run for any number of losses: none without a   *)
(* loss, at most two parse errors for a UART error, no unexpected value.   *)
THEOREM ErrorsHaveCauses == LaserSpec => []ErrorsExplained
  <1>1. LaserInv => ErrorsExplained
    <2> SUFFICES ASSUME LaserInv, overdue = 0 PROVE parse_errors <= 2 * uart_errors
      BY TalliesHold DEF ErrorsExplained, Tallies
    <2>1. CASE synchronised
      <3>1. pc = "running"
        BY <2>1 DEF LaserInv, Fresh
      <3>4. sensor_baud = Required
        BY <3>1 DEF LaserInv, Matched, Garbled
      <3>2. /\ parse_errors + Pending(stage, PlaceAfter(rx, 0, next)) <= 2 * uart_errors
            /\ next.byte \in 1..3 /\ rx \in Seq(Items)
        BY <2>1, <3>1, <3>4 DEF LaserInv, Reception, Started, Unparsed, Parsing, LineOK
      <3>3. Pending(stage, PlaceAfter(rx, 0, next)) \in Nat
        BY DEF Pending
      <3> QED
        BY <3>2, <3>3 DEF LaserInv, Counts
    <2>2. CASE ~synchronised
      BY <2>2, TalliesHold DEF Tallies
    <2> QED
      BY <2>1, <2>2
  <1> QED
    BY <1>1, LaserInvariance, PTL

(* Parser::push_event recovers within one measurement: whatever it has seen *)
(* before, three bytes of an in-range measurement in a row publish it.     *)
THEOREM WholeMeasurementsArePublished == LaserSpec => WholePublished
  <1>1. LaserInv /\ [LaserNext]_laser_vars =>
          [pc = "running" /\ rx # <<>> /\ rx' = Tail(rx) /\ Head(rx) # Fault /\ Len(last) = 2 =>
             LET item == Head(rx)
             IN  (/\ item.flags = "H" /\ item.in_range
                  /\ last[1].flags = "L" /\ last[2].flags = "M"
                  /\ last[1].m = item.m /\ last[2].m = item.m)
                 => destination' = <<item.m, item.m, item.m>>]_laser_vars
    <2> DEFINE item == Head(rx)
    <2> SUFFICES ASSUME LaserInv, [LaserNext]_laser_vars,
                        pc = "running", rx # <<>>, rx' = Tail(rx), item # Fault, Len(last) = 2,
                        item.flags = "H", item.in_range, last[1].flags = "L", last[2].flags = "M",
                        last[1].m = item.m, last[2].m = item.m
                 PROVE  destination' = <<item.m, item.m, item.m>>
      OBVIOUS
    <2> USE DEF LaserInv
    <2>1. rx \in Seq(Items) /\ item \in Items /\ item.m \in Nat
      BY PlaceKnown DEF LineOK
    <2>2. Len(rx') < Len(rx)
      BY <2>1
    <2>3. rx' # rx
      BY <2>2
    <2>4. ASSUME NEW in_range \in BOOLEAN, NEW lost \in BOOLEAN, Emit(in_range, lost) PROVE FALSE
      BY <2>1, <2>2, <2>4, LoseAdds DEF Emit
    <2>5. ASSUME NEW ok \in BOOLEAN, Answer(ok) PROVE FALSE
      <3> DEFINE text == IF ok THEN <<Text(">")>> ELSE <<Text("E"), Text(">")>>
      <3>1. text \in Seq(Items) /\ Len(text) \in 1..2
        BY ItemsKnown DEF Prompt, Refusal
      <3>2. rx' = rx \o text \/ rx' = Lose(rx)
        BY <2>5 DEF Answer
      <3> HIDE DEF text
      <3> QED
        BY <2>1, <2>2, <3>1, <3>2, LoseAdds
    <2>6. Receive
      BY <2>3, <2>4, <2>5 DEF LaserNext, Task, Boot, Busy, Stop, Probe, Command, ReadReply, Timeout,
         WriteFails, Drain, DrainQuiet, DrainEnds, Waiting, laser_vars
    <2>7. stage = 2 /\ acc = <<item.m, item.m>>
      BY DEF Tracked
    <2>8. Frame(item)
      <3>1. Parse(item) = [stage |-> 0, event |-> "Value"]
        BY <2>7 DEF Parse
      <3>2. /\ CASE Parse(item).event = "Pending" ->
                     UNCHANGED <<synchronised, clean_frames, destination, counters>>
                 [] Parse(item).event = "Resynchronised" -> Count(FALSE, TRUE, FALSE)
                 [] Parse(item).event = "Value" /\ item.flags = "X" -> Count(FALSE, FALSE, TRUE)
                 [] Parse(item).event = "Value" /\ item.flags = "H" -> Frame(item)
        BY <2>6 DEF Receive
      <3>3. Parse(item).event = "Value" /\ item.flags = "H"
        BY <3>1
      <3> HIDE DEF item
      <3> QED
        BY <3>2, <3>3
    <2>9. destination' = Append(acc, item.m)
      BY <2>8 DEF Frame
    <2> QED
      BY <2>1, <2>7, <2>9, Longer
  <1> QED
    BY <1>1, LaserInvariance, PTL DEF LaserSpec, WholePublished

=============================================================================
