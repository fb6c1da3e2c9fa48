---------------------------- MODULE OutputSafety ----------------------------
(***************************************************************************)
(* The output safety gate, comms-loss quieting and the reboot handshake.   *)
(*                                                                         *)
(* Core 0 owns arming: the host arms and disarms through the "arm"         *)
(* parameter, the control server disarms when its connection ends, and a   *)
(* reboot request disarms before it asks core 1 to quiesce.  Core 1 loads  *)
(* (armed, tripped) once per tick, runs the programme, decides what to     *)
(* drive and may only latch a trip.  Each load and store of "armed",       *)
(* "tripped" and the reboot state is a step of its own; what lies between  *)
(* two of them on one core is invisible to the other core and is part of   *)
(* the same step.  The two diagnostic counts are written with the trip:    *)
(* neither core decides anything by them.                                  *)
(***************************************************************************)
EXTENDS Naturals

CONSTANTS
    LastChannel  \* the highest DAC channel of an ungated rig

ASSUME RigAssumption == LastChannel \in Nat

(* What a command or a DAC channel can hold: the programme's zero, a value *)
(* inside the actuator window, one beyond it, the window's edge, any       *)
(* non-finite value, and the rig's safe output.                            *)
Commanded == {"zero", "inside", "beyond", "nonfinite"}
Levels == Commanded \cup {"edge", "safe"}

VARIABLES
    gated,              \* Rig::SAFETY_GATED, fixed
    \* Shared atomics
    armed, tripped,     \* Safety
    reboot,             \* RebootShared
    quieted, clamped,   \* the diagnostic tick counts, as "not zero"
    \* Core 0
    pc0,
    streaming, connected, \* STREAM.enabled and STREAM.control_connected
    \* Core 1
    pc1,
    safety_inputs,      \* the tick's snapshot
    commanded,          \* the programme's output this tick
    applied,            \* the level about to be driven
    output_enabled,     \* StandardProgram::output_enabled
    control,            \* the control's own state, see Step
    output_channel,
    reboot_step,
    dac,                \* dac[c]: what channel c drives
    \* History
    since               \* what happened since a point of the tick, see below

(* A rig that can move its output between channels is not gated.           *)
TopChannel == IF gated THEN 0 ELSE LastChannel
Channels == 0..TopChannel

(* The channels the rig_out_channel parameter can select.                  *)
Selectable == Channels

(* The level a quiesced channel rests at: the in-tree rig writes zero, a   *)
(* gated rig restores the level it calls safe.                             *)
Rest == IF gated THEN "safe" ELSE "zero"

shared == <<armed, tripped, reboot, quieted, clamped>>
core0 == <<pc0, streaming, connected>>
core1 == <<pc1, safety_inputs, commanded, applied, output_enabled, control,
           output_channel, reboot_step, dac>>
vars == <<gated, shared, core0, core1, since>>

(* since.armed: armed was 1 at some moment since this tick started.        *)
(* since.arm:   the host began an arm since this tick's safety decision.   *)
(* since.fault: this tick's safety decision saw a fault.                   *)
Init ==
    /\ gated \in BOOLEAN
    /\ armed = FALSE /\ tripped = FALSE
    /\ reboot = "idle"
    /\ quieted = FALSE /\ clamped = FALSE
    /\ pc0 = "accept" /\ streaming = FALSE /\ connected = FALSE
    /\ pc1 = "wait"
    /\ safety_inputs = [armed |-> FALSE, tripped |-> FALSE]
    /\ commanded = "zero" /\ applied = Rest
    /\ output_enabled = FALSE
    /\ control = "reset"
    /\ output_channel = 0
    /\ reboot_step = 0
    /\ dac = [c \in Channels |-> Rest]
    /\ since = [armed |-> FALSE, arm |-> FALSE, fault |-> FALSE]

-----------------------------------------------------------------------------
(* Core 0: the control server.                                             *)

Connect ==
    /\ pc0 = "accept"
    /\ pc0' = "serve"
    /\ connected' = TRUE
    /\ UNCHANGED <<shared, streaming, core1, since>>

(* Safety::arm clears the trip, then arms.                                 *)
ArmClear ==
    /\ pc0 = "serve"
    /\ tripped' = FALSE
    /\ since' = [since EXCEPT !.arm = TRUE]
    /\ pc0' = "arm"
    /\ UNCHANGED <<armed, reboot, quieted, clamped, streaming, connected, core1>>

ArmSet ==
    /\ pc0 = "arm"
    /\ armed' = TRUE
    /\ since' = [since EXCEPT !.armed = TRUE]
    /\ pc0' = "serve"
    /\ UNCHANGED <<tripped, reboot, quieted, clamped, streaming, connected, core1>>

(* Safety::disarm leaves the trip alone.                                   *)
Disarm ==
    /\ armed' = FALSE
    /\ UNCHANGED <<tripped, reboot, quieted, clamped>>

HostDisarm ==
    /\ pc0 = "serve"
    /\ Disarm
    /\ UNCHANGED <<core0, core1, since>>

DiagReset ==
    /\ pc0 = "serve"
    /\ quieted' = FALSE /\ clamped' = FALSE
    /\ UNCHANGED <<armed, tripped, reboot, core0, core1, since>>

(* StreamStart, StreamStop and the end of a finite session.                *)
StreamStart ==
    /\ pc0 = "serve"
    /\ streaming' = TRUE
    /\ UNCHANGED <<shared, pc0, connected, core1, since>>

StreamStop ==
    /\ pc0 \in {"accept", "serve", "poll", "pending"}
    /\ streaming' = FALSE
    /\ UNCHANGED <<shared, pc0, connected, core1, since>>

(* serve returns: the peer closed, fell silent, broke the framing or did   *)
(* not take the reply.  Streaming stops, then the output is disarmed.      *)
(* (Mutant: it is not.)                                                    *)
Drop ==
    /\ pc0 = "serve"
    /\ pc0' = "close"
    /\ streaming' = FALSE
    /\ connected' = FALSE
    /\ UNCHANGED <<shared, core1, since>>

CloseForgetful ==
    /\ pc0 = "close"
    /\ UNCHANGED shared
    /\ pc0' = "accept"
    /\ UNCHANGED <<streaming, connected, core1, since>>

Close ==
    /\ pc0 = "close"
    /\ Disarm
    /\ pc0' = "accept"
    /\ UNCHANGED <<streaming, connected, core1, since>>

(* The confirmed mcu_reboot write: stream off and disarm, request, wait a  *)
(* bounded time for core 1, ask the ROM.  A scheduled reset ends serving;  *)
(* a rejected one answers Busy and serves on.                              *)
RebootDisarm ==
    /\ pc0 = "serve"
    /\ streaming' = FALSE
    /\ Disarm
    /\ pc0' = "request"
    /\ UNCHANGED <<connected, core1, since>>

RebootRequest ==
    /\ pc0 = "request"
    /\ reboot' = IF reboot = "idle" THEN "requested" ELSE reboot
    /\ pc0' = "poll"
    /\ UNCHANGED <<armed, tripped, quieted, clamped, streaming, connected, core1, since>>

(* Quiesced, or 20 ms are over.                                            *)
RebootPolled ==
    /\ pc0 = "poll"
    /\ pc0' \in {"pending", "serve"}
    /\ UNCHANGED <<shared, streaming, connected, core1, since>>

Handler ==
    /\ UNCHANGED gated
    /\ \/ ArmSet
       \/ Close
       \/ RebootRequest
       \/ RebootPolled

Core0 ==
    /\ UNCHANGED gated
    /\ \/ Connect
       \/ ArmClear
       \/ HostDisarm
       \/ DiagReset
       \/ StreamStart
       \/ StreamStop
       \/ Drop
       \/ RebootDisarm
       \/ Handler

-----------------------------------------------------------------------------
(* Core 1: run_hot_loop.                                                   *)

(* A tick starts unless a reboot was requested; its command drain may move *)
(* the output to another channel.                                          *)
TickStart ==
    /\ pc1 = "wait"
    /\ reboot = "idle"
    /\ output_channel' \in Selectable
    /\ since' = [since EXCEPT !.armed = armed]
    /\ pc1' = "loadArmed"
    /\ UNCHANGED <<shared, core0, safety_inputs, commanded, applied, output_enabled,
                   control, reboot_step, dac>>

(* Safety::load_inputs, two loads.                                         *)
LoadArmed ==
    /\ pc1 = "loadArmed"
    /\ safety_inputs' = [safety_inputs EXCEPT !.armed = armed]
    /\ pc1' = "loadTripped"
    /\ UNCHANGED <<shared, core0, commanded, applied, output_enabled, control,
                   output_channel, reboot_step, dac, since>>

LoadTripped ==
    /\ pc1 = "loadTripped"
    /\ safety_inputs' = [safety_inputs EXCEPT !.tripped = tripped]
    /\ pc1' = "step"
    /\ UNCHANGED <<shared, core0, commanded, applied, output_enabled, control,
                   output_channel, reboot_step, dac, since>>

Enabled == ~gated \/ (safety_inputs.armed /\ ~safety_inputs.tripped)

(* StandardProgram::step: the control is reset when the output becomes     *)
(* enabled, advances while it is, and commands zero while it is not.       *)
(* control = "reset" is the state reset leaves, "running" has advanced     *)
(* since, "faulted" has advanced on the tick of a trip.                    *)
Step ==
    /\ pc1 = "step"
    /\ commanded' \in IF Enabled THEN Commanded ELSE {"zero"}
    /\ control' = CASE Enabled /\ ~output_enabled -> "running"
                    [] Enabled /\ control = "reset" -> "running"
                    [] OTHER -> control
    /\ output_enabled' = Enabled
    /\ pc1' = "gate"
    /\ UNCHANGED <<shared, core0, safety_inputs, applied, output_channel, reboot_step,
                   dac, since>>

(* safety_decide.  A non-finite command counts as a fault; a fault asks    *)
(* for the trip whatever the snapshot says.                                *)
(* (Mutant: a fault is not "new" while the snapshot is tripped.)           *)
NewlyTrippedOnce(fault) ==
    (fault \/ commanded = "nonfinite") /\ ~safety_inputs.tripped
NewlyTripped(fault) == fault \/ commanded = "nonfinite"

MustQuiet(fault) ==
    NewlyTripped(fault) \/ safety_inputs.tripped \/ ~safety_inputs.armed

Clamp(level) == IF level = "beyond" THEN "edge" ELSE level

(* safety_gate on a gated rig; an ungated rig applies the command as is.   *)
Gate(fault) ==
    /\ pc1 = "gate"
    /\ IF gated
         THEN /\ tripped' = (tripped \/ NewlyTripped(fault))
              /\ quieted' = (quieted \/ MustQuiet(fault))
              /\ clamped' = (clamped \/ (~MustQuiet(fault) /\ commanded = "beyond"))
              /\ applied' = IF MustQuiet(fault) THEN "safe" ELSE Clamp(commanded)
              /\ control' = IF NewlyTripped(fault) /\ control = "running"
                              THEN "faulted" ELSE control
              /\ since' = [since EXCEPT !.fault = fault, !.arm = FALSE]
         ELSE /\ applied' = commanded
              /\ UNCHANGED <<tripped, quieted, clamped, control, since>>
    /\ pc1' = "actuate"
    /\ UNCHANGED <<armed, reboot, core0, safety_inputs, commanded, output_enabled,
                   output_channel, reboot_step, dac>>

Actuate ==
    /\ pc1 = "actuate"
    /\ dac' = [dac EXCEPT ![output_channel] = applied]
    /\ pc1' = "wait"
    /\ UNCHANGED <<shared, core0, safety_inputs, commanded, applied, output_enabled,
                   control, output_channel, reboot_step, since>>

(* A requested reboot: one channel per tick goes to rest; after the last   *)
(* one core 1 publishes that it is quiet and spins.                        *)
(* (Mutants: the last channel is forgotten; the step does not advance.)    *)
LastRebootStepEarly(step) == step + 1 >= TopChannel
LastRebootStep(step) == step >= TopChannel

NextRebootStepStuck(step) == step
NextRebootStep(step) == IF step < 255 THEN step + 1 ELSE step

PrepareReboot ==
    /\ pc1 = "wait"
    /\ reboot # "idle"
    /\ dac' = [dac EXCEPT ![IF reboot_step <= TopChannel
                              THEN reboot_step ELSE TopChannel] = Rest]
    /\ IF LastRebootStep(reboot_step)
         THEN pc1' = "mark" /\ UNCHANGED reboot_step
         ELSE reboot_step' = NextRebootStep(reboot_step) /\ UNCHANGED pc1
    /\ UNCHANGED <<shared, core0, safety_inputs, commanded, applied, output_enabled,
                   control, output_channel, since>>

MarkQuiesced ==
    /\ pc1 = "mark"
    /\ reboot' = "quiesced"
    /\ pc1' = "spin"
    /\ UNCHANGED <<armed, tripped, quieted, clamped, core0, safety_inputs, commanded,
                   applied, output_enabled, control, output_channel, reboot_step, dac, since>>

Core1 ==
    /\ UNCHANGED gated
    /\ \/ TickStart
       \/ LoadArmed
       \/ LoadTripped
       \/ Step
       \/ \E fault \in BOOLEAN : Gate(fault)
       \/ Actuate
       \/ PrepareReboot
       \/ MarkQuiesced

(* The scheduled chip reset: statics and rig.init start over.              *)
ChipReset ==
    /\ UNCHANGED gated
    /\ pc0 = "pending"
    /\ armed' = FALSE /\ tripped' = FALSE
    /\ reboot' = "idle"
    /\ quieted' = FALSE /\ clamped' = FALSE
    /\ pc0' = "accept" /\ streaming' = FALSE /\ connected' = FALSE
    /\ pc1' = "wait"
    /\ safety_inputs' = [armed |-> FALSE, tripped |-> FALSE]
    /\ commanded' = "zero" /\ applied' = Rest
    /\ output_enabled' = FALSE
    /\ control' = "reset"
    /\ output_channel' = 0
    /\ reboot_step' = 0
    /\ dac' = [c \in Channels |-> Rest]
    /\ since' = [armed |-> FALSE, arm |-> FALSE, fault |-> FALSE]

Next == Core0 \/ Core1 \/ ChipReset

(* Core 1 loops for ever; core 0 finishes the handler it is in; the ROM    *)
(* performs the reset it accepted.  The host need not do anything.         *)
Spec ==
    /\ Init
    /\ [][Next]_vars
    /\ WF_vars(Core1)
    /\ WF_vars(Handler)
    /\ WF_vars(ChipReset)

-----------------------------------------------------------------------------
(* Properties.                                                             *)

(* Every variable holds a value of the kind its Rust type gives it.        *)
FlagsOK ==
    /\ gated \in BOOLEAN /\ armed \in BOOLEAN /\ tripped \in BOOLEAN
    /\ quieted \in BOOLEAN /\ clamped \in BOOLEAN
    /\ streaming \in BOOLEAN /\ connected \in BOOLEAN
    /\ output_enabled \in BOOLEAN

StateOK ==
    /\ reboot \in {"idle", "requested", "quiesced"}
    /\ pc0 \in {"accept", "serve", "arm", "close", "request", "poll", "pending"}
    /\ pc1 \in {"wait", "loadArmed", "loadTripped", "step", "gate", "actuate",
                "mark", "spin"}
    /\ safety_inputs \in [armed : BOOLEAN, tripped : BOOLEAN]
    /\ commanded \in Commanded
    /\ applied \in Levels
    /\ control \in {"reset", "running", "faulted"}
    /\ output_channel \in Channels
    /\ reboot_step \in 0..255
    /\ dac \in [Channels -> Levels]
    /\ since \in [armed : BOOLEAN, arm : BOOLEAN, fault : BOOLEAN]

TypeOK == FlagsOK /\ StateOK

(* Comms-loss quieting: without a connection being served nothing is armed *)
(* and nothing streams, whatever path ended the last connection (tcp.rs    *)
(* control_run after serve).                                               *)
UnattendedIsDisarmed ==
    pc0 = "accept" => ~armed /\ ~streaming /\ ~connected

(* A disarm takes effect within one tick: after a tick during the whole of *)
(* which the output was disarmed, the actuator is at its safe level, even  *)
(* if the snapshot, a trip or a re-arm changed around it.                  *)
QuietAfterDisarmedTick ==
    gated /\ pc1 = "wait" /\ ~since.armed =>
        \A c \in Channels : dac[c] = "safe"

(* Whatever the programme computes, a gated actuator only ever sees its    *)
(* safe level or a finite level inside its window.                         *)
DrivenWithinWindow ==
    gated => \A c \in Channels : dac[c] \in {"safe", "zero", "inside", "edge"}

(* A fault seen by a tick's decision leaves the trip latched and the safe  *)
(* level applied, unless the host started another arm after the decision:  *)
(* an arm racing the tick cannot mask a fault (safety_decide's comment).   *)
FaultNotMasked ==
    gated /\ pc1 = "actuate" /\ since.fault =>
        /\ applied = "safe"
        /\ tripped \/ since.arm

(* Once core 1 reports quiescence every DAC channel is at rest and stays   *)
(* there until the chip resets, whatever the host does meanwhile.          *)
QuiescedAtRest ==
    reboot = "quiesced" => \A c \in Channels : dac[c] = Rest

(* Core 1 reaches quiescence after a request, or the chip has reset.       *)
RebootQuiesces == reboot = "requested" ~> reboot # "requested"

(* A lost connection leaves the actuators quiet unless a host returns.     *)
LossQuiets ==
    pc0 = "close" ~>
        \/ gated => \A c \in Channels : dac[c] = "safe"
        \/ pc0 = "serve"

=============================================================================
