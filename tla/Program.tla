------------------------------ MODULE Program ------------------------------
(* StandardProgram of helic-rt/src/program.rs: the master phase, the       *)
(* waveform-table player and the control, stepped once a tick, with every  *)
(* command the sample boundary applies between two ticks.                  *)
(*                                                                         *)
(* Phases are unsigned words modulo Modulus (2^32 in the code).  Sample    *)
(* values are left out but for the knots a tick reads and the PID's state, *)
(* in whole quanta with one tick as the unit of time.                      *)
EXTENDS Integers

CONSTANTS
    Modulus,        \* 2^32: one turn
    Increments,     \* phase increments a command or a control may ask for
    Multipliers,    \* multipliers a command may ask for, 0 included
    Offsets,        \* phase offsets
    Lengths,        \* lengths of the tables that are activated
    MaxGain,        \* largest PID gain, of either sign
    MaxError,       \* largest error, of either sign
    OutMax,         \* out_max, and -out_min
    Rigs,           \* which control is compiled in (see Control), and which
                    \* commands its host issues
    MaxAge          \* bound on the count of enabled ticks

Modes == {"Off", "Loop", "OneShot", "LockedLoop", "LockedOneShot"}
Interpolations == {"Linear", "ZeroOrderHold"}
None == -1
Words == 0..(Modulus - 1)
Commands == {"increment", "table increment", "interpolation", "multiplier", "phase offset",
             "mode", "trigger", "activate", "gain"}

ASSUME ProgramAssumption ==
    /\ Modulus \in Nat \ {0, 1}
    /\ Increments \subseteq Words /\ Multipliers \subseteq Words /\ Offsets \subseteq Words
    /\ Lengths \subseteq Nat \ {0, 1} /\ MaxGain \in Nat
    /\ MaxError \in Nat /\ OutMax \in Nat /\ MaxAge \in Nat \ {0}
    /\ Rigs \subseteq [policy : {"PassThrough", "Pid", "Steering"}, commands : SUBSET Commands]

VARIABLES
    rig,                                \* of Rigs, never changes
    phase, increment,                   \* generator
    nominal_increment, frequency_overridden, output_enabled,
    table_phase, table_increment, mode, interpolation, multiplier, phase_offset,
    one_shot, previous_master, locked_progress,
    table_len,                          \* of the active table, 0 before the first
    knots,                              \* the knots the last tick read
    gains, integral, prev_error, deriv, first,      \* Pid
    travel, age                         \* history: see Pass and Control

generator == <<phase, increment, nominal_increment, frequency_overridden>>
player == <<mode, interpolation, multiplier, phase_offset>>
playback == <<table_phase, one_shot, previous_master, locked_progress>>
pid == <<integral, prev_error, deriv, first>>
vars == <<rig, generator, output_enabled, table_increment, player, playback, table_len,
          knots, gains, pid, travel, age>>

GainNames == {"kp", "ki", "kd", "tau_d"}

(* StandardProgram::new *)
Init ==
    /\ rig \in Rigs
    /\ phase = 0 /\ increment = 0 /\ nominal_increment = 0
    /\ frequency_overridden = FALSE /\ output_enabled = FALSE
    /\ table_phase = 0 /\ table_increment = 0 /\ mode = "Off" /\ interpolation = "Linear"
    /\ multiplier = 1 /\ phase_offset = 0 /\ one_shot = "Idle"
    /\ previous_master = 0 /\ locked_progress = 0 /\ table_len = 0 /\ knots = {}
    /\ gains = [g \in GainNames |-> 0]
    /\ integral = 0 /\ prev_error = 0 /\ deriv = 0 /\ first = TRUE
    /\ travel = 0 /\ age = 0

----------------------------------------------------------------------------
(* Commands, StandardProgram::apply *)

Issues(command) == command \in rig.commands

(* DOMAIN_GENERATOR SET_INCREMENT *)
SetIncrement(i) ==
    /\ Issues("increment")
    /\ nominal_increment' = i
    /\ increment' = IF frequency_overridden THEN increment ELSE i
    /\ UNCHANGED <<rig, phase, frequency_overridden, output_enabled, table_increment, player,
                   playback, table_len, knots, gains, pid, travel, age>>

(* DOMAIN_TABLE: the setters of TablePlayer that playback does not notice. *)
SetTableIncrement(i) ==
    /\ Issues("table increment")
    /\ table_increment' = i
    /\ UNCHANGED <<rig, generator, output_enabled, player, playback, table_len, knots, gains,
                   pid, travel, age>>

SetInterpolation(rule) ==
    /\ Issues("interpolation")
    /\ interpolation' = rule
    /\ UNCHANGED <<rig, generator, output_enabled, table_increment, mode, multiplier, phase_offset,
                   playback, table_len, knots, gains, pid, travel, age>>

SetMultiplier(m) ==
    /\ Issues("multiplier")
    /\ multiplier' = IF m = 0 THEN 1 ELSE m
    /\ UNCHANGED <<rig, generator, output_enabled, table_increment, mode, interpolation, phase_offset,
                   playback, table_len, knots, gains, pid, travel, age>>

SetPhaseOffset(offset) ==
    /\ Issues("phase offset")
    /\ phase_offset' = offset
    /\ UNCHANGED <<rig, generator, output_enabled, table_increment, mode, interpolation, multiplier,
                   playback, table_len, knots, gains, pid, travel, age>>

SetMode(m) ==
    /\ Issues("mode")
    /\ mode' = m /\ one_shot' = "Idle"
    /\ UNCHANGED <<rig, generator, output_enabled, table_increment, interpolation, multiplier,
                   phase_offset, table_phase, previous_master, locked_progress, table_len, knots,
                   gains, pid, travel, age>>

(* (Mutant: a retrigger goes on from where the phase is.)                  *)
TriggerInPlace ==
    /\ Issues("trigger")
    /\ \/ mode = "OneShot" /\ one_shot' = "Running" /\ travel' = 0
       \/ mode = "LockedOneShot" /\ one_shot' = "Armed" /\ UNCHANGED travel
    /\ UNCHANGED <<rig, generator, output_enabled, table_increment, player, table_phase,
                   previous_master, locked_progress, table_len, knots, gains, pid, age>>

Trigger ==
    /\ Issues("trigger")
    /\ \/ /\ mode = "OneShot"
          /\ table_phase' = 0 /\ one_shot' = "Running" /\ travel' = 0
       \/ /\ mode = "LockedOneShot"
          /\ one_shot' = "Armed"
          /\ UNCHANGED <<table_phase, travel>>
    /\ UNCHANGED <<rig, generator, output_enabled, table_increment, player, previous_master,
                   locked_progress, table_len, knots, gains, pid, age>>

Activate(n) ==
    /\ Issues("activate")
    /\ table_len' = n
    /\ UNCHANGED <<rig, generator, output_enabled, table_increment, player, playback, knots,
                   gains, pid, travel, age>>

(* DOMAIN_CONTROLLER, PidController::apply *)
SetGain(g, v) ==
    /\ Issues("gain") /\ rig.policy = "Pid"
    /\ g = "tau_d" => v >= 0
    /\ gains' = [gains EXCEPT ![g] = v]
    /\ UNCHANGED <<rig, generator, output_enabled, table_increment, player, playback,
                   table_len, knots, pid, travel, age>>

----------------------------------------------------------------------------
(* The tick, StandardProgram::step *)

(* PhaseAccumulator::step *)
Advance(word, by) == (word + by) % Modulus
Wraps(word, by) == word + by >= Modulus

(* WaveTable::evaluate_with: the knots read at phase theta.                *)
Index(theta) == (theta * table_len) \div Modulus
Knots(theta) ==
    LET index == Index(theta)
        next == IF index + 1 = table_len THEN 0 ELSE index + 1
    IN  IF interpolation = "Linear" THEN {index, next} ELSE {index}

(* TablePlayer::step, one operator per arm.  travel: how far the pass that *)
(* sounds has come since it began, in phase words and without wrapping.    *)
Silent == knots' = {} /\ UNCHANGED <<playback, travel>>

Loop ==
    /\ table_phase' = Advance(table_phase, table_increment)
    /\ knots' = Knots(table_phase')
    /\ UNCHANGED <<one_shot, previous_master, locked_progress, travel>>

Pass ==
    /\ table_phase' = Advance(table_phase, table_increment)
    /\ travel' = travel + table_increment
    /\ IF Wraps(table_phase, table_increment)
       THEN one_shot' = "Idle" /\ knots' = {}
       ELSE one_shot' = one_shot /\ knots' = Knots(table_phase')
    /\ UNCHANGED <<previous_master, locked_progress>>

LockedTheta == (phase' * multiplier + phase_offset) % Modulus

LockedLoop == knots' = Knots(LockedTheta) /\ UNCHANGED <<playback, travel>>

(* An armed pass begins with a period of the master phase. *)
LockedStart ==
    /\ one_shot' = "Running" /\ previous_master' = phase' /\ locked_progress' = 0
    /\ travel' = 0 /\ knots' = Knots(LockedTheta)
    /\ UNCHANGED table_phase

LockedPass ==
    LET delta == (phase' - previous_master) % Modulus
        progress == locked_progress + delta * multiplier
    IN  /\ previous_master' = phase' /\ locked_progress' = progress
        /\ travel' = travel + increment * multiplier
        /\ IF progress >= Modulus
           THEN one_shot' = "Idle" /\ knots' = {}
           ELSE one_shot' = one_shot /\ knots' = Knots(LockedTheta)
        /\ UNCHANGED table_phase

(* (Mutant: only the phase 0 starts an armed pass.)                        *)
PlayLockedAtZero ==
    CASE one_shot = "Armed" /\ Wraps(phase, increment) /\ phase' = 0 -> LockedStart
      [] one_shot = "Running" -> LockedPass
      [] OTHER -> Silent
PlayLockedOneShot ==
    CASE one_shot = "Armed" /\ Wraps(phase, increment) -> LockedStart
      [] one_shot = "Running" -> LockedPass
      [] OTHER -> Silent

Play ==
    IF table_len < 2 \/ mode = "Off" THEN Silent
    ELSE CASE mode = "Loop" -> Loop
           [] mode = "OneShot" -> IF one_shot = "Running" THEN Pass ELSE Silent
           [] mode = "LockedLoop" -> LockedLoop
           [] mode = "LockedOneShot" -> PlayLockedOneShot

(* Pid::update from the state s.  A filtered derivative lands anywhere     *)
(* between its old value and the raw one.                                  *)
Between(a, b) == (a..b) \cup (b..a)
Clear == [integral |-> 0, prev_error |-> 0, deriv |-> 0, first |-> TRUE]
Current == [integral |-> integral, prev_error |-> prev_error, deriv |-> deriv, first |-> first]

RawDeriv(s, error) == IF s.first THEN 0 ELSE error - s.prev_error
Derivatives(s, error) ==
    IF gains["tau_d"] > 0
    THEN Between(s.deriv, RawDeriv(s, error))
    ELSE {RawDeriv(s, error)}

Integrate(s, error, d) ==
    LET unclamped == gains["kp"] * error + s.integral + gains["kd"] * d
        step == gains["ki"] * error
    IN  IF (unclamped > OutMax /\ step > 0) \/ (unclamped < 0 - OutMax /\ step < 0)
        THEN s.integral ELSE s.integral + step

PidUpdate(s, error, d) ==
    /\ integral' = Integrate(s, error, d) /\ prev_error' = error
    /\ deriv' = d /\ first' = FALSE

PidSet(s) ==
    integral' = s.integral /\ prev_error' = s.prev_error /\ deriv' = s.deriv /\ first' = s.first

(* The control: reset on the edge to enabled, then its step, which is      *)
(* frozen while disabled.  PassThrough and Steering (any control that      *)
(* overrides the frequency) keep no state here.  age: enabled ticks of a   *)
(* PID since that edge.  (Mutant: no reset.)                               *)
StartedStale(enabled) == Current
Started(enabled) == IF enabled /\ ~output_enabled THEN Clear ELSE Current

Control(enabled) ==
    /\ IF rig.policy = "Pid" /\ enabled
       THEN \E error \in (0 - MaxError)..MaxError :
              \E d \in Derivatives(Started(enabled), error) :
                 PidUpdate(Started(enabled), error, d)
       ELSE PidSet(Started(enabled))
    /\ age' = IF ~enabled \/ rig.policy # "Pid" THEN age
              ELSE IF ~output_enabled THEN 1
              ELSE IF age < MaxAge THEN age + 1 ELSE MaxAge

(* ControlStep::next_increment *)
Requests == IF rig.policy = "Steering" THEN Increments \cup {None} ELSE {None}

Step(enabled, next) ==
    /\ phase' = Advance(phase, increment)
    /\ Play
    /\ Control(enabled)
    /\ output_enabled' = enabled
    /\ frequency_overridden' = (enabled /\ next # None)
    /\ increment' = IF enabled /\ next # None THEN next ELSE nominal_increment
    /\ UNCHANGED <<rig, nominal_increment, table_increment, player, table_len, gains>>

Tick == \E enabled \in BOOLEAN, next \in Requests : Step(enabled, next)

Next ==
    \/ Tick
    \/ \E i \in Increments : SetIncrement(i) \/ SetTableIncrement(i)
    \/ \E rule \in Interpolations : SetInterpolation(rule)
    \/ \E m \in Multipliers : SetMultiplier(m)
    \/ \E offset \in Offsets : SetPhaseOffset(offset)
    \/ \E m \in Modes : SetMode(m)
    \/ Trigger
    \/ \E n \in Lengths : Activate(n)
    \/ \E g \in GainNames, v \in (0 - MaxGain)..MaxGain : SetGain(g, v)

(* The tick is driven by a hardware timer. *)
Spec == Init /\ [][Next]_vars /\ WF_vars(Tick)

----------------------------------------------------------------------------
(* Properties *)

TypeOK ==
    /\ rig \in Rigs
    /\ phase \in Words /\ increment \in Words /\ nominal_increment \in Words
    /\ frequency_overridden \in BOOLEAN /\ output_enabled \in BOOLEAN
    /\ table_phase \in Words /\ table_increment \in Words /\ mode \in Modes
    /\ interpolation \in Interpolations /\ multiplier \in Words \ {0} /\ phase_offset \in Words
    /\ one_shot \in {"Idle", "Armed", "Running"}
    /\ previous_master \in Words /\ locked_progress \in 0..(Modulus * Modulus - 1)
    /\ table_len \in Lengths \cup {0}
    /\ gains \in [GainNames -> (0 - MaxGain)..MaxGain] /\ gains["tau_d"] >= 0
    /\ integral \in Int /\ prev_error \in (0 - MaxError)..MaxError
    /\ deriv \in (0 - 2 * MaxError)..(2 * MaxError) /\ first \in BOOLEAN
    /\ travel \in Nat /\ age \in 0..MaxAge

(* Every knot a tick reads is one of the active table, also just after a   *)
(* shorter table was activated under a running phase: the bounds checks of *)
(* WaveTable::evaluate_with cannot panic in the tick.                      *)
KnotsInTable == [][knots' # knots => knots' \subseteq 0..(table_len - 1)]_vars

(* A one-shot that sounds is in its only period, and the player's own      *)
(* measure of the way, taken from wrapping differences of a master phase   *)
(* whose frequency may change at every tick, is the way it has come.       *)
OnePass ==
    one_shot = "Running" =>
        /\ travel < Modulus
        /\ mode = "OneShot" => table_phase = travel
        /\ mode = "LockedOneShot" => locked_progress = travel

(* A pass that ends on its own has covered the whole period, and a locked  *)
(* one begins only where the master phase begins a period: neither a       *)
(* retrigger, a new frequency or a new multiplier cuts it short.           *)
PassWhole ==
    [][/\ one_shot = "Running" /\ one_shot' = "Idle" =>
            travel' >= Modulus \/ \E m \in Modes : SetMode(m)
       /\ one_shot = "Armed" /\ one_shot' = "Running" => phase' < increment]_vars

(* An override of the frequency lasts only while the control asks for it:  *)
(* "None restores the nominal freq; it never means retain the last         *)
(* override", and a frequency set meanwhile is the one restored.           *)
NominalRestored ==
    /\ ~frequency_overridden => increment = nominal_increment
    /\ frequency_overridden => output_enabled

(* What the integrator holds was gathered in enabled ticks since the       *)
(* output was last enabled: no earlier run's state, and nothing measured   *)
(* while the output was off.                                               *)
ControlForgets ==
    age < MaxAge => integral \in (0 - age * MaxGain * MaxError)..(age * MaxGain * MaxError)

(* Anti-windup: however long the output saturates and however the gains    *)
(* move, the integrator stays within the output limit and what the other   *)
(* terms and one step can add.                                             *)
Windup == OutMax + 4 * MaxGain * MaxError
IntegralBounded == integral \in (0 - Windup)..Windup

(* A triggered locked one-shot does begin, if the master phase turns.      *)
ArmedBegins ==
    <>[](increment > 0 /\ table_len >= 2) => (one_shot = "Armed" ~> one_shot # "Armed")
=============================================================================
