-------------------------------- MODULE Pll --------------------------------
(* The phase-locked loop of helic-core/src/pll.rs: acquisition, lock and   *)
(* loss of lock, the bounded frequency correction, and every setter.       *)
(*                                                                         *)
(* One update is one sample period, the unit of time; phases are whole     *)
(* degrees of a Turn, increments and corrections whole quanta.  What the   *)
(* demodulator makes of the samples is a choice: any phase, or nothing     *)
(* that qualifies.                                                         *)
EXTENDS Integers, Sequences, FiniteSetsExt

CONSTANTS
    Turn,           \* degrees of a turn, even
    TopIncrement,   \* u32::MAX
    Rounding,       \* largest error of a u32 difference converted to f32
    MaxTime,        \* bound: no dwell or time-out is longer; clocks stop there
    MaxDwell,       \* bound: no lock dwell is longer
    Offered         \* values a setter may be called with, per setting

Half == Turn \div 2
Phases == (0 - Half)..(Half - 1)
Fields == {"proportional_gain", "integral_gain", "target_phase", "delay", "dc_time_constant",
           "demod_time_constant", "lock_tolerance", "unlock_tolerance", "frequency_tolerance",
           "lock_dwell", "unlock_dwell", "acquire_timeout", "saturation_dwell"}
Bounds == {"centre", "min", "max"}

ASSUME PllAssumption ==
    /\ Turn \in Nat \ {0} /\ Turn % 2 = 0 /\ TopIncrement \in Nat /\ Rounding \in Nat
    /\ MaxTime \in Nat \ {0} /\ MaxDwell \in Nat \ {0}
    /\ Offered \in [Fields \cup Bounds -> SUBSET Int]
    /\ \A b \in Bounds : Offered[b] \subseteq 0..TopIncrement
    /\ \A d \in Offered["lock_dwell"] : d <= MaxDwell

VARIABLES
    state,                                      \* PllState
    centre_increment, min_increment, max_increment, commanded_increment,
    settings,                                   \* the other configured values
    integral_correction, unquantised_correction,
    phase_error, observation_valid, saturated,
    warmup_elapsed, acquire_elapsed, lock_elapsed, unlock_elapsed, saturation_elapsed,
    lock_correction_min, lock_correction_max,
    good, bad, pinned               \* history: see Observe

range == <<centre_increment, min_increment, max_increment>>
loop == <<integral_correction, unquantised_correction, saturated>>
measured == <<phase_error, observation_valid>>
dwells == <<lock_elapsed, lock_correction_min, lock_correction_max>>
losses == <<unlock_elapsed, saturation_elapsed>>
clocks == <<warmup_elapsed, acquire_elapsed, dwells, losses>>
history == <<good, bad, pinned>>
vars == <<state, range, commanded_increment, settings, loop, measured, clocks, history>>

Abs(x) == IF x < 0 THEN -x ELSE x
Least(x, y) == IF x < y THEN x ELSE y
Greatest(x, y) == IF x > y THEN x ELSE y
Advance(t) == IF t < MaxTime THEN t + 1 ELSE MaxTime

(* PllConfig::is_valid, and what each setter refuses. *)
ValidField(f, v, s) ==
    CASE f \in {"proportional_gain", "integral_gain", "delay"} -> TRUE
      [] f = "target_phase" -> v \in Phases
      [] f = "dc_time_constant" -> v > 0
      [] f = "lock_tolerance" -> v >= 0 /\ v <= s.unlock_tolerance
      [] f = "unlock_tolerance" -> v >= 0 /\ v >= s.lock_tolerance
      [] OTHER -> v >= 0
ValidSettings(s) == \A f \in Fields : ValidField(f, s[f], s)

Configurations ==
    [proportional_gain : Offered["proportional_gain"], integral_gain : Offered["integral_gain"],
     target_phase : Offered["target_phase"], delay : Offered["delay"],
     dc_time_constant : Offered["dc_time_constant"],
     demod_time_constant : Offered["demod_time_constant"],
     lock_tolerance : Offered["lock_tolerance"], unlock_tolerance : Offered["unlock_tolerance"],
     frequency_tolerance : Offered["frequency_tolerance"], lock_dwell : Offered["lock_dwell"],
     unlock_dwell : Offered["unlock_dwell"], acquire_timeout : Offered["acquire_timeout"],
     saturation_dwell : Offered["saturation_dwell"]]

(* Pll::new *)
Init ==
    /\ state = "Fixed"
    /\ centre_increment \in Offered["centre"] /\ min_increment \in Offered["min"]
    /\ max_increment \in Offered["max"]
    /\ min_increment <= centre_increment /\ centre_increment <= max_increment
    /\ commanded_increment = centre_increment
    /\ settings \in Configurations /\ ValidSettings(settings)
    /\ integral_correction = 0 /\ unquantised_correction = 0 /\ saturated = FALSE
    /\ phase_error = 0 /\ observation_valid = FALSE
    /\ warmup_elapsed = 0 /\ acquire_elapsed = 0 /\ lock_elapsed = 0
    /\ unlock_elapsed = 0 /\ saturation_elapsed = 0
    /\ lock_correction_min = 0 /\ lock_correction_max = 0
    /\ good = <<>> /\ bad = 0 /\ pinned = 0

----------------------------------------------------------------------------
(* Loop arithmetic *)

(* wrap_degrees_full: into one turn, centred on zero. *)
Wrap(degrees) == ((degrees + Half) % Turn) - Half

(* The bounds of the correction, off by the error of the conversion. *)
MinCorrection(e) == 0 - (centre_increment - min_increment) - e
MaxCorrection(e) == max_increment - centre_increment + e

(* add_signed_correction: saturating u32 arithmetic, then the range.       *)
AddSigned(centre, correction) ==
    IF correction >= 0
    THEN Least(Least(centre + correction, TopIncrement), max_increment)
    ELSE Greatest(Greatest(centre + correction, 0), min_increment)

(* apply_correction for phase error err: what it leaves behind.            *)
WindsUp(high, low, increment) == (high /\ increment > 0) \/ (low /\ increment < 0)

Corrected(err, e) ==
    LET increment == settings.integral_gain * err
        candidate == integral_correction + increment
        proportional == settings.proportional_gain * err
        high == proportional + candidate > MaxCorrection(e)
        low == proportional + candidate < MinCorrection(e)
        integral == IF WindsUp(high, low, increment) THEN integral_correction ELSE candidate
        correction == Greatest(Least(proportional + integral, MaxCorrection(e)), MinCorrection(e))
    IN  [valid |-> TRUE, err |-> err, integral |-> integral, correction |-> correction,
         saturated |-> high \/ low, commanded |-> AddSigned(centre_increment, correction)]

----------------------------------------------------------------------------
(* update *)

WarmUp == 5 * Greatest(settings.dc_time_constant, settings.demod_time_constant)

(* The filters have not settled: nothing but the warm-up clock moves. *)
WarmingUp ==
    /\ state \in {"Acquiring", "Locked"}
    /\ warmup_elapsed' = warmup_elapsed + 1 /\ warmup_elapsed' < WarmUp
    /\ observation_valid' = FALSE
    /\ UNCHANGED <<state, range, commanded_increment, settings, loop, phase_error,
                   acquire_elapsed, dwells, losses, history>>

(* reset_loop and clear_qualification on the way to Fixed or Acquiring. *)
ClearQualification(correction) ==
    /\ observation_valid' = FALSE /\ phase_error' = 0
    /\ warmup_elapsed' = 0 /\ acquire_elapsed' = 0 /\ lock_elapsed' = 0
    /\ unlock_elapsed' = 0 /\ saturation_elapsed' = 0
    /\ lock_correction_min' = correction /\ lock_correction_max' = correction
    /\ good' = <<>> /\ bad' = 0 /\ pinned' = 0

ResetLoop ==
    /\ commanded_increment' = centre_increment
    /\ integral_correction' = 0 /\ unquantised_correction' = 0 /\ saturated' = FALSE
    /\ ClearQualification(0)

(* One settled update: a qualified phase, corrected by the delay of the    *)
(* paths at the current frequency, steers the loop; without one it coasts. *)
Observation(valid, phase, e) ==
    LET err == Wrap(Wrap(phase + commanded_increment * settings.delay) - settings.target_phase)
    IN  IF valid
        THEN Corrected(err, e)
        ELSE [valid |-> FALSE, err |-> 0, integral |-> integral_correction,
              correction |-> unquantised_correction, saturated |-> FALSE,
              commanded |-> commanded_increment]

Within(o, tolerance) == o.valid /\ Abs(o.err) <= tolerance

(* good: the corrections of the latest run of acquisition updates, every   *)
(* one of them within the tolerance of its time; bad, pinned: updates in a *)
(* row of a locked loop outside the unlock tolerance, or saturated.        *)
Observe(o) ==
    /\ state \in {"Acquiring", "Locked"} /\ warmup_elapsed + 1 >= WarmUp
    /\ warmup_elapsed' = Least(warmup_elapsed + 1, 5 * MaxTime)
    /\ acquire_elapsed' = Advance(acquire_elapsed)
    /\ phase_error' = o.err /\ observation_valid' = o.valid
    /\ integral_correction' = o.integral /\ unquantised_correction' = o.correction
    /\ saturated' = o.saturated /\ commanded_increment' = o.commanded
    /\ good' = IF state = "Locked" \/ ~Within(o, settings.lock_tolerance) THEN <<>>
               ELSE Append(IF Len(good) < MaxDwell THEN good ELSE Tail(good), o.correction)
    /\ bad' = IF state # "Locked" \/ Within(o, settings.unlock_tolerance) THEN 0 ELSE Advance(bad)
    /\ pinned' = IF state = "Locked" /\ o.saturated THEN Advance(pinned) ELSE 0
    /\ UNCHANGED <<range, settings>>

(* update_acquisition: the spread of the corrections since the dwell began *)
(* decides whether it goes on.                                             *)
SpreadMin(o) == IF lock_elapsed = 0 THEN o.correction ELSE Least(lock_correction_min, o.correction)
SpreadMax(o) == IF lock_elapsed = 0 THEN o.correction ELSE Greatest(lock_correction_max, o.correction)
Steady(o) == /\ Within(o, settings.lock_tolerance)
             /\ SpreadMax(o) - SpreadMin(o) <= settings.frequency_tolerance

LockDwell(o) ==
    IF Steady(o)
    THEN /\ lock_elapsed' = Advance(lock_elapsed)
         /\ lock_correction_min' = SpreadMin(o) /\ lock_correction_max' = SpreadMax(o)
    ELSE /\ lock_elapsed' = 0
         /\ lock_correction_min' = o.correction /\ lock_correction_max' = o.correction

(* (Mutant: the dwell is not checked against this observation.)            *)
QualifiesStale(o) == Advance(lock_elapsed) >= settings.lock_dwell
Qualifies(o) == Steady(o) /\ Advance(lock_elapsed) >= settings.lock_dwell
TimedOut == Advance(acquire_elapsed) >= settings.acquire_timeout

EnterLocked(o) ==
    /\ state = "Acquiring" /\ Observe(o) /\ LockDwell(o) /\ Qualifies(o)
    /\ state' = "Locked" /\ unlock_elapsed' = 0 /\ saturation_elapsed' = 0

Acquire(o) ==
    /\ state = "Acquiring" /\ Observe(o) /\ LockDwell(o) /\ ~Qualifies(o) /\ ~TimedOut
    /\ UNCHANGED <<state, losses>>

(* acquisition_failed: back to the centre, without a fault. *)
AcquisitionFailed(o) ==
    /\ state = "Acquiring" /\ warmup_elapsed + 1 >= WarmUp /\ ~Qualifies(o) /\ TimedOut
    /\ ResetLoop /\ state' = "Fixed"
    /\ UNCHANGED <<range, settings>>

(* update_lock.  (Mutant: a dwell is not restarted.)                       *)
DwellKept(elapsed, condition) == IF condition THEN Advance(elapsed) ELSE elapsed
Dwell(elapsed, condition) == IF condition THEN Advance(elapsed) ELSE 0

UpdateLock(o) ==
    LET outside == ~Within(o, settings.unlock_tolerance)
    IN  /\ state = "Locked" /\ Observe(o)
        /\ unlock_elapsed' = Dwell(unlock_elapsed, outside)
        /\ saturation_elapsed' = Dwell(saturation_elapsed, o.saturated)
        /\ state' = IF \/ outside /\ unlock_elapsed' >= settings.unlock_dwell
                       \/ o.saturated /\ saturation_elapsed' >= settings.saturation_dwell
                    THEN "LockLost" ELSE "Locked"
        /\ UNCHANGED dwells

(* update in Fixed and LockLost returns the commanded increment. *)
Idle == state \in {"Fixed", "LockLost"} /\ UNCHANGED vars

Observations ==
    {Observation(FALSE, 0, 0)}
        \cup UNION {{Observation(TRUE, phase, e) : e \in 0..Rounding} : phase \in Phases}

Update == \/ WarmingUp \/ Idle
          \/ \E o \in Observations :
                EnterLocked(o) \/ Acquire(o) \/ AcquisitionFailed(o) \/ UpdateLock(o)

----------------------------------------------------------------------------
(* Commands *)

(* set_enabled: a repeated enable preserves lock, and neither way clears a *)
(* latched loss.                                                           *)
SetEnabled(enabled) ==
    /\ \/ ~enabled /\ state # "LockLost" /\ state' = "Fixed"
       \/ enabled /\ state = "Fixed" /\ state' = "Acquiring"
    /\ ResetLoop
    /\ UNCHANGED <<range, settings>>

Reset == ResetLoop /\ state' = "Fixed" /\ UNCHANGED <<range, settings>>

(* reacquire keeps the frequency: the integral takes over the correction. *)
Reacquire ==
    IF state \in {"Fixed", "Locked"}
    THEN /\ integral_correction' = commanded_increment - centre_increment
         /\ unquantised_correction' = commanded_increment - centre_increment
         /\ ClearQualification(commanded_increment - centre_increment)
         /\ state' = "Acquiring"
         /\ UNCHANGED <<commanded_increment, saturated>>
    ELSE UNCHANGED <<state, commanded_increment, loop, measured, clocks, history>>

ReacquireCommand == Reacquire /\ UNCHANGED <<range, settings>>

SetTargetPhase(degrees) ==
    /\ degrees \in Phases /\ degrees # settings.target_phase
    /\ settings' = [settings EXCEPT !.target_phase = degrees]
    /\ Reacquire
    /\ UNCHANGED range

(* Every other setter; setting the value in force changes nothing. *)
SetField(f, v) ==
    /\ f # "target_phase" /\ v # settings[f] /\ ValidField(f, v, settings)
    /\ settings' = [settings EXCEPT ![f] = v]
    /\ UNCHANGED <<state, range, commanded_increment, loop, measured, clocks, history>>

(* The three setters of the range. *)
SetCentre(v) ==
    /\ min_increment <= v /\ v <= max_increment /\ v # centre_increment
    /\ centre_increment' = v
    /\ IF state = "Fixed"
       THEN commanded_increment' = v /\ integral_correction' = 0 /\ unquantised_correction' = 0
       ELSE UNCHANGED <<commanded_increment, integral_correction, unquantised_correction>>
    /\ UNCHANGED <<min_increment, max_increment>>

SetMin(v) ==
    /\ v <= centre_increment /\ v # min_increment
    /\ min_increment' = v /\ commanded_increment' = Greatest(commanded_increment, v)
    /\ UNCHANGED <<centre_increment, max_increment, integral_correction, unquantised_correction>>

(* (Mutant: the commanded increment is left above a lower maximum.)        *)
SetMaxUnclamped(v) ==
    /\ v >= centre_increment /\ v # max_increment
    /\ max_increment' = v
    /\ UNCHANGED <<commanded_increment, centre_increment, min_increment, integral_correction,
                   unquantised_correction>>

SetMax(v) ==
    /\ v >= centre_increment /\ v # max_increment
    /\ max_increment' = v /\ commanded_increment' = Least(commanded_increment, v)
    /\ UNCHANGED <<centre_increment, min_increment, integral_correction, unquantised_correction>>

SetBound ==
    /\ \/ \E v \in Offered["centre"] : SetCentre(v)
       \/ \E v \in Offered["min"] : SetMin(v)
       \/ \E v \in Offered["max"] : SetMax(v)
    /\ UNCHANGED <<state, settings, saturated, measured, clocks, history>>

Next ==
    \/ Update
    \/ \E enabled \in BOOLEAN : SetEnabled(enabled)
    \/ Reset \/ ReacquireCommand
    \/ \E degrees \in Offered["target_phase"] : SetTargetPhase(degrees)
    \/ \E f \in Fields : \E v \in Offered[f] : SetField(f, v)
    \/ SetBound

Spec == Init /\ [][Next]_vars

----------------------------------------------------------------------------
(* Properties *)

TypeOK ==
    /\ state \in {"Fixed", "Acquiring", "Locked", "LockLost"}
    /\ centre_increment \in Nat /\ min_increment \in Nat /\ max_increment \in 0..TopIncrement
    /\ commanded_increment \in Nat
    /\ settings \in [Fields -> Int]
    /\ integral_correction \in Int /\ unquantised_correction \in Int
    /\ phase_error \in Int /\ observation_valid \in BOOLEAN /\ saturated \in BOOLEAN

(* The drive frequency never leaves the configured range, whatever the     *)
(* loop computes and whichever setter is called in whichever state, and    *)
(* although the correction's own limits are rounded.                       *)
InRange ==
    /\ min_increment <= centre_increment /\ centre_increment <= max_increment
    /\ min_increment <= commanded_increment /\ commanded_increment <= max_increment

(* A lock is earned: for the whole dwell every observation was valid and   *)
(* within tolerance and the corrections kept within the allowed spread.    *)
Suffix(s, k) == SubSeq(s, Len(s) - k + 1, Len(s))
Spread(s) == LET values == {s[i] : i \in 1..Len(s)} IN Max(values) - Min(values)
LockEarned ==
    [][state = "Acquiring" /\ state' = "Locked" =>
         LET k == Greatest(settings.lock_dwell, 1)
         IN  /\ observation_valid' /\ Len(good') >= k
             /\ Spread(Suffix(good', k)) <= settings.frequency_tolerance]_vars

(* Only an established lock can be lost, and only after a whole dwell      *)
(* outside the unlock tolerance or saturated, losses of signal included:   *)
(* "acquisition failure is non-faulting".                                  *)
LossEarned ==
    [][state # "LockLost" /\ state' = "LockLost" =>
         /\ state = "Locked"
         /\ \/ bad' >= Greatest(settings.unlock_dwell, 1)
            \/ pinned' >= Greatest(settings.saturation_dwell, 1)]_vars

(* The loss of lock is latched: the frequency is frozen, and only a reset  *)
(* leaves it (pll.rs: "deliberately latched"), for the centre frequency.   *)
LossLatched ==
    [][state = "LockLost" /\ range' = range =>
         \/ state' = "LockLost" /\ commanded_increment' = commanded_increment
         \/ Reset]_vars
=============================================================================
