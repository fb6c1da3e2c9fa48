----------------------------- MODULE Pll_proofs -----------------------------
(***************************************************************************)
(* The phase-locked loop for every range, gain, tolerance and dwell: the   *)
(* frequency stays in its range, a lock is taken and lost only when the    *)
(* history of observations says so, and a lost one is lost for good.       *)
(***************************************************************************)
EXTENDS Pll, WellFoundedInduction, TLAPS

(* The numbers of TypeOK: what arithmetic needs to know.                   *)
Numbers ==
    /\ state \in {"Fixed", "Acquiring", "Locked", "LockLost"}
    /\ centre_increment \in Nat /\ min_increment \in Nat /\ max_increment \in 0..TopIncrement
    /\ commanded_increment \in Nat
    /\ settings \in [Fields -> Int]
    /\ integral_correction \in Int /\ unquantised_correction \in Int
    /\ phase_error \in Int

(* The dwells that lead to a loss of lock are the histories they claim to  *)
(* measure.                                                                *)
Counted ==
    /\ bad \in Nat /\ pinned \in Nat
    /\ state = "Locked" => unlock_elapsed = bad /\ saturation_elapsed = pinned

IInv == Numbers /\ InRange /\ Counted

-----------------------------------------------------------------------------
(* The observation *)

(* The correction is clamped to rounded limits; the frequency made of it   *)
(* is clamped to the range itself.                                         *)
LEMMA CommandedInRange ==
    ASSUME Numbers, InRange, NEW correction \in Int
    PROVE  /\ AddSigned(centre_increment, correction) \in Nat
           /\ min_increment <= AddSigned(centre_increment, correction)
           /\ AddSigned(centre_increment, correction) <= max_increment
  BY PllAssumption DEF Numbers, InRange, AddSigned, Least, Greatest

LEMMA WrapIsInt ==
    ASSUME NEW degrees \in Int
    PROVE  Wrap(degrees) \in Int
  <1>1. Half \in Int /\ Turn \in Nat \ {0}
    BY PllAssumption DEF Half
  <1>2. (degrees + Half) % Turn \in Int
    BY <1>1
  <1> QED
    BY <1>1, <1>2 DEF Wrap

LEMMA CorrectedSound ==
    ASSUME Numbers, InRange, NEW err \in Int, NEW e \in Nat
    PROVE  /\ Corrected(err, e).err \in Int /\ Corrected(err, e).integral \in Int
           /\ Corrected(err, e).correction \in Int /\ Corrected(err, e).commanded \in Nat
           /\ min_increment <= Corrected(err, e).commanded
           /\ Corrected(err, e).commanded <= max_increment
           /\ Corrected(err, e).valid \in BOOLEAN /\ Corrected(err, e).saturated \in BOOLEAN
  <1> DEFINE increment == settings.integral_gain * err
             candidate == integral_correction + increment
             proportional == settings.proportional_gain * err
             high == proportional + candidate > MaxCorrection(e)
             low == proportional + candidate < MinCorrection(e)
             integral == IF WindsUp(high, low, increment) THEN integral_correction ELSE candidate
             correction == Greatest(Least(proportional + integral, MaxCorrection(e)),
                                    MinCorrection(e))
  <1>1. settings.integral_gain \in Int /\ settings.proportional_gain \in Int
    BY DEF Numbers, Fields
  <1>2. increment \in Int /\ proportional \in Int
    BY <1>1
  <1>3. MinCorrection(e) \in Int /\ MaxCorrection(e) \in Int
    BY DEF Numbers, MinCorrection, MaxCorrection
  <1>4. candidate \in Int
    BY <1>2 DEF Numbers
  <1> HIDE DEF increment, proportional, candidate
  <1>5. integral \in Int
    BY <1>4 DEF Numbers
  <1>6. proportional + integral \in Int
    BY <1>2, <1>5
  <1> HIDE DEF integral
  <1>7. correction \in Int
    BY <1>3, <1>6 DEF Least, Greatest
  <1> HIDE DEF correction
  <1>8. Corrected(err, e) =
          [valid |-> TRUE, err |-> err, integral |-> integral, correction |-> correction,
           saturated |-> high \/ low, commanded |-> AddSigned(centre_increment, correction)]
    BY Zenon DEF Corrected, increment, proportional, candidate, integral, correction
  <1>9. (high \/ low) \in BOOLEAN
    BY Zenon
  <1>10. /\ AddSigned(centre_increment, correction) \in Nat
         /\ min_increment <= AddSigned(centre_increment, correction)
         /\ AddSigned(centre_increment, correction) <= max_increment
    BY <1>7, CommandedInRange
  <1> HIDE DEF high, low
  <1> QED
    BY <1>5, <1>7, <1>8, <1>9, <1>10

(* Whatever phase the demodulator reports, an observation steers to a      *)
(* frequency in the range; without a phase the frequency stands.           *)
LEMMA ObservationSound ==
    ASSUME Numbers, InRange, NEW o \in Observations
    PROVE  /\ o.err \in Int /\ o.integral \in Int /\ o.correction \in Int /\ o.commanded \in Nat
           /\ min_increment <= o.commanded /\ o.commanded <= max_increment
           /\ o.valid \in BOOLEAN /\ o.saturated \in BOOLEAN
  <1>1. CASE o = Observation(FALSE, 0, 0)
    BY <1>1 DEF Observation, Numbers, InRange
  <1>2. ASSUME NEW phase \in Phases, NEW e \in 0..Rounding, o = Observation(TRUE, phase, e)
        PROVE  /\ o.err \in Int /\ o.integral \in Int /\ o.correction \in Int
               /\ o.commanded \in Nat
               /\ min_increment <= o.commanded /\ o.commanded <= max_increment
               /\ o.valid \in BOOLEAN /\ o.saturated \in BOOLEAN
    <2> DEFINE err == Wrap(Wrap(phase + commanded_increment * settings.delay)
                             - settings.target_phase)
    <2>1. settings.delay \in Int /\ settings.target_phase \in Int
      BY DEF Numbers, Fields
    <2>2. phase \in Int /\ e \in Nat
      BY PllAssumption DEF Phases, Half
    <2>3. commanded_increment * settings.delay \in Int
      BY <2>1 DEF Numbers
    <2>4. phase + commanded_increment * settings.delay \in Int
      BY <2>2, <2>3
    <2>5. Wrap(phase + commanded_increment * settings.delay) \in Int
      BY <2>4, WrapIsInt
    <2>6. Wrap(phase + commanded_increment * settings.delay) - settings.target_phase \in Int
      BY <2>1, <2>5
    <2>7. err \in Int
      BY <2>6, WrapIsInt
    <2>8. o = Corrected(err, e)
      BY <1>2 DEF Observation
    <2> HIDE DEF err
    <2> QED
      BY <2>2, <2>7, <2>8, CorrectedSound
  <1>3. \/ o = Observation(FALSE, 0, 0)
        \/ \E phase \in Phases, e \in 0..Rounding : o = Observation(TRUE, phase, e)
    <2>1. CASE o \in {Observation(FALSE, 0, 0)}
      BY <2>1
    <2>2. CASE o \in UNION {{Observation(TRUE, phase, e) : e \in 0..Rounding} : phase \in Phases}
      <3>1. PICK phase \in Phases : o \in {Observation(TRUE, phase, e) : e \in 0..Rounding}
        BY <2>2
      <3> QED
        BY <3>1
    <2> QED
      BY <2>1, <2>2 DEF Observations
  <1> QED
    BY <1>1, <1>2, <1>3

-----------------------------------------------------------------------------
(* Invariance *)

LEMMA InitIInv == Init => IInv
  <1> SUFFICES ASSUME Init PROVE IInv
    OBVIOUS
  <1>1. \A f \in Fields \cup Bounds : Offered[f] \subseteq Int
    BY PllAssumption
  <1>2. \A b \in Bounds : Offered[b] \subseteq 0..TopIncrement
    BY PllAssumption
  <1>3. centre_increment \in 0..TopIncrement /\ min_increment \in 0..TopIncrement
        /\ max_increment \in 0..TopIncrement
    BY <1>2 DEF Init, Bounds
  <1>4. settings \in [Fields -> Int]
    BY <1>1 DEF Init, Configurations, Fields
  <1> QED
    BY <1>3, <1>4, PllAssumption DEF Init, IInv, Numbers, InRange, Counted

LEMMA StepIInv == IInv /\ [Next]_vars => IInv'
  <1> SUFFICES ASSUME IInv, [Next]_vars PROVE IInv'
    OBVIOUS
  <1> USE DEF IInv
  <1>1. CASE UNCHANGED vars
    BY <1>1 DEF vars, range, loop, measured, clocks, losses, dwells, history, Numbers, InRange, Counted
  <1>2. CASE WarmingUp
    BY <1>2 DEF WarmingUp, range, loop, losses, dwells, history, Numbers, InRange, Counted
  <1>3. ASSUME NEW o \in Observations, Observe(o)
        PROVE  /\ (state' \in {"Fixed", "Acquiring", "Locked", "LockLost"}) => Numbers'
               /\ InRange' /\ bad' \in Nat /\ pinned' \in Nat
    <2>1. /\ o.err \in Int /\ o.integral \in Int /\ o.correction \in Int /\ o.commanded \in Nat
          /\ min_increment <= o.commanded /\ o.commanded <= max_increment
      BY ObservationSound
    <2>2. bad' \in Nat /\ pinned' \in Nat
      BY <1>3, PllAssumption DEF Observe, Counted, Advance
    <2> QED
      BY <1>3, <2>1, <2>2 DEF Observe, range, Numbers, InRange
  <1>4. ASSUME NEW o \in Observations, EnterLocked(o) PROVE IInv'
    BY <1>3, <1>4 DEF EnterLocked, Observe, Counted
  <1>5. ASSUME NEW o \in Observations, Acquire(o) PROVE IInv'
    BY <1>3, <1>5 DEF Acquire, Counted, Numbers
  <1>6. ASSUME ResetLoop, state' \in {"Fixed", "Acquiring"}, UNCHANGED <<range, settings>>
        PROVE  IInv'
    BY <1>6 DEF ResetLoop, ClearQualification, range, Numbers, InRange, Counted
  <1>7. ASSUME NEW o \in Observations, AcquisitionFailed(o) PROVE IInv'
    BY <1>6, <1>7 DEF AcquisitionFailed
  <1>8. ASSUME NEW o \in Observations, UpdateLock(o) PROVE IInv'
    <2>1. state = "Locked" /\ Observe(o) /\ state' \in {"LockLost", "Locked"}
      BY <1>8 DEF UpdateLock
    <2>2. unlock_elapsed' = bad' /\ saturation_elapsed' = pinned'
      BY <1>8, <2>1 DEF UpdateLock, Observe, Counted, Dwell
    <2> QED
      BY <1>3, <2>1, <2>2 DEF Counted
  <1>9. ASSUME NEW enabled \in BOOLEAN, SetEnabled(enabled) PROVE IInv'
    BY <1>6, <1>9 DEF SetEnabled
  <1>10. CASE Reset
    BY <1>6, <1>10 DEF Reset
  <1>11. ASSUME Reacquire, UNCHANGED range, settings' \in [Fields -> Int] PROVE IInv'
    <2>1. CASE state \in {"Fixed", "Locked"}
      BY <1>11, <2>1 DEF Reacquire, ClearQualification, range, Numbers, InRange, Counted
    <2>2. CASE ~(state \in {"Fixed", "Locked"})
      BY <1>11, <2>2
      DEF Reacquire, range, loop, measured, clocks, losses, dwells, history, Numbers, InRange, Counted
    <2> QED
      BY <2>1, <2>2
  <1>12. CASE ReacquireCommand
    BY <1>11, <1>12 DEF ReacquireCommand, Numbers
  <1>13. ASSUME NEW degrees \in Offered["target_phase"], SetTargetPhase(degrees) PROVE IInv'
    <2>1. degrees \in Int
      BY PllAssumption DEF Fields
    <2>2. settings' \in [Fields -> Int]
      BY <1>13, <2>1 DEF SetTargetPhase, Numbers
    <2> QED
      BY <1>11, <1>13, <2>2 DEF SetTargetPhase
  <1>14. ASSUME NEW f \in Fields, NEW v \in Offered[f], SetField(f, v) PROVE IInv'
    <2>1. v \in Int
      BY PllAssumption
    <2>2. settings' \in [Fields -> Int]
      BY <1>14, <2>1 DEF SetField, Numbers
    <2> QED
      BY <1>14, <2>2
      DEF SetField, range, loop, measured, clocks, losses, dwells, history, Numbers, InRange, Counted
  <1>15. CASE SetBound
    <2>1. /\ UNCHANGED <<state, settings, bad, pinned>>
          /\ UNCHANGED phase_error /\ UNCHANGED <<unlock_elapsed, saturation_elapsed>>
      BY <1>15 DEF SetBound, measured, clocks, losses, history
    <2>2. /\ Offered["centre"] \subseteq 0..TopIncrement /\ Offered["min"] \subseteq 0..TopIncrement
          /\ Offered["max"] \subseteq 0..TopIncrement /\ TopIncrement \in Nat
      BY PllAssumption DEF Bounds
    <2>3. ASSUME NEW v \in Offered["centre"], SetCentre(v) PROVE IInv'
      BY <2>1, <2>2, <2>3 DEF SetCentre, Numbers, InRange, Counted
    <2>4. ASSUME NEW v \in Offered["min"], SetMin(v) PROVE IInv'
      BY <2>1, <2>2, <2>4 DEF SetMin, Numbers, InRange, Counted, Greatest
    <2>5. ASSUME NEW v \in Offered["max"], SetMax(v) PROVE IInv'
      BY <2>1, <2>2, <2>5 DEF SetMax, Numbers, InRange, Counted, Least
    <2> QED
      BY <1>15, <2>3, <2>4, <2>5 DEF SetBound
  <1>16. CASE Update
    BY <1>1, <1>2, <1>4, <1>5, <1>7, <1>8, <1>16 DEF Update, Idle
  <1> QED
    BY <1>1, <1>9, <1>10, <1>12, <1>13, <1>14, <1>15, <1>16 DEF Next

(* The flags are kept apart: nothing else depends on them.                 *)
Flags == observation_valid \in BOOLEAN /\ saturated \in BOOLEAN

LEMMA StepFlags == IInv /\ Flags /\ [Next]_vars => Flags'
  <1> SUFFICES ASSUME IInv, Flags, [Next]_vars PROVE Flags'
    OBVIOUS
  <1>1. ASSUME NEW o \in Observations, Observe(o) PROVE Flags'
    <2>1. o.valid \in BOOLEAN /\ o.saturated \in BOOLEAN
      BY ObservationSound DEF IInv
    <2> QED
      BY <1>1, <2>1 DEF Observe, Flags
  <1>2. CASE UNCHANGED vars
    BY <1>2 DEF vars, loop, measured, Flags
  <1>3. CASE Update
    BY <1>1, <1>2, <1>3 DEF Update, WarmingUp, Idle, EnterLocked, Acquire, AcquisitionFailed,
                            UpdateLock, ResetLoop, ClearQualification, loop, Flags
  <1>4. ASSUME Reacquire PROVE Flags'
    BY <1>4 DEF Reacquire, ClearQualification, loop, measured, Flags
  <1>5. CASE SetBound
    BY <1>5 DEF SetBound, measured, Flags
  <1> QED
    BY <1>2, <1>3, <1>4, <1>5
    DEF Next, SetEnabled, Reset, ReacquireCommand, SetTargetPhase, SetField, ResetLoop,
        ClearQualification, loop, measured, Flags

LEMMA Invariant == Spec => []IInv
  BY InitIInv, StepIInv, PTL DEF Spec

-----------------------------------------------------------------------------
(* Theorems *)

(* Every variable of the loop keeps its type; the increments stay words of *)
(* the phase accumulator.                                                  *)
THEOREM PllTypeCorrect == Spec => []TypeOK
  <1>1. Init => Flags
    BY DEF Init, Flags
  <1>2. Spec => []Flags
    BY <1>1, Invariant, StepFlags, PTL DEF Spec
  <1>3. IInv /\ Flags => TypeOK
    BY DEF IInv, Numbers, Flags, TypeOK
  <1> QED
    BY <1>2, <1>3, Invariant, PTL

(* The frequency the loop commands, and the centre it starts from, stay in *)
(* the configured range for every width of the phase word, every gain and  *)
(* delay, every rounding of the correction's limits and every sequence of  *)
(* setters (pll.rs, add_signed_correction and the three range setters).    *)
THEOREM FrequencyInRange == Spec => []InRange
  BY Invariant, PTL DEF IInv

-----------------------------------------------------------------------------
(* The dwell that earns a lock *)

(* While the loop acquires, the latest corrections of the run within       *)
(* tolerance, as many as the dwell has counted, lie between the two        *)
(* extremes the dwell keeps; a lock dwell is one the history can hold.     *)
Kept == Least(lock_elapsed, MaxDwell)
Dwelling ==
    /\ lock_elapsed \in Nat /\ good \in Seq(Int) /\ Len(good) <= MaxDwell
    /\ lock_correction_min \in Int /\ lock_correction_max \in Int
    /\ settings.lock_dwell <= MaxDwell
    /\ state = "Acquiring" =>
         /\ Kept <= Len(good)
         /\ \A i \in (Len(good) - Kept + 1)..Len(good) :
              lock_correction_min <= good[i] /\ good[i] <= lock_correction_max

(* A set of natural numbers that is not empty has a least member.          *)
LEMMA LeastMember ==
    ASSUME NEW T, T \subseteq Nat, T # {}
    PROVE  \E x \in T : \A y \in T : x <= y
  <1>1. \E R : R = OpToRel(<, Nat) /\ \A x, y \in Nat : <<y, x>> \in R <=> y < x
    <2>1. \A x, y \in Nat : <<y, x>> \in OpToRel(<, Nat) <=> y < x
      BY DEF OpToRel
    <2> QED
      BY <2>1, Zenon
  <1>2. PICK R : R = OpToRel(<, Nat) /\ \A x, y \in Nat : <<y, x>> \in R <=> y < x
    BY <1>1, Zenon
  <1>3. IsWellFoundedOn(R, Nat)
    BY <1>2, NatLessThanWellFounded, Zenon
  <1>4. PICK x \in T : \A y \in T : ~ (<<y, x>> \in R)
    BY <1>3, WFMin
  <1>5. \A y \in T : ~ (y < x)
    BY <1>2, <1>4
  <1> QED
    BY <1>5

(* The spread of a set of integers is no more than the interval it lies in.*)
LEMMA SpreadBounded ==
    ASSUME NEW S, S # {}, NEW lo \in Int, NEW hi \in Int,
           \A x \in S : x \in Int /\ lo <= x /\ x <= hi
    PROVE  Max(S) \in Int /\ Min(S) \in Int /\ Max(S) - Min(S) <= hi - lo
  <1>1. \E x \in S : \A y \in S : x <= y
    <2> DEFINE T == {x - lo : x \in S}
    <2>1. T \subseteq Nat /\ T # {}
      OBVIOUS
    <2>2. PICK t \in T : \A u \in T : t <= u
      BY <2>1, LeastMember
    <2>3. PICK x \in S : t = x - lo
      OBVIOUS
    <2>4. \A y \in S : x - lo <= y - lo
      BY <2>2, <2>3
    <2> QED
      BY <2>4
  <1>2. \E x \in S : \A y \in S : x >= y
    <2> DEFINE T == {hi - x : x \in S}
    <2>1. T \subseteq Nat /\ T # {}
      OBVIOUS
    <2>2. PICK t \in T : \A u \in T : t <= u
      BY <2>1, LeastMember
    <2>3. PICK x \in S : t = hi - x
      OBVIOUS
    <2>4. \A y \in S : hi - x <= hi - y
      BY <2>2, <2>3
    <2> QED
      BY <2>4
  <1>3. Min(S) \in S
    BY <1>1 DEF Min
  <1>4. Max(S) \in S
    BY <1>2 DEF Max
  <1> QED
    BY <1>3, <1>4

(* What one acquisition update does to the dwell: the new correction is    *)
(* the last of the kept ones, the others are the ones kept before.         *)
LEMMA DwellExtends ==
    ASSUME IInv, Dwelling, state = "Acquiring", NEW o \in Observations, Observe(o), LockDwell(o)
    PROVE  /\ lock_elapsed' \in Nat /\ good' \in Seq(Int) /\ Len(good') <= MaxDwell
           /\ lock_correction_min' \in Int /\ lock_correction_max' \in Int
           /\ Kept' <= Len(good')
           /\ \A i \in (Len(good') - Kept' + 1)..Len(good') :
                lock_correction_min' <= good'[i] /\ good'[i] <= lock_correction_max'
  <1> USE PllAssumption
  <1>1. o.correction \in Int
    BY ObservationSound DEF IInv
  <1>2. CASE Steady(o)
    <2> DEFINE old == IF Len(good) < MaxDwell THEN good ELSE Tail(good)
    <2>1. good' = Append(old, o.correction)
      BY <1>2 DEF Steady, Observe
    <2>2. lock_elapsed' = Advance(lock_elapsed) /\ lock_correction_min' = SpreadMin(o)
          /\ lock_correction_max' = SpreadMax(o)
      BY <1>2 DEF LockDwell
    <2>3. good \in Seq(Int) /\ Len(good) \in Nat /\ Len(good) <= MaxDwell /\ lock_elapsed \in Nat
          /\ lock_correction_min \in Int /\ lock_correction_max \in Int
      BY DEF Dwelling
    <2>4. old \in Seq(Int) /\ Len(old) < MaxDwell /\ Len(old) \in Nat
          /\ Len(old) >= Len(good) - 1 /\ Len(old) <= Len(good)
          /\ (Len(good) < MaxDwell => Len(old) = Len(good))
      BY <2>3
    <2>5. \A i \in 1..Len(old) : old[i] = good[i + (Len(good) - Len(old))] /\ old[i] \in Int
      <3>1. CASE Len(good) < MaxDwell
        BY <2>3, <3>1
      <3>2. CASE ~(Len(good) < MaxDwell)
        <4>1. good # <<>> /\ old = Tail(good) /\ Len(good) - Len(old) = 1
          BY <2>3, <3>2
        <4>2. \A i \in 1..Len(old) : Tail(good)[i] = good[i + 1] /\ good[i + 1] \in Int
          BY <2>3, <4>1
        <4> QED
          BY <4>1, <4>2
      <3> QED
        BY <3>1, <3>2
    <2>6. /\ good' \in Seq(Int) /\ Len(good') = Len(old) + 1 /\ good'[Len(old) + 1] = o.correction
          /\ \A i \in 1..Len(old) : good'[i] = old[i]
      BY <1>1, <2>1, <2>4
    <2> HIDE DEF old
    <2>7. lock_elapsed' \in Nat /\ lock_elapsed' <= lock_elapsed + 1
      BY <2>2, <2>3 DEF Advance
    <2>8. /\ SpreadMin(o) \in Int /\ SpreadMax(o) \in Int
          /\ SpreadMin(o) <= o.correction /\ o.correction <= SpreadMax(o)
          /\ lock_elapsed # 0 => SpreadMin(o) <= lock_correction_min
                                 /\ lock_correction_max <= SpreadMax(o)
      BY <1>1, <2>3 DEF SpreadMin, SpreadMax, Least, Greatest
    <2>9. Kept \in Nat /\ Kept' \in Nat /\ Kept' <= Kept + 1 /\ Kept' <= MaxDwell
          /\ Kept <= Len(good) /\ (lock_elapsed = 0 => Kept = 0)
      BY <2>3, <2>7 DEF Kept, Least, Dwelling
    <2>10. Kept' <= Len(good')
      BY <2>3, <2>4, <2>6, <2>9
    <2>11. ASSUME NEW i \in (Len(good') - Kept' + 1)..Len(good')
           PROVE  lock_correction_min' <= good'[i] /\ good'[i] <= lock_correction_max'
      <3>1. CASE i = Len(old) + 1
        BY <3>1, <2>2, <2>6, <2>8
      <3>2. CASE i # Len(old) + 1
        <4>1. i \in 1..Len(old) /\ i + Kept >= Len(old) + 1 /\ lock_elapsed # 0
          <5> DEFINE new == Len(good')
                     kept == Kept'
          <5>1. /\ new = Len(old) + 1 /\ Len(old) \in Nat /\ kept \in Nat /\ kept <= new
                /\ kept <= Kept + 1 /\ Kept \in Nat /\ i \in (new - kept + 1)..new
            BY <2>4, <2>6, <2>9, <2>10
          <5> HIDE DEF new, kept
          <5>2. i \in 1..Len(old) /\ i + Kept >= Len(old) + 1
            BY <3>2, <5>1
          <5> QED
            BY <5>1, <5>2, <2>9
        <4> DEFINE j == i + (Len(good) - Len(old))
        <4>2. j \in (Len(good) - Kept + 1)..Len(good)
          BY <4>1, <2>3, <2>4, <2>9
        <4>3. lock_correction_min <= good[j] /\ good[j] <= lock_correction_max
          BY <4>2 DEF Dwelling
        <4>4. good'[i] = good[j] /\ good[j] \in Int
          BY <4>1, <2>5, <2>6
        <4> HIDE DEF j
        <4> QED
          BY <4>1, <4>3, <4>4, <2>2, <2>3, <2>8
      <3> QED
        BY <3>1, <3>2
    <2> QED
      BY <2>2, <2>4, <2>6, <2>7, <2>8, <2>10, <2>11
  <1>3. CASE ~Steady(o)
    <2>1. lock_elapsed' = 0 /\ lock_correction_min' = o.correction
          /\ lock_correction_max' = o.correction
      BY <1>3 DEF LockDwell
    <2>2. good' \in Seq(Int) /\ Len(good') <= MaxDwell
      BY <1>1 DEF Observe, Dwelling
    <2>3. Kept' = 0
      BY <2>1 DEF Kept, Least
    <2> QED
      BY <1>1, <2>1, <2>2, <2>3
  <1> QED
    BY <1>2, <1>3

(* Nothing has been counted when the loop is made.                         *)
LEMMA InitDwelling == Init => Dwelling
  <1> SUFFICES ASSUME Init PROVE Dwelling
    OBVIOUS
  <1>1. settings.lock_dwell \in Offered["lock_dwell"]
    BY DEF Init, Configurations
  <1>2. settings.lock_dwell <= MaxDwell
    BY <1>1, PllAssumption
  <1>3. good = <<>> /\ lock_elapsed = 0 /\ lock_correction_min = 0 /\ lock_correction_max = 0
        /\ state # "Acquiring" /\ MaxDwell \in Nat
    BY PllAssumption DEF Init
  <1> QED
    BY <1>2, <1>3 DEF Dwelling

(* Every update and every setter keeps the dwell honest or restarts it.    *)
LEMMA StepDwelling == IInv /\ Dwelling /\ [Next]_vars => Dwelling'
  <1> SUFFICES ASSUME IInv, Dwelling, [Next]_vars PROVE Dwelling'
    OBVIOUS
  <1>1. ASSUME UNCHANGED <<good, dwells, settings>>, state' = "Acquiring" => state = "Acquiring"
        PROVE  Dwelling'
    BY <1>1 DEF dwells, Dwelling, Kept
  <1>2. ASSUME NEW correction \in Int, ClearQualification(correction),
               settings'.lock_dwell <= MaxDwell
        PROVE  Dwelling'
    BY <1>2, PllAssumption DEF ClearQualification, Dwelling, Kept, Least
  <1>3. ASSUME ResetLoop, UNCHANGED settings PROVE Dwelling'
    BY <1>2, <1>3 DEF ResetLoop, Dwelling
  <1>4. ASSUME NEW o \in Observations, EnterLocked(o) \/ Acquire(o) PROVE Dwelling'
    <2>1. state = "Acquiring" /\ Observe(o) /\ LockDwell(o) /\ UNCHANGED settings
      BY <1>4 DEF EnterLocked, Acquire, Observe
    <2> QED
      BY <2>1, DwellExtends DEF Dwelling
  <1>5. ASSUME NEW o \in Observations, UpdateLock(o) PROVE Dwelling'
    <2>1. good' = <<>> /\ UNCHANGED <<dwells, settings>> /\ state' # "Acquiring"
      BY <1>5 DEF UpdateLock, Observe
    <2> QED
      BY <2>1, PllAssumption DEF Dwelling, dwells
  <1>6. CASE Update
    BY <1>1, <1>3, <1>4, <1>5, <1>6 DEF Update, WarmingUp, Idle, AcquisitionFailed, vars, clocks, history
  <1>7. ASSUME Reacquire, settings'.lock_dwell <= MaxDwell PROVE Dwelling'
    <2>1. CASE state \in {"Fixed", "Locked"}
      <3>1. commanded_increment - centre_increment \in Int
        BY DEF IInv, Numbers
      <3> QED
        BY <1>2, <1>7, <2>1, <3>1 DEF Reacquire
    <2>2. CASE ~(state \in {"Fixed", "Locked"})
      BY <1>7, <2>2 DEF Reacquire, clocks, dwells, history, Dwelling, Kept
    <2> QED
      BY <2>1, <2>2
  <1>8. CASE ReacquireCommand
    BY <1>7, <1>8 DEF ReacquireCommand, Dwelling
  <1>9. ASSUME NEW degrees \in Offered["target_phase"], SetTargetPhase(degrees) PROVE Dwelling'
    <2>1. settings'.lock_dwell = settings.lock_dwell
      BY <1>9 DEF SetTargetPhase, IInv, Numbers, Fields
    <2> QED
      BY <1>7, <1>9, <2>1 DEF SetTargetPhase, Dwelling
  <1>10. ASSUME NEW f \in Fields, NEW v \in Offered[f], SetField(f, v) PROVE Dwelling'
    <2>1. settings'.lock_dwell <= MaxDwell
      BY <1>10, PllAssumption DEF SetField, Dwelling, IInv, Numbers, Fields
    <2>2. UNCHANGED <<state, good, lock_elapsed, lock_correction_min, lock_correction_max>>
      BY <1>10 DEF SetField, clocks, dwells, history
    <2> QED
      BY <2>1, <2>2 DEF Dwelling, Kept
  <1>11. CASE SetBound
    BY <1>1, <1>11 DEF SetBound, clocks, history
  <1>12. CASE UNCHANGED vars
    BY <1>1, <1>12 DEF vars, clocks, history
  <1> QED
    BY <1>3, <1>6, <1>8, <1>9, <1>10, <1>11, <1>12 DEF Next, SetEnabled, Reset

(* A lock is earned: over the last lock dwell, whatever its length, every  *)
(* observation was valid and within tolerance and the corrections kept     *)
(* within the allowed spread, although the settings may change and the     *)
(* dwell restart meanwhile (pll.rs, update_acquisition).                   *)
THEOREM LockIsEarned == Spec => LockEarned
  <1>1. IInv /\ Dwelling /\ [Next]_vars =>
           [state = "Acquiring" /\ state' = "Locked" =>
              LET k == Greatest(settings.lock_dwell, 1)
              IN  /\ observation_valid' /\ Len(good') >= k
                  /\ Spread(Suffix(good', k)) <= settings.frequency_tolerance]_vars
    <2> DEFINE k == Greatest(settings.lock_dwell, 1)
    <2> SUFFICES ASSUME IInv, Dwelling, Next, state = "Acquiring", state' = "Locked"
                 PROVE  /\ observation_valid' /\ Len(good') >= k
                        /\ Spread(Suffix(good', k)) <= settings.frequency_tolerance
      BY DEF vars
    <2>1. PICK o \in Observations : EnterLocked(o)
      BY DEF Next, Update, WarmingUp, Idle, Acquire, AcquisitionFailed, UpdateLock, SetEnabled,
             Reset, ReacquireCommand, Reacquire, SetTargetPhase, SetField, SetBound, vars
    <2>2. Observe(o) /\ LockDwell(o) /\ Qualifies(o) /\ Steady(o)
      BY <2>1 DEF EnterLocked, Qualifies
    <2>3. observation_valid'
      BY <2>2 DEF Steady, Within, Observe
    <2>4. settings.lock_dwell \in Int /\ settings.frequency_tolerance \in Int
      BY DEF IInv, Numbers, Fields
    <2>5. k \in Nat \ {0} /\ k <= MaxDwell /\ k <= lock_elapsed'
      BY <2>2, <2>4, PllAssumption DEF Greatest, Qualifies, LockDwell, Advance, Dwelling
    <2>6. /\ good' \in Seq(Int) /\ Len(good') \in Nat /\ Kept' <= Len(good') /\ lock_elapsed' \in Nat
          /\ lock_correction_min' \in Int /\ lock_correction_max' \in Int
          /\ \A i \in (Len(good') - Kept' + 1)..Len(good') :
               lock_correction_min' <= good'[i] /\ good'[i] <= lock_correction_max'
      BY <2>2, DwellExtends
    <2>7. k <= Kept' /\ Kept' \in Nat
      BY <2>5, <2>6, PllAssumption DEF Kept, Least
    <2>8. lock_correction_max' - lock_correction_min' <= settings.frequency_tolerance
      BY <2>2 DEF Steady, LockDwell
    <2>9. Spread(Suffix(good', k)) <= settings.frequency_tolerance
      <3> HIDE DEF k
      <3> DEFINE s == Suffix(good', k)
                 S == {s[i] : i \in 1..Len(s)}
      <3>1. /\ Len(s) = k
            /\ \A i \in 1..k : s[i] = good'[Len(good') - k + i]
        BY <2>5, <2>6, <2>7 DEF Suffix
      <3>2. ASSUME NEW i \in 1..k
            PROVE  s[i] \in Int /\ lock_correction_min' <= s[i] /\ s[i] <= lock_correction_max'
        <4>1. Len(good') - k + i \in (Len(good') - Kept' + 1)..Len(good')
          BY <2>5, <2>6, <2>7
        <4>2. Len(good') - k + i \in 1..Len(good')
          BY <2>5, <2>6, <2>7
        <4> QED
          BY <3>1, <4>1, <4>2, <2>6
      <3> HIDE DEF s
      <3>3. S # {} /\ \A x \in S : x \in Int /\ lock_correction_min' <= x /\ x <= lock_correction_max'
        <4>1. s[1] \in S
          BY <3>1, <2>5
        <4> QED
          BY <3>1, <3>2, <4>1
      <3>4. /\ Max(S) \in Int /\ Min(S) \in Int
            /\ Max(S) - Min(S) <= lock_correction_max' - lock_correction_min'
        BY <3>3, <2>6, SpreadBounded
      <3>5. Spread(s) = Max(S) - Min(S)
        BY DEF Spread
      <3> HIDE DEF S
      <3>6. Spread(s) <= settings.frequency_tolerance
        BY <3>4, <3>5, <2>6, <2>8, <2>4
      <3> QED
        BY <3>6 DEF s
    <2> QED
      BY <2>3, <2>5, <2>6, <2>7, <2>9
  <1>2. Spec => []Dwelling
    BY InitDwelling, StepDwelling, Invariant, PTL DEF Spec
  <1> QED
    BY <1>1, <1>2, Invariant, PTL DEF Spec, LockEarned

-----------------------------------------------------------------------------
(* A lock is lost only after a whole dwell outside the unlock tolerance or *)
(* saturated, whatever the dwells and tolerances (pll.rs, update_lock).    *)
THEOREM LossIsEarned == Spec => LossEarned
  <1>1. IInv /\ [Next]_vars =>
           [state # "LockLost" /\ state' = "LockLost" =>
              /\ state = "Locked"
              /\ \/ bad' >= Greatest(settings.unlock_dwell, 1)
                 \/ pinned' >= Greatest(settings.saturation_dwell, 1)]_vars
    <2> SUFFICES ASSUME IInv, Next, state # "LockLost", state' = "LockLost"
                 PROVE  /\ state = "Locked"
                        /\ \/ bad' >= Greatest(settings.unlock_dwell, 1)
                           \/ pinned' >= Greatest(settings.saturation_dwell, 1)
      BY DEF vars
    <2>1. PICK o \in Observations : UpdateLock(o)
      BY DEF Next, Update, WarmingUp, Idle, EnterLocked, Acquire, AcquisitionFailed, SetEnabled,
             Reset, ReacquireCommand, Reacquire, SetTargetPhase, SetField, SetBound, vars
    <2>2. settings.unlock_dwell \in Int /\ settings.saturation_dwell \in Int
      BY DEF IInv, Numbers, Fields
    <2>3. \/ ~Within(o, settings.unlock_tolerance) /\ unlock_elapsed' >= settings.unlock_dwell
          \/ o.saturated /\ saturation_elapsed' >= settings.saturation_dwell
      BY <2>1 DEF UpdateLock
    <2>4. /\ state = "Locked"
          /\ unlock_elapsed' = bad' /\ saturation_elapsed' = pinned'
          /\ ~Within(o, settings.unlock_tolerance) => bad' = Advance(bad)
          /\ o.saturated => pinned' = Advance(pinned)
      BY <2>1 DEF UpdateLock, Observe, IInv, Counted, Dwell
    <2>5. \A t \in Nat : Advance(t) \in Nat \ {0}
      BY PllAssumption DEF Advance
    <2> QED
      BY <2>2, <2>3, <2>4, <2>5 DEF IInv, Counted, Greatest
  <1> QED
    BY <1>1, Invariant, PTL DEF Spec, LossEarned

(* A lost lock holds its frequency until a reset, whichever command comes: *)
(* enable, disable, reacquire, a new target phase or any other setting     *)
(* (pll.rs, set_enabled and reacquire).                                    *)
THEOREM LossStays == Spec => LossLatched
  <1>1. [Next]_vars =>
           [state = "LockLost" /\ range' = range =>
              \/ state' = "LockLost" /\ commanded_increment' = commanded_increment
              \/ Reset]_vars
    <2> SUFFICES ASSUME Next, state = "LockLost", range' = range
                 PROVE  \/ state' = "LockLost" /\ commanded_increment' = commanded_increment
                        \/ Reset
      BY DEF vars
    <2>1. CASE Update
      BY <2>1 DEF Update, WarmingUp, Idle, EnterLocked, Acquire, AcquisitionFailed, UpdateLock, vars
    <2>2. ASSUME SetBound PROVE FALSE
      BY <2>2 DEF SetBound, SetCentre, SetMin, SetMax, range
    <2> QED
      BY <2>1, <2>2 DEF Next, SetEnabled, ReacquireCommand, Reacquire, SetTargetPhase, SetField
  <1> QED
    BY <1>1, PTL DEF Spec, LossLatched
=============================================================================
