--------------------------- MODULE Program_proofs ---------------------------
(***************************************************************************)
(* The standard programme for every width of the phase word, every table   *)
(* length, every multiplier and every gain.                                *)
(***************************************************************************)
EXTENDS Program, TLAPS

(* Arithmetic *)

LEMMA WordIsInt == Modulus \in Nat \ {0, 1} /\ Words \subseteq Nat
                   /\ \A w \in Words : w < Modulus
  BY ProgramAssumption DEF Words

LEMMA ModUnique ==
    ASSUME NEW x \in Int, NEW q \in Int, NEW r \in Words, x = q * Modulus + r
    PROVE  x % Modulus = r
  BY WordIsInt

(* One step of the accumulator wraps at most once.                         *)
LEMMA AdvanceOnce ==
    ASSUME NEW word \in Words, NEW by \in Words
    PROVE  /\ Advance(word, by) \in Words
           /\ Wraps(word, by) => Advance(word, by) = word + by - Modulus
           /\ ~Wraps(word, by) => Advance(word, by) = word + by
  BY WordIsInt DEF Advance, Wraps, Words

LEMMA WordOf ==
    ASSUME NEW x \in Int
    PROVE  x % Modulus \in Words
  BY WordIsInt DEF Words

(* The wrapping difference of two successive phases is the increment.      *)
LEMMA DifferenceIsIncrement ==
    ASSUME NEW word \in Words, NEW by \in Words
    PROVE  (Advance(word, by) - word) % Modulus = by
  <1>1. CASE Wraps(word, by)
    <2>1. Advance(word, by) - word = (-1) * Modulus + by
      BY <1>1, AdvanceOnce, WordIsInt
    <2> QED
      BY <2>1, ModUnique, WordIsInt
  <1>2. CASE ~Wraps(word, by)
    <2>1. Advance(word, by) - word = 0 * Modulus + by
      BY <1>2, AdvanceOnce, WordIsInt
    <2> QED
      BY <2>1, ModUnique, WordIsInt
  <1> QED
    BY <1>1, <1>2

(* A product of bounded factors is bounded.                                *)
LEMMA ProductBounded ==
    ASSUME NEW a \in Nat, NEW b \in Nat, NEW x \in (0 - a)..a, NEW y \in (0 - b)..b
    PROVE  x * y \in (0 - a * b)..(a * b)
  OBVIOUS

(* The index of a knot is below the length of the table.                   *)
LEMMA IndexInTable ==
    ASSUME NEW theta \in Words, NEW n \in Nat \ {0}
    PROVE  (theta * n) \div Modulus \in 0..(n - 1)
  BY WordIsInt

LEMMA PassBounded ==
    ASSUME NEW a \in Words, NEW b \in Words, NEW c \in Words
    PROVE  /\ b * c \in Nat /\ a + b * c \in Nat
           /\ a + b * c \in 0..(Modulus * Modulus - 1)
  <1>1. a \in Nat /\ b \in Nat /\ c \in Nat /\ a <= Modulus - 1 /\ b <= Modulus - 1
        /\ c <= Modulus - 1
    BY WordIsInt
  <1>2. b * c \in Nat /\ b * c <= (Modulus - 1) * (Modulus - 1)
    BY <1>1, WordIsInt
  <1>3. (Modulus - 1) * (Modulus - 1) = Modulus * Modulus - 2 * Modulus + 1
        /\ Modulus * Modulus \in Nat
    BY WordIsInt
  <1> QED
    BY <1>1, <1>2, <1>3, WordIsInt

-----------------------------------------------------------------------------
(* The inductive invariant *)

(* What the commands set. *)
SettingsOK ==
    /\ rig \in Rigs
    /\ phase \in Words /\ increment \in Words /\ nominal_increment \in Words
    /\ table_increment \in Words /\ mode \in Modes
    /\ interpolation \in Interpolations /\ multiplier \in Words \ {0} /\ phase_offset \in Words
    /\ table_len \in Lengths \cup {0}

(* Where the player is.  A locked pass that runs has a table and measured  *)
(* the master phase at the last tick: it is never skipped by one.          *)
PlaybackOK ==
    /\ table_phase \in Words /\ previous_master \in Words
    /\ locked_progress \in 0..(Modulus * Modulus - 1)
    /\ one_shot \in {"Idle", "Armed", "Running"} /\ travel \in Nat
    /\ one_shot = "Armed" => mode = "LockedOneShot"
    /\ one_shot = "Running" => mode \in {"OneShot", "LockedOneShot"}
    /\ one_shot = "Running" /\ mode = "LockedOneShot" =>
           previous_master = phase /\ table_len >= 2

PlayerInv == SettingsOK /\ PlaybackOK /\ OnePass

LEMMA InitPlayer == Init => PlayerInv
  BY WordIsInt, ProgramAssumption
  DEF Init, PlayerInv, SettingsOK, PlaybackOK, OnePass, Modes, Interpolations, Words

(* One tick of the player, whatever arm it takes.                          *)
LEMMA TickPlayer ==
    ASSUME PlayerInv, phase' = Advance(phase, increment), Play,
           UNCHANGED <<mode, multiplier, table_len>>
    PROVE  PlaybackOK' /\ OnePass'
  <1> USE DEF PlayerInv, SettingsOK
  <1>0. phase' \in Words /\ (table_len = 0 \/ table_len \in Nat \ {0, 1})
    BY AdvanceOnce, ProgramAssumption
  <1>1. CASE Silent /\ (one_shot # "Running" \/ mode = "OneShot" \/ table_len < 2)
    BY <1>0, <1>1 DEF Silent, playback, PlaybackOK, OnePass
  <1>2. CASE Loop /\ mode = "Loop"
    BY <1>0, <1>2, AdvanceOnce DEF Loop, PlaybackOK, OnePass
  <1>3. CASE Pass /\ mode = "OneShot" /\ one_shot = "Running"
    <2>1. table_phase = travel /\ travel < Modulus
      BY <1>3 DEF OnePass
    <2>2. travel' = travel + table_increment /\ travel' \in Nat /\ table_phase' \in Words
      BY <1>3, AdvanceOnce, WordIsInt DEF Pass, PlaybackOK
    <2>3. CASE Wraps(table_phase, table_increment)
      BY <1>0, <1>3, <2>2, <2>3 DEF Pass, PlaybackOK, OnePass
    <2>4. CASE ~Wraps(table_phase, table_increment)
      <3>1. table_phase' = travel' /\ travel' < Modulus
        BY <1>3, <2>1, <2>2, <2>4, AdvanceOnce, WordIsInt DEF Pass, Wraps, PlaybackOK
      <3> QED
        BY <1>0, <1>3, <2>2, <2>4, <3>1 DEF Pass, PlaybackOK, OnePass
    <2> QED
      BY <2>3, <2>4
  <1>4. CASE LockedLoop /\ mode = "LockedLoop"
    BY <1>0, <1>4 DEF LockedLoop, playback, PlaybackOK, OnePass
  <1>5. CASE LockedStart /\ mode = "LockedOneShot" /\ table_len >= 2
    <2>1. 0 \in 0..(Modulus * Modulus - 1)
      BY PassBounded, WordIsInt DEF Words
    <2> QED
      BY <1>0, <1>5, <2>1, WordIsInt DEF LockedStart, PlaybackOK, OnePass
  <1>6. CASE LockedPass /\ mode = "LockedOneShot" /\ one_shot = "Running" /\ table_len >= 2
    <2>1. previous_master = phase /\ locked_progress = travel /\ travel \in Words
      BY <1>6, WordIsInt DEF PlaybackOK, OnePass, Words
    <2>2. (phase' - previous_master) % Modulus = increment
      BY <2>1, DifferenceIsIncrement
    <2>3. /\ locked_progress' = travel + increment * multiplier
          /\ travel' = travel + increment * multiplier
          /\ previous_master' = phase' /\ UNCHANGED table_phase
          /\ travel' < Modulus \/ one_shot' = "Idle"
          /\ one_shot' \in {"Idle", "Running"}
      <3> DEFINE delta == (phase' - previous_master) % Modulus
                 progress == locked_progress + delta * multiplier
      <3>1. /\ previous_master' = phase' /\ locked_progress' = progress
            /\ travel' = travel + increment * multiplier /\ UNCHANGED table_phase
            /\ progress >= Modulus => one_shot' = "Idle"
            /\ ~(progress >= Modulus) => one_shot' = one_shot
        BY <1>6, Zenon DEF LockedPass
      <3>2. progress = travel + increment * multiplier /\ progress \in Nat
        BY <2>1, <2>2, PassBounded
      <3> HIDE DEF progress, delta
      <3> QED
        BY <1>6, <3>1, <3>2, WordIsInt
    <2>4. travel + increment * multiplier \in Nat
          /\ travel + increment * multiplier \in 0..(Modulus * Modulus - 1)
      BY <2>1, PassBounded
    <2> QED
      BY <1>0, <1>6, <2>3, <2>4 DEF PlaybackOK, OnePass
  <1>7. CASE table_len < 2 \/ mode = "Off"
    BY <1>1, <1>7 DEF Play, PlaybackOK
  <1>8. CASE ~(table_len < 2) /\ mode = "Loop"
    BY <1>2, <1>8 DEF Play
  <1>9. CASE ~(table_len < 2) /\ mode = "OneShot"
    BY <1>1, <1>3, <1>9 DEF Play
  <1>10. CASE ~(table_len < 2) /\ mode = "LockedLoop"
    BY <1>4, <1>10 DEF Play
  <1>11. CASE ~(table_len < 2) /\ mode = "LockedOneShot"
    <2>1. table_len >= 2
      BY <1>0, <1>11
    <2>2. PlayLockedOneShot
      BY <1>11 DEF Play
    <2> QED
      BY <1>1, <1>5, <1>6, <1>11, <2>1, <2>2 DEF PlayLockedOneShot
  <1> QED
    BY <1>7, <1>8, <1>9, <1>10, <1>11 DEF Modes

(* What no other part of the programme touches. *)
LEMMA StepPlayer == PlayerInv /\ [Next]_vars => PlayerInv'
  <1> SUFFICES ASSUME PlayerInv, [Next]_vars PROVE PlayerInv'
    OBVIOUS
  <1> USE DEF PlayerInv
  <1>1. CASE UNCHANGED vars
    BY <1>1 DEF vars, generator, player, playback, SettingsOK, PlaybackOK, OnePass
  <1>2. ASSUME NEW enabled \in BOOLEAN, NEW next \in Requests, Step(enabled, next)
        PROVE  PlayerInv'
    <2>1. /\ phase' = Advance(phase, increment) /\ Play
          /\ UNCHANGED <<rig, nominal_increment, table_increment, mode, interpolation, multiplier,
                         phase_offset, table_len>>
      BY <1>2 DEF Step, player
    <2>2. PlaybackOK' /\ OnePass'
      BY <2>1, TickPlayer
    <2>3. phase' \in Words /\ increment' \in Words
      <3>1. next = None \/ next \in Words
        BY ProgramAssumption DEF Requests
      <3> QED
        BY <1>2, <2>1, <3>1, AdvanceOnce DEF Step, SettingsOK
    <2> QED
      BY <2>1, <2>2, <2>3 DEF SettingsOK
  <1>3. ASSUME NEW i \in Increments, SetIncrement(i) \/ SetTableIncrement(i) PROVE PlayerInv'
    <2>1. i \in Words
      BY ProgramAssumption
    <2> QED
      BY <1>3, <2>1 DEF SetIncrement, SetTableIncrement, generator, player, playback, SettingsOK,
                        PlaybackOK, OnePass
  <1>4. ASSUME NEW rule \in Interpolations, SetInterpolation(rule) PROVE PlayerInv'
    BY <1>4 DEF SetInterpolation, generator, playback, SettingsOK, PlaybackOK, OnePass
  <1>5. ASSUME NEW m \in Multipliers, SetMultiplier(m) PROVE PlayerInv'
    <2>1. multiplier' \in Words \ {0}
      BY <1>5, ProgramAssumption DEF SetMultiplier, Words
    <2> QED
      BY <1>5, <2>1 DEF SetMultiplier, generator, playback, SettingsOK, PlaybackOK, OnePass
  <1>6. ASSUME NEW offset \in Offsets, SetPhaseOffset(offset) PROVE PlayerInv'
    BY <1>6, ProgramAssumption
    DEF SetPhaseOffset, generator, playback, SettingsOK, PlaybackOK, OnePass
  <1>7. ASSUME NEW m \in Modes, SetMode(m) PROVE PlayerInv'
    BY <1>7 DEF SetMode, generator, SettingsOK, PlaybackOK, OnePass
  <1>8. CASE Trigger
    BY <1>8, WordIsInt DEF Trigger, generator, player, SettingsOK, PlaybackOK, OnePass, Words
  <1>9. ASSUME NEW n \in Lengths, Activate(n) PROVE PlayerInv'
    <2>1. n \in Nat /\ n >= 2
      BY ProgramAssumption
    <2> QED
      BY <1>9, <2>1 DEF Activate, generator, player, playback, SettingsOK, PlaybackOK, OnePass
  <1>10. ASSUME NEW g \in GainNames, NEW v \in (0 - MaxGain)..MaxGain, SetGain(g, v)
         PROVE  PlayerInv'
    BY <1>10 DEF SetGain, generator, player, playback, SettingsOK, PlaybackOK, OnePass
  <1> QED
    BY <1>1, <1>2, <1>3, <1>4, <1>5, <1>6, <1>7, <1>8, <1>9, <1>10 DEF Next, Tick

LEMMA PlayerInvariant == Spec => []PlayerInv
  BY InitPlayer, StepPlayer, PTL DEF Spec

-----------------------------------------------------------------------------
(* Theorems about playback *)

(* For every width of the phase word, every multiplier and every sequence  *)
(* of commands and frequencies, a one-shot that sounds is in its only      *)
(* period and its own measure of the way is the way (table.rs, the sum of  *)
(* wrapping differences in step).                                          *)
THEOREM OnePassOnly == Spec => []OnePass
  BY PlayerInvariant, PTL DEF PlayerInv

LEMMA KnotsSound ==
    ASSUME PlayerInv, ~(table_len < 2), NEW theta \in Words
    PROVE  Knots(theta) \subseteq 0..(table_len - 1)
  <1>1. table_len \in Nat \ {0, 1}
    BY ProgramAssumption DEF PlayerInv, SettingsOK
  <1>2. Index(theta) \in 0..(table_len - 1)
    BY <1>1, IndexInTable DEF Index
  <1> QED
    BY <1>1, <1>2 DEF Knots

(* No tick reads past the active table, whatever its length, the phase and *)
(* the tables activated since the pass began (table.rs, evaluate_with).    *)
THEOREM KnotsStayInTable == Spec => KnotsInTable
  <1>1. PlayerInv /\ [Next]_vars =>
          [knots' # knots => knots' \subseteq 0..(table_len - 1)]_vars
    <2> SUFFICES ASSUME PlayerInv, Next, knots' # knots
                 PROVE  knots' \subseteq 0..(table_len - 1)
      BY DEF vars
    <2>1. Play /\ phase' = Advance(phase, increment)
      BY DEF Next, Tick, Step, SetIncrement, SetTableIncrement, SetInterpolation, SetMultiplier,
             SetPhaseOffset, SetMode, Trigger, Activate, SetGain
    <2>2. phase' \in Words /\ Advance(table_phase, table_increment) \in Words
      BY <2>1, AdvanceOnce DEF PlayerInv, SettingsOK, PlaybackOK
    <2>3. LockedTheta \in Words
      <3>1. phase' * multiplier \in Nat /\ phase_offset \in Nat
        BY <2>2, PassBounded, WordIsInt DEF PlayerInv, SettingsOK
      <3> QED
        BY <3>1, WordOf DEF LockedTheta
    <2>4. \/ knots' = {}
          \/ ~(table_len < 2) /\ \E theta \in Words : knots' = Knots(theta)
      <3>1. CASE table_len < 2 \/ mode = "Off"
        BY <2>1, <3>1 DEF Play, Silent
      <3>2. CASE ~(table_len < 2) /\ mode = "Loop"
        BY <2>1, <2>2, <3>2 DEF Play, Loop
      <3>3. CASE ~(table_len < 2) /\ mode = "OneShot"
        BY <2>1, <2>2, <3>3 DEF Play, Pass, Silent
      <3>4. CASE ~(table_len < 2) /\ mode = "LockedLoop"
        BY <2>1, <2>3, <3>4 DEF Play, LockedLoop
      <3>5. CASE ~(table_len < 2) /\ mode = "LockedOneShot"
        BY <2>1, <2>3, <3>5 DEF Play, PlayLockedOneShot, LockedStart, LockedPass, Silent
      <3> QED
        BY <3>1, <3>2, <3>3, <3>4, <3>5 DEF PlayerInv, SettingsOK, Modes
    <2> QED
      BY <2>4, KnotsSound
  <1> QED
    BY <1>1, PlayerInvariant, PTL DEF Spec, KnotsInTable

(* A pass that ends by itself has covered its period, and a locked one     *)
(* starts at the first tick of a period of the master phase, for every     *)
(* width of the phase word and every multiplier (table.rs, step).          *)
THEOREM PassesAreWhole == Spec => PassWhole
  <1>1. PlayerInv /\ [Next]_vars =>
          [/\ one_shot = "Running" /\ one_shot' = "Idle" =>
                travel' >= Modulus \/ \E m \in Modes : SetMode(m)
           /\ one_shot = "Armed" /\ one_shot' = "Running" => phase' < increment]_vars
    <2> SUFFICES ASSUME PlayerInv, Next
                 PROVE  /\ one_shot = "Running" /\ one_shot' = "Idle" =>
                             travel' >= Modulus \/ \E m \in Modes : SetMode(m)
                        /\ one_shot = "Armed" /\ one_shot' = "Running" => phase' < increment
      BY DEF vars
    <2>1. CASE \E m \in Modes : SetMode(m)
      BY <2>1 DEF SetMode
    <2>2. CASE Trigger
      BY <2>2 DEF Trigger, PlayerInv, PlaybackOK
    <2>3. ASSUME Play, phase' = Advance(phase, increment)
          PROVE  /\ one_shot = "Running" /\ one_shot' = "Idle" => travel' >= Modulus
                 /\ one_shot = "Armed" /\ one_shot' = "Running" => phase' < increment
      <3> USE DEF PlayerInv, SettingsOK, PlaybackOK
      <3>1. CASE Silent
        BY <3>1 DEF Silent, playback
      <3>2. CASE Loop
        BY <3>2 DEF Loop
      <3>3. CASE Pass /\ mode = "OneShot" /\ one_shot = "Running"
        BY <3>3, WordIsInt DEF Pass, OnePass, Wraps
      <3>4. CASE LockedLoop
        BY <3>4 DEF LockedLoop, playback
      <3>5. CASE LockedStart /\ one_shot = "Armed" /\ Wraps(phase, increment)
        BY <2>3, <3>5, AdvanceOnce, WordIsInt
      <3>6. CASE LockedPass /\ mode = "LockedOneShot" /\ one_shot = "Running"
        <4> DEFINE delta == (phase' - previous_master) % Modulus
                   progress == locked_progress + delta * multiplier
        <4>1. /\ travel' = travel + increment * multiplier
              /\ ~(progress >= Modulus) => one_shot' = one_shot
          BY <3>6, Zenon DEF LockedPass
        <4>2. previous_master = phase /\ locked_progress = travel
          BY <3>6 DEF OnePass
        <4>3. delta = increment
          BY <2>3, <4>2, DifferenceIsIncrement
        <4>4. progress = travel + increment * multiplier
          BY <4>2, <4>3
        <4> HIDE DEF progress, delta
        <4> QED
          BY <3>6, <4>1, <4>4
      <3>7. Silent \/ Loop \/ (Pass /\ mode = "OneShot" /\ one_shot = "Running") \/ LockedLoop
            \/ (LockedStart /\ one_shot = "Armed" /\ Wraps(phase, increment))
            \/ (LockedPass /\ mode = "LockedOneShot" /\ one_shot = "Running")
        <4>1. CASE table_len < 2 \/ mode = "Off"
          BY <2>3, <4>1 DEF Play
        <4>2. CASE ~(table_len < 2 \/ mode = "Off") /\ mode \in {"Loop", "OneShot", "LockedLoop"}
          BY <2>3, <4>2 DEF Play
        <4>3. CASE ~(table_len < 2 \/ mode = "Off") /\ mode = "LockedOneShot"
          <5>1. PlayLockedOneShot
            BY <2>3, <4>3 DEF Play
          <5> QED
            BY <4>3, <5>1 DEF PlayLockedOneShot
        <4> QED
          BY <4>1, <4>2, <4>3 DEF Modes
      <3> QED
        BY <3>1, <3>2, <3>3, <3>4, <3>5, <3>6, <3>7
    <2>4. CASE Tick
      BY <2>3, <2>4 DEF Tick, Step
    <2> QED
      BY <2>1, <2>2, <2>4 DEF Next, SetIncrement, SetTableIncrement, SetInterpolation,
           SetMultiplier, SetPhaseOffset, Activate, SetGain, playback
  <1> QED
    BY <1>1, PlayerInvariant, PTL DEF Spec, PassWhole

(* A frequency override never outlives the step that asked for it, for any *)
(* control and any sequence of frequency commands (program.rs, step).      *)
THEOREM NominalIsRestored == Spec => []NominalRestored
  <1>1. Init => NominalRestored
    BY DEF Init, NominalRestored
  <1>2. NominalRestored /\ [Next]_vars => NominalRestored'
    <2> SUFFICES ASSUME NominalRestored, [Next]_vars PROVE NominalRestored'
      OBVIOUS
    <2>1. CASE Tick
      <3>1. PICK enabled \in BOOLEAN, next \in Requests : Step(enabled, next)
        BY <2>1 DEF Tick
      <3>2. CASE enabled /\ next # None
        BY <3>1, <3>2, Zenon DEF Step, NominalRestored
      <3>3. CASE ~(enabled /\ next # None)
        BY <3>1, <3>3, Zenon DEF Step, NominalRestored
      <3> QED
        BY <3>2, <3>3
    <2>2. ASSUME NEW i \in Increments, SetIncrement(i) PROVE NominalRestored'
      BY <2>2 DEF SetIncrement, NominalRestored
    <2>3. ASSUME UNCHANGED <<increment, nominal_increment, frequency_overridden, output_enabled>>
          PROVE  NominalRestored'
      BY <2>3 DEF NominalRestored
    <2> QED
      BY <2>1, <2>2, <2>3 DEF Next, SetTableIncrement, SetInterpolation, SetMultiplier,
           SetPhaseOffset, SetMode, Trigger, Activate, SetGain, generator, vars
  <1> QED
    BY <1>1, <1>2, PTL DEF Spec

-----------------------------------------------------------------------------
(* The control *)

PidOK ==
    /\ gains \in [GainNames -> (0 - MaxGain)..MaxGain] /\ gains["tau_d"] >= 0
    /\ integral \in Int /\ prev_error \in (0 - MaxError)..MaxError
    /\ deriv \in (0 - 2 * MaxError)..(2 * MaxError)
    /\ age \in 0..MaxAge

PidInv == PidOK /\ ControlForgets /\ IntegralBounded

LEMMA Constants == /\ MaxGain \in Nat /\ MaxError \in Nat /\ OutMax \in Nat /\ MaxAge \in Nat \ {0}
                   /\ MaxGain * MaxError \in Nat
  BY ProgramAssumption

(* A filtered derivative stays where its old value and the raw one are.    *)
LEMMA DerivativeBounded ==
    ASSUME NEW old \in (0 - 2 * MaxError)..(2 * MaxError), NEW previous \in (0 - MaxError)..MaxError,
           NEW s, s.deriv = old, s.prev_error = previous,
           NEW error \in (0 - MaxError)..MaxError, NEW d \in Derivatives(s, error)
    PROVE  d \in (0 - 2 * MaxError)..(2 * MaxError)
  <1>1. RawDeriv(s, error) \in (0 - 2 * MaxError)..(2 * MaxError)
    BY Constants DEF RawDeriv
  <1> QED
    BY <1>1, Constants DEF Derivatives, Between

(* Conditional integration: the other terms and one step bound the excess. *)
LEMMA IntegrateBounded ==
    ASSUME PidOK, NEW s, s.integral \in (0 - Windup)..Windup,
           NEW error \in (0 - MaxError)..MaxError,
           NEW d \in (0 - 2 * MaxError)..(2 * MaxError)
    PROVE  /\ Integrate(s, error, d) \in (0 - Windup)..Windup
           /\ Integrate(s, error, d) - s.integral
                \in (0 - MaxGain * MaxError)..(MaxGain * MaxError)
  <1> DEFINE g == MaxGain * MaxError
             p == gains["kp"] * error
             k == gains["kd"] * d
             step == gains["ki"] * error
  <1>1. \A n \in GainNames : gains[n] \in (0 - MaxGain)..MaxGain
    BY DEF PidOK
  <1>2. g \in Nat /\ Windup = OutMax + 4 * g /\ MaxGain * (2 * MaxError) = 2 * g
    BY Constants DEF Windup
  <1>3. p \in (0 - g)..g /\ step \in (0 - g)..g
    BY <1>1, ProductBounded, Constants DEF GainNames
  <1>4. k \in (0 - 2 * g)..(2 * g)
    <2>1. 2 * MaxError \in Nat
      BY Constants
    <2>2. k \in (0 - MaxGain * (2 * MaxError))..(MaxGain * (2 * MaxError))
      BY <1>1, <2>1, ProductBounded, Constants DEF GainNames
    <2> QED
      BY <1>2, <2>2
  <1>5. Integrate(s, error, d) =
           IF (p + s.integral + k > OutMax /\ step > 0)
              \/ (p + s.integral + k < 0 - OutMax /\ step < 0)
           THEN s.integral ELSE s.integral + step
    BY DEF Integrate
  <1> HIDE DEF g, p, k, step
  <1>6. Integrate(s, error, d) \in (0 - Windup)..Windup /\ Integrate(s, error, d) - s.integral \in (0 - g)..g
    BY <1>2, <1>3, <1>4, <1>5, Constants
  <1> QED
    BY <1>6 DEF g

LEMMA Accumulates ==
    ASSUME NEW n \in Nat, NEW g \in Nat, NEW i \in Int, NEW j \in Int,
           i \in (0 - n * g)..(n * g), j - i \in (0 - g)..g
    PROVE  j \in (0 - (n + 1) * g)..((n + 1) * g)
  <1>1. n * g \in Nat /\ (n + 1) * g = n * g + g
    OBVIOUS
  <1> QED
    BY <1>1

LEMMA Reach == \A n \in Nat : n * MaxGain * MaxError = n * (MaxGain * MaxError)
  BY Constants

LEMMA StepPid == PidInv /\ [Next]_vars => PidInv'
  <1> SUFFICES ASSUME PidInv, [Next]_vars PROVE PidInv'
    OBVIOUS
  <1> USE DEF PidInv
  <1>1. ASSUME UNCHANGED <<integral, prev_error, deriv, age>>,
               gains' \in [GainNames -> (0 - MaxGain)..MaxGain], gains'["tau_d"] >= 0
        PROVE  PidInv'
    BY <1>1 DEF PidOK, ControlForgets, IntegralBounded, Windup
  <1>2. ASSUME NEW g \in GainNames, NEW v \in (0 - MaxGain)..MaxGain, SetGain(g, v)
        PROVE  PidInv'
    <2>1. /\ gains' \in [GainNames -> (0 - MaxGain)..MaxGain] /\ gains'["tau_d"] >= 0
      BY <1>2 DEF SetGain, PidOK, GainNames
    <2> QED
      BY <1>1, <1>2, <2>1 DEF SetGain, pid
  <1>3. ASSUME NEW enabled \in BOOLEAN, Control(enabled), UNCHANGED gains
        PROVE  PidInv'
    <2> DEFINE s == Started(enabled)
    <2>1. /\ s.prev_error \in (0 - MaxError)..MaxError
          /\ s.deriv \in (0 - 2 * MaxError)..(2 * MaxError)
          /\ s.integral \in (0 - Windup)..Windup /\ s.integral \in Int
          /\ s.integral = 0 \/ s.integral = integral
          /\ enabled /\ ~output_enabled => s.integral = 0
      <3>1. Windup \in Nat /\ integral \in (0 - Windup)..Windup
        BY Constants DEF IntegralBounded, Windup
      <3>2. CASE enabled /\ ~output_enabled
        BY <3>1, <3>2, Constants DEF Started, Clear
      <3>3. CASE ~(enabled /\ ~output_enabled)
        <4>1. s = Current
          BY <3>3 DEF Started
        <4> QED
          BY <3>1, <3>3, <4>1 DEF Current, PidOK
      <3> QED
        BY <3>2, <3>3
    <2>2. CASE ~(rig.policy = "Pid" /\ enabled)
      <3>1. PidSet(s) /\ age' = age
        BY <1>3, <2>2 DEF Control
      <3>2. 0 \in (0 - age * MaxGain * MaxError)..(age * MaxGain * MaxError)
        <4>1. age * MaxGain \in Nat
          BY Constants DEF PidOK
        <4>2. age * MaxGain * MaxError \in Nat
          BY <4>1, Constants
        <4> QED
          BY <4>2
      <3> QED
        BY <1>3, <2>1, <3>1, <3>2 DEF PidSet, PidOK, ControlForgets, IntegralBounded, Windup
    <2>3. CASE rig.policy = "Pid" /\ enabled
      <3>1. PICK error \in (0 - MaxError)..MaxError : \E d \in Derivatives(s, error) :
               PidUpdate(s, error, d)
        BY <1>3, <2>3 DEF Control
      <3>2. PICK d \in Derivatives(s, error) : PidUpdate(s, error, d)
        BY <3>1
      <3>3. d \in (0 - 2 * MaxError)..(2 * MaxError)
        BY <2>1, DerivativeBounded
      <3>4. age' = IF ~output_enabled THEN 1 ELSE IF age < MaxAge THEN age + 1 ELSE MaxAge
        BY <1>3, <2>3 DEF Control
      <3> HIDE DEF s
      <3>5. /\ integral' \in (0 - Windup)..Windup
            /\ integral' - s.integral \in (0 - MaxGain * MaxError)..(MaxGain * MaxError)
        BY <2>1, <3>2, <3>3, IntegrateBounded DEF PidUpdate
      <3>6. PidOK'
        <4>1. age' \in 0..MaxAge
          BY <3>4, Constants DEF PidOK
        <4>2. integral' \in Int
          BY <3>5, Constants DEF Windup
        <4> QED
          BY <1>3, <3>2, <3>3, <4>1, <4>2 DEF PidUpdate, PidOK
      <3>7. ControlForgets'
        <4> DEFINE g == MaxGain * MaxError
        <4>1. integral' \in Int /\ integral' - s.integral \in (0 - g)..g
          BY <3>5, Constants DEF Windup
        <4>2. age \in Nat
          BY DEF PidOK
        <4>3. g \in Nat
          BY Constants
        <4>4. CASE ~output_enabled
          <5>1. age' = 0 + 1 /\ s.integral = 0
            BY <2>1, <2>3, <3>4, <4>4
          <5>2. s.integral \in (0 - 0 * g)..(0 * g)
            BY <4>3, <5>1
          <5>3. integral' \in (0 - (0 + 1) * g)..((0 + 1) * g)
            BY <2>1, <4>1, <4>3, <5>2, Accumulates
          <5> QED
            BY <5>1, <5>3, Reach DEF ControlForgets
        <4>5. CASE output_enabled /\ age < MaxAge
          <5>1. age' = age + 1
            BY <3>4, <4>5
          <5>2. integral \in (0 - age * g)..(age * g)
            BY <4>2, <4>5, Reach DEF ControlForgets
          <5>3. s.integral \in (0 - age * g)..(age * g)
            <6>1. age * g \in Nat
              BY <4>2, <4>3
            <6> QED
              BY <2>1, <5>2, <6>1
          <5>4. integral' \in (0 - (age + 1) * g)..((age + 1) * g)
            BY <2>1, <4>1, <4>2, <4>3, <5>3, Accumulates
          <5> QED
            BY <4>2, <5>1, <5>4, Reach DEF ControlForgets
        <4>6. CASE output_enabled /\ ~(age < MaxAge)
          BY <3>4, <4>6, Constants DEF ControlForgets
        <4> QED
          BY <4>4, <4>5, <4>6
      <3> QED
        BY <3>5, <3>6, <3>7 DEF IntegralBounded, Windup
    <2> QED
      BY <2>2, <2>3
  <1>4. CASE Tick
    BY <1>3, <1>4 DEF Tick, Step
  <1> QED
    BY <1>1, <1>2, <1>4 DEF Next, SetIncrement, SetTableIncrement, SetInterpolation, SetMultiplier,
         SetPhaseOffset, SetMode, Trigger, Activate, pid, vars, PidOK

LEMMA PidInvariant == Spec => []PidInv
  <1>1. Init => PidInv
    <2> SUFFICES ASSUME Init PROVE PidInv
      OBVIOUS
    <2>1. gains \in [GainNames -> (0 - MaxGain)..MaxGain] /\ gains["tau_d"] >= 0
      BY Constants DEF Init, GainNames
    <2>2. age = 0 /\ age * MaxGain * MaxError = 0 /\ integral = 0 /\ 4 * MaxGain * MaxError \in Nat
      BY Constants DEF Init
    <2> QED
      BY <2>1, <2>2, Constants
      DEF Init, PidInv, PidOK, ControlForgets, IntegralBounded, Windup
  <1> QED
    BY <1>1, StepPid, PTL DEF Spec

(* The integrator holds what enabled ticks since the last enabling edge    *)
(* gathered and nothing else, for every gain and error (program.rs, the    *)
(* reset on the edge; pid.rs, update).                                     *)
THEOREM ControlStartsAfresh == Spec => []ControlForgets
  BY PidInvariant, PTL DEF PidInv

(* Conditional integration bounds the integrator for every gain, output    *)
(* limit and sequence of gain changes (pid.rs, update).                    *)
THEOREM WindupLimited == Spec => []IntegralBounded
  BY PidInvariant, PTL DEF PidInv

(* Every variable of the programme keeps its type; the phases stay words,  *)
(* and the product in a locked pass stays within two words (the code's     *)
(* u64).                                                                   *)
THEOREM ProgramTypeCorrect == Spec => []TypeOK
  <1> DEFINE Flags == /\ frequency_overridden \in BOOLEAN /\ output_enabled \in BOOLEAN
                      /\ first \in BOOLEAN
  <1>1. Init => Flags
    BY DEF Init
  <1>2. Flags /\ [Next]_vars => Flags'
    <2> SUFFICES ASSUME Flags, [Next]_vars PROVE Flags'
      OBVIOUS
    <2>1. ASSUME NEW enabled \in BOOLEAN, NEW next \in Requests, Step(enabled, next) PROVE Flags'
      <3>1. output_enabled' = enabled /\ frequency_overridden' = (enabled /\ next # None)
        BY <2>1, Zenon DEF Step
      <3>2. first' \in BOOLEAN
        <4>1. Started(enabled).first \in BOOLEAN
          BY DEF Started, Clear, Current
        <4> QED
          BY <2>1, <4>1 DEF Step, Control, PidSet, PidUpdate
      <3>3. output_enabled' \in BOOLEAN /\ frequency_overridden' \in BOOLEAN
        BY <3>1, Zenon
      <3> QED
        BY <3>2, <3>3
    <2> QED
      BY <2>1 DEF Next, Tick, SetIncrement, SetTableIncrement, SetInterpolation, SetMultiplier,
           SetPhaseOffset, SetMode, Trigger, Activate, SetGain, generator, pid, vars
  <1>3. Spec => []Flags
    BY <1>1, <1>2, PTL DEF Spec
  <1>4. PlayerInv /\ PidInv /\ Flags => TypeOK
    BY DEF PlayerInv, SettingsOK, PlaybackOK, PidInv, PidOK, TypeOK
  <1> QED
    BY <1>3, <1>4, PlayerInvariant, PidInvariant, PTL
=============================================================================
