------------------------------- MODULE Laser -------------------------------
(* The optoNCDT laser service: baud detection, configuration and the       *)
(* receive loop of laser.rs, with the command-reply and measurement        *)
(* parsers of helic-drivers/optoncdt.rs, against a sensor on the other end *)
(* of an asynchronous serial line.                                         *)
(*                                                                         *)
(* The sensor (external) boots late, answers late, may refuse a setting,   *)
(* and may be streaming from before the microcontroller restarted.  Bytes  *)
(* may be lost; the UART reports a loss in its place in the stream, one    *)
(* report for a run of lost bytes.  A reply is its error code, if any,     *)
(* then the prompt; the three bytes of a measurement carry its number.     *)
EXTENDS Naturals, Sequences, SequencesExt

CONSTANTS
    Bauds,          \* number of SUPPORTED_BAUDS; the first is REQUIRED_BAUD
    SyncFrames,     \* SYNC_FRAMES
    RxCap,          \* bound: items in the receive buffer
    MaxUpsets,      \* bound: time-outs that cut off an answer, refusals, failed writes
    MaxFaults,      \* bound: bytes lost on the line
    MaxEarly,       \* bound: measurements sent before the receive loop runs
    MaxMeasurements \* bound: measurements sent

ASSUME LaserAssumption ==
    /\ Bauds \in Nat \ {0} /\ SyncFrames \in Nat \ {0} /\ RxCap \in Nat \ {0}
    /\ MaxUpsets \in Nat /\ MaxFaults \in Nat /\ MaxMeasurements \in Nat
    /\ MaxEarly \in 0..MaxMeasurements

VARIABLES
    pc, n,                              \* task: what it does, attempt, baud or command number
    baud, reply_error,                  \* UART rate; CommandReplyParser.error
    stage, acc,                         \* Parser
    synchronised, clean_frames, destination,
    frames_received, uart_errors, parse_errors, invalid_frames, unexpected_values, sync_errors,
    rx, tx,                             \* received and not yet read; sent and not yet answered
    sensor_baud, booted, outputting, settings, next,   \* sensor
    upsets, faults,                     \* bounds
    disturbed, overdue, last            \* history: a loss since the drain; answers still
                                        \* due when it ended; the last two bytes read

task == <<pc, n, baud, reply_error>>
parser == <<stage, acc>>
counters == <<frames_received, uart_errors, parse_errors, invalid_frames, unexpected_values,
              sync_errors>>
receiver == <<parser, synchronised, clean_frames, destination, counters, last>>
sensor == <<sensor_baud, booted, outputting, settings, next>>
history == <<disturbed, overdue>>
laser_vars == <<task, receiver, rx, tx, sensor, upsets, faults, history>>

Required == 1
Commands == <<"OutputNone", "Measrate", "NoReduction", "DistanceOnly", "OutputRs422">>
Settings == {"Measrate", "NoReduction", "DistanceOnly"}
(* What the UART receives: a byte of a measurement, by its flag bits, an   *)
(* error code or prompt of a reply, or the report of a loss.               *)
Text(what) == [flags |-> what, m |-> 0, in_range |-> FALSE]
Fault == Text("fault")
Lose(items) == IF items # <<>> /\ Last(items) = Fault THEN items ELSE Append(items, Fault)

(* A sensor in its power-on state or as an earlier run left it. *)
LaserInit ==
    /\ pc = "stop" /\ n = 1 /\ baud = Required /\ reply_error = FALSE
    /\ stage = 0 /\ acc = <<>> /\ synchronised = FALSE /\ clean_frames = 0 /\ destination = <<>>
    /\ frames_received = 0 /\ uart_errors = 0 /\ parse_errors = 0 /\ invalid_frames = 0
    /\ unexpected_values = 0 /\ sync_errors = 0
    /\ rx = <<>> /\ tx = <<>>
    /\ sensor_baud \in 1..Bauds /\ booted = FALSE /\ outputting \in BOOLEAN
    /\ settings \in {{}, Settings} /\ next = [m |-> 1, byte |-> 1]
    /\ upsets = 0 /\ faults = 0 /\ disturbed = FALSE /\ overdue = 0 /\ last = <<>>

----------------------------------------------------------------------------
(* Sensor and line (external) *)

Boot ==
    /\ ~booted /\ booted' = TRUE
    /\ UNCHANGED <<task, receiver, rx, tx, sensor_baud, outputting, settings, next,
                   upsets, faults, history>>

(* The oldest unanswered command is answered; heard at another rate the    *)
(* answer is a framing error.                                              *)
Answer(ok) ==
    LET command == Head(tx)
        text == IF ok THEN <<Text(">")>> ELSE <<Text("E"), Text(">")>>
    IN  /\ tx # <<>> /\ Len(rx) + 2 <= RxCap
        /\ tx' = Tail(tx)
        /\ rx' = IF baud = sensor_baud THEN rx \o text ELSE Lose(rx)
        /\ ok \/ (upsets < MaxUpsets /\ command \in Settings \cup {"OutputRs422"})
        /\ upsets' = IF ok THEN upsets ELSE upsets + 1
        /\ outputting' = IF ok /\ command \in {"OutputNone", "OutputRs422"}
                         THEN command = "OutputRs422" ELSE outputting
        /\ settings' = IF ok THEN settings \cup ({command} \cap Settings) ELSE settings
        /\ next' = IF outputting' # outputting THEN [next EXCEPT !.byte = 1] ELSE next
        /\ UNCHANGED <<task, receiver, sensor_baud, booted, faults, history>>

(* Bytes 1..3 are the L, M and H byte of the distance, 4..6 of a second    *)
(* value when the outputs were not reduced to the distance.  The distance  *)
(* is in range or not.  Any byte may be lost.                              *)
Emit(in_range, lost) ==
    LET width == IF "DistanceOnly" \in settings THEN 3 ELSE 6
        byte == [flags |-> <<"L", "M", "H", "L", "M", "X">>[next.byte], m |-> next.m,
                 in_range |-> in_range]
    IN  /\ booted /\ outputting /\ Len(rx) < RxCap
        /\ next.m <= IF pc = "running" THEN MaxMeasurements ELSE MaxEarly
        /\ next' = IF next.byte >= width THEN [m |-> next.m + 1, byte |-> 1]
                                         ELSE [next EXCEPT !.byte = @ + 1]
        /\ in_range \/ next.byte = 3
        /\ IF lost
           THEN /\ faults < MaxFaults /\ faults' = faults + 1
                /\ rx' = Lose(rx) /\ disturbed' = TRUE
           ELSE /\ rx' = IF baud = sensor_baud THEN Append(rx, byte) ELSE Lose(rx)
                /\ disturbed' = (disturbed \/ baud # sensor_baud) /\ UNCHANGED faults
        /\ UNCHANGED <<task, receiver, tx, sensor_baud, booted, outputting, settings, upsets,
                       overdue>>

----------------------------------------------------------------------------
(* detect_baudrate and configure *)

Go(where, number) == pc' = where /\ n' = number

(* write_all: what is sent at another rate, or to a sensor that has not    *)
(* booted, is never answered.  The reply parser is new.                    *)
Send(command, rate) ==
    /\ baud' = rate /\ reply_error' = FALSE
    /\ tx' = IF booted /\ rate = sensor_baud THEN Append(tx, command) ELSE tx
    /\ UNCHANGED <<receiver, rx, sensor, faults, history>>

Stop == pc = "stop" /\ Go("stop_wait", n) /\ Send("OutputNone", Required) /\ UNCHANGED upsets
Probe == pc = "probe" /\ Go("probe_wait", n) /\ Send("GetUserLevel", n) /\ UNCHANGED upsets
Command == pc = "command" /\ Go("command_wait", n) /\ Send(Commands[n], baud) /\ UNCHANGED upsets

(* What follows the outcome of a wait: "ok" or "error" replies, "none" for *)
(* a time-out, a UART error or a write that failed.  Going back to "stop"  *)
(* is the retry after a pause.                                             *)
(* (Mutants: one baud rate too many; the last rate for ever.)              *)
NextProbeBeyond(i) == IF i <= Bauds THEN Go("probe", i + 1) ELSE Go("stop", 1)
NextProbeLast(i) == IF i < Bauds THEN Go("probe", i + 1) ELSE Go("probe", Bauds)
NextProbe(i) == IF i < Bauds THEN Go("probe", i + 1) ELSE Go("stop", 1)

Outcome(r) ==
    \/ /\ pc \in {"stop", "stop_wait"}
       /\ \/ r # "none" /\ Go("command", 1)
          \/ r = "none" /\ n < 3 /\ Go("stop", n + 1)
          \/ r = "none" /\ n = 3 /\ NextProbe(0)
    \/ /\ pc \in {"probe", "probe_wait"}
       /\ \/ r # "none" /\ n = Required /\ Go("command", 1)
          \/ r # "none" /\ n # Required /\ Go("stop", 1)
          \/ r = "none" /\ NextProbe(n)
    \/ /\ pc \in {"command", "command_wait"}
       /\ \/ r = "ok" /\ n = 1 /\ Go("drain", 1)
          \/ r = "ok" /\ n \in 2..4 /\ Go("command", n + 1)
          \/ r = "ok" /\ n = 5 /\ Go("running", 1)
          \/ r # "ok" /\ Go("stop", 1)

Waiting == pc \in {"stop_wait", "probe_wait", "command_wait"}

(* wait_for_reply takes one item; measurements are skipped. *)
ReadReply ==
    LET item == Head(rx)
    IN  /\ Waiting /\ rx # <<>> /\ rx' = Tail(rx)
        /\ \/ item = Fault /\ Outcome("none") /\ UNCHANGED reply_error
           \/ item.flags = ">" /\ Outcome(IF reply_error THEN "error" ELSE "ok") /\ UNCHANGED reply_error
           \/ item.flags = "E" /\ reply_error' = TRUE /\ UNCHANGED <<pc, n>>
           \/ item.flags \notin {"fault", ">", "E"} /\ UNCHANGED <<pc, n, reply_error>>
        /\ UNCHANGED <<baud, receiver, tx, sensor, upsets, faults, history>>

(* with_timeout expires, with an answer under way or not. *)
Timeout ==
    /\ Waiting
    /\ (tx = <<>> /\ rx = <<>>) \/ upsets < MaxUpsets
    /\ upsets' = IF tx = <<>> /\ rx = <<>> THEN upsets ELSE upsets + 1
    /\ Outcome("none")
    /\ UNCHANGED <<baud, reply_error, receiver, rx, tx, sensor, faults, history>>

WriteFails ==
    /\ pc \in {"stop", "probe", "command"} /\ upsets < MaxUpsets
    /\ upsets' = upsets + 1
    /\ Outcome("none")
    /\ baud' = CASE pc = "stop" -> Required [] pc = "probe" -> n [] pc = "command" -> baud
    /\ UNCHANGED <<reply_error, receiver, rx, tx, sensor, faults, history>>

(* drain_stopped_stream: everything is discarded until nothing has come   *)
(* for 2 ms.  That tells the task nothing of the sensor: an answer may     *)
(* still be due, and is then read as the answer to a later command.        *)
(* (Mutant: no drain.)                                                     *)
Drain ==
    /\ pc = "drain" /\ rx # <<>> /\ rx' = Tail(rx)
    /\ UNCHANGED <<task, receiver, tx, sensor, upsets, faults, history>>

DrainEnds ==
    /\ pc = "drain" /\ Go("command", 2)
    /\ disturbed' = FALSE /\ overdue' = Len(tx)
    /\ UNCHANGED <<baud, reply_error, receiver, rx, tx, sensor, upsets, faults>>
DrainSkipped == DrainEnds
DrainQuiet == rx = <<>> /\ DrainEnds

----------------------------------------------------------------------------
(* laser_run *)

(* Parser::push_event: the next stage and the event.  The text of a late   *)
(* reply ends in characters with the flag bits of an L byte.               *)
Parse(byte) ==
    CASE byte.flags \in {">", "E"}                  -> [stage |-> 1, event |-> "Resynchronised"]
      [] stage = 0 /\ byte.flags = "L"              -> [stage |-> 1, event |-> "Pending"]
      [] stage = 1 /\ byte.flags = "M"              -> [stage |-> 2, event |-> "Pending"]
      [] stage = 2 /\ byte.flags \in {"H", "X"}     -> [stage |-> 0, event |-> "Value"]
      [] stage # 0 /\ byte.flags = "L"              -> [stage |-> 1, event |-> "Resynchronised"]
      [] OTHER                                      -> [stage |-> 0, event |-> "Resynchronised"]

(* (Mutant: the L byte is added to what is there.)                         *)
AccumulateKept(byte) ==
    IF byte.flags = "L" \/ (stage = 1 /\ byte.flags = "M") THEN Append(acc, byte.m) ELSE acc
Accumulate(byte) ==
    CASE byte.flags \in {"L", ">", "E"} -> <<byte.m>>
      [] stage = 1 /\ byte.flags = "M" -> Append(acc, byte.m)
      [] OTHER -> acc

(* An error counts as sync_errors, and restarts the count of clean frames, *)
(* until the stream is synchronised.  (Mutant: resynchronisations count    *)
(* from the start.)                                                        *)
CountEarly(uart, parse, unexpected) ==
    /\ uart_errors' = uart_errors + IF synchronised /\ uart THEN 1 ELSE 0
    /\ parse_errors' = parse_errors + IF parse THEN 1 ELSE 0
    /\ unexpected_values' = unexpected_values + IF synchronised /\ unexpected THEN 1 ELSE 0
    /\ sync_errors' = sync_errors + IF synchronised THEN 0 ELSE 1
    /\ clean_frames' = IF synchronised THEN clean_frames ELSE 0
    /\ UNCHANGED <<synchronised, frames_received, invalid_frames, destination>>

Count(uart, parse, unexpected) ==
    /\ uart_errors' = uart_errors + IF synchronised /\ uart THEN 1 ELSE 0
    /\ parse_errors' = parse_errors + IF synchronised /\ parse THEN 1 ELSE 0
    /\ unexpected_values' = unexpected_values + IF synchronised /\ unexpected THEN 1 ELSE 0
    /\ sync_errors' = sync_errors + IF synchronised THEN 0 ELSE 1
    /\ clean_frames' = IF synchronised THEN clean_frames ELSE 0
    /\ UNCHANGED <<synchronised, frames_received, invalid_frames, destination>>

(* The first value of a measurement; DistanceScale::convert tells whether  *)
(* it is a distance.                                                       *)
Frame(byte) ==
    /\ clean_frames' = IF synchronised THEN clean_frames ELSE clean_frames + 1
    /\ synchronised' = (synchronised \/ clean_frames + 1 = SyncFrames)
    /\ frames_received' = frames_received + IF synchronised' THEN 1 ELSE 0
    /\ invalid_frames' = invalid_frames + IF synchronised' /\ ~byte.in_range THEN 1 ELSE 0
    /\ destination' = IF byte.in_range THEN Append(acc, byte.m) ELSE destination
    /\ UNCHANGED <<uart_errors, parse_errors, unexpected_values, sync_errors>>

(* Parser::reset.  (Mutant: a lost byte leaves the parser as it was.)      *)
ParserKept == UNCHANGED parser
ParserReset == stage' = 0 /\ acc' = <<>>

Receive ==
    LET item == Head(rx)
        parsed == Parse(item)
    IN  /\ pc = "running" /\ rx # <<>> /\ rx' = Tail(rx)
        /\ \/ /\ item = Fault /\ Count(TRUE, FALSE, FALSE)
              /\ ParserReset /\ last' = <<>>
           \/ /\ item # Fault
              /\ stage' = parsed.stage /\ acc' = Accumulate(item)
              /\ last' = IF Len(last) < 2 THEN Append(last, item) ELSE <<last[2], item>>
              /\ CASE parsed.event = "Pending" ->
                          UNCHANGED <<synchronised, clean_frames, destination, counters>>
                   [] parsed.event = "Resynchronised" -> Count(FALSE, TRUE, FALSE)
                   [] parsed.event = "Value" /\ item.flags = "X" -> Count(FALSE, FALSE, TRUE)
                   [] parsed.event = "Value" /\ item.flags = "H" -> Frame(item)
        /\ UNCHANGED <<task, tx, sensor, upsets, faults, history>>

(* Nothing more is sent and the receive loop waits. *)
Busy == pc = "running" /\ rx = <<>> /\ tx = <<>> /\ UNCHANGED laser_vars

Task == \/ Stop \/ Probe \/ Command \/ ReadReply \/ Timeout \/ WriteFails
        \/ Drain \/ DrainQuiet \/ Receive

LaserNext ==
    \/ Task \/ Boot \/ Busy
    \/ \E ok \in BOOLEAN : Answer(ok)
    \/ \E in_range, lost \in BOOLEAN : Emit(in_range, lost)

(* The task is scheduled; a powered sensor boots and answers. *)
Fairness == WF_laser_vars(Task) /\ WF_laser_vars(Boot) /\ WF_laser_vars(Answer(TRUE))
LaserSpec == LaserInit /\ [][LaserNext]_laser_vars /\ Fairness

----------------------------------------------------------------------------
(* Properties *)

LaserTypeOK ==
    /\ pc \in {"stop", "stop_wait", "probe", "probe_wait", "command", "command_wait", "drain",
               "running"}
    /\ n \in CASE pc \in {"stop", "stop_wait"} -> 1..3
               [] pc \in {"probe", "probe_wait"} -> 1..Bauds
               [] OTHER -> 1..5
    /\ baud \in 1..Bauds /\ sensor_baud \in 1..Bauds
    /\ reply_error \in BOOLEAN /\ synchronised \in BOOLEAN /\ stage \in 0..2
    /\ clean_frames \in 0..SyncFrames
    /\ \A c \in 1..6 : counters[c] \in Nat
    /\ Len(rx) <= RxCap /\ settings \subseteq Settings

(* The receive loop starts only on a sensor that has accepted its          *)
(* settings, whatever was refused and however many waits timed out.  An    *)
(* answer that was still due when drain_stopped_stream returned is read as *)
(* the answer to a later command, and every such answer puts the reading   *)
(* of the others off by one command: with one overdue only the refusal of  *)
(* OUTPUT RS422 goes unnoticed, with two that of the last setting as well. *)
SettingsAccepted ==
    pc = "running" =>
        /\ baud = Required /\ sensor_baud = Required
        /\ \A k \in 2..4 : k + overdue <= 5 => Commands[k] \in settings
        /\ overdue = 0 => outputting

(* A published distance is one measurement's: after lost bytes the parser  *)
(* never completes a value begun by another measurement.                   *)
DistanceWhole == overdue = 0 => \A i, j \in 1..Len(destination) : destination[i] = destination[j]

(* The diagnostics mean what they say: measurement counters "begin at the  *)
(* clean OUTPUT RS422 boundary", so, if nothing was overdue, a line that   *)
(* lost nothing since shows no error; once synchronised, a loss costs one  *)
(* UART error and at most two resynchronisations, and the sensor sends     *)
(* nothing unexpected.                                                     *)
ErrorsExplained ==
    overdue = 0 =>
        /\ ~disturbed => sync_errors = 0 /\ uart_errors = 0 /\ parse_errors = 0
        /\ parse_errors <= 2 * uart_errors
        /\ unexpected_values = 0

(* Recovery "within one measurement": whatever the parser has seen before, *)
(* the three bytes of an in-range measurement arriving together publish it.*)
WholePublished ==
    [][pc = "running" /\ rx # <<>> /\ rx' = Tail(rx) /\ Head(rx) # Fault /\ Len(last) = 2 =>
         LET item == Head(rx)
         IN  (/\ item.flags = "H" /\ item.in_range
              /\ last[1].flags = "L" /\ last[2].flags = "M"
              /\ last[1].m = item.m /\ last[2].m = item.m)
             => destination' = <<item.m, item.m, item.m>>]_laser_vars

(* A sensor at the required rate is brought into service although it boots *)
(* late, answers late and refuses now and then.                            *)
Configured == sensor_baud = Required ~> pc = "running"
=============================================================================
