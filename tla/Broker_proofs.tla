---------------------------- MODULE Broker_proofs ----------------------------
(***************************************************************************)
(* Theorems about the broker: the reconnection loop is always woken, the   *)
(* recorder and the session agree, the configuration of a running session  *)
(* stays, a connection is dropped for its own failures only, and every     *)
(* variable keeps its type, for any clients, layouts, requests and numbers *)
(* of connections and records.                                             *)
(***************************************************************************)
EXTENDS Broker, FiniteSetTheorems, TLAPS

(* Where a task owes the reconnection loop a notification, and where it    *)
(* owes the recorder or the session a change.                              *)
Cleaning == {"reset", "stop", "metadata", "epoch", "replace"}
Owing == {"run", "closing"} \cup Cleaning
Settled == Labels \ Owing

Handlers == RequestKinds \cup {"none", "failedstart", "disarm", "plainreboot", "owned",
                               "released", "kept"}

(* The parts of the state that the arguments below are about.              *)
ControlOK ==
    /\ pc \in [Tasks -> Labels]
    /\ op \in [Tasks -> Handlers]
    /\ was_running \in [Tasks -> BOOLEAN]
    /\ running \in BOOLEAN /\ recording \in BOOLEAN /\ reconnect \in BOOLEAN

(* A task whose recording was running closes it on the way out, and only   *)
(* such a task is about to.                                                *)
ClosersKnown ==
    \A t \in Tasks : /\ was_running[t] => pc[t] \in {"stop", "metadata", "epoch", "replace"}
                     /\ pc[t] = "stop" => was_running[t]

(* The receiver of a connection that is still to be installed has not      *)
(* been spawned.                                                           *)
Unspawned(g) ==
    g >= next_generation \/ (loop \in {"describe", "install"} /\ g = next_generation - 1)

ReceiversFresh ==
    /\ next_generation \in 1..(MaxGeneration + 1)
    /\ loop \in {"describe", "install"} => next_generation >= 2
    /\ \A g \in Generations : Unspawned(g) => pc[g] = "off"

IInv ==
    /\ ControlOK
    /\ ReceiversFresh
    /\ NoLostWakeup
    /\ ClosersKnown
    /\ RecordingFollowsSession

-----------------------------------------------------------------------------
(* Most steps move one task between labels where it owes nothing.          *)

Moves(t, L) ==
    /\ \E l \in L : pc' = [pc EXCEPT ![t] = l]
    /\ op' \in [Tasks -> Handlers]
    /\ \A u \in Tasks \ {t} : op'[u] = op[u]
    /\ was_running' = was_running \/ was_running' = [was_running EXCEPT ![t] = FALSE]

(* ... and leave the connection, the session and the recorder alone.       *)
Plain(t) ==
    /\ pc[t] \notin Owing
    /\ pc[t] = "off" => t \in Clients
    /\ Moves(t, Settled)
    /\ UNCHANGED <<running, recording, upstream, next_generation, reconnect, loop>>

(* One task moves to a label of S, and may change its handler.             *)
LEMMA MoveFacts ==
  ASSUME ControlOK, NEW t \in Tasks, NEW S, NEW l \in S, NEW k \in Handlers,
         pc' = [pc EXCEPT ![t] = l],
         op' = op \/ op' = [op EXCEPT ![t] = k],
         was_running' = was_running \/ was_running' = [was_running EXCEPT ![t] = FALSE]
  PROVE  Moves(t, S)
  <1>1. op' \in [Tasks -> Handlers] /\ \A u \in Tasks \ {t} : op'[u] = op[u]
    BY DEF ControlOK
  <1> QED BY <1>1, Zenon DEF Moves

(* Handlers return to a label where nothing is owed.                       *)
LEMMA ReturnMoves ==
  ASSUME ControlOK, NEW t \in Tasks, NEW l \in Settled, Return(t, l)
  PROVE  Moves(t, Settled)
  <1>1. "none" \in Handlers
    BY DEF Handlers
  <1> QED BY <1>1, MoveFacts, Zenon DEF Return, Goto

LEMMA StayMoves ==
  ASSUME ControlOK, NEW t \in Tasks, NEW S, NEW l \in S, Stay(t, l)
  PROVE  Moves(t, S)
  <1>1. "none" \in Handlers
    BY DEF Handlers
  <1> QED BY <1>1, MoveFacts, Zenon DEF Stay, Goto

(* Labels where nothing is owed.                                           *)
LEMMA SettledLabels ==
  \A l \in {"off", "accepted", "registered", "idle", "leave", "disarm", "request", "force",
            "take", "written", "write", "prepare", "record", "socket", "close", "own",
            "complete"} : l \in Settled
  BY DEF Settled, Labels, Owing, Cleaning

(* What follows an error owes nothing more.                                *)
LEMMA ErrorMoves ==
  ASSUME ControlOK, NEW t \in Tasks, AfterError(t)
  PROVE  Moves(t, Settled)
  <1>1. "failedstart" \in Handlers
    BY DEF Handlers
  <1>2. "off" \in Settled /\ "idle" \in Settled /\ "leave" \in Settled /\ "close" \in Settled
    BY SettledLabels
  <1>3. CASE op[t] = "start"
    <2>1. /\ pc' = [pc EXCEPT ![t] = "close"]
          /\ op' = [op EXCEPT ![t] = "failedstart"]
          /\ was_running' = was_running
      BY <1>3, Zenon DEF AfterError, Goto
    <2> QED BY <1>1, <1>2, <2>1, MoveFacts, Zenon
  <1>4. CASE op[t] # "start"
    <2>1. Return(t, "off") \/ Return(t, "idle") \/ Return(t, "leave")
      BY <1>4, Zenon DEF AfterError
    <2> QED BY <1>2, <2>1, ReturnMoves
  <1> QED BY <1>3, <1>4

(* Requests to the device.                                                 *)
LEMMA RequestPlain ==
  ASSUME ControlOK, NEW t \in Tasks, Request(t)
  PROVE  Plain(t)
  <1>h. /\ \A k \in {"owned", "released", "kept", "plainreboot", "none"} : k \in Handlers
    BY DEF Handlers
  <1>o. op[t] \in Handlers
    BY DEF ControlOK
  <1>1. pc[t] = "request" /\ UNCHANGED <<running, recording, upstream, next_generation, reconnect, loop>>
    BY DEF Request, NotConnected, Answered, Refused, Failed, link, session, recorder
  <1>2. Moves(t, Settled)
    <2>1. CASE NotConnected(t)
      BY <2>1, ErrorMoves DEF NotConnected
    <2>2. CASE Answered(t)
      <3>1. AfterAnswer(t)
        BY <2>2 DEF Answered
      <3>2. CASE op[t] = "setup"
        BY <3>1, <3>2, StayMoves, SettledLabels DEF AfterAnswer
      <3>3. CASE op[t] = "stop"
        BY <3>1, <3>3, StayMoves, SettledLabels DEF AfterAnswer
      <3>4. CASE op[t] = "disarm"
        BY <3>1, <3>4, ReturnMoves, SettledLabels DEF AfterAnswer
      <3>5. CASE op[t] \in {"block", "commit"}
        <4>1. /\ pc' = [pc EXCEPT ![t] = "own"]
              /\ was_running' = was_running
              /\ \E k \in {"owned", "released"} : op' = [op EXCEPT ![t] = k]
          BY <3>1, <3>5 DEF AfterAnswer, Goto
        <4> QED BY <1>h, <4>1, MoveFacts, SettledLabels
      <3>6. CASE op[t] = "reboot"
        <4>1. \/ /\ pc' = [pc EXCEPT ![t] = "take"] /\ op' = op /\ was_running' = was_running
              \/ Return(t, "leave")
          BY <3>1, <3>6 DEF AfterAnswer, Goto
        <4> QED BY <1>h, <4>1, MoveFacts, ReturnMoves, SettledLabels
      <3>7. CASE op[t] \notin {"setup", "stop", "disarm", "block", "commit", "reboot"}
        BY <3>1, <3>7, ReturnMoves, SettledLabels DEF AfterAnswer
      <3> QED BY <3>2, <3>3, <3>4, <3>5, <3>6, <3>7
    <2>3. CASE Refused(t)
      <3>1. AfterRefusal(t)
        BY <2>3 DEF Refused
      <3>2. CASE op[t] = "start"
        BY <3>1, <3>2, StayMoves, SettledLabels DEF AfterRefusal
      <3>3. CASE op[t] = "disarm"
        BY <3>1, <3>3, StayMoves, SettledLabels DEF AfterRefusal
      <3>4. CASE op[t] = "commit"
        <4>1. /\ pc' = [pc EXCEPT ![t] = "own"]
              /\ was_running' = was_running
              /\ \E k \in {"released", "kept"} : op' = [op EXCEPT ![t] = k]
          BY <3>1, <3>4 DEF AfterRefusal, Goto
        <4> QED BY <1>h, <4>1, MoveFacts, SettledLabels
      <3>5. CASE op[t] \notin {"start", "disarm", "commit"}
        BY <3>1, <3>5, ReturnMoves, SettledLabels DEF AfterRefusal
      <3> QED BY <3>2, <3>3, <3>4, <3>5
    <2>4. CASE Failed(t)
      <3>1. /\ pc' = [pc EXCEPT ![t] = "take"]
            /\ was_running' = was_running
            /\ \E k \in {"plainreboot", op[t]} : op' = [op EXCEPT ![t] = k]
        BY <2>4 DEF Failed, Goto
      <3> QED BY <1>h, <1>o, <3>1, MoveFacts, SettledLabels
    <2> QED BY <2>1, <2>2, <2>3, <2>4 DEF Request
  <1> QED BY <1>1, <1>2 DEF Plain, Owing, Cleaning

(* What a client's task does outside the start of a session.               *)
PlainProceed(t) ==
    \/ Request(t) \/ Subscribe(t)
    \/ t \in Clients /\ \/ Register(t) \/ Unregister(t) \/ Disarm(t) \/ ForceDisconnect(t)
                        \/ CheckGeneration(t) \/ WriteConfiguration(t)
                        \/ Prepare(t) \/ CurrentUdp(t) \/ RecordOwner(t)

LEMMA ProceedPlain ==
  ASSUME ControlOK, NEW t \in Tasks, PlainProceed(t)
  PROVE  Plain(t)
  <1>h. "none" \in Handlers /\ "disarm" \in Handlers
    BY DEF Handlers
  <1> USE DEF Plain, Owing, Cleaning, link, session, recorder
  <1>1. CASE Request(t)
    BY <1>1, RequestPlain
  <1>2. CASE Subscribe(t)
    <2>1. Moves(t, Settled)
      BY <1>h, <1>2, MoveFacts, SettledLabels DEF Subscribe, Goto
    <2> QED BY <1>2, <2>1 DEF Subscribe
  <1>3. CASE Register(t)
    BY <1>3, StayMoves, SettledLabels DEF Register
  <1>4. CASE Unregister(t)
    BY <1>4, StayMoves, SettledLabels DEF Unregister
  <1>5. CASE Disarm(t)
    <2>1. Moves(t, Settled)
      BY <1>h, <1>5, MoveFacts, ReturnMoves, SettledLabels DEF Disarm, Goto
    <2> QED BY <1>5, <2>1 DEF Disarm
  <1>6. CASE ForceDisconnect(t)
    <2>1. CASE upstream = 0
      <3>1. Return(t, "off")
        BY <1>6, <2>1, Zenon DEF ForceDisconnect
      <3>2. Moves(t, Settled)
        BY <3>1, ReturnMoves, SettledLabels
      <3> QED BY <1>6, <3>2 DEF ForceDisconnect
    <2>2. CASE upstream # 0
      <3>1. pc' = [pc EXCEPT ![t] = "take"] /\ UNCHANGED <<op, was_running>>
        BY <1>6, <2>2 DEF ForceDisconnect, Goto
      <3>2. Moves(t, Settled)
        BY <1>h, <3>1, MoveFacts, SettledLabels
      <3> QED BY <1>6, <3>2 DEF ForceDisconnect
    <2> QED BY <2>1, <2>2
  <1>7. CASE CheckGeneration(t)
    BY <1>7, StayMoves, ReturnMoves, SettledLabels DEF CheckGeneration
  <1>8. CASE WriteConfiguration(t)
    BY <1>8, ReturnMoves, SettledLabels DEF WriteConfiguration
  <1>9. CASE Prepare(t)
    BY <1>9, StayMoves, ReturnMoves, SettledLabels DEF Prepare
  <1>10. CASE CurrentUdp(t)
    <2>1. Moves(t, Settled)
      BY <1>h, <1>10, MoveFacts, ErrorMoves, SettledLabels DEF CurrentUdp, Goto
    <2> QED BY <1>10, <2>1 DEF CurrentUdp
  <1>11. CASE RecordOwner(t)
    BY <1>11, ReturnMoves, SettledLabels DEF RecordOwner
  <1> QED BY <1>1, <1>2, <1>3, <1>4, <1>5, <1>6, <1>7, <1>8, <1>9, <1>10, <1>11, Zenon
        DEF PlainProceed

(* A step that moves no task and touches neither connection nor session.   *)
Still ==
    UNCHANGED <<pc, op, was_running, running, recording, upstream, next_generation, reconnect,
                loop>>

LEMMA ClientPlain ==
  ASSUME BrokerAssumption, ControlOK, NEW c \in Clients, ClientRequest(c)
  PROVE  Plain(c) \/ Still
  <1>c. c \in Tasks
    BY DEF Tasks
  <1>h. \A k \in RequestKinds \cup {"plainreboot"} : k \in Handlers
    BY DEF Handlers
  <1>r. Requests \subseteq RequestKinds
    BY DEF BrokerAssumption
  <1> USE DEF Plain, Still, Owing, Cleaning, link, session, recorder, locals
  <1>1. CASE Accept(c)
    BY <1>1, <1>c, StayMoves, SettledLabels DEF Accept
  <1>2. CASE Hangup(c)
    BY <1>2, <1>c, ReturnMoves, SettledLabels DEF Hangup
  <1>3. CASE SetParameter(c)
    <2>1. \E k \in RequestKinds \cup {"plainreboot"} :
             pc' = [pc EXCEPT ![c] = "request"] /\ op' = [op EXCEPT ![c] = k]
      BY <1>3, <1>r DEF SetParameter, Begin, Goto, RequestKinds
    <2>2. was_running' = was_running /\ pc[c] = "idle"
      BY <1>3 DEF SetParameter, Begin
    <2>3. Moves(c, Settled)
      BY <1>c, <1>h, <2>1, <2>2, MoveFacts, SettledLabels
    <2> QED BY <1>3, <2>2, <2>3 DEF SetParameter
  <1>4. ASSUME NEW config \in Configurations, StreamSetup(c, config)
        PROVE  Plain(c)
    <2>1. Moves(c, Settled)
      BY <1>c, <1>h, <1>r, <1>4, MoveFacts, SettledLabels DEF StreamSetup, Begin, Goto
    <2> QED BY <1>4, <2>1 DEF StreamSetup, Begin
  <1>5. CASE Attach(c)
    BY <1>5 DEF Attach
  <1>6. CASE StreamStart(c)
    <2>1. Moves(c, Settled)
      BY <1>c, <1>h, <1>r, <1>6, MoveFacts, SettledLabels DEF StreamStart, Begin, Goto
    <2> QED BY <1>6, <2>1 DEF StreamStart, Begin
  <1>7. CASE StreamStop(c)
    <2>1. Moves(c, Settled)
      BY <1>c, <1>h, <1>r, <1>7, MoveFacts, SettledLabels DEF StreamStop, Begin, Goto
    <2> QED BY <1>7, <2>1 DEF StreamStop, Begin
  <1>8. CASE ExpireOwner(c)
    BY <1>8 DEF ExpireOwner
  <1>9. ASSUME NEW kind \in {"block", "commit"}, TableRequest(c, kind)
        PROVE  Plain(c)
    <2>1. Moves(c, Settled)
      BY <1>c, <1>h, <1>r, <1>9, MoveFacts, SettledLabels DEF TableRequest, Begin, Goto
    <2> QED BY <1>9, <2>1 DEF TableRequest, Begin
  <1> QED BY <1>1, <1>2, <1>3, <1>4, <1>5, <1>6, <1>7, <1>8, <1>9 DEF ClientRequest

(* Receivers, the heartbeat and tasks that see the epoch move on.          *)
LEMMA OtherPlain ==
  ASSUME ControlOK, NEW t \in Tasks,
         \/ EpochClosed(t)
         \/ t \in Generations /\ Receiver(t)
         \/ t = Heartbeat /\ (HeartbeatAnswered \/ HeartbeatFails)
  PROVE  Plain(t) \/ Still
  <1>h. "none" \in Handlers
    BY DEF Handlers
  <1> USE DEF Plain, Still, Owing, Cleaning, link, session, recorder, locals
  <1>1. CASE EpochClosed(t)
    BY <1>1, ReturnMoves, SettledLabels DEF EpochClosed
  <1>2. CASE Receive(t)
    BY <1>2, ReturnMoves, StayMoves, SettledLabels DEF Receive
  <1>3. CASE CompleteSession(t)
    <2>1. Moves(t, Settled)
      BY <1>h, <1>3, MoveFacts, SettledLabels DEF CompleteSession, Goto
    <2> QED BY <1>3, <2>1 DEF CompleteSession
  <1>4. CASE ReceiveError(t)
    <2>1. Moves(t, Settled)
      BY <1>h, <1>4, MoveFacts, SettledLabels DEF ReceiveError, Goto
    <2> QED BY <1>4, <2>1 DEF ReceiveError
  <1>5. CASE HeartbeatAnswered
    BY <1>5 DEF HeartbeatAnswered, vars
  <1>6. CASE t = Heartbeat /\ HeartbeatFails
    <2>1. Moves(t, Settled)
      BY <1>h, <1>6, MoveFacts, SettledLabels DEF HeartbeatFails, Goto
    <2> QED BY <1>6, <2>1 DEF HeartbeatFails
  <1> QED BY <1>1, <1>2, <1>3, <1>4, <1>5, <1>6 DEF Receiver

-----------------------------------------------------------------------------
(* Preservation.                                                           *)

(* A task that owes nothing before and after a step changes nothing of     *)
(* what the others owe.                                                    *)
LEMMA PlainStep ==
  ASSUME BrokerAssumption, IInv, NEW t \in Tasks, Plain(t)
  PROVE  IInv'
  <1>1. PICK l \in Settled : pc' = [pc EXCEPT ![t] = l]
    BY DEF Plain, Moves
  <1>2. /\ pc' \in [Tasks -> Labels]
        /\ \A u \in Tasks \ {t} : pc'[u] = pc[u]
        /\ pc'[t] = l
    BY <1>1 DEF IInv, ControlOK, Settled
  <1>3. /\ op' \in [Tasks -> Handlers]
        /\ \A u \in Tasks \ {t} : op'[u] = op[u]
    BY DEF Plain, Moves
  <1>4. ~was_running[t]
    BY DEF IInv, ClosersKnown, Plain, Owing, Cleaning
  <1>5. was_running' \in [Tasks -> BOOLEAN]
    BY DEF IInv, ControlOK, Plain, Moves
  <1>6. \A u \in Tasks : was_running'[u] <=> was_running[u]
    BY <1>4 DEF IInv, ControlOK, Plain, Moves
  <1>7. ControlOK'
    BY <1>2, <1>3, <1>5 DEF IInv, ControlOK, Plain
  <1>8. ReceiversFresh'
    <2>1. ASSUME NEW g \in Generations, Unspawned(g)
          PROVE  g # t
      BY <2>1 DEF IInv, ReceiversFresh, Plain, Generations, BrokerAssumption
    <2> QED BY <1>2, <2>1 DEF IInv, ReceiversFresh, Unspawned, Plain, Tasks
  <1>9. NoLostWakeup'
    BY <1>2, <1>3 DEF IInv, NoLostWakeup, Plain, Owing, Cleaning
  <1>10. ClosersKnown'
    BY <1>2, <1>4, <1>6 DEF IInv, ClosersKnown, Settled, Owing, Cleaning
  <1>11. RecordingFollowsSession'
    <2>1. Pending' = Pending
      BY <1>2, <1>6 DEF Pending, Plain, Settled, Owing, Cleaning
    <2> QED BY <2>1 DEF IInv, RecordingFollowsSession, Plain
  <1> QED BY <1>7, <1>8, <1>9, <1>10, <1>11 DEF IInv

LEMMA StillStep ==
  ASSUME IInv, Still
  PROVE  IInv'
  <1>1. ControlOK' /\ ReceiversFresh'
    BY DEF IInv, Still, ControlOK, ReceiversFresh, Unspawned
  <1>2. NoLostWakeup' /\ ClosersKnown'
    BY DEF IInv, Still, NoLostWakeup, ClosersKnown
  <1>3. Pending' = Pending
    BY DEF Still, Pending
  <1>4. RecordingFollowsSession'
    BY <1>3 DEF IInv, Still, RecordingFollowsSession
  <1> QED BY <1>1, <1>2, <1>4 DEF IInv

(* The reconnection loop waits only while there is a connection, and       *)
(* spawns a receiver that has never run.                                   *)
LEMMA LoopStep ==
  ASSUME BrokerAssumption, IInv, Loop
  PROVE  IInv'
  <1>1. CASE LoopInstall
    <2> DEFINE g == next_generation - 1
    <2>1. g \in Generations /\ g \in Tasks /\ pc[g] = "off" /\ next_generation \in Nat
      BY <1>1 DEF LoopInstall, IInv, ReceiversFresh, Unspawned, Generations, Tasks,
                  BrokerAssumption
    <2>2. /\ pc' = [pc EXCEPT ![g] = "registered"]
          /\ upstream' = g /\ loop' = "check"
          /\ UNCHANGED <<op, was_running, running, recording, next_generation, reconnect>>
      BY <1>1 DEF LoopInstall, Stay, Goto, session, recorder
    <2>3. /\ pc' \in [Tasks -> Labels]
          /\ \A u \in Tasks \ {g} : pc'[u] = pc[u]
          /\ pc'[g] = "registered"
      BY <2>1, <2>2 DEF IInv, ControlOK, Labels
    <2> HIDE DEF g
    <2>4. ControlOK'
      BY <2>2, <2>3 DEF IInv, ControlOK
    <2>5. ReceiversFresh'
      BY <2>1, <2>2, <2>3 DEF IInv, ReceiversFresh, Unspawned, Tasks, g, Generations,
                              BrokerAssumption
    <2>6. NoLostWakeup'
      BY <2>2 DEF NoLostWakeup
    <2>7. ClosersKnown'
      BY <2>1, <2>2, <2>3 DEF IInv, ClosersKnown
    <2>8. RecordingFollowsSession'
      <3>1. Pending' = Pending
        BY <2>1, <2>2, <2>3 DEF Pending
      <3> QED BY <2>2, <3>1 DEF IInv, RecordingFollowsSession
    <2> QED BY <2>4, <2>5, <2>6, <2>7, <2>8 DEF IInv
  <1>2. CASE LoopCheck \/ LoopWait \/ LoopNotified \/ LoopConnect \/ LoopMetadata
    <2>1. UNCHANGED <<pc, op, was_running, running, recording, upstream>>
      BY <1>2 DEF LoopCheck, LoopWait, LoopNotified, LoopConnect, LoopMetadata, locals, session,
                  recorder
    <2>2. ControlOK'
      BY <1>2, <2>1 DEF IInv, ControlOK, LoopCheck, LoopWait, LoopNotified, LoopConnect,
                        LoopMetadata
    <2>3. ReceiversFresh'
      BY <1>2, <2>1 DEF IInv, ReceiversFresh, Unspawned, LoopCheck, LoopWait, LoopNotified,
                        LoopConnect, LoopMetadata, Generations, BrokerAssumption
    <2>4. NoLostWakeup'
      BY <1>2, <2>1 DEF IInv, NoLostWakeup, LoopCheck, LoopWait, LoopNotified, LoopConnect,
                        LoopMetadata
    <2>5. ClosersKnown'
      BY <2>1 DEF IInv, ClosersKnown
    <2>6. RecordingFollowsSession'
      <3>1. Pending' = Pending
        BY <2>1 DEF Pending
      <3> QED BY <2>1, <3>1 DEF IInv, RecordingFollowsSession
    <2> QED BY <2>2, <2>3, <2>4, <2>5, <2>6 DEF IInv
  <1> QED BY <1>1, <1>2 DEF Loop

(* A task that is not "off" leaves the unspawned receivers alone.          *)
LEMMA FreshKept ==
  ASSUME IInv, NEW t \in Tasks, pc[t] # "off", \A u \in Tasks \ {t} : pc'[u] = pc[u],
         UNCHANGED <<next_generation, loop>>
  PROVE  ReceiversFresh'
  BY DEF IInv, ReceiversFresh, Unspawned, Tasks

(* What a step of one task does to the three maps.                         *)
LEMMA MovedFacts ==
  ASSUME IInv, NEW t \in Tasks, NEW S \in SUBSET Labels, Moves(t, S)
  PROVE  /\ pc' \in [Tasks -> Labels] /\ pc'[t] \in S
         /\ op' \in [Tasks -> Handlers]
         /\ was_running' \in [Tasks -> BOOLEAN]
         /\ was_running'[t] => was_running[t]
         /\ \A u \in Tasks \ {t} : /\ pc'[u] = pc[u]
                                   /\ op'[u] = op[u]
                                   /\ was_running'[u] <=> was_running[u]
  BY DEF IInv, ControlOK, Moves

(* The connection is taken: the task that took it will notify.             *)
LEMMA TakeStep ==
  ASSUME BrokerAssumption, IInv, NEW t \in Tasks, Take(t)
  PROVE  IInv'
  <1>1. CASE Takes(t)
    <2>1. Stay(t, "reset") /\ upstream' = 0 /\ pc[t] = "take"
          /\ UNCHANGED <<running, recording, next_generation, reconnect, loop>>
      BY <1>1 DEF Take, session, recorder
    <2>2. Moves(t, {"reset"})
      BY <2>1, StayMoves DEF IInv
    <2>3. {"reset"} \in SUBSET Labels
      BY DEF Labels
    <2>4. /\ pc' \in [Tasks -> Labels] /\ pc'[t] = "reset"
          /\ op' \in [Tasks -> Handlers]
          /\ was_running' \in [Tasks -> BOOLEAN]
          /\ was_running'[t] => was_running[t]
          /\ \A u \in Tasks \ {t} : /\ pc'[u] = pc[u]
                                    /\ was_running'[u] <=> was_running[u]
      BY <2>2, <2>3, MovedFacts
    <2>5. ControlOK'
      BY <2>1, <2>4 DEF IInv, ControlOK
    <2>6. ReceiversFresh'
      BY <2>1, <2>4, FreshKept
    <2>7. NoLostWakeup'
      BY <2>4 DEF NoLostWakeup
    <2>8. ClosersKnown'
      BY <2>1, <2>4 DEF IInv, ClosersKnown
    <2>9. RecordingFollowsSession'
      <3>1. Pending' = Pending
        BY <2>1, <2>4 DEF Pending, IInv, ClosersKnown
      <3> QED BY <2>1, <3>1 DEF IInv, RecordingFollowsSession
    <2> QED BY <2>5, <2>6, <2>7, <2>8, <2>9 DEF IInv
  <1>2. CASE ~Takes(t)
    <2>1. AfterError(t) /\ pc[t] = "take"
          /\ UNCHANGED <<running, recording, upstream, next_generation, reconnect, loop>>
      BY <1>2 DEF Take, session, recorder
    <2>2. Moves(t, Settled)
      BY <2>1, ErrorMoves DEF IInv
    <2>3. Plain(t)
      BY <2>1, <2>2 DEF Plain, Owing, Cleaning
    <2> QED BY <2>3, PlainStep
  <1> QED BY <1>1, <1>2

(* The reset turns a running session into a recording this task closes.    *)
LEMMA ResetStep ==
  ASSUME BrokerAssumption, IInv, NEW t \in Tasks, Reset(t)
  PROVE  IInv'
  <1> DEFINE l == IF running /\ op[t] # "reboot" THEN "stop" ELSE "metadata"
  <1>1. /\ pc[t] = "reset" /\ pc' = [pc EXCEPT ![t] = l]
        /\ was_running' = [was_running EXCEPT ![t] = running]
        /\ running' = FALSE
        /\ UNCHANGED <<op, recording, upstream, next_generation, reconnect, loop>>
    BY DEF Reset, Goto, link, recorder
  <1>2. /\ pc' \in [Tasks -> Labels] /\ pc'[t] = l
        /\ \A u \in Tasks \ {t} : pc'[u] = pc[u]
    BY <1>1 DEF IInv, ControlOK, Labels
  <1>3. /\ was_running' \in [Tasks -> BOOLEAN] /\ (was_running'[t] <=> running)
        /\ \A u \in Tasks \ {t} : was_running'[u] <=> was_running[u]
    BY <1>1 DEF IInv, ControlOK
  <1>4. ControlOK'
    BY <1>1, <1>2, <1>3 DEF IInv, ControlOK
  <1>5. ReceiversFresh'
    BY <1>1, <1>2, FreshKept
  <1>6. NoLostWakeup'
    <2>1. pc'[t] = "metadata" \/ (pc'[t] = "stop" /\ op'[t] # "reboot")
      BY <1>1, <1>2
    <2> QED BY <2>1 DEF NoLostWakeup
  <1>7. ClosersKnown'
    BY <1>2, <1>3 DEF IInv, ClosersKnown
  <1>8. RecordingFollowsSession'
    <2>1. CASE running
      <3>1. Pending = {} /\ recording
        BY <2>1 DEF IInv, RecordingFollowsSession
      <3>2. Pending' = {t}
        BY <1>2, <1>3, <2>1, <3>1 DEF Pending
      <3> QED BY <1>1, <3>1, <3>2 DEF RecordingFollowsSession
    <2>2. CASE ~running
      <3>1. ~was_running[t]
        BY <1>1 DEF IInv, ClosersKnown
      <3>2. Pending' = Pending
        BY <1>1, <1>2, <1>3, <2>2, <3>1 DEF Pending
      <3> QED BY <1>1, <2>2, <3>2 DEF IInv, RecordingFollowsSession
    <2> QED BY <2>1, <2>2
  <1> QED BY <1>4, <1>5, <1>6, <1>7, <1>8 DEF IInv

(* Stop is sent by the one task that owes it.                              *)
LEMMA StopStep ==
  ASSUME BrokerAssumption, IInv, NEW t \in Tasks, StopRecording(t)
  PROVE  IInv'
  <1>1. /\ pc[t] = "stop" /\ recording' = FALSE
        /\ UNCHANGED <<running, upstream, next_generation, reconnect, loop>>
    BY DEF StopRecording, link, session
  <1>2. was_running[t]
    BY <1>1 DEF IInv, ClosersKnown
  <1>3. Pending = {t} /\ ~running
    BY <1>2 DEF IInv, RecordingFollowsSession, Pending
  <1>4. /\ pc' \in [Tasks -> Labels] /\ pc'[t] \in Settled \cup {"metadata"}
        /\ op' \in [Tasks -> Handlers]
        /\ was_running' \in [Tasks -> BOOLEAN] /\ ~was_running'[t]
        /\ op[t] # "reboot" => pc'[t] = "metadata"
        /\ \A u \in Tasks \ {t} : /\ pc'[u] = pc[u]
                                  /\ op'[u] = op[u]
                                  /\ was_running'[u] <=> was_running[u]
    <2>1. CASE op[t] = "reboot"
      <3>1. AfterError(t) /\ \E l \in {"off", "idle", "leave"} : Return(t, l)
        BY <2>1 DEF StopRecording, AfterError
      <3>2. Moves(t, Settled) /\ Settled \in SUBSET Labels
        BY <3>1, ErrorMoves DEF IInv, Settled
      <3>3. was_running' = [was_running EXCEPT ![t] = FALSE]
        BY <3>1 DEF Return
      <3>4. ~was_running'[t]
        BY <3>3 DEF IInv, ControlOK
      <3> QED BY <2>1, <3>2, <3>4, MovedFacts
    <2>2. CASE op[t] # "reboot"
      <3>1. /\ pc' = [pc EXCEPT ![t] = "metadata"] /\ op' = op
            /\ was_running' = [was_running EXCEPT ![t] = FALSE]
        BY <2>2 DEF StopRecording, Goto
      <3> QED BY <3>1 DEF IInv, ControlOK, Labels
    <2> QED BY <2>1, <2>2
  <1>5. ControlOK'
    BY <1>1, <1>4 DEF IInv, ControlOK
  <1>6. ReceiversFresh'
    BY <1>1, <1>4, FreshKept
  <1>7. NoLostWakeup'
    BY <1>1, <1>4 DEF IInv, NoLostWakeup
  <1>8. ClosersKnown'
    BY <1>4 DEF IInv, ClosersKnown, Settled, Owing, Cleaning
  <1>9. RecordingFollowsSession'
    <2>1. Pending' = {}
      BY <1>3, <1>4 DEF Pending, Settled, Owing, Cleaning
    <2> QED BY <1>1, <1>3, <2>1 DEF RecordingFollowsSession
  <1> QED BY <1>5, <1>6, <1>7, <1>8, <1>9 DEF IInv

LEMMA MetadataStep ==
  ASSUME BrokerAssumption, IInv, NEW t \in Tasks, ClearMetadata(t)
  PROVE  IInv'
  <1>1. /\ pc[t] = "metadata" /\ pc' = [pc EXCEPT ![t] = "epoch"]
        /\ UNCHANGED <<op, was_running, running, recording, upstream, next_generation,
                       reconnect, loop>>
    BY DEF ClearMetadata, Stay, Goto, session, recorder
  <1>2. /\ pc' \in [Tasks -> Labels] /\ pc'[t] = "epoch"
        /\ \A u \in Tasks \ {t} : pc'[u] = pc[u]
    BY <1>1 DEF IInv, ControlOK, Labels
  <1>3. ControlOK' /\ ReceiversFresh'
    BY <1>1, <1>2, FreshKept DEF IInv, ControlOK
  <1>4. NoLostWakeup' /\ ClosersKnown'
    BY <1>1, <1>2 DEF IInv, NoLostWakeup, ClosersKnown
  <1>5. Pending' = Pending
    BY <1>1, <1>2 DEF Pending
  <1>6. RecordingFollowsSession'
    BY <1>1, <1>5 DEF IInv, RecordingFollowsSession
  <1> QED BY <1>3, <1>4, <1>6 DEF IInv

LEMMA ReadEpochStep ==
  ASSUME BrokerAssumption, IInv, NEW t \in Tasks, ReadEpoch(t)
  PROVE  IInv'
  <1>1. /\ pc[t] = "epoch" /\ pc' = [pc EXCEPT ![t] = "replace"]
        /\ UNCHANGED <<op, was_running, running, recording, upstream, next_generation,
                       reconnect, loop>>
    BY DEF ReadEpoch, Stay, Goto, session, recorder
  <1>2. /\ pc' \in [Tasks -> Labels] /\ pc'[t] = "replace"
        /\ \A u \in Tasks \ {t} : pc'[u] = pc[u]
    BY <1>1 DEF IInv, ControlOK, Labels
  <1>3. ControlOK' /\ ReceiversFresh'
    BY <1>1, <1>2, FreshKept DEF IInv, ControlOK
  <1>4. NoLostWakeup' /\ ClosersKnown'
    BY <1>1, <1>2 DEF IInv, NoLostWakeup, ClosersKnown
  <1>5. Pending' = Pending
    BY <1>1, <1>2 DEF Pending
  <1>6. RecordingFollowsSession'
    BY <1>1, <1>5 DEF IInv, RecordingFollowsSession
  <1> QED BY <1>3, <1>4, <1>6 DEF IInv

(* The notification is stored; a reboot still has to send its Stop.        *)
LEMMA EpochStep ==
  ASSUME BrokerAssumption, IInv, NEW t \in Tasks, MoveEpoch(t)
  PROVE  IInv'
  <1>1. /\ pc[t] = "replace" /\ reconnect' = TRUE
        /\ UNCHANGED <<running, recording, upstream, next_generation, loop>>
    BY DEF MoveEpoch, Notify, session, recorder, IInv, ControlOK
  <1>2. /\ pc' \in [Tasks -> Labels]
        /\ pc'[t] \in Settled \cup {"stop"}
        /\ op' \in [Tasks -> Handlers]
        /\ was_running' \in [Tasks -> BOOLEAN]
        /\ was_running'[t] <=> was_running[t]
        /\ was_running[t] <=> pc'[t] = "stop"
        /\ \A u \in Tasks \ {t} : /\ pc'[u] = pc[u]
                                  /\ was_running'[u] <=> was_running[u]
    <2>1. CASE was_running[t]
      <3>1. pc' = [pc EXCEPT ![t] = "stop"] /\ UNCHANGED <<op, was_running>>
        BY <2>1 DEF MoveEpoch, Stay, Goto
      <3> QED BY <2>1, <3>1 DEF IInv, ControlOK, Labels
    <2>2. CASE ~was_running[t]
      <3>1. AfterError(t)
        BY <2>2 DEF MoveEpoch
      <3>2. Moves(t, Settled) /\ Settled \in SUBSET Labels
        BY <3>1, ErrorMoves DEF IInv, Settled
      <3>3. "stop" \notin Settled
        BY DEF Settled, Owing, Cleaning
      <3> QED BY <2>2, <3>2, <3>3, MovedFacts
    <2> QED BY <2>1, <2>2
  <1>3. ControlOK' /\ ReceiversFresh'
    BY <1>1, <1>2, FreshKept DEF IInv, ControlOK
  <1>4. NoLostWakeup'
    BY <1>1 DEF NoLostWakeup
  <1>5. ClosersKnown'
    BY <1>2 DEF IInv, ClosersKnown
  <1>6. Pending' = Pending
    BY <1>1, <1>2 DEF Pending, Settled, Owing, Cleaning
  <1>7. RecordingFollowsSession'
    BY <1>1, <1>6 DEF IInv, RecordingFollowsSession
  <1> QED BY <1>3, <1>4, <1>5, <1>7 DEF IInv

(* The end of a session hands its recording to the task that ends it.      *)
LEMMA CloseSessionStep ==
  ASSUME BrokerAssumption, IInv, NEW t \in Tasks, CloseSession(t)
  PROVE  IInv'
  <1>1. /\ pc[t] = "close" /\ running' = FALSE
        /\ UNCHANGED <<recording, upstream, next_generation, reconnect, loop>>
    BY DEF CloseSession, link, recorder
  <1>2. ~was_running[t]
    BY <1>1 DEF IInv, ClosersKnown
  <1>3. /\ pc' \in [Tasks -> Labels] /\ pc'[t] \in Settled \cup {"closing"}
        /\ running <=> pc'[t] = "closing"
        /\ op' \in [Tasks -> Handlers]
        /\ was_running' \in [Tasks -> BOOLEAN] /\ ~was_running'[t]
        /\ \A u \in Tasks \ {t} : /\ pc'[u] = pc[u]
                                  /\ op'[u] = op[u]
                                  /\ was_running'[u] <=> was_running[u]
    <2>1. CASE running
      <3>1. Stay(t, "closing")
        BY <2>1 DEF CloseSession, MustStop
      <3>2. Moves(t, {"closing"}) /\ {"closing"} \in SUBSET Labels
        BY <3>1, StayMoves DEF IInv, Labels
      <3> QED BY <1>2, <2>1, <3>2, MovedFacts
    <2>2. CASE ~running
      <3>1. \E l \in {"leave", "idle"} : Return(t, l)
        BY <2>2 DEF CloseSession, MustStop, AfterClose
      <3>2. Moves(t, Settled) /\ Settled \in SUBSET Labels
        BY <3>1, ReturnMoves, SettledLabels DEF IInv, Settled
      <3>3. "closing" \notin Settled
        BY DEF Settled, Owing
      <3> QED BY <1>2, <2>2, <3>2, <3>3, MovedFacts
    <2> QED BY <2>1, <2>2
  <1>4. ControlOK' /\ ReceiversFresh'
    BY <1>1, <1>3, FreshKept DEF IInv, ControlOK
  <1>5. NoLostWakeup'
    BY <1>1, <1>3 DEF IInv, NoLostWakeup
  <1>6. ClosersKnown'
    BY <1>3 DEF IInv, ClosersKnown, Settled, Owing, Cleaning
  <1>7. RecordingFollowsSession'
    <2>1. CASE running
      <3>1. Pending = {} /\ recording
        BY <2>1 DEF IInv, RecordingFollowsSession
      <3>2. Pending' = {t}
        BY <1>3, <2>1, <3>1 DEF Pending
      <3> QED BY <1>1, <3>1, <3>2 DEF RecordingFollowsSession
    <2>2. CASE ~running
      <3>1. Pending' = Pending
        BY <1>1, <1>2, <1>3, <2>2 DEF Pending, Settled, Owing
      <3> QED BY <1>1, <2>2, <3>1 DEF IInv, RecordingFollowsSession
    <2> QED BY <2>1, <2>2
  <1> QED BY <1>4, <1>5, <1>6, <1>7 DEF IInv

LEMMA CloseRecordingStep ==
  ASSUME BrokerAssumption, IInv, NEW t \in Tasks, CloseRecording(t)
  PROVE  IInv'
  <1>1. /\ pc[t] = "closing" /\ recording' = FALSE
        /\ UNCHANGED <<running, upstream, next_generation, reconnect, loop>>
    BY DEF CloseRecording, link, session
  <1>2. ~was_running[t] /\ Pending = {t} /\ ~running
    BY <1>1 DEF IInv, ClosersKnown, RecordingFollowsSession, Pending
  <1>3. \E l \in {"leave", "idle"} : Return(t, l)
    BY DEF CloseRecording, AfterClose
  <1>4. Moves(t, Settled) /\ Settled \in SUBSET Labels
    BY <1>3, ReturnMoves, SettledLabels DEF IInv, Settled
  <1>5. /\ pc' \in [Tasks -> Labels] /\ pc'[t] \in Settled
        /\ op' \in [Tasks -> Handlers]
        /\ was_running' \in [Tasks -> BOOLEAN] /\ ~was_running'[t]
        /\ \A u \in Tasks \ {t} : /\ pc'[u] = pc[u]
                                  /\ op'[u] = op[u]
                                  /\ was_running'[u] <=> was_running[u]
    BY <1>2, <1>4, MovedFacts
  <1>6. ControlOK' /\ ReceiversFresh'
    BY <1>1, <1>5, FreshKept DEF IInv, ControlOK
  <1>7. NoLostWakeup'
    BY <1>1, <1>5 DEF IInv, NoLostWakeup
  <1>8. ClosersKnown'
    BY <1>5 DEF IInv, ClosersKnown, Settled, Owing, Cleaning
  <1>9. Pending' = {}
    BY <1>2, <1>5 DEF Pending, Settled, Owing
  <1>10. RecordingFollowsSession'
    BY <1>1, <1>2, <1>9 DEF RecordingFollowsSession
  <1> QED BY <1>6, <1>7, <1>8, <1>10 DEF IInv

(* A start opens the recording before it marks the session running.        *)
LEMMA StartStep ==
  ASSUME BrokerAssumption, IInv, NEW t \in Tasks, t \in Clients,
         StartRecording(t) \/ Run(t)
  PROVE  IInv'
  <1>1. CASE StartRecording(t) /\ recording
    <2>1. /\ pc[t] = "record" /\ Return(t, "leave")
          /\ UNCHANGED <<running, recording, upstream, next_generation, reconnect, loop>>
      BY <1>1 DEF StartRecording, link, session
    <2>2. Plain(t)
      BY <2>1, ReturnMoves, SettledLabels DEF IInv, Plain, Owing, Cleaning
    <2> QED BY <2>2, PlainStep
  <1>2. CASE (StartRecording(t) /\ ~recording) \/ Run(t)
    <2>1. /\ UNCHANGED <<upstream, next_generation, reconnect, loop>>
          /\ \/ /\ pc[t] = "record" /\ Stay(t, "run")
                /\ ~recording /\ recording' = TRUE /\ running' = running
             \/ /\ pc[t] = "run" /\ Stay(t, "socket")
                /\ recording' = recording /\ running' = TRUE
      BY <1>2 DEF StartRecording, Run, link, session, recorder
    <2>2. Moves(t, {"run", "socket"}) /\ {"run", "socket"} \in SUBSET Labels
      BY <2>1, StayMoves DEF IInv, Labels
    <2>3. /\ pc' \in [Tasks -> Labels] /\ pc'[t] \in {"run", "socket"}
          /\ op' \in [Tasks -> Handlers]
          /\ was_running' \in [Tasks -> BOOLEAN]
          /\ was_running'[t] => was_running[t]
          /\ \A u \in Tasks \ {t} : /\ pc'[u] = pc[u]
                                    /\ op'[u] = op[u]
                                    /\ was_running'[u] <=> was_running[u]
      BY <2>2, MovedFacts
    <2>4. ~was_running[t] /\ ~was_running'[t]
      BY <2>1, <2>3 DEF IInv, ClosersKnown
    <2>5. ControlOK' /\ ReceiversFresh'
      BY <2>1, <2>3, FreshKept DEF IInv, ControlOK
    <2>6. NoLostWakeup'
      BY <2>1, <2>3 DEF IInv, NoLostWakeup
    <2>7. ClosersKnown'
      BY <2>3, <2>4 DEF IInv, ClosersKnown
    <2>8. RecordingFollowsSession'
      <3>1. CASE pc[t] = "record" /\ Stay(t, "run") /\ ~recording /\ recording' = TRUE
                 /\ running' = running
        <4>1. pc'[t] = "run"
          BY <3>1 DEF Stay, Goto, IInv, ControlOK
        <4>2. Pending = {} /\ ~running
          BY <3>1 DEF IInv, RecordingFollowsSession
        <4>3. Pending' = {t}
          BY <2>3, <4>1, <4>2 DEF Pending
        <4> QED BY <3>1, <4>2, <4>3 DEF RecordingFollowsSession
      <3>2. CASE pc[t] = "run" /\ Stay(t, "socket") /\ recording' = recording
                 /\ running' = TRUE
        <4>1. pc'[t] = "socket"
          BY <3>2 DEF Stay, Goto, IInv, ControlOK
        <4>2. Pending = {t} /\ recording
          BY <3>2 DEF IInv, RecordingFollowsSession, Pending
        <4>3. Pending' = {}
          BY <2>3, <2>4, <4>1, <4>2 DEF Pending
        <4> QED BY <3>2, <4>2, <4>3 DEF RecordingFollowsSession
      <3> QED BY <2>1, <3>1, <3>2
    <2> QED BY <2>5, <2>6, <2>7, <2>8 DEF IInv
  <1> QED BY <1>1, <1>2

(* Every step preserves the invariant.                                     *)
LEMMA NextStep ==
  ASSUME BrokerAssumption, IInv, [Next]_vars
  PROVE  IInv'
  <1>c. ControlOK
    BY DEF IInv
  <1>1. ASSUME NEW t \in Tasks, Proceed(t)
        PROVE  IInv'
    <2>1. CASE Request(t) \/ Subscribe(t)
      BY <1>c, <2>1, ProceedPlain, PlainStep DEF PlainProceed
    <2>2. CASE Cleanup(t)
      BY <2>2, TakeStep, ResetStep, StopStep, MetadataStep, ReadEpochStep, EpochStep DEF Cleanup
    <2>3. CASE CloseSession(t)
      BY <2>3, CloseSessionStep
    <2>4. CASE CloseRecording(t)
      BY <2>4, CloseRecordingStep
    <2> QED BY <1>1, <2>1, <2>2, <2>3, <2>4, Zenon DEF Proceed
  <1>8. ASSUME NEW c \in Clients, ClientProceed(c)
        PROVE  IInv'
    <2>1. c \in Tasks
      BY DEF Tasks
    <2>2. CASE PlainProceed(c)
      BY <1>c, <2>1, <2>2, ProceedPlain, PlainStep
    <2>3. CASE StartRecording(c) \/ Run(c)
      BY <2>1, <2>3, StartStep
    <2> QED BY <1>8, <2>2, <2>3, Zenon DEF ClientProceed, PlainProceed
  <1>2. ASSUME NEW t \in Tasks, EpochClosed(t)
        PROVE  IInv'
    BY <1>c, <1>2, OtherPlain, PlainStep, StillStep
  <1>3. ASSUME NEW c \in Clients, ClientRequest(c)
        PROVE  IInv'
    <2>1. c \in Tasks
      BY DEF Tasks
    <2> QED BY <1>c, <1>3, <2>1, ClientPlain, PlainStep, StillStep
  <1>4. ASSUME NEW g \in Generations, Receiver(g)
        PROVE  IInv'
    <2>1. g \in Tasks
      BY DEF Tasks
    <2> QED BY <1>c, <1>4, <2>1, OtherPlain, PlainStep, StillStep
  <1>5. CASE HeartbeatAnswered \/ HeartbeatFails
    <2>1. Heartbeat \in Tasks
      BY DEF Tasks
    <2> QED BY <1>c, <1>5, <2>1, OtherPlain, PlainStep, StillStep
  <1>6. CASE Loop
    BY <1>6, LoopStep
  <1>7. CASE Device \/ StorageFails \/ Stopped \/ UNCHANGED vars
    <2>1. Still
      BY <1>7 DEF Device, DeviceSend, PacketLost, DeviceDrop, StorageFails, Stopped, vars, Still, link,
                  session, recorder, locals
    <2> QED BY <2>1, StillStep
  <1> QED BY <1>1, <1>2, <1>3, <1>4, <1>5, <1>6, <1>7, <1>8, Zenon DEF Next

LEMMA InitInv ==
  ASSUME BrokerAssumption, Init
  PROVE  IInv
  <1>1. ControlOK
    BY DEF Init, ControlOK, Labels, Handlers
  <1>2. ReceiversFresh
    BY DEF Init, ReceiversFresh, Generations, Tasks, Heartbeat, BrokerAssumption
  <1>3. NoLostWakeup
    BY DEF Init, NoLostWakeup
  <1>4. ClosersKnown
    BY DEF Init, ClosersKnown
  <1>5. Pending = {}
    BY DEF Init, Pending
  <1>6. RecordingFollowsSession
    BY <1>5 DEF Init, RecordingFollowsSession
  <1> QED BY <1>1, <1>2, <1>3, <1>4, <1>6 DEF IInv

LEMMA Invariant == Spec => []IInv
  <1>1. Init => IInv
    BY InitInv, BrokerAssumption
  <1>2. IInv /\ [Next]_vars => IInv'
    BY NextStep, BrokerAssumption
  <1> QED BY <1>1, <1>2, PTL DEF Spec

-----------------------------------------------------------------------------
(* The rest of the state: the lock, the connection's failures and what is  *)
(* counted.                                                                *)

(* Handlers that hold stream_operations, and where a start and a set-up    *)
(* have got to.                                                            *)
Holding == {"setup", "start", "stop", "failedstart"}
Starting == {"prepare", "record", "run", "socket"}
Writing == {"written", "write"}

(* Variables that the arguments above leave open.                          *)
DataOK ==
    /\ upstream \in 0..MaxGeneration
    /\ metadata \in BOOLEAN /\ fatal \in BOOLEAN
    /\ configuration \in Configurations \cup {NoConfiguration}
    /\ clients \in [Clients -> {"none", "detached", "attached"}]
    /\ table_owner \in Clients \cup {NoClient}
    /\ loop \in {"check", "ready", "wait", "connect", "describe", "install"}
    /\ failed \subseteq Generations

LocalsOK ==
    /\ stream_operations \in Tasks \cup {Unlocked}
    /\ generation \in [Tasks -> 0..MaxGeneration]
    /\ argument \in [Clients -> Configurations \cup {NoConfiguration}]
    /\ seen \in [Tasks -> 0..MaxGeneration]

(* One task and the lock: its handler has it, and a set-up that may still  *)
(* write its configuration has it while no session runs.  A task about to  *)
(* take a connection has seen it fail.                                     *)
Disciplined(t) ==
    /\ op[t] \in Holding => stream_operations = t
    /\ pc[t] \in Starting => op[t] = "start"
    /\ pc[t] \in Writing => op[t] = "setup"
    /\ op[t] = "setup" /\ pc[t] \in Writing \cup {"request"} => ~running
    /\ pc[t] = "take" => generation[t] \in failed

(* A connection is made only when there is none.                           *)
NoneToReplace == loop \in {"connect", "describe", "install"} => upstream = 0

(* Tasks that have taken a connection and have yet to move the epoch on.   *)
Moving == {t \in Tasks : \/ pc[t] \in {"reset", "metadata", "epoch", "replace"}
                         \/ pc[t] = "stop" /\ op[t] # "reboot"}

One(b) == IF b THEN 1 ELSE 0

(* Connections that may still move the epoch on: being made, there, or     *)
(* taken by a task that has yet to.                                        *)
Connecting ==
    Cardinality(Moving) + One(upstream # 0) + One(loop \in {"describe", "install"})

(* Every connection moves the epoch on once at most; what a task is about  *)
(* to put there may be less than one more than the epoch, which others     *)
(* have moved on since, and never counts more connections than there were. *)
EpochCounted ==
    /\ IsFiniteSet(Moving)
    /\ epoch \in Nat /\ epoch + Connecting < next_generation
    /\ next_epoch \in [Tasks -> Nat]
    /\ \A t \in Tasks : IF pc[t] = "replace" THEN next_epoch[t] + Connecting <= next_generation
                                             ELSE next_epoch[t] = 0
    /\ \A t \in Tasks : was_running[t] /\ pc[t] \in {"metadata", "epoch", "replace"}
                            => op[t] = "reboot"

(* A datagram is on its way only while the count leaves room for it.       *)
ReceivedCounted ==
    /\ received_records \in 0..MaxReceived
    /\ packet # NoPacket => received_records < MaxReceived

BrokerInv ==
    /\ IInv
    /\ DataOK
    /\ LocalsOK
    /\ \A t \in Tasks : Disciplined(t)
    /\ NoneToReplace
    /\ EpochCounted
    /\ ReceivedCounted

(* What a step of one task keeps of the discipline.                        *)
Keeps(t) ==
    /\ LocalsOK'
    /\ \A u \in Tasks \ {t} :
          /\ pc'[u] = pc[u] /\ op'[u] = op[u]
          /\ generation'[u] = generation[u] /\ seen'[u] = seen[u]
          /\ stream_operations = u => stream_operations' = u
    /\ op'[t] \in Holding => stream_operations' = t
    /\ pc'[t] \in Starting => op'[t] = "start"
    /\ pc'[t] \in Writing => op'[t] = "setup"
    /\ op'[t] = "setup" /\ pc'[t] \in Writing \cup {"request"} => ~running
    /\ pc'[t] = "take" => generation'[t] \in failed'

Discipline ==
    /\ ControlOK
    /\ DataOK
    /\ LocalsOK
    /\ epoch \in 0..MaxGeneration
    /\ \A t \in Tasks : Disciplined(t)

LEMMA UnlockedNoTask ==
  ASSUME BrokerAssumption
  PROVE  Unlocked \notin Tasks
  BY DEF BrokerAssumption, Unlocked, Tasks, Heartbeat, Generations

(* A handler that returns drops the lock.                                  *)
LEMMA ReturnKeeps ==
  ASSUME BrokerAssumption, Discipline, NEW t \in Tasks, NEW l \in {"off", "idle", "leave"},
         Return(t, l)
  PROVE  Keeps(t)
  <1>1. /\ pc' = [pc EXCEPT ![t] = l]
        /\ op' = [op EXCEPT ![t] = "none"]
        /\ generation' = [generation EXCEPT ![t] = 0]
        /\ argument' = [c \in Clients |-> IF c = t THEN NoConfiguration ELSE argument[c]]
        /\ stream_operations' = IF stream_operations = t THEN Unlocked ELSE stream_operations
        /\ seen' = [seen EXCEPT ![t] = IF l \in {"leave", "off"} THEN 0 ELSE @]
    BY DEF Return, Goto
  <1>2. pc'[t] = l /\ op'[t] = "none" /\ \A u \in Tasks \ {t} : pc'[u] = pc[u] /\ op'[u] = op[u]
    BY <1>1 DEF Discipline, ControlOK
  <1>3. /\ generation' \in [Tasks -> 0..MaxGeneration]
        /\ \A u \in Tasks \ {t} : generation'[u] = generation[u]
    BY <1>1 DEF Discipline, LocalsOK, BrokerAssumption
  <1>4. /\ seen' \in [Tasks -> 0..MaxGeneration]
        /\ \A u \in Tasks \ {t} : seen'[u] = seen[u]
    BY <1>1 DEF Discipline, LocalsOK, BrokerAssumption
  <1>5. argument' \in [Clients -> Configurations \cup {NoConfiguration}]
    BY <1>1 DEF Discipline, LocalsOK
  <1>6. LocalsOK'
    BY <1>1, <1>3, <1>4, <1>5 DEF Discipline, LocalsOK
  <1> QED BY <1>1, <1>2, <1>3, <1>4, <1>6 DEF Keeps, Holding, Starting, Writing

(* One task moves on with the rest of its locals, or with another handler  *)
(* that holds no more.                                                     *)
LEMMA MoveKeeps ==
  ASSUME BrokerAssumption, Discipline, NEW t \in Tasks, NEW l \in Labels, NEW k \in Handlers,
         pc' = [pc EXCEPT ![t] = l],
         op' = [op EXCEPT ![t] = k],
         k \in Holding => op[t] \in Holding,
         l \in Starting => k = "start",
         l \in Writing => k = "setup",
         k = "setup" /\ l \in Writing \cup {"request"} => ~running,
         l # "take",
         UNCHANGED <<generation, seen, argument, stream_operations>>
  PROVE  Keeps(t)
  <1>1. /\ pc'[t] = l /\ op'[t] = k
        /\ \A u \in Tasks \ {t} : pc'[u] = pc[u] /\ op'[u] = op[u]
    BY DEF Discipline, ControlOK
  <1>2. LocalsOK'
    BY DEF Discipline, LocalsOK
  <1> QED BY <1>1, <1>2 DEF Keeps, Discipline, Disciplined

LEMMA StayKeeps ==
  ASSUME BrokerAssumption, Discipline, NEW t \in Tasks, NEW l \in Labels, Stay(t, l),
         l \in Starting => op[t] = "start",
         l \in Writing => op[t] = "setup",
         op[t] = "setup" /\ l \in Writing \cup {"request"} => ~running,
         l # "take"
  PROVE  Keeps(t)
  <1>1. op[t] \in Handlers /\ op' = [op EXCEPT ![t] = op[t]]
    BY DEF Discipline, ControlOK, Stay
  <1>2. pc' = [pc EXCEPT ![t] = l] /\ UNCHANGED <<generation, seen, argument, stream_operations>>
    BY DEF Stay, Goto
  <1> QED BY <1>1, <1>2, MoveKeeps

(* A task that gives up a connection that has failed.                      *)
LEMMA TakingKeeps ==
  ASSUME BrokerAssumption, Discipline, NEW t \in Tasks, NEW k \in Handlers,
         NEW g \in 0..MaxGeneration,
         pc' = [pc EXCEPT ![t] = "take"],
         op' = [op EXCEPT ![t] = k],
         k \in Holding => op[t] \in Holding,
         generation' = [generation EXCEPT ![t] = g],
         g \in failed',
         UNCHANGED <<seen, argument, stream_operations>>
  PROVE  Keeps(t)
  <1>1. /\ pc'[t] = "take" /\ op'[t] = k
        /\ \A u \in Tasks \ {t} : pc'[u] = pc[u] /\ op'[u] = op[u]
    BY DEF Discipline, ControlOK
  <1>2. /\ LocalsOK' /\ generation'[t] = g
        /\ \A u \in Tasks \ {t} : generation'[u] = generation[u]
    BY DEF Discipline, LocalsOK
  <1> QED BY <1>1, <1>2 DEF Keeps, Discipline, Disciplined, Starting, Writing

(* A handler that takes the lock finds it free.                            *)
LEMMA LockingKeeps ==
  ASSUME BrokerAssumption, Discipline, NEW t \in Tasks, NEW l \in Labels, NEW k \in Handlers,
         stream_operations = Unlocked, stream_operations' = t,
         pc' = [pc EXCEPT ![t] = l],
         op' = [op EXCEPT ![t] = k],
         l \in Starting => k = "start",
         l \notin Writing, l # "take",
         k = "setup" => ~running,
         generation' \in [Tasks -> 0..MaxGeneration],
         \A u \in Tasks \ {t} : generation'[u] = generation[u],
         argument' \in [Clients -> Configurations \cup {NoConfiguration}],
         UNCHANGED seen
  PROVE  Keeps(t)
  <1>1. /\ pc'[t] = l /\ op'[t] = k
        /\ \A u \in Tasks \ {t} : pc'[u] = pc[u] /\ op'[u] = op[u]
    BY DEF Discipline, ControlOK
  <1>2. LocalsOK'
    BY DEF Discipline, LocalsOK
  <1>3. \A u \in Tasks : stream_operations # u
    BY UnlockedNoTask
  <1> QED BY <1>1, <1>2, <1>3 DEF Keeps, Discipline, Disciplined, Writing

LEMMA ErrorKeeps ==
  ASSUME BrokerAssumption, Discipline, NEW t \in Tasks, AfterError(t)
  PROVE  Keeps(t)
  <1>1. CASE op[t] = "start"
    <2>1. /\ pc' = [pc EXCEPT ![t] = "close"]
          /\ op' = [op EXCEPT ![t] = "failedstart"]
          /\ UNCHANGED <<generation, seen, argument, stream_operations>>
      BY <1>1 DEF AfterError, Goto
    <2>2. /\ "close" \in Labels /\ "failedstart" \in Handlers
          /\ "failedstart" \in Holding /\ op[t] \in Holding
          /\ "close" \notin Starting /\ "close" \notin Writing
      BY <1>1 DEF Labels, Handlers, Holding, Starting, Writing
    <2> QED BY <2>1, <2>2, MoveKeeps
  <1>2. CASE op[t] # "start"
    <2>1. \E l \in {"off", "idle", "leave"} : Return(t, l)
      BY <1>2 DEF AfterError
    <2> QED BY <2>1, ReturnKeeps
  <1> QED BY <1>1, <1>2

(* A step that leaves every task's locals alone.                           *)
Idle == UNCHANGED <<stream_operations, locals>>

LEMMA RequestKeeps ==
  ASSUME BrokerAssumption, Discipline, NEW t \in Tasks, Request(t)
  PROVE  Keeps(t)
  <1>h. /\ \A k \in {"owned", "released", "kept", "plainreboot", "none"} :
              k \in Handlers /\ k \notin Holding
        /\ op[t] \in Handlers
    BY DEF Handlers, Holding, Discipline, ControlOK
  <1>l. /\ \A l \in {"written", "close", "own", "force"} :
              l \in Labels /\ l # "take" /\ l \notin Starting /\ l # "request"
        /\ \A l \in {"close", "own", "force"} : l \notin Writing
        /\ "setup" \notin {"owned", "released", "kept"}
    BY DEF Labels, Starting, Writing
  <1>u. upstream \in 0..MaxGeneration
    BY DEF Discipline, DataOK
  <1>1. CASE NotConnected(t)
    BY <1>1, ErrorKeeps DEF NotConnected
  <1>2. CASE Answered(t)
    <2>1. AfterAnswer(t) /\ pc[t] = "request"
      BY <1>2 DEF Answered
    <2>2. CASE op[t] = "setup"
      <3>1. Stay(t, "written")
        BY <2>1, <2>2 DEF AfterAnswer
      <3>2. ~running
        BY <2>1, <2>2 DEF Discipline, Disciplined
      <3> QED BY <1>l, <2>2, <3>1, <3>2, StayKeeps
    <2>3. CASE op[t] = "stop"
      <3>1. Stay(t, "close")
        BY <2>1, <2>3 DEF AfterAnswer
      <3> QED BY <1>l, <2>3, <3>1, StayKeeps
    <2>4. CASE op[t] = "disarm"
      BY <2>1, <2>4, ReturnKeeps DEF AfterAnswer
    <2>5. CASE op[t] \in {"block", "commit"}
      <3>1. /\ pc' = [pc EXCEPT ![t] = "own"]
            /\ \E k \in {"owned", "released"} : op' = [op EXCEPT ![t] = k]
            /\ UNCHANGED <<generation, seen, argument, stream_operations>>
        BY <2>1, <2>5 DEF AfterAnswer, Goto
      <3>2. PICK k \in {"owned", "released"} : op' = [op EXCEPT ![t] = k]
        BY <3>1
      <3>3. k # "setup" /\ k \in Handlers /\ k \notin Holding
        BY <1>h
      <3> QED BY <1>l, <3>1, <3>2, <3>3, MoveKeeps
    <2>6. CASE op[t] = "reboot"
      <3>1. CASE Return(t, "leave")
        BY <3>1, ReturnKeeps
      <3>2. CASE ~Return(t, "leave")
        <4>1. /\ pc' = [pc EXCEPT ![t] = "take"]
              /\ generation' = [generation EXCEPT ![t] = upstream]
              /\ UNCHANGED <<op, seen, argument, stream_operations>>
          BY <2>1, <2>6, <3>2 DEF AfterAnswer, Goto
        <4>2. op' = [op EXCEPT ![t] = op[t]]
          BY <4>1 DEF Discipline, ControlOK
        <4>3. upstream \in failed'
          BY <1>2, <2>6 DEF Answered
        <4> QED BY <1>h, <1>u, <4>1, <4>2, <4>3, TakingKeeps
      <3> QED BY <3>1, <3>2
    <2>7. CASE op[t] \notin {"setup", "stop", "disarm", "block", "commit", "reboot"}
      BY <2>1, <2>7, ReturnKeeps DEF AfterAnswer
    <2> QED BY <2>2, <2>3, <2>4, <2>5, <2>6, <2>7
  <1>3. CASE Refused(t)
    <2>1. AfterRefusal(t)
      BY <1>3 DEF Refused
    <2>2. CASE op[t] = "start"
      <3>1. Stay(t, "close")
        BY <2>1, <2>2 DEF AfterRefusal
      <3> QED BY <1>l, <2>2, <3>1, StayKeeps
    <2>3. CASE op[t] = "disarm"
      <3>1. Stay(t, "force")
        BY <2>1, <2>3 DEF AfterRefusal
      <3> QED BY <1>l, <2>3, <3>1, StayKeeps
    <2>4. CASE op[t] = "commit"
      <3>1. /\ pc' = [pc EXCEPT ![t] = "own"]
            /\ \E k \in {"released", "kept"} : op' = [op EXCEPT ![t] = k]
            /\ UNCHANGED <<generation, seen, argument, stream_operations>>
        BY <2>1, <2>4 DEF AfterRefusal, Goto
      <3>2. PICK k \in {"released", "kept"} : op' = [op EXCEPT ![t] = k]
        BY <3>1
      <3>3. k # "setup" /\ k \in Handlers /\ k \notin Holding
        BY <1>h
      <3> QED BY <1>l, <3>1, <3>2, <3>3, MoveKeeps
    <2>5. CASE op[t] \notin {"start", "disarm", "commit"}
      BY <2>1, <2>5, ReturnKeeps DEF AfterRefusal
    <2> QED BY <2>2, <2>3, <2>4, <2>5
  <1>4. CASE Failed(t)
    <2>1. /\ pc' = [pc EXCEPT ![t] = "take"]
          /\ generation' = [generation EXCEPT ![t] = upstream]
          /\ \E k \in {"plainreboot", op[t]} : op' = [op EXCEPT ![t] = k]
          /\ upstream \in failed'
          /\ UNCHANGED <<seen, argument, stream_operations>>
      BY <1>4 DEF Failed, Goto
    <2>2. PICK k \in {"plainreboot", op[t]} : op' = [op EXCEPT ![t] = k]
      BY <2>1
    <2>3. k \in Handlers /\ (k \in Holding => op[t] \in Holding)
      BY <1>h
    <2> QED BY <1>u, <2>1, <2>2, <2>3, TakingKeeps
  <1> QED BY <1>1, <1>2, <1>3, <1>4 DEF Request

(* The clean-up, the end of a session and the start of a task's epoch.     *)
LEMMA ProceedKeeps ==
  ASSUME BrokerAssumption, Discipline, NEW t \in Tasks, Proceed(t)
  PROVE  Keeps(t)
  <1>l. \A l \in {"reset", "stop", "metadata", "epoch", "replace", "closing", "idle"} :
           /\ l \in Labels /\ l # "take" /\ l # "request"
           /\ l \notin Starting /\ l \notin Writing
    BY DEF Labels, Starting, Writing
  <1>o. op[t] \in Handlers /\ op = [op EXCEPT ![t] = op[t]]
    BY DEF Discipline, ControlOK
  <1>1. CASE Take(t)
    <2>1. Stay(t, "reset") \/ AfterError(t)
      BY <1>1 DEF Take
    <2> QED BY <1>l, <2>1, StayKeeps, ErrorKeeps
  <1>2. CASE Reset(t)
    <2>1. PICK l \in {"stop", "metadata"} : pc' = [pc EXCEPT ![t] = l]
      BY <1>2 DEF Reset, Goto
    <2>2. UNCHANGED <<op, generation, seen, argument, stream_operations>>
      BY <1>2 DEF Reset
    <2> QED BY <1>l, <1>o, <2>1, <2>2, MoveKeeps
  <1>3. CASE StopRecording(t)
    <2>1. CASE op[t] = "reboot"
      BY <1>3, <2>1, ErrorKeeps DEF StopRecording
    <2>2. CASE op[t] # "reboot"
      <3>1. /\ pc' = [pc EXCEPT ![t] = "metadata"]
            /\ UNCHANGED <<op, generation, seen, argument, stream_operations>>
        BY <1>3, <2>2 DEF StopRecording, Goto
      <3> QED BY <1>l, <1>o, <3>1, MoveKeeps
    <2> QED BY <2>1, <2>2
  <1>4. CASE ClearMetadata(t)
    <2>1. Stay(t, "epoch")
      BY <1>4 DEF ClearMetadata
    <2> QED BY <1>l, <2>1, StayKeeps
  <1>5. CASE MoveEpoch(t)
    <2>1. Stay(t, "stop") \/ AfterError(t)
      BY <1>5 DEF MoveEpoch
    <2> QED BY <1>l, <2>1, StayKeeps, ErrorKeeps
  <1>10. CASE ReadEpoch(t)
    <2>1. Stay(t, "replace")
      BY <1>10 DEF ReadEpoch
    <2> QED BY <1>l, <2>1, StayKeeps
  <1>6. CASE Request(t)
    BY <1>6, RequestKeeps
  <1>7. CASE Subscribe(t)
    <2>1. /\ pc' = [pc EXCEPT ![t] = "idle"] /\ seen' = [seen EXCEPT ![t] = epoch]
          /\ UNCHANGED <<op, generation, argument, stream_operations>>
      BY <1>7 DEF Subscribe, Goto
    <2>2. /\ pc'[t] = "idle" /\ \A u \in Tasks \ {t} : pc'[u] = pc[u]
      BY <2>1 DEF Discipline, ControlOK
    <2>3. LocalsOK' /\ \A u \in Tasks \ {t} : seen'[u] = seen[u]
      BY <2>1 DEF Discipline, LocalsOK
    <2> QED BY <1>l, <2>1, <2>2, <2>3 DEF Keeps, Discipline, Disciplined
  <1>8. CASE CloseSession(t)
    <2>1. Stay(t, "closing") \/ \E l \in {"off", "idle", "leave"} : Return(t, l)
      BY <1>8 DEF CloseSession, AfterClose
    <2> QED BY <1>l, <2>1, StayKeeps, ReturnKeeps
  <1>9. CASE CloseRecording(t)
    <2>1. \E l \in {"off", "idle", "leave"} : Return(t, l)
      BY <1>9 DEF CloseRecording, AfterClose
    <2> QED BY <2>1, ReturnKeeps
  <1> QED BY <1>1, <1>2, <1>3, <1>4, <1>5, <1>6, <1>7, <1>8, <1>9, <1>10
         DEF Proceed, Cleanup

(* What a client's task does once it has begun.                            *)
LEMMA ClientProceedKeeps ==
  ASSUME BrokerAssumption, Discipline, NEW c \in Clients, ClientProceed(c)
  PROVE  Keeps(c)
  <1>c. c \in Tasks
    BY DEF Tasks
  <1>l. /\ \A l \in {"registered", "off", "disarm"} :
              /\ l \in Labels /\ l # "take" /\ l # "request"
              /\ l \notin Starting /\ l \notin Writing
        /\ \A l \in {"write", "record", "run", "socket", "request"} : l \in Labels /\ l # "take"
        /\ \A l \in {"record", "run", "socket", "request"} : l \notin Writing
        /\ "write" \notin Starting /\ "request" \notin Starting
    BY DEF Labels, Starting, Writing
  <1>h. op[c] \in Handlers /\ "disarm" \in Handlers /\ "disarm" \notin Holding
        /\ op = [op EXCEPT ![c] = op[c]]
    BY <1>c DEF Handlers, Holding, Discipline, ControlOK
  <1>u. upstream \in 0..MaxGeneration
    BY DEF Discipline, DataOK
  <1>d. Disciplined(c)
    BY <1>c DEF Discipline
  <1>1. CASE Register(c)
    <2>1. Stay(c, "registered")
      BY <1>1 DEF Register
    <2> QED BY <1>c, <1>l, <2>1, StayKeeps
  <1>2. CASE Unregister(c)
    <2>1. Stay(c, "disarm") \/ Stay(c, "off")
      BY <1>2 DEF Unregister
    <2> QED BY <1>c, <1>l, <2>1, StayKeeps
  <1>3. CASE Disarm(c)
    <2>1. CASE Return(c, "off")
      BY <1>c, <2>1, ReturnKeeps
    <2>2. CASE ~Return(c, "off")
      <3>1. /\ pc' = [pc EXCEPT ![c] = "request"] /\ op' = [op EXCEPT ![c] = "disarm"]
            /\ UNCHANGED <<generation, seen, argument, stream_operations>>
        BY <1>3, <2>2 DEF Disarm, Goto
      <3> QED BY <1>c, <1>l, <1>h, <3>1, MoveKeeps
    <2> QED BY <2>1, <2>2
  <1>4. CASE ForceDisconnect(c)
    <2>1. CASE upstream = 0
      <3>1. Return(c, "off")
        BY <1>4, <2>1 DEF ForceDisconnect
      <3> QED BY <1>c, <3>1, ReturnKeeps
    <2>2. CASE upstream # 0
      <3>1. /\ pc' = [pc EXCEPT ![c] = "take"]
            /\ generation' = [generation EXCEPT ![c] = upstream]
            /\ upstream \in failed'
            /\ UNCHANGED <<op, seen, argument, stream_operations>>
        BY <1>4, <2>2 DEF ForceDisconnect, Goto
      <3> QED BY <1>c, <1>u, <1>h, <3>1, TakingKeeps
    <2> QED BY <2>1, <2>2
  <1>5. CASE CheckGeneration(c)
    <2>1. CASE Stay(c, "write")
      <3>1. op[c] = "setup" /\ ~running
        BY <1>5, <1>d DEF CheckGeneration, Disciplined, Writing
      <3> QED BY <1>c, <1>l, <2>1, <3>1, StayKeeps
    <2>2. CASE Return(c, "idle")
      BY <1>c, <2>2, ReturnKeeps
    <2> QED BY <1>5, <2>1, <2>2 DEF CheckGeneration
  <1>6. CASE WriteConfiguration(c)
    BY <1>c, <1>6, ReturnKeeps DEF WriteConfiguration
  <1>7. CASE Prepare(c)
    <2>1. CASE Stay(c, "record")
      <3>1. op[c] = "start"
        BY <1>7, <1>d DEF Prepare, Disciplined, Starting
      <3> QED BY <1>c, <1>l, <2>1, <3>1, StayKeeps
    <2>2. CASE Return(c, "leave")
      BY <1>c, <2>2, ReturnKeeps
    <2> QED BY <1>7, <2>1, <2>2 DEF Prepare
  <1>8. CASE StartRecording(c)
    <2>1. CASE Stay(c, "run")
      <3>1. op[c] = "start"
        BY <1>8, <1>d DEF StartRecording, Disciplined, Starting
      <3> QED BY <1>c, <1>l, <2>1, <3>1, StayKeeps
    <2>2. CASE Return(c, "leave")
      BY <1>c, <2>2, ReturnKeeps
    <2> QED BY <1>8, <2>1, <2>2 DEF StartRecording
  <1>9. CASE Run(c)
    <2>1. Stay(c, "socket") /\ op[c] = "start"
      BY <1>9, <1>d DEF Run, Disciplined, Starting
    <2> QED BY <1>c, <1>l, <2>1, StayKeeps
  <1>10. CASE CurrentUdp(c)
    <2>1. CASE upstream = 0
      BY <1>c, <1>10, <2>1, ErrorKeeps DEF CurrentUdp
    <2>2. CASE upstream # 0
      <3>1. /\ pc' = [pc EXCEPT ![c] = "request"]
            /\ generation' = [generation EXCEPT ![c] = upstream]
            /\ UNCHANGED <<op, seen, argument, stream_operations>>
        BY <1>10, <2>2 DEF CurrentUdp, Goto
      <3>2. op[c] = "start"
        BY <1>10, <1>d DEF CurrentUdp, Disciplined, Starting
      <3>3. /\ LocalsOK'
            /\ \A u \in Tasks \ {c} : generation'[u] = generation[u]
        BY <1>c, <1>u, <3>1 DEF Discipline, LocalsOK
      <3>4. pc'[c] = "request" /\ \A u \in Tasks \ {c} : pc'[u] = pc[u]
        BY <1>c, <3>1 DEF Discipline, ControlOK
      <3> QED BY <1>d, <1>l, <3>1, <3>2, <3>3, <3>4 DEF Keeps, Disciplined
    <2> QED BY <2>1, <2>2
  <1>11. CASE RecordOwner(c)
    BY <1>c, <1>11, ReturnKeeps DEF RecordOwner
  <1> QED BY <1>1, <1>2, <1>3, <1>4, <1>5, <1>6, <1>7, <1>8, <1>9, <1>10, <1>11
        DEF ClientProceed

(* What a client begins.                                                   *)
LEMMA ClientRequestKeeps ==
  ASSUME BrokerAssumption, Discipline, NEW c \in Clients, ClientRequest(c)
  PROVE  Keeps(c) \/ Idle
  <1>c. c \in Tasks
    BY DEF Tasks
  <1>l. /\ \A l \in {"accepted", "request", "prepare"} :
              /\ l \in Labels /\ l # "take" /\ l \notin Writing
        /\ "accepted" \notin Starting /\ "request" \notin Starting
    BY DEF Labels, Starting, Writing
  <1>h. /\ Requests \subseteq Handlers
        /\ \A k \in {"arm", "reboot", "plainreboot", "block", "commit"} :
              k \in Handlers /\ k \notin Holding /\ k # "setup"
        /\ \A k \in {"setup", "start", "stop"} : k \in Handlers
    BY DEF BrokerAssumption, Handlers, RequestKinds, Holding
  <1>u. upstream \in 0..MaxGeneration
    BY DEF Discipline, DataOK
  <1>1. CASE Accept(c)
    <2>1. Stay(c, "accepted")
      BY <1>1 DEF Accept
    <2> QED BY <1>c, <1>l, <2>1, StayKeeps
  <1>2. CASE Hangup(c)
    BY <1>c, <1>2, ReturnKeeps DEF Hangup
  <1>3. CASE SetParameter(c)
    <2>1. /\ pc' = [pc EXCEPT ![c] = "request"]
          /\ \E k \in {"arm", "reboot", "plainreboot"} : op' = [op EXCEPT ![c] = k]
          /\ UNCHANGED <<generation, seen, argument, stream_operations>>
      BY <1>3 DEF SetParameter, Begin, Goto
    <2>2. PICK k \in {"arm", "reboot", "plainreboot"} : op' = [op EXCEPT ![c] = k]
      BY <2>1
    <2> QED BY <1>c, <1>l, <1>h, <2>1, <2>2, MoveKeeps
  <1>4. ASSUME NEW config \in Configurations, StreamSetup(c, config)
        PROVE  Keeps(c)
    <2>1. /\ pc' = [pc EXCEPT ![c] = "request"]
          /\ op' = [op EXCEPT ![c] = "setup"]
          /\ stream_operations = Unlocked /\ stream_operations' = c
          /\ ~running
          /\ generation' = [generation EXCEPT ![c] = upstream]
          /\ argument' = [argument EXCEPT ![c] = config]
          /\ UNCHANGED seen
      BY <1>4 DEF StreamSetup, Begin, Goto
    <2>2. /\ generation' \in [Tasks -> 0..MaxGeneration]
          /\ \A u \in Tasks \ {c} : generation'[u] = generation[u]
          /\ argument' \in [Clients -> Configurations \cup {NoConfiguration}]
      BY <1>c, <1>u, <2>1 DEF Discipline, LocalsOK
    <2> QED BY <1>c, <1>l, <1>h, <2>1, <2>2, LockingKeeps
  <1>5. CASE Attach(c)
    BY <1>5 DEF Attach, Idle
  <1>6. CASE StreamStart(c)
    <2>1. /\ pc' = [pc EXCEPT ![c] = "prepare"]
          /\ op' = [op EXCEPT ![c] = "start"]
          /\ stream_operations = Unlocked /\ stream_operations' = c
          /\ UNCHANGED <<generation, seen, argument>>
      BY <1>6 DEF StreamStart, Begin, Goto, MayStart
    <2>2. /\ generation' \in [Tasks -> 0..MaxGeneration]
          /\ \A u \in Tasks \ {c} : generation'[u] = generation[u]
          /\ argument' \in [Clients -> Configurations \cup {NoConfiguration}]
      BY <2>1 DEF Discipline, LocalsOK
    <2> QED BY <1>c, <1>l, <1>h, <2>1, <2>2, LockingKeeps
  <1>7. CASE StreamStop(c)
    <2>1. /\ pc' = [pc EXCEPT ![c] = "request"]
          /\ op' = [op EXCEPT ![c] = "stop"]
          /\ stream_operations = Unlocked /\ stream_operations' = c
          /\ UNCHANGED <<generation, seen, argument>>
      BY <1>7 DEF StreamStop, Begin, Goto
    <2>2. /\ generation' \in [Tasks -> 0..MaxGeneration]
          /\ \A u \in Tasks \ {c} : generation'[u] = generation[u]
          /\ argument' \in [Clients -> Configurations \cup {NoConfiguration}]
      BY <2>1 DEF Discipline, LocalsOK
    <2> QED BY <1>c, <1>l, <1>h, <2>1, <2>2, LockingKeeps
  <1>8. CASE ExpireOwner(c)
    BY <1>8 DEF ExpireOwner, Idle
  <1>9. ASSUME NEW kind \in {"block", "commit"}, TableRequest(c, kind)
        PROVE  Keeps(c)
    <2>1. /\ pc' = [pc EXCEPT ![c] = "request"]
          /\ op' = [op EXCEPT ![c] = kind]
          /\ UNCHANGED <<generation, seen, argument, stream_operations>>
      BY <1>9 DEF TableRequest, Begin, Goto
    <2> QED BY <1>c, <1>l, <1>h, <2>1, MoveKeeps
  <1> QED BY <1>1, <1>2, <1>3, <1>4, <1>5, <1>6, <1>7, <1>8, <1>9 DEF ClientRequest

(* Receivers, the heartbeat and tasks that see the epoch move on.          *)
LEMMA OtherKeeps ==
  ASSUME BrokerAssumption, Discipline, NEW t \in Tasks,
         \/ EpochClosed(t)
         \/ t \in Generations /\ Receiver(t)
         \/ t = Heartbeat /\ (HeartbeatAnswered \/ HeartbeatFails)
  PROVE  Keeps(t) \/ Idle
  <1>o. op[t] \in Handlers /\ op = [op EXCEPT ![t] = op[t]]
    BY DEF Discipline, ControlOK
  <1>u. upstream \in 0..MaxGeneration
    BY DEF Discipline, DataOK
  <1>l. \A l \in {"complete", "idle", "close"} :
           /\ l \in Labels /\ l # "take" /\ l # "request"
           /\ l \notin Starting /\ l \notin Writing
    BY DEF Labels, Starting, Writing
  <1>1. CASE EpochClosed(t)
    <2>1. \E l \in {"leave", "off"} : Return(t, l)
      BY <1>1 DEF EpochClosed
    <2> QED BY <2>1, ReturnKeeps
  <1>2. CASE Receive(t)
    <2>1. Idle \/ Return(t, "off") \/ Stay(t, "complete") \/ Stay(t, "idle")
      BY <1>2 DEF Receive, Idle
    <2> QED BY <1>l, <2>1, ReturnKeeps, StayKeeps
  <1>3. CASE CompleteSession(t)
    <2>1. /\ pc' = [pc EXCEPT ![t] = "close"]
          /\ stream_operations = Unlocked /\ stream_operations' = t
          /\ UNCHANGED <<op, generation, seen, argument>>
      BY <1>3 DEF CompleteSession, Goto
    <2>2. \A u \in Tasks : stream_operations # u
      BY <2>1, UnlockedNoTask
    <2>3. pc'[t] = "close" /\ \A u \in Tasks \ {t} : pc'[u] = pc[u]
      BY <2>1 DEF Discipline, ControlOK
    <2>4. LocalsOK'
      BY <2>1 DEF Discipline, LocalsOK
    <2> QED BY <1>l, <2>1, <2>2, <2>3, <2>4 DEF Keeps, Discipline, Disciplined
  <1>4. CASE t \in Generations /\ ReceiveError(t)
    <2>1. /\ pc' = [pc EXCEPT ![t] = "take"]
          /\ generation' = [generation EXCEPT ![t] = t]
          /\ t \in failed'
          /\ UNCHANGED <<op, seen, argument, stream_operations>>
      BY <1>4 DEF ReceiveError, Goto
    <2>2. t \in 0..MaxGeneration
      BY <1>4 DEF Generations
    <2> QED BY <1>o, <2>1, <2>2, TakingKeeps
  <1>5. CASE HeartbeatAnswered
    BY <1>5 DEF HeartbeatAnswered, vars, Idle
  <1>6. CASE t = Heartbeat /\ HeartbeatFails
    <2>1. /\ pc' = [pc EXCEPT ![t] = "take"]
          /\ generation' = [generation EXCEPT ![t] = upstream]
          /\ upstream \in failed'
          /\ UNCHANGED <<op, seen, argument, stream_operations>>
      BY <1>6 DEF HeartbeatFails, Goto
    <2> QED BY <1>o, <1>u, <2>1, TakingKeeps
  <1> QED BY <1>1, <1>2, <1>3, <1>4, <1>5, <1>6 DEF Receiver

-----------------------------------------------------------------------------
(* What is shared: every step keeps its types, forgets no failure, and     *)
(* makes room for a datagram before it is sent.                            *)

Shared ==
    /\ DataOK'
    /\ ReceivedCounted'
    /\ failed \subseteq failed'
    /\ UNCHANGED epochs

LEMMA FailedGrows ==
  ASSUME DataOK, failed' = failed \/ (upstream # 0 /\ failed' = failed \cup {upstream})
  PROVE  failed' \subseteq Generations /\ failed \subseteq failed'
  <1>1. upstream # 0 => upstream \in Generations
    BY DEF DataOK, Generations
  <1>2. failed \subseteq Generations
    BY DEF DataOK
  <1> QED BY <1>1, <1>2

LEMMA ProceedShared ==
  ASSUME BrokerAssumption, DataOK, ReceivedCounted, LocalsOK, NEW t \in Tasks,
         Proceed(t), ~ReadEpoch(t), ~MoveEpoch(t)
  PROVE  Shared /\ (running' => running)
  <1>d. Detached \in [Clients -> {"none", "detached", "attached"}]
    BY DEF Detached
  <1>z. 0 \in 0..MaxReceived /\ 0 \in 0..MaxGeneration
        /\ (packet # NoPacket => 0 < MaxReceived)
    BY DEF BrokerAssumption, ReceivedCounted
  <1> USE DEF Shared, DataOK, ReceivedCounted, link, session, recorder, world
  <1>1. CASE Take(t)
    BY <1>1, <1>z DEF Take, AfterError, Return, Stay, Goto
  <1>2. CASE Reset(t)
    BY <1>2, <1>d, <1>z DEF Reset, Goto
  <1>3. CASE StopRecording(t)
    BY <1>3 DEF StopRecording
  <1>4. CASE ClearMetadata(t)
    BY <1>4 DEF ClearMetadata
  <1>5. CASE NotConnected(t)
    BY <1>5 DEF NotConnected
  <1>6. CASE Answered(t)
    <2>1. failed' = failed \/ (upstream # 0 /\ failed' = failed \cup {upstream})
      BY <1>6 DEF Answered
    <2>2. failed' \subseteq Generations /\ failed \subseteq failed'
      BY <2>1, FailedGrows
    <2> QED BY <1>6, <2>2 DEF Answered
  <1>7. CASE Refused(t)
    BY <1>7 DEF Refused
  <1>8. CASE Failed(t)
    BY <1>8 DEF Failed, Generations
  <1>9. CASE Subscribe(t)
    BY <1>9 DEF Subscribe
  <1>10. CASE CloseSession(t)
    BY <1>10, <1>d, <1>z DEF CloseSession
  <1>11. CASE CloseRecording(t)
    BY <1>11 DEF CloseRecording
  <1> QED BY <1>1, <1>2, <1>3, <1>4, <1>5, <1>6, <1>7, <1>8, <1>9, <1>10, <1>11
        DEF Proceed, Cleanup, Request

LEMMA ClientShared ==
  ASSUME BrokerAssumption, DataOK, ReceivedCounted, LocalsOK, NEW c \in Clients,
         ClientProceed(c) \/ ClientRequest(c)
  PROVE  Shared /\ (Run(c) \/ (running' => running))
  <1>z. 0 \in 0..MaxReceived /\ (packet # NoPacket => 0 < MaxReceived)
    BY DEF BrokerAssumption, ReceivedCounted
  <1> USE DEF Shared, DataOK, ReceivedCounted, link, session, recorder, world
  <1>1. CASE Register(c)
    BY <1>1 DEF Register
  <1>2. CASE Unregister(c)
    BY <1>2 DEF Unregister, OwnerAfter
  <1>3. CASE Disarm(c)
    BY <1>3 DEF Disarm
  <1>4. CASE ForceDisconnect(c)
    <2>1. failed' = failed \/ (upstream # 0 /\ failed' = failed \cup {upstream})
      BY <1>4 DEF ForceDisconnect
    <2>2. failed' \subseteq Generations /\ failed \subseteq failed'
      BY <2>1, FailedGrows
    <2> QED BY <1>4, <2>2 DEF ForceDisconnect
  <1>5. CASE CheckGeneration(c)
    BY <1>5 DEF CheckGeneration
  <1>6. CASE WriteConfiguration(c)
    BY <1>6 DEF WriteConfiguration, LocalsOK
  <1>7. CASE Prepare(c)
    BY <1>7 DEF Prepare
  <1>8. CASE StartRecording(c)
    BY <1>8 DEF StartRecording
  <1>9. CASE Run(c)
    BY <1>9, <1>z DEF Run
  <1>10. CASE CurrentUdp(c)
    BY <1>10 DEF CurrentUdp
  <1>11. CASE RecordOwner(c)
    BY <1>11 DEF RecordOwner
  <1>12. CASE Accept(c) \/ Hangup(c)
    BY <1>12 DEF Accept, Hangup
  <1>13. CASE SetParameter(c)
    BY <1>13 DEF SetParameter
  <1>14. ASSUME NEW config \in Configurations, StreamSetup(c, config)
         PROVE  Shared /\ (Run(c) \/ (running' => running))
    BY <1>14 DEF StreamSetup
  <1>15. CASE Attach(c)
    BY <1>15 DEF Attach
  <1>16. CASE StreamStart(c) \/ StreamStop(c)
    BY <1>16 DEF StreamStart, StreamStop
  <1>17. CASE ExpireOwner(c)
    BY <1>17 DEF ExpireOwner
  <1>18. ASSUME NEW kind \in {"block", "commit"}, TableRequest(c, kind)
         PROVE  Shared /\ (Run(c) \/ (running' => running))
    BY <1>18 DEF TableRequest
  <1> QED BY <1>1, <1>2, <1>3, <1>4, <1>5, <1>6, <1>7, <1>8, <1>9, <1>10, <1>11, <1>12, <1>13,
             <1>14, <1>15, <1>16, <1>17, <1>18 DEF ClientProceed, ClientRequest

LEMMA OtherShared ==
  ASSUME BrokerAssumption, DataOK, ReceivedCounted,
         \/ \E t \in Tasks : EpochClosed(t)
         \/ \E g \in Generations : Receiver(g)
         \/ HeartbeatAnswered \/ HeartbeatFails \/ Device \/ StorageFails \/ Stopped
  PROVE  Shared /\ (running' => running)
  <1> USE DEF Shared, DataOK, ReceivedCounted, link, session, recorder, world
  <1>1. ASSUME NEW t \in Tasks, EpochClosed(t)
        PROVE  Shared /\ (running' => running)
    BY <1>1 DEF EpochClosed
  <1>2. ASSUME NEW g \in Generations, Receive(g)
        PROVE  Shared /\ (running' => running)
    <2>1. packet # NoPacket
      BY <1>2 DEF Receive, NoPacket, Generations
    <2>2. received_records' = received_records \/ received_records' = received_records + 1
      BY <1>2 DEF Receive
    <2>3. fatal' = fatal \/ fatal' = TRUE
      BY <1>2 DEF Receive
    <2>4. /\ packet' = NoPacket
          /\ UNCHANGED <<running, upstream, metadata, epochs, loop, failed, configuration, clients,
                         table_owner>>
      BY <1>2 DEF Receive
    <2>5. received_records' \in 0..MaxReceived
      BY <2>1, <2>2 DEF BrokerAssumption
    <2> QED BY <2>3, <2>4, <2>5
  <1>3. ASSUME NEW g \in Generations, CompleteSession(g)
        PROVE  Shared /\ (running' => running)
    BY <1>3 DEF CompleteSession
  <1>4. ASSUME NEW g \in Generations, ReceiveError(g)
        PROVE  Shared /\ (running' => running)
    BY <1>4 DEF ReceiveError, Generations
  <1>5. CASE HeartbeatAnswered \/ Stopped
    BY <1>5 DEF HeartbeatAnswered, Stopped, vars
  <1>6. CASE HeartbeatFails
    BY <1>6 DEF HeartbeatFails, Generations
  <1>7. CASE DeviceSend
    BY <1>7 DEF DeviceSend
  <1>8. CASE PacketLost
    BY <1>8 DEF PacketLost
  <1>9. CASE DeviceDrop
    BY <1>9 DEF DeviceDrop
  <1>10. CASE StorageFails
    BY <1>10 DEF StorageFails
  <1> QED BY <1>1, <1>2, <1>3, <1>4, <1>5, <1>6, <1>7, <1>8, <1>9, <1>10 DEF Receiver, Device

LEMMA LoopShared ==
  ASSUME BrokerAssumption, IInv, DataOK, ReceivedCounted, Loop
  PROVE  Shared /\ (running' => running)
  <1> USE DEF Shared, DataOK, ReceivedCounted, link, session, recorder, world
  <1>1. CASE LoopCheck \/ LoopWait \/ LoopNotified
    BY <1>1 DEF LoopCheck, LoopWait, LoopNotified
  <1>2. CASE LoopConnect
    BY <1>2 DEF LoopConnect
  <1>4. CASE LoopMetadata
    BY <1>4 DEF LoopMetadata
  <1>3. CASE LoopInstall
    <2>1. next_generation - 1 \in 0..MaxGeneration
      BY DEF IInv, ReceiversFresh, BrokerAssumption
    <2> QED BY <1>3, <2>1 DEF LoopInstall
  <1> QED BY <1>1, <1>2, <1>3, <1>4 DEF Loop

(* A step of one task keeps the discipline of all: only a handler that     *)
(* holds the lock marks a session running.                                 *)
LEMMA DisciplineKept ==
  ASSUME BrokerAssumption, Discipline, NEW t \in Tasks, Keeps(t), failed \subseteq failed',
         running' => running \/ (op[t] = "start" /\ op'[t] = "start")
  PROVE  LocalsOK' /\ \A u \in Tasks : Disciplined(u)'
  <1>1. LocalsOK'
    BY DEF Keeps
  <1>2. ASSUME NEW u \in Tasks
        PROVE  Disciplined(u)'
    <2>1. Disciplined(u) /\ Disciplined(t)
      BY DEF Discipline
    <2>2. CASE u = t
      <3>1. op'[t] = "setup" /\ pc'[t] \in Writing \cup {"request"} => ~running'
        BY DEF Keeps
      <3> QED BY <2>2, <3>1 DEF Keeps, Disciplined
    <2>3. CASE u # t
      <3>1. /\ pc'[u] = pc[u] /\ op'[u] = op[u]
            /\ generation'[u] = generation[u]
            /\ stream_operations = u => stream_operations' = u
        BY <2>3 DEF Keeps
      <3>2. op[u] = "setup" => op[t] # "start"
        BY <2>1, <2>3 DEF Disciplined, Holding
      <3>3. op'[u] = "setup" /\ pc'[u] \in Writing \cup {"request"} => ~running'
        BY <2>1, <3>1, <3>2 DEF Disciplined
      <3> QED BY <2>1, <3>1, <3>3 DEF Disciplined
    <2> QED BY <2>2, <2>3
  <1> QED BY <1>1, <1>2

LEMMA DisciplineIdle ==
  ASSUME Discipline, Idle, failed \subseteq failed', running' => running
  PROVE  LocalsOK' /\ \A u \in Tasks : Disciplined(u)'
  <1>1. LocalsOK'
    BY DEF Discipline, LocalsOK, Idle, locals
  <1>2. ASSUME NEW u \in Tasks
        PROVE  Disciplined(u)'
    BY DEF Discipline, Disciplined, Idle, locals
  <1> QED BY <1>1, <1>2

-----------------------------------------------------------------------------
(* The count of the epochs.                                                *)

LEMMA ConnectingType ==
  ASSUME IsFiniteSet(Moving)
  PROVE  Connecting \in Nat /\ Cardinality(Moving) \in Nat /\ One(upstream # 0) \in Nat
         /\ One(loop \in {"describe", "install"}) \in Nat
  BY FS_CardinalityType DEF Connecting, One

(* A step that ends no connection's turn.                                  *)
LEMMA CountSame ==
  ASSUME EpochCounted, IsFiniteSet(Moving'), UNCHANGED epochs,
         next_generation \in Nat, next_generation' \in Nat,
         \/ Connecting' = Connecting /\ next_generation' = next_generation
         \/ Connecting' = Connecting + 1 /\ next_generation' = next_generation + 1,
         \A t \in Tasks : pc'[t] = "replace" <=> pc[t] = "replace",
         \A t \in Tasks : was_running'[t] /\ pc'[t] \in {"metadata", "epoch", "replace"}
                              => op'[t] = "reboot"
  PROVE  EpochCounted'
  <1>1. epoch' = epoch /\ next_epoch' = next_epoch
    BY DEF epochs
  <1>2. Connecting \in Nat
    BY ConnectingType DEF EpochCounted
  <1>3. epoch' \in Nat /\ epoch' + Connecting' < next_generation'
    BY <1>1, <1>2 DEF EpochCounted
  <1>4. \A t \in Tasks : IF pc'[t] = "replace" THEN next_epoch'[t] + Connecting' <= next_generation'
                                               ELSE next_epoch'[t] = 0
    BY <1>1, <1>2 DEF EpochCounted
  <1>5. next_epoch' \in [Tasks -> Nat]
    BY <1>1 DEF EpochCounted
  <1> QED BY <1>3, <1>4, <1>5 DEF EpochCounted

LEMMA CountKept ==
  ASSUME EpochCounted, Moving' = Moving, next_generation \in Nat,
         UNCHANGED <<epochs, next_generation, upstream, loop>>,
         \A t \in Tasks : pc'[t] = "replace" <=> pc[t] = "replace",
         \A t \in Tasks : was_running'[t] /\ pc'[t] \in {"metadata", "epoch", "replace"}
                              => op'[t] = "reboot"
  PROVE  EpochCounted'
  <1>1. Connecting' = Connecting
    BY DEF Connecting, One
  <1>2. IsFiniteSet(Moving')
    BY DEF EpochCounted
  <1> QED BY <1>1, <1>2, CountSame

LEMMA NextIsNat ==
  ASSUME IInv
  PROVE  next_generation \in Nat
  BY DEF IInv, ReceiversFresh

LEMMA MovingKept ==
  ASSUME NEW t \in Tasks, \A u \in Tasks \ {t} : pc'[u] = pc[u] /\ op'[u] = op[u],
         t \in Moving <=> \/ pc'[t] \in {"reset", "metadata", "epoch", "replace"}
                          \/ pc'[t] = "stop" /\ op'[t] # "reboot"
  PROVE  Moving' = Moving
  BY DEF Moving

(* A task that owes nothing before and after a step.                       *)
LEMMA CountSettled ==
  ASSUME IInv, EpochCounted, NEW t \in Tasks, pc[t] \notin Cleaning, Moves(t, Labels \ Cleaning),
         UNCHANGED <<epochs, next_generation, upstream, loop>>
  PROVE  EpochCounted'
  <1>1. /\ pc'[t] \in Labels \ Cleaning
        /\ \A u \in Tasks \ {t} : /\ pc'[u] = pc[u] /\ op'[u] = op[u]
                                  /\ was_running'[u] <=> was_running[u]
    BY MovedFacts
  <1>2. Moving' = Moving
    BY <1>1, MovingKept DEF Moving, Cleaning
  <1>3. \A u \in Tasks : was_running'[u] /\ pc'[u] \in {"metadata", "epoch", "replace"}
                              => op'[u] = "reboot"
    BY <1>1 DEF EpochCounted, Cleaning
  <1>4. \A u \in Tasks : pc'[u] = "replace" <=> pc[u] = "replace"
    BY <1>1 DEF Cleaning
  <1> QED BY <1>2, <1>3, <1>4, NextIsNat, CountKept

LEMMA CountPlain ==
  ASSUME IInv, EpochCounted, NEW t \in Tasks, Plain(t), UNCHANGED epochs
  PROVE  EpochCounted'
  <1>1. PICK l \in Settled : pc' = [pc EXCEPT ![t] = l]
    BY DEF Plain, Moves
  <1>2. l \in Labels \ Cleaning
    BY DEF Settled, Owing
  <1>3. Moves(t, Labels \ Cleaning)
    BY <1>1, <1>2 DEF Plain, Moves
  <1>4. pc[t] \notin Cleaning
    BY DEF Plain, Owing
  <1> QED BY <1>3, <1>4, CountSettled DEF Plain

LEMMA CountStill ==
  ASSUME IInv, EpochCounted, Still, UNCHANGED epochs
  PROVE  EpochCounted'
  <1>1. Moving' = Moving
    BY DEF Still, Moving
  <1>2. \A t \in Tasks : was_running'[t] /\ pc'[t] \in {"metadata", "epoch", "replace"}
                              => op'[t] = "reboot"
    BY DEF Still, EpochCounted
  <1> QED BY <1>1, <1>2, NextIsNat, CountKept DEF Still

(* The clean-up moves the epoch on once for the connection it took.        *)
LEMMA CountCleanup ==
  ASSUME BrokerAssumption, IInv, IInv', EpochCounted, DataOK, NEW t \in Tasks, Cleanup(t),
         ReadEpoch(t) \/ MoveEpoch(t) \/ UNCHANGED epochs
  PROVE  EpochCounted'
  <1>p. /\ pc \in [Tasks -> Labels] /\ op \in [Tasks -> Handlers]
        /\ was_running \in [Tasks -> BOOLEAN]
        /\ next_generation \in Nat /\ epoch \in Nat
    BY DEF IInv, ControlOK, ReceiversFresh, EpochCounted
  <1>w. \A u \in Tasks : was_running[u] /\ pc[u] \in {"metadata", "epoch", "replace"} => op[u] = "reboot"
    BY DEF EpochCounted
  <1>1. CASE Take(t) /\ Takes(t)
    <2>1. /\ pc[t] = "take" /\ pc' = [pc EXCEPT ![t] = "reset"]
          /\ upstream # 0 /\ upstream' = 0
          /\ UNCHANGED <<op, was_running, epochs, next_generation, loop>>
      BY <1>1 DEF Take, Takes, Stay, Goto
    <2>2. pc'[t] = "reset" /\ \A u \in Tasks \ {t} : pc'[u] = pc[u]
      BY <1>p, <2>1
    <2>3. Moving' = Moving \cup {t} /\ t \notin Moving
      BY <2>1, <2>2 DEF Moving
    <2>4. /\ IsFiniteSet(Moving') /\ Cardinality(Moving) \in Nat
          /\ Cardinality(Moving') = Cardinality(Moving) + 1
      BY <2>3, FS_AddElement, FS_CardinalityType DEF EpochCounted
    <2>5. One(upstream # 0) = 1 /\ One(upstream' # 0) = 0
          /\ One(loop' \in {"describe", "install"}) = One(loop \in {"describe", "install"})
          /\ One(loop \in {"describe", "install"}) \in Nat
      BY <2>1 DEF One
    <2>6. Connecting' = Connecting
      BY <2>4, <2>5 DEF Connecting
    <2>7. /\ \A u \in Tasks : pc'[u] = "replace" <=> pc[u] = "replace"
          /\ \A u \in Tasks : was_running'[u] /\ pc'[u] \in {"metadata", "epoch", "replace"}
                                  => op'[u] = "reboot"
      BY <1>w, <2>1, <2>2
    <2> QED BY <1>p, <2>1, <2>4, <2>6, <2>7, CountSame
  <1>2. CASE Take(t) /\ ~Takes(t)
    <2>1. AfterError(t) /\ pc[t] = "take" /\ UNCHANGED <<next_generation, upstream, loop, epochs>>
      BY <1>2 DEF Take
    <2>2. Moves(t, Settled)
      BY <2>1, ErrorMoves DEF IInv
    <2>3. Moves(t, Labels \ Cleaning)
      BY <2>2 DEF Moves, Settled, Owing
    <2>4. pc[t] \notin Cleaning
      BY <2>1 DEF Cleaning
    <2> QED BY <2>1, <2>3, <2>4, CountSettled
  <1>3. CASE Reset(t)
    <2>1. /\ pc[t] = "reset"
          /\ pc' = [pc EXCEPT ![t] = IF running /\ op[t] # "reboot" THEN "stop" ELSE "metadata"]
          /\ was_running' = [was_running EXCEPT ![t] = running]
          /\ UNCHANGED <<op, epochs, next_generation, upstream, loop>>
      BY <1>3 DEF Reset, Goto, link
    <2>2. /\ pc'[t] = IF running /\ op[t] # "reboot" THEN "stop" ELSE "metadata"
          /\ was_running'[t] = running
          /\ \A u \in Tasks \ {t} : pc'[u] = pc[u] /\ was_running'[u] = was_running[u]
      BY <1>p, <2>1
    <2>3. Moving' = Moving
      BY <2>1, <2>2 DEF Moving
    <2>4. \A u \in Tasks : was_running'[u] /\ pc'[u] \in {"metadata", "epoch", "replace"}
                              => op'[u] = "reboot"
      BY <1>w, <2>1, <2>2
    <2>r. \A u \in Tasks : pc'[u] = "replace" <=> pc[u] = "replace"
      BY <2>1, <2>2
    <2> QED BY <1>p, <2>1, <2>3, <2>4, <2>r, CountKept
  <1>4. CASE StopRecording(t)
    <2>1. pc[t] = "stop" /\ UNCHANGED <<epochs, next_generation, upstream, loop>>
      BY <1>4 DEF StopRecording, link
    <2>2. CASE op[t] = "reboot"
      <3>1. AfterError(t)
        BY <1>4, <2>2 DEF StopRecording
      <3>2. Moves(t, Settled) /\ Settled \in SUBSET Labels
        BY <3>1, ErrorMoves DEF IInv, Settled
      <3>3. /\ pc'[t] \in Settled
            /\ \A u \in Tasks \ {t} : /\ pc'[u] = pc[u] /\ op'[u] = op[u]
                                      /\ was_running'[u] <=> was_running[u]
        BY <3>2, MovedFacts
      <3>4. Moving' = Moving
        BY <2>1, <2>2, <3>3, MovingKept DEF Moving, Settled, Owing, Cleaning
      <3>5. \A u \in Tasks : was_running'[u] /\ pc'[u] \in {"metadata", "epoch", "replace"}
                              => op'[u] = "reboot"
        BY <1>w, <3>3 DEF Settled, Owing, Cleaning
      <3>6. \A u \in Tasks : pc'[u] = "replace" <=> pc[u] = "replace"
        BY <2>1, <3>3 DEF Settled, Owing, Cleaning
      <3> QED BY <1>p, <2>1, <3>4, <3>5, <3>6, CountKept
    <2>3. CASE op[t] # "reboot"
      <3>1. /\ pc' = [pc EXCEPT ![t] = "metadata"]
            /\ was_running' = [was_running EXCEPT ![t] = FALSE]
            /\ op' = op
        BY <1>4, <2>3 DEF StopRecording, Goto
      <3>2. /\ pc'[t] = "metadata" /\ ~was_running'[t]
            /\ \A u \in Tasks \ {t} : pc'[u] = pc[u] /\ was_running'[u] = was_running[u]
        BY <1>p, <3>1
      <3>3. Moving' = Moving
        BY <2>1, <2>3, <3>1, <3>2 DEF Moving
      <3>4. \A u \in Tasks : was_running'[u] /\ pc'[u] \in {"metadata", "epoch", "replace"}
                              => op'[u] = "reboot"
        BY <1>w, <3>1, <3>2
      <3>5. \A u \in Tasks : pc'[u] = "replace" <=> pc[u] = "replace"
        BY <2>1, <3>2
      <3> QED BY <1>p, <2>1, <3>3, <3>4, <3>5, CountKept
    <2> QED BY <2>2, <2>3
  <1>5. CASE ClearMetadata(t)
    <2>1. /\ pc[t] = "metadata" /\ pc' = [pc EXCEPT ![t] = "epoch"]
          /\ UNCHANGED <<op, was_running, epochs, next_generation, upstream, loop>>
      BY <1>5 DEF ClearMetadata, Stay, Goto
    <2>2. pc'[t] = "epoch" /\ \A u \in Tasks \ {t} : pc'[u] = pc[u]
      BY <1>p, <2>1
    <2>3. Moving' = Moving
      BY <2>1, <2>2 DEF Moving
    <2>4. \A u \in Tasks : was_running'[u] /\ pc'[u] \in {"metadata", "epoch", "replace"}
                              => op'[u] = "reboot"
      BY <1>w, <2>1, <2>2
    <2>r. \A u \in Tasks : pc'[u] = "replace" <=> pc[u] = "replace"
      BY <2>1, <2>2
    <2> QED BY <1>p, <2>1, <2>3, <2>4, <2>r, CountKept
  <1>6. CASE MoveEpoch(t)
    <2>1. /\ pc[t] = "replace" /\ epoch' = next_epoch[t]
          /\ next_epoch' = [next_epoch EXCEPT ![t] = 0]
          /\ UNCHANGED <<next_generation, upstream, loop>>
      BY <1>6 DEF MoveEpoch
    <2>2. /\ pc'[t] \notin {"reset", "metadata", "epoch", "replace"}
          /\ pc'[t] = "stop" => op'[t] = "reboot"
          /\ \A u \in Tasks \ {t} : /\ pc'[u] = pc[u] /\ op'[u] = op[u]
                                    /\ was_running'[u] <=> was_running[u]
      <3>1. CASE was_running[t]
        <4>1. pc' = [pc EXCEPT ![t] = "stop"] /\ UNCHANGED <<op, was_running>>
          BY <1>6, <3>1 DEF MoveEpoch, Stay, Goto
        <4> QED BY <1>p, <1>w, <2>1, <3>1, <4>1
      <3>2. CASE ~was_running[t]
        <4>1. AfterError(t)
          BY <1>6, <3>2 DEF MoveEpoch
        <4>2. Moves(t, Settled) /\ Settled \in SUBSET Labels
          BY <4>1, ErrorMoves DEF IInv, Settled
        <4> QED BY <4>2, MovedFacts DEF Settled, Owing, Cleaning
      <3> QED BY <3>1, <3>2
    <2>3. Moving' = Moving \ {t} /\ t \in Moving
      BY <2>1, <2>2 DEF Moving
    <2>4. /\ IsFiniteSet(Moving') /\ Cardinality(Moving) \in Nat
          /\ Cardinality(Moving') = Cardinality(Moving) - 1
      BY <2>3, FS_RemoveElement, FS_CardinalityType DEF EpochCounted
    <2>5. /\ Connecting \in Nat /\ Connecting' = Connecting - 1
      <3>1. /\ One(upstream' # 0) = One(upstream # 0)
            /\ One(loop' \in {"describe", "install"}) = One(loop \in {"describe", "install"})
        BY <2>1 DEF One
      <3>2. /\ Connecting \in Nat /\ One(upstream # 0) \in Nat
            /\ One(loop \in {"describe", "install"}) \in Nat
        BY ConnectingType DEF EpochCounted
      <3> QED BY <2>4, <3>1, <3>2 DEF Connecting
    <2>6. epoch' \in Nat /\ epoch' + Connecting' < next_generation'
      BY <1>p, <2>1, <2>5 DEF EpochCounted
    <2>8. /\ next_epoch' \in [Tasks -> Nat]
          /\ next_epoch'[t] = 0 /\ \A u \in Tasks \ {t} : next_epoch'[u] = next_epoch[u]
      BY <2>1 DEF EpochCounted
    <2>9. \A u \in Tasks : IF pc'[u] = "replace" THEN next_epoch'[u] + Connecting' <= next_generation'
                                                 ELSE next_epoch'[u] = 0
      BY <1>p, <2>1, <2>2, <2>5, <2>8 DEF EpochCounted
    <2>7. \A u \in Tasks : was_running'[u] /\ pc'[u] \in {"metadata", "epoch", "replace"}
                              => op'[u] = "reboot"
      BY <1>w, <2>2
    <2> QED BY <2>4, <2>6, <2>7, <2>8, <2>9 DEF EpochCounted
  <1>7. CASE ReadEpoch(t)
    <2>1. /\ pc[t] = "epoch" /\ pc' = [pc EXCEPT ![t] = "replace"]
          /\ next_epoch' = [next_epoch EXCEPT ![t] = epoch + 1]
          /\ UNCHANGED <<op, was_running, epoch, next_generation, upstream, loop>>
      BY <1>7 DEF ReadEpoch, Stay, Goto
    <2>2. pc'[t] = "replace" /\ \A u \in Tasks \ {t} : pc'[u] = pc[u]
      BY <1>p, <2>1
    <2>3. Moving' = Moving
      BY <2>1, <2>2 DEF Moving
    <2>4. \A u \in Tasks : was_running'[u] /\ pc'[u] \in {"metadata", "epoch", "replace"}
                              => op'[u] = "reboot"
      BY <1>w, <2>1, <2>2
    <2>5. Connecting \in Nat /\ Connecting' = Connecting
      <3>1. Connecting \in Nat
        BY ConnectingType DEF EpochCounted
      <3> QED BY <2>1, <2>3, <3>1 DEF Connecting, One
    <2>6. /\ next_epoch' \in [Tasks -> Nat]
          /\ next_epoch'[t] = epoch + 1 /\ \A u \in Tasks \ {t} : next_epoch'[u] = next_epoch[u]
      BY <1>p, <2>1 DEF EpochCounted
    <2>7. \A u \in Tasks : IF pc'[u] = "replace" THEN next_epoch'[u] + Connecting' <= next_generation'
                                                 ELSE next_epoch'[u] = 0
      BY <1>p, <2>1, <2>2, <2>5, <2>6 DEF EpochCounted
    <2>8. epoch' \in Nat /\ epoch' + Connecting' < next_generation' /\ IsFiniteSet(Moving')
      BY <2>1, <2>3, <2>5 DEF EpochCounted
    <2> QED BY <2>4, <2>6, <2>7, <2>8 DEF EpochCounted
  <1> QED BY <1>1, <1>2, <1>3, <1>4, <1>5, <1>6, <1>7 DEF Cleanup

(* The reconnection loop makes a connection, and counts it, when there is  *)
(* none.                                                                   *)
LEMMA CountLoop ==
  ASSUME BrokerAssumption, IInv, DataOK, EpochCounted, NoneToReplace, Loop
  PROVE  EpochCounted' /\ NoneToReplace'
  <1>p. /\ pc \in [Tasks -> Labels] /\ next_generation \in Nat /\ epoch \in Nat
        /\ IsFiniteSet(Moving) /\ Cardinality(Moving) \in Nat
    BY FS_CardinalityType DEF IInv, ControlOK, ReceiversFresh, EpochCounted
  <1>1. CASE LoopCheck \/ LoopWait \/ LoopNotified \/ LoopMetadata
    <2>1. /\ UNCHANGED <<pc, op, was_running, upstream, next_generation, epochs>>
          /\ loop' \in {"describe", "install"} <=> loop \in {"describe", "install"}
      BY <1>1 DEF LoopCheck, LoopWait, LoopNotified, LoopMetadata, locals
    <2>2. Moving' = Moving
      BY <2>1 DEF Moving
    <2>3. NoneToReplace'
      BY <1>1, <2>1 DEF NoneToReplace, LoopCheck, LoopWait, LoopNotified, LoopMetadata
    <2>4. Connecting' = Connecting
      BY <2>1, <2>2 DEF Connecting, One
    <2>5. \A u \in Tasks : was_running'[u] /\ pc'[u] \in {"metadata", "epoch", "replace"}
                              => op'[u] = "reboot"
      BY <2>1 DEF EpochCounted
    <2>6. EpochCounted'
      BY <1>p, <2>1, <2>2, <2>4, <2>5, CountSame
    <2> QED BY <2>3, <2>6
  <1>2. CASE LoopConnect
    <2>1. /\ UNCHANGED <<pc, op, was_running, upstream, epochs>>
          /\ loop = "connect" /\ loop' = "describe"
          /\ next_generation' = next_generation + 1
      BY <1>2 DEF LoopConnect, locals
    <2>2. Moving' = Moving
      BY <2>1 DEF Moving
    <2>3. NoneToReplace'
      BY <2>1 DEF NoneToReplace
    <2>4. Connecting' = Connecting + 1
      <3>1. One(loop' \in {"describe", "install"}) = 1 /\ One(loop \in {"describe", "install"}) = 0
            /\ One(upstream' # 0) = One(upstream # 0) /\ One(upstream # 0) \in Nat
        BY <2>1 DEF One
      <3> QED BY <1>p, <2>2, <3>1 DEF Connecting
    <2>5. \A u \in Tasks : was_running'[u] /\ pc'[u] \in {"metadata", "epoch", "replace"}
                              => op'[u] = "reboot"
      BY <2>1 DEF EpochCounted
    <2>6. next_generation' \in Nat
      BY <1>p, <2>1
    <2>7. EpochCounted'
      BY <1>p, <2>1, <2>2, <2>4, <2>5, <2>6, CountSame
    <2> QED BY <2>3, <2>7
  <1>3. CASE LoopInstall
    <2> DEFINE g == next_generation - 1
    <2>1. g \in Generations /\ g \in Tasks /\ pc[g] = "off" /\ g # 0
      BY <1>3 DEF LoopInstall, IInv, ReceiversFresh, Unspawned, Generations, Tasks,
                  BrokerAssumption
    <2>2. /\ pc' = [pc EXCEPT ![g] = "registered"]
          /\ upstream' = g /\ loop' = "check" /\ loop = "install" /\ upstream = 0
          /\ UNCHANGED <<op, was_running, epochs, next_generation>>
      BY <1>3 DEF LoopInstall, Stay, Goto, NoneToReplace
    <2> HIDE DEF g
    <2>3. pc'[g] = "registered" /\ \A u \in Tasks \ {g} : pc'[u] = pc[u]
      BY <1>p, <2>1, <2>2
    <2>4. Moving' = Moving
      BY <2>1, <2>2, <2>3 DEF Moving
    <2>5. NoneToReplace'
      BY <2>2 DEF NoneToReplace
    <2>6. Connecting' = Connecting
      BY <1>p, <2>1, <2>2, <2>4 DEF Connecting, One
    <2>7. \A u \in Tasks : was_running'[u] /\ pc'[u] \in {"metadata", "epoch", "replace"}
                              => op'[u] = "reboot"
      BY <2>2, <2>3 DEF EpochCounted
    <2>8. \A u \in Tasks : pc'[u] = "replace" <=> pc[u] = "replace"
      BY <2>1, <2>3
    <2>9. EpochCounted'
      BY <1>p, <2>2, <2>4, <2>6, <2>7, <2>8, CountSame
    <2> QED BY <2>5, <2>9
  <1> QED BY <1>1, <1>2, <1>3 DEF Loop

(* The epoch never passes the number of connections.                       *)
LEMMA EpochBound ==
  ASSUME BrokerAssumption, ReceiversFresh, EpochCounted
  PROVE  epoch \in 0..MaxGeneration /\ next_epoch \in [Tasks -> 0..MaxGeneration]
  <1>1. Connecting \in Nat /\ IsFiniteSet(Moving) /\ Cardinality(Moving) \in Nat
        /\ One(upstream # 0) \in Nat /\ One(loop \in {"describe", "install"}) \in Nat
    BY ConnectingType DEF EpochCounted
  <1>2. epoch \in 0..MaxGeneration
    BY <1>1 DEF EpochCounted, ReceiversFresh, BrokerAssumption
  <1>3. ASSUME NEW t \in Tasks PROVE next_epoch[t] \in 0..MaxGeneration
    <2>1. CASE pc[t] # "replace"
      BY <2>1 DEF EpochCounted, BrokerAssumption
    <2>2. CASE pc[t] = "replace"
      <3>1. Moving # {}
        BY <2>2 DEF Moving
      <3>2. Cardinality(Moving) # 0
        BY <1>1, <3>1, FS_EmptySet
      <3>3. Connecting >= 1
        BY <1>1, <3>2 DEF Connecting
      <3>4. next_epoch[t] \in Nat /\ next_epoch[t] + Connecting <= next_generation
        BY <2>2 DEF EpochCounted
      <3> QED BY <1>1, <3>3, <3>4 DEF ReceiversFresh, BrokerAssumption
    <2> QED BY <2>1, <2>2
  <1> QED BY <1>2, <1>3 DEF EpochCounted

-----------------------------------------------------------------------------
(* Every step preserves the whole invariant.                               *)

LEMMA IsDisciplined ==
  ASSUME BrokerAssumption, BrokerInv
  PROVE  Discipline
  <1>1. epoch \in 0..MaxGeneration
    BY EpochBound DEF BrokerInv, IInv
  <1> QED BY <1>1 DEF BrokerInv, IInv, Discipline

LEMMA TaskStep ==
  ASSUME BrokerAssumption, BrokerInv, NEW t \in Tasks, Keeps(t), failed \subseteq failed',
         running' => running \/ (op[t] = "start" /\ op'[t] = "start")
  PROVE  LocalsOK' /\ \A u \in Tasks : Disciplined(u)'
  BY IsDisciplined, DisciplineKept

LEMMA IdleStep ==
  ASSUME BrokerAssumption, BrokerInv, Idle, failed \subseteq failed', running' => running
  PROVE  LocalsOK' /\ \A u \in Tasks : Disciplined(u)'
  BY IsDisciplined, DisciplineIdle

(* Apart from the reconnection loop and a take, no step touches the        *)
(* connection.                                                             *)
LEMMA CountPlainStep ==
  ASSUME BrokerAssumption, BrokerInv, NEW t \in Tasks, Plain(t) \/ Still, UNCHANGED epochs
  PROVE  EpochCounted' /\ NoneToReplace'
  <1>1. EpochCounted'
    BY CountPlain, CountStill DEF BrokerInv
  <1>2. NoneToReplace'
    BY DEF BrokerInv, NoneToReplace, Plain, Still
  <1> QED BY <1>1, <1>2

LEMMA CountCloseStep ==
  ASSUME BrokerAssumption, BrokerInv, NEW t \in Tasks,
         \/ CloseSession(t) \/ CloseRecording(t)
         \/ t \in Clients /\ (StartRecording(t) \/ Run(t)),
         UNCHANGED epochs
  PROVE  EpochCounted' /\ NoneToReplace'
  <1>1. /\ pc[t] \in {"close", "closing", "record", "run"}
        /\ UNCHANGED <<epochs, next_generation, upstream, loop>>
    BY DEF CloseSession, CloseRecording, StartRecording, Run, link
  <1>2. \/ \E l \in {"leave", "idle"} : Return(t, l)
        \/ \E l \in {"closing", "run", "socket"} : Stay(t, l)
    BY DEF CloseSession, CloseRecording, StartRecording, Run, AfterClose
  <1>3. Moves(t, Labels \ Cleaning)
    <2>1. ASSUME NEW l \in {"leave", "idle"}, Return(t, l)
          PROVE  Moves(t, Labels \ Cleaning)
      <3>1. Moves(t, Settled)
        BY <2>1, ReturnMoves, SettledLabels DEF BrokerInv, IInv
      <3> QED BY <3>1 DEF Moves, Settled, Owing
    <2>2. ASSUME NEW l \in {"closing", "run", "socket"}, Stay(t, l)
          PROVE  Moves(t, Labels \ Cleaning)
      <3>1. l \in Labels \ Cleaning
        BY DEF Labels, Cleaning
      <3> QED BY <2>2, <3>1, StayMoves DEF BrokerInv, IInv
    <2> QED BY <1>2, <2>1, <2>2
  <1>4. pc[t] \notin Cleaning
    BY <1>1 DEF Cleaning
  <1>5. EpochCounted'
    BY <1>1, <1>3, <1>4, CountSettled DEF BrokerInv
  <1>6. NoneToReplace'
    BY <1>1 DEF BrokerInv, NoneToReplace
  <1> QED BY <1>5, <1>6

LEMMA CountCleanupStep ==
  ASSUME BrokerAssumption, BrokerInv, IInv', NEW t \in Tasks, Cleanup(t),
         ReadEpoch(t) \/ MoveEpoch(t) \/ UNCHANGED epochs
  PROVE  EpochCounted' /\ NoneToReplace'
  <1>1. EpochCounted'
    BY CountCleanup DEF BrokerInv
  <1>2. loop' = loop /\ (upstream' = upstream \/ upstream' = 0)
    BY DEF Cleanup, Take, Reset, StopRecording, ClearMetadata, ReadEpoch, MoveEpoch, link
  <1> QED BY <1>1, <1>2 DEF BrokerInv, NoneToReplace

(* Who changes the configuration and the connection.                       *)
LEMMA ConfigurationWriters ==
  ASSUME [Next]_vars
  PROVE  configuration' = configuration \/ (\E t \in Tasks : Reset(t))
         \/ (\E c \in Clients : WriteConfiguration(c))
  <1> USE DEF session
  <1>1. ASSUME NEW t \in Tasks, Proceed(t)
        PROVE  configuration' = configuration \/ Reset(t)
    BY <1>1 DEF Proceed, Cleanup, Request, Take, StopRecording, ClearMetadata, ReadEpoch, MoveEpoch,
                NotConnected, Answered, Refused, Failed, Subscribe, CloseSession, CloseRecording
  <1>2. ASSUME NEW c \in Clients, ClientProceed(c)
        PROVE  configuration' = configuration \/ WriteConfiguration(c)
    BY <1>2 DEF ClientProceed, Register, Unregister, Disarm, ForceDisconnect, CheckGeneration,
                Prepare, StartRecording, Run, CurrentUdp, RecordOwner
  <1>3. ASSUME NEW c \in Clients, ClientRequest(c)
        PROVE  configuration' = configuration
    BY <1>3 DEF ClientRequest, Accept, Hangup, SetParameter, StreamSetup, Attach, StreamStart,
                StreamStop, ExpireOwner, TableRequest
  <1>4. ASSUME \/ \E t \in Tasks : EpochClosed(t)
               \/ \E g \in Generations : Receiver(g)
               \/ HeartbeatAnswered \/ HeartbeatFails \/ Stopped \/ UNCHANGED vars
        PROVE  configuration' = configuration
    BY <1>4 DEF EpochClosed, Receiver, Receive, CompleteSession, ReceiveError,
                HeartbeatAnswered, HeartbeatFails, Stopped, vars
  <1>5. ASSUME Loop \/ Device \/ StorageFails
        PROVE  configuration' = configuration
    BY <1>5 DEF Loop, LoopCheck, LoopWait, LoopNotified, LoopConnect, LoopMetadata, LoopInstall,
                Device, DeviceSend, PacketLost, DeviceDrop, StorageFails
  <1> QED BY <1>1, <1>2, <1>3, <1>4, <1>5, Zenon DEF Next

LEMMA ConnectionWriters ==
  ASSUME [Next]_vars
  PROVE  upstream' = upstream \/ (\E t \in Tasks : Take(t)) \/ LoopInstall
  <1> USE DEF link
  <1>1. ASSUME NEW t \in Tasks, Proceed(t)
        PROVE  upstream' = upstream \/ Take(t)
    BY <1>1 DEF Proceed, Cleanup, Request, Reset, StopRecording, ClearMetadata, ReadEpoch, MoveEpoch,
                NotConnected, Answered, Refused, Failed, Subscribe, CloseSession, CloseRecording
  <1>2. ASSUME NEW c \in Clients, ClientProceed(c)
        PROVE  upstream' = upstream
    BY <1>2 DEF ClientProceed, Register, Unregister, Disarm, ForceDisconnect, CheckGeneration,
                WriteConfiguration, Prepare, StartRecording, Run, CurrentUdp, RecordOwner
  <1>3. ASSUME NEW c \in Clients, ClientRequest(c)
        PROVE  upstream' = upstream
    BY <1>3 DEF ClientRequest, Accept, Hangup, SetParameter, StreamSetup, Attach, StreamStart,
                StreamStop, ExpireOwner, TableRequest
  <1>4. ASSUME \/ \E t \in Tasks : EpochClosed(t)
               \/ \E g \in Generations : Receiver(g)
               \/ HeartbeatAnswered \/ HeartbeatFails \/ Stopped \/ UNCHANGED vars
        PROVE  upstream' = upstream
    BY <1>4 DEF EpochClosed, Receiver, Receive, CompleteSession, ReceiveError,
                HeartbeatAnswered, HeartbeatFails, Stopped, vars
  <1>5. ASSUME Loop \/ Device \/ StorageFails
        PROVE  upstream' = upstream \/ LoopInstall
    BY <1>5 DEF Loop, LoopCheck, LoopWait, LoopNotified, LoopConnect, LoopMetadata,
                Device, DeviceSend, PacketLost, DeviceDrop, StorageFails
  <1> QED BY <1>1, <1>2, <1>3, <1>4, <1>5, Zenon DEF Next

LEMMA BrokerStep ==
  ASSUME BrokerAssumption, BrokerInv, [Next]_vars
  PROVE  BrokerInv'
  <1>i. IInv'
    BY NextStep DEF BrokerInv
  <1>d. Discipline /\ IInv /\ DataOK /\ LocalsOK /\ ReceivedCounted /\ EpochCounted
        /\ ControlOK
    BY IsDisciplined DEF BrokerInv, IInv
  <1> DEFINE Rest == /\ DataOK' /\ ReceivedCounted' /\ LocalsOK'
                     /\ \A u \in Tasks : Disciplined(u)'
                     /\ NoneToReplace' /\ EpochCounted'
  <1>1. ASSUME NEW t \in Tasks, Proceed(t)
        PROVE  Rest
    <2>1. Keeps(t)
      BY <1>1, <1>d, ProceedKeeps
    <2>2. CASE ReadEpoch(t) \/ MoveEpoch(t)
      <3>1. DataOK' /\ ReceivedCounted' /\ failed \subseteq failed' /\ running' = running
        BY <1>d, <2>2 DEF ReadEpoch, MoveEpoch, DataOK, ReceivedCounted, session, recorder, world
      <3>2. LocalsOK' /\ \A u \in Tasks : Disciplined(u)'
        BY <2>1, <3>1, TaskStep
      <3>3. EpochCounted' /\ NoneToReplace'
        BY <1>i, <2>2, CountCleanupStep DEF Cleanup
      <3> QED BY <3>1, <3>2, <3>3
    <2>3. CASE ~ReadEpoch(t) /\ ~MoveEpoch(t)
      <3>1. Shared /\ (running' => running)
        BY <1>1, <1>d, <2>3, ProceedShared
      <3>2. LocalsOK' /\ \A u \in Tasks : Disciplined(u)'
        BY <1>i, <2>1, <3>1, TaskStep DEF Shared
      <3>3. EpochCounted' /\ NoneToReplace'
        <4>1. CASE Cleanup(t)
          BY <1>i, <3>1, <4>1, CountCleanupStep DEF Shared
        <4>2. CASE Request(t) \/ Subscribe(t)
          BY <1>d, <3>1, <4>2, ProceedPlain, CountPlainStep DEF PlainProceed, Shared
        <4>3. CASE CloseSession(t) \/ CloseRecording(t)
          BY <3>1, <4>3, CountCloseStep DEF Shared
        <4> QED BY <1>1, <4>1, <4>2, <4>3 DEF Proceed
      <3> QED BY <3>1, <3>2, <3>3 DEF Shared
    <2> QED BY <2>2, <2>3
  <1>2. ASSUME NEW c \in Clients, ClientProceed(c)
        PROVE  Rest
    <2>1. Keeps(c) /\ c \in Tasks
      BY <1>2, <1>d, ClientProceedKeeps DEF Tasks
    <2>2. Shared /\ (Run(c) \/ (running' => running))
      BY <1>2, <1>d, ClientShared
    <2>3. running' => running \/ (op[c] = "start" /\ op'[c] = "start")
      <3>1. CASE Run(c)
        <4>1. pc[c] = "run" /\ op' = op
          BY <3>1 DEF Run, Stay
        <4> QED BY <1>d, <2>1, <4>1 DEF Discipline, Disciplined, Starting
      <3> QED BY <2>2, <3>1
    <2>4. LocalsOK' /\ \A u \in Tasks : Disciplined(u)'
      BY <1>i, <2>1, <2>2, <2>3, TaskStep DEF Shared
    <2>5. EpochCounted' /\ NoneToReplace'
      <3>1. CASE PlainProceed(c)
        BY <1>d, <2>1, <2>2, <3>1, ProceedPlain, CountPlainStep DEF Shared
      <3>2. CASE StartRecording(c) \/ Run(c)
        BY <2>1, <2>2, <3>2, CountCloseStep DEF Shared
      <3> QED BY <1>2, <3>1, <3>2, Zenon DEF ClientProceed, PlainProceed
    <2> QED BY <2>2, <2>4, <2>5 DEF Shared
  <1>3. ASSUME NEW c \in Clients, ClientRequest(c)
        PROVE  Rest
    <2>1. (Keeps(c) \/ Idle) /\ c \in Tasks
      BY <1>3, <1>d, ClientRequestKeeps DEF Tasks
    <2>2. Shared /\ (running' => running)
      <3>1. Run(c) => pc[c] = "run"
        BY DEF Run
      <3>2. ~Run(c)
        BY <1>3, <1>d, <3>1, <2>1 DEF ClientRequest, Accept, Hangup, SetParameter, StreamSetup, Attach,
              StreamStart, StreamStop, ExpireOwner, TableRequest, Begin
      <3> QED BY <1>3, <1>d, <3>2, ClientShared
    <2>3. LocalsOK' /\ \A u \in Tasks : Disciplined(u)'
      BY <1>i, <2>1, <2>2, TaskStep, IdleStep DEF Shared
    <2>4. EpochCounted' /\ NoneToReplace'
      BY <1>3, <1>d, <2>1, <2>2, ClientPlain, CountPlainStep DEF Shared
    <2> QED BY <2>2, <2>3, <2>4 DEF Shared
  <1>4. ASSUME NEW t \in Tasks,
               \/ EpochClosed(t)
               \/ t \in Generations /\ Receiver(t)
               \/ t = Heartbeat /\ (HeartbeatAnswered \/ HeartbeatFails)
        PROVE  Rest
    <2>1. Keeps(t) \/ Idle
      BY <1>4, <1>d, OtherKeeps
    <2>2. Shared /\ (running' => running)
      BY <1>4, <1>d, OtherShared
    <2>3. LocalsOK' /\ \A u \in Tasks : Disciplined(u)'
      BY <1>i, <2>1, <2>2, TaskStep, IdleStep DEF Shared
    <2>4. Plain(t) \/ Still
      BY <1>4, <1>d, OtherPlain
    <2>5. EpochCounted' /\ NoneToReplace'
      BY <2>2, <2>4, CountPlainStep DEF Shared
    <2> QED BY <2>2, <2>3, <2>5 DEF Shared
  <1>5. ASSUME Loop
        PROVE  Rest
    <2>1. Shared /\ (running' => running)
      BY <1>5, <1>d, LoopShared
    <2>2. EpochCounted' /\ NoneToReplace'
      BY <1>5, <1>d, CountLoop DEF BrokerInv
    <2>3. LocalsOK' /\ \A u \in Tasks : Disciplined(u)'
      <3>1. CASE LoopInstall
        <4>1. next_generation - 1 \in Tasks /\ Stay(next_generation - 1, "registered")
          BY <1>d, <3>1 DEF LoopInstall, IInv, ReceiversFresh, Tasks, Generations,
                            BrokerAssumption
        <4>2. /\ "registered" \in Labels /\ "registered" # "take"
              /\ "registered" \notin Starting /\ "registered" \notin Writing
              /\ "registered" # "request"
          BY DEF Labels, Starting, Writing
        <4>3. Keeps(next_generation - 1)
          BY <1>d, <4>1, <4>2, StayKeeps
        <4> QED BY <1>i, <2>1, <4>1, <4>3, TaskStep DEF Shared
      <3>2. CASE ~LoopInstall
        <4>1. Idle
          BY <1>5, <3>2 DEF Loop, LoopCheck, LoopWait, LoopNotified, LoopConnect, LoopMetadata,
                            Idle
        <4> QED BY <1>i, <2>1, <4>1, IdleStep DEF Shared
      <3> QED BY <3>1, <3>2
    <2> QED BY <2>1, <2>2, <2>3 DEF Shared
  <1>6. ASSUME Device \/ StorageFails \/ Stopped
        PROVE  Rest
    <2>1. Shared /\ (running' => running)
      BY <1>6, <1>d, OtherShared
    <2>2. Idle /\ Still
      BY <1>6 DEF Device, DeviceSend, PacketLost, DeviceDrop, StorageFails, Stopped, vars,
                  Idle, Still, link, session, recorder, locals
    <2>3. LocalsOK' /\ \A u \in Tasks : Disciplined(u)'
      BY <1>i, <2>1, <2>2, IdleStep DEF Shared
    <2>4. Heartbeat \in Tasks
      BY DEF Tasks
    <2>5. EpochCounted' /\ NoneToReplace'
      BY <2>1, <2>2, <2>4, CountPlainStep DEF Shared
    <2> QED BY <2>1, <2>3, <2>5 DEF Shared
  <1>7. ASSUME UNCHANGED vars
        PROVE  Rest
    <2>1. /\ Idle /\ Still /\ running' = running /\ UNCHANGED epochs
          /\ DataOK' /\ ReceivedCounted' /\ failed \subseteq failed'
      BY <1>7, <1>d DEF vars, Idle, Still, link, session, recorder, locals, world, DataOK,
                        ReceivedCounted
    <2>3. LocalsOK' /\ \A u \in Tasks : Disciplined(u)'
      BY <1>i, <2>1, IdleStep
    <2>4. Heartbeat \in Tasks
      BY DEF Tasks
    <2>5. EpochCounted' /\ NoneToReplace'
      BY <2>1, <2>4, CountPlainStep
    <2> QED BY <2>1, <2>3, <2>5
  <1>8. Rest
    <2> HIDE DEF Rest
    <2>1. Generations \subseteq Tasks /\ Heartbeat \in Tasks
      BY DEF Tasks
    <2> QED BY <1>1, <1>2, <1>3, <1>4, <1>5, <1>6, <1>7, <2>1, Zenon DEF Next
  <1> QED BY <1>i, <1>8 DEF BrokerInv

LEMMA BrokerInit ==
  ASSUME BrokerAssumption, Init
  PROVE  BrokerInv
  <1>1. IInv
    BY InitInv
  <1>2. DataOK
    <2>1. 0 \in 0..MaxGeneration
      BY DEF BrokerAssumption
    <2>2. clients \in [Clients -> {"none", "detached", "attached"}]
      BY DEF Init
    <2> QED BY <2>1, <2>2 DEF Init, DataOK
  <1>3. LocalsOK
    BY DEF Init, LocalsOK, BrokerAssumption
  <1>4. \A t \in Tasks : Disciplined(t)
    BY DEF Init, Disciplined, Holding, Starting, Writing
  <1>5. NoneToReplace
    BY DEF Init, NoneToReplace
  <1>6. Moving = {}
    BY DEF Init, Moving
  <1>7. EpochCounted
    <2>1. IsFiniteSet(Moving) /\ Cardinality(Moving) = 0
      BY <1>6, FS_EmptySet
    <2>2. Connecting = 0
      BY <2>1 DEF Init, Connecting, One
    <2>3. \A t \in Tasks : pc[t] \in {"idle", "off"} /\ next_epoch[t] = 0
      BY DEF Init
    <2> QED BY <2>1, <2>2, <2>3 DEF Init, EpochCounted
  <1>8. ReceivedCounted
    BY DEF Init, ReceivedCounted, BrokerAssumption
  <1> QED BY <1>1, <1>2, <1>3, <1>4, <1>5, <1>7, <1>8 DEF BrokerInv

LEMMA BrokerInvariance == Spec => []BrokerInv
  <1>1. Init => BrokerInv
    BY BrokerInit, BrokerAssumption
  <1>2. BrokerInv /\ [Next]_vars => BrokerInv'
    BY BrokerStep, BrokerAssumption
  <1> QED BY <1>1, <1>2, PTL DEF Spec

-----------------------------------------------------------------------------
(* Theorems.                                                               *)

(* The recorder and the session agree on every path: at most one task owes *)
(* the recorder a Stop or the session its start, and an open recording     *)
(* always belongs to a session or to that task.                            *)
THEOREM SessionsRecorded == Spec => []RecordingFollowsSession
  <1>1. IInv => RecordingFollowsSession
    BY DEF IInv
  <1> QED BY <1>1, Invariant, PTL

(* The reconnection loop never waits without a connection unless a         *)
(* wake-up is stored or on its way from the task that took it.             *)
THEOREM WakeupsKept == Spec => []NoLostWakeup
  <1>1. IInv => NoLostWakeup
    BY DEF IInv
  <1> QED BY <1>1, Invariant, PTL

(* Every variable of the broker keeps its type; the epoch moves on at most *)
(* once per connection, and a session counts no more records than there    *)
(* is room for.                                                            *)
THEOREM BrokerTypeCorrect == Spec => []TypeOK
  <1>1. ASSUME BrokerInv
        PROVE  TypeOK
    <2>1. epoch \in 0..MaxGeneration /\ next_epoch \in [Tasks -> 0..MaxGeneration]
      BY <1>1, EpochBound, BrokerAssumption DEF BrokerInv, IInv
    <2>3. /\ next_generation \in 1..(MaxGeneration + 1)
          /\ reconnect \in BOOLEAN /\ running \in BOOLEAN /\ recording \in BOOLEAN
          /\ pc \in [Tasks -> Labels] /\ was_running \in [Tasks -> BOOLEAN]
      BY <1>1 DEF BrokerInv, IInv, ControlOK, ReceiversFresh
    <2> QED BY <1>1, <2>1, <2>3 DEF BrokerInv, DataOK, LocalsOK, ReceivedCounted, TypeOK
  <1> QED BY <1>1, BrokerInvariance, PTL

(* No step changes the configuration of a running session: the set-up that *)
(* writes one back holds stream_operations, and so does whoever marks a    *)
(* session running.                                                        *)
THEOREM ConfigurationStays == Spec => SessionConfigStable
  <1>1. ASSUME BrokerInv, [Next]_vars
        PROVE  running /\ running' => configuration' = configuration
    <2>1. \A t \in Tasks : Disciplined(t)
      BY <1>1 DEF BrokerInv
    <2>2. configuration' = configuration \/ (\E t \in Tasks : Reset(t))
          \/ (\E c \in Clients : WriteConfiguration(c))
      BY <1>1, ConfigurationWriters
    <2>3. ASSUME NEW t \in Tasks, Reset(t)
          PROVE  running' = FALSE
      BY <2>3 DEF Reset
    <2>4. ASSUME NEW c \in Clients, WriteConfiguration(c)
          PROVE  ~running
      BY <2>1, <2>4 DEF WriteConfiguration, Disciplined, Writing, Tasks
    <2> QED BY <2>2, <2>3, <2>4
  <1>2. BrokerInv /\ [Next]_vars
           => [running /\ running' => configuration' = configuration]_vars
    BY <1>1
  <1> QED BY <1>2, BrokerInvariance, PTL DEF Spec, SessionConfigStable

(* A connection is dropped only after it has itself failed, been rebooted  *)
(* or been given up: whoever is about to take one has seen it fail, and a  *)
(* new one is installed only where there is none.                          *)
THEOREM DropsHaveCause == Spec => DroppedForCause
  <1>1. ASSUME BrokerInv, [Next]_vars
        PROVE  upstream # 0 /\ upstream' # upstream => upstream \in failed
    <2>1. \A t \in Tasks : Disciplined(t)
      BY <1>1 DEF BrokerInv
    <2>2. upstream' = upstream \/ (\E t \in Tasks : Take(t)) \/ LoopInstall
      BY <1>1, ConnectionWriters
    <2>3. ASSUME NEW t \in Tasks, Take(t), upstream' # upstream
          PROVE  upstream \in failed
      BY <2>1, <2>3 DEF Take, Takes, Disciplined
    <2>4. ASSUME LoopInstall
          PROVE  upstream = 0
      BY <1>1, <2>4 DEF LoopInstall, BrokerInv, NoneToReplace
    <2> QED BY <2>2, <2>3, <2>4
  <1>2. BrokerInv /\ [Next]_vars
           => [upstream # 0 /\ upstream' # upstream => upstream \in failed]_vars
    BY <1>1
  <1> QED BY <1>2, BrokerInvariance, PTL DEF Spec, DroppedForCause

=============================================================================
