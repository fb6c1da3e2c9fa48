------------------------- MODULE CommandPath_proofs -------------------------
(***************************************************************************)
(* Proofs about CommandPath for every number of buffers and parameters,    *)
(* every table and coefficient width, queue capacity and drain limit.      *)
(***************************************************************************)
EXTENDS CommandPath, TLAPS, SequenceTheorems

(* Control facts the type invariant rests on: which request is being       *)
(* handled at each location of core 0, and how far it has written.         *)
Control ==
    /\ pc0 = "seal" => req \in CommitRequests
    /\ pc0 = "write" => req \in CoeffRequests \cup BlockRequests
    /\ pc0 = "write" => at <= Len(req.words)
    /\ pc0 \in {"idle", "pick"} => at = 0
    /\ pc0 \in {"commit", "bank", "publish"} =>
         req \in CoeffRequests \cup CommitRequests
    /\ pc0 \in HoldingToken /\ cmd0.target \in Coeffs =>
         req \in CoeffRequests /\ req.buf = cmd0.target
    /\ pc0 = "cancel" => cmd0.target \in Buffers

TypeInv == TypeOK /\ Control

-----------------------------------------------------------------------------

LEMMA FunctionIsSeq ==
    ASSUME NEW S, NEW n \in Nat, NEW f \in [1..n -> S]
    PROVE  f \in Seq(S) /\ Len(f) = n
BY SMT

(* A request's words are a sequence of values that fit the buffer.         *)
LEMMA RequestWords ==
    ASSUME NEW r \in CoeffRequests \cup BlockRequests
    PROVE  /\ r.buf \in Buffers
           /\ r.words \in Seq(Values)
           /\ r.offset \in Nat
           /\ Len(r.words) <= CoeffLen + N
           /\ \A i \in 1..Len(r.words) : r.offset + (i - 1) \in Words(r.buf)
<1> USE SizesAssumption
<1>1. CASE r \in CoeffRequests
  <2>1. r.words \in [1..CoeffLen -> Values] /\ r.offset = 0 /\ r.buf \in Coeffs
    BY <1>1 DEF CoeffRequests, Values
  <2>2. r.words \in Seq(Values) /\ Len(r.words) = CoeffLen
    BY <2>1, FunctionIsSeq
  <2> QED
    BY <2>1, <2>2, TargetsDisjoint DEF Buffers, Words
<1>2. CASE r \in BlockRequests
  <2>1. PICK k \in 0..MaxBlock : r.words \in [1..k -> Values]
    BY <1>2 DEF BlockRequests, BoundedSeq
  <2>2. r.words \in Seq(Values) /\ Len(r.words) = k
    BY <2>1, FunctionIsSeq
  <2>3. r.offset \in 0..N /\ r.buf \in Tables /\ r.offset + Len(r.words) <= N
    BY <1>2 DEF BlockRequests
  <2> QED
    BY <2>2, <2>3 DEF Buffers, Words
<1> QED BY <1>1, <1>2

LEMMA RequestBuffer ==
    ASSUME NEW r \in Requests
    PROVE  r.buf \in Buffers
BY DEF Requests, CoeffRequests, BlockRequests, CommitRequests, Buffers

LEMMA OtherBank ==
    ASSUME NEW k \in Banks
    PROVE  1 - k \in Banks /\ 1 - k # k /\ k + 1 \in 0..2 /\ (1 - k) + 1 \in 0..2
BY DEF Banks

LEMMA CommandPayload ==
    ASSUME NEW c \in Commands
    PROVE  /\ c.target \in Targets
           /\ c.target \in Buffers => c.payload \in Tokens
           /\ c.target \in Scalars => c.payload \in Values
BY TargetsDisjoint DEF Commands, Targets

LEMMA InitTypeInv == Init => TypeInv
<1> SUFFICES ASSUME Init PROVE TypeInv
  OBVIOUS
<1> USE SizesAssumption, ValuesAssumption, SettingsAssumption DEF Init
<1>1. \A b \in Buffers : banks[b] \in [Banks -> [Words(b) -> Values]]
  BY DEF Values
<1>2. /\ DOMAIN shadow = Coeffs \cup Scalars
      /\ \A c \in Coeffs : shadow[c] \in [Words(c) -> Finite]
      /\ \A p \in Scalars : shadow[p] \in Settings
  BY TargetsDisjoint DEF Buffers
<1>3. /\ queue \in Seq(Commands) /\ Len(queue) <= QueueCap
      /\ scalar \in [Scalars -> Values]
  OBVIOUS
<1>4. reboot_requested \in BOOLEAN
  OBVIOUS
<1> QED
  BY <1>1, <1>2, <1>3, <1>4
  DEF TypeInv, TypeOK, Control, Banks, NO_PENDING, HoldingToken, Staging, Activating


(* Answer leaves core 0 idle with its locals reset.                        *)
LEMMA AnswerTypes ==
    ASSUME Answer
    PROVE  /\ pc0' = "idle" /\ bank0' \in Banks /\ at' = 0
           /\ at' \in 0..(CoeffLen + N)
           /\ set0' \in Settings
BY SizesAssumption, SettingsAssumption DEF Answer, Banks

LEMMA NextTypeInv == TypeInv /\ [Next]_vars => TypeInv'
<1> SUFFICES ASSUME TypeInv, [Next]_vars PROVE TypeInv'
  OBVIOUS
<1> USE SizesAssumption, ValuesAssumption, SettingsAssumption
<1> USE DEF TypeInv, TypeOK, Staging, HoldingToken, Activating, Free, Inactive, Room
<1>1. ASSUME NEW p \in Scalars, NEW v \in Settings, StageScalar(p, v)
      PROVE  TypeInv'
  <2>1. cmd0' \in Commands /\ cmd0'.target = p
    BY <1>1 DEF StageScalar, Commands
  <2>2. p \notin Coeffs
    BY TargetsDisjoint DEF Buffers
  <2> QED
    BY <1>1, <2>1, <2>2 DEF StageScalar, Control, shared, core1
<1>2. ASSUME NEW r \in Requests, BufferLoadPending(r)
      PROVE  TypeInv'
  BY <1>2, AnswerTypes DEF BufferLoadPending, Control, shared, core1
<1>3. CASE BufferLoadActive
  <2>1. bank0' \in Banks
    <3>1. req.buf \in Buffers
      BY <1>3, RequestBuffer DEF BufferLoadActive
    <3> QED
      BY <1>3, <3>1, OtherBank DEF BufferLoadActive
  <2>2. /\ pc0' = "seal" => req \in CommitRequests
        /\ pc0' = "write" => req \in CoeffRequests \cup BlockRequests
    BY <1>3 DEF BufferLoadActive, Requests, CoeffRequests, BlockRequests, CommitRequests
  <2>3. pc0' = "write" => at' <= Len(req.words)
    BY <1>3, <2>2, RequestWords, LenProperties DEF BufferLoadActive, Control
  <2> QED
    BY <1>3, <2>1, <2>2, <2>3 DEF BufferLoadActive, Control, shared, core1
<1>4. CASE WriteWord
  <2>1. req \in CoeffRequests \cup BlockRequests /\ at \in Nat
    BY <1>4 DEF WriteWord, Control
  <2>2. at + 1 \in 1..Len(req.words) /\ req.words[at + 1] \in Values
    BY <1>4, <2>1, RequestWords, LenProperties DEF WriteWord
  <2>3. DOMAIN banks' = Buffers /\ \A b \in Buffers : banks'[b] \in [Banks -> [Words(b) -> Values]]
    BY <1>4, <2>1, <2>2, RequestWords DEF WriteWord
  <2>4. at' \in 0..(CoeffLen + N) /\ at' <= Len(req.words)
    BY <1>4, <2>1, <2>2, RequestWords DEF WriteWord
  <2> QED
    BY <1>4, <2>3, <2>4 DEF WriteWord, Control, core1
<1>5. CASE WriteDone
  <2>1. pc0' = "commit" => req \in CoeffRequests
    BY <1>5 DEF WriteDone, Answer, Control, CoeffRequests, BlockRequests
  <2> QED
    BY <1>5, <2>1, AnswerTypes DEF WriteDone, Control, shared, core1
<1>6. CASE Seal
  <2>1. req \in CommitRequests /\ req.buf \in Tables /\ req.len \in 0..N
    BY <1>6 DEF Seal, Control, CommitRequests
  <2>2. length' \in [Tables -> [Banks -> 0..N]]
    <3>1. CASE length' = [length EXCEPT ![req.buf][bank0] = req.len]
      BY <2>1, <3>1
    <3>2. CASE length' = length
      BY <3>2
    <3> QED
      BY <1>6, <3>1, <3>2 DEF Seal
  <2> QED
    BY <1>6, <2>1, <2>2, AnswerTypes DEF Seal, Control, core1
<1>7. CASE CommitLoadPending
  BY <1>7, AnswerTypes DEF CommitLoadPending, Control, shared, core1
<1>8. CASE CommitLoadActive
  <2>1. bank0' \in Banks
    <3>1. req.buf \in Buffers
      BY <1>8, RequestBuffer DEF CommitLoadActive
    <3> QED
      BY <1>8, <3>1, OtherBank DEF CommitLoadActive
  <2> QED
    BY <1>8, <2>1 DEF CommitLoadActive, Control, shared, core1
<1>9. CASE Publish
  <2>1. req.buf \in Buffers
    BY <1>9 DEF Publish, Control, CoeffRequests, CommitRequests, Buffers
  <2>2. req.buf \in Coeffs => req \in CoeffRequests
    BY <1>9, TargetsDisjoint DEF Publish, Control, CommitRequests
  <2>3. cmd0' \in Commands /\ cmd0'.target = req.buf
    BY <1>9, <2>1 DEF Publish, Commands, Tokens
  <2>4. pending' \in [Buffers -> 0..2]
    BY <1>9, <2>1 DEF Publish, Banks
  <2> QED
    BY <1>9, <2>2, <2>3, <2>4 DEF Publish, Control, core1
<1>10. CASE Enqueue
  <2>1. CASE Len(queue) < QueueCap
    <3>1. queue' \in Seq(Commands) /\ Len(queue') <= QueueCap
      <4>1. queue' = Append(queue, cmd0) /\ cmd0 \in Commands /\ queue \in Seq(Commands)
        BY <1>10, <2>1 DEF Enqueue
      <4> QED
        BY <2>1, <4>1, AppendProperties, LenProperties
    <3>2. \A c \in Coeffs : c = cmd0.target =>
             [w \in Words(c) |-> req.words[w + 1]] \in [Words(c) -> Finite]
      <4> SUFFICES ASSUME NEW c \in Coeffs, c = cmd0.target
                   PROVE  [w \in Words(c) |-> req.words[w + 1]] \in [Words(c) -> Finite]
        OBVIOUS
      <4>1. req.words \in [1..CoeffLen -> Finite]
        BY <1>10 DEF Enqueue, Control, CoeffRequests
      <4>2. Words(c) = 0..(CoeffLen - 1)
        BY TargetsDisjoint DEF Words
      <4> QED
        BY <4>1, <4>2
    <3>3. /\ DOMAIN shadow' = Coeffs \cup Scalars
          /\ \A c \in Coeffs : shadow'[c] \in [Words(c) -> Finite]
          /\ \A p \in Scalars : shadow'[p] \in Settings
      <4>1. DOMAIN shadow' = Coeffs \cup Scalars
        BY <1>10, <2>1 DEF Enqueue, Accept
      <4>2. Coeffs \cap Scalars = {}
        BY TargetsDisjoint DEF Buffers
      <4>3. \A x \in Coeffs \cup Scalars :
               shadow'[x] = IF x # cmd0.target THEN shadow[x]
                            ELSE IF x \in Scalars THEN set0
                            ELSE [w \in Words(x) |-> req.words[w + 1]]
        BY <1>10, <2>1 DEF Enqueue, Accept
      <4> QED
        BY <3>2, <4>1, <4>2, <4>3
    <3> QED
      BY <1>10, <2>1, <3>1, <3>3, AnswerTypes DEF Enqueue, Control, core1
  <2>2. CASE ~(Len(queue) < QueueCap)
    BY <1>10, <2>2, AnswerTypes DEF Enqueue, Control, core1
  <2> QED BY <2>1, <2>2
<1>11. CASE Cancel
  <2>1. pending' \in [Buffers -> 0..2]
    <3>1. pending' = pending \/ pending' = [pending EXCEPT ![cmd0.target] = 0]
      BY <1>11 DEF Cancel, NO_PENDING
    <3>2. cmd0.target \in Buffers
      BY <1>11 DEF Cancel, Control
    <3>3. CASE pending' = [pending EXCEPT ![cmd0.target] = 0]
      BY <3>2, <3>3
    <3> QED
      BY <3>1, <3>3
  <2> QED
    BY <1>11, <2>1, AnswerTypes DEF Cancel, Control, core1
<1>12. CASE ResetDiagnostics
  BY <1>12 DEF ResetDiagnostics, Control, core0, core1
<1>13. CASE TickStart
  BY <1>13 DEF TickStart, Control, shared, core0
<1>14. CASE Dequeue
  <2>1. Head(queue) \in Commands /\ Tail(queue) \in Seq(Commands)
        /\ Len(Tail(queue)) = Len(queue) - 1
    BY <1>14, HeadTailProperties DEF Dequeue
  <2>2. Head(queue).target \notin Scalars => Head(queue).target \in Buffers
    BY <2>1, CommandPayload DEF Targets
  <2>3. scalar' \in [Scalars -> Values]
    BY <1>14, <2>1, CommandPayload DEF Dequeue
  <2>4. Len(queue) \in Nat /\ applied' \in 0..CommandsPerTick
    BY <1>14, LenProperties DEF Dequeue
  <2>5. queue' \in Seq(Commands) /\ Len(queue') <= QueueCap
    BY <1>14, <2>1, <2>4 DEF Dequeue
  <2> QED
    BY <1>14, <2>1, <2>2, <2>3, <2>4, <2>5 DEF Dequeue, Control, core0
<1>15. CASE ActivateLoad
  BY <1>15 DEF ActivateLoad, AfterActivate, Control, shared, core0
<1>16. CASE ActivateSwap
  <2>1. cmd1.target \in Buffers /\ cmd1.payload.bank \in Banks
    BY <1>16, CommandPayload DEF ActivateSwap, Tokens
  <2> QED
    BY <1>16, <2>1 DEF ActivateSwap, Control, core0
<1>17. CASE ActivateClear
  BY <1>17 DEF ActivateClear, AfterActivate, NO_PENDING, Control, core0
<1>18. CASE PublishLength
  <2>1. length[cmd1.target][current[cmd1.target]] \in 0..N
    BY <1>18 DEF PublishLength, Buffers
  <2> QED
    BY <1>18, <2>1 DEF PublishLength, Control, core0
<1>19. CASE DrainEnd
  BY <1>19 DEF DrainEnd, Control, shared, core0
<1>20. CASE Account
  <2>1. Len(queue) \in Nat
    BY LenProperties
  <2> QED
    BY <1>20, <2>1 DEF Account, Backlog, Control, core0
<1>21. CASE Step
  BY <1>21 DEF Step, Control, shared, core0
<1>22. CASE UNCHANGED vars
  BY <1>22 DEF vars, Control, shared, core0, core1
<1>23. CASE RequestReboot
  <2>1. reboot_requested' \in BOOLEAN
    BY <1>23 DEF RequestReboot
  <2> QED
    BY <1>23, <2>1 DEF RequestReboot, Control, core0, core1
<1> QED
  BY <1>1, <1>2, <1>3, <1>4, <1>5, <1>6, <1>7, <1>8, <1>9, <1>10, <1>11, <1>12,
     <1>13, <1>14, <1>15, <1>16, <1>17, <1>18, <1>19, <1>20, <1>21, <1>22, <1>23
  DEF Next, Core0, HandleRequest, Core1

(* The type invariant: every value the two cores exchange stays in the     *)
(* range its Rust type and the store's checks give it.                     *)
THEOREM TypeCorrect == Spec => []TypeOK
<1>1. Init => TypeInv BY InitTypeInv
<1>2. TypeInv /\ [Next]_vars => TypeInv' BY NextTypeInv
<1>3. TypeInv => TypeOK BY DEF TypeInv
<1> QED BY <1>1, <1>2, <1>3, PTL DEF Spec

-----------------------------------------------------------------------------
(* The double-buffer protocol.                                             *)

(* Core 1's cached bank is the published one; core 0 works on a buffer     *)
(* only while nothing is pending there, and on the other bank; a pending   *)
(* bank is the inactive one until the very step in which core 1 has        *)
(* swapped and not yet cleared.                                            *)
BankDiscipline ==
    /\ active = current
    /\ pc0 \in Staging => pending[req.buf] = NO_PENDING
    /\ pc0 \in Borrowing => bank0 = 1 - current[req.buf]
    /\ \A b \in Buffers : pending[b] # NO_PENDING =>
         pending[b] - 1 = IF pc1 = "clear" /\ cmd1.target = b
                            THEN current[b] ELSE 1 - current[b]

Protocol == TypeInv /\ TokenLinear /\ BankDiscipline

(* Steps that move no token and change no atomic preserve TokenLinear.     *)
LEMMA TokensUnmoved ==
    ASSUME TokenLinear,
           UNCHANGED <<pending, queue>>,
           \/ UNCHANGED <<pc0, cmd0>>
           \/ /\ pc0 \notin HoldingToken \/ cmd0.target \notin Buffers
              /\ pc0' \notin HoldingToken \/ cmd0'.target \notin Buffers,
           \/ UNCHANGED <<pc1, cmd1>>
           \/ pc1 \in Activating /\ pc1' \in Activating /\ UNCHANGED cmd1
           \/ pc1 \notin Activating /\ pc1' \notin Activating
    PROVE  TokenLinear'
<1> SUFFICES ASSUME NEW b \in Buffers
             PROVE  /\ (pending[b] # NO_PENDING)' <=> \E i \in Places' : Carries(b, i)'
                    /\ \A i, j \in Places' : Carries(b, i)' /\ Carries(b, j)' => i = j
                    /\ \A i \in Places' : Carries(b, i)' =>
                         Carried(i)'.payload = [owner |-> b, bank |-> pending'[b] - 1]
  BY DEF TokenLinear
<1>1. Places' = Places
  BY DEF Places
<1>2. \A i \in Places : Carries(b, i)' <=> Carries(b, i)
  BY DEF Carries
<1>3. \A i \in Places : Carries(b, i) => Carried(i)' = Carried(i)
  BY DEF Carries, Carried, Places
<1> QED
  BY <1>1, <1>2, <1>3 DEF TokenLinear


LEMMA InitProtocol == Init => Protocol
<1> SUFFICES ASSUME Init PROVE Protocol
  OBVIOUS
<1>1. TypeInv
  BY InitTypeInv
<1>2. TokenLinear
  BY DEF Init, TokenLinear, Carries, Places, HoldingToken, Activating
<1>3. BankDiscipline
  BY DEF Init, BankDiscipline, Staging, Borrowing
<1> QED BY <1>1, <1>2, <1>3 DEF Protocol

(* A token in one place is the only one of its buffer, and the buffer's    *)
(* pending atomic names its bank.                                          *)
LEMMA TokenAt ==
    ASSUME TokenLinear, NEW b \in Buffers, NEW i \in Places, Carries(b, i)
    PROVE  /\ pending[b] # NO_PENDING
           /\ Carried(i).payload = [owner |-> b, bank |-> pending[b] - 1]
           /\ \A j \in Places : Carries(b, j) => j = i
BY DEF TokenLinear

(* Core 1's place and core 0's place always exist.                         *)
LEMMA EndPlaces ==
    ASSUME TypeInv
    PROVE  0 \in Places /\ Len(queue) + 1 \in Places /\ Len(queue) \in Nat
BY LenProperties DEF Places, TypeInv, TypeOK

(* While core 0 stages a value, no token of its buffer exists.             *)
LEMMA StagingHasNoToken ==
    ASSUME Protocol, pc0 \in Staging
    PROVE  /\ req.buf \in Buffers
           /\ pending[req.buf] = NO_PENDING
           /\ \A i \in Places : ~Carries(req.buf, i)
<1>1. req.buf \in Buffers
  BY RequestBuffer DEF Protocol, TypeInv, TypeOK
<1> QED
  BY <1>1 DEF Protocol, BankDiscipline, TokenLinear

(* Core 1's token is never stale: activation is never ignored.             *)
LEMMA TokenInHand ==
    ASSUME Protocol, pc1 \in Activating
    PROVE  /\ cmd1.target \in Buffers
           /\ pending[cmd1.target] # NO_PENDING
           /\ cmd1.payload = [owner |-> cmd1.target, bank |-> pending[cmd1.target] - 1]
<1>1. cmd1.target \in Buffers
  BY DEF Protocol, TypeInv, TypeOK
<1>2. Carries(cmd1.target, 0) /\ 0 \in Places
  BY EndPlaces DEF Carries, Protocol
<1> QED
  BY <1>1, <1>2, TokenAt DEF Protocol, Carried

LEMMA PublishTokens == Protocol /\ Publish => TokenLinear'
<1> SUFFICES ASSUME Protocol, Publish PROVE TokenLinear'
  OBVIOUS
<1>1. pc0 \in Staging /\ pc0 \notin HoldingToken /\ pc0' \in HoldingToken
  BY DEF Publish, Staging, HoldingToken
<1>2. /\ req.buf \in Buffers
      /\ \A i \in Places : ~Carries(req.buf, i)
  BY <1>1, StagingHasNoToken
<1>3. Places' = Places /\ 0 \in Places /\ Len(queue) + 1 \in Places /\ Len(queue) \in Nat
  BY EndPlaces DEF Protocol, Publish, Places
<1>4. /\ cmd0' = [target |-> req.buf, payload |-> [owner |-> req.buf, bank |-> bank0]]
      /\ queue' = queue /\ UNCHANGED <<pc1, cmd1>>
  BY DEF Publish, core1
<1>5. pending'[req.buf] = bank0 + 1 /\ bank0 + 1 # NO_PENDING /\ bank0 \in Int
  BY <1>2 DEF Publish, Protocol, TypeInv, TypeOK, Banks, NO_PENDING
<1>6. \A b \in Buffers : b # req.buf => pending'[b] = pending[b]
  BY DEF Publish, Protocol, TypeInv, TypeOK
<1>7. \A b \in Buffers, i \in Places :
         Carries(b, i)' <=> (Carries(b, i) \/ (b = req.buf /\ i = Len(queue) + 1))
  BY <1>1, <1>3, <1>4 DEF Carries
<1>8. \A b \in Buffers, i \in Places : Carries(b, i) => Carried(i)' = Carried(i)
  BY <1>1, <1>3, <1>4 DEF Carries, Carried
<1>9. Carried(Len(queue) + 1)' = cmd0'
  BY <1>3, <1>4 DEF Carried
<1> SUFFICES ASSUME NEW b \in Buffers
             PROVE  /\ (pending[b] # NO_PENDING)' <=> \E i \in Places' : Carries(b, i)'
                    /\ \A i, j \in Places' : Carries(b, i)' /\ Carries(b, j)' => i = j
                    /\ \A i \in Places' : Carries(b, i)' =>
                         Carried(i)'.payload = [owner |-> b, bank |-> pending'[b] - 1]
  BY DEF TokenLinear
<1>10. CASE b = req.buf
  <2>1. \A i \in Places' : Carries(b, i)' <=> i = Len(queue) + 1
    BY <1>2, <1>3, <1>7, <1>10
  <2>2. Carried(Len(queue) + 1)'.payload = [owner |-> b, bank |-> pending'[b] - 1]
    <3>1. cmd0'.payload = [owner |-> b, bank |-> bank0]
      BY <1>4, <1>10
    <3>2. pending'[b] - 1 = bank0
      BY <1>5, <1>10
    <3> QED
      BY <1>9, <3>1, <3>2
  <2>3. \A i \in Places' : i = Len(queue) + 1 =>
           Carried(i)'.payload = [owner |-> b, bank |-> pending'[b] - 1]
    BY <1>4, <2>2
  <2> QED
    BY <1>3, <1>5, <1>10, <2>1, <2>3
<1>11. CASE b # req.buf
  BY <1>3, <1>6, <1>7, <1>8, <1>11 DEF Protocol, TokenLinear
<1> QED BY <1>10, <1>11

LEMMA EnqueueTokens == Protocol /\ Enqueue => TokenLinear'
<1> SUFFICES ASSUME Protocol, Enqueue PROVE TokenLinear'
  OBVIOUS
<1> USE DEF Room
<1>1. CASE Len(queue) < QueueCap
  <2>1. /\ Len(queue) \in Nat /\ Len(queue') = Len(queue) + 1
        /\ \A i \in 1..Len(queue) : queue'[i] = queue[i]
        /\ queue'[Len(queue) + 1] = cmd0
    <3>1. queue' = Append(queue, cmd0) /\ cmd0 \in Commands /\ queue \in Seq(Commands)
      BY <1>1 DEF Enqueue, Protocol, TypeInv, TypeOK, HoldingToken
    <3> QED
      BY <3>1, AppendProperties, LenProperties
  <2>2. /\ pc0 \in HoldingToken /\ pc0' \notin HoldingToken
        /\ UNCHANGED <<pending, pc1, cmd1>>
    BY <1>1 DEF Enqueue, Answer, HoldingToken, core1
  <2>3. \A b \in Buffers : \A i \in Places' :
           Carries(b, i)' <=> i \in Places /\ Carries(b, i)
    BY <2>1, <2>2 DEF Carries, Places
  <2>4. Places \subseteq Places'
    BY <2>1 DEF Places
  <2>5. \A i \in Places : Carried(i)' = Carried(i)
    BY <2>1, <2>2 DEF Carried, Places
  <2> QED
    BY <2>2, <2>3, <2>4, <2>5 DEF Protocol, TokenLinear
<1>2. CASE ~(Len(queue) < QueueCap)
  <2>1. CASE cmd0.target \in Buffers
    <3>1. /\ pc0 \in HoldingToken /\ pc0' \in HoldingToken
          /\ UNCHANGED <<pending, queue, pc1, cmd1, cmd0>>
      BY <1>2, <2>1 DEF Enqueue, HoldingToken, core1
    <3>2. Places' = Places /\ \A b, i : Carries(b, i)' <=> Carries(b, i)
      BY <3>1 DEF Places, Carries
    <3>3. \A i : Carried(i)' = Carried(i)
      BY <3>1 DEF Carried
    <3> QED
      BY <3>1, <3>2, <3>3 DEF Protocol, TokenLinear
  <2>2. CASE cmd0.target \notin Buffers
    <3>1. /\ pc0' \notin HoldingToken
          /\ UNCHANGED <<pending, queue, pc1, cmd1>>
      BY <1>2, <2>2 DEF Enqueue, Answer, HoldingToken, core1
    <3> QED
      BY <2>2, <3>1, TokensUnmoved DEF Protocol
  <2> QED BY <2>1, <2>2
<1> QED BY <1>1, <1>2


LEMMA CancelTokens == Protocol /\ Cancel => TokenLinear'
<1> SUFFICES ASSUME Protocol, Cancel PROVE TokenLinear'
  OBVIOUS
<1>1. /\ cmd0.target \in Buffers
      /\ Len(queue) + 1 \in Places
      /\ Carries(cmd0.target, Len(queue) + 1)
  BY EndPlaces DEF Cancel, Protocol, TypeInv, Control, Carries, HoldingToken
<1>2. /\ Carried(Len(queue) + 1) = cmd0
      /\ cmd0.payload = [owner |-> cmd0.target, bank |-> pending[cmd0.target] - 1]
      /\ \A j \in Places : Carries(cmd0.target, j) => j = Len(queue) + 1
  BY <1>1, TokenAt, EndPlaces DEF Protocol, Carried
<1>3. pending' = [pending EXCEPT ![cmd0.target] = NO_PENDING]
  BY <1>2 DEF Cancel
<1>4. /\ Places' = Places /\ queue' = queue /\ UNCHANGED <<pc1, cmd1>>
      /\ pc0' \notin HoldingToken /\ Len(queue) \in Nat
  BY EndPlaces DEF Cancel, Answer, HoldingToken, Places, core1, Protocol
<1>5. \A b \in Buffers, i \in Places :
         Carries(b, i)' <=> Carries(b, i) /\ i # Len(queue) + 1
  BY <1>4 DEF Carries
<1>6. \A b \in Buffers, i \in Places : b # cmd0.target =>
         (Carries(b, i)' <=> Carries(b, i))
  BY <1>4 DEF Carries
<1>7. \A i \in Places : i # Len(queue) + 1 => Carried(i)' = Carried(i)
  BY <1>4 DEF Carried, Places
<1> SUFFICES ASSUME NEW b \in Buffers
             PROVE  /\ (pending[b] # NO_PENDING)' <=> \E i \in Places' : Carries(b, i)'
                    /\ \A i, j \in Places' : Carries(b, i)' /\ Carries(b, j)' => i = j
                    /\ \A i \in Places' : Carries(b, i)' =>
                         Carried(i)'.payload = [owner |-> b, bank |-> pending'[b] - 1]
  BY DEF TokenLinear
<1>8. CASE b = cmd0.target
  <2>1. pending'[b] = NO_PENDING
    BY <1>3, <1>8 DEF Protocol, TypeInv, TypeOK
  <2>2. \A i \in Places' : ~Carries(b, i)'
    BY <1>2, <1>4, <1>5, <1>8
  <2> QED
    BY <2>1, <2>2
<1>9. CASE b # cmd0.target
  <2>1. pending'[b] = pending[b]
    BY <1>3, <1>9 DEF Protocol, TypeInv, TypeOK
  <2> QED
    BY <1>4, <1>5, <1>6, <1>7, <1>9, <2>1 DEF Protocol, TokenLinear
<1> QED BY <1>8, <1>9

(* A dequeued token moves from the first slot to core 1's hand; the other  *)
(* slots move up by one.                                                   *)
LEMMA DequeueTokens == Protocol /\ Dequeue => TokenLinear'
<1> SUFFICES ASSUME Protocol, Dequeue PROVE TokenLinear'
  OBVIOUS
<1>1. /\ queue # <<>> /\ queue' = Tail(queue) /\ queue \in Seq(Commands)
      /\ pc1 = "drain" /\ UNCHANGED <<pending, pc0, cmd0>>
  BY DEF Dequeue, Protocol, TypeInv, TypeOK, core0
<1>2. /\ Len(queue) \in Nat \ {0} /\ Len(queue') = Len(queue) - 1
      /\ \A i \in 1..Len(queue') : queue'[i] = queue[i + 1]
      /\ Head(queue) = queue[1] /\ Head(queue) \in Commands
  BY <1>1, HeadTailProperties, EmptySeq, LenProperties
<1>3. CASE Head(queue).target \in Scalars
  <2>1. UNCHANGED <<pc1, cmd1>>
    BY <1>3 DEF Dequeue
  <2>2. queue[1].target \notin Buffers
    BY <1>2, <1>3, TargetsDisjoint
  <2>3. \A b \in Buffers : ~Carries(b, 0)' /\ ~Carries(b, 0) /\ ~Carries(b, 1)
    BY <1>1, <1>2, <2>1, <2>2 DEF Carries, Activating
  <2>4. \A b \in Buffers : \A i \in Places' : i # 0 =>
           (Carries(b, i)' <=> Carries(b, i + 1))
    <3> SUFFICES ASSUME NEW b \in Buffers, NEW i \in Places', i # 0
                 PROVE  Carries(b, i)' <=> Carries(b, i + 1)
      OBVIOUS
    <3>1. CASE i \in 1..Len(queue')
      <4>1. /\ i # 0 /\ i # Len(queue') + 1 /\ i + 1 # 0
            /\ i + 1 # Len(queue) + 1 /\ i + 1 \in 1..Len(queue)
            /\ queue'[i] = queue[i + 1]
        BY <1>2, <3>1
      <4> QED
        BY <3>1, <4>1 DEF Carries
    <3>2. CASE i = Len(queue') + 1
      <4>1. /\ i # 0 /\ i \notin 1..Len(queue') /\ i + 1 # 0
            /\ i + 1 = Len(queue) + 1 /\ i + 1 \notin 1..Len(queue)
        BY <1>2, <3>2
      <4> QED
        BY <1>1, <3>2, <4>1 DEF Carries
    <3> QED
      BY <1>2, <3>1, <3>2 DEF Places
  <2>5. \A i \in Places' : i # 0 => i + 1 \in Places /\ Carried(i)' = Carried(i + 1)
    BY <1>1, <1>2 DEF Carried, Places
  <2>6. \A i \in Places : i # 0 /\ i # 1 => i - 1 \in Places' /\ (i - 1) + 1 = i /\ i - 1 # 0
    BY <1>2 DEF Places
  <2>7. Places \subseteq Nat /\ Places' \subseteq Nat
    BY <1>2 DEF Places
  <2> SUFFICES ASSUME NEW b \in Buffers
               PROVE  /\ (pending[b] # NO_PENDING)' <=> \E i \in Places' : Carries(b, i)'
                      /\ \A i, j \in Places' : Carries(b, i)' /\ Carries(b, j)' => i = j
                      /\ \A i \in Places' : Carries(b, i)' =>
                           Carried(i)'.payload = [owner |-> b, bank |-> pending'[b] - 1]
    BY DEF TokenLinear
  <2>8. \A i \in Places' : Carries(b, i)' =>
           /\ i # 0 /\ i + 1 \in Places /\ Carries(b, i + 1)
           /\ Carried(i)' = Carried(i + 1)
    BY <2>3, <2>4, <2>5
  <2>9. \A i \in Places : Carries(b, i) => i - 1 \in Places' /\ Carries(b, i - 1)'
    BY <2>3, <2>4, <2>6, <2>7
  <2>10. \A i, j \in Places' : Carries(b, i)' /\ Carries(b, j)' => i = j
    <3> SUFFICES ASSUME NEW i \in Places', NEW j \in Places', Carries(b, i)', Carries(b, j)'
                 PROVE  i = j
      OBVIOUS
    <3>1. i + 1 = j + 1
      BY <2>8 DEF Protocol, TokenLinear
    <3> QED
      BY <2>7, <3>1
  <2> QED
    BY <1>1, <2>8, <2>9, <2>10 DEF Protocol, TokenLinear
<1>4. CASE Head(queue).target \notin Scalars
  <2>1. pc1' = "load" /\ cmd1' = queue[1] /\ queue[1].target \in Buffers
    BY <1>2, <1>4, CommandPayload DEF Dequeue, Targets
  <2>2. \A b \in Buffers : \A i \in Places' : Carries(b, i)' <=> Carries(b, i + 1)
    <3> SUFFICES ASSUME NEW b \in Buffers, NEW i \in Places'
                 PROVE  Carries(b, i)' <=> Carries(b, i + 1)
      OBVIOUS
    <3>1. CASE i = 0
      <4>1. Carries(b, 0)' <=> queue[1].target = b
        BY <1>2, <2>1 DEF Carries, Activating
      <4>2. Carries(b, 1) <=> queue[1].target = b
        BY <1>2 DEF Carries
      <4> QED
        BY <3>1, <4>1, <4>2
    <3>2. CASE i \in 1..Len(queue')
      <4>1. /\ i # 0 /\ i # Len(queue') + 1 /\ i + 1 # 0
            /\ i + 1 # Len(queue) + 1 /\ i + 1 \in 1..Len(queue)
            /\ queue'[i] = queue[i + 1]
        BY <1>2, <3>2
      <4> QED
        BY <3>2, <4>1 DEF Carries
    <3>3. CASE i = Len(queue') + 1
      <4>1. /\ i # 0 /\ i \notin 1..Len(queue') /\ i + 1 # 0
            /\ i + 1 = Len(queue) + 1 /\ i + 1 \notin 1..Len(queue)
        BY <1>2, <3>3
      <4> QED
        BY <1>1, <3>3, <4>1 DEF Carries
    <3> QED
      BY <1>2, <3>1, <3>2, <3>3 DEF Places
  <2>3. \A i \in Places' : i + 1 \in Places /\ Carried(i)' = Carried(i + 1)
    BY <1>1, <1>2, <2>1 DEF Carried, Places
  <2>4. \A b \in Buffers : ~Carries(b, 0)
    BY <1>1, <1>2 DEF Carries, Activating
  <2>5. \A i \in Places : i # 0 => i - 1 \in Places' /\ (i - 1) + 1 = i
    BY <1>2 DEF Places
  <2>6. Places \subseteq Nat /\ Places' \subseteq Nat
    BY <1>2 DEF Places
  <2> SUFFICES ASSUME NEW b \in Buffers
               PROVE  /\ (pending[b] # NO_PENDING)' <=> \E i \in Places' : Carries(b, i)'
                      /\ \A i, j \in Places' : Carries(b, i)' /\ Carries(b, j)' => i = j
                      /\ \A i \in Places' : Carries(b, i)' =>
                           Carried(i)'.payload = [owner |-> b, bank |-> pending'[b] - 1]
    BY DEF TokenLinear
  <2>8. \A i \in Places' : Carries(b, i)' =>
           /\ i + 1 \in Places /\ Carries(b, i + 1)
           /\ Carried(i)' = Carried(i + 1)
    BY <2>2, <2>3
  <2>9. \A i \in Places : Carries(b, i) => i - 1 \in Places' /\ Carries(b, i - 1)'
    BY <2>2, <2>4, <2>5, <2>6
  <2>10. \A i, j \in Places' : Carries(b, i)' /\ Carries(b, j)' => i = j
    <3> SUFFICES ASSUME NEW i \in Places', NEW j \in Places', Carries(b, i)', Carries(b, j)'
                 PROVE  i = j
      OBVIOUS
    <3>1. i + 1 = j + 1
      BY <2>8 DEF Protocol, TokenLinear
    <3> QED
      BY <2>6, <3>1
  <2> QED
    BY <1>1, <2>8, <2>9, <2>10 DEF Protocol, TokenLinear
<1> QED BY <1>3, <1>4

(* Core 1 consumes its token in the step that frees the buffer.            *)
LEMMA ClearTokens == Protocol /\ ActivateClear => TokenLinear'
<1> SUFFICES ASSUME Protocol, ActivateClear PROVE TokenLinear'
  OBVIOUS
<1>1. pc1 \in Activating /\ pc1' \notin Activating
  BY DEF ActivateClear, AfterActivate, Activating
<1>2. /\ cmd1.target \in Buffers /\ 0 \in Places /\ Carries(cmd1.target, 0)
      /\ Len(queue) \in Nat
  BY <1>1, TokenInHand, EndPlaces DEF Carries, Protocol
<1>3. \A j \in Places : Carries(cmd1.target, j) => j = 0
  BY <1>2, TokenAt DEF Protocol
<1>4. Places' = Places /\ UNCHANGED <<queue, pc0, cmd0, cmd1>>
  BY DEF ActivateClear, Places, core0
<1>5. \A b \in Buffers, i \in Places : Carries(b, i)' <=> Carries(b, i) /\ i # 0
  BY <1>1, <1>2, <1>4 DEF Carries, Places
<1>6. \A i \in Places : Carried(i)' = Carried(i)
  BY <1>4 DEF Carried
<1>7. \A b \in Buffers : b # cmd1.target => ~Carries(b, 0)
  BY <1>2 DEF Carries
<1> SUFFICES ASSUME NEW b \in Buffers
             PROVE  /\ (pending[b] # NO_PENDING)' <=> \E i \in Places' : Carries(b, i)'
                    /\ \A i, j \in Places' : Carries(b, i)' /\ Carries(b, j)' => i = j
                    /\ \A i \in Places' : Carries(b, i)' =>
                         Carried(i)'.payload = [owner |-> b, bank |-> pending'[b] - 1]
  BY DEF TokenLinear
<1>8. CASE b = cmd1.target
  <2>1. pending'[b] = NO_PENDING
    BY <1>8 DEF ActivateClear, Protocol, TypeInv, TypeOK
  <2>2. \A i \in Places' : ~Carries(b, i)'
    BY <1>3, <1>4, <1>5, <1>8
  <2> QED
    BY <2>1, <2>2
<1>9. CASE b # cmd1.target
  <2>1. pending'[b] = pending[b]
    BY <1>9 DEF ActivateClear, Protocol, TypeInv, TypeOK
  <2> QED
    BY <1>4, <1>5, <1>6, <1>7, <1>9, <2>1 DEF Protocol, TokenLinear
<1> QED BY <1>8, <1>9


LEMMA NextTokens == Protocol /\ [Next]_vars => TokenLinear'
<1> SUFFICES ASSUME Protocol, [Next]_vars PROVE TokenLinear'
  OBVIOUS
<1> USE DEF HoldingToken, Activating, Free
<1>1. TokenLinear
  BY DEF Protocol
<1>2. ASSUME NEW p \in Scalars, NEW v \in Settings, StageScalar(p, v)
      PROVE  TokenLinear'
  BY <1>1, <1>2, TokensUnmoved, TargetsDisjoint DEF StageScalar, shared, core1
<1>3. ASSUME NEW r \in Requests, BufferLoadPending(r)
      PROVE  TokenLinear'
  BY <1>1, <1>3, TokensUnmoved DEF BufferLoadPending, Answer, shared, core1
<1>4. CASE BufferLoadActive
  BY <1>1, <1>4, TokensUnmoved DEF BufferLoadActive, shared, core1
<1>5. CASE WriteWord
  BY <1>1, <1>5, TokensUnmoved DEF WriteWord, core1
<1>6. CASE WriteDone
  BY <1>1, <1>6, TokensUnmoved DEF WriteDone, Answer, shared, core1
<1>7. CASE Seal
  BY <1>1, <1>7, TokensUnmoved DEF Seal, Answer, core1
<1>8. CASE CommitLoadPending
  BY <1>1, <1>8, TokensUnmoved DEF CommitLoadPending, Answer, shared, core1
<1>9. CASE CommitLoadActive
  BY <1>1, <1>9, TokensUnmoved DEF CommitLoadActive, shared, core1
<1>10. CASE Publish
  BY <1>10, PublishTokens
<1>11. CASE Enqueue
  BY <1>11, EnqueueTokens
<1>12. CASE Cancel
  BY <1>12, CancelTokens
<1>13. CASE ResetDiagnostics
  BY <1>1, <1>13, TokensUnmoved DEF ResetDiagnostics, core0, core1
<1>14. CASE TickStart
  BY <1>1, <1>14, TokensUnmoved DEF TickStart, shared, core0
<1>15. CASE Dequeue
  BY <1>15, DequeueTokens
<1>16. CASE ActivateLoad
  <2>1. pc1' = "swap"
    BY <1>16, TokenInHand DEF ActivateLoad
  <2> QED
    BY <1>1, <1>16, <2>1, TokensUnmoved DEF ActivateLoad, shared, core0
<1>17. CASE ActivateSwap
  BY <1>1, <1>17, TokensUnmoved DEF ActivateSwap, core0
<1>18. CASE ActivateClear
  BY <1>18, ClearTokens
<1>19. CASE PublishLength
  BY <1>1, <1>19, TokensUnmoved DEF PublishLength, core0
<1>20. CASE DrainEnd
  BY <1>1, <1>20, TokensUnmoved DEF DrainEnd, shared, core0
<1>21. CASE Account
  BY <1>1, <1>21, TokensUnmoved DEF Account, core0
<1>22. CASE Step
  BY <1>1, <1>22, TokensUnmoved DEF Step, shared, core0
<1>23. CASE UNCHANGED vars
  BY <1>1, <1>23, TokensUnmoved DEF vars, shared, core0, core1
<1>24. CASE RequestReboot
  BY <1>1, <1>24, TokensUnmoved DEF RequestReboot, core0, core1
<1> QED
  BY <1>2, <1>3, <1>4, <1>5, <1>6, <1>7, <1>8, <1>9, <1>10, <1>11, <1>12,
     <1>13, <1>14, <1>15, <1>16, <1>17, <1>18, <1>19, <1>20, <1>21, <1>22, <1>23, <1>24
  DEF Next, Core0, HandleRequest, Core1

LEMMA NextBankDiscipline == Protocol /\ [Next]_vars => BankDiscipline'
<1> SUFFICES ASSUME Protocol, [Next]_vars PROVE BankDiscipline'
  OBVIOUS
<1> USE DEF Staging, Borrowing, Free, Inactive
<1>1. BankDiscipline /\ TypeOK
  BY DEF Protocol, TypeInv
<1>2. ASSUME NEW p \in Scalars, NEW v \in Settings, StageScalar(p, v)
      PROVE  BankDiscipline'
  BY <1>1, <1>2 DEF StageScalar, BankDiscipline, shared, core1
<1>3. ASSUME NEW r \in Requests, BufferLoadPending(r)
      PROVE  BankDiscipline'
  BY <1>1, <1>3 DEF BufferLoadPending, Answer, BankDiscipline, shared, core1
<1>4. CASE BufferLoadActive
  BY <1>1, <1>4 DEF BufferLoadActive, BankDiscipline, shared, core1
<1>5. CASE WriteWord
  BY <1>1, <1>5 DEF WriteWord, BankDiscipline, core1
<1>6. CASE WriteDone
  BY <1>1, <1>6 DEF WriteDone, Answer, BankDiscipline, shared, core1
<1>7. CASE Seal
  BY <1>1, <1>7 DEF Seal, Answer, BankDiscipline, core1
<1>8. CASE CommitLoadPending
  BY <1>1, <1>8 DEF CommitLoadPending, Answer, BankDiscipline, shared, core1
<1>9. CASE CommitLoadActive
  BY <1>1, <1>9 DEF CommitLoadActive, BankDiscipline, shared, core1
<1>10. CASE Publish
  <2>1. /\ req.buf \in Buffers /\ bank0 \in Banks /\ pending[req.buf] = NO_PENDING
        /\ bank0 = 1 - current[req.buf]
        /\ \A i \in Places : ~Carries(req.buf, i)
    BY <1>1, <1>10, StagingHasNoToken DEF Publish, BankDiscipline, TypeOK
  <2>2. ~(pc1 = "clear" /\ cmd1.target = req.buf)
    BY <2>1, EndPlaces DEF Carries, Activating, Protocol
  <2>3. pending'[req.buf] - 1 = bank0 /\ \A b \in Buffers : b # req.buf => pending'[b] = pending[b]
    BY <1>1, <1>10, <2>1 DEF Publish, TypeOK, Banks
  <2> QED
    BY <1>1, <1>10, <2>1, <2>2, <2>3 DEF Publish, BankDiscipline, core1
<1>11. CASE Enqueue
  BY <1>1, <1>11 DEF Enqueue, Answer, BankDiscipline, core1
<1>12. CASE Cancel
  <2>1. \A b \in Buffers : pending'[b] # NO_PENDING => pending'[b] = pending[b]
    BY <1>1, <1>12 DEF Cancel, TypeOK
  <2> QED
    BY <1>1, <1>12, <2>1 DEF Cancel, Answer, BankDiscipline, core1
<1>13. CASE ResetDiagnostics
  BY <1>1, <1>13 DEF ResetDiagnostics, BankDiscipline, core0, core1
<1>14. CASE TickStart
  BY <1>1, <1>14 DEF TickStart, BankDiscipline, shared, core0
<1>15. CASE Dequeue
  BY <1>1, <1>15 DEF Dequeue, BankDiscipline, core0
<1>16. CASE ActivateLoad
  <2>1. pc1' = "swap"
    BY <1>16, TokenInHand DEF ActivateLoad, Activating
  <2> QED
    BY <1>1, <1>16, <2>1 DEF ActivateLoad, BankDiscipline, shared, core0
<1>17. CASE ActivateSwap
  <2>1. /\ cmd1.target \in Buffers /\ pending[cmd1.target] # NO_PENDING
        /\ cmd1.payload.bank = pending[cmd1.target] - 1
    BY <1>17, TokenInHand DEF ActivateSwap, Activating
  <2>2. pc0 \in Staging => req.buf # cmd1.target
    BY <1>1, <2>1 DEF BankDiscipline
  <2>3. /\ active' = current'
        /\ current'[cmd1.target] = pending[cmd1.target] - 1
        /\ \A b \in Buffers : b # cmd1.target => current'[b] = current[b]
    BY <1>1, <1>17, <2>1 DEF ActivateSwap, BankDiscipline, TypeOK
  <2>4. pc0 \in Staging => req.buf \in Buffers
    BY <1>1, RequestBuffer DEF TypeOK
  <2> QED
    BY <1>1, <1>17, <2>1, <2>2, <2>3, <2>4 DEF ActivateSwap, BankDiscipline, core0
<1>18. CASE ActivateClear
  <2>1. cmd1.target \in Buffers
    BY <1>18, TokenInHand DEF ActivateClear, Activating
  <2>2. /\ pending'[cmd1.target] = NO_PENDING
        /\ \A b \in Buffers : b # cmd1.target => pending'[b] = pending[b]
    BY <1>1, <1>18, <2>1 DEF ActivateClear, TypeOK
  <2>3. pc1' # "clear" /\ UNCHANGED <<active, current, pc0, req, bank0, cmd1>>
    BY <1>18 DEF ActivateClear, AfterActivate, core0
  <2>4. pc0 \in Staging => req.buf \in Buffers
    BY <1>1, RequestBuffer DEF TypeOK
  <2> QED
    BY <1>1, <1>18, <2>1, <2>2, <2>3, <2>4 DEF BankDiscipline, ActivateClear
<1>19. CASE PublishLength
  BY <1>1, <1>19 DEF PublishLength, BankDiscipline, core0
<1>20. CASE DrainEnd
  BY <1>1, <1>20 DEF DrainEnd, BankDiscipline, shared, core0
<1>21. CASE Account
  BY <1>1, <1>21 DEF Account, BankDiscipline, core0
<1>22. CASE Step
  BY <1>1, <1>22 DEF Step, BankDiscipline, shared, core0
<1>23. CASE UNCHANGED vars
  BY <1>1, <1>23 DEF vars, BankDiscipline, shared, core0, core1
<1>24. CASE RequestReboot
  BY <1>1, <1>24 DEF RequestReboot, BankDiscipline, core0, core1
<1> QED
  BY <1>2, <1>3, <1>4, <1>5, <1>6, <1>7, <1>8, <1>9, <1>10, <1>11, <1>12,
     <1>13, <1>14, <1>15, <1>16, <1>17, <1>18, <1>19, <1>20, <1>21, <1>22, <1>23, <1>24
  DEF Next, Core0, HandleRequest, Core1

LEMMA ProtocolInvariant == Spec => []Protocol
<1>1. Init => Protocol BY InitProtocol
<1>2. Protocol /\ [Next]_vars => Protocol'
  BY NextTypeInv, NextTokens, NextBankDiscipline DEF Protocol
<1> QED BY <1>1, <1>2, PTL DEF Spec

(* The commit token of Staging::commit is linear for any number of         *)
(* buffers and any queue: a bank is published exactly while one token for  *)
(* it exists, and activation never meets a stale one.                      *)
THEOREM TokensAreLinear == Spec => []TokenLinear
<1>1. Protocol => TokenLinear BY DEF Protocol
<1> QED BY <1>1, ProtocolInvariant, PTL

(* The SAFETY argument of DoubleBuffer: core 0 never holds a borrow of the *)
(* bank core 1 reads.                                                      *)
THEOREM BorrowsArePrivate == Spec => []BorrowedBankIsPrivate
<1>1. Protocol => BorrowedBankIsPrivate
  <2> SUFFICES ASSUME Protocol, pc0 \in Borrowing PROVE bank0 # current[req.buf]
    BY DEF BorrowedBankIsPrivate
  <2>1. req.buf \in Buffers /\ current[req.buf] \in Banks
    BY StagingHasNoToken DEF Borrowing, Protocol, TypeInv, TypeOK
  <2> QED
    BY <2>1, OtherBank DEF Protocol, BankDiscipline
<1> QED BY <1>1, ProtocolInvariant, PTL

(* No step of either core writes the bank core 1 reads.                    *)
THEOREM LiveBanksAreStable == Spec => LiveBankStable
<1> DEFINE Stable == /\ \A b \in Buffers : banks'[b][current[b]] = banks[b][current[b]]
                     /\ \A t \in Tables : length'[t][current[t]] = length[t][current[t]]
<1>1. Protocol /\ [Next]_vars => [Stable]_vars
  <2> SUFFICES ASSUME Protocol, [Next]_vars PROVE Stable
    OBVIOUS
  <2>1. CASE WriteWord
    <3>1. /\ req.buf \in Buffers /\ bank0 # current[req.buf]
          /\ bank0 \in Banks /\ current[req.buf] \in Banks
      BY <2>1, StagingHasNoToken, OtherBank
      DEF WriteWord, Staging, Borrowing, Protocol, TypeInv, TypeOK, BankDiscipline
    <3>2. \A b \in Buffers : banks'[b][current[b]] = banks[b][current[b]]
      BY <2>1, <3>1 DEF WriteWord, Protocol, TypeInv, TypeOK
    <3> QED
      BY <2>1, <3>2 DEF WriteWord
  <2>2. CASE Seal
    <3>1. /\ req.buf \in Buffers /\ bank0 # current[req.buf]
          /\ bank0 \in Banks /\ current[req.buf] \in Banks
      BY <2>2, StagingHasNoToken, OtherBank
      DEF Seal, Staging, Borrowing, Protocol, TypeInv, TypeOK, BankDiscipline
    <3>2. \A t \in Tables : length'[t][current[t]] = length[t][current[t]]
      <4>1. \/ length' = [length EXCEPT ![req.buf][bank0] = req.len]
            \/ length' = length
        BY <2>2 DEF Seal
      <4>2. length \in [Tables -> [Banks -> 0..N]] /\ req.buf \in Tables
        BY <2>2 DEF Seal, Protocol, TypeInv, TypeOK, Control, CommitRequests
      <4>3. CASE length' = [length EXCEPT ![req.buf][bank0] = req.len]
        BY <3>1, <4>2, <4>3
      <4> QED
        BY <4>1, <4>3
    <3> QED
      BY <2>2, <3>2 DEF Seal
  <2>3. CASE UNCHANGED <<banks, length>>
    BY <2>3
  <2> QED
    BY <2>1, <2>2, <2>3
    DEF Next, Core0, HandleRequest, Core1, StageScalar, BufferLoadPending, BufferLoadActive,
        WriteDone, CommitLoadPending, CommitLoadActive, Publish, Enqueue, Cancel,
        ResetDiagnostics, RequestReboot, TickStart, Dequeue, ActivateLoad, ActivateSwap, ActivateClear,
        PublishLength, DrainEnd, Account, Step, shared, vars
<1> QED BY <1>1, ProtocolInvariant, PTL DEF Spec, LiveBankStable

(* The backlog that core 1 reports is at most one full queue plus one      *)
(* tick's commands, whatever core 0 enqueues while it is being drained     *)
(* (rt_loop.rs, the account after the drain).                              *)
THEOREM BacklogIsBounded == Spec => []BacklogBound
<1>1. Init => BacklogBound
  BY SizesAssumption DEF Init, BacklogBound
<1>2. Protocol /\ BacklogBound /\ [Next]_vars => BacklogBound'
  <2> SUFFICES ASSUME Protocol, BacklogBound, [Next]_vars PROVE BacklogBound'
    OBVIOUS
  <2>1. CASE Account
    <3>1. applied \in 0..CommandsPerTick /\ Len(queue) <= QueueCap /\ Len(queue) \in Nat
      BY DEF Protocol, TypeInv, TypeOK
    <3> QED
      BY <2>1, <3>1, SizesAssumption DEF Account, Backlog, BacklogBound
  <2>2. CASE ResetDiagnostics
    BY <2>2, SizesAssumption DEF ResetDiagnostics, BacklogBound
  <2>3. CASE UNCHANGED command_backlog_max
    BY <2>3 DEF BacklogBound
  <2> QED
    BY <2>1, <2>2, <2>3
    DEF Next, Core0, HandleRequest, Core1, StageScalar, BufferLoadPending, BufferLoadActive,
        WriteWord, WriteDone, Seal, CommitLoadPending, CommitLoadActive, Publish, Enqueue, Cancel,
        RequestReboot, TickStart, Dequeue, ActivateLoad, ActivateSwap, ActivateClear,
        PublishLength, DrainEnd, Step, shared, vars
<1> QED BY <1>1, <1>2, ProtocolInvariant, PTL DEF Spec

-----------------------------------------------------------------------------
(* What the banks hold.  A published bank holds a value that was checked:  *)
(* a prefix of finite words under the length it was committed with, or     *)
(* the coefficients the host sent.                                         *)
Sealed(t, k) == length[t][k] \in 2..N /\ PrefixFinite(banks[t][k], length[t][k])

TableContents ==
    /\ \A t \in Tables : PrefixFinite(banks[t][current[t]], length[t][current[t]])
    /\ \A t \in Tables : pending[t] # NO_PENDING => Sealed(t, pending[t] - 1)
    /\ pc0 \in {"commit", "bank", "publish"} /\ req \in CommitRequests =>
         Sealed(req.buf, bank0)

(* The length core 1 reports lags only inside the activation of a table.   *)
LengthReported ==
    \A t \in Tables :
        \/ table_len[t] = length[t][current[t]]
        \/ pc1 \in {"clear", "length"} /\ cmd1.target = t

TableInv == TableContents /\ LengthReported

LEMMA InitTable == Init => TableInv
<1> SUFFICES ASSUME Init PROVE TableInv
  OBVIOUS
<1>1. TableContents
  BY TargetsDisjoint DEF Init, TableContents, PrefixFinite, Buffers, Banks
<1>2. LengthReported
  BY DEF Init, LengthReported, Buffers, Banks
<1> QED BY <1>1, <1>2 DEF TableInv

(* A bank core 0 is writing has neither core's attention.                  *)
LEMMA BorrowedBank ==
    ASSUME Protocol, pc0 \in Borrowing
    PROVE  /\ req.buf \in Buffers /\ bank0 \in Banks /\ current[req.buf] \in Banks
           /\ bank0 # current[req.buf] /\ bank0 = 1 - current[req.buf]
           /\ pending[req.buf] = NO_PENDING
<1>1. pc0 \in Staging
  BY DEF Borrowing
<1>2. req.buf \in Buffers /\ pending[req.buf] = NO_PENDING
  BY <1>1, StagingHasNoToken
<1>3. bank0 \in Banks /\ current[req.buf] \in Banks /\ bank0 = 1 - current[req.buf]
  BY <1>2 DEF Protocol, TypeInv, TypeOK, BankDiscipline
<1> QED BY <1>2, <1>3, OtherBank

LEMMA NextTableContents == Protocol /\ TableInv /\ [Next]_vars => TableContents'
<1> SUFFICES ASSUME Protocol, TableInv, [Next]_vars PROVE TableContents'
  OBVIOUS
<1>1. TableContents /\ TypeOK /\ BankDiscipline /\ Control
  BY DEF TableInv, Protocol, TypeInv
<1> USE DEF Free, Inactive
<1>2. ASSUME UNCHANGED <<banks, length, current, pending>>,
             \/ UNCHANGED <<pc0, req, bank0>>
             \/ pc0' \notin {"commit", "bank", "publish"}
      PROVE  TableContents'
  BY <1>1, <1>2 DEF TableContents, Sealed
<1>3. CASE WriteWord
  <2>1. /\ req.buf \in Buffers /\ bank0 \in Banks
        /\ bank0 # current[req.buf] /\ pending[req.buf] = NO_PENDING
    BY <1>3, BorrowedBank DEF WriteWord, Borrowing, Staging
  <2>2. \A b \in Buffers, k \in Banks : b # req.buf \/ k # bank0 => banks'[b][k] = banks[b][k]
    BY <1>1, <1>3, <2>1 DEF WriteWord, TypeOK
  <2>3. UNCHANGED <<length, pending, current>> /\ pc0' = "write"
    BY <1>3 DEF WriteWord, core1
  <2>4. \A t \in Tables : t \in Buffers /\ current[t] \in Banks
                          /\ (pending[t] # NO_PENDING => pending[t] - 1 \in Banks)
    BY <1>1 DEF TypeOK, Buffers, Banks, NO_PENDING
  <2> QED
    BY <1>1, <2>1, <2>2, <2>3, <2>4 DEF TableContents, Sealed
<1>4. CASE Seal
  <2>1. /\ req.buf \in Tables /\ bank0 \in Banks /\ req.len \in 2..N
        /\ bank0 # current[req.buf] /\ pending[req.buf] = NO_PENDING
    BY <1>1, <1>4, BorrowedBank DEF Seal, Borrowing, Staging, Control, CommitRequests
  <2>2. UNCHANGED <<banks, pending, current>>
    BY <1>4 DEF Seal, core1
  <2>3. CASE PrefixFinite(banks[req.buf][bank0], req.len)
    <3>1. /\ length' = [length EXCEPT ![req.buf][bank0] = req.len]
          /\ UNCHANGED <<req, bank0>>
      BY <1>4, <2>3 DEF Seal
    <3>2. /\ \A b \in Tables, k \in Banks : b # req.buf \/ k # bank0 => length'[b][k] = length[b][k]
          /\ length'[req.buf][bank0] = req.len
      BY <1>1, <2>1, <3>1 DEF TypeOK
    <3>3. \A t \in Tables : t \in Buffers /\ current[t] \in Banks
                            /\ (pending[t] # NO_PENDING => pending[t] - 1 \in Banks)
      BY <1>1 DEF TypeOK, Buffers, Banks, NO_PENDING
    <3>4. Sealed(req.buf, bank0)'
      BY <2>1, <2>2, <2>3, <3>1, <3>2 DEF Sealed
    <3> QED
      BY <1>1, <2>1, <2>2, <3>1, <3>2, <3>3, <3>4 DEF TableContents, Sealed
  <2>4. CASE ~PrefixFinite(banks[req.buf][bank0], req.len)
    BY <1>2, <1>4, <2>4 DEF Seal, Answer, core1
  <2> QED BY <2>3, <2>4
<1>5. CASE WriteDone
  <2>1. UNCHANGED <<banks, length, current, pending>>
    BY <1>5 DEF WriteDone, shared, core1
  <2>2. pc0' = "commit" => req' = req /\ req \notin CommitRequests
    BY <1>1, <1>5 DEF WriteDone, Answer, CommitRequests, CoeffRequests
  <2>3. pc0' \in {"commit", "idle"}
    BY <1>5 DEF WriteDone, Answer
  <2> QED
    BY <1>1, <2>1, <2>2, <2>3 DEF TableContents, Sealed
<1>6. CASE CommitLoadPending
  BY <1>1, <1>6 DEF CommitLoadPending, Answer, shared, core1, TableContents, Sealed
<1>7. CASE CommitLoadActive
  <2>1. bank0' = bank0
    BY <1>1, <1>7, BorrowedBank DEF CommitLoadActive, BankDiscipline, Borrowing, Staging
  <2> QED
    BY <1>1, <1>7, <2>1 DEF CommitLoadActive, shared, core1, TableContents, Sealed
<1>8. CASE Publish
  <2>1. req.buf \in Buffers /\ bank0 \in Banks
    BY <1>8, BorrowedBank DEF Publish, Borrowing, Staging
  <2>2. /\ \A b \in Buffers : b # req.buf => pending'[b] = pending[b]
        /\ pending'[req.buf] - 1 = bank0
    BY <1>1, <1>8, <2>1 DEF Publish, TypeOK, Banks
  <2>3. req.buf \in Tables => req \in CommitRequests
    BY <1>1, <1>8, TargetsDisjoint DEF Publish, Control, CoeffRequests
  <2>4. req.buf \in Tables => Sealed(req.buf, bank0)
    BY <1>1, <1>8, <2>3 DEF Publish, TableContents
  <2> QED
    BY <1>1, <1>8, <2>2, <2>4 DEF Publish, TableContents, Sealed, core1, Buffers
<1>9. CASE Cancel
  <2>1. \A b \in Buffers : pending'[b] # NO_PENDING => pending'[b] = pending[b]
    BY <1>1, <1>9 DEF Cancel, TypeOK
  <2> QED
    BY <1>1, <1>9, <2>1 DEF Cancel, Answer, core1, TableContents, Sealed, Buffers
<1>10. CASE ActivateSwap
  <2>1. /\ cmd1.target \in Buffers /\ pending[cmd1.target] # NO_PENDING
        /\ cmd1.payload.bank = pending[cmd1.target] - 1
    BY <1>10, TokenInHand DEF ActivateSwap, Activating
  <2>2. /\ current'[cmd1.target] = pending[cmd1.target] - 1
        /\ \A b \in Buffers : b # cmd1.target => current'[b] = current[b]
    BY <1>1, <1>10, <2>1 DEF ActivateSwap, TypeOK
  <2> QED
    BY <1>1, <1>10, <2>1, <2>2 DEF ActivateSwap, core0, TableContents, Sealed, Buffers
<1>11. CASE ActivateClear
  <2>1. \A b \in Buffers : pending'[b] # NO_PENDING => pending'[b] = pending[b]
    BY <1>1, <1>11 DEF ActivateClear, TypeOK
  <2> QED
    BY <1>1, <1>11, <2>1 DEF ActivateClear, core0, TableContents, Sealed, Buffers
<1>12. CASE Enqueue
  BY <1>2, <1>12 DEF Enqueue, Answer, core1
<1>13. ASSUME NEW p \in Scalars, NEW v \in Settings, StageScalar(p, v)
       PROVE  TableContents'
  BY <1>2, <1>13 DEF StageScalar, shared, core1
<1>14. ASSUME NEW r \in Requests, BufferLoadPending(r)
       PROVE  TableContents'
  BY <1>2, <1>14 DEF BufferLoadPending, Answer, shared, core1
<1>15. CASE BufferLoadActive
  BY <1>2, <1>15 DEF BufferLoadActive, shared, core1
<1>16. CASE ResetDiagnostics \/ RequestReboot
  BY <1>2, <1>16 DEF ResetDiagnostics, RequestReboot, core0, core1
<1>17. CASE TickStart \/ DrainEnd \/ Step \/ ActivateLoad
  BY <1>2, <1>17 DEF TickStart, DrainEnd, Step, ActivateLoad, shared, core0
<1>18. CASE Dequeue \/ PublishLength \/ Account
  BY <1>2, <1>18 DEF Dequeue, PublishLength, Account, core0
<1>19. CASE UNCHANGED vars
  BY <1>2, <1>19 DEF vars, shared, core0, core1
<1> QED
  BY <1>3, <1>4, <1>5, <1>6, <1>7, <1>8, <1>9, <1>10, <1>11, <1>12, <1>13, <1>14, <1>15,
     <1>16, <1>17, <1>18, <1>19
  DEF Next, Core0, HandleRequest, Core1

LEMMA NextLengthReported == Protocol /\ TableInv /\ [Next]_vars => LengthReported'
<1> SUFFICES ASSUME Protocol, TableInv, [Next]_vars PROVE LengthReported'
  OBVIOUS
<1>1. LengthReported /\ TypeOK /\ Control
  BY DEF TableInv, Protocol, TypeInv
<1>2. ASSUME UNCHANGED <<length, current, table_len, pc1, cmd1>>
      PROVE  LengthReported'
  BY <1>1, <1>2 DEF LengthReported
<1>3. CASE Seal
  <2>1. /\ req.buf \in Tables /\ bank0 \in Banks /\ bank0 # current[req.buf]
    BY <1>1, <1>3, BorrowedBank DEF Seal, Borrowing, Staging, Control, CommitRequests
  <2>2. length' = length \/ length' = [length EXCEPT ![req.buf][bank0] = req.len]
    BY <1>3 DEF Seal
  <2>3. CASE length' = [length EXCEPT ![req.buf][bank0] = req.len]
    <3>1. \A t \in Tables : current[t] \in Banks /\ length'[t][current[t]] = length[t][current[t]]
      BY <1>1, <2>1, <2>3 DEF TypeOK, Buffers
    <3> QED
      BY <1>1, <1>3, <3>1 DEF Seal, LengthReported, core1
  <2>4. CASE length' = length
    BY <1>2, <1>3, <2>4 DEF Seal, core1
  <2> QED BY <2>2, <2>3, <2>4
<1>4. CASE ActivateLoad
  <2>1. pc1' = "swap" /\ pc1 = "load"
    BY <1>4, TokenInHand DEF ActivateLoad, Activating
  <2> QED
    BY <1>1, <1>4, <2>1 DEF ActivateLoad, LengthReported, shared
<1>5. CASE ActivateSwap
  <2>1. \A t \in Tables : t # cmd1.target => current'[t] = current[t]
    BY <1>1, <1>5 DEF ActivateSwap, TypeOK, Buffers
  <2> QED
    BY <1>1, <1>5, <2>1 DEF ActivateSwap, LengthReported
<1>6. CASE ActivateClear
  BY <1>1, <1>6 DEF ActivateClear, AfterActivate, LengthReported
<1>7. CASE PublishLength
  <2>1. /\ table_len'[cmd1.target] = length[cmd1.target][current[cmd1.target]]
        /\ \A t \in Tables : t # cmd1.target => table_len'[t] = table_len[t]
    BY <1>1, <1>7 DEF PublishLength, TypeOK
  <2> QED
    BY <1>1, <1>7, <2>1 DEF PublishLength, LengthReported
<1>8. CASE TickStart \/ DrainEnd \/ Step \/ Account \/ Dequeue
  BY <1>1, <1>8 DEF TickStart, DrainEnd, Step, Account, Dequeue, LengthReported, shared
<1>9. CASE UNCHANGED <<length, current, table_len, pc1, cmd1>>
  BY <1>2, <1>9
<1> QED
  BY <1>3, <1>4, <1>5, <1>6, <1>7, <1>8, <1>9
  DEF Next, Core0, HandleRequest, Core1, StageScalar, BufferLoadPending, BufferLoadActive,
      WriteWord, WriteDone, CommitLoadPending, CommitLoadActive, Publish, Enqueue, Cancel,
      ResetDiagnostics, RequestReboot, shared, core1, vars

LEMMA TableInvariant == Spec => []TableInv
<1>1. Init => TableInv BY InitTable
<1>2. Protocol /\ TableInv /\ [Next]_vars => TableInv'
  BY NextTableContents, NextLengthReported DEF TableInv
<1> QED BY <1>1, <1>2, ProtocolInvariant, PTL DEF Spec

(* Whatever a host uploads and commits while core 1 plays, core 1 meets no *)
(* non-finite table word, and the length a host reads at a step is the     *)
(* length of the table core 1 plays (TableGroup::stage_commit, the table   *)
(* command of apply).                                                      *)
THEOREM PlayedTablesAreSound == Spec => []PlayedTableSound
<1>1. TableInv => PlayedTableSound
  BY DEF TableInv, TableContents, LengthReported, PrefixFinite, PlayedTableSound
<1> QED BY <1>1, TableInvariant, PTL

-----------------------------------------------------------------------------
(* What core 0 has written is what the host sent.                          *)
Sent(r) == [w \in Words(r.buf) |-> r.words[w + 1]]
InHand(c) == pc0 \in HoldingToken /\ cmd0.target = c

StagedIsSent ==
    /\ pc0 = "write" /\ req \in CoeffRequests =>
         \A w \in 0..(at - 1) : banks[req.buf][bank0][w] = req.words[w + 1]
    /\ pc0 \in {"commit", "bank", "publish"} /\ req \in CoeffRequests =>
         banks[req.buf][bank0] = Sent(req)
    /\ \A c \in Coeffs : InHand(c) => banks[c][cmd0.payload.bank] = Sent(req)
    /\ \A p \in Scalars : InHand(p) => cmd0.payload = Encode[set0]

(* The shadow is the accepted bank while there is one, and the live bank   *)
(* otherwise; a token in core 0's hand is not accepted yet.                *)
CoeffsSettled ==
    \A c \in Coeffs :
        shadow[c] = banks[c][IF pending[c] # NO_PENDING /\ ~InHand(c)
                               THEN pending[c] - 1 ELSE current[c]]

(* The shadow of a scalar is the last word queued for it, or the live one. *)
Last(p, i) ==
    /\ i \in 1..Len(queue) /\ queue[i].target = p
    /\ \A j \in 1..Len(queue) : queue[j].target = p => j <= i
ScalarsSettled ==
    \A p \in Scalars :
        \/ /\ \A i \in 1..Len(queue) : queue[i].target # p
           /\ scalar[p] = Encode[shadow[p]]
        \/ \E i \in 1..Len(queue) : Last(p, i) /\ queue[i].payload = Encode[shadow[p]]

ShadowInv == StagedIsSent /\ CoeffsSettled /\ ScalarsSettled

LEMMA InitShadow == Init => ShadowInv
<1> SUFFICES ASSUME Init PROVE ShadowInv
  OBVIOUS
<1>1. StagedIsSent
  BY DEF Init, StagedIsSent, InHand, HoldingToken
<1>2. CoeffsSettled
  BY TargetsDisjoint DEF Init, CoeffsSettled, Buffers, Banks
<1>3. ScalarsSettled
  BY TargetsDisjoint DEF Init, ScalarsSettled, Buffers
<1> QED BY <1>1, <1>2, <1>3 DEF ShadowInv

(* Sent coefficients are finite, and fill the buffer.                      *)
LEMMA SentWords ==
    ASSUME NEW r \in CoeffRequests
    PROVE  /\ r.buf \in Coeffs /\ r.offset = 0 /\ Len(r.words) = CoeffLen
           /\ Words(r.buf) = 0..(CoeffLen - 1)
           /\ Sent(r) \in [Words(r.buf) -> Finite]
<1>1. r.buf \in Coeffs /\ r.offset = 0 /\ r.words \in [1..CoeffLen -> Finite]
  BY DEF CoeffRequests
<1>2. Words(r.buf) = 0..(CoeffLen - 1)
  BY <1>1, TargetsDisjoint DEF Words
<1>3. Len(r.words) = CoeffLen
  BY <1>1, FunctionIsSeq, SizesAssumption
<1> QED BY <1>1, <1>2, <1>3, SizesAssumption DEF Sent

LEMMA NextStaged == Protocol /\ ShadowInv /\ [Next]_vars => StagedIsSent'
<1> SUFFICES ASSUME Protocol, ShadowInv, [Next]_vars PROVE StagedIsSent'
  OBVIOUS
<1>1. StagedIsSent /\ TypeOK /\ BankDiscipline /\ Control
  BY DEF ShadowInv, Protocol, TypeInv
<1> USE DEF Free, Inactive, HoldingToken, InHand
<1>2. ASSUME UNCHANGED banks,
             UNCHANGED core0 \/ pc0' \in {"idle", "pick", "seal"}
      PROVE  StagedIsSent'
  BY <1>1, <1>2 DEF StagedIsSent, core0, Sent
<1>3. CASE WriteWord
  <2>1. /\ req.buf \in Buffers /\ bank0 \in Banks /\ at \in Nat /\ pc0' = "write"
        /\ UNCHANGED <<req, bank0, cmd0>>
    BY <1>1, <1>3, BorrowedBank DEF WriteWord, Borrowing, Staging, TypeOK
  <2>2. SUFFICES ASSUME req \in CoeffRequests, NEW w \in 0..at
                 PROVE  banks'[req.buf][bank0][w] = req.words[w + 1]
    BY <1>3, <2>1 DEF WriteWord, StagedIsSent
  <2>3. req.offset = 0 /\ Len(req.words) = CoeffLen /\ Words(req.buf) = 0..(CoeffLen - 1)
    BY <2>2, SentWords
  <2>4. banks[req.buf] \in [Banks -> [Words(req.buf) -> Values]] /\ DOMAIN banks = Buffers
    BY <1>1, <2>1 DEF TypeOK
  <2>5. w \in Words(req.buf) /\ at \in Words(req.buf)
    BY <1>3, <2>1, <2>3, SizesAssumption DEF WriteWord
  <2>6. banks'[req.buf][bank0][w] = IF w = at THEN req.words[at + 1] ELSE banks[req.buf][bank0][w]
    BY <1>3, <2>1, <2>3, <2>4, <2>5 DEF WriteWord
  <2> QED
    BY <1>1, <1>3, <2>1, <2>2, <2>6 DEF WriteWord, StagedIsSent
<1>4. CASE WriteDone
  <2>1. CASE req.op = "coeffs"
    <3>1. /\ pc0' = "commit" /\ UNCHANGED <<banks, req, bank0>>
      BY <1>4, <2>1 DEF WriteDone, shared
    <3>2. req \in CoeffRequests
      BY <1>1, <1>4, <2>1 DEF WriteDone, Control, BlockRequests
    <3>3. /\ req.buf \in Buffers /\ bank0 \in Banks
          /\ Words(req.buf) = 0..(CoeffLen - 1) /\ at = CoeffLen
      BY <1>1, <1>4, <3>2, SentWords DEF WriteDone, TypeOK, Buffers
    <3>4. banks[req.buf][bank0] \in [Words(req.buf) -> Values]
      BY <1>1, <3>3 DEF TypeOK
    <3>5. \A w \in Words(req.buf) : banks[req.buf][bank0][w] = req.words[w + 1]
      BY <1>1, <1>4, <3>2, <3>3 DEF WriteDone, StagedIsSent
    <3>6. banks[req.buf][bank0] = Sent(req)
      BY <3>4, <3>5 DEF Sent
    <3> QED
      BY <3>1, <3>6 DEF StagedIsSent, Sent
  <2>2. CASE req.op # "coeffs"
    BY <1>2, <1>4, <2>2 DEF WriteDone, Answer, shared
  <2> QED BY <2>1, <2>2
<1>5. CASE Seal
  <2>1. req \notin CoeffRequests
    BY <1>1, <1>5 DEF Seal, Control, CommitRequests, CoeffRequests
  <2> QED
    BY <1>5, <2>1 DEF Seal, Answer, StagedIsSent
<1>6. CASE CommitLoadPending
  BY <1>1, <1>6 DEF CommitLoadPending, Answer, shared, StagedIsSent, Sent
<1>7. CASE CommitLoadActive
  <2>1. bank0' = bank0
    BY <1>1, <1>7, BorrowedBank DEF CommitLoadActive, BankDiscipline, Borrowing, Staging
  <2> QED
    BY <1>1, <1>7, <2>1 DEF CommitLoadActive, shared, StagedIsSent, Sent
<1>8. CASE Publish
  <2>1. req.buf \in Buffers
    BY <1>8, BorrowedBank DEF Publish, Borrowing, Staging
  <2>2. /\ pc0' = "enqueue" /\ UNCHANGED <<banks, req>>
        /\ cmd0' = [target |-> req.buf, payload |-> [owner |-> req.buf, bank |-> bank0]]
    BY <1>8 DEF Publish
  <2>3. req.buf \in Coeffs => banks[req.buf][bank0] = Sent(req)
    BY <1>1, <1>8, TargetsDisjoint DEF Publish, Control, CommitRequests, StagedIsSent
  <2>4. req.buf \notin Scalars
    BY <2>1, TargetsDisjoint
  <2> QED
    BY <2>2, <2>3, <2>4 DEF StagedIsSent, Sent
<1>9. CASE Enqueue
  <2>1. CASE Room
    BY <1>2, <1>9, <2>1 DEF Enqueue, Answer
  <2>2. CASE ~Room /\ cmd0.target \in Buffers
    BY <1>1, <1>9, <2>2 DEF Enqueue, StagedIsSent, Sent
  <2>3. CASE ~Room /\ cmd0.target \notin Buffers
    BY <1>2, <1>9, <2>3 DEF Enqueue, Answer
  <2> QED BY <2>1, <2>2, <2>3
<1>10. CASE Cancel
  BY <1>2, <1>10 DEF Cancel, Answer
<1>11. ASSUME NEW p \in Scalars, NEW v \in Settings, StageScalar(p, v)
       PROVE  StagedIsSent'
  <2>1. p \notin Coeffs
    BY TargetsDisjoint DEF Buffers
  <2> QED
    BY <1>11, <2>1 DEF StageScalar, StagedIsSent
<1>12. ASSUME NEW r \in Requests, BufferLoadPending(r)
       PROVE  StagedIsSent'
  BY <1>2, <1>12 DEF BufferLoadPending, Answer, shared
<1>13. CASE BufferLoadActive
  BY <1>1, <1>13 DEF BufferLoadActive, StagedIsSent, Control
<1>14. CASE ResetDiagnostics \/ RequestReboot
  BY <1>2, <1>14 DEF ResetDiagnostics, RequestReboot
<1>15. CASE Core1
  BY <1>2, <1>15
  DEF Core1, TickStart, Dequeue, ActivateLoad, ActivateSwap, ActivateClear, PublishLength,
      DrainEnd, Account, Step, shared
<1>16. CASE UNCHANGED vars
  BY <1>2, <1>16 DEF vars, shared
<1> QED
  BY <1>3, <1>4, <1>5, <1>6, <1>7, <1>8, <1>9, <1>10, <1>11, <1>12, <1>13, <1>14, <1>15, <1>16
  DEF Next, Core0, HandleRequest

(* A token in core 1's hand is not in core 0's.                            *)
LEMMA HandsExclude ==
    ASSUME Protocol, pc1 \in Activating
    PROVE  ~InHand(cmd1.target)
<1>1. /\ 0 \in Places /\ Len(queue) + 1 \in Places /\ Len(queue) \in Nat
      /\ cmd1.target \in Buffers /\ Carries(cmd1.target, 0)
  BY EndPlaces, TokenInHand DEF Protocol, Carries
<1>2. InHand(cmd1.target) => Carries(cmd1.target, Len(queue) + 1)
  BY DEF InHand, Carries
<1>3. ASSUME InHand(cmd1.target) PROVE FALSE
  <2>1. 0 = Len(queue) + 1
    BY <1>1, <1>2, <1>3 DEF Protocol, TokenLinear
  <2> QED BY <1>1, <2>1
<1> QED BY <1>3

(* A token in core 0's hand names the bank it has published.               *)
LEMMA TokenPublished ==
    ASSUME Protocol, NEW b \in Buffers, InHand(b)
    PROVE  /\ pending[b] # NO_PENDING
           /\ cmd0.payload = [owner |-> b, bank |-> pending[b] - 1]
           /\ \A i \in Places : Carries(b, i) => i = Len(queue) + 1
<1>1. /\ Len(queue) + 1 \in Places /\ Len(queue) \in Nat
      /\ Carries(b, Len(queue) + 1)
  BY EndPlaces DEF Carries, Protocol, InHand
<1>2. Carried(Len(queue) + 1) = cmd0
  BY <1>1 DEF Carried
<1> QED BY <1>1, <1>2, TokenAt DEF Protocol

LEMMA NextCoeffs == Protocol /\ ShadowInv /\ [Next]_vars => CoeffsSettled'
<1> SUFFICES ASSUME Protocol, ShadowInv, [Next]_vars PROVE CoeffsSettled'
  OBVIOUS
<1>1. StagedIsSent /\ CoeffsSettled /\ TypeOK /\ BankDiscipline /\ Control
  BY DEF ShadowInv, Protocol, TypeInv
<1>2. \A c \in Coeffs : /\ c \in Buffers /\ c \notin Scalars /\ current[c] \in Banks
                        /\ (pending[c] # NO_PENDING => pending[c] - 1 \in Banks)
  BY <1>1, TargetsDisjoint DEF TypeOK, Buffers, Banks, NO_PENDING
<1>3. ASSUME UNCHANGED <<banks, pending, current, shadow>>,
             UNCHANGED <<pc0, cmd0>> \/ \A c \in Coeffs : ~InHand(c) /\ ~InHand(c)'
      PROVE  CoeffsSettled'
  BY <1>1, <1>3 DEF CoeffsSettled, InHand
<1> USE DEF Free, Inactive, HoldingToken
<1>4. CASE WriteWord
  <2>1. /\ req.buf \in Buffers /\ bank0 \in Banks
        /\ bank0 # current[req.buf] /\ pending[req.buf] = NO_PENDING
    BY <1>4, BorrowedBank DEF WriteWord, Borrowing, Staging
  <2>2. \A b \in Buffers, k \in Banks : b # req.buf \/ k # bank0 => banks'[b][k] = banks[b][k]
    BY <1>1, <1>4, <2>1 DEF WriteWord, TypeOK
  <2>3. UNCHANGED <<pending, current, shadow, pc0, cmd0>>
    BY <1>4 DEF WriteWord, core1
  <2> QED
    BY <1>1, <1>2, <2>1, <2>2, <2>3 DEF CoeffsSettled, InHand
<1>5. CASE Publish
  <2>1. req.buf \in Buffers /\ pending[req.buf] = NO_PENDING
    BY <1>5, BorrowedBank DEF Publish, Borrowing, Staging
  <2>2. /\ \A b \in Buffers : b # req.buf => pending'[b] = pending[b]
        /\ cmd0'.target = req.buf /\ pc0' = "enqueue" /\ pc0 = "publish"
        /\ UNCHANGED <<banks, current, shadow>>
    BY <1>1, <1>5, <2>1 DEF Publish, TypeOK, core1
  <2> QED
    BY <1>1, <1>2, <2>1, <2>2 DEF CoeffsSettled, InHand
<1>6. CASE Enqueue
  <2>1. CASE Room
    <3>1. /\ UNCHANGED <<banks, pending, current>> /\ pc0' = "idle" /\ pc0 = "enqueue"
          /\ cmd0 \in Commands
      BY <1>1, <1>6, <2>1 DEF Enqueue, Answer, core1, TypeOK
    <3>2. \A c \in Coeffs : shadow'[c] = IF c # cmd0.target THEN shadow[c]
                                         ELSE [w \in Words(c) |-> req.words[w + 1]]
      BY <1>1, <1>2, <1>6, <2>1 DEF Enqueue, Accept, TypeOK
    <3>3. \A c \in Coeffs : c = cmd0.target =>
             pending[c] # NO_PENDING /\ cmd0.payload.bank = pending[c] - 1
      <4> SUFFICES ASSUME NEW c \in Coeffs, c = cmd0.target
                   PROVE  pending[c] # NO_PENDING /\ cmd0.payload.bank = pending[c] - 1
        OBVIOUS
      <4>1. InHand(c) /\ c \in Buffers
        BY <1>2, <3>1 DEF InHand
      <4>2. /\ pending[c] # NO_PENDING
            /\ cmd0.payload = [owner |-> c, bank |-> pending[c] - 1]
        BY <4>1, TokenPublished
      <4> QED BY <4>2
    <3>4. \A c \in Coeffs : c = cmd0.target =>
             banks[c][cmd0.payload.bank] = [w \in Words(c) |-> req.words[w + 1]]
      BY <1>1, <3>1 DEF StagedIsSent, InHand, Sent, Control
    <3> SUFFICES ASSUME NEW c \in Coeffs
                 PROVE  shadow'[c] = banks'[c][IF pending'[c] # NO_PENDING /\ ~InHand(c)'
                                                THEN pending'[c] - 1 ELSE current'[c]]
      BY DEF CoeffsSettled
    <3>5. ~InHand(c)'
      BY <3>1 DEF InHand
    <3>6. CASE c = cmd0.target
      BY <3>1, <3>2, <3>3, <3>4, <3>5, <3>6
    <3>7. CASE c # cmd0.target
      BY <1>1, <3>1, <3>2, <3>5, <3>7 DEF CoeffsSettled, InHand
    <3> QED BY <3>6, <3>7
  <2>2. CASE ~Room /\ cmd0.target \in Buffers
    BY <1>1, <1>6, <2>2 DEF Enqueue, core1, CoeffsSettled, InHand
  <2>3. CASE ~Room /\ cmd0.target \notin Buffers
    BY <1>2, <1>3, <1>6, <2>3 DEF Enqueue, Answer, core1, InHand
  <2> QED BY <2>1, <2>2, <2>3
<1>7. CASE Cancel
  <2>1. cmd0.target \in Buffers /\ InHand(cmd0.target)
    BY <1>1, <1>7 DEF Cancel, Control, InHand
  <2>2. cmd0.payload = [owner |-> cmd0.target, bank |-> pending[cmd0.target] - 1]
    BY <2>1, TokenPublished
  <2>3. /\ pending'[cmd0.target] = NO_PENDING
        /\ \A b \in Buffers : b # cmd0.target => pending'[b] = pending[b]
        /\ pc0' = "idle" /\ pc0 = "cancel" /\ UNCHANGED <<banks, current, shadow>>
    BY <1>1, <1>7, <2>1, <2>2 DEF Cancel, Answer, TypeOK, core1
  <2> QED
    BY <1>1, <1>2, <2>3 DEF CoeffsSettled, InHand
<1>8. CASE ActivateSwap
  <2>1. /\ cmd1.target \in Buffers /\ pending[cmd1.target] # NO_PENDING
        /\ ~InHand(cmd1.target)
    BY <1>8, TokenInHand, HandsExclude DEF ActivateSwap, Activating
  <2>2. /\ \A b \in Buffers : b # cmd1.target => current'[b] = current[b]
        /\ UNCHANGED <<banks, pending, pc0, cmd0, shadow>>
    BY <1>1, <1>8, <2>1 DEF ActivateSwap, TypeOK, core0
  <2> QED
    BY <1>1, <1>2, <2>1, <2>2 DEF CoeffsSettled, InHand
<1>9. CASE ActivateClear
  <2>1. /\ cmd1.target \in Buffers /\ pending[cmd1.target] # NO_PENDING
        /\ ~InHand(cmd1.target)
    BY <1>9, TokenInHand, HandsExclude DEF ActivateClear, Activating
  <2>2. pending[cmd1.target] - 1 = current[cmd1.target]
    BY <1>1, <1>9, <2>1 DEF BankDiscipline, ActivateClear
  <2>3. /\ pending'[cmd1.target] = NO_PENDING
        /\ \A b \in Buffers : b # cmd1.target => pending'[b] = pending[b]
        /\ UNCHANGED <<banks, current, pc0, cmd0, shadow>>
    BY <1>1, <1>9, <2>1 DEF ActivateClear, TypeOK, core0
  <2> QED
    BY <1>1, <1>2, <2>1, <2>2, <2>3 DEF CoeffsSettled, InHand
<1>10. ASSUME NEW p \in Scalars, NEW v \in Settings, StageScalar(p, v)
       PROVE  CoeffsSettled'
  BY <1>2, <1>3, <1>10 DEF StageScalar, shared, core1, InHand
<1>11. CASE UNCHANGED <<banks, pending, current, shadow>>
            /\ pc0 \notin {"enqueue", "cancel"} /\ pc0' \notin {"enqueue", "cancel"}
  BY <1>3, <1>11 DEF InHand
<1>12. CASE UNCHANGED <<banks, pending, current, shadow, pc0, cmd0>>
  BY <1>3, <1>12
<1> QED
  BY <1>4, <1>5, <1>6, <1>7, <1>8, <1>9, <1>10, <1>11, <1>12
  DEF Next, Core0, HandleRequest, Core1, BufferLoadPending, BufferLoadActive, WriteDone, Seal,
      CommitLoadPending, CommitLoadActive, ResetDiagnostics, RequestReboot, Answer, TickStart,
      Dequeue, ActivateLoad, PublishLength, DrainEnd, Account, Step, shared, core0, core1, vars

LEMMA NextScalars == Protocol /\ ShadowInv /\ [Next]_vars => ScalarsSettled'
<1> SUFFICES ASSUME Protocol, ShadowInv, [Next]_vars PROVE ScalarsSettled'
  OBVIOUS
<1>1. StagedIsSent /\ ScalarsSettled /\ TypeOK
  BY DEF ShadowInv, Protocol, TypeInv
<1>2. Len(queue) \in Nat /\ queue \in Seq(Commands)
  BY <1>1, LenProperties DEF TypeOK
<1>3. ASSUME UNCHANGED <<queue, scalar, shadow>>
      PROVE  ScalarsSettled'
  BY <1>1, <1>3 DEF ScalarsSettled, Last
<1>4. CASE Enqueue
  <2>1. CASE Room
    <3>1. /\ Len(queue') = Len(queue) + 1
          /\ \A i \in 1..Len(queue) : queue'[i] = queue[i]
          /\ queue'[Len(queue) + 1] = cmd0 /\ scalar' = scalar
      <4>1. queue' = Append(queue, cmd0) /\ cmd0 \in Commands /\ scalar' = scalar
        BY <1>1, <1>4, <2>1 DEF Enqueue, TypeOK, HoldingToken, core1
      <4> QED BY <1>2, <4>1, AppendProperties, LenProperties
    <3>2. \A p \in Scalars : shadow'[p] = IF p # cmd0.target THEN shadow[p] ELSE set0
      BY <1>1, <1>4, <2>1 DEF Enqueue, Accept, TypeOK
    <3> SUFFICES ASSUME NEW p \in Scalars
                 PROVE  \/ /\ \A i \in 1..Len(queue') : queue'[i].target # p
                           /\ scalar'[p] = Encode[shadow'[p]]
                        \/ \E i \in 1..Len(queue') :
                              Last(p, i)' /\ queue'[i].payload = Encode[shadow'[p]]
      BY DEF ScalarsSettled
    <3>3. CASE p = cmd0.target
      <4>1. cmd0.payload = Encode[set0]
        BY <1>1, <1>4, <3>3 DEF Enqueue, StagedIsSent, InHand, HoldingToken
      <4>2. PICK k \in Nat : k = Len(queue) + 1
        BY <1>2
      <4>3. Last(p, k)' /\ k \in 1..Len(queue')
        BY <1>2, <3>1, <3>3, <4>2 DEF Last
      <4> QED BY <3>1, <3>2, <3>3, <4>1, <4>2, <4>3
    <3>4. CASE p # cmd0.target
      <4>1. CASE /\ \A i \in 1..Len(queue) : queue[i].target # p
                 /\ scalar[p] = Encode[shadow[p]]
        BY <1>2, <3>1, <3>2, <3>4, <4>1
      <4>2. ASSUME NEW i \in 1..Len(queue), Last(p, i), queue[i].payload = Encode[shadow[p]]
            PROVE  \E k \in 1..Len(queue') :
                      Last(p, k)' /\ queue'[k].payload = Encode[shadow'[p]]
        <5>1. i \in 1..Len(queue') /\ Last(p, i)'
          BY <1>2, <3>1, <3>4, <4>2 DEF Last
        <5> QED BY <3>1, <3>2, <3>4, <4>2, <5>1
      <4> QED BY <1>1, <4>1, <4>2 DEF ScalarsSettled
    <3> QED BY <3>3, <3>4
  <2>2. CASE ~Room
    BY <1>3, <1>4, <2>2 DEF Enqueue, core1
  <2> QED BY <2>1, <2>2
<1>5. CASE Dequeue
  <2>1. /\ Len(queue) \in Nat \ {0} /\ Len(queue') = Len(queue) - 1
        /\ \A i \in 1..Len(queue') : queue'[i] = queue[i + 1]
        /\ Head(queue) = queue[1] /\ queue[1] \in Commands /\ shadow' = shadow
    BY <1>2, <1>5, HeadTailProperties, EmptySeq, LenProperties DEF Dequeue, core0
  <2>2. \A p \in Scalars : scalar'[p] = IF queue[1].target = p THEN queue[1].payload ELSE scalar[p]
    BY <1>1, <1>5, <2>1 DEF Dequeue, TypeOK
  <2> SUFFICES ASSUME NEW p \in Scalars
               PROVE  \/ /\ \A i \in 1..Len(queue') : queue'[i].target # p
                         /\ scalar'[p] = Encode[shadow'[p]]
                      \/ \E i \in 1..Len(queue') :
                            Last(p, i)' /\ queue'[i].payload = Encode[shadow'[p]]
    BY DEF ScalarsSettled
  <2>3. CASE /\ \A i \in 1..Len(queue) : queue[i].target # p
             /\ scalar[p] = Encode[shadow[p]]
    <3>1. queue[1].target # p /\ \A i \in 1..Len(queue') : queue'[i].target # p
      BY <2>1, <2>3
    <3> QED BY <2>1, <2>2, <2>3, <3>1
  <2>4. ASSUME Last(p, 1), queue[1].payload = Encode[shadow[p]]
        PROVE  /\ \A i \in 1..Len(queue') : queue'[i].target # p
               /\ scalar'[p] = Encode[shadow'[p]]
    <3>1. \A i \in 1..Len(queue') : queue'[i].target # p
      BY <2>1, <2>4 DEF Last
    <3> QED BY <2>1, <2>2, <2>4, <3>1 DEF Last
  <2>5. ASSUME NEW i \in 1..Len(queue), i # 1, Last(p, i), queue[i].payload = Encode[shadow[p]]
        PROVE  \E k \in 1..Len(queue') :
                  Last(p, k)' /\ queue'[k].payload = Encode[shadow'[p]]
    <3>1. i - 1 \in 1..Len(queue') /\ queue'[i - 1] = queue[i]
      BY <2>1, <2>5
    <3>2. Last(p, i - 1)'
      BY <2>1, <2>5, <3>1 DEF Last
    <3> QED BY <2>1, <2>5, <3>1, <3>2
  <2> QED BY <1>1, <2>3, <2>4, <2>5 DEF ScalarsSettled
<1>6. CASE UNCHANGED <<queue, scalar, shadow>>
  BY <1>3, <1>6
<1> QED
  BY <1>4, <1>5, <1>6
  DEF Next, Core0, HandleRequest, Core1, StageScalar, BufferLoadPending, BufferLoadActive,
      WriteWord, WriteDone, Seal, CommitLoadPending, CommitLoadActive, Publish, Cancel,
      ResetDiagnostics, RequestReboot, TickStart, ActivateLoad, ActivateSwap, ActivateClear,
      PublishLength, DrainEnd, Account, Step, shared, core0, core1, vars

-----------------------------------------------------------------------------
(* FifoView element by element.                                            *)

LEMMA Cons ==
    ASSUME NEW n \in Nat, NEW f, f = [i \in 1..n |-> f[i]], NEW x
    PROVE  /\ <<x>> \o f = [i \in 1..(n + 1) |-> IF i = 1 THEN x ELSE f[i - 1]]
           /\ <<>> \o f = f
           /\ Len(<<x>> \o f) = n + 1 /\ Len(<<>> \o f) = n
<1> DEFINE S == {x} \cup {f[i] : i \in 1..n}
<1>1. f \in [1..n -> S]
  OBVIOUS
<1>2. f \in Seq(S) /\ Len(f) = n
  BY <1>1, FunctionIsSeq
<1>3. <<x>> \in Seq(S) /\ Len(<<x>>) = 1 /\ <<x>>[1] = x
  OBVIOUS
<1> HIDE DEF S
<1>4. <<>> \o f = f
  BY <1>2, ConcatEmptySeq
<1>5. /\ <<x>> \o f \in Seq(S)
      /\ Len(<<x>> \o f) = n + 1
      /\ \A i \in 1..(n + 1) : (<<x>> \o f)[i] = IF i <= 1 THEN <<x>>[i] ELSE f[i - 1]
  BY <1>2, <1>3, ConcatProperties
<1>6. <<x>> \o f \in [1..(n + 1) -> S]
  BY <1>5, LenProperties
<1>7. \A i \in 1..(n + 1) : (<<x>> \o f)[i] = IF i = 1 THEN x ELSE f[i - 1]
  BY <1>3, <1>5
<1> QED BY <1>2, <1>4, <1>5, <1>6, <1>7

(* Core 1 has taken a token out of the queue and not swapped banks yet.    *)
Taken == pc1 \in {"load", "swap"}
Shift == IF Taken THEN 1 ELSE 0

LEMMA FifoElements ==
    ASSUME Len(queue) \in Nat
    PROVE  /\ Len(FifoView) = Len(queue) + Shift
           /\ FifoView = [i \in 1..(Len(queue) + Shift) |->
                            Resolve(IF Taken /\ i = 1 THEN cmd1 ELSE queue[i - Shift])]
<1> DEFINE f == [i \in 1..Len(queue) |-> Resolve(queue[i])]
<1>1. f = [i \in 1..Len(queue) |-> f[i]]
  OBVIOUS
<1>2. CASE Taken
  <2>1. FifoView = <<Resolve(cmd1)>> \o f
    BY <1>2 DEF FifoView, Taken
  <2>2. \A i \in 1..(Len(queue) + 1) : i # 1 => i - 1 \in 1..Len(queue)
    OBVIOUS
  <2> HIDE DEF f
  <2>3. /\ FifoView = [i \in 1..(Len(queue) + 1) |-> IF i = 1 THEN Resolve(cmd1) ELSE f[i - 1]]
        /\ Len(FifoView) = Len(queue) + 1
    BY <1>1, <2>1, Cons
  <2>4. \A i \in 1..Len(queue) : f[i] = Resolve(queue[i])
    BY DEF f
  <2> QED BY <1>2, <2>2, <2>3, <2>4 DEF Shift
<1>3. CASE ~Taken
  <2>1. FifoView = <<>> \o f
    BY <1>3 DEF FifoView, Taken
  <2> HIDE DEF f
  <2>2. FifoView = f /\ Len(FifoView) = Len(queue)
    BY <1>1, <2>1, Cons
  <2>3. f = [i \in 1..Len(queue) |-> Resolve(queue[i])]
    BY DEF f
  <2> QED BY <1>3, <2>2, <2>3 DEF Shift
<1> QED BY <1>2, <1>3

LEMMA ResolveFields ==
    ASSUME NEW c
    PROVE  /\ Resolve(c).target = c.target
           /\ c.target \in Scalars => Resolve(c).value = c.payload
           /\ c.target \notin Scalars => Resolve(c).value = BankValue(c.target, c.payload.bank)
BY DEF Resolve

(* The target and the value of each update in FifoView.                    *)
LEMMA FifoAt ==
    ASSUME Protocol, NEW i \in 1..(Len(queue) + Shift)
    PROVE  /\ Taken /\ i = 1 => FifoView[i] = Resolve(cmd1)
           /\ ~(Taken /\ i = 1) => /\ i - Shift \in 1..Len(queue)
                                   /\ FifoView[i] = Resolve(queue[i - Shift])
<1>1. Len(queue) \in Nat
  BY EndPlaces DEF Protocol
<1>2. FifoView = [k \in 1..(Len(queue) + Shift) |->
                     Resolve(IF Taken /\ k = 1 THEN cmd1 ELSE queue[k - Shift])]
  BY <1>1, FifoElements
<1>3. ~(Taken /\ i = 1) => i - Shift \in 1..Len(queue)
  BY <1>1 DEF Shift
<1> QED BY <1>2, <1>3

(* An update of a buffer in FifoView is that buffer's token: the only one, *)
(* naming the published bank, and accepted.                                *)
LEMMA FifoToken ==
    ASSUME Protocol, NEW b \in Buffers,
           NEW i \in 1..(Len(queue) + Shift), FifoView[i].target = b
    PROVE  /\ pending[b] # NO_PENDING /\ ~InHand(b)
           /\ FifoView[i].value = BankValue(b, pending[b] - 1)
           /\ \A j \in 1..(Len(queue) + Shift) : FifoView[j].target = b => j = i
<1>1. Len(queue) \in Nat /\ 0 \in Places
  BY EndPlaces DEF Protocol
<1> DEFINE place(k) == IF Taken THEN k - 1 ELSE k
<1>2. ASSUME NEW k \in 1..(Len(queue) + Shift), FifoView[k].target = b
      PROVE  /\ place(k) \in Places /\ place(k) # Len(queue) + 1
             /\ Carries(b, place(k))
             /\ FifoView[k] = Resolve(Carried(place(k)))
             /\ Carried(place(k)).target = b
  <2>1. CASE Taken /\ k = 1
    <3>1. FifoView[k] = Resolve(cmd1) /\ place(k) = 0
      BY <2>1, FifoAt
    <3>2. cmd1.target = b
      BY <1>2, <3>1, ResolveFields
    <3>3. Carries(b, 0) /\ Carried(0) = cmd1
      BY <2>1, <3>2 DEF Carries, Carried, Taken, Activating
    <3> QED BY <1>1, <3>1, <3>2, <3>3
  <2>2. CASE ~(Taken /\ k = 1)
    <3>1. /\ k - Shift \in 1..Len(queue) /\ place(k) = k - Shift
          /\ FifoView[k] = Resolve(queue[place(k)])
      BY <1>1, <2>2, FifoAt DEF Shift
    <3>2. queue[place(k)].target = b
      BY <1>2, <3>1, ResolveFields
    <3>3. /\ place(k) \in Places /\ place(k) # Len(queue) + 1 /\ place(k) # 0
          /\ place(k) \in 1..Len(queue)
      BY <1>1, <3>1 DEF Places
    <3>4. Carries(b, place(k)) /\ Carried(place(k)) = queue[place(k)]
      BY <3>2, <3>3 DEF Carries, Carried
    <3> QED BY <3>1, <3>2, <3>3, <3>4
  <2> QED BY <2>1, <2>2
<1>3. /\ place(i) \in Places /\ place(i) # Len(queue) + 1
      /\ Carries(b, place(i))
      /\ FifoView[i] = Resolve(Carried(place(i)))
      /\ Carried(place(i)).target = b
  BY <1>2
<1>4. PICK p \in Places : p = place(i)
  BY <1>3
<1>5. /\ pending[b] # NO_PENDING
      /\ Carried(p).payload = [owner |-> b, bank |-> pending[b] - 1]
      /\ \A q \in Places : Carries(b, q) => q = p
  BY <1>3, <1>4, TokenAt DEF Protocol
<1>6. ~InHand(b)
  <2>1. InHand(b) => Carries(b, Len(queue) + 1) /\ Len(queue) + 1 \in Places
    BY <1>1 DEF InHand, Carries, Places
  <2> QED BY <1>3, <1>4, <1>5, <2>1
<1>7. FifoView[i].value = BankValue(b, pending[b] - 1)
  <2>1. b \notin Scalars
    BY TargetsDisjoint
  <2>2. FifoView[i].value = BankValue(b, Carried(p).payload.bank)
    BY <1>3, <1>4, <2>1, ResolveFields
  <2> QED BY <1>5, <2>2
<1>8. ASSUME NEW j \in 1..(Len(queue) + Shift), FifoView[j].target = b
      PROVE  j = i
  <2>1. place(j) = place(i)
    BY <1>2, <1>4, <1>5, <1>8
  <2> QED BY <1>1, <2>1 DEF Shift
<1> QED BY <1>5, <1>6, <1>7, <1>8

(* The last update queued for x, or its live value.                        *)
Settled(x) ==
    LET ahead == {i \in 1..Len(FifoView) : FifoView[i].target = x}
    IN  IF ahead = {} THEN LiveView[x]
        ELSE FifoView[CHOOSE i \in ahead : \A j \in ahead : j <= i].value

LEMMA SettledIs ==
    ASSUME NEW x
    PROVE  /\ (\A i \in 1..Len(FifoView) : FifoView[i].target # x) => Settled(x) = LiveView[x]
           /\ \A i \in 1..Len(FifoView) :
                 FifoView[i].target = x
                 /\ (\A j \in 1..Len(FifoView) : FifoView[j].target = x => j <= i)
                 /\ Len(FifoView) \in Nat
                 => Settled(x) = FifoView[i].value
<1> DEFINE ahead == {i \in 1..Len(FifoView) : FifoView[i].target = x}
<1>1. (\A i \in 1..Len(FifoView) : FifoView[i].target # x) => Settled(x) = LiveView[x]
  BY DEF Settled
<1>2. ASSUME NEW i \in 1..Len(FifoView), FifoView[i].target = x, Len(FifoView) \in Nat,
             \A j \in 1..Len(FifoView) : FifoView[j].target = x => j <= i
      PROVE  Settled(x) = FifoView[i].value
  <2>1. i \in ahead /\ \A j \in ahead : j <= i
    BY <1>2
  <2>2. \A k \in ahead : (\A j \in ahead : j <= k) => k = i
    BY <1>2, <2>1
  <2>3. (CHOOSE k \in ahead : \A j \in ahead : j <= k) = i
    BY <2>1, <2>2
  <2> QED BY <2>1, <2>3 DEF Settled
<1> QED BY <1>1, <1>2

LEMMA ShadowIsSettled == Protocol /\ ShadowInv => ReadBack
<1> SUFFICES ASSUME Protocol, ShadowInv PROVE ReadBack
  OBVIOUS
<1>1. TypeOK /\ BankDiscipline /\ CoeffsSettled /\ ScalarsSettled
  BY DEF Protocol, TypeInv, ShadowInv
<1>2. /\ Len(queue) \in Nat /\ Shift \in {0, 1} /\ Len(FifoView) = Len(queue) + Shift
      /\ Len(FifoView) \in Nat
  BY EndPlaces, FifoElements DEF Protocol, Shift
<1>3. ASSUME NEW p \in Scalars PROVE Settled(p) = Encode[shadow[p]]
  <2>1. Taken => cmd1.target # p
    BY <1>1, TargetsDisjoint DEF TypeOK, Taken, Activating
  <2>2. \A i \in 1..Len(FifoView) : FifoView[i].target = p =>
           i - Shift \in 1..Len(queue) /\ queue[i - Shift].target = p
    BY <1>2, <2>1, FifoAt, ResolveFields
  <2>3. LiveView[p] = scalar[p]
    BY DEF LiveView, Targets
  <2>4. CASE /\ \A i \in 1..Len(queue) : queue[i].target # p
             /\ scalar[p] = Encode[shadow[p]]
    BY <2>2, <2>3, <2>4, SettledIs
  <2>5. ASSUME NEW i \in 1..Len(queue), Last(p, i), queue[i].payload = Encode[shadow[p]]
        PROVE  Settled(p) = Encode[shadow[p]]
    <3>1. PICK k \in 1..Len(FifoView) : k = i + Shift /\ ~(Taken /\ k = 1) /\ k - Shift = i
      BY <1>2 DEF Shift
    <3>2. FifoView[k] = Resolve(queue[i])
      BY <1>2, <3>1, FifoAt
    <3>3. FifoView[k].target = p /\ FifoView[k].value = Encode[shadow[p]]
      BY <2>5, <3>2, ResolveFields DEF Last
    <3>4. \A j \in 1..Len(FifoView) : FifoView[j].target = p => j <= k
      BY <1>2, <2>2, <2>5, <3>1 DEF Last
    <3> QED BY <1>2, <3>3, <3>4, SettledIs
  <2> QED BY <1>1, <2>4, <2>5 DEF ScalarsSettled
<1>4. ASSUME NEW c \in Coeffs PROVE Settled(c) = shadow[c]
  <2>1. c \in Buffers /\ c \notin Tables /\ c \notin Scalars
    BY TargetsDisjoint DEF Buffers
  <2>2. \A k : BankValue(c, k) = banks[c][k]
    BY <2>1 DEF BankValue
  <2>3. ASSUME NEW i \in 1..Len(FifoView), FifoView[i].target = c
        PROVE  Settled(c) = shadow[c]
    <3>1. /\ pending[c] # NO_PENDING /\ ~InHand(c)
          /\ FifoView[i].value = banks[c][pending[c] - 1]
          /\ \A j \in 1..Len(FifoView) : FifoView[j].target = c => j = i
      BY <1>2, <2>1, <2>2, <2>3, FifoToken
    <3>2. \A j \in 1..Len(FifoView) : FifoView[j].target = c => j <= i
      BY <1>2, <3>1
    <3>3. Settled(c) = FifoView[i].value
      BY <1>2, <2>3, <3>2, SettledIs
    <3> QED BY <1>1, <3>1, <3>3 DEF CoeffsSettled
  <2>4. ASSUME \A i \in 1..Len(FifoView) : FifoView[i].target # c
        PROVE  Settled(c) = shadow[c]
    <3>1. Settled(c) = banks[c][current[c]]
      BY <2>1, <2>2, <2>4, SettledIs DEF LiveView, Targets
    <3>2. ASSUME pending[c] # NO_PENDING, ~InHand(c) PROVE pending[c] - 1 = current[c]
      <4>1. PICK i \in Places : Carries(c, i)
        BY <2>1, <3>2 DEF Protocol, TokenLinear
      <4>2. i \notin 1..Len(queue)
        <5> SUFFICES ASSUME i \in 1..Len(queue) PROVE FALSE
          OBVIOUS
        <5>1. queue[i].target = c
          BY <1>2, <4>1 DEF Carries
        <5>2. PICK k \in 1..Len(FifoView) : k = i + Shift /\ ~(Taken /\ k = 1) /\ k - Shift = i
          BY <1>2 DEF Shift
        <5>3. FifoView[k] = Resolve(queue[i])
          BY <1>2, <5>2, FifoAt
        <5> QED BY <2>4, <5>1, <5>3, ResolveFields
      <4>3. i = 0 /\ pc1 \in Activating /\ cmd1.target = c
        BY <3>2, <4>1, <4>2 DEF Carries, InHand
      <4>4. ~Taken
        <5> SUFFICES ASSUME Taken PROVE FALSE
          OBVIOUS
        <5>1. 1 \in 1..Len(FifoView) /\ 1 \in 1..(Len(queue) + Shift)
          BY <1>2 DEF Shift
        <5>2. FifoView[1] = Resolve(cmd1)
          BY <5>1, FifoAt
        <5> QED BY <2>4, <4>3, <5>1, <5>2, ResolveFields
      <4>5. pc1 = "clear"
        BY <4>3, <4>4 DEF Taken, Activating
      <4> QED BY <1>1, <2>1, <3>2, <4>3, <4>5 DEF BankDiscipline
    <3> QED BY <1>1, <3>1, <3>2 DEF CoeffsSettled
  <2> QED BY <2>3, <2>4
<1>5. Coeffs \cap Scalars = {}
  BY TargetsDisjoint DEF Buffers
<1>6. \A x \in Coeffs \cup Scalars :
         Settled(x) = (IF x \in Scalars THEN Encode[shadow[x]] ELSE shadow[x])
  BY <1>3, <1>4, <1>5
<1> QED BY <1>6 DEF ReadBack, Settled

LEMMA ShadowInvariant == Spec => []ShadowInv
<1>1. Init => ShadowInv BY InitShadow
<1>2. Protocol /\ ShadowInv /\ [Next]_vars => ShadowInv'
  BY NextStaged, NextCoeffs, NextScalars DEF ShadowInv
<1> QED BY <1>1, <1>2, ProtocolInvariant, PTL DEF Spec

(* A host reads back what core 1 has, or will have once it has applied the *)
(* commands already queued: for any number of outstanding updates, in any  *)
(* interleaving, refused ones included (finish_staged, reject and accept). *)
THEOREM ReadBackIsExact == Spec => []ReadBack
<1>1. Protocol /\ ShadowInv => ReadBack BY ShadowIsSettled
<1> QED BY <1>1, ProtocolInvariant, ShadowInvariant, PTL

-----------------------------------------------------------------------------
(* The parameter path implements ParamSpec.                                *)

LEMMA AppendIs ==
    ASSUME NEW n \in Nat, NEW f, f = [i \in 1..n |-> f[i]], NEW e
    PROVE  Append(f, e) = [i \in 1..(n + 1) |-> IF i = n + 1 THEN e ELSE f[i]]
<1> DEFINE S == {e} \cup {f[i] : i \in 1..n}
<1>1. f \in [1..n -> S] /\ e \in S
  OBVIOUS
<1>2. f \in Seq(S) /\ Len(f) = n
  BY <1>1, FunctionIsSeq
<1> HIDE DEF S
<1>3. /\ Append(f, e) \in Seq(S) /\ Len(Append(f, e)) = n + 1
      /\ \A i \in 1..n : Append(f, e)[i] = f[i]
      /\ Append(f, e)[n + 1] = e
  BY <1>1, <1>2, AppendProperties
<1>4. Append(f, e) \in [1..(n + 1) -> S]
  BY <1>3, LenProperties
<1>5. \A i \in 1..(n + 1) : Append(f, e)[i] = IF i = n + 1 THEN e ELSE f[i]
  BY <1>3
<1> QED BY <1>4, <1>5

LEMMA TailIs ==
    ASSUME NEW n \in Nat \ {0}, NEW f, f = [i \in 1..n |-> f[i]]
    PROVE  /\ f # <<>> /\ Head(f) = f[1]
           /\ Tail(f) = [i \in 1..(n - 1) |-> f[i + 1]]
<1> DEFINE S == {f[i] : i \in 1..n}
<1>1. f \in [1..n -> S]
  OBVIOUS
<1>2. f \in Seq(S) /\ Len(f) = n
  BY <1>1, FunctionIsSeq
<1> HIDE DEF S
<1>3. f # <<>>
  BY <1>2, EmptySeq
<1>4. /\ Tail(f) \in Seq(S) /\ Len(Tail(f)) = n - 1
      /\ \A i \in 1..(n - 1) : Tail(f)[i] = f[i + 1]
  BY <1>2, <1>3, HeadTailProperties
<1>5. Tail(f) \in [1..(n - 1) -> S]
  BY <1>4, LenProperties
<1>6. Head(f) = f[1]
  BY <1>2, <1>3
<1> QED BY <1>3, <1>4, <1>5, <1>6

FifoShape ==
    /\ Len(FifoView) = Len(queue) + Shift
    /\ FifoView = [i \in 1..(Len(queue) + Shift) |->
                     Resolve(IF Taken /\ i = 1 THEN cmd1 ELSE queue[i - Shift])]

LEMMA FifoHasShape == TypeOK => FifoShape
BY FifoElements, LenProperties DEF FifoShape, TypeOK

LEMMA FifoHasShapeNext == TypeOK' => FifoShape'
BY FifoHasShape, PTL

Contents == Protocol /\ TableInv /\ ShadowInv

LEMMA EmptyFunction ==
    ASSUME NEW f, DOMAIN f = {}, f = [i \in DOMAIN f |-> f[i]]
    PROVE  f = <<>>
<1>1. <<>> \in [1..0 -> {}]
  BY EmptySeq, LenProperties
<1>2. 1..0 = {}
  OBVIOUS
<1> QED BY <1>1, <1>2

LEMMA InitRefines == Init => Abstract!Init
<1> SUFFICES ASSUME Init PROVE Abstract!Init
  OBVIOUS
<1>1. TypeOK /\ queue = <<>> /\ ~Taken /\ Len(queue) = 0
  BY InitTypeInv DEF TypeInv, Init, Taken
<1>2. FifoView = <<>>
  <2>1. FifoView = [i \in 1..0 |-> Resolve(queue[i - 0])]
    BY <1>1, FifoHasShape DEF FifoShape, Shift
  <2> QED BY <2>1, EmptyFunction
<1>3. LiveView = StartValues
  <2>0. /\ LiveView = [x \in Targets |-> LiveView[x]]
        /\ StartValues = [x \in Targets |-> StartValues[x]]
    BY DEF LiveView, StartValues
  <2> SUFFICES ASSUME NEW x \in Targets PROVE LiveView[x] = StartValues[x]
    BY <2>0
  <2>1. CASE x \in Scalars
    <3>1. x \notin Coeffs
      BY <2>1, TargetsDisjoint DEF Buffers
    <3>2. LiveView[x] = Encode[Default]
      BY <2>1 DEF LiveView, Init
    <3> QED BY <2>1, <3>1, <3>2 DEF StartValues
  <2>2. CASE x \in Coeffs
    <3>1. x \notin Scalars /\ x \notin Tables /\ x \in Buffers
      BY <2>2, TargetsDisjoint DEF Buffers
    <3> QED BY <2>2, <3>1 DEF LiveView, StartValues, Init, BankValue, Banks
  <2>3. CASE x \in Tables
    <3>1. x \notin Scalars /\ x \notin Coeffs /\ x \in Buffers
      BY <2>3, TargetsDisjoint DEF Buffers
    <3>2. LiveView[x] = [w \in 0..(0 - 1) |-> banks[x][0][w]]
      BY <2>3, <3>1 DEF LiveView, Init, BankValue, Banks
    <3>3. LiveView[x] = <<>>
      BY <3>2, EmptyFunction
    <3>4. StartValues[x] = <<>>
      BY <3>1 DEF StartValues
    <3> QED BY <3>3, <3>4
  <2> QED BY <2>1, <2>2, <2>3 DEF Targets, Buffers
<1>4. reboot_requested = FALSE
  BY DEF Init
<1> QED BY <1>2, <1>3, <1>4 DEF Abstract!Init

(* Steps that touch no bank, no cached bank, no scalar and no command in   *)
(* flight leave both views alone.                                          *)
LEMMA ViewsUnchanged ==
    ASSUME TypeOK, TypeOK', UNCHANGED <<banks, length, current, scalar, queue, cmd1>>,
           Taken' = Taken
    PROVE  LiveView' = LiveView /\ FifoView' = FifoView
<1>1. \A b, k : BankValue(b, k)' = BankValue(b, k)
  BY DEF BankValue
<1>2. \A c : Resolve(c)' = Resolve(c)
  BY <1>1 DEF Resolve
<1>3. LiveView' = LiveView
  BY DEF LiveView, BankValue
<1>4. Shift' = Shift
  BY DEF Shift
<1>5. FifoView' = FifoView
  BY <1>2, <1>4, FifoHasShape, FifoHasShapeNext DEF FifoShape
<1> QED BY <1>3, <1>5

(* Writing a word or a length of the borrowed bank shows in neither view.  *)
LEMMA ViewsIgnoreBorrowed ==
    ASSUME Protocol, TypeOK', pc0 \in Borrowing,
           UNCHANGED <<current, scalar, queue, cmd1, pc1>>,
           \A b \in Buffers, k \in Banks :
               b # req.buf \/ k # bank0 => BankValue(b, k)' = BankValue(b, k)
    PROVE  LiveView' = LiveView /\ FifoView' = FifoView
<1>1. /\ req.buf \in Buffers /\ bank0 # current[req.buf] /\ pending[req.buf] = NO_PENDING
      /\ TypeOK
  BY BorrowedBank DEF Protocol, TypeInv
<1>2. LiveView' = LiveView
  <2>1. \A b \in Buffers : current[b] \in Banks /\ (b # req.buf \/ current[b] # bank0)
    BY <1>1 DEF TypeOK
  <2>2. \A b \in Buffers : BankValue(b, current[b])' = BankValue(b, current[b])
    <3> SUFFICES ASSUME NEW b \in Buffers
                 PROVE  BankValue(b, current[b])' = BankValue(b, current[b])
      OBVIOUS
    <3>1. PICK k \in Banks : k = current[b]
      BY <2>1
    <3>2. BankValue(b, k)' = BankValue(b, k)
      BY <2>1, <3>1
    <3>3. BankValue(b, current[b])' = BankValue(b, k)'
      BY <3>1 DEF BankValue
    <3> QED BY <3>1, <3>2, <3>3
  <2>3. \A x \in Targets : x \notin Scalars => x \in Buffers
    BY DEF Targets
  <2> QED BY <2>2, <2>3 DEF LiveView
<1>3. FifoView' = FifoView
  <2>1. /\ Len(queue) \in Nat /\ Taken' = Taken /\ Shift' = Shift
        /\ queue \in Seq(Commands)
    BY <1>1, LenProperties DEF TypeOK, Taken, Shift
  <2>2. ASSUME NEW i \in 1..(Len(queue) + Shift)
        PROVE  Resolve(IF Taken /\ i = 1 THEN cmd1 ELSE queue[i - Shift])'
                 = Resolve(IF Taken /\ i = 1 THEN cmd1 ELSE queue[i - Shift])
    <3> DEFINE c == IF Taken /\ i = 1 THEN cmd1 ELSE queue[i - Shift]
    <3>1. FifoView[i] = Resolve(c) /\ c \in Commands
      <4>1. ~(Taken /\ i = 1) => i - Shift \in 1..Len(queue) /\ queue[i - Shift] \in Commands
        BY <2>1, ElementOfSeq DEF Shift
      <4>2. Taken => cmd1 \in Commands
        BY <1>1 DEF TypeOK, Taken, Activating
      <4> QED BY <1>1, <4>1, <4>2, FifoHasShape DEF FifoShape
    <3>2. c' = c
      BY <2>1
    <3>3. c.target \in Scalars => Resolve(c)' = Resolve(c)
      BY <3>2 DEF Resolve
    <3>4. ASSUME c.target \notin Scalars PROVE Resolve(c)' = Resolve(c)
      <4>1. c.target \in Buffers /\ c.payload.bank \in Banks
        BY <3>1, <3>4, CommandPayload DEF Targets, Tokens
      <4>2. FifoView[i].target = c.target
        BY <3>1, ResolveFields
      <4>3. pending[c.target] # NO_PENDING
        BY <4>1, <4>2, FifoToken
      <4>4. c.target # req.buf
        BY <1>1, <4>3
      <4>5. PICK b \in Buffers, k \in Banks : b = c.target /\ k = c.payload.bank
        BY <4>1
      <4>6. BankValue(b, k)' = BankValue(b, k)
        BY <4>4, <4>5
      <4>7. BankValue(c.target, c.payload.bank)' = BankValue(b, k)'
        BY <3>2, <4>5 DEF BankValue
      <4> QED BY <3>2, <4>5, <4>6, <4>7 DEF Resolve
    <3> QED BY <3>3, <3>4
  <2> QED
    BY <1>1, <2>1, <2>2, FifoHasShape, FifoHasShapeNext DEF FifoShape
<1> QED BY <1>2, <1>3

LEMMA WriteWordHidden ==
    ASSUME Protocol, TypeOK', WriteWord
    PROVE  LiveView' = LiveView /\ FifoView' = FifoView
<1>1. pc0 \in Borrowing /\ UNCHANGED <<current, scalar, queue, cmd1, pc1, length>>
  BY DEF WriteWord, Borrowing, Staging, core1
<1>2. req.buf \in Buffers /\ bank0 \in Banks /\ TypeOK
  BY <1>1, BorrowedBank DEF Protocol, TypeInv
<1>3. \A b \in Buffers, k \in Banks : b # req.buf \/ k # bank0 => banks'[b][k] = banks[b][k]
  BY <1>2 DEF WriteWord, TypeOK
<1>4. \A b \in Buffers, k \in Banks :
         b # req.buf \/ k # bank0 => BankValue(b, k)' = BankValue(b, k)
  BY <1>1, <1>3 DEF BankValue
<1> QED BY <1>1, <1>4, ViewsIgnoreBorrowed

LEMMA SealHidden ==
    ASSUME Protocol, TypeOK', Seal
    PROVE  LiveView' = LiveView /\ FifoView' = FifoView
<1>1. pc0 \in Borrowing /\ UNCHANGED <<current, scalar, queue, cmd1, pc1, banks>>
  BY DEF Seal, Borrowing, Staging, core1
<1>2. /\ req.buf \in Tables /\ bank0 \in Banks /\ length \in [Tables -> [Banks -> 0..N]]
      /\ \/ length' = length
         \/ length' = [length EXCEPT ![req.buf][bank0] = req.len]
  BY <1>1, BorrowedBank DEF Seal, Protocol, TypeInv, TypeOK, Control, CommitRequests
<1>3. \A b \in Tables, k \in Banks : b # req.buf \/ k # bank0 => length'[b][k] = length[b][k]
  <2>1. CASE length' = [length EXCEPT ![req.buf][bank0] = req.len]
    BY <1>2, <2>1
  <2> QED BY <1>2, <2>1
<1>4. \A b \in Buffers, k \in Banks :
         b # req.buf \/ k # bank0 => BankValue(b, k)' = BankValue(b, k)
  BY <1>1, <1>3 DEF BankValue
<1> QED BY <1>1, <1>4, ViewsIgnoreBorrowed

(* The update a token in core 0's hand stands for is a legal one.          *)
LEMMA HandIsLegal ==
    ASSUME Contents, pc0 = "enqueue"
    PROVE  /\ cmd0 \in Commands
           /\ Resolve(cmd0).value \in LegalValues[cmd0.target]
<1>1. TypeOK /\ Control /\ TableContents /\ StagedIsSent
  BY DEF Contents, Protocol, TypeInv, TableInv, ShadowInv
<1>2. cmd0 \in Commands /\ InHand(cmd0.target) /\ cmd0.target \in Targets
  BY <1>1, CommandPayload DEF TypeOK, InHand, HoldingToken
<1>3. CASE cmd0.target \in Scalars
  <2>1. Resolve(cmd0).value = Encode[set0] /\ set0 \in Settings
    BY <1>1, <1>2, <1>3, ResolveFields DEF StagedIsSent, TypeOK
  <2>2. cmd0.target \notin Coeffs
    BY <1>3, TargetsDisjoint DEF Buffers
  <2>3. LegalValues[cmd0.target] = {Encode[v] : v \in Settings}
    BY <1>2, <1>3, <2>2 DEF LegalValues
  <2> QED BY <1>2, <2>1, <2>3
<1>4. CASE cmd0.target \in Coeffs
  <2>1. cmd0.target \notin Scalars /\ cmd0.target \notin Tables
    BY <1>4, TargetsDisjoint DEF Buffers
  <2>2. Resolve(cmd0).value = banks[cmd0.target][cmd0.payload.bank]
    BY <2>1, ResolveFields DEF BankValue
  <2>3. Resolve(cmd0).value = Sent(req)
    BY <1>1, <1>2, <1>4, <2>2 DEF StagedIsSent
  <2>4. req \in CoeffRequests /\ req.buf = cmd0.target
    BY <1>1, <1>2, <1>4 DEF Control, InHand
  <2>5. LegalValues[cmd0.target] = [Words(cmd0.target) -> Finite]
    BY <1>2, <1>4, <2>1 DEF LegalValues
  <2> QED BY <1>2, <2>3, <2>4, <2>5, SentWords
<1>5. CASE cmd0.target \in Tables
  <2>1. cmd0.target \notin Scalars /\ cmd0.target \notin Coeffs /\ cmd0.target \in Buffers
    BY <1>5, TargetsDisjoint DEF Buffers
  <2>0. pending[cmd0.target] - 1 \in Int
    <3>1. pending \in [Buffers -> 0..2]
      BY <1>1 DEF TypeOK
    <3>2. pending[cmd0.target] \in 0..2
      BY <2>1, <3>1
    <3> QED BY <3>2
  <2>2. PICK t \in Tables, k \in Int : t = cmd0.target /\ k = pending[t] - 1
    BY <1>5, <2>0
  <2>3. pending[t] # NO_PENDING /\ cmd0.payload = [owner |-> t, bank |-> k]
    BY <1>2, <2>1, <2>2, TokenPublished DEF Contents
  <2>4. Resolve(cmd0).value = BankValue(t, k)
    BY <2>1, <2>2, <2>3, ResolveFields
  <2>5. Sealed(t, k)
    BY <1>1, <2>2, <2>3 DEF TableContents
  <2>6. BankValue(t, k) \in [0..(length[t][k] - 1) -> Finite] /\ length[t][k] \in 2..N
    BY <2>5 DEF BankValue, Sealed, PrefixFinite
  <2>7. LegalValues[cmd0.target] = UNION {[0..(n - 1) -> Finite] : n \in 2..N}
    BY <1>2, <2>1 DEF LegalValues
  <2> QED BY <1>2, <2>4, <2>6, <2>7
<1> QED BY <1>2, <1>3, <1>4, <1>5 DEF Targets, Buffers

(* ParamStore's accept is the abstract Accept.                             *)
LEMMA EnqueueAccepts ==
    ASSUME Contents, TypeOK', Enqueue, Room
    PROVE  \E t \in Abstract!Targets : \E v \in LegalValues[t] : Abstract!Accept(t, v)
<1>1. /\ TypeOK /\ Protocol /\ pc0 = "enqueue"
      /\ queue \in Seq(Commands) /\ Len(queue) \in Nat /\ Len(queue) < QueueCap
  BY LenProperties DEF Contents, Protocol, TypeInv, TypeOK, Enqueue, Room
<1>2. /\ cmd0 \in Commands /\ cmd0.target \in Targets
      /\ Resolve(cmd0).value \in LegalValues[cmd0.target]
  BY <1>1, HandIsLegal, CommandPayload
<1>3. /\ queue' = Append(queue, cmd0)
      /\ UNCHANGED <<banks, length, current, scalar, cmd1, pc1>>
  BY DEF Enqueue, Room, core1
<1>4. /\ Len(queue') = Len(queue) + 1
      /\ \A i \in 1..Len(queue) : queue'[i] = queue[i]
      /\ queue'[Len(queue) + 1] = cmd0
  BY <1>1, <1>2, <1>3, AppendProperties, LenProperties
<1>5. /\ Taken' = Taken /\ Shift' = Shift /\ Shift \in {0, 1}
      /\ \A c : Resolve(c)' = Resolve(c)
  BY <1>3 DEF Taken, Shift, Resolve, BankValue
<1>6. LiveView' = LiveView
  BY <1>3 DEF LiveView, BankValue
<1>7. FifoShape /\ FifoShape'
  BY <1>1, FifoHasShape, FifoHasShapeNext
<1> DEFINE n == Len(queue) + Shift
<1>8. /\ n \in Nat /\ n < QueueCap + 1 /\ Len(queue') + Shift' = n + 1
      /\ n + 1 - Shift = Len(queue) + 1 /\ ~(Taken /\ n + 1 = 1)
      /\ \A i \in 1..n : i \in 1..(n + 1) /\ i # n + 1
                         /\ (~(Taken /\ i = 1) => i - Shift \in 1..Len(queue))
  BY <1>1, <1>4, <1>5, SizesAssumption DEF Shift
<1>9. FifoView = [i \in 1..n |-> FifoView[i]] /\ Len(FifoView) = n
  BY <1>7 DEF FifoShape
<1>10. FifoView' = Append(FifoView, Resolve(cmd0))
  <2>1. FifoView' = [i \in 1..(n + 1) |->
                       Resolve(IF Taken /\ i = 1 THEN cmd1 ELSE queue'[i - Shift])]
    BY <1>3, <1>5, <1>7, <1>8 DEF FifoShape
  <2>2. \A i \in 1..(n + 1) :
           FifoView'[i] = IF i = n + 1 THEN Resolve(cmd0) ELSE FifoView[i]
    <3> SUFFICES ASSUME NEW i \in 1..(n + 1)
                 PROVE  FifoView'[i] = IF i = n + 1 THEN Resolve(cmd0) ELSE FifoView[i]
      OBVIOUS
    <3>1. FifoView'[i] = Resolve(IF Taken /\ i = 1 THEN cmd1 ELSE queue'[i - Shift])
      BY <2>1
    <3>2. CASE i = n + 1
      <4>1. i - Shift = Len(queue) + 1 /\ ~(Taken /\ i = 1)
        BY <1>1, <1>5, <3>2 DEF Shift
      <4> QED BY <1>4, <3>1, <3>2, <4>1
    <3>3. CASE i # n + 1
      <4>1. i \in 1..n
        BY <1>8, <3>3
      <4>2. FifoView[i] = Resolve(IF Taken /\ i = 1 THEN cmd1 ELSE queue[i - Shift])
        BY <1>7, <4>1 DEF FifoShape
      <4> QED BY <1>4, <1>8, <3>1, <3>3, <4>1, <4>2
    <3> QED BY <3>2, <3>3
  <2> HIDE DEF n
  <2>3. Append(FifoView, Resolve(cmd0))
          = [i \in 1..(n + 1) |-> IF i = n + 1 THEN Resolve(cmd0) ELSE FifoView[i]]
    BY <1>8, <1>9, AppendIs
  <2> QED BY <2>1, <2>2, <2>3
<1>11. cmd0.target \in Buffers => ~Abstract!Outstanding(cmd0.target)
  <2>1. InHand(cmd0.target)
    BY <1>1 DEF InHand, HoldingToken
  <2> QED BY <1>1, <1>9, <2>1, FifoToken DEF Abstract!Outstanding
<1>12. Resolve(cmd0) = [target |-> cmd0.target, value |-> Resolve(cmd0).value]
  BY DEF Resolve
<1>13. Abstract!Accept(cmd0.target, Resolve(cmd0).value)
  <2>1. UNCHANGED reboot_requested
    BY DEF Enqueue
  <2> QED BY <1>6, <1>8, <1>9, <1>10, <1>11, <1>12, <2>1 DEF Abstract!Accept
<1>14. cmd0.target \in Abstract!Targets
  BY <1>2 DEF Targets, Abstract!Targets
<1> QED BY <1>2, <1>13, <1>14

(* A dequeued scalar is the abstract Apply.                                *)
LEMMA ScalarApplies ==
    ASSUME Contents, TypeOK', Dequeue, Head(queue).target \in Scalars
    PROVE  Abstract!Apply
<1>1. /\ TypeOK /\ queue # <<>> /\ queue \in Seq(Commands)
      /\ queue' = Tail(queue) /\ pc1 = "drain"
      /\ scalar' = [scalar EXCEPT ![Head(queue).target] = Head(queue).payload]
      /\ UNCHANGED <<banks, length, current, pc1>>
  BY DEF Contents, Protocol, TypeInv, TypeOK, Dequeue
<1>2. /\ Len(queue) \in Nat \ {0} /\ Len(queue') = Len(queue) - 1
      /\ \A i \in 1..Len(queue') : queue'[i] = queue[i + 1]
      /\ Head(queue) = queue[1] /\ Head(queue) \in Commands
  BY <1>1, HeadTailProperties, EmptySeq, LenProperties
<1>3. ~Taken /\ ~Taken' /\ Shift = 0 /\ Shift' = 0
  BY <1>1 DEF Taken, Shift
<1>4. \A c : Resolve(c)' = Resolve(c)
  BY <1>1 DEF Resolve, BankValue
<1>5. /\ FifoView = [i \in 1..Len(queue) |-> Resolve(queue[i])]
      /\ FifoView' = [i \in 1..Len(queue') |-> Resolve(queue'[i])]
  <2>1. FifoShape /\ FifoShape'
    BY <1>1, FifoHasShape, FifoHasShapeNext
  <2>2. Len(queue') \in Nat
    BY <1>2
  <2> QED BY <1>2, <1>3, <1>4, <2>1, <2>2 DEF FifoShape
<1>6. FifoView = [i \in 1..Len(queue) |-> FifoView[i]]
  BY <1>5
<1>7. /\ FifoView # <<>> /\ Head(FifoView) = Resolve(queue[1])
      /\ Tail(FifoView) = [i \in 1..(Len(queue) - 1) |-> FifoView[i + 1]]
  <2>1. FifoView[1] = Resolve(queue[1])
    BY <1>2, <1>5
  <2> QED BY <1>2, <1>6, <2>1, TailIs
<1>8. FifoView' = Tail(FifoView)
  <2>1. \A i \in 1..(Len(queue) - 1) : FifoView[i + 1] = Resolve(queue[i + 1])
    BY <1>2, <1>5
  <2> QED BY <1>2, <1>5, <1>7, <2>1
<1>9. LiveView' = [LiveView EXCEPT ![Head(FifoView).target] = Head(FifoView).value]
  <2>1. PICK p \in Scalars : p = queue[1].target /\ p \in Targets
    BY <1>2 DEF Targets
  <2>2. Head(FifoView).target = p /\ Head(FifoView).value = queue[1].payload
    BY <1>7, <2>1, ResolveFields
  <2>3. \A x \in Scalars : scalar'[x] = IF x = p THEN queue[1].payload ELSE scalar[x]
    BY <1>1, <1>2, <2>1 DEF TypeOK
  <2>4. \A x \in Targets : LiveView'[x] = IF x = p THEN queue[1].payload ELSE LiveView[x]
    BY <1>1, <2>1, <2>3 DEF LiveView, BankValue
  <2>5. LiveView' = [x \in Targets |-> LiveView'[x]] /\ LiveView = [x \in Targets |-> LiveView[x]]
    BY DEF LiveView
  <2> QED BY <2>1, <2>2, <2>4, <2>5
<1>10. UNCHANGED reboot_requested
  BY DEF Dequeue
<1> QED BY <1>7, <1>8, <1>9, <1>10 DEF Abstract!Apply

(* A token that leaves the queue for core 1's hand is still outstanding.   *)
LEMMA TokenStaysQueued ==
    ASSUME Contents, TypeOK', Dequeue, Head(queue).target \notin Scalars
    PROVE  LiveView' = LiveView /\ FifoView' = FifoView
<1>1. /\ TypeOK /\ queue # <<>> /\ queue \in Seq(Commands)
      /\ queue' = Tail(queue) /\ pc1 = "drain" /\ pc1' = "load" /\ cmd1' = Head(queue)
      /\ UNCHANGED <<banks, length, current, scalar>>
  BY DEF Contents, Protocol, TypeInv, TypeOK, Dequeue
<1>2. /\ Len(queue) \in Nat \ {0} /\ Len(queue') = Len(queue) - 1
      /\ \A i \in 1..Len(queue') : queue'[i] = queue[i + 1]
      /\ Head(queue) = queue[1]
  BY <1>1, HeadTailProperties, EmptySeq, LenProperties
<1>3. ~Taken /\ Taken' /\ Shift = 0 /\ Shift' = 1
  BY <1>1 DEF Taken, Shift
<1>4. \A c : Resolve(c)' = Resolve(c)
  BY <1>1 DEF Resolve, BankValue
<1>5. FifoShape /\ FifoShape'
  BY <1>1, FifoHasShape, FifoHasShapeNext
<1>6. FifoView = [i \in 1..Len(queue) |-> Resolve(queue[i])]
  BY <1>2, <1>3, <1>5 DEF FifoShape
<1>7. FifoView' = [i \in 1..Len(queue) |-> Resolve(IF i = 1 THEN cmd1' ELSE queue'[i - 1])]
  BY <1>2, <1>3, <1>4, <1>5 DEF FifoShape
<1>8. \A i \in 1..Len(queue) : (IF i = 1 THEN cmd1' ELSE queue'[i - 1]) = queue[i]
  BY <1>1, <1>2
<1>9. LiveView' = LiveView
  BY <1>1 DEF LiveView, BankValue
<1> QED BY <1>6, <1>7, <1>8, <1>9

(* Swapping banks is the abstract Apply.                                   *)
LEMMA SwapApplies ==
    ASSUME Contents, TypeOK', ActivateSwap
    PROVE  Abstract!Apply
<1>1. /\ TypeOK /\ Protocol /\ pc1 = "swap" /\ pc1' = "clear"
      /\ current' = [current EXCEPT ![cmd1.target] = cmd1.payload.bank]
      /\ UNCHANGED <<banks, length, queue, cmd1, scalar>>
      /\ Len(queue) \in Nat
  BY LenProperties DEF Contents, Protocol, TypeInv, TypeOK, ActivateSwap
<1>k. PICK k : k = cmd1.payload.bank
  OBVIOUS
<1>2. PICK b \in Buffers : b = cmd1.target /\ k = cmd1.payload.bank /\ b \in Targets
  BY <1>1, <1>k, TokenInHand DEF Activating, Targets
<1>3. Taken /\ ~Taken' /\ Shift = 1 /\ Shift' = 0
  BY <1>1 DEF Taken, Shift
<1>4. \A c : Resolve(c)' = Resolve(c)
  BY <1>1 DEF Resolve, BankValue
<1>5. FifoShape /\ FifoShape'
  BY <1>1, FifoHasShape, FifoHasShapeNext
<1>6. FifoView = [i \in 1..(Len(queue) + 1) |-> Resolve(IF i = 1 THEN cmd1 ELSE queue[i - 1])]
  BY <1>3, <1>5 DEF FifoShape
<1>7. FifoView' = [i \in 1..Len(queue) |-> Resolve(queue[i])]
  BY <1>1, <1>3, <1>4, <1>5 DEF FifoShape
<1>8. FifoView = [i \in 1..(Len(queue) + 1) |-> FifoView[i]]
  BY <1>6
<1>9. /\ FifoView # <<>> /\ Head(FifoView) = Resolve(cmd1)
      /\ Tail(FifoView) = [i \in 1..Len(queue) |-> FifoView[i + 1]]
  <2>1. /\ FifoView[1] = Resolve(cmd1) /\ Len(queue) + 1 \in Nat \ {0}
        /\ (Len(queue) + 1) - 1 = Len(queue)
    BY <1>1, <1>6
  <2>2. Tail(FifoView) = [i \in 1..((Len(queue) + 1) - 1) |-> FifoView[i + 1]]
        /\ FifoView # <<>> /\ Head(FifoView) = FifoView[1]
    BY <1>8, <2>1, TailIs
  <2> QED BY <2>1, <2>2
<1>10. FifoView' = Tail(FifoView)
  <2>1. \A i \in 1..Len(queue) : FifoView[i + 1] = Resolve(queue[i])
    BY <1>1, <1>6
  <2> QED BY <1>7, <1>9, <2>1
<1>11. LiveView' = [LiveView EXCEPT ![Head(FifoView).target] = Head(FifoView).value]
  <2>1. b \notin Scalars
    BY TargetsDisjoint
  <2>2. Head(FifoView).target = b /\ Head(FifoView).value = BankValue(b, k)
    BY <1>2, <1>9, <2>1, ResolveFields
  <2>3. \A x \in Buffers : current'[x] = IF x = b THEN k ELSE current[x]
    BY <1>1, <1>2 DEF TypeOK
  <2>4. \A x \in Targets : x \notin Scalars => x \in Buffers
    BY DEF Targets
  <2>5. \A x \in Targets : LiveView'[x] = IF x = b THEN BankValue(b, k) ELSE LiveView[x]
    <3> SUFFICES ASSUME NEW x \in Targets
                 PROVE  LiveView'[x] = IF x = b THEN BankValue(b, k) ELSE LiveView[x]
      OBVIOUS
    <3>1. CASE x \in Scalars
      BY <1>1, <2>1, <3>1 DEF LiveView
    <3>2. CASE x \notin Scalars
      <4>1. LiveView'[x] = BankValue(x, current[x])' /\ LiveView[x] = BankValue(x, current[x])
        BY <3>2 DEF LiveView
      <4>2. x \in Buffers /\ BankValue(x, current[x])' = BankValue(x, current'[x])
        BY <1>1, <2>4, <3>2 DEF BankValue
      <4> QED BY <2>3, <4>1, <4>2
    <3> QED BY <3>1, <3>2
  <2>6. LiveView' = [x \in Targets |-> LiveView'[x]] /\ LiveView = [x \in Targets |-> LiveView[x]]
    BY DEF LiveView
  <2> QED BY <1>2, <2>2, <2>5, <2>6
<1>12. UNCHANGED reboot_requested
  BY DEF ActivateSwap
<1> QED BY <1>9, <1>10, <1>11, <1>12 DEF Abstract!Apply

(* Every step of either core is an abstract step or shows in neither view. *)
LEMMA StepRefines == Contents /\ [Next]_vars => [Abstract!Next]_(Abstract!vars)
<1> SUFFICES ASSUME Contents, [Next]_vars
             PROVE  \/ Abstract!Next
                    \/ /\ LiveView' = LiveView /\ FifoView' = FifoView
                       /\ reboot_requested' = reboot_requested
  BY DEF Abstract!vars
<1>1. TypeOK /\ TypeOK' /\ Protocol
  BY NextTypeInv DEF Contents, Protocol, TypeInv
<1>2. CASE Enqueue /\ Room
  BY <1>1, <1>2, EnqueueAccepts DEF Abstract!Next
<1>3. CASE Dequeue
  <2>1. CASE Head(queue).target \in Scalars
    BY <1>1, <1>3, <2>1, ScalarApplies DEF Abstract!Next
  <2>2. CASE Head(queue).target \notin Scalars
    BY <1>1, <1>3, <2>2, TokenStaysQueued DEF Dequeue
  <2> QED BY <2>1, <2>2
<1>4. CASE ActivateSwap
  BY <1>1, <1>4, SwapApplies DEF Abstract!Next
<1>5. CASE WriteWord
  BY <1>1, <1>5, WriteWordHidden DEF WriteWord
<1>6. CASE Seal
  BY <1>1, <1>6, SealHidden DEF Seal
<1>7. CASE ActivateLoad
  <2>1. pc1' = "swap" /\ pc1 = "load"
    BY <1>1, <1>7, TokenInHand DEF ActivateLoad, Activating
  <2>2. Taken' = Taken
    BY <2>1 DEF Taken
  <2> QED BY <1>1, <1>7, <2>2, ViewsUnchanged DEF ActivateLoad, shared
<1>8. CASE Step
  <2>1. ~Taken /\ ~Taken' /\ Shift = 0 /\ Shift' = 0
    BY <1>8 DEF Step, Taken, Shift
  <2>2. LiveView' = LiveView
    BY <1>8 DEF Step, LiveView, BankValue, shared
  <2>3. UNCHANGED <<banks, length, queue>>
    BY <1>8 DEF Step, shared
  <2>4. \A c : Resolve(c)' = Resolve(c)
    BY <2>3 DEF Resolve, BankValue
  <2>5. FifoView' = FifoView
    BY <1>1, <2>1, <2>3, <2>4, FifoHasShape, FifoHasShapeNext DEF FifoShape
  <2>6. UNCHANGED reboot_requested
    BY <1>8 DEF Step, shared
  <2> QED BY <2>2, <2>5, <2>6
<1>9. CASE TickStart \/ ActivateClear \/ PublishLength \/ DrainEnd \/ Account
  <2>1. ~Taken /\ ~Taken'
    BY <1>9 DEF TickStart, ActivateClear, AfterActivate, PublishLength, DrainEnd, Account, Taken
  <2>2. UNCHANGED <<banks, length, current, scalar, queue, cmd1>>
    BY <1>9 DEF TickStart, ActivateClear, PublishLength, DrainEnd, Account, shared
  <2>3. Taken' = Taken
    BY <2>1 DEF Taken
  <2>4. UNCHANGED reboot_requested
    BY <1>9 DEF TickStart, ActivateClear, PublishLength, DrainEnd, Account, shared
  <2> QED BY <1>1, <2>2, <2>3, <2>4, ViewsUnchanged
<1>10. CASE UNCHANGED <<banks, length, current, scalar, queue, cmd1, pc1, reboot_requested>>
  <2>1. Taken' = Taken
    BY <1>10 DEF Taken
  <2> QED BY <1>1, <1>10, <2>1, ViewsUnchanged
<1>11. CASE RequestReboot
  <2>1. UNCHANGED <<banks, length, current, scalar, queue, cmd1, pc1>> /\ reboot_requested' = TRUE
    BY <1>11 DEF RequestReboot, core1
  <2>2. Taken' = Taken
    BY <2>1 DEF Taken
  <2>3. LiveView' = LiveView /\ FifoView' = FifoView
    BY <1>1, <2>1, <2>2, ViewsUnchanged
  <2> QED BY <2>1, <2>3 DEF Abstract!Next, Abstract!Stop
<1> QED
  BY <1>2, <1>3, <1>4, <1>5, <1>6, <1>7, <1>8, <1>9, <1>10, <1>11
  DEF Next, Core0, HandleRequest, Core1, StageScalar, BufferLoadPending, BufferLoadActive,
      WriteDone, CommitLoadPending, CommitLoadActive, Publish, Enqueue, Cancel,
      ResetDiagnostics, shared, core1, vars

(* The safety part of AtomicUpdates, for every number of buffers, tables   *)
(* and scalars, every table size and queue depth: an update that           *)
(* ParamStore accepts reaches core 1 whole, in order and once, and nothing *)
(* else changes a value core 1 computes with (Staging, Active, the drain). *)
THEOREM UpdatesAreAtomic == Spec => Abstract!Init /\ [][Abstract!Next]_(Abstract!vars)
<1>1. Init => Abstract!Init BY InitRefines
<1>2. Contents /\ [Next]_vars => [Abstract!Next]_(Abstract!vars) BY StepRefines
<1>3. Protocol /\ TableInv /\ ShadowInv => Contents BY DEF Contents
<1> QED
  BY <1>1, <1>2, <1>3, ProtocolInvariant, TableInvariant, ShadowInvariant, PTL DEF Spec

=============================================================================
