---------------------------- MODULE CommandPath ----------------------------
(***************************************************************************)
(* The parameter path between the two cores of the firmware.               *)
(*                                                                         *)
(* Core 0 answers a host request: ParamStore stages it in a parameter      *)
(* group, publishes a double-buffer bank when the value is wider than one  *)
(* word, and enqueues a command.  Core 1 drains at most CommandsPerTick    *)
(* commands at each sample boundary and activates the published banks.     *)
(* The cores share the command queue and, per buffer, the atomics          *)
(* "active" and "pending" and the two banks.  Every access to shared       *)
(* memory is a step of its own; core 0 handles one request at a time       *)
(* (the handlers await nothing), core 1 never waits for core 0.            *)
(***************************************************************************)
EXTENDS Naturals, Sequences

CONSTANTS
    Coeffs,           \* double buffers of Fourier coefficients
    Tables,           \* double buffers of waveform tables
    Scalars,          \* parameters that fit in one command word
    Finite,           \* finite f32 values
    NaN,              \* stands for every non-finite f32
    Zero,             \* the value static storage starts with
    CoeffLen,         \* words of a coefficient vector, 1 + 2H
    N,                \* words of a waveform table
    MaxBlock,         \* most words one SetBlock frame carries
    Settings,         \* scalar values a group's validation lets through
    Encode,           \* Encode[v]: the command word of setting v
    Default,          \* the setting every scalar starts with
    QueueCap,         \* commands the queue holds (COMMAND_QUEUE_LEN - 1)
    CommandsPerTick   \* commands core 1 applies at one sample boundary

Buffers == Coeffs \cup Tables
Targets == Buffers \cup Scalars
Banks == {0, 1}
NO_PENDING == 0
Values == Finite \cup {NaN}
Words(b) == 0..((IF b \in Tables THEN N ELSE CoeffLen) - 1)

ASSUME TargetsDisjoint ==
    /\ Coeffs \cap Tables = {}
    /\ Buffers \cap Scalars = {}
ASSUME ValuesAssumption == Zero \in Finite /\ NaN \notin Finite
ASSUME SizesAssumption ==
    /\ CoeffLen \in Nat \ {0}
    /\ N \in Nat \ {0, 1}
    /\ MaxBlock \in Nat
    /\ QueueCap \in Nat \ {0}
    /\ CommandsPerTick \in Nat \ {0}
ASSUME SettingsAssumption ==
    /\ Default \in Settings
    /\ Encode \in [Settings -> Values]

(* A command as it crosses the queue: the address the store built for it   *)
(* (domain and id, here the target) and its payload, a linear token for a  *)
(* buffer and one word for a scalar.                                       *)
Tokens == [owner : Buffers, bank : Banks]
Commands == [target : Buffers, payload : Tokens]
              \cup [target : Scalars, payload : Values]

(* Requests that reach a double buffer.  Coefficients were checked finite  *)
(* and blocks were checked to fit the table before the buffer is touched.  *)
BoundedSeq(S, n) == UNION {[1..k -> S] : k \in 0..n}
CoeffRequests ==
    [op : {"coeffs"}, buf : Coeffs, offset : {0}, words : [1..CoeffLen -> Finite]]
BlockRequests ==
    {r \in [op : {"block"}, buf : Tables, offset : 0..N,
            words : BoundedSeq(Values, MaxBlock)] : r.offset + Len(r.words) <= N}
CommitRequests == [op : {"commit"}, buf : Tables, len : 2..N]
Requests == CoeffRequests \cup BlockRequests \cup CommitRequests

VARIABLES
    \* Shared memory
    banks,    \* banks[b][k][w]: word w of bank k of buffer b
    length,   \* length[t][k]: the length field of bank k of table t
    active,   \* active[b]: the atomic naming the live bank
    pending,  \* pending[b]: the atomic holding published bank + 1, or 0
    queue,    \* the single-producer single-consumer command queue
    table_len,\* live.active_table_len of each table
    command_backlog_max,
    reboot_requested, \* RebootShared has left its idle state
    \* Core 0
    pc0,      \* the next step of the request being handled
    req,      \* that request
    bank0,    \* the bank it works on
    at,       \* words of the request already written
    cmd0,     \* the command being enqueued
    set0,     \* the group's pending setting, adopted by accept
    shadow,   \* what a host reads back: accepted coefficients and settings
    \* Core 1
    pc1,      \* the next step of the tick
    current,  \* current[b]: the cached bank core 1 reads
    cmd1,     \* the command being applied
    applied,  \* commands taken at this boundary
    scalar    \* scalar[p]: the word core 1 computes with

shared == <<banks, length, active, pending, queue, table_len, command_backlog_max,
            reboot_requested>>
core0 == <<pc0, req, bank0, at, cmd0, set0, shadow>>
core1 == <<pc1, current, cmd1, applied, scalar>>
vars == <<shared, core0, core1>>

NoRequest == [op |-> "none"]
NoCommand == [target |-> "none"]

Init ==
    /\ banks = [b \in Buffers |-> [k \in Banks |-> [w \in Words(b) |-> Zero]]]
    /\ length = [t \in Tables |-> [k \in Banks |-> 0]]
    /\ active = [b \in Buffers |-> 0]
    /\ pending = [b \in Buffers |-> NO_PENDING]
    /\ queue = <<>>
    /\ table_len = [t \in Tables |-> 0]
    /\ command_backlog_max = 0
    /\ reboot_requested = FALSE
    /\ pc0 = "idle"
    /\ req = NoRequest
    /\ bank0 = 0
    /\ at = 0
    /\ cmd0 = NoCommand
    /\ set0 = Default
    /\ shadow = [x \in Coeffs \cup Scalars |->
                   IF x \in Coeffs THEN [w \in Words(x) |-> Zero] ELSE Default]
    /\ pc1 = "wait"
    /\ current = [b \in Buffers |-> 0]
    /\ cmd1 = NoCommand
    /\ applied = 0
    /\ scalar = [p \in Scalars |-> Encode[Default]]

-----------------------------------------------------------------------------
(* Core 0.                                                                 *)

(* A handler returns: its locals and the group's pending value are gone.   *)
Answer ==
    /\ pc0' = "idle"
    /\ req' = NoRequest
    /\ bank0' = 0
    /\ at' = 0
    /\ cmd0' = NoCommand
    /\ set0' = Default

(* Staging's two loads: is nothing published, and which bank is inactive?  *)
(* (Mutant: the bank core 1 reads.)                                        *)
Free(b) == pending[b] = NO_PENDING

InactiveWrong(b) == active[b]
Inactive(b) == 1 - active[b]

(* ParamStore::set on a scalar: the group keeps the validated setting as   *)
(* pending and hands back the command word.                                *)
StageScalar(p, v) ==
    /\ pc0 = "idle"
    /\ set0' = v
    /\ cmd0' = [target |-> p, payload |-> Encode[v]]
    /\ pc0' = "enqueue"
    /\ UNCHANGED <<shared, core1, req, bank0, at, shadow>>

(* Staging::buffer, first load: a published bank answers Busy.             *)
BufferLoadPending(r) ==
    /\ pc0 = "idle"
    /\ IF Free(r.buf)
         THEN /\ req' = r
              /\ pc0' = "pick"
              /\ UNCHANGED <<bank0, at, cmd0, set0>>
         ELSE Answer
    /\ UNCHANGED <<shared, core1, shadow>>

(* Staging::buffer, second load: the inactive bank is borrowed.            *)
BufferLoadActive ==
    /\ pc0 = "pick"
    /\ bank0' = Inactive(req.buf)
    /\ pc0' = IF req.op = "commit" THEN "seal" ELSE "write"
    /\ UNCHANGED <<shared, core1, req, at, cmd0, set0, shadow>>

(* One word of the coefficient copy or of WaveTable::write_block.          *)
WriteWord ==
    /\ pc0 = "write"
    /\ at < Len(req.words)
    /\ banks' = [banks EXCEPT ![req.buf][bank0][req.offset + at] = req.words[at + 1]]
    /\ at' = at + 1
    /\ UNCHANGED <<length, active, pending, queue, table_len, command_backlog_max,
                   reboot_requested, pc0, req, bank0, cmd0, set0, shadow, core1>>

(* All words are written: coefficients go on to the commit, a table block  *)
(* answers Ok and stays staged.                                            *)
WriteDone ==
    /\ pc0 = "write"
    /\ at = Len(req.words)
    /\ IF req.op = "coeffs"
         THEN pc0' = "commit" /\ UNCHANGED <<req, bank0, at, cmd0, set0>>
         ELSE Answer
    /\ UNCHANGED <<shared, core1, shadow>>

(* TableGroup::stage_commit on the borrowed bank: a non-finite word in the *)
(* committed prefix answers BadValue, otherwise the length is recorded.    *)
(* (Mutant: the last word of the prefix is not looked at.)                 *)
PrefixFiniteShort(words, len) == \A w \in 0..(len - 2) : words[w] \in Finite
PrefixFinite(words, len) == \A w \in 0..(len - 1) : words[w] \in Finite

Seal ==
    /\ pc0 = "seal"
    /\ IF PrefixFinite(banks[req.buf][bank0], req.len)
         THEN /\ length' = [length EXCEPT ![req.buf][bank0] = req.len]
              /\ pc0' = "commit"
              /\ UNCHANGED <<req, bank0, at, cmd0, set0>>
         ELSE Answer /\ UNCHANGED length
    /\ UNCHANGED <<banks, active, pending, queue, table_len, command_backlog_max,
                   reboot_requested, shadow, core1>>

(* Staging::commit: load pending, load active, store pending.              *)
CommitLoadPending ==
    /\ pc0 = "commit"
    /\ IF Free(req.buf)
         THEN pc0' = "bank" /\ UNCHANGED <<req, bank0, at, cmd0, set0>>
         ELSE Answer
    /\ UNCHANGED <<shared, core1, shadow>>

CommitLoadActive ==
    /\ pc0 = "bank"
    /\ bank0' = Inactive(req.buf)
    /\ pc0' = "publish"
    /\ UNCHANGED <<shared, core1, req, at, cmd0, set0, shadow>>

Publish ==
    /\ pc0 = "publish"
    /\ pending' = [pending EXCEPT ![req.buf] = bank0 + 1]
    /\ cmd0' = [target |-> req.buf,
                payload |-> [owner |-> req.buf, bank |-> bank0]]
    /\ pc0' = "enqueue"
    /\ UNCHANGED <<banks, length, active, queue, table_len, command_backlog_max,
                   reboot_requested, req, bank0, at, set0, shadow, core1>>

(* ParamStore::finish_staged: an accepted command updates the group's      *)
(* shadow (a table keeps none); a full queue hands the command back and    *)
(* the update is rejected, after cancelling the token it carried.          *)
(* (Mutant: accept forgotten.)                                             *)
AcceptForgotten(t) == shadow' = shadow
Accept(t) ==
    shadow' = [x \in DOMAIN shadow |->
                 IF x # t THEN shadow[x]
                 ELSE IF x \in Scalars THEN set0
                 ELSE [w \in Words(x) |-> req.words[w + 1]]]

Room == Len(queue) < QueueCap

Enqueue ==
    /\ pc0 = "enqueue"
    /\ IF Room
         THEN /\ queue' = Append(queue, cmd0)
              /\ Accept(cmd0.target)
              /\ Answer
         ELSE /\ IF cmd0.target \in Buffers
                   THEN pc0' = "cancel" /\ UNCHANGED <<req, bank0, at, cmd0, set0>>
                   ELSE Answer
              /\ UNCHANGED <<queue, shadow>>
    /\ UNCHANGED <<banks, length, active, pending, table_len, command_backlog_max,
                   reboot_requested, core1>>

(* Staging::cancel from the group's reject.  (Mutant: the returned token   *)
(* is dropped instead.)                                                    *)
CancelDropped ==
    /\ pc0 = "cancel"
    /\ Answer
    /\ UNCHANGED <<shared, shadow, core1>>

Cancel ==
    /\ pc0 = "cancel"
    /\ pending' = IF cmd0.payload.owner = cmd0.target
                    THEN [pending EXCEPT ![cmd0.target] = NO_PENDING]
                    ELSE pending
    /\ Answer
    /\ UNCHANGED <<banks, length, active, queue, table_len, command_backlog_max,
                   reboot_requested, shadow, core1>>

(* diag_reset clears the resettable diagnostics, the backlog among them.   *)
ResetDiagnostics ==
    /\ pc0 = "idle"
    /\ command_backlog_max' = 0
    /\ UNCHANGED <<banks, length, active, pending, queue, table_len, reboot_requested,
                   core0, core1>>

(* A confirmed mcu_reboot write raises the request.  When the ROM accepts  *)
(* it the chip resets and nothing follows; when it rejects it, core 0      *)
(* answers Busy and goes on serving with the request still raised.         *)
RequestReboot ==
    /\ pc0 = "idle"
    /\ reboot_requested' = TRUE
    /\ UNCHANGED <<banks, length, active, pending, queue, table_len, command_backlog_max,
                   core0, core1>>

HandleRequest ==
    \/ BufferLoadActive
    \/ WriteWord
    \/ WriteDone
    \/ Seal
    \/ CommitLoadPending
    \/ CommitLoadActive
    \/ Publish
    \/ Enqueue
    \/ Cancel

Core0 ==
    \/ \E p \in Scalars, v \in Settings : StageScalar(p, v)
    \/ \E r \in Requests : BufferLoadPending(r)
    \/ HandleRequest
    \/ ResetDiagnostics
    \/ RequestReboot

-----------------------------------------------------------------------------
(* Core 1, one tick of run_rt_tick.                                        *)

(* run_hot_loop looks for a reboot request before each tick: once one is   *)
(* raised core 1 only quiesces its rig and spins, and no tick starts.      *)
TickStart ==
    /\ pc1 = "wait"
    /\ ~reboot_requested
    /\ pc1' = "drain"
    /\ UNCHANGED <<shared, core0, current, cmd1, applied, scalar>>

(* Dequeue and dispatch: a scalar is applied at once, a token goes to the  *)
(* buffer its address names.                                               *)
Dequeue ==
    /\ pc1 = "drain"
    /\ applied < CommandsPerTick
    /\ queue # <<>>
    /\ queue' = Tail(queue)
    /\ applied' = applied + 1
    /\ IF Head(queue).target \in Scalars
         THEN /\ scalar' = [scalar EXCEPT ![Head(queue).target] = Head(queue).payload]
              /\ UNCHANGED <<pc1, cmd1>>
         ELSE /\ cmd1' = Head(queue)
              /\ pc1' = "load"
              /\ UNCHANGED scalar
    /\ UNCHANGED <<banks, length, active, pending, table_len, command_backlog_max,
                   reboot_requested, core0, current>>

(* After the token's command: a table command also publishes its length.   *)
AfterActivate == IF cmd1.target \in Tables THEN "length" ELSE "drain"

(* Active::activate: a foreign token, or one that does not name the        *)
(* published bank, is ignored.                                             *)
ActivateLoad ==
    /\ pc1 = "load"
    /\ pc1' = IF /\ cmd1.payload.owner = cmd1.target
                 /\ pending[cmd1.target] # NO_PENDING
                 /\ pending[cmd1.target] - 1 = cmd1.payload.bank
                THEN "swap" ELSE AfterActivate
    /\ UNCHANGED <<shared, core0, current, cmd1, applied, scalar>>

(* The cached bank and the active atomic take the new bank.  (Mutant: the  *)
(* cache keeps the old one.)                                               *)
ActivateSwapUncached ==
    /\ pc1 = "swap"
    /\ active' = [active EXCEPT ![cmd1.target] = cmd1.payload.bank]
    /\ pc1' = "clear"
    /\ UNCHANGED <<banks, length, pending, queue, table_len, command_backlog_max,
                   reboot_requested, core0, current, cmd1, applied, scalar>>

ActivateSwap ==
    /\ pc1 = "swap"
    /\ current' = [current EXCEPT ![cmd1.target] = cmd1.payload.bank]
    /\ active' = [active EXCEPT ![cmd1.target] = cmd1.payload.bank]
    /\ pc1' = "clear"
    /\ UNCHANGED <<banks, length, pending, queue, table_len, command_backlog_max,
                   reboot_requested, core0, cmd1, applied, scalar>>

ActivateClear ==
    /\ pc1 = "clear"
    /\ pending' = [pending EXCEPT ![cmd1.target] = NO_PENDING]
    /\ pc1' = AfterActivate
    /\ UNCHANGED <<banks, length, active, queue, table_len, command_backlog_max,
                   reboot_requested, core0, current, cmd1, applied, scalar>>

(* The table command stores the length of the bank core 1 now reads.       *)
PublishLength ==
    /\ pc1 = "length"
    /\ table_len' = [table_len EXCEPT ![cmd1.target] = length[cmd1.target][current[cmd1.target]]]
    /\ pc1' = "drain"
    /\ UNCHANGED <<banks, length, active, pending, queue, command_backlog_max,
                   reboot_requested, core0, current, cmd1, applied, scalar>>

DrainEnd ==
    /\ pc1 = "drain"
    /\ applied = CommandsPerTick \/ queue = <<>>
    /\ pc1' = "account"
    /\ UNCHANGED <<shared, core0, current, cmd1, applied, scalar>>

(* applied + commands.len(), raised into the diagnostic maximum.           *)
Backlog == applied + Len(queue)

Account ==
    /\ pc1 = "account"
    /\ command_backlog_max' = IF applied # 0 /\ Backlog > command_backlog_max
                                THEN Backlog ELSE command_backlog_max
    /\ pc1' = "step"
    /\ UNCHANGED <<banks, length, active, pending, queue, table_len, reboot_requested,
                   core0, current, cmd1, applied, scalar>>

(* The programme step reads every live bank; the tick ends.                *)
Step ==
    /\ pc1 = "step"
    /\ cmd1' = NoCommand
    /\ applied' = 0
    /\ pc1' = "wait"
    /\ UNCHANGED <<shared, core0, current, scalar>>

Core1 ==
    \/ TickStart
    \/ Dequeue
    \/ ActivateLoad
    \/ ActivateSwap
    \/ ActivateClear
    \/ PublishLength
    \/ DrainEnd
    \/ Account
    \/ Step

Next == Core0 \/ Core1

(* Core 1 runs its loop until a reboot is requested (a lost hardware tick  *)
(* times out into the next iteration) and finishes the tick it is in; core *)
(* 0 finishes a handler it has started, and need not ever be sent another  *)
(* request.                                                                *)
Spec ==
    /\ Init
    /\ [][Next]_vars
    /\ WF_vars(Core1)
    /\ WF_vars(HandleRequest)

-----------------------------------------------------------------------------
(* The path seen as ParamSpec: a token stands for the contents of its      *)
(* bank, a table for the prefix its length field selects.  An update is    *)
(* applied when core 1 swaps banks, or writes the scalar.                  *)

BankValue(b, k) ==
    IF b \in Tables THEN [w \in 0..(length[b][k] - 1) |-> banks[b][k][w]]
                    ELSE banks[b][k]

Resolve(c) ==
    [target |-> c.target,
     value  |-> IF c.target \in Scalars THEN c.payload
                                        ELSE BankValue(c.target, c.payload.bank)]

LiveView ==
    [x \in Targets |-> IF x \in Scalars THEN scalar[x] ELSE BankValue(x, current[x])]

FifoView ==
    (IF pc1 \in {"load", "swap"} THEN <<Resolve(cmd1)>> ELSE <<>>)
        \o [i \in 1..Len(queue) |-> Resolve(queue[i])]

LegalValues ==
    [x \in Targets |->
       CASE x \in Scalars -> {Encode[v] : v \in Settings}
         [] x \in Coeffs  -> [Words(x) -> Finite]
         [] OTHER         -> UNION {[0..(n - 1) -> Finite] : n \in 2..N}]

StartValues ==
    [x \in Targets |->
       CASE x \in Scalars -> Encode[Default]
         [] x \in Coeffs  -> [w \in Words(x) |-> Zero]
         [] OTHER         -> <<>>]

Abstract == INSTANCE ParamSpec WITH
    Exclusive <- Buffers,
    Plain <- Scalars,
    Legal <- LegalValues,
    Start <- StartValues,
    Depth <- QueueCap + 1,
    live <- LiveView,
    fifo <- FifoView,
    stopping <- reboot_requested

(* Every accepted update reaches core 1 whole, in order, exactly once, and *)
(* nothing else changes a live value: tearing, loss, duplication or        *)
(* reordering anywhere between ParamStore::set and Active::get breaks it.  *)
AtomicUpdates == Abstract!Spec

-----------------------------------------------------------------------------
(* Properties.                                                             *)

(* The control locations of the two cores.                                 *)
Staging == {"pick", "write", "seal", "commit", "bank", "publish"}
Borrowing == Staging \ {"pick"}
HoldingToken == {"enqueue", "cancel"}
Activating == {"load", "swap", "clear"}

(* Every variable holds a value of the kind the Rust types give it.        *)
TypeOK ==
    /\ DOMAIN banks = Buffers
    /\ \A b \in Buffers : banks[b] \in [Banks -> [Words(b) -> Values]]
    /\ length \in [Tables -> [Banks -> 0..N]]
    /\ active \in [Buffers -> Banks]
    /\ pending \in [Buffers -> 0..2]
    /\ queue \in Seq(Commands)
    /\ Len(queue) <= QueueCap
    /\ table_len \in [Tables -> 0..N]
    /\ command_backlog_max \in Nat
    /\ reboot_requested \in BOOLEAN
    /\ pc0 \in {"idle"} \cup Staging \cup HoldingToken
    /\ pc0 \in Staging => req \in Requests
    /\ bank0 \in Banks
    /\ at \in 0..(CoeffLen + N)
    /\ pc0 \in HoldingToken => cmd0 \in Commands
    /\ set0 \in Settings
    /\ DOMAIN shadow = Coeffs \cup Scalars
    /\ \A c \in Coeffs : shadow[c] \in [Words(c) -> Finite]
    /\ \A p \in Scalars : shadow[p] \in Settings
    /\ pc1 \in {"wait", "drain", "length", "account", "step"} \cup Activating
    /\ current \in [Buffers -> Banks]
    /\ pc1 \in Activating \cup {"length"} => cmd1 \in Commands
    /\ pc1 \in Activating => cmd1.target \in Buffers
    /\ pc1 = "length" => cmd1.target \in Tables
    /\ applied \in 0..CommandsPerTick
    /\ scalar \in [Scalars -> Values]

(* Where a token of buffer b can be: in core 1's hand (place 0), in a slot *)
(* of the queue, or in core 0's hand (after the last slot).                *)
Places == 0..(Len(queue) + 1)

Carries(b, i) ==
    \/ i = 0 /\ pc1 \in Activating /\ cmd1.target = b
    \/ i \in 1..Len(queue) /\ queue[i].target = b
    \/ i = Len(queue) + 1 /\ pc0 \in HoldingToken /\ cmd0.target = b

Carried(i) ==
    IF i = 0 THEN cmd1 ELSE IF i \in 1..Len(queue) THEN queue[i] ELSE cmd0

(* The commit token is linear: a bank is published exactly while one token *)
(* for it exists, that token is the only one, names that bank and belongs  *)
(* to that buffer.  A lost token would leave the buffer Busy for ever, a   *)
(* second one could activate a bank that core 0 is rewriting.              *)
TokenLinear ==
    \A b \in Buffers :
        /\ pending[b] # NO_PENDING <=> \E i \in Places : Carries(b, i)
        /\ \A i, j \in Places : Carries(b, i) /\ Carries(b, j) => i = j
        /\ \A i \in Places : Carries(b, i) =>
               Carried(i).payload = [owner |-> b, bank |-> pending[b] - 1]

(* The bank core 0 has borrowed through Staging::buffer is never the bank  *)
(* core 1 reads, at any step of either core (the SAFETY comment on the     *)
(* UnsafeCell accesses).                                                   *)
BorrowedBankIsPrivate ==
    pc0 \in Borrowing => bank0 # current[req.buf]

(* No step writes a word or the length of the bank core 1 reads.           *)
LiveBankStable ==
    [][/\ \A b \in Buffers : banks'[b][current[b]] = banks[b][current[b]]
       /\ \A t \in Tables : length'[t][current[t]] = length[t][current[t]]]_vars

(* What a host reads back is what core 1 has, or will have once it has     *)
(* applied the commands already queued.                                    *)
ReadBack ==
    \A x \in Coeffs \cup Scalars :
        LET ahead == {i \in 1..Len(FifoView) : FifoView[i].target = x}
            settled == IF ahead = {} THEN LiveView[x]
                       ELSE FifoView[CHOOSE i \in ahead : \A j \in ahead : j <= i].value
        IN  settled = (IF x \in Scalars THEN Encode[shadow[x]] ELSE shadow[x])

(* Core 1 never plays a non-finite table word, and the length it reports   *)
(* to the host is the length it plays.                                     *)
PlayedTableSound ==
    \A t \in Tables :
        /\ \A w \in 0..(length[t][current[t]] - 1) : banks[t][current[t]][w] \in Finite
        /\ pc1 = "step" => table_len[t] = length[t][current[t]]

(* The reported backlog stays within the queue plus one tick's commands.   *)
BacklogBound == command_backlog_max <= QueueCap + CommandsPerTick

(* A buffer that answers Busy becomes free again without host action,      *)
(* unless a reboot is requested first: core 1 then leaves its loop, and    *)
(* after a reboot the ROM rejected the buffer stays busy for ever.         *)
BusyIsTransient ==
    \A b \in Buffers :
        pending[b] # NO_PENDING ~> pending[b] = NO_PENDING \/ reboot_requested

=============================================================================
