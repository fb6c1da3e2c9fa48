----------------------------- MODULE ParamSpec -----------------------------
(***************************************************************************)
(* What the parameter path promises a host, without its double buffers,    *)
(* tokens and atomics: an accepted update joins one FIFO, and the          *)
(* real-time core applies whole updates from its head, one at a time.      *)
(***************************************************************************)
EXTENDS Naturals, Sequences

CONSTANTS
    Exclusive,  \* targets backed by a double buffer: one update outstanding
    Plain,      \* scalar targets: any number of updates outstanding
    Legal,      \* Legal[t]: the values an update of target t may carry
    Start,      \* Start[t]: the value of t before the first update
    Depth       \* most updates accepted and not yet applied

Targets == Exclusive \cup Plain

VARIABLES
    live,   \* live[t]: the value the real-time core computes with
    fifo,   \* updates accepted and not yet applied, oldest first
    stopping \* the real-time core has been told to leave its loop

vars == <<live, fifo, stopping>>

Init ==
    /\ live = Start
    /\ fifo = <<>>
    /\ stopping = FALSE

Outstanding(t) == \E i \in 1..Len(fifo) : fifo[i].target = t

(* The host's request is answered with success.                            *)
Accept(t, v) ==
    /\ Len(fifo) < Depth
    /\ t \in Exclusive => ~Outstanding(t)
    /\ fifo' = Append(fifo, [target |-> t, value |-> v])
    /\ UNCHANGED <<live, stopping>>

(* The real-time core takes up the oldest update, whole.  It may still do  *)
(* so after it was told to stop, and need not.                             *)
Apply ==
    /\ fifo # <<>>
    /\ live' = [live EXCEPT ![Head(fifo).target] = Head(fifo).value]
    /\ fifo' = Tail(fifo)
    /\ UNCHANGED stopping

Stop ==
    /\ stopping' = TRUE
    /\ UNCHANGED <<live, fifo>>

Next ==
    \/ \E t \in Targets : \E v \in Legal[t] : Accept(t, v)
    \/ Apply
    \/ Stop

Spec == Init /\ [][Next]_vars /\ WF_vars(~stopping /\ Apply)

=============================================================================
