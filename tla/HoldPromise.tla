----------------------------- MODULE HoldPromise -----------------------------
(***************************************************************************)
(* What the batch image subsystem promises its user about the money and    *)
(* the result of a batch, without handlers, queue, workers and retries:    *)
(* the hold is frozen once and then charged or refunded, once; a batch     *)
(* completes only when it has been charged, and one that failed has not    *)
(* been and never will be.                                                 *)
(***************************************************************************)
CONSTANT Batches

VARIABLES
    money,      \* batch -> "none", "held", "charged" or "refunded"
    result      \* batch -> "open", "completed" or "dead"

promiseVars == <<money, result>>

Freeze(b) ==
    /\ money[b] = "none"
    /\ money' = [money EXCEPT ![b] = "held"]
    /\ UNCHANGED result

Charge(b) ==
    /\ money[b] = "held" /\ result[b] = "open"
    /\ money' = [money EXCEPT ![b] = "charged"]
    /\ UNCHANGED result

Refund(b) ==
    /\ money[b] = "held"
    /\ money' = [money EXCEPT ![b] = "refunded"]
    /\ UNCHANGED result

Complete(b) ==
    /\ money[b] = "charged" /\ result[b] = "open"
    /\ result' = [result EXCEPT ![b] = "completed"]
    /\ UNCHANGED money

Fail(b) ==
    /\ money[b] # "charged" /\ result[b] = "open"
    /\ result' = [result EXCEPT ![b] = "dead"]
    /\ UNCHANGED money

PromiseInit ==
    /\ money = [b \in Batches |-> "none"]
    /\ result = [b \in Batches |-> "open"]

PromiseNext ==
    \E b \in Batches : Freeze(b) \/ Charge(b) \/ Refund(b) \/ Complete(b) \/ Fail(b)

PromiseSpec == PromiseInit /\ [][PromiseNext]_promiseVars
=============================================================================
