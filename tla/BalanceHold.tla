----------------------------- MODULE BalanceHold -----------------------------
(***************************************************************************)
(* The balance of one user and the money the batch image subsystem freezes *)
(* on it (repository/usage_billing_repo.go).  Reserve, capture and release *)
(* are database transactions: each first claims its request id, which is   *)
(* unique per batch and kind, in the dedup table, and then moves money.    *)
(*                                                                         *)
(* The balance and the frozen pool belong to the user, not to a batch: a   *)
(* release or a capture only asks that the pool is large enough.  The pool *)
(* starts with  Pool , the holds of batches outside the model, so that     *)
(* taking money which is not one's own is possible here.                   *)
(*                                                                         *)
(* Money is counted in integer units and every batch has the same hold.    *)
(***************************************************************************)
EXTENDS BatchImageCosts

CONSTANTS
    Hold,           \* what each batch freezes
    Funds,          \* balances the user may start with
    Pool            \* money frozen by other batches of the user

ASSUME LedgerAssumption ==
    /\ Hold \in Nat \ {0}
    /\ Funds \subseteq Nat
    /\ Pool \in Nat

Kinds == {"hold", "capture", "release"}

VARIABLES
    balance, frozen,    \* users.balance, users.frozen_balance
    claim,              \* batch -> kinds whose request id is in the dedup table
    fingerprint,        \* batch -> cost in the fingerprint of the claimed capture
    moved,              \* history: batch -> kinds that did move money
    charged             \* history: what captures kept

ledgerVars == <<balance, frozen, claim, fingerprint, moved, charged>>

-----------------------------------------------------------------------------
Claim(kind, b) == claim' = [claim EXCEPT ![b] = @ \union {kind}]
Move(kind, b)  == moved' = [moved EXCEPT ![b] = @ \union {kind}]

\* ON CONFLICT DO NOTHING with the same fingerprint: applied = FALSE, no error
AlreadyDone(kind, b) == kind \in claim[b] /\ UNCHANGED ledgerVars

ReserveHold(b) ==
    \/ AlreadyDone("hold", b)
    \/ /\ "hold" \notin claim[b]
       /\ balance >= Hold
       /\ balance' = balance - Hold
       /\ frozen' = frozen + Hold
       /\ Claim("hold", b) /\ Move("hold", b)
       /\ UNCHANGED <<fingerprint, charged>>

\* the transaction rolls back, the claim with it
ReserveRefused(b) == "hold" \notin claim[b] /\ balance < Hold

\* mutant: the pool pays only the cost, the rest stays frozen
CaptureHoldCostOnly(b, cost) ==
    \/ AlreadyDone("capture", b) /\ fingerprint[b] = cost
    \/ /\ "capture" \notin claim[b]
       /\ cost <= Hold /\ frozen >= Hold
       /\ balance' = balance
       /\ frozen' = frozen - cost
       /\ charged' = charged + cost
       /\ fingerprint' = [fingerprint EXCEPT ![b] = cost]
       /\ Claim("capture", b) /\ Move("capture", b)

\* mutant: the rest of the hold is not given back
CaptureHoldNoRefund(b, cost) ==
    \/ AlreadyDone("capture", b) /\ fingerprint[b] = cost
    \/ /\ "capture" \notin claim[b]
       /\ cost <= Hold /\ frozen >= Hold
       /\ balance' = balance
       /\ frozen' = frozen - Hold
       /\ charged' = charged + cost
       /\ fingerprint' = [fingerprint EXCEPT ![b] = cost]
       /\ Claim("capture", b) /\ Move("capture", b)

\* the hold leaves the pool, what it exceeds the cost by goes back
CaptureHold(b, cost) ==
    \/ AlreadyDone("capture", b) /\ fingerprint[b] = cost
    \/ /\ "capture" \notin claim[b]
       /\ cost <= Hold /\ frozen >= Hold
       /\ balance' = balance + (Hold - cost)
       /\ frozen' = frozen - Hold
       /\ charged' = charged + cost
       /\ fingerprint' = [fingerprint EXCEPT ![b] = cost]
       /\ Claim("capture", b) /\ Move("capture", b)

\* fingerprint conflict, cost over the hold, or pool too small
CaptureRefused(b, cost) ==
    \/ "capture" \in claim[b] /\ fingerprint[b] # cost
    \/ "capture" \notin claim[b] /\ (cost > Hold \/ frozen < Hold)

\* mutant: no check that the hold was ever reserved
ReleaseHoldUnchecked(b) ==
    \/ AlreadyDone("release", b)
    \/ /\ "release" \notin claim[b]
       /\ frozen >= Hold
       /\ balance' = balance + Hold
       /\ frozen' = frozen - Hold
       /\ Claim("release", b) /\ Move("release", b)
       /\ UNCHANGED <<fingerprint, charged>>

\* mutant: every attempt has a request id of its own
ReleaseHoldEachAttempt(b) ==
    \/ /\ "hold" \notin claim[b]
       /\ Claim("release", b)
       /\ UNCHANGED <<balance, frozen, fingerprint, moved, charged>>
    \/ /\ "hold" \in claim[b]
       /\ frozen >= Hold
       /\ balance' = balance + Hold
       /\ frozen' = frozen - Hold
       /\ Claim("release", b) /\ Move("release", b)
       /\ UNCHANGED <<fingerprint, charged>>

\* A release of a batch that never reserved moves nothing, but its
\* transaction commits and so its request id is used up.
ReleaseHold(b) ==
    \/ AlreadyDone("release", b)
    \/ /\ "release" \notin claim[b]
       /\ "hold" \notin claim[b]
       /\ Claim("release", b)
       /\ UNCHANGED <<balance, frozen, fingerprint, moved, charged>>
    \/ /\ "release" \notin claim[b]
       /\ "hold" \in claim[b]
       /\ frozen >= Hold
       /\ balance' = balance + Hold
       /\ frozen' = frozen - Hold
       /\ Claim("release", b) /\ Move("release", b)
       /\ UNCHANGED <<fingerprint, charged>>

ReleaseRefused(b) ==
    "release" \notin claim[b] /\ "hold" \in claim[b] /\ frozen < Hold

-----------------------------------------------------------------------------
LedgerInit ==
    /\ balance \in Funds
    /\ frozen = Pool
    /\ claim = [b \in Batches |-> {}]
    /\ fingerprint = [b \in Batches |-> None]
    /\ moved = [b \in Batches |-> {}]
    /\ charged = 0

\* Callers may ask for anything, in any order, any number of times.
LedgerNext ==
    \E b \in Batches :
        \/ ReserveHold(b) \/ ReleaseHold(b)
        \/ \E cost \in Costs : CaptureHold(b, cost)

LedgerSpec == LedgerInit /\ [][LedgerNext]_ledgerVars

-----------------------------------------------------------------------------
(***************************************************************************)
(* Every variable has its type; neither the balance nor the pool is ever   *)
(* overdrawn, however the callers behave.                                  *)
(***************************************************************************)
LedgerTypeOK ==
    /\ balance \in Nat
    /\ frozen \in Nat
    /\ claim \in [Batches -> SUBSET Kinds]
    /\ fingerprint \in [Batches -> Costs \union {None}]
    /\ moved \in [Batches -> SUBSET Kinds]
    /\ charged \in Nat

Moved(kind) == { b \in Batches : kind \in moved[b] }

(***************************************************************************)
(* The pool is what was reserved and neither captured nor released: no     *)
(* sequence of retries, duplicates and out-of-order calls makes the pool   *)
(* drift from the operations that were granted.                            *)
(***************************************************************************)
PoolAccounted ==
    frozen = Pool + Hold * ( Cardinality(Moved("hold"))
                             - Cardinality(Moved("capture"))
                             - Cardinality(Moved("release")) )

(***************************************************************************)
(* Money is neither created nor lost: what leaves the balance and the pool *)
(* is what captures charge.                                                *)
(***************************************************************************)
MoneyConserved ==
    [][ balance' + frozen' + charged' = balance + frozen + charged ]_ledgerVars

(***************************************************************************)
(* Only a batch whose own hold was frozen gets a release paid out of the   *)
(* pool (the guard against phantom releases).                              *)
(***************************************************************************)
NoPhantomRelease == \A b \in Batches : "release" \in moved[b] => "hold" \in moved[b]

=============================================================================
