-------------------------- MODULE BalanceHoldProofs --------------------------
(***************************************************************************)
(* For every set of batches, every hold, every starting balance and every  *)
(* pool: the ledger is type correct (in particular nothing is overdrawn),  *)
(* no release is paid for a batch that froze nothing, no step creates or   *)
(* loses money, and the pool is what was granted to the batches.           *)
(*                                                                         *)
(* What a transaction may move depends on its claim, while the properties  *)
(* speak of what did move, so the inductive invariant ties the two         *)
(* together: money of one kind has moved only under a claim of that kind,  *)
(* and a claimed hold has moved.                                           *)
(***************************************************************************)
EXTENDS BalanceHold, FiniteSetTheorems, TLAPS

ClaimedWhenMoved ==
    \A b \in Batches : moved[b] \subseteq claim[b] /\ ("hold" \in claim[b] => "hold" \in moved[b])

LedgerInv == LedgerTypeOK /\ ClaimedWhenMoved /\ NoPhantomRelease

USE IdsAssumption, CostsAssumption, LedgerAssumption

LEMMA LedgerInitInv == LedgerInit => LedgerInv
BY DEF LedgerInit, LedgerInv, LedgerTypeOK, ClaimedWhenMoved, NoPhantomRelease, Kinds

\* The three transactions, one step each.
LEMMA LedgerStepInv ==
    ASSUME LedgerInv, [LedgerNext]_ledgerVars
    PROVE  LedgerInv'
<1> USE DEF LedgerInv, LedgerTypeOK, ClaimedWhenMoved, NoPhantomRelease, Kinds,
            AlreadyDone, ledgerVars, Claim, Move
<1>1. ASSUME NEW b \in Batches, ReserveHold(b) PROVE LedgerInv'
  BY <1>1 DEF ReserveHold
<1>2. ASSUME NEW b \in Batches, NEW cost \in Costs, CaptureHold(b, cost) PROVE LedgerInv'
  BY <1>2 DEF CaptureHold
<1>3. ASSUME NEW b \in Batches, ReleaseHold(b) PROVE LedgerInv'
  BY <1>3 DEF ReleaseHold
<1>4. CASE UNCHANGED ledgerVars
  BY <1>4
<1> QED BY <1>1, <1>2, <1>3, <1>4 DEF LedgerNext

(***************************************************************************)
(* Type correctness; balance and pool never go below zero.                 *)
(***************************************************************************)
THEOREM LedgerTypeCorrect == LedgerSpec => []LedgerTypeOK
<1>1. LedgerInv => LedgerTypeOK
  BY DEF LedgerInv
<1> QED BY LedgerInitInv, LedgerStepInv, <1>1, PTL DEF LedgerSpec

(***************************************************************************)
(* A release is only ever paid to a batch whose own hold was frozen.       *)
(***************************************************************************)
THEOREM PhantomReleaseImpossible == LedgerSpec => []NoPhantomRelease
<1>1. LedgerInv => NoPhantomRelease
  BY DEF LedgerInv
<1> QED BY LedgerInitInv, LedgerStepInv, <1>1, PTL DEF LedgerSpec

(***************************************************************************)
(* Money is neither created nor lost by any transaction.                   *)
(***************************************************************************)
THEOREM MoneyIsConserved == LedgerSpec => MoneyConserved
<1>1. ASSUME LedgerInv, [LedgerNext]_ledgerVars
      PROVE  [balance' + frozen' + charged' = balance + frozen + charged]_ledgerVars
  <2> USE DEF LedgerInv, LedgerTypeOK, AlreadyDone
  <2>1. ASSUME NEW b \in Batches, ReserveHold(b)
        PROVE  [balance' + frozen' + charged' = balance + frozen + charged]_ledgerVars
    BY <1>1, <2>1 DEF ReserveHold, ledgerVars
  <2>2. ASSUME NEW b \in Batches, NEW cost \in Costs, CaptureHold(b, cost)
        PROVE  [balance' + frozen' + charged' = balance + frozen + charged]_ledgerVars
    BY <1>1, <2>2 DEF CaptureHold, ledgerVars
  <2>3. ASSUME NEW b \in Batches, ReleaseHold(b)
        PROVE  [balance' + frozen' + charged' = balance + frozen + charged]_ledgerVars
    BY <1>1, <2>3 DEF ReleaseHold, ledgerVars
  <2> QED BY <1>1, <2>1, <2>2, <2>3 DEF LedgerNext
<1> QED BY LedgerInitInv, LedgerStepInv, <1>1, PTL DEF LedgerSpec, MoneyConserved

-----------------------------------------------------------------------------
\* A movement of one more batch adds one to the batches that moved.
LEMMA OneMore ==
    ASSUME LedgerInv, NEW b \in Batches, NEW kind \in Kinds,
           kind \notin moved[b], Move(kind, b)
    PROVE  /\ Cardinality(Moved(kind)') = Cardinality(Moved(kind)) + 1
           /\ \A k \in Kinds : k # kind => Moved(k)' = Moved(k)
<1>1. Moved(kind)' = Moved(kind) \union {b} /\ b \notin Moved(kind)
  BY DEF LedgerInv, LedgerTypeOK, Move, Moved
<1>2. IsFiniteSet(Moved(kind))
  BY FS_Subset DEF Moved
<1>3. Cardinality(Moved(kind) \union {b}) = Cardinality(Moved(kind)) + 1
  BY <1>1, <1>2, FS_AddElement
<1>4. \A k \in Kinds : k # kind => Moved(k)' = Moved(k)
  BY DEF LedgerInv, LedgerTypeOK, Move, Moved
<1> QED BY <1>1, <1>3, <1>4

LEMMA CountsAreNumbers == \A k \in Kinds : Cardinality(Moved(k)) \in Nat
BY FS_Subset, FS_CardinalityType DEF Moved

LEMMA OneHoldMoreOrLess ==
    ASSUME NEW n \in Int
    PROVE  Hold * (n + 1) = Hold * n + Hold /\ Hold * (n - 1) = Hold * n - Hold
OBVIOUS

LEMMA PoolStep ==
    ASSUME LedgerInv, PoolAccounted, [LedgerNext]_ledgerVars
    PROVE  PoolAccounted'
<1> DEFINE h == Cardinality(Moved("hold"))
           c == Cardinality(Moved("capture"))
           r == Cardinality(Moved("release"))
<1>1. h \in Nat /\ c \in Nat /\ r \in Nat
  BY CountsAreNumbers DEF Kinds
<1>2. PoolAccounted <=> frozen = Pool + Hold * (h - c - r)
  BY DEF PoolAccounted
<1>3. PoolAccounted' <=> frozen' = Pool + Hold * (h' - c' - r')
  BY DEF PoolAccounted
<1>4. CASE UNCHANGED ledgerVars
  BY <1>4 DEF ledgerVars, PoolAccounted, Moved
<1>5. ASSUME NEW b \in Batches, ReserveHold(b) PROVE PoolAccounted'
  <2>1. CASE UNCHANGED ledgerVars
    BY <1>4, <2>1
  <2>2. CASE ~UNCHANGED ledgerVars
    <3>1. /\ "hold" \notin moved[b] /\ Move("hold", b)
          /\ frozen' = frozen + Hold
      BY <1>5, <2>2 DEF ReserveHold, AlreadyDone, LedgerInv, ClaimedWhenMoved
    <3>2. h' = h + 1 /\ c' = c /\ r' = r
      BY <3>1, OneMore DEF Kinds
    <3>3. h' - c' - r' = (h - c - r) + 1 /\ h - c - r \in Int
      BY <1>1, <3>2
    <3>4. Hold * (h' - c' - r') = Hold * (h - c - r) + Hold
      BY <3>3, OneHoldMoreOrLess
    <3> HIDE DEF h, c, r
    <3> QED BY <1>2, <1>3, <3>1, <3>3, <3>4
  <2> QED BY <2>1, <2>2
<1>6. ASSUME NEW b \in Batches, NEW kind \in {"capture", "release"},
             kind \notin moved[b], Move(kind, b), frozen' = frozen - Hold
      PROVE  PoolAccounted'
  <2>1. h' = h /\ c' + r' = c + r + 1 /\ c' \in Nat /\ r' \in Nat
    BY <1>1, <1>6, OneMore DEF Kinds
  <2>2. h' - c' - r' = (h - c - r) - 1 /\ h - c - r \in Int
    BY <1>1, <2>1
  <2>3. Hold * (h' - c' - r') = Hold * (h - c - r) - Hold
    BY <2>2, OneHoldMoreOrLess
  <2> HIDE DEF h, c, r
  <2> QED BY <1>2, <1>3, <1>6, <2>2, <2>3
<1>7. ASSUME NEW b \in Batches, NEW cost \in Costs, CaptureHold(b, cost) PROVE PoolAccounted'
  BY <1>4, <1>6, <1>7 DEF CaptureHold, AlreadyDone, LedgerInv, ClaimedWhenMoved
<1>8. ASSUME NEW b \in Batches, ReleaseHold(b) PROVE PoolAccounted'
  <2>1. CASE UNCHANGED <<frozen, moved>>
    BY <2>1 DEF PoolAccounted, Moved
  <2>2. CASE ~UNCHANGED <<frozen, moved>>
    <3>1. "release" \notin moved[b] /\ Move("release", b) /\ frozen' = frozen - Hold
      BY <1>8, <2>2 DEF ReleaseHold, AlreadyDone, ledgerVars, LedgerInv, ClaimedWhenMoved
    <3> QED BY <1>6, <3>1
  <2> QED BY <2>1, <2>2
<1> QED BY <1>4, <1>5, <1>7, <1>8 DEF LedgerNext

(***************************************************************************)
(* The pool is the holds of other batches and those of the batches that    *)
(* were granted one and neither captured nor released it.                  *)
(***************************************************************************)
THEOREM PoolIsAccounted == LedgerSpec => []PoolAccounted
<1>1. LedgerInit => PoolAccounted
  <2> SUFFICES ASSUME LedgerInit PROVE PoolAccounted
    OBVIOUS
  <2>1. \A k \in Kinds : Moved(k) = {}
    BY DEF LedgerInit, Moved
  <2>2. \A k \in Kinds : Cardinality(Moved(k)) = 0
    BY <2>1, FS_EmptySet
  <2> QED BY <2>2 DEF LedgerInit, PoolAccounted, Kinds
<1> QED BY LedgerInitInv, LedgerStepInv, PoolStep, <1>1, PTL DEF LedgerSpec
=============================================================================
