------------------------- MODULE GatewaySlotsProofs -------------------------
(***************************************************************************)
(* For every set of requests, limit, TTL and number of errors and crashes: *)
(* the types, LimitHolds and WaitCountIsHonest.                            *)
(*                                                                         *)
(* LimitHolds counts handlers, the store counts members.  They meet in two *)
(* facts that are inductive together: who is served and has not outlived   *)
(* its marks holds one that is not lapsed (ServedIsMarked), and the marks  *)
(* of those who have not outlived them are at most the limit (MarksFit).   *)
(* A lease adds no mark, as its request still holds its slot.              *)
(*                                                                         *)
(* WaitCountIsHonest fails to be inductive where the counter's TTL runs    *)
(* out; who is counted then is past its timeout (LapseIsLate).             *)
(***************************************************************************)
EXTENDS GatewaySlots, FiniteSetTheorems, TLAPS

LEMMA Finite == IsFiniteSet(Requests)
  BY SlotsAssumption, FS_Union DEF Requests

LEMMA FiniteSubset ==
    ASSUME NEW S, NEW T, S \subseteq T, T \subseteq Requests
    PROVE  /\ IsFiniteSet(S) /\ IsFiniteSet(T)
           /\ Cardinality(S) \in Nat /\ Cardinality(T) \in Nat
           /\ Cardinality(S) <= Cardinality(T)
  BY Finite, FS_Subset, FS_CardinalityType

\* What the scripts do to the marks in a set.
LEMMA Marks ==
    ASSUME NEW n \in Nat, NEW z \in [Requests -> 0..n]
    PROVE  /\ Reaped(z) \in [Requests -> 0..n]
           /\ Aged(z) \in [Requests -> 0..n]
           /\ Members(z) \subseteq Requests
           /\ Members(Reaped(z)) \subseteq Members(z)
           /\ Members(Aged(z)) = Members(z)
           /\ \A r \in Requests : z[r] > Lapsed => Reaped(z)[r] = z[r]
           /\ \A r \in Requests : z[r] > Lapsed =>
                Aged(z)[r] > Lapsed \/ Aged(z)[r] = Lapsed
  BY DEF Reaped, Aged, Members, Gone, Lapsed

-----------------------------------------------------------------------------
(* Types.                                                                  *)

LEMMA RequestTypes ==
    ASSUME TypeOK, NEW r \in Requests, RequestStep(r)
    PROVE  TypeOK'
<1> USE SlotsAssumption DEF TypeOK, Places, Gone, Lapsed, Taken, Go, Fault, FaultAtStart, Slip,
        NoFault, store, queue, index, process
<1>0. /\ Reaped(slot) \in [Requests -> 0..SlotTTL + 1]
      /\ Reaped(lease) \in [Requests -> 0..LeaseTTL + 1]
  BY DEF Reaped
<1>1. CASE TryAcquire(r)
  <2>1. at' \in [Requests -> Places]
    BY <1>1 DEF TryAcquire
  <2>2. slot' \in [Requests -> 0..SlotTTL + 1]
    BY <1>0, <1>1 DEF TryAcquire, TakeSlot, Reap
  <2>3. lease' \in [Requests -> 0..LeaseTTL + 1]
    BY <1>0, <1>1 DEF TryAcquire, TakeSlot, Reap
  <2>4. indexed' \in BOOLEAN /\ removing' \subseteq Requests \cup {Worker}
    BY <1>1 DEF TryAcquire, Touch
  <2>5. /\ outlived' \subseteq Requests
        /\ UNCHANGED <<waits, waitLeft, waited, up, crashes, faults, slips, stranded>>
    BY <1>1 DEF TryAcquire
  <2> QED BY <2>1, <2>2, <2>3, <2>4, <2>5
<1>2. CASE AcquireIsLost(r)
  <2>1. at' \in [Requests -> Places]
    BY <1>2 DEF AcquireIsLost
  <2>2. /\ slot' \in [Requests -> 0..SlotTTL + 1]
        /\ lease' \in [Requests -> 0..LeaseTTL + 1]
    BY <1>0, <1>2 DEF AcquireIsLost, TakeSlot
  <2>3. faults' \in 0..MaxFaults /\ slips' \in 0..faults'
    BY <1>2 DEF AcquireIsLost
  <2>4. UNCHANGED <<waits, waitLeft, waited, indexed, removing, up, crashes, stranded, outlived>>
    BY <1>2 DEF AcquireIsLost
  <2> QED BY <2>1, <2>2, <2>3, <2>4
<1>3. CASE IncrementWaitCount(r)
  <2>1. at' \in [Requests -> Places]
    BY <1>3 DEF IncrementWaitCount
  <2>2. waits' \in Nat /\ waitLeft' \in 0..WaitTTL
    BY <1>3 DEF IncrementWaitCount, Increment
  <2>3. indexed' \in BOOLEAN /\ removing' \subseteq Requests \cup {Worker}
    BY <1>3 DEF IncrementWaitCount, Touch
  <2>4. UNCHANGED <<slot, lease, waited, up, crashes, faults, slips, stranded, outlived>>
    BY <1>3 DEF IncrementWaitCount
  <2> QED BY <2>1, <2>2, <2>3, <2>4
<1>4. CASE IncrementSlips(r)
  <2>1. at' \in [Requests -> Places]
    BY <1>4 DEF IncrementSlips
  <2>2. waits' \in Nat /\ waitLeft' \in 0..WaitTTL
    BY <1>4 DEF IncrementSlips, Increment
  <2>3. faults' \in 0..MaxFaults /\ slips' \in 0..faults'
    BY <1>4 DEF IncrementSlips
  <2>4. UNCHANGED <<slot, lease, waited, indexed, removing, up, crashes, stranded, outlived>>
    BY <1>4 DEF IncrementSlips
  <2> QED BY <2>1, <2>2, <2>3, <2>4
<1>5. CASE Retry(r)
  <2>1. at' \in [Requests -> Places]
    BY <1>5 DEF Retry
  <2>2. slot' \in [Requests -> 0..SlotTTL + 1]
    BY <1>0, <1>5 DEF Retry, TakeSlot, Reap
  <2>3. lease' \in [Requests -> 0..LeaseTTL + 1]
    BY <1>0, <1>5 DEF Retry, TakeSlot, Reap
  <2>4. indexed' \in BOOLEAN /\ removing' \subseteq Requests \cup {Worker}
    BY <1>5 DEF Retry, Touch
  <2>5. UNCHANGED <<waits, waitLeft, waited, up, crashes, faults, slips, stranded, outlived>>
    BY <1>5 DEF Retry
  <2> QED BY <2>1, <2>2, <2>3, <2>4, <2>5
<1>6. CASE GiveUp(r)
  BY <1>6 DEF GiveUp
<1>7. CASE DecrementWaitCount(r)
  <2>1. at' \in [Requests -> Places] /\ waited' \in [Requests -> 0..WaitTimeout]
    BY <1>7 DEF DecrementWaitCount, AfterWait
  <2>2. slot' \in [Requests -> 0..SlotTTL + 1] /\ UNCHANGED lease
    BY <1>0, <1>7 DEF DecrementWaitCount
  <2>3. waits' \in Nat /\ UNCHANGED waitLeft
    BY <1>7 DEF DecrementWaitCount, Decrement
  <2>4. indexed' \in BOOLEAN /\ removing' \subseteq Requests \cup {Worker}
    BY <1>7 DEF DecrementWaitCount, RefreshIndex, Touch
  <2>5. UNCHANGED <<up, crashes, faults, slips, stranded, outlived>>
    BY <1>7 DEF DecrementWaitCount
  <2> QED BY <2>1, <2>2, <2>3, <2>4, <2>5
<1>8. CASE DecrementSlips(r)
  BY <1>8 DEF DecrementSlips, Decrement, AfterWait
<1>9. CASE Leave(r)
  BY <1>9 DEF Leave
<1>10. CASE ReleaseSlot(r)
  <2>1. at' \in [Requests -> Places]
    BY <1>10 DEF ReleaseSlot, AfterRelease
  <2>2. slot' \in [Requests -> 0..SlotTTL + 1]
    BY <1>0, <1>10 DEF ReleaseSlot
  <2>3. indexed' \in BOOLEAN /\ removing' \subseteq Requests \cup {Worker}
    BY <1>10 DEF ReleaseSlot, RefreshIndex, Touch
  <2>4. UNCHANGED <<lease, waits, waitLeft, waited, up, crashes, faults, slips, stranded, outlived>>
    BY <1>10 DEF ReleaseSlot
  <2> QED BY <2>1, <2>2, <2>3, <2>4
<1>11. CASE ReleaseSlotFails(r)
  BY <1>11 DEF ReleaseSlotFails, AfterRelease
<1> QED BY <1>1, <1>2, <1>3, <1>4, <1>5, <1>6, <1>7, <1>8, <1>9, <1>10, <1>11
        DEF RequestStep

LEMMA LiveTypes ==
    ASSUME TypeOK, NEW r \in Live, LiveStep(r)
    PROVE  TypeOK'
<1> USE SlotsAssumption DEF TypeOK, Places, Gone, Lapsed, Taken, Go, Fault, FaultAtStart, Slip,
        NoFault, store, queue, index, process
<1>0. /\ Reaped(lease) \in [Requests -> 0..LeaseTTL + 1]
      /\ r \in Requests
  BY DEF Reaped, Requests
<1>1. CASE AcquireLiveLease(r)
  BY <1>0, <1>1 DEF AcquireLiveLease
<1>2. CASE LeaseIsLost(r)
  BY <1>0, <1>2 DEF LeaseIsLost
<1>3. CASE CreateUpstream(r)
  BY <1>0, <1>3 DEF CreateUpstream
<1>4. CASE ReleaseLiveLease(r)
  BY <1>0, <1>4 DEF ReleaseLiveLease, AfterLease
<1>5. CASE ReleaseLiveLeaseFails(r)
  BY <1>0, <1>5 DEF ReleaseLiveLeaseFails, AfterLease
<1>6. CASE RefreshLiveLease(r)
  BY <1>0, <1>6 DEF RefreshLiveLease
<1>7. CASE HangUp(r)
  BY <1>0, <1>7 DEF HangUp
<1> QED BY <1>1, <1>2, <1>3, <1>4, <1>5, <1>6, <1>7 DEF LiveStep

LEMMA WaitingIsFinite == IsFiniteSet(Waiting) /\ Cardinality(Waiting) \in Nat
  BY Finite, FS_Subset, FS_CardinalityType DEF Waiting

LEMMA OtherTypes ==
    ASSUME TypeOK,
           \/ \E who \in Requests \cup {Worker} : RemoveFromIndex(who)
           \/ GetConcurrency \/ Reconcile
           \/ Tick \/ Crash \/ Start \/ StartUncleaned
    PROVE  TypeOK'
<1> USE SlotsAssumption DEF TypeOK, Places, Gone, Lapsed, Taken, Fault, FaultAtStart, Slip,
        NoFault, store, queue, index, process
<1>0. /\ Reaped(slot) \in [Requests -> 0..SlotTTL + 1]
      /\ Reaped(lease) \in [Requests -> 0..LeaseTTL + 1]
      /\ Aged(slot) \in [Requests -> 0..SlotTTL + 1]
      /\ Aged(lease) \in [Requests -> 0..LeaseTTL + 1]
  BY DEF Reaped, Aged
<1>1. ASSUME NEW who \in Requests \cup {Worker}, RemoveFromIndex(who) PROVE TypeOK'
  BY <1>1 DEF RemoveFromIndex
<1>2. CASE GetConcurrency
  BY <1>0, <1>2 DEF GetConcurrency, Reap
<1>3. CASE Reconcile
  BY <1>0, <1>3 DEF Reconcile, RefreshIndex, Touch
<1>4. CASE Tick
  <2>1. /\ waited' \in [Requests -> 0..WaitTimeout]
        /\ waits' \in Nat /\ waitLeft' \in 0..WaitTTL
        /\ stranded' \in Nat /\ outlived' \subseteq Requests
    BY <1>4 DEF Tick
  <2> QED BY <1>0, <1>4, <2>1 DEF Tick
<1>5. CASE Crash
  <2>1. at' \in [Requests -> Places] /\ waited' \in [Requests -> 0..WaitTimeout]
    BY <1>5 DEF Crash
  <2>2. crashes' \in 0..MaxCrashes /\ stranded' \in Nat
    BY <1>5, WaitingIsFinite DEF Crash
  <2>3. up' \in BOOLEAN /\ removing' \subseteq Requests \cup {Worker}
    BY <1>5 DEF Crash
  <2>4. UNCHANGED <<slot, lease, waits, waitLeft, indexed, outlived, faults, slips>>
    BY <1>5 DEF Crash
  <2> QED BY <2>1, <2>2, <2>3, <2>4
<1>6. CASE Start
  <2>1. slot' \in [Requests -> 0..SlotTTL + 1]
    BY <1>6 DEF Start
  <2>2. waits' \in Nat /\ waitLeft' \in 0..WaitTTL /\ stranded' \in Nat
    BY <1>6 DEF Start
  <2>3. up' \in BOOLEAN /\ indexed' \in BOOLEAN
    BY <1>6 DEF Start
  <2>4. UNCHANGED <<at, lease, waited, removing, crashes, faults, slips, outlived>>
    BY <1>6 DEF Start
  <2> QED BY <2>1, <2>2, <2>3, <2>4
<1>7. CASE StartUncleaned
  BY <1>7 DEF StartUncleaned
<1> QED BY <1>1, <1>2, <1>3, <1>4, <1>5, <1>6, <1>7

LEMMA TypesKept == TypeOK /\ [Next]_vars => TypeOK'
<1> SUFFICES ASSUME TypeOK, [Next]_vars PROVE TypeOK'
  OBVIOUS
<1>1. CASE Next
  BY <1>1, RequestTypes, LiveTypes, OtherTypes DEF Next
<1>2. CASE UNCHANGED vars
  BY <1>2 DEF TypeOK, vars
<1> QED BY <1>1, <1>2

LEMMA InitTypes == Init => TypeOK
<1> USE SlotsAssumption DEF Init, Gone, Lapsed, Taken
<1>1. Init => /\ at \in [Requests -> Places]
              /\ waited \in [Requests -> 0..WaitTimeout]
  BY DEF Places
<1>2. Init => /\ slot \in [Requests -> 0..SlotTTL + 1]
              /\ lease \in [Requests -> 0..LeaseTTL + 1]
  OBVIOUS
<1>3. Init => /\ waits \in Nat /\ waitLeft \in 0..WaitTTL
              /\ crashes \in 0..MaxCrashes /\ faults \in 0..MaxFaults
              /\ slips \in 0..faults /\ stranded \in Nat
  OBVIOUS
<1> QED BY <1>1, <1>2, <1>3 DEF TypeOK

\* The variables of GatewaySlots keep their types: slots, leases and the wait
\* counter stay within the bounds the scripts set.
THEOREM Typed == Spec => []TypeOK
<1> QED BY InitTypes, TypesKept, PTL DEF Spec

-----------------------------------------------------------------------------
(* The limit.                                                              *)

Marked == Members(slot) \cup Members(lease)

MarksFit == Cardinality(Marked \ outlived) <= MaxConcurrency

ServedIsMarked ==
    \A r \in Requests \ outlived :
        /\ at[r] \in WithSlot => slot[r] > Lapsed
        /\ at[r] \in WithLease => lease[r] > Lapsed

IdleWhenDown == ~up => \A r \in Requests : at[r] = "away"

LimitInv == TypeOK /\ MarksFit /\ ServedIsMarked /\ IdleWhenDown

\* Reaping, request by request.
LEMMA Reaping ==
    ASSUME TypeOK
    PROVE  /\ Reaped(slot) \in [Requests -> 0..SlotTTL + 1]
           /\ Reaped(lease) \in [Requests -> 0..LeaseTTL + 1]
           /\ \A q \in Requests : slot[q] > Lapsed => Reaped(slot)[q] = slot[q]
           /\ \A q \in Requests : lease[q] > Lapsed => Reaped(lease)[q] = lease[q]
           /\ \A q \in Requests : slot[q] = Gone => Reaped(slot)[q] = Gone
           /\ \A q \in Requests : lease[q] = Gone => Reaped(lease)[q] = Gone
  BY SlotsAssumption DEF TypeOK, Reaped, Gone, Lapsed, Taken

\* A step after which no other marks count than before keeps them in the limit.
LEMMA NoNewMark ==
    ASSUME TypeOK, TypeOK', MarksFit, Marked' \ outlived' \subseteq Marked \ outlived
    PROVE  MarksFit'
<1>1. Marked \ outlived \subseteq Requests
  BY DEF Marked, Members
<1>2. /\ Cardinality(Marked' \ outlived') \in Nat /\ Cardinality(Marked \ outlived) \in Nat
      /\ Cardinality(Marked' \ outlived') <= Cardinality(Marked \ outlived)
  BY <1>1, FiniteSubset
<1> QED BY <1>2, SlotsAssumption DEF MarksFit

\* A slot is taken below the limit.
LEMMA OneNewMark ==
    ASSUME TypeOK, NEW r \in Requests, MayAcquire, TakeSlot(r)
    PROVE  MarksFit'
<1> DEFINE S == Members(Reaped(slot))
           L == Members(Reaped(lease))
<1>1. S \subseteq Requests /\ L \subseteq Requests
  BY DEF Members
<1>2. Marked' \ outlived' \subseteq (S \cup L) \cup {r}
  BY Reaping DEF Marked, Members, TakeSlot
<1>3. /\ IsFiniteSet(S) /\ IsFiniteSet(L) /\ IsFiniteSet(S \cup L)
      /\ Cardinality(S) \in Nat /\ Cardinality(L) \in Nat
      /\ Cardinality(S \cup L) \in Nat /\ Cardinality(S \cap L) \in Nat
  <2>1. S \cup L \subseteq Requests /\ S \cap L \subseteq Requests
    BY <1>1
  <2> HIDE DEF S, L
  <2> QED BY <1>1, <2>1, FiniteSubset
<1>4. Cardinality(S \cup L) = Cardinality(S) + Cardinality(L) - Cardinality(S \cap L)
  <2> HIDE DEF S, L
  <2> QED BY <1>3, FS_Union
<1>5. Cardinality((S \cup L) \cup {r}) <= Cardinality(S \cup L) + 1
  <2> HIDE DEF S, L
  <2> DEFINE U == S \cup L
  <2>1. IsFiniteSet(U) /\ Cardinality(U) \in Nat
    BY <1>3
  <2> HIDE DEF U
  <2>2. Cardinality(U \cup {r}) = IF r \in U THEN Cardinality(U) ELSE Cardinality(U) + 1
    BY <2>1, FS_AddElement
  <2>3. Cardinality(U \cup {r}) <= Cardinality(U) + 1
    BY <2>1, <2>2
  <2> QED BY <2>3 DEF U
<1>6. /\ Cardinality(Marked' \ outlived') <= Cardinality((S \cup L) \cup {r})
      /\ Cardinality(Marked' \ outlived') \in Nat
      /\ Cardinality((S \cup L) \cup {r}) \in Nat
  <2>1. (S \cup L) \cup {r} \subseteq Requests
    BY <1>1
  <2> HIDE DEF S, L
  <2> QED BY <1>2, <2>1, FiniteSubset
<1>7. Cardinality(S) + Cardinality(L) < MaxConcurrency
  BY DEF MayAcquire, Counted
<1> HIDE DEF S, L
<1> QED BY <1>3, <1>4, <1>5, <1>6, <1>7, SlotsAssumption DEF MarksFit

LEMMA RequestMarks ==
    ASSUME TypeOK, TypeOK', MarksFit, NEW r \in Requests, RequestStep(r)
    PROVE  MarksFit'
<1>0. ASSUME Members(slot') \subseteq Members(slot), Members(lease') \subseteq Members(lease),
             outlived' = outlived \/ (outlived' = outlived \ {r} /\ slot[r] = Gone /\ lease[r] = Gone)
      PROVE  MarksFit'
  <2>1. Marked' \ outlived' \subseteq Marked \ outlived
    BY <1>0 DEF Marked, Members
  <2> QED BY <2>1, NoNewMark
<1> USE DEF store, process
<1>1. CASE TryAcquire(r)
  <2>1. CASE MayAcquire /\ TakeSlot(r)
    BY <2>1, OneNewMark
  <2>2. CASE Reap
    BY <1>0, <1>1, <2>2, Reaping DEF TryAcquire, Reap, Members, Reaped
  <2> QED BY <1>1, <2>1, <2>2 DEF TryAcquire
<1>2. CASE AcquireIsLost(r)
  BY <1>2, OneNewMark DEF AcquireIsLost
<1>3. CASE IncrementWaitCount(r)
  BY <1>0, <1>3 DEF IncrementWaitCount
<1>4. CASE IncrementSlips(r)
  BY <1>0, <1>4 DEF IncrementSlips
<1>5. CASE Retry(r)
  <2>1. CASE MayAcquire /\ TakeSlot(r)
    BY <2>1, OneNewMark
  <2>2. CASE Reap
    BY <1>0, <1>5, <2>2 DEF Retry, Reap, Members, Reaped
  <2> QED BY <1>5, <2>1, <2>2 DEF Retry
<1>6. CASE GiveUp(r)
  BY <1>0, <1>6 DEF GiveUp
<1>7. CASE DecrementWaitCount(r)
  BY <1>0, <1>7 DEF DecrementWaitCount, Members, Reaped
<1>8. CASE DecrementSlips(r)
  BY <1>0, <1>8 DEF DecrementSlips
<1>9. CASE Leave(r)
  BY <1>0, <1>9 DEF Leave
<1>10. CASE ReleaseSlot(r)
  <2>1. slot' = [Reaped(slot) EXCEPT ![r] = Gone] /\ lease' = lease /\ outlived' = outlived
    BY <1>10 DEF ReleaseSlot
  <2>2. Members(slot') \subseteq Members(slot)
    BY <2>1, Reaping DEF Members, Reaped
  <2> QED BY <1>0, <2>1, <2>2
<1>11. CASE ReleaseSlotFails(r)
  BY <1>0, <1>11 DEF ReleaseSlotFails
<1> QED BY <1>1, <1>2, <1>3, <1>4, <1>5, <1>6, <1>7, <1>8, <1>9, <1>10, <1>11
        DEF RequestStep

\* A lease is no new mark: its request still holds its slot, or outlived it.
LEMMA LiveMarks ==
    ASSUME TypeOK, TypeOK', MarksFit, ServedIsMarked, NEW r \in Live, LiveStep(r)
    PROVE  MarksFit'
<1> r \in Requests
  BY DEF Requests
<1> USE DEF store, process
<1>0. ASSUME slot' = slot, outlived' = outlived, Members(lease') \subseteq Members(lease) \cup {r},
             r \in outlived \/ r \in Marked \/ r \notin Members(lease')
      PROVE  MarksFit'
  <2>1. Marked' \ outlived' \subseteq Marked \ outlived
    BY <1>0 DEF Marked
  <2> QED BY <2>1, NoNewMark
<1>1. ASSUME lease' = lease \/ lease' = Reaped(lease), slot' = slot, outlived' = outlived
      PROVE  MarksFit'
  <2>1. Members(lease') \subseteq Members(lease)
    BY <1>1, Reaping DEF Members, Reaped
  <2> QED BY <1>1, <2>1, <1>0 DEF Marked
<1>2. ASSUME lease' = [Reaped(lease) EXCEPT ![r] = Taken(LeaseTTL)], slot' = slot,
             outlived' = outlived, at[r] = "lease" \/ lease[r] > Lapsed
      PROVE  MarksFit'
  <2>1. Members(lease') \subseteq Members(lease) \cup {r}
    BY <1>2, Reaping DEF Members, Reaped
  <2>2. r \in outlived \/ r \in Marked
    BY <1>2 DEF ServedIsMarked, WithSlot, Marked, Members, TypeOK, Gone, Lapsed
  <2> QED BY <1>2, <2>1, <2>2, <1>0
<1>3. CASE AcquireLiveLease(r)
  BY <1>1, <1>2, <1>3 DEF AcquireLiveLease
<1>4. CASE LeaseIsLost(r)
  BY <1>2, <1>4 DEF LeaseIsLost
<1>5. CASE CreateUpstream(r)
  BY <1>1, <1>5 DEF CreateUpstream
<1>6. CASE ReleaseLiveLease(r)
  <2>1. lease' = [lease EXCEPT ![r] = Gone] /\ slot' = slot /\ outlived' = outlived
    BY <1>6 DEF ReleaseLiveLease
  <2>2. Members(lease') \subseteq Members(lease) /\ r \notin Members(lease')
    BY <2>1 DEF Members, TypeOK
  <2> QED BY <1>0, <2>1, <2>2
<1>7. CASE ReleaseLiveLeaseFails(r)
  BY <1>1, <1>7 DEF ReleaseLiveLeaseFails
<1>8. CASE RefreshLiveLease(r)
  BY <1>1, <1>2, <1>8 DEF RefreshLiveLease
<1>9. CASE HangUp(r)
  BY <1>1, <1>9 DEF HangUp
<1> QED BY <1>3, <1>4, <1>5, <1>6, <1>7, <1>8, <1>9 DEF LiveStep

LEMMA OtherMarks ==
    ASSUME TypeOK, TypeOK', MarksFit,
           \/ \E who \in Requests \cup {Worker} : RemoveFromIndex(who)
           \/ GetConcurrency \/ Reconcile
           \/ Tick \/ Crash \/ Start \/ StartUncleaned
    PROVE  MarksFit'
<1>0. ASSUME Members(slot') \subseteq Members(slot), Members(lease') \subseteq Members(lease),
             outlived \subseteq outlived'
      PROVE  MarksFit'
  <2>1. Marked' \ outlived' \subseteq Marked \ outlived
    BY <1>0 DEF Marked
  <2> QED BY <2>1, NoNewMark
<1> USE DEF store, process
<1>1. ASSUME NEW who \in Requests \cup {Worker}, RemoveFromIndex(who) PROVE MarksFit'
  BY <1>0, <1>1 DEF RemoveFromIndex
<1>2. CASE GetConcurrency
  BY <1>0, <1>2 DEF GetConcurrency, Reap, Members, Reaped
<1>3. CASE Reconcile
  BY <1>0, <1>3 DEF Reconcile, Members, Reaped
<1>4. CASE Tick
  <2>1. Members(slot') \subseteq Members(slot) /\ Members(lease') \subseteq Members(lease)
    BY <1>4, SlotsAssumption DEF Tick, Members, Aged, TypeOK, Gone, Lapsed, Taken
  <2>2. outlived \subseteq outlived'
    BY <1>4 DEF Tick
  <2> QED BY <1>0, <2>1, <2>2
<1>5. CASE Crash
  BY <1>0, <1>5 DEF Crash
<1>6. CASE Start
  BY <1>0, <1>6 DEF Start, Members
<1>7. CASE StartUncleaned
  BY <1>0, <1>7 DEF StartUncleaned, Members
<1> QED BY <1>1, <1>2, <1>3, <1>4, <1>5, <1>6, <1>7

LEMMA RequestServed ==
    ASSUME TypeOK, ServedIsMarked, IdleWhenDown, NEW r \in Requests, RequestStep(r)
    PROVE  ServedIsMarked' /\ IdleWhenDown'
<1> USE SlotsAssumption DEF Go, store, process, WithSlot, WithLease
\* What is enough: others keep place and marks, and r's own are in order.
<1>0. ASSUME \A q \in Requests \ {r} : at'[q] = at[q] /\ (q \in outlived' <=> q \in outlived),
             \A q \in Requests : lease[q] > Lapsed => lease'[q] > Lapsed,
             \A q \in Requests \ {r} : slot[q] > Lapsed => slot'[q] > Lapsed,
             at'[r] \in WithSlot => slot'[r] > Lapsed \/ r \in outlived',
             at'[r] \in WithLease => at[r] \in WithLease /\ outlived' = outlived,
             up' = up, ~up => at'[r] = "away"
      PROVE  ServedIsMarked' /\ IdleWhenDown'
  BY <1>0 DEF ServedIsMarked, IdleWhenDown
<1>1. up \/ at[r] = "away"
  BY DEF IdleWhenDown
<1>2. SlotTTL + 1 > Lapsed
  BY DEF Lapsed
<1>3. CASE TryAcquire(r)
  <2>1. CASE TakeSlot(r) /\ Go(r, IF r \in Live THEN "lease" ELSE "running")
    BY <1>0, <1>2, <1>3, <2>1, Reaping DEF TryAcquire, TakeSlot, TypeOK, Taken
  <2>2. CASE Reap /\ Go(r, IF r \in Live THEN "away" ELSE "queue")
    BY <1>0, <1>3, <2>2, Reaping DEF TryAcquire, Reap, TypeOK
  <2> QED BY <1>3, <2>1, <2>2 DEF TryAcquire
<1>4. CASE AcquireIsLost(r)
  BY <1>0, <1>1, <1>2, <1>4, Reaping DEF AcquireIsLost, TakeSlot, TypeOK, Taken
<1>5. CASE IncrementWaitCount(r)
  BY <1>0, <1>1, <1>5 DEF IncrementWaitCount, TypeOK
<1>6. CASE IncrementSlips(r)
  BY <1>0, <1>1, <1>6 DEF IncrementSlips, TypeOK
<1>7. CASE Retry(r)
  <2>1. CASE TakeSlot(r) /\ Go(r, "entering")
    BY <1>0, <1>1, <1>2, <1>7, <2>1, Reaping DEF Retry, TakeSlot, TypeOK, Taken
  <2>2. CASE Reap /\ UNCHANGED at
    BY <1>0, <1>1, <1>7, <2>2, Reaping DEF Retry, Reap, TypeOK
  <2> QED BY <1>7, <2>1, <2>2 DEF Retry
<1>8. CASE GiveUp(r)
  BY <1>0, <1>1, <1>8 DEF GiveUp, TypeOK
<1>9. CASE DecrementWaitCount(r)
  <2>1. at[r] = "entering" \/ at'[r] = "away"
    BY <1>9 DEF DecrementWaitCount, AfterWait, TypeOK
  <2>2. at[r] = "entering" => slot[r] > Lapsed \/ r \in outlived
    BY DEF ServedIsMarked
  <2> QED BY <1>0, <1>1, <1>9, <2>1, <2>2, Reaping DEF DecrementWaitCount, AfterWait, TypeOK
<1>10. CASE DecrementSlips(r)
  <2>1. at[r] = "entering" => slot[r] > Lapsed \/ r \in outlived
    BY DEF ServedIsMarked
  <2> QED BY <1>0, <1>1, <1>10, <2>1 DEF DecrementSlips, AfterWait, TypeOK
<1>11. CASE Leave(r)
  BY <1>0, <1>1, <1>11 DEF Leave, TypeOK
<1>12. CASE ReleaseSlot(r)
  BY <1>0, <1>1, <1>12, Reaping DEF ReleaseSlot, AfterRelease, TypeOK
<1>13. CASE ReleaseSlotFails(r)
  BY <1>0, <1>1, <1>13 DEF ReleaseSlotFails, AfterRelease, TypeOK
<1> QED BY <1>3, <1>4, <1>5, <1>6, <1>7, <1>8, <1>9, <1>10, <1>11, <1>12, <1>13
        DEF RequestStep

LEMMA LiveServed ==
    ASSUME TypeOK, ServedIsMarked, IdleWhenDown, NEW r \in Live, LiveStep(r)
    PROVE  ServedIsMarked' /\ IdleWhenDown'
<1> r \in Requests
  BY DEF Requests
<1> USE SlotsAssumption DEF Go, store, process, WithSlot, WithLease
<1>0. ASSUME \A q \in Requests \ {r} : at'[q] = at[q],
             slot' = slot, outlived' = outlived, up' = up,
             \A q \in Requests \ {r} : lease[q] > Lapsed => lease'[q] > Lapsed,
             at'[r] \in WithSlot => at[r] \in WithSlot,
             at'[r] \in WithLease => lease'[r] > Lapsed \/ r \in outlived,
             at[r] # "away"
      PROVE  ServedIsMarked' /\ IdleWhenDown'
  BY <1>0 DEF ServedIsMarked, IdleWhenDown
<1>1. /\ at[r] \in WithLease => lease[r] > Lapsed \/ r \in outlived
      /\ LeaseTTL + 1 > Lapsed
  BY DEF ServedIsMarked, Lapsed
<1>2. CASE AcquireLiveLease(r)
  BY <1>0, <1>1, <1>2, Reaping DEF AcquireLiveLease, TypeOK, Taken
<1>3. CASE LeaseIsLost(r)
  BY <1>0, <1>3, Reaping DEF LeaseIsLost, TypeOK
<1>4. CASE CreateUpstream(r)
  BY <1>0, <1>1, <1>4 DEF CreateUpstream, TypeOK
<1>5. CASE ReleaseLiveLease(r)
  BY <1>0, <1>5 DEF ReleaseLiveLease, AfterLease, TypeOK
<1>6. CASE ReleaseLiveLeaseFails(r)
  BY <1>0, <1>6 DEF ReleaseLiveLeaseFails, AfterLease, TypeOK
<1>7. CASE RefreshLiveLease(r)
  BY <1>0, <1>1, <1>7, Reaping DEF RefreshLiveLease, TypeOK, Taken
<1>8. CASE HangUp(r)
  BY <1>0, <1>8 DEF HangUp, TypeOK
<1> QED BY <1>2, <1>3, <1>4, <1>5, <1>6, <1>7, <1>8 DEF LiveStep

LEMMA OtherServed ==
    ASSUME TypeOK, ServedIsMarked, IdleWhenDown,
           \/ \E who \in Requests \cup {Worker} : RemoveFromIndex(who)
           \/ GetConcurrency \/ Reconcile
           \/ Tick \/ Crash \/ Start \/ StartUncleaned
    PROVE  ServedIsMarked' /\ IdleWhenDown'
<1> USE DEF store, process
<1>0. ASSUME at' = at, up' = up, outlived' = outlived,
             \A q \in Requests : slot[q] > Lapsed => slot'[q] > Lapsed,
             \A q \in Requests : lease[q] > Lapsed => lease'[q] > Lapsed
      PROVE  ServedIsMarked' /\ IdleWhenDown'
  BY <1>0 DEF ServedIsMarked, IdleWhenDown
\* Without handlers nobody is served.
<1>1. ASSUME \A q \in Requests : at'[q] = "away"
      PROVE  ServedIsMarked' /\ IdleWhenDown'
  BY <1>1 DEF ServedIsMarked, IdleWhenDown, WithSlot, WithLease
<1>2. ASSUME NEW who \in Requests \cup {Worker}, RemoveFromIndex(who)
      PROVE  ServedIsMarked' /\ IdleWhenDown'
  BY <1>0, <1>2 DEF RemoveFromIndex
<1>3. CASE GetConcurrency
  BY <1>0, <1>3, Reaping DEF GetConcurrency, Reap
<1>4. CASE Reconcile
  BY <1>0, <1>4, Reaping DEF Reconcile
<1>5. CASE Tick
  <2>1. \A q \in Requests : /\ slot[q] > Lapsed => slot'[q] > Lapsed \/ slot'[q] = Lapsed
                            /\ lease[q] > Lapsed => lease'[q] > Lapsed \/ lease'[q] = Lapsed
    BY <1>5, SlotsAssumption DEF Tick, Aged, TypeOK, Gone, Lapsed, Taken
  <2>2. /\ at' = at /\ up' = up /\ outlived \subseteq outlived'
        /\ \A q \in Requests : at[q] \in WithSlot /\ slot'[q] = Lapsed => q \in outlived'
        /\ \A q \in Requests : at[q] \in WithLease /\ lease'[q] = Lapsed => q \in outlived'
    BY <1>5 DEF Tick
  <2> QED BY <2>1, <2>2 DEF ServedIsMarked, IdleWhenDown
<1>6. CASE Crash
  BY <1>1, <1>6 DEF Crash
<1>7. CASE Start
  BY <1>1, <1>7 DEF Start, IdleWhenDown
<1>8. CASE StartUncleaned
  BY <1>1, <1>8 DEF StartUncleaned, IdleWhenDown
<1> QED BY <1>2, <1>3, <1>4, <1>5, <1>6, <1>7, <1>8

LEMMA LimitInvHolds == Spec => []LimitInv
<1>1. Init => LimitInv
  <2>1. ASSUME Init PROVE Marked \ outlived = {}
    BY <2>1 DEF Init, Marked, Members
  <2>2. ASSUME Init PROVE MarksFit
    BY <2>1, <2>2, FS_EmptySet, SlotsAssumption DEF MarksFit
  <2> QED BY <2>2, InitTypes DEF Init, LimitInv, ServedIsMarked, IdleWhenDown, WithSlot, WithLease
<1>2. LimitInv /\ [Next]_vars => LimitInv'
  <2> SUFFICES ASSUME LimitInv, [Next]_vars PROVE LimitInv'
    OBVIOUS
  <2>1. TypeOK /\ TypeOK' /\ MarksFit /\ ServedIsMarked /\ IdleWhenDown
    BY TypesKept DEF LimitInv
  <2>2. CASE Next
    BY <2>1, <2>2, RequestMarks, LiveMarks, OtherMarks, RequestServed, LiveServed, OtherServed
       DEF Next, LimitInv
  <2>3. CASE UNCHANGED vars
    BY <2>1, <2>3 DEF vars, LimitInv, MarksFit, Marked, Members, ServedIsMarked, IdleWhenDown
  <2> QED BY <2>2, <2>3
<1> QED BY <1>1, <1>2, PTL DEF Spec

\* For every limit, number of requests and course of the errors: who is served
\* and has not outlived its slot or lease is within the limit.
THEOREM LimitIsKept == Spec => []LimitHolds
<1>1. LimitInv => LimitHolds
  <2> SUFFICES ASSUME LimitInv PROVE LimitHolds
    OBVIOUS
  <2>1. Served \ outlived \subseteq Marked \ outlived
    BY DEF LimitInv, ServedIsMarked, Served, Marked, Members, TypeOK, Gone, Lapsed
  <2>2. Marked \ outlived \subseteq Requests
    BY DEF Marked, Members
  <2>3. /\ Cardinality(Served \ outlived) \in Nat /\ Cardinality(Marked \ outlived) \in Nat
        /\ Cardinality(Served \ outlived) <= Cardinality(Marked \ outlived)
    BY <2>1, <2>2, FiniteSubset
  <2> QED BY <2>3, SlotsAssumption DEF LimitInv, MarksFit, LimitHolds
<1> QED BY <1>1, LimitInvHolds, PTL

-----------------------------------------------------------------------------
(* The wait counter.                                                       *)

\* Who waits, and would still wait when the counter lapses.
Early == {r \in Waiting : waitLeft + waited[r] < WaitTTL}

\* Only a request that a failed increment left uncounted waits that late: the
\* others renewed the counter when they began to wait.
LapseIsLate == Cardinality(Early) <= slips

WaitStartsAtZero == \A r \in Requests \ Waiting : waited[r] = 0

WaitInv == WaitCountIsHonest /\ LapseIsLate /\ WaitStartsAtZero

LEMMA EarlyIsFinite ==
    /\ IsFiniteSet(Waiting) /\ Cardinality(Waiting) \in Nat
    /\ IsFiniteSet(Early) /\ Cardinality(Early) \in Nat
  BY Finite, FS_Subset, FS_CardinalityType DEF Waiting, Early

LEMMA EarlyIsFiniteNext ==
    /\ IsFiniteSet(Waiting') /\ Cardinality(Waiting') \in Nat
    /\ IsFiniteSet(Early') /\ Cardinality(Early') \in Nat
  BY Finite, FS_Subset, FS_CardinalityType DEF Waiting, Early

\* A step that leaves the waiting requests and the counter alone.
LEMMA WaitIsSame ==
    ASSUME WaitInv, Waiting' = Waiting,
           UNCHANGED <<waits, waitLeft, waited, slips, stranded>>
    PROVE  WaitInv'
<1>1. Early' = Early
  BY DEF Early
<1> QED BY <1>1 DEF WaitInv, WaitCountIsHonest, LapseIsLate, WaitStartsAtZero

LEMMA WaitJoins ==
    ASSUME TypeOK, TypeOK', WaitInv, NEW r \in Requests, r \notin Waiting,
           Waiting' = Waiting \cup {r}, UNCHANGED <<waited, stranded>>,
           \/ waits' = waits + 1 /\ waitLeft' = WaitTTL /\ slips' = slips
           \/ waits' = waits + 1 /\ waitLeft' = WaitTTL /\ slips' = slips + 1
           \/ waits' = waits + 2 /\ waitLeft' = WaitTTL /\ slips' = slips + 1
           \/ waits' = waits /\ waitLeft' = waitLeft /\ slips' = slips + 1
    PROVE  WaitInv'
<1>1. Cardinality(Waiting') = Cardinality(Waiting) + 1
  BY EarlyIsFinite, FS_AddElement
<1>2. WaitCountIsHonest'
  BY <1>1, EarlyIsFinite DEF WaitInv, WaitCountIsHonest, TypeOK
<1>3. CASE waitLeft' = WaitTTL
  <2>1. Early' = {}
    BY <1>3, SlotsAssumption DEF Early, Waiting, TypeOK
  <2> QED BY <2>1, FS_EmptySet, <1>2 DEF WaitInv, LapseIsLate, WaitStartsAtZero, TypeOK
<1>4. CASE waitLeft' = waitLeft /\ slips' = slips + 1
  <2>1. Early' \subseteq Early \cup {r}
    BY <1>4 DEF Early
  <2>2. /\ IsFiniteSet(Early \cup {r})
        /\ Cardinality(Early \cup {r}) <= Cardinality(Early) + 1
        /\ Cardinality(Early \cup {r}) \in Nat
    <3> DEFINE E == Early
    <3>1. IsFiniteSet(E) /\ Cardinality(E) \in Nat
      BY EarlyIsFinite
    <3> HIDE DEF E
    <3>2. /\ IsFiniteSet(E \cup {r})
          /\ Cardinality(E \cup {r}) = IF r \in E THEN Cardinality(E) ELSE Cardinality(E) + 1
      BY <3>1, FS_AddElement
    <3>3. Cardinality(E \cup {r}) <= Cardinality(E) + 1 /\ Cardinality(E \cup {r}) \in Nat
      BY <3>1, <3>2
    <3> QED BY <3>2, <3>3 DEF E
  <2>3. Cardinality(Early') <= Cardinality(Early \cup {r})
    BY <2>1, <2>2, FS_Subset
  <2> QED BY <1>2, <1>4, <2>2, <2>3, EarlyIsFinite, EarlyIsFiniteNext
          DEF WaitInv, LapseIsLate, WaitStartsAtZero, TypeOK
<1> QED BY <1>3, <1>4

LEMMA WaitEnds ==
    ASSUME TypeOK, TypeOK', WaitInv, NEW r \in Waiting,
           Waiting' = Waiting \ {r}, waited' = [waited EXCEPT ![r] = 0],
           UNCHANGED <<waitLeft, stranded>>,
           \/ slips' = slips /\ waits' = IF waits > 1 THEN waits - 1 ELSE 0
           \/ slips' = slips + 1 /\ waits' = IF waits > 2 THEN waits - 2 ELSE 0
           \/ slips' = slips + 1 /\ waits' = waits
    PROVE  WaitInv'
<1>1. Cardinality(Waiting') = Cardinality(Waiting) - 1 /\ Cardinality(Waiting') \in Nat
  BY EarlyIsFinite, EarlyIsFiniteNext, FS_RemoveElement
<1>2. WaitCountIsHonest'
  BY <1>1, EarlyIsFinite DEF WaitInv, WaitCountIsHonest, TypeOK
<1>3. Early' \subseteq Early
  BY DEF Early, Waiting, TypeOK
<1>4. Cardinality(Early') <= Cardinality(Early)
  BY <1>3, EarlyIsFinite, FS_Subset
<1>5. WaitStartsAtZero'
  BY DEF WaitInv, WaitStartsAtZero, Waiting, TypeOK
<1> QED BY <1>2, <1>4, <1>5, EarlyIsFinite, EarlyIsFiniteNext
        DEF WaitInv, LapseIsLate, TypeOK

LEMMA RequestWaits ==
    ASSUME TypeOK, TypeOK', WaitInv, NEW r \in Requests, RequestStep(r)
    PROVE  WaitInv'
<1> USE DEF store, queue, process, Go, Fault, FaultAtStart, Slip, NoFault
<1>0. ASSUME at' = at \/ \E place \in Places :
                 /\ Go(r, place)
                 /\ place \in {"waiting", "leaving", "entering"} <=> r \in Waiting,
             UNCHANGED <<waits, waitLeft, waited, slips, stranded>>
      PROVE  WaitInv'
  <2>1. Waiting' = Waiting
    BY <1>0 DEF Waiting, TypeOK
  <2> QED BY <1>0, <2>1, WaitIsSame
<1>1. CASE TryAcquire(r)
  BY <1>0, <1>1 DEF TryAcquire, Places, Waiting
<1>2. CASE AcquireIsLost(r)
  BY <1>0, <1>2 DEF AcquireIsLost, Places, Waiting
<1>3. CASE IncrementWaitCount(r)
  <2>1. CASE Increment(1) /\ Go(r, "waiting")
    <3>1. r \notin Waiting /\ Waiting' = Waiting \cup {r}
      BY <1>3, <2>1 DEF IncrementWaitCount, Waiting, TypeOK
    <3> QED BY <1>3, <2>1, <3>1, WaitJoins DEF IncrementWaitCount, Increment
  <2>2. CASE Increment(0) /\ Go(r, "away")
    BY <1>0, <1>3, <2>2 DEF IncrementWaitCount, Increment, Places, Waiting, TypeOK
  <2> QED BY <1>3, <2>1, <2>2 DEF IncrementWaitCount
<1>4. CASE IncrementSlips(r)
  <2>0. r \notin Waiting
    BY <1>4 DEF IncrementSlips, Waiting
  <2>1. CASE Go(r, "waiting")
    <3>1. Waiting' = Waiting \cup {r}
      BY <2>1 DEF Waiting, TypeOK
    <3>2. UNCHANGED <<waited, stranded>> /\ slips' = slips + 1
      BY <1>4 DEF IncrementSlips
    <3>3. \/ waits' = waits + 1 /\ waitLeft' = WaitTTL
          \/ waits' = waits + 2 /\ waitLeft' = WaitTTL
          \/ waits' = waits /\ waitLeft' = waitLeft
      BY <1>4 DEF IncrementSlips, Increment, TypeOK
    <3> QED BY <2>0, <3>1, <3>2, <3>3, WaitJoins
  <2>2. CASE Increment(1) /\ Go(r, "away")
    <3>1. Waiting' = Waiting
      BY <2>0, <2>2 DEF Waiting, TypeOK
    <3>2. Early' = {}
      BY <1>4, <2>2, SlotsAssumption DEF Early, Increment, Waiting, TypeOK
    <3>3. slips' = slips + 1 /\ UNCHANGED <<waited, stranded>> /\ waits' = waits + 1
      BY <1>4, <2>2 DEF IncrementSlips, Increment
    <3>4. WaitCountIsHonest'
      BY <3>1, <3>3, EarlyIsFinite DEF WaitInv, WaitCountIsHonest, TypeOK
    <3> QED BY <3>1, <3>2, <3>3, <3>4, FS_EmptySet
            DEF WaitInv, LapseIsLate, WaitStartsAtZero, TypeOK
  <2> QED BY <1>4, <2>1, <2>2 DEF IncrementSlips
<1>5. CASE Retry(r)
  BY <1>0, <1>5 DEF Retry, Places, Waiting
<1>6. CASE GiveUp(r)
  BY <1>0, <1>6 DEF GiveUp, Places, Waiting
<1>7. CASE DecrementWaitCount(r)
  <2>1. r \in Waiting /\ Waiting' = Waiting \ {r}
    BY <1>7 DEF DecrementWaitCount, AfterWait, Waiting, TypeOK
  <2> QED BY <1>7, <2>1, WaitEnds DEF DecrementWaitCount, Decrement, AfterWait
<1>8. CASE DecrementSlips(r)
  <2>1. r \in Waiting /\ Waiting' = Waiting \ {r}
    BY <1>8 DEF DecrementSlips, AfterWait, Waiting, TypeOK
  <2>2. \/ waits' = IF waits > 2 THEN waits - 2 ELSE 0
        \/ waits' = waits
    BY <1>8 DEF DecrementSlips, Decrement, TypeOK
  <2> QED BY <1>8, <2>1, <2>2, WaitEnds DEF DecrementSlips, Decrement, AfterWait
<1>9. CASE Leave(r)
  BY <1>0, <1>9 DEF Leave, Places, Waiting
<1>10. CASE ReleaseSlot(r)
  BY <1>0, <1>10 DEF ReleaseSlot, AfterRelease, Places, Waiting
<1>11. CASE ReleaseSlotFails(r)
  BY <1>0, <1>11 DEF ReleaseSlotFails, AfterRelease, Places, Waiting
<1> QED BY <1>1, <1>2, <1>3, <1>4, <1>5, <1>6, <1>7, <1>8, <1>9, <1>10, <1>11
        DEF RequestStep

LEMMA LiveWaits ==
    ASSUME TypeOK, WaitInv, NEW r \in Live, LiveStep(r)
    PROVE  WaitInv'
<1> r \in Requests
  BY DEF Requests
<1> USE DEF LiveStep, AcquireLiveLease, LeaseIsLost, CreateUpstream, ReleaseLiveLease,
        ReleaseLiveLeaseFails, RefreshLiveLease, HangUp, AfterLease, Go,
        store, queue, process, Fault, FaultAtStart, NoFault
<1>1. Waiting' = Waiting
  BY DEF Waiting, TypeOK
<1>2. UNCHANGED <<waits, waitLeft, waited, slips, stranded>>
  OBVIOUS
<1> QED BY <1>1, <1>2, WaitIsSame

\* When the counter lapses, all who wait are early, so as many as the errors
\* that left them uncounted.
LEMMA TickWaits ==
    ASSUME TypeOK, TypeOK', WaitInv, Tick
    PROVE  WaitInv'
<1>1. Waiting' = Waiting /\ slips' = slips
  BY DEF Tick, Waiting, NoFault
<1>2. Early' \subseteq Early
  BY <1>1, SlotsAssumption DEF Tick, Early, Waiting, TypeOK
<1>3. Cardinality(Early') <= Cardinality(Early)
  BY <1>2, EarlyIsFinite, FS_Subset
<1>4. LapseIsLate'
  BY <1>1, <1>3, EarlyIsFinite, EarlyIsFiniteNext DEF WaitInv, LapseIsLate, TypeOK
<1>5. WaitStartsAtZero'
  BY <1>1 DEF Tick, WaitInv, WaitStartsAtZero
<1>6. WaitCountIsHonest'
  <2>1. CASE waitLeft' = 0
    <3>1. Waiting = Early
      BY <2>1, SlotsAssumption DEF Tick, Early, Waiting, TypeOK
    <3>2. waits' = 0 /\ stranded' = 0
      BY <2>1 DEF Tick
    <3> QED BY <1>1, <3>1, <3>2, EarlyIsFinite DEF WaitInv, LapseIsLate, WaitCountIsHonest, TypeOK
  <2>2. CASE waitLeft' # 0
    BY <1>1, <2>2 DEF Tick, WaitInv, WaitCountIsHonest
  <2> QED BY <2>1, <2>2
<1> QED BY <1>4, <1>5, <1>6 DEF WaitInv

LEMMA NoneCounted ==
    \A n, w, s, t \in Nat :
        n = 0 /\ w <= s + t => w <= n + s + t /\ w >= n - s
  OBVIOUS

LEMMA NobodyWaits ==
    ASSUME TypeOK', Waiting' = {}, \A r \in Requests : waited'[r] = 0,
           waits' <= slips' + stranded'
    PROVE  WaitInv'
<1>1. Early' = {}
  BY DEF Early
<1>2. waits' \in Nat /\ slips' \in Nat /\ stranded' \in Nat
  BY SlotsAssumption DEF TypeOK
<1>3. Cardinality(Waiting') = 0 /\ Cardinality(Early') = 0
  BY <1>1, FS_EmptySet
<1>4. WaitCountIsHonest'
  BY <1>2, <1>3, NoneCounted DEF WaitCountIsHonest
<1>5. LapseIsLate'
  BY <1>2, <1>3 DEF LapseIsLate
<1> QED BY <1>4, <1>5 DEF WaitInv, WaitStartsAtZero

LEMMA OtherWaits ==
    ASSUME TypeOK, TypeOK', WaitInv, IdleWhenDown,
           \/ \E who \in Requests \cup {Worker} : RemoveFromIndex(who)
           \/ GetConcurrency \/ Reconcile
           \/ Tick \/ Crash \/ Start \/ StartUncleaned
    PROVE  WaitInv'
<1> USE DEF store, queue, process, Fault, FaultAtStart, NoFault
<1>1. ASSUME NEW who \in Requests \cup {Worker}, RemoveFromIndex(who) PROVE WaitInv'
  BY <1>1, WaitIsSame DEF RemoveFromIndex, Waiting
<1>2. CASE GetConcurrency
  BY <1>2, WaitIsSame DEF GetConcurrency, Waiting
<1>3. CASE Reconcile
  BY <1>3, WaitIsSame DEF Reconcile, Waiting
<1>4. CASE Tick
  BY <1>4, TickWaits
<1>5. CASE Crash
  <2>1. Waiting' = {}
    BY <1>5 DEF Crash, Waiting
  <2>2. waits' <= slips' + stranded'
    BY <1>5, EarlyIsFinite DEF Crash, WaitInv, WaitCountIsHonest, TypeOK
  <2> QED BY NobodyWaits, <1>5, <2>1, <2>2 DEF Crash
<1>6. CASE Start
  <2>1. Waiting = {} /\ Waiting' = {}
    BY <1>6 DEF Start, IdleWhenDown, Waiting
  <2>2. \A r \in Requests : waited'[r] = 0
    BY <1>6, <2>1 DEF Start, WaitInv, WaitStartsAtZero
  <2>3. waits <= slips + stranded
    BY <2>1, FS_EmptySet DEF WaitInv, WaitCountIsHonest, TypeOK
  <2>4. slips' = slips /\ slips \in Nat
    BY <1>6, SlotsAssumption DEF Start, TypeOK
  <2>5. waits' <= slips' + stranded'
    BY <1>6, <2>3, <2>4 DEF Start
  <2> QED BY NobodyWaits, <1>6, <2>1, <2>2, <2>5 DEF Start
<1>7. CASE StartUncleaned
  BY <1>7, WaitIsSame DEF StartUncleaned, Waiting
<1> QED BY <1>1, <1>2, <1>3, <1>4, <1>5, <1>6, <1>7

\* For every number of requests, errors and crashes and every timeout shorter
\* than the counter's TTL: the wait counter is the number of requests that
\* wait, up to the errors that hit it and the requests a crash left counted.
THEOREM WaitCountIsKept == Spec => []WaitCountIsHonest
<1>1. Init => WaitInv
  <2> SUFFICES ASSUME Init PROVE WaitInv
    OBVIOUS
  <2>1. Waiting = {} /\ Early = {}
    BY DEF Init, Waiting, Early
  <2> QED BY <2>1, FS_EmptySet
          DEF Init, WaitInv, WaitCountIsHonest, LapseIsLate, WaitStartsAtZero
<1>2. LimitInv /\ LimitInv' /\ WaitInv /\ [Next]_vars => WaitInv'
  <2> SUFFICES ASSUME LimitInv, LimitInv', WaitInv, [Next]_vars PROVE WaitInv'
    OBVIOUS
  <2>1. TypeOK /\ TypeOK' /\ IdleWhenDown
    BY DEF LimitInv
  <2>2. CASE Next
    BY <2>1, <2>2, RequestWaits, LiveWaits, OtherWaits DEF Next
  <2>3. CASE UNCHANGED vars
    BY <2>3, WaitIsSame DEF vars, Waiting
  <2> QED BY <2>2, <2>3
<1>3. WaitInv => WaitCountIsHonest
  BY DEF WaitInv
<1> QED BY <1>1, <1>2, <1>3, LimitInvHolds, PTL DEF Spec
=============================================================================
