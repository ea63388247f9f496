---------------------------- MODULE GatewaySlots ----------------------------
(***************************************************************************)
(* The concurrency limit of one user or account: slots of ordinary         *)
(* requests, leases of live calls, and the counter of requests that wait   *)
(* (repository/concurrency_cache.go, service/concurrency_service.go and    *)
(* handler/gateway_helper.go; users and accounts use the same scripts).    *)
(*                                                                         *)
(* A slot is a member of a sorted set in Redis, scored with the time it    *)
(* was taken; one that is older than the TTL is lapsed, and stays a member *)
(* until some script reaps it.  A request that finds the limit reached     *)
(* counts itself as waiting and tries again until its timeout.  A live     *)
(* call takes a slot, then a lease that replaces it, then gives the slot   *)
(* back.  The process may end at any time; what it left in Redis is        *)
(* cleaned when it starts again, for the owners its index names.           *)
(*                                                                         *)
(* A member of Plain or Live stands for one acquisition: it comes back as  *)
(* a new one once nothing in Redis refers to it, as request ids are fresh. *)
(* Time passes in units of the wait's timeout.                             *)
(***************************************************************************)
EXTENDS Integers, FiniteSets

CONSTANTS
    Plain,           \* ordinary requests
    Live,            \* requests that create a live call
    Worker,          \* the cleanup worker
    MaxConcurrency,  \* the limit of the user or account
    QueueLimit,      \* how many may wait
    SlotTTL, LeaseTTL, WaitTTL,
    WaitTimeout,     \* maxConcurrencyWait
    MaxFaults,       \* errors of the store
    MaxCrashes,
    MaxTroubles      \* errors and crashes together, errors at the start aside

ASSUME SlotsAssumption ==
    /\ IsFiniteSet(Plain) /\ IsFiniteSet(Live)
    /\ Plain \cap Live = {} /\ Worker \notin Plain \cup Live
    /\ {MaxConcurrency, QueueLimit, SlotTTL, LeaseTTL, WaitTTL, WaitTimeout}
         \subseteq Nat \ {0}
    /\ WaitTimeout < WaitTTL
    /\ {MaxFaults, MaxCrashes, MaxTroubles} \subseteq Nat

Requests == Plain \cup Live

VARIABLES
    at,        \* at[r]: where the handler of request r is
    slot,      \* slot[r]: what is left of r's slot
    lease,     \* lease[r]: what is left of r's live lease
    waits,     \* the wait counter
    waitLeft,  \* what is left of the counter's TTL
    waited,    \* waited[r]: how long r has been waiting
    indexed,   \* the owner is in the active index
    removing,  \* who found no load and is about to remove the owner from it
    up, crashes, faults,
    slips,     \* errors of the store that hit the wait counter
    stranded,  \* requests that were counted as waiting when the process ended
    outlived   \* requests whose slot or lease lapsed while they were served

store == <<slot, lease>>
queue == <<waits, waitLeft>>
index == <<indexed, removing>>
process == <<up, crashes, outlived>>
vars == <<at, slot, lease, waits, waitLeft, waited, indexed, removing, up,
          crashes, faults, slips, stranded, outlived>>

\* What is left of a slot or lease: Gone when it is no member of its set,
\* Lapsed when it is one that the next reaping removes.
Gone == 0
Lapsed == 1
Taken(ttl) == ttl + 1

Members(z) == {r \in Requests : z[r] # Gone}
Reaped(z) == [r \in Requests |-> IF z[r] = Lapsed THEN Gone ELSE z[r]]
Aged(z) == [r \in Requests |-> IF z[r] > Lapsed THEN z[r] - 1 ELSE z[r]]

Places == {"away", "queue", "waiting", "leaving", "entering", "running",
           "release", "lease", "dial", "swap", "drop", "live", "hangup"}

TypeOK ==
    /\ at \in [Requests -> Places]
    /\ slot \in [Requests -> Gone..Taken(SlotTTL)]
    /\ lease \in [Requests -> Gone..Taken(LeaseTTL)]
    /\ waits \in Nat /\ waitLeft \in 0..WaitTTL
    /\ waited \in [Requests -> 0..WaitTimeout]
    /\ indexed \in BOOLEAN /\ removing \subseteq Requests \cup {Worker}
    /\ up \in BOOLEAN /\ crashes \in 0..MaxCrashes
    /\ faults \in 0..MaxFaults /\ slips \in 0..faults
    /\ stranded \in Nat
    /\ outlived \subseteq Requests

Init ==
    /\ at = [r \in Requests |-> "away"]
    /\ slot = [r \in Requests |-> Gone] /\ lease = [r \in Requests |-> Gone]
    /\ waits = 0 /\ waitLeft = 0
    /\ waited = [r \in Requests |-> 0]
    /\ indexed = FALSE /\ removing = {}
    /\ up = TRUE /\ crashes = 0 /\ faults = 0 /\ slips = 0 /\ stranded = 0
    /\ outlived = {}

Go(r, place) == at' = [at EXCEPT ![r] = place]

MayTrouble == faults + crashes < MaxTroubles
FaultAtStart == faults < MaxFaults /\ faults' = faults + 1 /\ UNCHANGED slips
Fault == MayTrouble /\ FaultAtStart
Slip == faults < MaxFaults /\ MayTrouble /\ faults' = faults + 1 /\ slips' = slips + 1
NoFault == UNCHANGED <<faults, slips>>

-----------------------------------------------------------------------------
(* The scripts of the store.                                               *)

\* acquireScript: both sets are reaped and counted against the limit.  The
\* id is fresh; the branch for a member answers the client's retries.
Counted == Cardinality(Members(Reaped(slot))) + Cardinality(Members(Reaped(lease)))

\* Mutant: the leases of live calls are not counted.
MayAcquireBesideLive == Cardinality(Members(Reaped(slot))) < MaxConcurrency

MayAcquire == Counted < MaxConcurrency

TakeSlot(r) ==
    /\ slot' = [Reaped(slot) EXCEPT ![r] = Taken(SlotTTL)]
    /\ lease' = Reaped(lease)

Reap == slot' = Reaped(slot) /\ lease' = Reaped(lease)

\* touchActiveIndexAt
Touch == indexed' = TRUE /\ UNCHANGED removing

\* refreshActiveIndex on the slots and the counter this step leaves: without
\* load the entry is removed, by a command of its own.
RefreshIndex(who, slots, count) ==
    IF Members(slots) = {} /\ count <= 0
      THEN removing' = removing \cup {who} /\ UNCHANGED indexed
      ELSE Touch

RemoveFromIndex(who) ==
    /\ who \in removing
    /\ removing' = removing \ {who} /\ indexed' = FALSE
    /\ UNCHANGED <<at, store, queue, waited, process, stranded>> /\ NoFault

\* acquireLiveLeaseScript: lapsed leases are reaped, slots are not; the slot
\* that the lease replaces allows one more.
MayLease ==
    Cardinality(Members(slot)) + Cardinality(Members(Reaped(lease)))
        < MaxConcurrency + 1

\* incrementWaitScript: only an increment renews the TTL.
Increment(n) ==
    /\ waits' = waits + n
    /\ waitLeft' = IF n = 0 THEN waitLeft ELSE WaitTTL

\* decrementWaitScript, n times
Decrement(n) ==
    /\ waits' = IF waits > n THEN waits - n ELSE 0
    /\ UNCHANGED waitLeft

-----------------------------------------------------------------------------
(* Ordinary requests.                                                      *)

\* The first attempt, for a live call too; a live call does not wait.
TryAcquire(r) ==
    /\ up /\ at[r] = "away" /\ slot[r] = Gone /\ lease[r] = Gone /\ r \notin removing
    /\ \/ MayAcquire /\ TakeSlot(r) /\ Touch
          /\ Go(r, IF r \in Live THEN "lease" ELSE "running")
       \/ ~MayAcquire /\ Reap /\ UNCHANGED index
          /\ Go(r, IF r \in Live THEN "away" ELSE "queue")
    /\ outlived' = outlived \ {r}
    /\ UNCHANGED <<queue, waited, up, crashes, stranded>> /\ NoFault

\* The script ran, its answer and those of the client's retries are lost: the
\* request fails, and the slot is taken by nobody.
AcquireIsLost(r) ==
    /\ up /\ at[r] \in {"away", "waiting"} /\ MayAcquire /\ Fault
    /\ slot[r] = Gone /\ lease[r] = Gone /\ r \notin removing
    /\ TakeSlot(r)
    /\ Go(r, IF at[r] = "waiting" THEN "leaving" ELSE "away")
    /\ UNCHANGED <<queue, waited, index, process, stranded>>

\* Mutant: an increment that is refused renews the TTL all the same.
IncrementWaitCountRenewed(r) ==
    /\ at[r] = "queue"
    /\ \/ waits < QueueLimit /\ Increment(1) /\ Touch /\ Go(r, "waiting")
       \/ /\ waits >= QueueLimit /\ waits' = waits /\ waitLeft' = WaitTTL
          /\ UNCHANGED index /\ Go(r, "away")
    /\ UNCHANGED <<store, waited, process, stranded>> /\ NoFault

IncrementWaitCount(r) ==
    /\ at[r] = "queue"
    /\ \/ waits < QueueLimit /\ Increment(1) /\ Touch /\ Go(r, "waiting")
       \/ waits >= QueueLimit /\ Increment(0) /\ UNCHANGED index /\ Go(r, "away")
    /\ UNCHANGED <<store, waited, process, stranded>> /\ NoFault

\* An error lets the request wait, counted or not.  When the answer is lost
\* the client runs the script again: the request is counted twice, or counted
\* and refused.
IncrementSlips(r) ==
    /\ at[r] = "queue" /\ Slip
    /\ \/ Increment(0) /\ Go(r, "waiting")
       \/ waits < QueueLimit /\ Increment(1) /\ Go(r, "waiting")
       \/ waits + 1 < QueueLimit /\ Increment(2) /\ Go(r, "waiting")
       \/ waits + 1 = QueueLimit /\ Increment(1) /\ Go(r, "away")
    /\ UNCHANGED <<store, waited, index, process, stranded>>

\* waitForSlotWithPingTimeout: another attempt, or the end of the wait.
Retry(r) ==
    /\ at[r] = "waiting"
    /\ \/ MayAcquire /\ TakeSlot(r) /\ Touch /\ Go(r, "entering")
       \/ ~MayAcquire /\ Reap /\ UNCHANGED <<index, at>>
    /\ UNCHANGED <<queue, waited, process, stranded>> /\ NoFault

\* Mutant: the decrement is not deferred, and forgotten when the wait fails.
GiveUpCounted(r) ==
    /\ at[r] = "waiting"
    /\ Go(r, "away") /\ waited' = [waited EXCEPT ![r] = 0]
    /\ UNCHANGED <<store, queue, index, process, stranded>> /\ NoFault

\* The timeout, an error of the store, or the client is gone.
GiveUp(r) ==
    /\ at[r] = "waiting"
    /\ Go(r, "leaving")
    /\ UNCHANGED <<store, queue, waited, index, process, stranded>> /\ NoFault

AfterWait(r) ==
    /\ waited' = [waited EXCEPT ![r] = 0]
    /\ Go(r, IF at[r] = "entering" THEN "running" ELSE "away")

DecrementWaitCount(r) ==
    /\ at[r] \in {"leaving", "entering"}
    /\ Decrement(1) /\ AfterWait(r)
    /\ slot' = Reaped(slot) /\ RefreshIndex(r, slot', waits')
    /\ UNCHANGED <<lease, process, stranded>> /\ NoFault

\* The error is only logged; or the client ran the script twice.
DecrementSlips(r) ==
    /\ at[r] \in {"leaving", "entering"} /\ Slip
    /\ Decrement(0) \/ Decrement(2)
    /\ AfterWait(r)
    /\ UNCHANGED <<store, index, process, stranded>>

\* The handler returns, or wrapReleaseOnDone sees the client go.
Leave(r) ==
    /\ at[r] = "running"
    /\ Go(r, "release")
    /\ UNCHANGED <<store, queue, waited, index, process, stranded>> /\ NoFault

AfterRelease(r) == Go(r, IF at[r] = "swap" THEN "live" ELSE "away")

ReleaseSlot(r) ==
    /\ at[r] \in {"release", "swap"}
    /\ slot' = [Reaped(slot) EXCEPT ![r] = Gone]
    /\ RefreshIndex(r, slot', waits)
    /\ AfterRelease(r)
    /\ UNCHANGED <<lease, queue, waited, process, stranded>> /\ NoFault

\* The error is only logged; the slot stays until it lapses.
ReleaseSlotFails(r) ==
    /\ at[r] \in {"release", "swap"} /\ Fault
    /\ AfterRelease(r)
    /\ UNCHANGED <<store, queue, waited, index, process, stranded>>

-----------------------------------------------------------------------------
(* Live calls (CreateLiveCall, and what module LiveCalls does afterwards). *)

AcquireLiveLease(r) ==
    /\ at[r] = "lease"
    /\ \/ /\ MayLease
          /\ lease' = [Reaped(lease) EXCEPT ![r] = Taken(LeaseTTL)] /\ Go(r, "dial")
       \/ ~MayLease /\ lease' = Reaped(lease) /\ Go(r, "release")
    /\ UNCHANGED <<slot, queue, waited, index, process, stranded>> /\ NoFault

\* The lease is taken and the answer lost: only the slot is given back.
LeaseIsLost(r) ==
    /\ at[r] = "lease" /\ MayLease /\ Fault
    /\ lease' = [Reaped(lease) EXCEPT ![r] = Taken(LeaseTTL)] /\ Go(r, "release")
    /\ UNCHANGED <<slot, queue, waited, index, process, stranded>>

\* The provider answers.  A failed call gives everything back; an attempt with
\* another account begins anew.
CreateUpstream(r) ==
    /\ at[r] = "dial"
    /\ Go(r, "swap") \/ Go(r, "drop")
    /\ UNCHANGED <<store, queue, waited, index, process, stranded>> /\ NoFault

AfterLease(r) == Go(r, IF at[r] = "drop" THEN "release" ELSE "away")

ReleaseLiveLease(r) ==
    /\ at[r] \in {"drop", "hangup"}
    /\ lease' = [lease EXCEPT ![r] = Gone]
    /\ AfterLease(r)
    /\ UNCHANGED <<slot, queue, waited, index, process, stranded>> /\ NoFault

ReleaseLiveLeaseFails(r) ==
    /\ at[r] \in {"drop", "hangup"} /\ Fault
    /\ AfterLease(r)
    /\ UNCHANGED <<store, queue, waited, index, process, stranded>>

\* A lease that is gone is not taken again, it ends the call.
RefreshLiveLease(r) ==
    /\ at[r] = "live"
    /\ \/ /\ lease[r] > Lapsed /\ UNCHANGED at
          /\ lease' = [Reaped(lease) EXCEPT ![r] = Taken(LeaseTTL)]
       \/ lease[r] <= Lapsed /\ lease' = Reaped(lease) /\ Go(r, "hangup")
    /\ UNCHANGED <<slot, queue, waited, index, process, stranded>> /\ NoFault

HangUp(r) ==
    /\ at[r] = "live"
    /\ Go(r, "hangup")
    /\ UNCHANGED <<store, queue, waited, index, process, stranded>> /\ NoFault

-----------------------------------------------------------------------------
(* Readers, the cleanup worker, time, and the end and start of the process. *)

\* getCountScript, and the batch readers of the scheduler
GetConcurrency ==
    /\ Reap
    /\ UNCHANGED <<at, queue, waited, index, process, stranded>> /\ NoFault

\* reconcileExpiredIndexCandidates.  The score that makes the entry a
\* candidate is left out: the worker may find it at any time.
Reconcile ==
    /\ up /\ indexed /\ Worker \notin removing
    /\ slot' = Reaped(slot) /\ RefreshIndex(Worker, slot', waits)
    /\ UNCHANGED <<at, lease, queue, waited, process, stranded>> /\ NoFault

Waiting == {r \in Requests : at[r] \in {"waiting", "leaving", "entering"}}

WithSlot == {"entering", "running", "lease", "dial", "swap"}
WithLease == {"dial", "swap", "live"}

\* A request that waits is done with it, decrement included, by its timeout.
Tick ==
    /\ \A r \in Waiting : waited[r] < WaitTimeout
    /\ waited' = [r \in Requests |-> IF r \in Waiting THEN waited[r] + 1 ELSE waited[r]]
    /\ slot' = Aged(slot) /\ lease' = Aged(lease)
    /\ waitLeft' = IF waitLeft = 0 THEN 0 ELSE waitLeft - 1
    /\ waits' = IF waitLeft' = 0 THEN 0 ELSE waits
    /\ stranded' = IF waitLeft' = 0 THEN 0 ELSE stranded
    /\ outlived' = outlived
         \cup {r \in Requests : at[r] \in WithSlot /\ slot'[r] = Lapsed}
         \cup {r \in Requests : at[r] \in WithLease /\ lease'[r] = Lapsed}
    /\ UNCHANGED <<at, index, up, crashes>> /\ NoFault

Crash ==
    /\ up /\ crashes < MaxCrashes /\ MayTrouble
    /\ up' = FALSE /\ crashes' = crashes + 1
    /\ stranded' = stranded + Cardinality(Waiting)
    /\ at' = [r \in Requests |-> "away"]
    /\ waited' = [r \in Requests |-> 0]
    /\ removing' = {}
    /\ UNCHANGED <<store, queue, indexed, outlived>> /\ NoFault

\* CleanupStaleProcessSlots runs before the first request is served.  Every
\* slot is another process's; leases are left to lapse.
Start ==
    /\ ~up /\ up' = TRUE
    /\ \/ /\ indexed /\ indexed' = FALSE
          /\ slot' = [r \in Requests |-> Gone]
          /\ waits' = 0 /\ waitLeft' = 0 /\ stranded' = 0
       \/ ~indexed /\ UNCHANGED <<slot, queue, indexed, stranded>>
    /\ UNCHANGED <<at, lease, waited, removing, crashes, outlived>> /\ NoFault

\* An error ends the cleanup, before or after the slots; it is only logged.
StartUncleaned ==
    /\ ~up /\ up' = TRUE /\ FaultAtStart
    /\ slot' = [r \in Requests |-> Gone] \/ UNCHANGED slot
    /\ UNCHANGED <<at, lease, queue, waited, index, crashes, stranded, outlived>>

-----------------------------------------------------------------------------
RequestStep(r) ==
    \/ TryAcquire(r) \/ AcquireIsLost(r)
    \/ IncrementWaitCount(r) \/ IncrementSlips(r)
    \/ Retry(r) \/ GiveUp(r)
    \/ DecrementWaitCount(r) \/ DecrementSlips(r)
    \/ Leave(r) \/ ReleaseSlot(r) \/ ReleaseSlotFails(r)

LiveStep(r) ==
    \/ AcquireLiveLease(r) \/ LeaseIsLost(r) \/ CreateUpstream(r)
    \/ ReleaseLiveLease(r) \/ ReleaseLiveLeaseFails(r)
    \/ RefreshLiveLease(r) \/ HangUp(r)

Next ==
    \/ \E r \in Requests : RequestStep(r)
    \/ \E r \in Live : LiveStep(r)
    \/ \E who \in Requests \cup {Worker} : RemoveFromIndex(who)
    \/ GetConcurrency \/ Reconcile
    \/ Tick \/ Crash \/ Start \/ StartUncleaned

\* Time passes, and a request that began to wait goes on: the timer of its
\* wait fires, and its calls to the store have deadlines.
Fairness ==
    /\ WF_vars(Tick)
    /\ \A r \in Plain :
         /\ WF_vars(IncrementWaitCount(r))
         /\ WF_vars(GiveUp(r))
         /\ WF_vars(DecrementWaitCount(r))

Spec == Init /\ [][Next]_vars /\ Fairness

-----------------------------------------------------------------------------
(* Properties.                                                             *)

Served == {r \in Requests : at[r] \in WithSlot \cup WithLease}

\* No more requests and live calls than the limit are served at a time, if
\* none of them outlived its slot or lease: not when a live call replaces its
\* slot by a lease, after lost answers and failed releases, or across a
\* restart of the process.
LimitHolds == Cardinality(Served \ outlived) <= MaxConcurrency

\* The wait counter is the number of requests that wait, up to the errors that
\* hit it and the requests that waited when the process ended.
WaitCountIsHonest ==
    /\ waits <= Cardinality(Waiting) + slips + stranded
    /\ waits >= Cardinality(Waiting) - slips

\* A counter that is too high, after failed decrements or the end of the
\* process, does not turn requests away for good.
QueueOpens == []<>(waits < QueueLimit)
=============================================================================
