--------------------------- MODULE BatchImageQueue ---------------------------
(***************************************************************************)
(* The Redis work queue of the batch image subsystem and the worker loop   *)
(* that consumes it.                                                       *)
(*                                                                         *)
(*   repository/batch_image_queue.go    the scripts on ready / delayed /   *)
(*                                      active / inflight / lock           *)
(*   service/batch_image_worker.go      RunOnce, the delayed mover, the    *)
(*                                      stale-active recovery, heartbeats  *)
(*                                                                         *)
(* Every Redis script, or MULTI/EXEC pipeline, is one atomic step.  Time   *)
(* is not counted: an active entry is in  stale  once its score is older   *)
(* than StaleActiveAfter, and a lock key may expire, which for a live      *)
(* worker costs one of the  MaxLate  allowed lapses of its heartbeats.     *)
(***************************************************************************)
EXTENDS Naturals, Sequences, BatchImageIds

CONSTANTS
    Workers,        \* worker loops (one per running process)
    Free,           \* the lock key is absent
    Abandoned,      \* the lock key holds the token of a process that died
    MaxCrashes,     \* bound: worker crashes and failed Redis calls of workers
    MaxLate         \* bound: lapses of a live worker's heartbeat

ASSUME QueueAssumption ==
    /\ Free \notin Workers
    /\ Abandoned \notin Workers
    /\ Abandoned # Free
    /\ MaxCrashes \in Nat
    /\ MaxLate \in Nat

VARIABLES
    ready,          \* list: LPUSH appends, RPOP takes the head
    delayed,        \* zset of postponed batches
    active,         \* zset of reserved batches
    stale,          \* active entries whose score is older than the cutoff
    inflight,       \* batches whose dedup key exists
    lock,           \* batch -> token owner
    wpc, wcur,      \* worker -> control point, worker -> reserved batch
    crashes, late   \* bounded environment faults so far

redisVars  == <<ready, delayed, active, stale, inflight, lock>>
workerVars == <<wpc, wcur>>
faultVars  == <<crashes, late>>
queueVars  == <<redisVars, workerVars, faultVars>>

WorkerPoints == {"idle", "reserved", "processing", "unlock"}

(***************************************************************************)
(* An entry that is listed somewhere will be handed to a worker again.     *)
(***************************************************************************)
InReady(b) == \E i \in 1..Len(ready) : ready[i] = b
Listed(b)  == InReady(b) \/ b \in delayed \/ b \in active

\* the processing worker w works on batch b
Processes(w, b) == wpc[w] = "processing" /\ wcur[w] = b

\* every order in which a script may push the members of S
Orderings(S) ==
    { q \in [1..Cardinality(S) -> S] :
        \A b \in S : \E i \in 1..Cardinality(S) : q[i] = b }

-----------------------------------------------------------------------------
(***************************************************************************)
(* The scripts.  None of them touches the worker or fault variables.       *)
(***************************************************************************)
\* SET inflight NX + LPUSH ready; a second Enqueue is ErrBatchImageAlreadyQueued
Enqueue(b) ==
    /\ IF b \in inflight
       THEN UNCHANGED <<inflight, ready>>
       ELSE /\ inflight' = inflight \union {b}
            /\ ready' = Append(ready, b)
    /\ UNCHANGED <<delayed, active, stale, lock>>

\* mutant: a plain RPOP, the ZADD left to a later call
ReserveScriptPopOnly(b) ==
    /\ ready # <<>>
    /\ b = Head(ready)
    /\ ready' = Tail(ready)
    /\ UNCHANGED <<delayed, active, stale, inflight, lock>>

\* mutant: the list is used as a stack (LPUSH with LPOP)
ReserveScriptLIFO(b) ==
    /\ ready # <<>>
    /\ b = ready[Len(ready)]
    /\ ready' = SubSeq(ready, 1, Len(ready) - 1)
    /\ active' = active \union {b}
    /\ stale' = stale \ {b}
    /\ UNCHANGED <<delayed, inflight, lock>>

\* RPOP ready + ZADD active
ReserveScript(b) ==
    /\ ready # <<>>
    /\ b = Head(ready)
    /\ ready' = Tail(ready)
    /\ active' = active \union {b}
    /\ stale' = stale \ {b}
    /\ UNCHANGED <<delayed, inflight, lock>>

\* every delay the worker passes is positive, so the batch goes to delayed
RequeueAfter(b) ==
    /\ active' = active \ {b}
    /\ stale' = stale \ {b}
    /\ delayed' = delayed \union {b}
    /\ UNCHANGED <<ready, inflight, lock>>

Ack(b) ==
    /\ active' = active \ {b}
    /\ stale' = stale \ {b}
    /\ delayed' = delayed \ {b}
    /\ inflight' = inflight \ {b}
    /\ UNCHANGED <<ready, lock>>

\* mutant: ZADD without XX
HeartbeatScriptUpsert(b) ==
    /\ active' = active \union {b}
    /\ stale' = stale \ {b}
    /\ UNCHANGED <<ready, delayed, inflight, lock>>

\* ZADD XX: only an existing member of active gets a fresh score
HeartbeatScript(b) ==
    /\ stale' = stale \ {b}
    /\ UNCHANGED <<ready, delayed, active, inflight, lock>>

\* mutant: DEL without comparing the token
ReleaseLockScriptBlind(w, b) ==
    /\ lock' = [lock EXCEPT ![b] = Free]
    /\ UNCHANGED <<ready, delayed, active, stale, inflight>>

\* DEL the lock key when it still holds this worker's token
ReleaseLockScript(w, b) ==
    /\ lock' = IF lock[b] = w THEN [lock EXCEPT ![b] = Free] ELSE lock
    /\ UNCHANGED <<ready, delayed, active, stale, inflight>>

MoveDueScript(S) ==
    /\ delayed' = delayed \ S
    /\ \E q \in Orderings(S) : ready' = ready \o q
    /\ UNCHANGED <<active, stale, inflight, lock>>

RecoverStaleScript(S) ==
    /\ active' = active \ S
    /\ stale' = stale \ S
    /\ \E q \in Orderings(S) : ready' = ready \o q
    /\ UNCHANGED <<delayed, inflight, lock>>

-----------------------------------------------------------------------------
(***************************************************************************)
(* RunOnce, step by step.                                                  *)
(***************************************************************************)
SetWorker(w, point, b) ==
    /\ wpc' = [wpc EXCEPT ![w] = point]
    /\ wcur' = [wcur EXCEPT ![w] = b]

Reserve(w) ==
    /\ wpc[w] = "idle"
    /\ \E b \in Batches : ReserveScript(b) /\ SetWorker(w, "reserved", b)
    /\ UNCHANGED faultVars

\* mutant: SET without NX
TakeLockBlind(w) ==
    /\ wpc[w] = "reserved"
    /\ lock' = [lock EXCEPT ![wcur[w]] = w]
    /\ SetWorker(w, "processing", wcur[w])
    /\ UNCHANGED <<ready, delayed, active, stale, inflight, faultVars>>

\* SETNX of a fresh token succeeded
TakeLock(w) ==
    /\ wpc[w] = "reserved"
    /\ lock[wcur[w]] = Free
    /\ lock' = [lock EXCEPT ![wcur[w]] = w]
    /\ SetWorker(w, "processing", wcur[w])
    /\ UNCHANGED <<ready, delayed, active, stale, inflight, faultVars>>

\* the key is held: requeue after LockConflictDelay
LockConflict(w) ==
    /\ wpc[w] = "reserved"
    /\ lock[wcur[w]] # Free
    /\ RequeueAfter(wcur[w])
    /\ SetWorker(w, "idle", None)
    /\ UNCHANGED faultVars

\* Process returned Terminal
FinishAck(w) ==
    /\ wpc[w] = "processing"
    /\ Ack(wcur[w])
    /\ SetWorker(w, "unlock", wcur[w])
    /\ UNCHANGED faultVars

\* Process returned an error or a RequeueAfter
FinishRequeue(w) ==
    /\ wpc[w] = "processing"
    /\ RequeueAfter(wcur[w])
    /\ SetWorker(w, "unlock", wcur[w])
    /\ UNCHANGED faultVars

\* the deferred lock.Release
Unlock(w) ==
    /\ wpc[w] = "unlock"
    /\ ReleaseLockScript(w, wcur[w])
    /\ SetWorker(w, "idle", None)
    /\ UNCHANGED faultVars

Heartbeat(w) ==
    /\ wpc[w] = "processing"
    /\ HeartbeatScript(wcur[w])
    /\ UNCHANGED <<workerVars, faultVars>>

\* S is what is due, up to the limit
MoveDueDelayed(S) ==
    /\ S \subseteq delayed
    /\ S # {}
    /\ MoveDueScript(S)
    /\ UNCHANGED <<workerVars, faultVars>>

RecoverStaleActive(S) ==
    /\ S \subseteq stale
    /\ S # {}
    /\ RecoverStaleScript(S)
    /\ UNCHANGED <<workerVars, faultVars>>

-----------------------------------------------------------------------------
(***************************************************************************)
(* The environment: timeouts and crashes.                                  *)
(***************************************************************************)
\* A worker that still holds b keeps the entry fresh and the lock alive,
\* unless its heartbeats lapse.
HeldBy(b) == \E w \in Workers : wpc[w] # "idle" /\ wcur[w] = b

BecomesStale(b) ==
    /\ b \in active \ stale
    /\ IF HeldBy(b) THEN late < MaxLate /\ late' = late + 1
                    ELSE UNCHANGED late
    /\ stale' = stale \union {b}
    /\ UNCHANGED <<ready, delayed, active, inflight, lock, workerVars, crashes>>

\* TTL of the lock key; an orphaned key costs nothing
LockExpires(b) ==
    /\ lock[b] # Free
    /\ IF lock[b] = Abandoned THEN UNCHANGED late
                              ELSE late < MaxLate /\ late' = late + 1
    /\ lock' = [lock EXCEPT ![b] = Free]
    /\ UNCHANGED <<ready, delayed, active, stale, inflight, workerVars, crashes>>

\* the process dies: its token stays in the key until the TTL
CrashWorker(w) ==
    /\ wpc[w] # "idle"
    /\ crashes < MaxCrashes
    /\ crashes' = crashes + 1
    /\ lock' = [b \in Batches |-> IF lock[b] = w THEN Abandoned ELSE lock[b]]
    /\ SetWorker(w, "idle", None)
    /\ UNCHANGED <<ready, delayed, active, stale, inflight, late>>

\* a Redis call of RunOnce returns an error: the attempt to lock (then the
\* batch is requeued, if that works), or the final Ack or RequeueAfter
RedisFails(w) ==
    /\ crashes < MaxCrashes
    /\ crashes' = crashes + 1
    /\ UNCHANGED late
    /\ \/ wpc[w] = "reserved" /\ RequeueAfter(wcur[w]) /\ SetWorker(w, "idle", None)
       \/ wpc[w] = "reserved" /\ UNCHANGED redisVars /\ SetWorker(w, "idle", None)
       \/ wpc[w] = "processing" /\ UNCHANGED redisVars /\ SetWorker(w, "unlock", wcur[w])

-----------------------------------------------------------------------------
QueueInit ==
    /\ ready = <<>>
    /\ delayed = {} /\ active = {} /\ stale = {} /\ inflight = {}
    /\ lock = [b \in Batches |-> Free]
    /\ wpc = [w \in Workers |-> "idle"]
    /\ wcur = [w \in Workers |-> None]
    /\ crashes = 0 /\ late = 0

\* Submit, Cancel and the recovery scan enqueue at any time
Produce(b) == Enqueue(b) /\ UNCHANGED <<workerVars, faultVars>>

WorkerStep(w) ==
    \/ Reserve(w) \/ TakeLock(w) \/ LockConflict(w)
    \/ FinishAck(w) \/ FinishRequeue(w) \/ Unlock(w) \/ Heartbeat(w)

Environment ==
    \/ \E b \in Batches : BecomesStale(b) \/ LockExpires(b)
    \/ \E w \in Workers : CrashWorker(w) \/ RedisFails(w)

QueueNext ==
    \/ \E b \in Batches : Produce(b)
    \/ \E w \in Workers : WorkerStep(w)
    \/ \E S \in SUBSET Batches : MoveDueDelayed(S) \/ RecoverStaleActive(S)
    \/ Environment

QueueSafetySpec == QueueInit /\ [][QueueNext]_queueVars

(***************************************************************************)
(* The worker loop, the mover and the recovery loop run for as long as the *)
(* process does (Run, RunDelayedMover, RunStaleActiveRecovery); a score    *)
(* grows old and a TTL runs out by the clock.  Whether Process ends with   *)
(* an Ack is up to the job, so only the end of Process is fair.  Both      *)
(* movers take the lowest scores first and a waiting entry's score is      *)
(* fixed, so each entry's turn comes.                                      *)
(***************************************************************************)
QueueFairness ==
    /\ \A w \in Workers :
        /\ WF_queueVars(Reserve(w))
        /\ WF_queueVars(TakeLock(w) \/ LockConflict(w))
        /\ WF_queueVars(FinishAck(w) \/ FinishRequeue(w))
        /\ WF_queueVars(Unlock(w))
    /\ \A b \in Batches :
        /\ WF_queueVars(\E S \in SUBSET Batches : b \in S /\ MoveDueDelayed(S))
        /\ WF_queueVars(\E S \in SUBSET Batches : b \in S /\ RecoverStaleActive(S))
        /\ WF_queueVars(BecomesStale(b) /\ ~HeldBy(b))
        /\ WF_queueVars(LockExpires(b) /\ lock[b] = Abandoned)

QueueSpec == QueueSafetySpec /\ QueueFairness

-----------------------------------------------------------------------------
(***************************************************************************)
(* Every variable has its type, a stale entry is an active one, and a      *)
(* worker has a batch exactly while it is in RunOnce.                      *)
(***************************************************************************)
QueueTypeOK ==
    /\ ready \in Seq(Batches)
    /\ delayed \subseteq Batches
    /\ active \subseteq Batches
    /\ stale \subseteq active
    /\ inflight \subseteq Batches
    /\ lock \in [Batches -> Workers \union {Free, Abandoned}]
    /\ wpc \in [Workers -> WorkerPoints]
    /\ wcur \in [Workers -> Batches \union {None}]
    /\ \A w \in Workers : wpc[w] = "idle" <=> wcur[w] = None
    /\ crashes \in 0..MaxCrashes
    /\ late \in 0..MaxLate

(***************************************************************************)
(* A batch whose dedup key refuses new Enqueues is in one of the three     *)
(* structures a worker is fed from: otherwise nobody would work on it      *)
(* until the key's TTL (a week) ran out.  The reserve and enqueue scripts  *)
(* are single scripts for this reason.                                     *)
(***************************************************************************)
InflightIsListed == \A b \in inflight : Listed(b)

(***************************************************************************)
(* Two workers are inside Process for one batch only after two lapses of a *)
(* live worker: its score in active was taken for stale and its lock key   *)
(* expired as well.  Either lapse alone, a crash, a failed call and every  *)
(* redelivery leave the exclusion intact.                                  *)
(***************************************************************************)
ExclusiveUnlessLapsed ==
    \A w1, w2 \in Workers, b \in Batches :
        w1 # w2 /\ Processes(w1, b) /\ Processes(w2, b) => late > 1

(***************************************************************************)
(* The lock of a worker that is inside Process is taken away by the TTL or *)
(* its own death, never by the Release of a worker that lost the lock      *)
(* earlier.                                                                *)
(***************************************************************************)
LockLostOnlyToTimeout ==
    [][ \A w \in Workers, b \in Batches :
          (lock[b] = w /\ Processes(w, b) /\ lock'[b] # w)
             => (late' > late \/ crashes' > crashes) ]_queueVars

(***************************************************************************)
(* A batch enters active by a reservation only: a heartbeat that races the *)
(* Ack or the requeue of its batch does not put a ghost back.              *)
(***************************************************************************)
OnlyReservationActivates ==
    [][ \A b \in active' \ active :
          \E w \in Workers : wpc[w] = "idle" /\ wpc'[w] = "reserved" /\ wcur'[w] = b
      ]_queueVars

(***************************************************************************)
(* An enqueued batch is worked on, whatever crashes, lapses and other      *)
(* batches come in between.                                                *)
(***************************************************************************)
InflightIsServed ==
    \A b \in Batches :
        b \in inflight ~> (b \notin inflight \/ \E w \in Workers : Processes(w, b))

=============================================================================
