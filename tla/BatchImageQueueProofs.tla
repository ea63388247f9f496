----------------------- MODULE BatchImageQueueProofs -----------------------
(***************************************************************************)
(* For every set of batches and workers and every bound on the faults:     *)
(* QueueTypeOK and InflightIsListed are invariants of the queue, two       *)
(* workers process one batch only after two lapses, a lock is lost to a    *)
(* timeout or a death only, and a batch becomes active by a reservation.   *)
(*                                                                         *)
(* For the first two, a script which takes a batch out of one structure    *)
(* either puts it into another in the same step or drops its dedup key,    *)
(* so QueueTypeOK /\ InflightIsListed is inductive as it stands.           *)
(*                                                                         *)
(* For the exclusion there are two independent reasons, and a lapse breaks *)
(* one of them only:                                                       *)
(*   Once    every batch is in the queue once, so one worker has it; lost  *)
(*           when the entry of a working worker is taken for stale         *)
(*   Locked  the lock key of a batch under way names its worker; lost when *)
(*           that key expires                                              *)
(* Hence both hold without a lapse and one of them after a single one.     *)
(***************************************************************************)
EXTENDS BatchImageQueue, SequenceTheorems, FiniteSetTheorems, TLAPS

\* Concatenation keeps the members of both lists.
LEMMA PushAll ==
    ASSUME NEW S, NEW s \in Seq(S), NEW q \in Seq(S)
    PROVE  /\ s \o q \in Seq(S)
           /\ \A i \in 1..Len(s) : \E j \in 1..Len(s \o q) : (s \o q)[j] = s[i]
           /\ \A i \in 1..Len(q) : \E j \in 1..Len(s \o q) : (s \o q)[j] = q[i]
<1>1. /\ s \o q \in Seq(S)
      /\ Len(s \o q) = Len(s) + Len(q) /\ Len(s) \in Nat /\ Len(q) \in Nat
      /\ \A i \in 1 .. Len(s) + Len(q) :
            (s \o q)[i] = IF i <= Len(s) THEN s[i] ELSE q[i - Len(s)]
  BY ConcatProperties, LenProperties, Zenon
<1>2. \A i \in 1..Len(s) : i \in 1..Len(s \o q) /\ (s \o q)[i] = s[i]
  BY <1>1
<1>3. \A i \in 1..Len(q) : Len(s) + i \in 1..Len(s \o q) /\ (s \o q)[Len(s) + i] = q[i]
  BY <1>1
<1> QED BY <1>1, <1>2, <1>3

\* What the movers push is a list of the batches of S.
LEMMA OrderingIsList ==
    ASSUME NEW S, S \subseteq Batches, NEW q \in Orderings(S)
    PROVE  q \in Seq(Batches) /\ \A b \in S : \E i \in 1..Len(q) : q[i] = b
<1>1. Cardinality(S) \in Nat
  BY IdsAssumption, FS_Subset, FS_CardinalityType
<1>2. q \in [1..Cardinality(S) -> Batches]
  BY DEF Orderings
<1>3. q \in Seq(Batches) /\ Len(q) = Cardinality(S)
  BY <1>1, <1>2
<1> QED BY <1>3 DEF Orderings

\* Appending one batch keeps the members and adds that one.
LEMMA PushOne ==
    ASSUME NEW S, NEW s \in Seq(S), NEW b \in S
    PROVE  /\ Append(s, b) \in Seq(S)
           /\ \A i \in 1..Len(s) : \E j \in 1..Len(Append(s, b)) : Append(s, b)[j] = s[i]
           /\ \E j \in 1..Len(Append(s, b)) : Append(s, b)[j] = b
<1>1. /\ DOMAIN s = 1..Len(s) /\ Len(s) \in Nat
      /\ DOMAIN Append(s, b) = 1..(Len(s) + 1)
      /\ Append(s, b)[Len(s) + 1] = b
      /\ \A i \in 1..Len(s) : Append(s, b)[i] = s[i]
  OBVIOUS
<1> QED BY <1>1

\* Popping keeps every member but possibly the head.
LEMMA Pop ==
    ASSUME NEW S, NEW s \in Seq(S), s # <<>>
    PROVE  /\ Head(s) \in S
           /\ Tail(s) \in Seq(S)
           /\ \A i \in 1..Len(s) :
                 s[i] = Head(s) \/ \E j \in 1..Len(Tail(s)) : Tail(s)[j] = s[i]
<1>1. /\ Head(s) \in S /\ Tail(s) \in Seq(S) /\ Len(Tail(s)) = Len(s) - 1
      /\ \A i \in 1..Len(Tail(s)) : Tail(s)[i] = s[i + 1]
  BY HeadTailProperties
<1>2. /\ DOMAIN s = 1..Len(s) /\ Len(s) \in Nat /\ Head(s) = s[1]
      /\ DOMAIN Tail(s) = 1..(Len(s) - 1)
  BY <1>1
<1>3. ASSUME NEW i \in 1..Len(s), i # 1
      PROVE  i - 1 \in 1..Len(Tail(s)) /\ Tail(s)[i - 1] = s[i]
  <2>1. i - 1 \in 1..(Len(s) - 1)
    BY <1>2, <1>3
  <2>2. Tail(s)[i - 1] = s[(i - 1) + 1] /\ (i - 1) + 1 = i
    BY <1>1, <1>2, <2>1
  <2> QED BY <1>2, <2>1, <2>2
<1> QED BY <1>1, <1>2, <1>3

-----------------------------------------------------------------------------
QueueInv == QueueTypeOK /\ InflightIsListed

-----------------------------------------------------------------------------
(***************************************************************************)
(* One lemma per group of steps that share a script.                       *)
(***************************************************************************)
LEMMA EnqueueInv ==
    ASSUME QueueInv, NEW b \in Batches, Produce(b)
    PROVE  QueueInv'
<1> USE DEF QueueInv, QueueTypeOK, Produce, Enqueue, workerVars, faultVars
<1>1. CASE b \in inflight
  <2>1. UNCHANGED queueVars
    BY <1>1 DEF queueVars, redisVars
  <2>2. UNCHANGED <<ready, delayed, active, stale, inflight, lock, wpc, wcur, crashes, late>>
    BY <2>1 DEF queueVars, redisVars
  <2>3. QueueTypeOK'
    BY <2>2
  <2>4. InflightIsListed'
    BY <2>2, Zenon DEF InflightIsListed, Listed, InReady
  <2> QED BY <2>3, <2>4
<1>2. CASE b \notin inflight
  <2>1. ready' = Append(ready, b) /\ inflight' = inflight \union {b}
    BY <1>2
  <2>2. /\ ready' \in Seq(Batches)
        /\ \A i \in 1..Len(ready) : \E j \in 1..Len(ready') : ready'[j] = ready[i]
        /\ \E j \in 1..Len(ready') : ready'[j] = b
    BY <2>1, PushOne
  <2>3. InflightIsListed'
    BY <2>1, <2>2 DEF InflightIsListed, Listed, InReady
  <2> QED BY <2>1, <2>2, <2>3
<1> QED BY <1>1, <1>2

LEMMA ReserveInv ==
    ASSUME QueueInv, NEW w \in Workers, Reserve(w)
    PROVE  QueueInv'
<1>1. PICK b \in Batches : ReserveScript(b) /\ SetWorker(w, "reserved", b)
  BY DEF Reserve
<1>2. /\ ready \in Seq(Batches) /\ ready # <<>> /\ b = Head(ready) /\ ready' = Tail(ready)
      /\ active' = active \union {b} /\ stale' = stale \ {b}
      /\ UNCHANGED <<delayed, inflight, lock, crashes, late>>
  BY <1>1 DEF QueueInv, QueueTypeOK, ReserveScript, Reserve, faultVars
<1>3. /\ ready' \in Seq(Batches)
      /\ \A i \in 1..Len(ready) :
            ready[i] = b \/ \E j \in 1..Len(ready') : ready'[j] = ready[i]
  BY <1>2, Pop
<1>4. InflightIsListed'
  BY <1>2, <1>3 DEF QueueInv, InflightIsListed, Listed, InReady
<1>5. QueueTypeOK'
  BY <1>1, <1>2, <1>3, QueueAssumption, IdsAssumption DEF QueueInv, QueueTypeOK, SetWorker, WorkerPoints
<1> QED BY <1>4, <1>5 DEF QueueInv

\* Steps that leave the lists alone, or move their batch to delayed, or
\* drop its dedup key.
LEMMA WorkerStepInv ==
    ASSUME QueueInv, NEW w \in Workers, WorkerStep(w)
    PROVE  QueueInv'
<1> USE DEF QueueInv, QueueTypeOK, InflightIsListed, Listed, InReady,
            SetWorker, WorkerPoints, workerVars, faultVars
<1>1. CASE Reserve(w)
  BY <1>1, ReserveInv
<1>2. CASE TakeLock(w)
  BY <1>2 DEF TakeLock
<1>3. CASE LockConflict(w)
  BY <1>3 DEF LockConflict, RequeueAfter
<1>4. CASE FinishAck(w)
  BY <1>4 DEF FinishAck, Ack
<1>5. CASE FinishRequeue(w)
  BY <1>5 DEF FinishRequeue, RequeueAfter
<1>6. CASE Unlock(w)
  BY <1>6 DEF Unlock, ReleaseLockScript
<1>7. CASE Heartbeat(w)
  BY <1>7 DEF Heartbeat, HeartbeatScript
<1> QED BY <1>1, <1>2, <1>3, <1>4, <1>5, <1>6, <1>7 DEF WorkerStep

LEMMA RedeliverInv ==
    ASSUME QueueInv, NEW S \in SUBSET Batches, MoveDueDelayed(S) \/ RecoverStaleActive(S)
    PROVE  QueueInv'
<1>1. PICK q \in Orderings(S) : ready' = ready \o q
  BY DEF MoveDueDelayed, RecoverStaleActive, MoveDueScript, RecoverStaleScript
<1>2. /\ ready' \in Seq(Batches)
      /\ \A b \in Batches : InReady(b) \/ b \in S => InReady(b)'
  <2>1. ready \in Seq(Batches) /\ S \subseteq Batches
    BY DEF QueueInv, QueueTypeOK
  <2>2. q \in Seq(Batches) /\ \A b \in S : \E i \in 1..Len(q) : q[i] = b
    BY <2>1, OrderingIsList
  <2>3. PICK s \in Seq(Batches) : s = ready
    BY <2>1
  <2>4. /\ s \o q \in Seq(Batches)
        /\ \A i \in 1..Len(s) : \E j \in 1..Len(s \o q) : (s \o q)[j] = s[i]
        /\ \A i \in 1..Len(q) : \E j \in 1..Len(s \o q) : (s \o q)[j] = q[i]
    BY <2>2, PushAll
  <2> QED BY <1>1, <2>2, <2>3, <2>4 DEF InReady
<1>3. CASE MoveDueDelayed(S)
  BY <1>2, <1>3 DEF MoveDueDelayed, MoveDueScript, QueueInv, QueueTypeOK, InflightIsListed,
                    Listed, workerVars, faultVars
<1>4. CASE RecoverStaleActive(S)
  BY <1>2, <1>4 DEF RecoverStaleActive, RecoverStaleScript, QueueInv, QueueTypeOK,
                    InflightIsListed, Listed, workerVars, faultVars
<1> QED BY <1>3, <1>4

LEMMA EnvironmentInv ==
    ASSUME QueueInv, Environment
    PROVE  QueueInv'
<1> USE QueueAssumption, IdsAssumption DEF QueueInv, QueueTypeOK, InflightIsListed, Listed, InReady,
        SetWorker, WorkerPoints, workerVars, faultVars
<1>1. ASSUME NEW b \in Batches, BecomesStale(b) PROVE QueueInv'
  BY <1>1 DEF BecomesStale
<1>2. ASSUME NEW b \in Batches, LockExpires(b) PROVE QueueInv'
  BY <1>2 DEF LockExpires
<1>3. ASSUME NEW w \in Workers, CrashWorker(w) PROVE QueueInv'
  BY <1>3 DEF CrashWorker
<1>4. ASSUME NEW w \in Workers, RedisFails(w) PROVE QueueInv'
  <2>1. CASE wpc[w] = "reserved" /\ RequeueAfter(wcur[w]) /\ SetWorker(w, "idle", None)
    BY <1>4, <2>1 DEF RedisFails, RequeueAfter
  <2>2. CASE wpc[w] = "reserved" /\ UNCHANGED redisVars /\ SetWorker(w, "idle", None)
    BY <1>4, <2>2 DEF RedisFails, redisVars
  <2>3. CASE wpc[w] = "processing" /\ UNCHANGED redisVars /\ SetWorker(w, "unlock", wcur[w])
    BY <1>4, <2>3 DEF RedisFails, redisVars
  <2> QED BY <1>4, <2>1, <2>2, <2>3 DEF RedisFails
<1> QED BY <1>1, <1>2, <1>3, <1>4 DEF Environment

-----------------------------------------------------------------------------
(***************************************************************************)
(* Every step of the queue preserves the invariant.                        *)
(***************************************************************************)
LEMMA QueueNextInv ==
    ASSUME QueueInv, [QueueNext]_queueVars
    PROVE  QueueInv'
<1>1. CASE UNCHANGED queueVars
  BY <1>1 DEF queueVars, redisVars, workerVars, faultVars, QueueInv, QueueTypeOK,
              InflightIsListed, Listed, InReady
<1>2. CASE QueueNext
  BY <1>2, EnqueueInv, WorkerStepInv, RedeliverInv, EnvironmentInv DEF QueueNext
<1> QED BY <1>1, <1>2

LEMMA QueueInitInv == QueueInit => QueueInv
<1> SUFFICES ASSUME QueueInit PROVE QueueInv
  OBVIOUS
<1>1. <<>> \in Seq(Batches)
  BY EmptySeq
<1> QED BY <1>1, QueueAssumption, IdsAssumption
        DEF QueueInit, QueueInv, QueueTypeOK, InflightIsListed, WorkerPoints

(***************************************************************************)
(* Type correctness of the queue and of the worker loop, for any number of *)
(* batches, workers, crashes and lapses.                                   *)
(***************************************************************************)
THEOREM QueueTypeCorrect == QueueSafetySpec => []QueueTypeOK
<1>1. QueueInv => QueueTypeOK
  BY DEF QueueInv
<1> QED BY QueueInitInv, QueueNextInv, <1>1, PTL DEF QueueSafetySpec

(***************************************************************************)
(* No enqueued batch ever drops out of the queue: whoever crashes, however *)
(* often, a batch whose dedup key refuses new Enqueues is listed in ready, *)
(* delayed or active.                                                      *)
(***************************************************************************)
THEOREM InflightAlwaysListed == QueueSafetySpec => []InflightIsListed
<1>1. QueueInv => InflightIsListed
  BY DEF QueueInv
<1> QED BY QueueInitInv, QueueNextInv, <1>1, PTL DEF QueueSafetySpec

-----------------------------------------------------------------------------
(***************************************************************************)
(* A list without repetition: what the scripts do to it.                   *)
(***************************************************************************)
NoRepeat(s) == \A i, j \in 1..Len(s) : s[i] = s[j] => i = j
Within(b, s) == \E i \in 1..Len(s) : s[i] = b

LEMMA PushOneOnce ==
    ASSUME NEW S, NEW s \in Seq(S), NEW b \in S, NoRepeat(s), ~Within(b, s)
    PROVE  /\ NoRepeat(Append(s, b))
           /\ \A c : Within(c, Append(s, b)) => c = b \/ Within(c, s)
<1>1. /\ Len(s) \in Nat /\ Len(Append(s, b)) = Len(s) + 1
      /\ Append(s, b)[Len(s) + 1] = b
      /\ \A i \in 1..Len(s) : Append(s, b)[i] = s[i]
  OBVIOUS
<1>2. \A i \in 1..Len(Append(s, b)) : i \in 1..Len(s) \/ i = Len(s) + 1
  BY <1>1
<1> QED BY <1>1, <1>2 DEF NoRepeat, Within

LEMMA PopOnce ==
    ASSUME NEW S, NEW s \in Seq(S), s # <<>>, NoRepeat(s)
    PROVE  /\ NoRepeat(Tail(s)) /\ ~Within(Head(s), Tail(s))
           /\ Within(Head(s), s)
           /\ \A c : Within(c, Tail(s)) => Within(c, s)
<1>1. /\ Len(s) \in Nat /\ Len(s) # 0 /\ Len(Tail(s)) = Len(s) - 1
      /\ Head(s) = s[1]
      /\ \A i \in 1..Len(Tail(s)) : Tail(s)[i] = s[i + 1]
  BY HeadTailProperties, EmptySeq, LenProperties
<1>2. \A i \in 1..Len(Tail(s)) : i + 1 \in 1..Len(s) /\ i + 1 # 1
  BY <1>1
<1>3. 1 \in 1..Len(s)
  BY <1>1
<1>4. \A i, j \in 1..Len(Tail(s)) : i + 1 = j + 1 => i = j
  BY <1>1
<1> QED BY <1>1, <1>2, <1>3, <1>4 DEF NoRepeat, Within

LEMMA PushAllOnce ==
    ASSUME NEW S, NEW s \in Seq(S), NEW q \in Seq(S), NoRepeat(s), NoRepeat(q),
           \A c \in S : ~(Within(c, s) /\ Within(c, q))
    PROVE  /\ NoRepeat(s \o q)
           /\ \A c : Within(c, s \o q) => Within(c, s) \/ Within(c, q)
<1>1. /\ Len(s \o q) = Len(s) + Len(q) /\ Len(s) \in Nat /\ Len(q) \in Nat
      /\ \A i \in 1..Len(s) + Len(q) :
            (s \o q)[i] = IF i <= Len(s) THEN s[i] ELSE q[i - Len(s)]
  BY ConcatProperties, LenProperties, Zenon
<1>2. \A i \in 1..Len(s \o q) :
         \/ i \in 1..Len(s) /\ (s \o q)[i] = s[i]
         \/ i - Len(s) \in 1..Len(q) /\ (s \o q)[i] = q[i - Len(s)]
  BY <1>1
<1>3. (\A i \in 1..Len(s) : s[i] \in S) /\ (\A i \in 1..Len(q) : q[i] \in S)
  BY ElementOfSeq
<1>4. \A i, j \in 1..Len(s \o q) : i - Len(s) = j - Len(s) => i = j
  BY <1>1
<1>5. \A c : Within(c, s \o q) => Within(c, s) \/ Within(c, q)
  BY <1>2 DEF Within
<1>6. ASSUME NEW i \in 1..Len(s \o q), NEW j \in 1..Len(s \o q), (s \o q)[i] = (s \o q)[j]
      PROVE  i = j
  <2>1. CASE i \in 1..Len(s) /\ (s \o q)[i] = s[i] /\ j \in 1..Len(s) /\ (s \o q)[j] = s[j]
    BY <1>6, <2>1 DEF NoRepeat
  <2>2. CASE /\ i - Len(s) \in 1..Len(q) /\ (s \o q)[i] = q[i - Len(s)]
             /\ j - Len(s) \in 1..Len(q) /\ (s \o q)[j] = q[j - Len(s)]
    BY <1>4, <1>6, <2>2 DEF NoRepeat
  <2>3. ~(\E x \in 1..Len(s), y \in 1..Len(q) : s[x] = q[y])
    BY <1>3 DEF Within
  <2> QED BY <1>2, <1>6, <2>1, <2>2, <2>3
<1> QED BY <1>5, <1>6 DEF NoRepeat

\* The movers push each batch of S once, and nothing else.
LEMMA OrderingOnce ==
    ASSUME NEW S, S \subseteq Batches, NEW q \in Orderings(S)
    PROVE  NoRepeat(q) /\ \A c : Within(c, q) => c \in S
<1>1. IsFiniteSet(S) /\ Cardinality(S) \in Nat
  BY IdsAssumption, FS_Subset, FS_CardinalityType
<1> DEFINE n == Cardinality(S)
<1>2. q \in [1..n -> S] /\ \A b \in S : \E i \in 1..n : q[i] = b
  BY DEF Orderings
<1>3. Len(q) = n
  BY <1>1, <1>2
<1>4. IsFiniteSet(1..n) /\ Cardinality(1..n) = n
  BY <1>1, FS_Interval
<1>5. q \in Surjection(1..n, S)
  BY <1>2 DEF Surjection
<1>6. q \in Injection(1..n, S)
  BY <1>4, <1>5, FS_SurjSameCardinalityImpliesInj
<1> QED BY <1>2, <1>3, <1>6 DEF NoRepeat, Within, Injection, IsInjective

-----------------------------------------------------------------------------
(***************************************************************************)
(* The two reasons for the exclusion.                                      *)
(***************************************************************************)
\* worker w has reserved its batch and not returned it
Holds(w) == wpc[w] \in {"reserved", "processing"}

\* a batch is in one place, a worker's batch is fresh and its own
Once ==
    /\ NoRepeat(ready)
    /\ active \intersect delayed = {}
    /\ \A b \in active \union delayed : ~InReady(b)
    /\ \A b \in Batches : Listed(b) => b \in inflight
    /\ \A w \in Workers : Holds(w) => wcur[w] \in active \ stale
    /\ \A w1, w2 \in Workers : Holds(w1) /\ Holds(w2) /\ wcur[w1] = wcur[w2] => w1 = w2

Locked == \A w \in Workers, b \in Batches : Processes(w, b) => lock[b] = w

Lapse == late' = late + 1
NoLapse == late' = late

LEMMA OnceKeptByQueue ==
    ASSUME QueueInv, Once, NEW b \in Batches, Produce(b)
    PROVE  Once'
<1>1. CASE b \in inflight
  <2>1. UNCHANGED <<ready, delayed, active, stale, inflight, wpc, wcur>>
    BY <1>1 DEF Produce, Enqueue, workerVars
  <2> QED BY <2>1, Zenon DEF Once, NoRepeat, InReady, Listed, Holds
<1>2. CASE b \notin inflight
  <2>1. /\ ready' = Append(ready, b) /\ inflight' = inflight \union {b}
        /\ UNCHANGED <<delayed, active, stale, wpc, wcur>>
    BY <1>2 DEF Produce, Enqueue, workerVars
  <2>2. ~Listed(b)
    BY <1>2 DEF Once
  <2>3. /\ NoRepeat(ready')
        /\ \A c : Within(c, ready') => c = b \/ Within(c, ready)
    BY <2>1, <2>2, PushOneOnce DEF QueueInv, QueueTypeOK, Once, Listed, InReady, Within
  <2> QED BY <2>1, <2>2, <2>3 DEF Once, Listed, InReady, Within, Holds
<1> QED BY <1>1, <1>2

LEMMA OnceKeptByReserve ==
    ASSUME QueueInv, Once, NEW w \in Workers, Reserve(w)
    PROVE  Once'
<1>1. PICK b \in Batches : ReserveScript(b) /\ SetWorker(w, "reserved", b)
  BY DEF Reserve
<1>2. /\ ready \in Seq(Batches) /\ ready # <<>> /\ b = Head(ready) /\ ready' = Tail(ready)
      /\ active' = active \union {b} /\ stale' = stale \ {b}
      /\ UNCHANGED <<delayed, inflight>>
      /\ wpc \in [Workers -> WorkerPoints] /\ wcur \in [Workers -> Batches \union {None}]
  BY <1>1 DEF QueueInv, QueueTypeOK, ReserveScript
<1>3. /\ NoRepeat(ready') /\ ~Within(b, ready') /\ Within(b, ready)
      /\ \A c : Within(c, ready') => Within(c, ready)
  BY <1>2, PopOnce DEF Once
<1>4. b \notin active /\ b \notin delayed /\ b \in inflight
  BY <1>3 DEF Once, Listed, InReady, Within
<1>5. /\ wpc'[w] = "reserved" /\ wcur'[w] = b
      /\ \A v \in Workers \ {w} : wpc'[v] = wpc[v] /\ wcur'[v] = wcur[v]
  BY <1>1, <1>2 DEF SetWorker
<1>6. \A v \in Workers \ {w} : Holds(v)' => Holds(v) /\ wcur'[v] # b
  BY <1>4, <1>5 DEF Once, Holds
<1>7. \A v \in Workers : Holds(v)' => wcur'[v] \in active' \ stale'
  BY <1>2, <1>5, <1>6 DEF Once, Holds
<1>8. \A v1, v2 \in Workers :
         Holds(v1)' /\ Holds(v2)' /\ wcur'[v1] = wcur'[v2] => v1 = v2
  BY <1>5, <1>6 DEF Once
<1>9. (active \intersect delayed)' = {} /\ \A c \in (active \union delayed)' : ~InReady(c)'
  BY <1>2, <1>3, <1>4 DEF Once, InReady, Within
<1>10. \A c \in Batches : Listed(c)' => c \in inflight'
  BY <1>2, <1>3, <1>4 DEF Once, Listed, InReady, Within
<1> QED BY <1>3, <1>7, <1>8, <1>9, <1>10 DEF Once

\* The worker gives its batch back: to delayed, or to nobody (Ack).
LEMMA OnceKeptByReturn ==
    ASSUME QueueInv, Once, NEW w \in Workers, Holds(w), ~Holds(w)',
           \A v \in Workers \ {w} : wpc'[v] = wpc[v] /\ wcur'[v] = wcur[v],
           RequeueAfter(wcur[w]) \/ Ack(wcur[w])
    PROVE  Once'
<1>1. /\ wcur[w] \in Batches /\ wcur[w] \in active \ stale
      /\ \A v \in Workers \ {w} : Holds(v) => wcur[v] # wcur[w]
  BY DEF QueueInv, QueueTypeOK, Once, Holds
<1>2. \A v \in Workers : Holds(v)' => v # w /\ Holds(v) /\ wcur'[v] = wcur[v]
  BY DEF Holds
<1>3. CASE RequeueAfter(wcur[w])
  BY <1>1, <1>2, <1>3 DEF RequeueAfter, Once, Listed, InReady
<1>4. CASE Ack(wcur[w])
  BY <1>1, <1>2, <1>4 DEF Ack, Once, Listed, InReady
<1> QED BY <1>3, <1>4

\* The queue is left alone, but for a fresh score, and nobody takes a batch.
LEMMA OnceKeptByOthers ==
    ASSUME QueueInv, Once, stale' \subseteq stale,
           UNCHANGED <<ready, delayed, active, inflight>>,
           \A v \in Workers : Holds(v)' => Holds(v) /\ wcur'[v] = wcur[v]
    PROVE  Once'
BY DEF Once, Listed, InReady

LEMMA OnceKeptByWorker ==
    ASSUME QueueInv, Once, NEW w \in Workers, WorkerStep(w)
    PROVE  Once'
<1> USE DEF QueueInv, QueueTypeOK, SetWorker, Holds
<1>1. CASE Reserve(w)
  BY <1>1, OnceKeptByReserve
<1>2. CASE LockConflict(w) \/ FinishAck(w) \/ FinishRequeue(w)
  BY <1>2, OnceKeptByReturn DEF LockConflict, FinishAck, FinishRequeue
<1>3. CASE TakeLock(w)
  BY <1>3, OnceKeptByOthers DEF TakeLock
<1>4. CASE Unlock(w)
  BY <1>4, OnceKeptByOthers DEF Unlock, ReleaseLockScript
<1>5. CASE Heartbeat(w)
  BY <1>5, OnceKeptByOthers DEF Heartbeat, HeartbeatScript, workerVars
<1> QED BY <1>1, <1>2, <1>3, <1>4, <1>5 DEF WorkerStep

LEMMA OnceKeptByMovers ==
    ASSUME QueueInv, Once, NEW S \in SUBSET Batches, MoveDueDelayed(S) \/ RecoverStaleActive(S)
    PROVE  Once'
<1>1. PICK q \in Orderings(S) : ready' = ready \o q
  BY DEF MoveDueDelayed, RecoverStaleActive, MoveDueScript, RecoverStaleScript
<1>2. /\ S \subseteq active \union delayed
      /\ ready \in Seq(Batches) /\ UNCHANGED <<inflight, wpc, wcur>>
  BY DEF MoveDueDelayed, RecoverStaleActive, MoveDueScript, RecoverStaleScript, workerVars,
         QueueInv, QueueTypeOK
<1>3. q \in Seq(Batches) /\ NoRepeat(q) /\ \A c : Within(c, q) => c \in S
  BY OrderingIsList, OrderingOnce
<1>4. \A c \in S : ~Within(c, ready)
  BY <1>2 DEF Once, InReady, Within
<1>5. NoRepeat(ready') /\ \A c : Within(c, ready') => Within(c, ready) \/ c \in S
  BY <1>1, <1>2, <1>3, <1>4, PushAllOnce DEF Once
<1>6. CASE MoveDueDelayed(S)
  BY <1>2, <1>5, <1>6 DEF MoveDueDelayed, MoveDueScript, Once, Listed, InReady, Within, Holds
<1>7. CASE RecoverStaleActive(S)
  BY <1>2, <1>5, <1>7 DEF RecoverStaleActive, RecoverStaleScript, QueueInv, QueueTypeOK,
                          Once, Listed, InReady, Within, Holds
<1> QED BY <1>6, <1>7

\* Only a stale score of a held batch breaks it, and that is a lapse.
LEMMA OnceKeptByEnvironment ==
    ASSUME QueueInv, Once, Environment
    PROVE  Once' \/ (Lapse /\ UNCHANGED <<lock, wpc, wcur>>)
<1> USE DEF QueueInv, QueueTypeOK, Holds
<1>1. ASSUME NEW b \in Batches, BecomesStale(b)
      PROVE  Once' \/ (Lapse /\ UNCHANGED <<lock, wpc, wcur>>)
  <2>1. CASE HeldBy(b)
    BY <1>1, <2>1 DEF BecomesStale, Lapse, workerVars
  <2>2. CASE ~HeldBy(b)
    BY <1>1, <2>2 DEF BecomesStale, HeldBy, Once, Listed, InReady, workerVars
  <2> QED BY <2>1, <2>2
<1>2. ASSUME NEW b \in Batches, LockExpires(b) PROVE Once'
  BY <1>2, OnceKeptByOthers DEF LockExpires, workerVars
<1>3. ASSUME NEW w \in Workers, CrashWorker(w) PROVE Once'
  BY <1>3, OnceKeptByOthers DEF CrashWorker, SetWorker
<1>4. ASSUME NEW w \in Workers, RedisFails(w) PROVE Once'
  <2>1. CASE wpc[w] = "reserved" /\ RequeueAfter(wcur[w]) /\ SetWorker(w, "idle", None)
    BY <2>1, OnceKeptByReturn DEF SetWorker
  <2>2. CASE wpc[w] = "reserved" /\ UNCHANGED redisVars /\ SetWorker(w, "idle", None)
    BY <2>2, OnceKeptByOthers DEF redisVars, SetWorker
  <2>3. CASE wpc[w] = "processing" /\ UNCHANGED redisVars /\ SetWorker(w, "unlock", wcur[w])
    BY <2>3, OnceKeptByOthers DEF redisVars, SetWorker
  <2> QED BY <1>4, <2>1, <2>2, <2>3 DEF RedisFails
<1> QED BY <1>1, <1>2, <1>3, <1>4 DEF Environment

LEMMA OnceKept ==
    ASSUME QueueInv, Once, [QueueNext]_queueVars
    PROVE  Once' \/ (Lapse /\ UNCHANGED <<lock, wpc, wcur>>)
<1>1. CASE UNCHANGED queueVars
  <2>1. UNCHANGED <<ready, delayed, active, stale, inflight, wpc, wcur>>
    BY <1>1 DEF queueVars, redisVars, workerVars
  <2> QED BY <2>1, Zenon DEF Once, NoRepeat, InReady, Listed, Holds
<1>2. CASE QueueNext
  BY <1>2, OnceKeptByQueue, OnceKeptByWorker, OnceKeptByMovers, OnceKeptByEnvironment DEF QueueNext
<1> QED BY <1>1, <1>2

-----------------------------------------------------------------------------
\* A key that no longer names a worker under way has expired: a lapse.
LEMMA LockedKept ==
    ASSUME QueueInv, Locked, [QueueNext]_queueVars
    PROVE  Locked' \/ (Lapse /\ UNCHANGED <<ready, delayed, active, stale, inflight, wpc, wcur>>)
<1> USE DEF QueueInv, QueueTypeOK, Processes
<1>1. CASE UNCHANGED <<lock, wpc, wcur>>
  BY <1>1 DEF Locked
<1>2. ASSUME UNCHANGED lock, NEW w \in Workers, wpc'[w] # "processing",
             \A v \in Workers \ {w} : wpc'[v] = wpc[v] /\ wcur'[v] = wcur[v]
      PROVE  Locked'
  BY <1>2 DEF Locked
<1>3. ASSUME NEW w \in Workers, WorkerStep(w) PROVE Locked'
  <2> USE DEF SetWorker
  <2>1. CASE Reserve(w)
    BY <1>2, <2>1 DEF Reserve, ReserveScript
  <2>2. CASE TakeLock(w)
    <3>1. /\ wcur[w] \in Batches /\ lock[wcur[w]] = Free
          /\ lock' = [lock EXCEPT ![wcur[w]] = w] /\ wcur'[w] = wcur[w]
          /\ \A v \in Workers \ {w} : wpc'[v] = wpc[v] /\ wcur'[v] = wcur[v]
      BY <2>2 DEF TakeLock
    <3> QED BY <3>1, QueueAssumption DEF Locked
  <2>3. CASE LockConflict(w) \/ FinishAck(w) \/ FinishRequeue(w)
    BY <1>2, <2>3 DEF LockConflict, FinishAck, FinishRequeue, Ack, RequeueAfter
  <2>4. CASE Unlock(w)
    <3>1. /\ wcur[w] \in Batches /\ wpc[w] = "unlock" /\ wpc'[w] = "idle"
          /\ lock' = IF lock[wcur[w]] = w THEN [lock EXCEPT ![wcur[w]] = Free] ELSE lock
          /\ \A v \in Workers \ {w} : wpc'[v] = wpc[v] /\ wcur'[v] = wcur[v]
      BY <2>4 DEF Unlock, ReleaseLockScript
    <3> QED BY <3>1 DEF Locked
  <2>5. CASE Heartbeat(w)
    <3>1. UNCHANGED <<lock, wpc, wcur>>
      BY <2>5 DEF Heartbeat, HeartbeatScript, workerVars
    <3> QED BY <3>1 DEF Locked
  <2> QED BY <1>3, <2>1, <2>2, <2>3, <2>4, <2>5 DEF WorkerStep
<1>4. ASSUME NEW b \in Batches, LockExpires(b)
      PROVE  Locked' \/ (Lapse /\ UNCHANGED <<ready, delayed, active, stale, inflight, wpc, wcur>>)
  <2>1. CASE lock[b] = Abandoned
    BY <1>4, <2>1, QueueAssumption DEF LockExpires, Locked, workerVars
  <2>2. CASE lock[b] # Abandoned
    BY <1>4, <2>2 DEF LockExpires, Lapse, workerVars
  <2> QED BY <2>1, <2>2
<1>5. ASSUME NEW w \in Workers, CrashWorker(w) PROVE Locked'
  BY <1>5 DEF CrashWorker, SetWorker, Locked
<1>6. ASSUME NEW w \in Workers, RedisFails(w) PROVE Locked'
  BY <1>2, <1>6 DEF RedisFails, RequeueAfter, SetWorker, redisVars
<1>7. CASE \/ \E b \in Batches : Produce(b) \/ BecomesStale(b)
           \/ \E S \in SUBSET Batches : MoveDueDelayed(S) \/ RecoverStaleActive(S)
           \/ UNCHANGED queueVars
  BY <1>1, <1>7 DEF Produce, Enqueue, BecomesStale, MoveDueDelayed, RecoverStaleActive,
         MoveDueScript, RecoverStaleScript, workerVars, queueVars, redisVars
<1> QED BY <1>3, <1>4, <1>5, <1>6, <1>7 DEF QueueNext, Environment

\* Lapses are counted, and never forgotten.
LEMMA LapsesCounted ==
    ASSUME QueueInv, [QueueNext]_queueVars
    PROVE  Lapse \/ NoLapse
<1> USE DEF Lapse, NoLapse, faultVars
<1>1. ASSUME NEW w \in Workers, WorkerStep(w) PROVE NoLapse
  BY <1>1 DEF WorkerStep, Reserve, TakeLock, LockConflict, FinishAck, FinishRequeue, Unlock, Heartbeat
<1>2. CASE Environment
  BY <1>2 DEF Environment, BecomesStale, LockExpires, CrashWorker, RedisFails
<1>3. CASE \/ \E b \in Batches : Produce(b)
           \/ \E S \in SUBSET Batches : MoveDueDelayed(S) \/ RecoverStaleActive(S)
           \/ UNCHANGED queueVars
  BY <1>3 DEF Produce, MoveDueDelayed, RecoverStaleActive, queueVars
<1> QED BY <1>1, <1>2, <1>3 DEF QueueNext

-----------------------------------------------------------------------------
(***************************************************************************)
(* Both reasons hold until a lapse, and one of them until the second.      *)
(***************************************************************************)
LapseInv ==
    /\ late = 0 => Once /\ Locked
    /\ late <= 1 => Once \/ Locked

LEMMA LapseInitInv == QueueInit => LapseInv
BY DEF QueueInit, LapseInv, Once, Locked, NoRepeat, Listed, InReady, Holds, Processes

LEMMA LapseNextInv ==
    ASSUME QueueInv, LapseInv, [QueueNext]_queueVars
    PROVE  LapseInv'
<1> USE DEF LapseInv
<1>1. late \in Nat
  BY DEF QueueInv, QueueTypeOK
<1>2. Once => Once' \/ (Lapse /\ UNCHANGED <<lock, wpc, wcur>>)
  BY OnceKept
<1>3. Locked => \/ Locked'
                \/ Lapse /\ UNCHANGED <<ready, delayed, active, stale, inflight, wpc, wcur>>
  BY LockedKept
<1>4. UNCHANGED <<lock, wpc, wcur>> => Locked' = Locked
  BY DEF Locked, Processes
<1>5. CASE NoLapse
  BY <1>1, <1>2, <1>3, <1>5 DEF NoLapse, Lapse
<1>6. CASE Lapse
  BY <1>1, <1>2, <1>3, <1>4, <1>6 DEF Lapse
<1> QED BY <1>5, <1>6, LapsesCounted

(***************************************************************************)
(* Two workers are inside Process for one batch only after two lapses of a *)
(* live worker, with any number of workers, crashes, failed calls and      *)
(* redeliveries.                                                           *)
(***************************************************************************)
THEOREM WorkersExcluded == QueueSafetySpec => []ExclusiveUnlessLapsed
<1>1. QueueInv /\ LapseInv => ExclusiveUnlessLapsed
  <2> SUFFICES ASSUME QueueInv, LapseInv, NEW w1 \in Workers, NEW w2 \in Workers,
                      NEW b \in Batches, w1 # w2, Processes(w1, b), Processes(w2, b)
               PROVE  late > 1
    BY DEF ExclusiveUnlessLapsed
  <2>1. ~Once
    BY DEF Once, Holds, Processes
  <2>2. ~Locked
    BY DEF Locked
  <2> QED BY <2>1, <2>2 DEF LapseInv, QueueInv, QueueTypeOK
<1>2. QueueInit => QueueInv /\ LapseInv
  BY QueueInitInv, LapseInitInv
<1>3. QueueInv /\ LapseInv /\ [QueueNext]_queueVars => QueueInv' /\ LapseInv'
  BY QueueNextInv, LapseNextInv
<1> QED BY <1>1, <1>2, <1>3, PTL DEF QueueSafetySpec

(***************************************************************************)
(* The lock of a worker inside Process is taken away by the TTL or its own *)
(* death, never by another worker's Release.                               *)
(***************************************************************************)
THEOREM LocksKept == QueueSafetySpec => LockLostOnlyToTimeout
<1> DEFINE Kept ==
      \A w \in Workers, b \in Batches :
         (lock[b] = w /\ Processes(w, b) /\ lock'[b] # w) => (late' > late \/ crashes' > crashes)
<1>1. ASSUME QueueInv, [QueueNext]_queueVars PROVE Kept
  <2> SUFFICES ASSUME NEW w \in Workers, NEW b \in Batches,
                      lock[b] = w, Processes(w, b), lock'[b] # w
               PROVE  late' > late \/ crashes' > crashes
    OBVIOUS
  <2> USE <1>1, QueueAssumption DEF QueueInv, QueueTypeOK, Processes
  <2>1. ASSUME NEW v \in Workers, WorkerStep(v) PROVE FALSE
    <3>1. CASE Unlock(v)
      <4>1. v # w /\ lock' = IF lock[wcur[v]] = v THEN [lock EXCEPT ![wcur[v]] = Free] ELSE lock
        BY <3>1 DEF Unlock, ReleaseLockScript
      <4> QED BY <4>1
    <3>2. CASE TakeLock(v)
      BY <3>2 DEF TakeLock
    <3>3. CASE Reserve(v) \/ LockConflict(v) \/ FinishAck(v) \/ FinishRequeue(v) \/ Heartbeat(v)
      BY <3>3 DEF Reserve, ReserveScript, LockConflict, FinishAck, FinishRequeue, Heartbeat,
                  RequeueAfter, Ack, HeartbeatScript
    <3> QED BY <2>1, <3>1, <3>2, <3>3 DEF WorkerStep
  <2>2. ASSUME NEW c \in Batches, LockExpires(c) PROVE late' > late
    BY <2>2 DEF LockExpires
  <2>3. ASSUME NEW v \in Workers, CrashWorker(v) \/ RedisFails(v) PROVE crashes' > crashes
    BY <2>3 DEF CrashWorker, RedisFails
  <2>4. CASE \/ \E c \in Batches : Produce(c) \/ BecomesStale(c)
             \/ \E S \in SUBSET Batches : MoveDueDelayed(S) \/ RecoverStaleActive(S)
             \/ UNCHANGED queueVars
    BY <2>4 DEF Produce, Enqueue, BecomesStale, MoveDueDelayed, RecoverStaleActive,
           MoveDueScript, RecoverStaleScript, queueVars, redisVars
  <2> QED BY <2>1, <2>2, <2>3, <2>4 DEF QueueNext, Environment
<1>2. QueueInv /\ [QueueNext]_queueVars => QueueInv'
  BY QueueNextInv
<1>3. QueueSafetySpec => [][Kept]_queueVars
  BY <1>1, <1>2, QueueInitInv, PTL DEF QueueSafetySpec
<1> QED BY <1>3 DEF LockLostOnlyToTimeout

(***************************************************************************)
(* A batch enters active by a reservation only.                            *)
(***************************************************************************)
THEOREM ReservationActivates == QueueSafetySpec => OnlyReservationActivates
<1> DEFINE Reserved ==
      \A b \in active' \ active :
         \E w \in Workers : wpc[w] = "idle" /\ wpc'[w] = "reserved" /\ wcur'[w] = b
<1>1. ASSUME QueueInv, [QueueNext]_queueVars PROVE Reserved
  <2> USE DEF QueueInv, QueueTypeOK
  <2>1. CASE \E w \in Workers : Reserve(w)
    <3>1. PICK w \in Workers, c \in Batches :
             wpc[w] = "idle" /\ ReserveScript(c) /\ SetWorker(w, "reserved", c)
      BY <2>1 DEF Reserve
    <3>2. active' = active \union {c} /\ wpc'[w] = "reserved" /\ wcur'[w] = c
      BY <1>1, <3>1 DEF ReserveScript, SetWorker
    <3> QED BY <3>1, <3>2
  <2>2. CASE active' \subseteq active
    BY <2>2
  <2>3. ASSUME NEW w \in Workers, WorkerStep(w), ~Reserve(w) PROVE active' \subseteq active
    BY <2>3 DEF WorkerStep, TakeLock, LockConflict, FinishAck, FinishRequeue, Unlock, Heartbeat,
           RequeueAfter, Ack, HeartbeatScript, ReleaseLockScript
  <2>4. ASSUME Environment PROVE active' \subseteq active
    BY <2>4 DEF Environment, BecomesStale, LockExpires, CrashWorker, RedisFails, RequeueAfter,
           redisVars
  <2>5. CASE \/ \E b \in Batches : Produce(b)
             \/ \E S \in SUBSET Batches : MoveDueDelayed(S) \/ RecoverStaleActive(S)
             \/ UNCHANGED queueVars
    <3>1. active' \subseteq active
      BY <2>5 DEF Produce, Enqueue, MoveDueDelayed, RecoverStaleActive, MoveDueScript,
             RecoverStaleScript, queueVars, redisVars
    <3> QED BY <2>2, <3>1
  <2> HIDE DEF Reserved
  <2> QED BY <1>1, <2>1, <2>2, <2>3, <2>4, <2>5 DEF QueueNext
<1>2. QueueInv /\ [QueueNext]_queueVars => QueueInv'
  BY QueueNextInv
<1>3. QueueSafetySpec => [][Reserved]_queueVars
  BY <1>1, <1>2, QueueInitInv, PTL DEF QueueSafetySpec
<1> QED BY <1>3 DEF OnlyReservationActivates

-----------------------------------------------------------------------------
(***************************************************************************)
(* Where a batch in the queue comes from: no script makes one up, so a     *)
(* batch that a worker is fed with was in the queue before or has just     *)
(* been enqueued.                                                          *)
(***************************************************************************)
Fed(b) == Listed(b) \/ \E w \in Workers : Holds(w) /\ wcur[w] = b

\* What is in a list after each of the three operations was there before.
LEMMA PushOneWithin ==
    ASSUME NEW S, NEW s \in Seq(S), NEW b \in S, NEW c, Within(c, Append(s, b))
    PROVE  c = b \/ Within(c, s)
<1>1. /\ Len(s) \in Nat /\ Len(Append(s, b)) = Len(s) + 1
      /\ Append(s, b)[Len(s) + 1] = b
      /\ \A i \in 1..Len(s) : Append(s, b)[i] = s[i]
  OBVIOUS
<1>2. \A i \in 1..Len(Append(s, b)) : i \in 1..Len(s) \/ i = Len(s) + 1
  BY <1>1
<1> QED BY <1>1, <1>2 DEF Within

LEMMA PopWithin ==
    ASSUME NEW S, NEW s \in Seq(S), s # <<>>
    PROVE  Within(Head(s), s) /\ \A c : Within(c, Tail(s)) => Within(c, s)
<1>1. /\ Len(s) \in Nat /\ Len(s) # 0 /\ Len(Tail(s)) = Len(s) - 1
      /\ Head(s) = s[1]
      /\ \A i \in 1..Len(Tail(s)) : Tail(s)[i] = s[i + 1]
  BY HeadTailProperties, EmptySeq, LenProperties
<1>2. \A i \in 1..Len(Tail(s)) : i + 1 \in 1..Len(s)
  BY <1>1
<1>3. 1 \in 1..Len(s)
  BY <1>1
<1> QED BY <1>1, <1>2, <1>3 DEF Within

LEMMA PushAllWithin ==
    ASSUME NEW S, NEW s \in Seq(S), NEW q \in Seq(S), NEW c, Within(c, s \o q)
    PROVE  Within(c, s) \/ Within(c, q)
<1>1. /\ Len(s \o q) = Len(s) + Len(q) /\ Len(s) \in Nat /\ Len(q) \in Nat
      /\ \A i \in 1..Len(s) + Len(q) :
            (s \o q)[i] = IF i <= Len(s) THEN s[i] ELSE q[i - Len(s)]
  BY ConcatProperties, LenProperties, Zenon
<1>2. \A i \in 1..Len(s \o q) :
         \/ i \in 1..Len(s) /\ (s \o q)[i] = s[i]
         \/ i - Len(s) \in 1..Len(q) /\ (s \o q)[i] = q[i - Len(s)]
  BY <1>1
<1> QED BY <1>2 DEF Within

LEMMA FedKept ==
    ASSUME QueueInv, [QueueNext]_queueVars, NEW b \in Batches, Fed(b)'
    PROVE  Fed(b) \/ b \in inflight'
<1> USE DEF QueueInv, QueueTypeOK
<1>1. CASE UNCHANGED queueVars
  <2>1. UNCHANGED <<ready, delayed, active, wpc, wcur>>
    BY <1>1 DEF queueVars, redisVars, workerVars
  <2> QED BY <2>1, Zenon DEF Fed, Listed, InReady, Holds
<1>2. ASSUME NEW c \in Batches, Produce(c) PROVE Fed(b) \/ b \in inflight'
  <2>1. UNCHANGED <<delayed, active, wpc, wcur>> /\ inflight' = inflight \union {c}
        /\ (ready' = ready \/ ready' = Append(ready, c))
    BY <1>2 DEF Produce, Enqueue, workerVars
  <2>2. Within(b, ready') => b = c \/ Within(b, ready)
    BY <2>1, PushOneWithin
  <2> QED BY <2>1, <2>2 DEF Fed, Listed, InReady, Within, Holds
<1>3. ASSUME NEW w \in Workers, Reserve(w) PROVE Fed(b)
  <2>1. PICK c \in Batches : ReserveScript(c) /\ SetWorker(w, "reserved", c)
    BY <1>3 DEF Reserve
  <2>2. /\ ready # <<>> /\ c = Head(ready) /\ ready' = Tail(ready)
        /\ active' = active \union {c} /\ UNCHANGED delayed
        /\ wcur'[w] = c /\ \A v \in Workers \ {w} : wpc'[v] = wpc[v] /\ wcur'[v] = wcur[v]
    BY <2>1 DEF ReserveScript, SetWorker
  <2>3. Within(c, ready) /\ (Within(b, ready') => Within(b, ready))
    BY <2>2, PopWithin
  <2> QED BY <2>2, <2>3 DEF Fed, Listed, InReady, Within, Holds
<1>4. ASSUME NEW w \in Workers, LockConflict(w) \/ FinishAck(w) \/ FinishRequeue(w) PROVE Fed(b)
  <2>1. /\ UNCHANGED ready /\ active' \subseteq active
        /\ delayed' \subseteq delayed \union {wcur[w]} /\ Holds(w) /\ ~Holds(w)'
        /\ \A v \in Workers \ {w} : wpc'[v] = wpc[v] /\ wcur'[v] = wcur[v]
    BY <1>4 DEF LockConflict, FinishAck, FinishRequeue, RequeueAfter, Ack, SetWorker, Holds
  <2> QED BY <2>1 DEF Fed, Listed, InReady, Holds
<1>5. ASSUME UNCHANGED <<ready, delayed, active>>,
             \A v \in Workers : Holds(v)' => Holds(v) /\ wcur'[v] = wcur[v]
      PROVE  Fed(b)
  BY <1>5 DEF Fed, Listed, InReady
<1>6. ASSUME NEW w \in Workers, TakeLock(w) \/ Unlock(w) \/ Heartbeat(w) PROVE Fed(b)
  BY <1>5, <1>6 DEF TakeLock, Unlock, Heartbeat, ReleaseLockScript, HeartbeatScript, SetWorker,
                    Holds, workerVars
<1>7. ASSUME NEW S \in SUBSET Batches, MoveDueDelayed(S) \/ RecoverStaleActive(S) PROVE Fed(b)
  <2>1. PICK q \in Orderings(S) : ready' = ready \o q
    BY <1>7 DEF MoveDueDelayed, RecoverStaleActive, MoveDueScript, RecoverStaleScript
  <2>2. /\ S \subseteq active \union delayed /\ UNCHANGED <<wpc, wcur>>
        /\ active' \subseteq active /\ delayed' \subseteq delayed
    BY <1>7 DEF MoveDueDelayed, RecoverStaleActive, MoveDueScript, RecoverStaleScript, workerVars
  <2>3. q \in Seq(Batches) /\ \A c : Within(c, q) => c \in S
    BY OrderingIsList, OrderingOnce
  <2>4. Within(b, ready') => Within(b, ready) \/ b \in S
    BY <2>1, <2>3, PushAllWithin
  <2> QED BY <2>2, <2>4 DEF Fed, Listed, InReady, Within, Holds
<1>8. ASSUME Environment PROVE Fed(b)
  <2>1. CASE \E c \in Batches : BecomesStale(c) \/ LockExpires(c)
    BY <1>5, <2>1 DEF BecomesStale, LockExpires, workerVars, Holds
  <2>2. ASSUME NEW w \in Workers, CrashWorker(w) \/ RedisFails(w) PROVE Fed(b)
    <3>1. CASE RequeueAfter(wcur[w]) /\ wpc[w] = "reserved" /\ SetWorker(w, "idle", None)
      <4>1. /\ UNCHANGED ready /\ active' \subseteq active
            /\ delayed' \subseteq delayed \union {wcur[w]} /\ Holds(w) /\ ~Holds(w)'
            /\ \A v \in Workers \ {w} : wpc'[v] = wpc[v] /\ wcur'[v] = wcur[v]
        BY <3>1 DEF RequeueAfter, SetWorker, Holds
      <4> QED BY <4>1 DEF Fed, Listed, InReady, Holds
    <3> QED BY <1>5, <2>2, <3>1 DEF CrashWorker, RedisFails, SetWorker, redisVars, Holds
  <2> QED BY <1>8, <2>1, <2>2 DEF Environment
<1> QED BY <1>1, <1>2, <1>3, <1>4, <1>6, <1>7, <1>8 DEF QueueNext, WorkerStep
=============================================================================
