----------------------- MODULE SchedulerSnapshotsProofs -----------------------
(***************************************************************************)
(* For every set of requests and buckets and any number of changes and     *)
(* faults: the types, RetiredIsEmpty, SnapshotIsOfThisLife and             *)
(* ClosedStaysClosed.                                                      *)
(*                                                                         *)
(* A snapshot of an earlier life is kept out because a retirement advances *)
(* the epoch past every token there is (Fencing), so that who still holds  *)
(* the epoch read after the retirement (Fresh).  A judgement stays because *)
(* whoever applies one holds the lease, and has retired what it has left   *)
(* behind (Applying).                                                      *)
(***************************************************************************)
EXTENDS SchedulerSnapshots, SequenceTheorems, TLAPS

\* The poller leaves its batch only with an event in hand.
EventInHand ==
    work[Poller].at \notin {"idle", "event"} => events # <<>>

Shape == TypeOK /\ EventInHand

LEMMA NoneIsNone == None \notin Nat /\ None \notin Buckets /\ None \notin Workers
  BY SnapshotsAssumption DEF Workers

LEMMA AgentsAre ==
    /\ Poller \in Agents /\ Rebuilder \in Agents /\ Poller # Rebuilder
    /\ Workers \subseteq Agents /\ Readers \subseteq Agents
    /\ Readers \cap Workers = {}
  BY SnapshotsAssumption DEF Agents, Workers

LEMMA IdleIsWork == Idle \in Work /\ GivenUp \in Work
  BY DEF Idle, GivenUp, Work, Places

LEMMA FirstIsIn == ASSUME NEW S, S # {} PROVE First(S) \in S
  BY DEF First

LEMMA RebuiltIsWork ==
    ASSUME TypeOK, NEW w \in Agents, NEW b, NEW ok \in BOOLEAN, NEW written \in BOOLEAN
    PROVE  Rebuilt(w, b, ok, written) \in Work
<1>1. work[w] \in Work
  BY DEF TypeOK
<1>2. [Idle EXCEPT !.at = "task", !.failed = work[w].failed \/ ~ok] \in Work
  BY <1>1, IdleIsWork DEF Work, Places
<1>3. [work[w] EXCEPT !.at = "task", !.bucket = None, !.todo = @ \ {b},
                      !.token[b] = 0, !.written = written,
                      !.failed = @ \/ ~ok] \in Work
  BY <1>1 DEF Work, Places
<1> QED BY <1>2, <1>3 DEF Rebuilt

-----------------------------------------------------------------------------
(* What the database's changes do to the outbox.                           *)

LEMMA Enqueued ==
    ASSUME TypeOK, NEW kind \in Kinds, enqueueSchedulerOutbox(kind)
    PROVE  /\ outbox' \in Seq(Kinds)
           /\ released' \in 0..Len(outbox') /\ boot' \in 0..Len(outbox')
<1>1. CASE Pending(kind) = {}
  <2>1. /\ outbox' = Append(outbox, kind) /\ released' = released /\ boot' = boot
        /\ outbox \in Seq(Kinds) /\ Len(outbox) \in Nat
    BY <1>1 DEF enqueueSchedulerOutbox, TypeOK
  <2>2. outbox' \in Seq(Kinds) /\ Len(outbox') = Len(outbox) + 1
    BY <2>1, AppendProperties
  <2> QED BY <2>1, <2>2 DEF TypeOK
<1>2. CASE Pending(kind) # {}
  <2> DEFINE i == First(Pending(kind))
             front == SubSeq(outbox, 1, i - 1)
             back == SubSeq(outbox, i + 1, Len(outbox))
  <2>1. i \in (released + 1)..Len(outbox)
    BY <1>2, FirstIsIn DEF Pending
  <2>2. i \in Nat /\ 1 <= i /\ released < i /\ i <= Len(outbox) /\ Len(outbox) \in Nat
        /\ released \in Nat
    BY <2>1 DEF TypeOK
  <2>3. \A j \in 1..Len(outbox) : outbox[j] \in Kinds
    BY DEF TypeOK
  <2> HIDE DEF i
  <2>4. front \in Seq(Kinds) /\ Len(front) = i - 1
    BY <2>2, <2>3, SubSeqProperties
  <2>5. back \in Seq(Kinds) /\ Len(back) = Len(outbox) - i
    BY <2>2, <2>3, SubSeqProperties
  <2>6. <<kind>> \in Seq(Kinds) /\ Len(<<kind>>) = 1
    OBVIOUS
  <2> HIDE DEF front, back
  <2>6a. front \o back \in Seq(Kinds) /\ Len(front \o back) = Len(front) + Len(back)
    BY <2>4, <2>5, ConcatProperties
  <2>7. front \o back \in Seq(Kinds) /\ Len(front \o back) = Len(outbox) - 1
    BY <2>2, <2>4, <2>5, <2>6a
  <2>8. /\ (front \o back) \o <<kind>> \in Seq(Kinds)
        /\ Len((front \o back) \o <<kind>>) = Len(outbox)
    BY <2>2, <2>6, <2>7, ConcatProperties
  <2>9. /\ outbox' = (front \o back) \o <<kind>>
        /\ boot' = IF i <= boot THEN boot - 1 ELSE boot
        /\ released' = released
    BY <1>2 DEF enqueueSchedulerOutbox, i, front, back
  <2> QED BY <2>2, <2>8, <2>9 DEF TypeOK
<1> QED BY <1>1, <1>2

LEMMA Announced ==
    ASSUME TypeOK, NEW kind \in Kinds, Announce(kind)
    PROVE  /\ outbox' \in Seq(Kinds)
           /\ released' \in 0..Len(outbox') /\ boot' \in 0..Len(outbox')
           /\ faults' \in 0..MaxFaults
<1>1. CASE enqueueSchedulerOutbox(kind) /\ UNCHANGED faults
  BY <1>1, Enqueued DEF TypeOK
<1>2. CASE Fault /\ UNCHANGED feed
  BY <1>2, SnapshotsAssumption DEF Fault, feed, TypeOK
<1> QED BY <1>1, <1>2 DEF Announce

\* Rows leave the outbox at its head.
LEMMA Consumed ==
    ASSUME NEW s \in Seq(Kinds), NEW n \in 0..Len(s)
    PROVE  /\ SubSeq(s, n + 1, Len(s)) \in Seq(Kinds)
           /\ Len(SubSeq(s, n + 1, Len(s))) = Len(s) - n
<1>1. \A j \in (n + 1)..Len(s) : s[j] \in Kinds
  OBVIOUS
<1> QED BY <1>1, SubSeqProperties

-----------------------------------------------------------------------------
(* Types.                                                                  *)

\* Who works outside "idle" and "event" leaves the poller's event in hand.
LEMMA StillInHand ==
    ASSUME Shape, NEW a \in Agents, UNCHANGED events,
           \A c \in Agents \ {a} : work'[c] = work[c],
           a # Poller \/ work[a].at \notin {"idle", "event"}
    PROVE  EventInHand'
<1>1. CASE a = Poller
  BY <1>1 DEF EventInHand, Shape
<1>2. CASE a # Poller
  <2>1. work'[Poller] = work[Poller]
    BY <1>2, AgentsAre
  <2> QED BY <2>1 DEF EventInHand, Shape
<1> QED BY <1>1, <1>2

LEMMA LeavesTypes ==
    ASSUME TypeOK, NEW a \in Agents, NEW ok \in BOOLEAN, NEW written \in BOOLEAN,
           NEW older \in SUBSET Agents, Leaves(a, ok, written, older)
    PROVE  /\ work' \in [Agents -> Work]
           /\ lock' \in [Buckets -> Workers \cup {None}]
           /\ beats' \in [Agents -> SUBSET Agents]
           /\ overtaken' \subseteq Agents
           /\ \A c \in Agents \ {a} : work'[c] = work[c]
<1> DEFINE done == IF a \in Readers THEN Idle
                   ELSE Rebuilt(a, work[a].bucket, ok, written)
<1>1. done \in Work
  BY IdleIsWork, RebuiltIsWork
<1>2. work' = [work EXCEPT ![a] = done]
  BY DEF Leaves, Rest
<1>3. work \in [Agents -> Work]
  BY DEF TypeOK
<1> HIDE DEF done
<1>4. /\ work' \in [Agents -> Work]
      /\ \A c \in Agents \ {a} : work'[c] = work[c]
  BY <1>1, <1>2, <1>3
<1>5. lock' = lock \/ lock' = [lock EXCEPT ![work[a].bucket] = None]
  BY DEF Leaves
<1>6. lock' \in [Buckets -> Workers \cup {None}]
  BY <1>5 DEF TypeOK
<1>7. beats' \in [Agents -> SUBSET Agents] /\ overtaken' \subseteq Agents
  BY DEF Leaves, TypeOK
<1> QED BY <1>4, <1>6, <1>7

LEMMA PublishingTypes ==
    ASSUME Shape, NEW a \in Agents, Publishing(a) \/ PublishFails(a)
    PROVE  Shape'
<1> USE AgentsAre, NoneIsNone
<1>a. work \in [Agents -> Work] /\ work[a] \in Work /\ TypeOK /\ EventInHand
  BY DEF Shape, TypeOK
<1>1. CASE Load(a)
  <2>0. account \in Nat
    BY <1>a, SnapshotsAssumption DEF TypeOK
  <2>1. work' \in [Agents -> Work]
    BY <1>a, <1>1, <2>0 DEF Load, Work, Places
  <2>2. /\ \A c \in Agents \ {a} : work'[c] = work[c]
        /\ UNCHANGED events /\ work[a].at \notin {"idle", "event"}
    BY <1>a, <1>1 DEF Load, At, batch
  <2>3. EventInHand'
    BY <2>2, StillInHand
  <2>4. TypeOK'
    BY <1>a, <1>1, <2>1 DEF Load, TypeOK, database, feed, marks, versions, batch
  <2> QED BY <2>3, <2>4 DEF Shape
<1>2. CASE IsFenced(a)
  <2>0. /\ (~work[a].strict) \in BOOLEAN /\ work[a].written \in BOOLEAN
        /\ {} \in SUBSET Agents
    BY <1>a DEF Work
  <2>1. Leaves(a, ~work[a].strict, work[a].written, {})
    BY <1>2 DEF IsFenced
  <2>2. /\ work' \in [Agents -> Work]
        /\ lock' \in [Buckets -> Workers \cup {None}]
        /\ beats' \in [Agents -> SUBSET Agents]
        /\ overtaken' \subseteq Agents
        /\ \A c \in Agents \ {a} : work'[c] = work[c]
    BY <1>a, <2>0, <2>1, LeavesTypes
  <2>3. UNCHANGED events /\ work[a].at \notin {"idle", "event"}
    BY <1>2 DEF IsFenced, batch
  <2>4. EventInHand'
    BY <2>2, <2>3, StillInHand
  <2>5. TypeOK'
    BY <1>a, <1>2, <2>2 DEF IsFenced, TypeOK, database, feed, marks, batch
  <2> QED BY <2>4, <2>5 DEF Shape
<1>3. CASE AllocateAndWrite(a)
  <2>1. work' \in [Agents -> Work]
    BY <1>a, <1>3 DEF AllocateAndWrite, Go, Work, Places
  <2>2. /\ \A c \in Agents \ {a} : work'[c] = work[c]
        /\ UNCHANGED events /\ work[a].at \notin {"idle", "event"}
    BY <1>a, <1>3 DEF AllocateAndWrite, Go, At, batch
  <2>3. EventInHand'
    BY <2>2, StillInHand
  <2>4. beats' \in [Agents -> SUBSET Agents]
    BY <1>a, <1>3 DEF AllocateAndWrite, Versioned, TypeOK
  <2>5. entry' \in Nat \cup {None}
    BY <1>a, <1>3 DEF AllocateAndWrite, Work, TypeOK
  <2>6. TypeOK'
    BY <1>a, <1>3, <2>1, <2>4, <2>5
       DEF AllocateAndWrite, TypeOK, database, feed, marks, batch
  <2> QED BY <2>3, <2>6 DEF Shape
<1>4. CASE activateSnapshotVersion(a)
  <2> DEFINE older == IF a \in overtaken THEN {} ELSE beats[a]
  <2>1. older \in SUBSET Agents
    BY <1>a DEF TypeOK
  <2>2. Leaves(a, TRUE, TRUE, older)
    BY <1>4 DEF activateSnapshotVersion
  <2> HIDE DEF older
  <2>3. /\ work' \in [Agents -> Work]
        /\ lock' \in [Buckets -> Workers \cup {None}]
        /\ beats' \in [Agents -> SUBSET Agents]
        /\ overtaken' \subseteq Agents
        /\ \A c \in Agents \ {a} : work'[c] = work[c]
    BY <1>a, <2>1, <2>2, LeavesTypes
  <2>4. UNCHANGED events /\ work[a].at \notin {"idle", "event"}
    BY <1>4 DEF activateSnapshotVersion, At, batch
  <2>5. EventInHand'
    BY <2>3, <2>4, StillInHand
  <2>6. shown' \in [Buckets -> Nat \cup {None}]
    BY <1>a, <1>4 DEF activateSnapshotVersion, Work, TypeOK
  <2>7. TypeOK'
    BY <1>a, <1>4, <2>3, <2>6
       DEF activateSnapshotVersion, TypeOK, database, feed, marks, batch
  <2> QED BY <2>5, <2>7 DEF Shape
<1>5. CASE PublishFails(a)
  <2>1. /\ Leaves(a, FALSE, work[a].written, {}) /\ FALSE \in BOOLEAN
        /\ work[a].written \in BOOLEAN /\ {} \in SUBSET Agents
    BY <1>a, <1>5 DEF PublishFails, Work
  <2>2. /\ work' \in [Agents -> Work]
        /\ lock' \in [Buckets -> Workers \cup {None}]
        /\ beats' \in [Agents -> SUBSET Agents]
        /\ overtaken' \subseteq Agents
        /\ \A c \in Agents \ {a} : work'[c] = work[c]
    BY <1>a, <2>1, LeavesTypes
  <2>3. UNCHANGED events /\ work[a].at \notin {"idle", "event"}
    BY <1>5 DEF PublishFails, batch
  <2>4. EventInHand'
    BY <2>2, <2>3, StillInHand
  <2>5. faults' \in 0..MaxFaults
    BY <1>a, <1>5, SnapshotsAssumption DEF PublishFails, Fault, TypeOK
  <2>6. TypeOK'
    BY <1>a, <1>5, <2>2, <2>5 DEF PublishFails, TypeOK, database, feed, marks, batch
  <2> QED BY <2>4, <2>6 DEF Shape
<1> QED BY <1>1, <1>2, <1>3, <1>4, <1>5 DEF Publishing

LEMMA RebuildingTypes ==
    ASSUME Shape, NEW w \in Workers,
           \/ TryLockBucket(w) \/ BucketIsBusy(w) \/ JudgeGroup(w) \/ LeaseIsBusy(w)
           \/ ApplyJudgement(w) \/ LifecycleEnds(w) \/ LifecycleFails(w)
    PROVE  Shape'
<1> USE AgentsAre, NoneIsNone
<1>a. work \in [Agents -> Work] /\ work[w] \in Work /\ TypeOK /\ EventInHand
  BY DEF Shape, TypeOK
<1>b. /\ UNCHANGED events /\ work[w].at \notin {"idle", "event"}
      /\ \A c \in Agents \ {w} : work'[c] = work[c]
  BY <1>a DEF TryLockBucket, BucketIsBusy, JudgeGroup, LeaseIsBusy, ApplyJudgement,
        LifecycleEnds, LifecycleFails, At, batch
<1>c. EventInHand'
  BY <1>b, StillInHand
<1>1. CASE TryLockBucket(w)
  <2> DEFINE b == First(work[w].todo)
  <2>1. b \in Buckets
    BY <1>a, <1>1, FirstIsIn DEF TryLockBucket, Work
  <2>2. /\ lock' = [lock EXCEPT ![b] = w]
        /\ work' = [work EXCEPT ![w].bucket = b,
                      ![w].at = IF work[w].read = None THEN "load" ELSE "allocate"]
    BY <1>1 DEF TryLockBucket
  <2> HIDE DEF b
  <2>3. work' \in [Agents -> Work]
    BY <1>a, <2>1, <2>2 DEF Work, Places
  <2>4. lock' \in [Buckets -> Workers \cup {None}]
    BY <1>a, <2>2 DEF TypeOK
  <2>5. TypeOK'
    BY <1>a, <1>1, <2>3, <2>4
       DEF TryLockBucket, TypeOK, database, feed, marks, versions, batch
  <2> QED BY <1>c, <2>5 DEF Shape
<1>2. CASE BucketIsBusy(w)
  <2> DEFINE b == First(work[w].todo)
             r == Rebuilt(w, b, ~work[w].strict, work[w].written)
  <2>1. (~work[w].strict) \in BOOLEAN /\ work[w].written \in BOOLEAN
    BY <1>a DEF Work
  <2>2. r \in Work
    BY <1>a, <2>1, RebuiltIsWork
  <2>3. work' = [work EXCEPT ![w] = r]
    BY <1>2 DEF BucketIsBusy
  <2> HIDE DEF r
  <2>4. work' \in [Agents -> Work]
    BY <1>a, <2>2, <2>3
  <2>5. TypeOK'
    BY <1>a, <1>2, <2>4 DEF BucketIsBusy, TypeOK, database, feed, marks, versions, batch
  <2> QED BY <1>c, <2>5 DEF Shape
<1>3. CASE JudgeGroup(w)
  <2>1. open \in BOOLEAN
    BY <1>a DEF TypeOK
  <2>2. work' \in [Agents -> Work]
    BY <1>a, <1>3, <2>1 DEF JudgeGroup, Work, Places
  <2>3. TypeOK'
    BY <1>a, <1>3, <2>2 DEF JudgeGroup, TypeOK, database, feed, marks, versions, batch
  <2> QED BY <1>c, <2>3 DEF Shape
<1>4. CASE LeaseIsBusy(w)
  <2>1. work' \in [Agents -> Work]
    BY <1>a, <1>4, IdleIsWork DEF LeaseIsBusy
  <2>2. TypeOK'
    BY <1>a, <1>4, <2>1 DEF LeaseIsBusy, TypeOK, database, feed, marks, versions, batch
  <2> QED BY <1>c, <2>2 DEF Shape
<1>5. CASE ApplyJudgement(w)
  <2> DEFINE b == First(work[w].todo)
  <2>1. b \in Buckets
    BY <1>a, <1>5, FirstIsIn DEF ApplyJudgement, Work
  <2>2. /\ work' = [work EXCEPT ![w].todo = @ \ {b},
                      ![w].token[b] = IF work[w].judged THEN AtLeastOne(epoch[b]) ELSE 0]
        /\ IF work[w].judged THEN ReopenBucket(b) ELSE RetireBucket(b)
    BY <1>5 DEF ApplyJudgement
  <2> HIDE DEF b
  <2>3. epoch[b] \in Nat /\ AtLeastOne(epoch[b]) \in Nat /\ account \in Nat
    BY <1>a, <2>1, SnapshotsAssumption DEF TypeOK, AtLeastOne
  <2>4. work' \in [Agents -> Work]
    BY <1>a, <2>1, <2>2, <2>3 DEF Work, Places
  <2>5. /\ epoch' \in [Buckets -> Nat] /\ retired' \in [Buckets -> BOOLEAN]
        /\ shown' \in [Buckets -> Nat \cup {None}] /\ closedAt' \in [Buckets -> Nat]
    <3>0. /\ epoch \in [Buckets -> Nat] /\ retired \in [Buckets -> BOOLEAN]
          /\ shown \in [Buckets -> Nat \cup {None}] /\ closedAt \in [Buckets -> Nat]
      BY <1>a DEF TypeOK
    <3>1. CASE work[w].judged
      <4>1. /\ epoch' = [epoch EXCEPT ![b] = AtLeastOne(epoch[b])]
            /\ retired' = [retired EXCEPT ![b] = FALSE]
            /\ shown' = [shown EXCEPT ![b] = None] \/ shown' = shown
            /\ closedAt' = closedAt
        BY <2>2, <3>1 DEF ReopenBucket
      <4> QED BY <2>3, <3>0, <4>1
    <3>2. CASE ~work[w].judged
      <4>1. /\ epoch' = epoch \/ epoch' = [epoch EXCEPT ![b] = epoch[b] + 1]
            /\ retired' = [retired EXCEPT ![b] = TRUE]
            /\ shown' = [shown EXCEPT ![b] = None]
            /\ closedAt' = closedAt \/ closedAt' = [closedAt EXCEPT ![b] = account]
        BY <2>2, <3>2 DEF RetireBucket
      <4>2. epoch' \in [Buckets -> Nat]
        <5>1. epoch[b] + 1 \in Nat
          BY <2>3
        <5> QED BY <3>0, <4>1, <5>1
      <4>3. retired' \in [Buckets -> BOOLEAN] /\ shown' \in [Buckets -> Nat \cup {None}]
        BY <3>0, <4>1
      <4>4. closedAt' \in [Buckets -> Nat]
        BY <2>3, <3>0, <4>1
      <4> QED BY <4>2, <4>3, <4>4
    <3> QED BY <3>1, <3>2
  <2>6. TypeOK'
    BY <1>a, <1>5, <2>4, <2>5
       DEF ApplyJudgement, TypeOK, database, feed, versions, batch
  <2> QED BY <1>c, <2>6 DEF Shape
<1>6. CASE LifecycleEnds(w)
  <2>1. [work[w] EXCEPT !.at = "task", !.judged = FALSE,
                        !.strict = TRUE, !.todo = Buckets] \in Work
    BY <1>a DEF Work, Places
  <2>2. [Idle EXCEPT !.at = "task"] \in Work
    BY IdleIsWork DEF Work, Places
  <2>3. work' \in [Agents -> Work]
    BY <1>a, <1>6, <2>1, <2>2, IdleIsWork DEF LifecycleEnds
  <2>4. confirmed' \in BOOLEAN
    BY <1>a, <1>6 DEF LifecycleEnds, TypeOK
  <2>5. lease' \in Workers \cup {None}
    BY <1>a, <1>6 DEF LifecycleEnds, TypeOK
  <2>6. TypeOK'
    BY <1>a, <1>6, <2>3, <2>4, <2>5
       DEF LifecycleEnds, TypeOK, database, feed, marks, versions, batch
  <2> QED BY <1>c, <2>6 DEF Shape
<1>7. CASE LifecycleFails(w)
  <2>1. work' \in [Agents -> Work]
    BY <1>a, <1>7, IdleIsWork DEF LifecycleFails
  <2>2. lease' \in Workers \cup {None}
    BY <1>a, <1>7 DEF LifecycleFails, TypeOK
  <2>3. faults' \in 0..MaxFaults
    BY <1>a, <1>7, SnapshotsAssumption DEF LifecycleFails, Fault, TypeOK
  <2>4. TypeOK'
    BY <1>a, <1>7, <2>1, <2>2, <2>3
       DEF LifecycleFails, TypeOK, database, feed, marks, versions, batch
  <2> QED BY <1>c, <2>4 DEF Shape
<1> QED BY <1>1, <1>2, <1>3, <1>4, <1>5, <1>6, <1>7

LEMMA CaptureTypes ==
    ASSUME TypeOK, NEW w \in Agents, NEW B \in SUBSET Buckets, CaptureTokens(w, B)
    PROVE  work' \in [Agents -> Work] /\ epoch' \in [Buckets -> Nat]
<1> DEFINE t == [b \in Buckets |-> IF b \in B THEN AtLeastOne(epoch[b]) ELSE 0]
<1>1. \A b \in Buckets : AtLeastOne(epoch[b]) \in Nat
  BY DEF AtLeastOne, TypeOK
<1>2. t \in [Buckets -> Nat]
  BY <1>1
<1>3. work' = [work EXCEPT ![w].at = "task", ![w].todo = B, ![w].token = t]
  BY DEF CaptureTokens
<1> HIDE DEF t
<1>4. work' \in [Agents -> Work]
  <2>1. work \in [Agents -> Work]
    BY DEF TypeOK
  <2> DEFINE r == [work[w] EXCEPT !.at = "task", !.todo = B, !.token = t]
  <2>2. r \in Work
    BY <1>2, <2>1, ZenonT(60) DEF Work, Places
  <2>3. work' = [work EXCEPT ![w] = r]
    BY <1>3
  <2> HIDE DEF r
  <2> QED BY <2>1, <2>2, <2>3
<1>5. epoch' \in [Buckets -> Nat]
  BY <1>1 DEF CaptureTokens, TypeOK
<1> QED BY <1>4, <1>5

LEMMA PollerTypes ==
    ASSUME Shape,
           \/ PollOutbox \/ HandleAccountEvent \/ HandleGroupEvent \/ EventEnds
           \/ BatchEnds \/ PollFails
    PROVE  Shape'
<1> USE AgentsAre, NoneIsNone
<1>a. /\ work \in [Agents -> Work] /\ work[Poller] \in Work /\ TypeOK /\ EventInHand
      /\ outbox \in Seq(Kinds) /\ events \in Seq(Kinds) /\ Len(outbox) \in Nat
      /\ released \in Nat /\ released <= Len(outbox) /\ boot \in Nat /\ boot <= Len(outbox)
  BY DEF Shape, TypeOK
<1>1. CASE PollOutbox
  <2>1. work' \in [Agents -> Work] /\ work'[Poller].at = "event"
    BY <1>a, <1>1 DEF PollOutbox, Go, Work, Places
  <2>2. released' \in 0..Len(outbox') /\ boot' \in 0..Len(outbox')
    BY <1>a, <1>1 DEF PollOutbox
  <2>3. TypeOK'
    BY <1>a, <1>1, <2>1, <2>2 DEF PollOutbox, TypeOK, database, marks, versions
  <2> QED BY <2>1, <2>3 DEF Shape, EventInHand
<1>2. CASE HandleAccountEvent
  <2> DEFINE B == {b \in Buckets : "platform" \notin seen /\ ~retired[b]}
  <2>1. B \in SUBSET Buckets /\ CaptureTokens(Poller, B)
    BY <1>2 DEF HandleAccountEvent
  <2> HIDE DEF B
  <2>2. work' \in [Agents -> Work] /\ epoch' \in [Buckets -> Nat]
    BY <1>a, <2>1, CaptureTypes
  <2>3. account \in Nat
    BY <1>a, SnapshotsAssumption DEF TypeOK
  <2>4. TypeOK'
    BY <1>a, <1>2, <2>2, <2>3 DEF HandleAccountEvent, TypeOK, database, feed, versions
  <2>5. EventInHand'
    BY <1>2 DEF HandleAccountEvent, EventInHand
  <2> QED BY <2>4, <2>5 DEF Shape
<1>3. CASE HandleGroupEvent
  <2>1. work' \in [Agents -> Work]
    BY <1>a, <1>3 DEF HandleGroupEvent, Go, Work, Places
  <2>2. TypeOK'
    BY <1>a, <1>3, <2>1 DEF HandleGroupEvent, TypeOK, database, feed, marks, versions, batch
  <2>3. EventInHand'
    BY <1>3 DEF HandleGroupEvent, EventInHand, batch
  <2> QED BY <2>2, <2>3 DEF Shape
<1>4. CASE EventEnds
  <2>1. [Idle EXCEPT !.at = "event"] \in Work
    BY IdleIsWork DEF Work, Places
  <2>2. work' \in [Agents -> Work] /\ work'[Poller].at \in {"idle", "event"}
    BY <1>a, <1>4, <2>1, IdleIsWork DEF EventEnds, Idle
  <2>3. events # <<>>
    BY <1>a, <1>4 DEF EventEnds, At, EventInHand
  <2>4. events' \in Seq(Kinds)
    BY <1>a, <1>4, <2>3 DEF EventEnds
  <2>5. seen' \subseteq {"platform", "lifecycle"}
    BY <1>a, <1>4 DEF EventEnds, TypeOK
  <2>6. TypeOK'
    BY <1>a, <1>4, <2>2, <2>4, <2>5 DEF EventEnds, TypeOK, database, feed, marks, versions
  <2> QED BY <2>2, <2>6 DEF Shape, EventInHand
<1>5. CASE BatchEnds
  <2>1. work' \in [Agents -> Work] /\ work'[Poller].at = "idle"
    BY <1>a, <1>5, IdleIsWork DEF BatchEnds, Rest, Idle
  <2>2. /\ outbox' = SubSeq(outbox, released + 1, Len(outbox)) /\ released' = 0
        /\ boot' = IF boot > released THEN boot - released ELSE 0
        /\ seen' = {} /\ events' = events
    BY <1>5 DEF BatchEnds
  <2>3. outbox' \in Seq(Kinds) /\ Len(outbox') = Len(outbox) - released
    BY <1>a, <2>2, Consumed
  <2>4. released' \in 0..Len(outbox') /\ boot' \in 0..Len(outbox')
    BY <1>a, <2>2, <2>3
  <2>5. TypeOK'
    BY <1>a, <1>5, <2>1, <2>2, <2>3, <2>4 DEF BatchEnds, TypeOK, database, marks, versions
  <2> QED BY <2>1, <2>5 DEF Shape, EventInHand
<1>6. CASE PollFails
  <2>1. work' \in [Agents -> Work] /\ work'[Poller].at = "idle"
    BY <1>a, <1>6, IdleIsWork DEF PollFails, Rest, Idle
  <2>2. faults' \in 0..MaxFaults
    BY <1>a, <1>6, SnapshotsAssumption DEF PollFails, Fault, TypeOK
  <2>3. TypeOK'
    BY <1>a, <1>6, <2>1, <2>2 DEF PollFails, TypeOK, database, feed, marks, versions
  <2> QED BY <2>1, <2>3 DEF Shape, EventInHand
<1> QED BY <1>1, <1>2, <1>3, <1>4, <1>5, <1>6

LEMMA FullRebuildTypes ==
    ASSUME Shape, StartRebuild \/ RebuildEnds \/ RebuildFails
    PROVE  Shape'
<1> USE AgentsAre, NoneIsNone
<1>a. /\ work \in [Agents -> Work] /\ TypeOK /\ EventInHand
      /\ outbox \in Seq(Kinds) /\ Len(outbox) \in Nat
      /\ released \in Nat /\ released <= Len(outbox) /\ boot \in Nat /\ boot <= Len(outbox)
  BY DEF Shape, TypeOK
<1>1. CASE StartRebuild
  <2>1. CASE CaptureTokens(Rebuilder, Buckets)
    <3>1. work' \in [Agents -> Work] /\ epoch' \in [Buckets -> Nat]
      BY <1>a, <2>1, CaptureTypes
    <3>2. work'[Poller] = work[Poller]
      BY <1>a, <2>1 DEF CaptureTokens
    <3> QED BY <1>a, <1>1, <3>1, <3>2
            DEF StartRebuild, Shape, EventInHand, TypeOK, database, versions, batch
  <2>2. CASE (Go(Rebuilder, "lease") \/ Go(Rebuilder, "task")) /\ UNCHANGED epoch
    <3>1. work' \in [Agents -> Work] /\ work'[Poller] = work[Poller]
      <4>1. ASSUME NEW place \in Places, Go(Rebuilder, place)
            PROVE  work' \in [Agents -> Work] /\ work'[Poller] = work[Poller]
        BY <1>a, <4>1, ZenonT(60) DEF Go, Work
      <4>2. "lease" \in Places /\ "task" \in Places
        BY DEF Places
      <4> QED BY <2>2, <4>1, <4>2
    <3> QED BY <1>a, <1>1, <2>2, <3>1
            DEF StartRebuild, Shape, EventInHand, TypeOK, database, versions, batch
  <2> QED BY <1>1, <2>1, <2>2 DEF StartRebuild
<1>2. CASE RebuildEnds
  <2>1. work' \in [Agents -> Work] /\ work'[Poller] = work[Poller]
    BY <1>a, <1>2, IdleIsWork DEF RebuildEnds, Rest
  <2>2. PICK n \in 0..boot :
          /\ outbox' = SubSeq(outbox, n + 1, Len(outbox))
          /\ released' = IF released > n THEN released - n ELSE 0
    BY <1>a, <1>2 DEF RebuildEnds
  <2>3. n \in 0..Len(outbox)
    BY <1>a
  <2>4. outbox' \in Seq(Kinds) /\ Len(outbox') = Len(outbox) - n
    BY <1>a, <2>2, <2>3, Consumed
  <2>5. released' \in 0..Len(outbox')
    BY <1>a, <2>2, <2>3, <2>4
  <2>6. boot' = 0 /\ initial' = FALSE /\ UNCHANGED <<events, seen>>
    BY <1>2 DEF RebuildEnds, batch
  <2>7. boot' \in 0..Len(outbox')
    BY <1>a, <2>3, <2>4, <2>6
  <2>8. TypeOK'
    BY <1>a, <1>2, <2>1, <2>4, <2>5, <2>6, <2>7
       DEF RebuildEnds, TypeOK, database, marks, versions
  <2> QED BY <1>a, <2>1, <2>6, <2>8 DEF Shape, EventInHand
<1>3. CASE RebuildFails
  <2>1. faults' \in 0..MaxFaults
    BY <1>a, <1>3, SnapshotsAssumption DEF RebuildFails, Fault, TypeOK
  <2> QED BY <1>a, <1>3, <2>1
          DEF RebuildFails, Shape, EventInHand, TypeOK, database, feed, marks, versions, batch
<1> QED BY <1>1, <1>2, <1>3

LEMMA WorldTypes ==
    ASSUME Shape,
           \/ ChangeAccount \/ ChangeGroup \/ LeaseLapses
           \/ \E b \in Buckets : LockLapses(b)
           \/ \E r \in Readers, b \in Buckets : ReaderMisses(r, b)
           \/ \E kept \in Restarts : Crash(kept)
    PROVE  Shape'
<1> USE AgentsAre, NoneIsNone
<1>a. work \in [Agents -> Work] /\ TypeOK /\ EventInHand
  BY DEF Shape, TypeOK
<1>b. account \in Nat /\ regrouped \in Nat /\ MaxAccountChanges \in Nat /\ MaxGroupChanges \in Nat
  BY <1>a, SnapshotsAssumption DEF TypeOK
<1>1. CASE ChangeAccount
  <2>1. /\ outbox' \in Seq(Kinds) /\ released' \in 0..Len(outbox')
        /\ boot' \in 0..Len(outbox') /\ faults' \in 0..MaxFaults
    BY <1>a, <1>1, Announced DEF ChangeAccount, Kinds
  <2>2. account' \in 0..MaxAccountChanges /\ entry' \in Nat \cup {None}
    BY <1>a, <1>b, <1>1 DEF ChangeAccount, TypeOK
  <2>3. TypeOK'
    BY <1>a, <1>1, <2>1, <2>2 DEF ChangeAccount, TypeOK, marks, versions, batch
  <2> QED BY <1>a, <1>1, <2>3 DEF ChangeAccount, Shape, EventInHand, batch
<1>2. CASE ChangeGroup
  <2>1. /\ outbox' \in Seq(Kinds) /\ released' \in 0..Len(outbox')
        /\ boot' \in 0..Len(outbox') /\ faults' \in 0..MaxFaults
    BY <1>a, <1>2, Announced DEF ChangeGroup, Kinds
  <2>2. regrouped' \in 0..MaxGroupChanges /\ open' \in BOOLEAN
    BY <1>a, <1>b, <1>2 DEF ChangeGroup, TypeOK
  <2>3. TypeOK'
    BY <1>a, <1>2, <2>1, <2>2 DEF ChangeGroup, TypeOK, marks, versions, batch
  <2> QED BY <1>a, <1>2, <2>3 DEF ChangeGroup, Shape, EventInHand, batch
<1>3. CASE LeaseLapses
  BY <1>a, <1>3 DEF LeaseLapses, Shape, EventInHand, TypeOK, database, feed, marks,
                    versions, batch
<1>4. ASSUME NEW b \in Buckets, LockLapses(b)
      PROVE  Shape'
  <2>1. faults' \in 0..MaxFaults
    BY <1>a, <1>4, SnapshotsAssumption DEF LockLapses, Fault, TypeOK
  <2>2. lock' \in [Buckets -> Workers \cup {None}]
    BY <1>a, <1>4 DEF LockLapses, TypeOK
  <2> QED BY <1>a, <1>4, <2>1, <2>2
          DEF LockLapses, Shape, EventInHand, TypeOK, database, feed, marks, versions, batch
<1>5. ASSUME NEW r \in Readers, NEW b \in Buckets, ReaderMisses(r, b)
      PROVE  Shape'
  <2>1. AtLeastOne(epoch[b]) \in Nat
    BY <1>a DEF AtLeastOne, TypeOK
  <2>2a. work' \in [Agents -> Work]
    <3> DEFINE t == [work[r].token EXCEPT ![b] = AtLeastOne(epoch[b])]
               miss == [work[r] EXCEPT !.at = "load", !.bucket = b, !.token = t]
    <3>1. work[r] \in Work
      BY <1>a
    <3>2. t \in [Buckets -> Nat]
      BY <2>1, <3>1 DEF Work
    <3>3. miss \in Work
      <4> HIDE DEF t
      <4> QED BY <3>1, <3>2 DEF Work, Places
    <3>4. work' = [work EXCEPT ![r] = miss]
      BY <1>5 DEF ReaderMisses
    <3> HIDE DEF miss
    <3> QED BY <1>a, <3>3, <3>4
  <2>2b. epoch' = [epoch EXCEPT ![b] = AtLeastOne(epoch[b])]
    BY <1>5 DEF ReaderMisses
  <2>2. work' \in [Agents -> Work] /\ epoch' \in [Buckets -> Nat]
    BY <1>a, <2>1, <2>2a, <2>2b DEF TypeOK
  <2>3. r # Poller /\ work'[Poller] = work[Poller]
    BY <1>a, <1>5, SnapshotsAssumption DEF ReaderMisses
  <2> QED BY <1>a, <1>5, <2>2, <2>3
          DEF ReaderMisses, Shape, EventInHand, TypeOK, database, feed, versions, batch
<1>6. ASSUME NEW kept \in Restarts, Crash(kept)
      PROVE  Shape'
  <2>1. work' \in [Agents -> Work] /\ work'[Poller].at = "idle"
    BY <1>6, IdleIsWork DEF Crash, Idle
  <2>2. faults' \in 0..MaxFaults
    BY <1>a, <1>6, SnapshotsAssumption DEF Crash, Fault, TypeOK
  <2>3. /\ epoch' \in [Buckets -> Nat] /\ retired' \in [Buckets -> BOOLEAN]
        /\ shown' \in [Buckets -> Nat \cup {None}]
        /\ lock' \in [Buckets -> Workers \cup {None}] /\ lease' \in Workers \cup {None}
        /\ entry' \in Nat \cup {None} /\ confirmed' \in BOOLEAN
    <3>1. CASE kept
      BY <1>a, <1>6, <3>1 DEF Crash, TypeOK
    <3>2. CASE ~kept
      <4>1. /\ epoch' = [b \in Buckets |-> 0] /\ retired' = [b \in Buckets |-> FALSE]
            /\ shown' = [b \in Buckets |-> None] /\ lock' = [b \in Buckets |-> None]
            /\ lease' = None /\ entry' = None /\ confirmed' = FALSE
        BY <1>6, <3>2 DEF Crash
      <4> QED BY <4>1
    <3> QED BY <3>1, <3>2
  <2>4. /\ outbox' \in Seq(Kinds) /\ released' \in 0..Len(outbox')
        /\ boot' \in 0..Len(outbox') /\ events' \in Seq(Kinds) /\ seen' = {}
    BY <1>a, <1>6 DEF Crash, TypeOK
  <2>5. TypeOK'
    BY <1>a, <1>6, <2>1, <2>2, <2>3, <2>4 DEF Crash, TypeOK, database
  <2> QED BY <2>1, <2>5 DEF Shape, EventInHand
<1> QED BY <1>1, <1>2, <1>3, <1>4, <1>5, <1>6

LEMMA ShapeInit == ASSUME Init PROVE Shape
<1>1. work \in [Agents -> Work]
  BY IdleIsWork DEF Init
<1>2. outbox \in Seq(Kinds) /\ Len(outbox) \in Nat
  <2>1. "group" \in Kinds
    BY DEF Kinds
  <2>2. outbox = <<>> \/ outbox = <<"group">>
    BY DEF Init
  <2>3. CASE outbox = <<>>
    BY <2>3
  <2>4. CASE outbox = <<"group">>
    BY <2>1, <2>4
  <2> QED BY <2>2, <2>3, <2>4
<1>3. released \in 0..Len(outbox) /\ boot \in 0..Len(outbox)
  BY <1>2 DEF Init
<1>4. account \in 0..MaxAccountChanges /\ regrouped \in 0..MaxGroupChanges /\ faults \in 0..MaxFaults
  BY SnapshotsAssumption DEF Init
<1>5. /\ epoch \in [Buckets -> Nat] /\ retired \in [Buckets -> BOOLEAN]
      /\ shown \in [Buckets -> Nat \cup {None}] /\ closedAt \in [Buckets -> Nat]
      /\ lock \in [Buckets -> Workers \cup {None}]
  BY DEF Init
<1>6. /\ beats \in [Agents -> SUBSET Agents] /\ overtaken \subseteq Agents
      /\ events \in Seq(Kinds) /\ seen \subseteq {"platform", "lifecycle"}
  BY DEF Init
<1>7. /\ open \in BOOLEAN /\ initial \in BOOLEAN /\ confirmed \in BOOLEAN
      /\ lease \in Workers \cup {None} /\ entry \in Nat \cup {None}
  BY DEF Init
<1>8. TypeOK
  BY <1>1, <1>2, <1>3, <1>4, <1>5, <1>6, <1>7 DEF TypeOK
<1> QED BY <1>8, AgentsAre DEF Shape, EventInHand, Init, Idle

LEMMA ShapeNext == ASSUME Shape, [Next]_vars PROVE Shape'
<1>1. CASE Next
  <2>1. \A r \in Readers : Publishing(r) => Shape'
    BY PublishingTypes, AgentsAre
  <2>2. \A a \in Agents : PublishFails(a) => Shape'
    BY PublishingTypes
  <2>3. \A w \in Workers : Rebuilding(w) => Shape'
    BY PublishingTypes, RebuildingTypes, AgentsAre DEF Rebuilding
  <2>4. Polling => Shape'
    BY <2>3, PollerTypes DEF Polling, Workers
  <2>5. FullRebuilding => Shape'
    BY <2>3, FullRebuildTypes DEF FullRebuilding, Workers
  <2>6. Fails => Shape'
    BY <2>2, RebuildingTypes, PollerTypes, FullRebuildTypes DEF Fails
  <2> QED BY <1>1, <2>1, <2>4, <2>5, <2>6, WorldTypes DEF Next
<1>2. CASE UNCHANGED vars
  BY <1>2 DEF vars, Shape, EventInHand, TypeOK
<1> QED BY <1>1, <1>2

(***************************************************************************)
(* The variables of SchedulerSnapshots keep their types, and the poller    *)
(* handles no event of an empty batch (pollOutbox).                        *)
(***************************************************************************)
THEOREM Typed == Spec => []TypeOK
<1>1. Init => Shape
  BY ShapeInit
<1>2. Shape /\ [Next]_vars => Shape'
  BY ShapeNext
<1>3. Shape => TypeOK
  BY DEF Shape
<1> QED BY <1>1, <1>2, <1>3, PTL DEF Spec

-----------------------------------------------------------------------------
(* No snapshot of an earlier life.                                         *)

\* A retirement leaves every token there is behind.
Fencing ==
    \A a \in Agents, b \in Buckets :
      /\ work[a].token[b] <= epoch[b]
      /\ retired[b] => work[a].token[b] < epoch[b]

\* Who holds the epoch has read nothing older than the last retirement.
Fresh ==
    \A a \in Agents, b \in Buckets :
      work[a].read # None /\ work[a].token[b] = epoch[b] => work[a].read >= closedAt[b]

Unread ==
    \A a \in Agents :
      work[a].at \in {"idle", "lease", "apply", "event"} => work[a].read = None

Past == \A b \in Buckets : closedAt[b] <= account

LifeInv ==
    /\ Shape /\ Fencing /\ Fresh /\ Unread /\ Past
    /\ RetiredIsEmpty /\ SnapshotIsOfThisLife

LEMMA Numbers ==
    ASSUME Shape
    PROVE  /\ account \in Nat
           /\ \A b \in Buckets : /\ epoch[b] \in Nat /\ closedAt[b] \in Nat
                                 /\ retired[b] \in BOOLEAN /\ shown[b] \in Nat \cup {None}
           /\ \A a \in Agents : /\ work[a] \in Work /\ work[a].read \in Nat \cup {None}
                                /\ \A b \in Buckets : work[a].token[b] \in Nat
<1>1. account \in Nat
  BY SnapshotsAssumption DEF Shape, TypeOK
<1>2. \A b \in Buckets : /\ epoch[b] \in Nat /\ closedAt[b] \in Nat
                         /\ retired[b] \in BOOLEAN /\ shown[b] \in Nat \cup {None}
  BY DEF Shape, TypeOK
<1>3. \A a \in Agents : work[a] \in Work
  BY DEF Shape, TypeOK
<1>4. \A a \in Agents : /\ work[a].read \in Nat \cup {None}
                        /\ \A b \in Buckets : work[a].token[b] \in Nat
  BY <1>3 DEF Work
<1> QED BY <1>1, <1>2, <1>3, <1>4

\* a takes no token and reads nothing.
Keeps(a) ==
    /\ \A b \in Buckets : work'[a].token[b] \in {work[a].token[b], 0}
    /\ work'[a].read \in {work[a].read, None}
    /\ work'[a].at \in {"idle", "lease", "apply", "event"} => work'[a].read = None

LEMMA MarksKept ==
    ASSUME LifeInv, Shape', UNCHANGED <<epoch, retired, closedAt>>,
           account <= account',
           \A a \in Agents : work'[a] = work[a] \/ Keeps(a),
           RetiredIsEmpty', SnapshotIsOfThisLife'
    PROVE  LifeInv'
<1>0. account' \in 0..MaxAccountChanges
  BY DEF Shape, TypeOK
<1>1. Shape /\ account' \in Nat
  BY <1>0, SnapshotsAssumption DEF LifeInv
<1>2. Fencing'
  BY <1>1, Numbers DEF LifeInv, Fencing, Keeps
<1>3. Fresh'
  BY <1>1, Numbers DEF LifeInv, Fencing, Fresh, Keeps
<1>4. Unread'
  BY DEF LifeInv, Unread, Keeps
<1>5. Past'
  BY <1>1, Numbers DEF LifeInv, Past
<1> QED BY <1>2, <1>3, <1>4, <1>5 DEF LifeInv

LEMMA SteadyLife ==
    ASSUME LifeInv, Shape', UNCHANGED <<epoch, retired, closedAt, shown>>,
           account <= account',
           \A a \in Agents : work'[a] = work[a] \/ Keeps(a)
    PROVE  LifeInv'
<1>1. RetiredIsEmpty' /\ SnapshotIsOfThisLife'
  BY DEF LifeInv, RetiredIsEmpty, SnapshotIsOfThisLife
<1> QED BY <1>1, MarksKept

\* a takes the tokens of the buckets B, none of which is retired.
LEMMA CapturedLife ==
    ASSUME LifeInv, Shape', NEW a \in Agents, NEW B \in SUBSET Buckets,
           \A b \in B : ~retired[b],
           epoch' = [b \in Buckets |-> IF b \in B THEN AtLeastOne(epoch[b]) ELSE epoch[b]],
           UNCHANGED <<retired, closedAt, shown, account>>,
           \A c \in Agents \ {a} : work'[c] = work[c],
           \A b \in B : work'[a].token[b] = AtLeastOne(epoch[b]),
           \A b \in Buckets \ B : work'[a].token[b] \in {work[a].token[b], 0},
           work'[a].read = None
    PROVE  LifeInv'
<1>1. Shape
  BY DEF LifeInv
<1>2. \A b \in Buckets : /\ epoch'[b] = IF b \in B THEN AtLeastOne(epoch[b]) ELSE epoch[b]
                         /\ epoch[b] <= epoch'[b]
                         /\ epoch'[b] # epoch[b] => epoch[b] = 0 /\ epoch'[b] = 1
  BY <1>1, Numbers DEF AtLeastOne
<1>3. Fencing'
  <2>1. ASSUME NEW c \in Agents, NEW b \in Buckets
        PROVE  work'[c].token[b] <= epoch'[b] /\ (retired'[b] => work'[c].token[b] < epoch'[b])
    <3>1. work[c].token[b] <= epoch[b] /\ (retired[b] => work[c].token[b] < epoch[b])
      BY DEF LifeInv, Fencing
    <3>2. CASE b \in B
      <4>1. ~retired'[b]
        BY <3>2
      <4>2. work'[c].token[b] \in {work[c].token[b], AtLeastOne(epoch[b])}
        BY <3>2
      <4> QED BY <1>1, <1>2, <3>1, <3>2, <4>1, <4>2, Numbers DEF AtLeastOne
    <3>3. CASE b \notin B
      <4>1. work'[c].token[b] \in {work[c].token[b], 0}
        BY <3>3
      <4> QED BY <1>1, <1>2, <3>1, <3>3, <4>1, Numbers
    <3> QED BY <3>2, <3>3
  <2> QED BY <2>1 DEF Fencing
<1>4. Fresh'
  <2>1. ASSUME NEW c \in Agents, NEW b \in Buckets,
               work'[c].read # None, work'[c].token[b] = epoch'[b]
        PROVE  work'[c].read >= closedAt'[b]
    <3>1. c # a /\ work'[c] = work[c]
      BY <2>1
    <3>2. work[c].token[b] <= epoch[b]
      BY DEF LifeInv, Fencing
    <3>3. work[c].token[b] = epoch[b]
      BY <1>1, <1>2, <2>1, <3>1, <3>2, Numbers
    <3> QED BY <2>1, <3>1, <3>3 DEF LifeInv, Fresh
  <2> QED BY <2>1 DEF Fresh
<1>5. Unread' /\ Past' /\ RetiredIsEmpty' /\ SnapshotIsOfThisLife'
  BY DEF LifeInv, Unread, Past, RetiredIsEmpty, SnapshotIsOfThisLife
<1> QED BY <1>3, <1>4, <1>5 DEF LifeInv

LEMMA RebuiltKeeps ==
    ASSUME Shape, NEW w \in Agents, NEW b, NEW ok, NEW written,
           work'[w] = Rebuilt(w, b, ok, written)
    PROVE  Keeps(w)
<1>1. work[w] \in Work
  BY Numbers
<1>2. CASE work'[w] = [Idle EXCEPT !.at = "task", !.failed = work[w].failed \/ ~ok]
  BY <1>2 DEF Keeps, Idle
<1>3. CASE work'[w] = [work[w] EXCEPT !.at = "task", !.bucket = None, !.todo = @ \ {b},
                         !.token[b] = 0, !.written = written, !.failed = @ \/ ~ok]
  BY <1>1, <1>3 DEF Keeps, Work
<1> QED BY <1>2, <1>3 DEF Rebuilt

LEMMA LeavesKeeps ==
    ASSUME Shape, NEW a \in Agents, NEW ok, NEW written, NEW older, Leaves(a, ok, written, older)
    PROVE  \A c \in Agents : work'[c] = work[c] \/ Keeps(c)
<1>1. work \in [Agents -> Work]
  BY DEF Shape, TypeOK
<1>2. \A c \in Agents \ {a} : work'[c] = work[c]
  BY <1>1 DEF Leaves, Rest
<1>3. CASE a \in Readers
  BY <1>1, <1>2, <1>3 DEF Leaves, Rest, Keeps, Idle
<1>4. CASE a \notin Readers
  <2>1. work'[a] = Rebuilt(a, work[a].bucket, ok, written)
    BY <1>1, <1>4 DEF Leaves
  <2> QED BY <1>2, <2>1, RebuiltKeeps
<1> QED BY <1>3, <1>4

LEMMA PublishingLife ==
    ASSUME LifeInv, Shape', NEW a \in Agents, Publishing(a) \/ PublishFails(a)
    PROVE  LifeInv'
<1>a. Shape /\ work \in [Agents -> Work] /\ work[a] \in Work
  BY DEF LifeInv, Shape, TypeOK
<1>b. account \in Nat /\ account <= account
  BY <1>a, Numbers
<1>1. CASE Load(a)
  <2>1. /\ UNCHANGED <<account, epoch, retired, closedAt, shown>>
        /\ \A c \in Agents \ {a} : work'[c] = work[c]
        /\ work'[a].read = account /\ work'[a].at = "allocate"
        /\ work'[a].token = work[a].token
    BY <1>a, <1>1 DEF Load, database, marks, Work
  <2>2. Fencing'
    BY <2>1 DEF LifeInv, Fencing
  <2>3. Fresh'
    <3>1. \A b \in Buckets : work'[a].read >= closedAt'[b]
      BY <1>a, <2>1, Numbers DEF LifeInv, Past
    <3> QED BY <2>1, <3>1 DEF LifeInv, Fresh
  <2>4. Unread' /\ Past' /\ RetiredIsEmpty' /\ SnapshotIsOfThisLife'
    BY <2>1 DEF LifeInv, Unread, Past, RetiredIsEmpty, SnapshotIsOfThisLife
  <2> QED BY <2>2, <2>3, <2>4 DEF LifeInv
<1>2. CASE IsFenced(a)
  <2>1. UNCHANGED <<account, epoch, retired, closedAt, shown>>
    BY <1>2 DEF IsFenced, database, marks
  <2>2. Leaves(a, ~work[a].strict, work[a].written, {})
    BY <1>2 DEF IsFenced
  <2>3. \A c \in Agents : work'[c] = work[c] \/ Keeps(c)
    BY <1>a, <2>2, LeavesKeeps
  <2> QED BY <1>b, <2>1, <2>3, SteadyLife
<1>3. CASE AllocateAndWrite(a)
  <2>1. UNCHANGED <<account, epoch, retired, closedAt, shown>>
    BY <1>3 DEF AllocateAndWrite, database, marks
  <2>2. \A c \in Agents : work'[c] = work[c] \/ Keeps(c)
    BY <1>a, <1>3 DEF AllocateAndWrite, Go, Keeps, Work
  <2> QED BY <1>b, <2>1, <2>2, SteadyLife
<1>4. CASE activateSnapshotVersion(a)
  <2>1. UNCHANGED <<account, epoch, retired, closedAt>>
    BY <1>4 DEF activateSnapshotVersion, database, marks
  <2>2. Leaves(a, TRUE, TRUE, IF a \in overtaken THEN {} ELSE beats[a])
    BY <1>4 DEF activateSnapshotVersion
  <2>3. \A c \in Agents : work'[c] = work[c] \/ Keeps(c)
    BY <1>a, <2>2, LeavesKeeps
  <2>4. \A b \in Buckets : \/ shown'[b] = shown[b]
                           \/ b = work[a].bucket /\ shown'[b] = work[a].read
    BY <1>a, <1>4 DEF activateSnapshotVersion, Shape, TypeOK
  <2>5. ASSUME NEW b \in Buckets, b = work[a].bucket
        PROVE  ~retired[b] /\ (work[a].read # None => work[a].read >= closedAt[b])
    <3>1. ~retired[b] /\ epoch[b] = work[a].token[b]
      BY <1>4, <2>5 DEF activateSnapshotVersion, Fenced
    <3> QED BY <3>1 DEF LifeInv, Fresh
  <2>6. RetiredIsEmpty' /\ SnapshotIsOfThisLife'
    BY <2>1, <2>4, <2>5 DEF LifeInv, RetiredIsEmpty, SnapshotIsOfThisLife
  <2> QED BY <1>b, <2>1, <2>3, <2>6, MarksKept
<1>5. CASE PublishFails(a)
  <2>1. UNCHANGED <<account, epoch, retired, closedAt, shown>>
    BY <1>5 DEF PublishFails, database, marks
  <2>2. Leaves(a, FALSE, work[a].written, {})
    BY <1>5 DEF PublishFails
  <2>3. \A c \in Agents : work'[c] = work[c] \/ Keeps(c)
    BY <1>a, <2>2, LeavesKeeps
  <2> QED BY <1>b, <2>1, <2>3, SteadyLife
<1> QED BY <1>1, <1>2, <1>3, <1>4, <1>5 DEF Publishing

LEMMA JudgingLife ==
    ASSUME LifeInv, Shape', NEW w \in Workers,
           \/ TryLockBucket(w) \/ BucketIsBusy(w) \/ JudgeGroup(w) \/ LeaseIsBusy(w)
           \/ LifecycleEnds(w) \/ LifecycleFails(w)
    PROVE  LifeInv'
<1>a. /\ Shape /\ work \in [Agents -> Work] /\ w \in Agents /\ work[w] \in Work
      /\ account \in Nat /\ account <= account
      /\ work[w].at \in {"lease", "apply"} => work[w].read = None
  <2>1. Shape /\ w \in Agents
    BY AgentsAre DEF LifeInv
  <2>2. work \in [Agents -> Work] /\ work[w] \in Work
    BY <2>1 DEF Shape, TypeOK
  <2>3. account \in Nat
    BY <2>1, Numbers
  <2>4. work[w].at \in {"lease", "apply"} => work[w].read = None
    BY <2>1 DEF LifeInv, Unread
  <2> QED BY <2>1, <2>2, <2>3, <2>4
<1>b. UNCHANGED <<account, epoch, retired, closedAt, shown>>
  BY DEF TryLockBucket, BucketIsBusy, JudgeGroup, LeaseIsBusy, LifecycleEnds,
         LifecycleFails, database, marks
<1>1. CASE TryLockBucket(w)
  <2>1. \A c \in Agents : work'[c] = work[c] \/ Keeps(c)
    BY <1>a, <1>1 DEF TryLockBucket, Keeps, Work
  <2> QED BY <1>a, <1>b, <2>1, SteadyLife
<1>2. CASE BucketIsBusy(w)
  <2>1. \A c \in Agents \ {w} : work'[c] = work[c]
    BY <1>a, <1>2 DEF BucketIsBusy
  <2>2. work'[w] = Rebuilt(w, First(work[w].todo), ~work[w].strict, work[w].written)
    BY <1>a, <1>2 DEF BucketIsBusy
  <2>3. Keeps(w)
    BY <1>a, <2>2, RebuiltKeeps
  <2> QED BY <1>a, <1>b, <2>1, <2>3, SteadyLife
<1>3. CASE JudgeGroup(w)
  <2>1. \A c \in Agents : work'[c] = work[c] \/ Keeps(c)
    BY <1>a, <1>3 DEF JudgeGroup, At, Keeps, Work
  <2> QED BY <1>a, <1>b, <2>1, SteadyLife
<1>4. CASE LeaseIsBusy(w) \/ LifecycleFails(w)
  <2>1. work' = [work EXCEPT ![w] = GivenUp]
    BY <1>4 DEF LeaseIsBusy, LifecycleFails
  <2>2. work'[w] = GivenUp /\ \A c \in Agents \ {w} : work'[c] = work[c]
    BY <1>a, <2>1
  <2>3. Keeps(w)
    BY <2>2 DEF GivenUp, Idle, Keeps
  <2> QED BY <1>a, <1>b, <2>2, <2>3, SteadyLife
<1>5. CASE LifecycleEnds(w)
  <2>1. \A c \in Agents \ {w} : work'[c] = work[c]
    BY <1>a, <1>5 DEF LifecycleEnds
  <2>2. \/ work'[w] = GivenUp \/ work'[w] = [Idle EXCEPT !.at = "task"]
        \/ work'[w] = [work[w] EXCEPT !.at = "task", !.judged = FALSE,
                                      !.strict = TRUE, !.todo = Buckets]
    BY <1>a, <1>5 DEF LifecycleEnds
  <2>3. Keeps(w)
    <3>1. CASE work'[w] = GivenUp
      BY <3>1 DEF GivenUp, Idle, Keeps
    <3>2. CASE work'[w] = [Idle EXCEPT !.at = "task"]
      BY <3>2 DEF Idle, Keeps
    <3>3. CASE work'[w] = [work[w] EXCEPT !.at = "task", !.judged = FALSE,
                                          !.strict = TRUE, !.todo = Buckets]
      BY <1>a, <3>3 DEF Keeps, Work
    <3> QED BY <2>2, <3>1, <3>2, <3>3
  <2> QED BY <1>a, <1>b, <2>1, <2>3, SteadyLife
<1> QED BY <1>1, <1>2, <1>3, <1>4, <1>5

\* A retirement leaves all tokens behind; a reopening shows nothing.
LEMMA ApplyingLife ==
    ASSUME LifeInv, Shape', NEW w \in Workers, ApplyJudgement(w)
    PROVE  LifeInv'
<1> DEFINE b == First(work[w].todo)
<1>a. /\ Shape /\ work \in [Agents -> Work] /\ w \in Agents /\ work[w] \in Work
      /\ work[w].read = None
  BY AgentsAre DEF LifeInv, Shape, TypeOK, Unread, ApplyJudgement, At
<1>1. b \in Buckets
  BY <1>a, FirstIsIn DEF ApplyJudgement, Work
<1>2. /\ UNCHANGED account
      /\ work' = [work EXCEPT ![w].todo = @ \ {b},
                    ![w].token[b] = IF work[w].judged THEN AtLeastOne(epoch[b]) ELSE 0]
      /\ IF work[w].judged THEN ReopenBucket(b) ELSE RetireBucket(b)
  BY DEF ApplyJudgement, database
<1> HIDE DEF b
<1>3. /\ \A c \in Agents \ {w} : work'[c] = work[c]
      /\ work'[w].read = None /\ work'[w].at = work[w].at
      /\ \A d \in Buckets \ {b} : work'[w].token[d] = work[w].token[d]
      /\ work'[w].token[b] = IF work[w].judged THEN AtLeastOne(epoch[b]) ELSE 0
  BY <1>a, <1>1, <1>2 DEF Work
<1>4. Unread'
  BY <1>a, <1>3 DEF LifeInv, Unread
<1>5. \A c \in Agents, d \in Buckets :
        /\ work[c].token[d] <= epoch[d] /\ (retired[d] => work[c].token[d] < epoch[d])
        /\ work[c].token[d] \in Nat /\ epoch[d] \in Nat /\ closedAt[d] \in Nat
  BY <1>a, Numbers DEF LifeInv, Fencing
<1>6. CASE work[w].judged
  <2>1. /\ \A d \in Buckets \ {b} : /\ epoch'[d] = epoch[d] /\ retired'[d] = retired[d]
                                    /\ shown'[d] = shown[d]
        /\ epoch'[b] = AtLeastOne(epoch[b]) /\ retired'[b] = FALSE
        /\ shown'[b] \in {shown[b], None} /\ closedAt' = closedAt
    BY <1>1, <1>2, <1>6 DEF ReopenBucket, LifeInv, Shape, TypeOK
  <2>2. Fencing'
    <3>1. ASSUME NEW c \in Agents, NEW d \in Buckets
          PROVE  /\ work'[c].token[d] <= epoch'[d]
                 /\ retired'[d] => work'[c].token[d] < epoch'[d]
      <4>1. CASE d # b
        BY <1>3, <1>5, <2>1, <4>1
      <4>2. CASE d = b
        BY <1>3, <1>5, <1>6, <2>1, <4>2 DEF AtLeastOne
      <4> QED BY <4>1, <4>2
    <3> QED BY <3>1 DEF Fencing
  <2>3. Fresh'
    <3>1. ASSUME NEW c \in Agents, NEW d \in Buckets,
                 work'[c].read # None, work'[c].token[d] = epoch'[d]
          PROVE  work'[c].read >= closedAt'[d]
      <4>1. c # w /\ work'[c] = work[c]
        BY <1>3, <3>1
      <4>2. work[c].token[d] = epoch[d]
        BY <1>5, <2>1, <3>1, <4>1 DEF AtLeastOne
      <4> QED BY <2>1, <3>1, <4>1, <4>2 DEF LifeInv, Fresh
    <3> QED BY <3>1 DEF Fresh
  <2>4. Past' /\ RetiredIsEmpty' /\ SnapshotIsOfThisLife'
    BY <1>2, <2>1 DEF LifeInv, Past, RetiredIsEmpty, SnapshotIsOfThisLife
  <2> QED BY <1>4, <2>2, <2>3, <2>4 DEF LifeInv
<1>7. CASE ~work[w].judged
  <2>1. /\ \A d \in Buckets \ {b} :
             /\ epoch'[d] = epoch[d] /\ retired'[d] = retired[d]
             /\ shown'[d] = shown[d] /\ closedAt'[d] = closedAt[d]
        /\ retired'[b] = TRUE /\ shown'[b] = None
        /\ retired[b] => epoch'[b] = epoch[b] /\ closedAt'[b] = closedAt[b]
        /\ ~retired[b] => epoch'[b] = epoch[b] + 1 /\ closedAt'[b] = account
    BY <1>1, <1>2, <1>7, ZenonT(60) DEF RetireBucket, LifeInv, Shape, TypeOK
  <2>2. \A c \in Agents : /\ work'[c].token[b] < epoch'[b]
                          /\ work'[c].token[b] \in Nat /\ epoch'[b] \in Nat
    BY <1>1, <1>3, <1>5, <1>7, <2>1
  <2>3. Fencing'
    <3>1. ASSUME NEW c \in Agents, NEW d \in Buckets
          PROVE  /\ work'[c].token[d] <= epoch'[d]
                 /\ retired'[d] => work'[c].token[d] < epoch'[d]
      <4>1. CASE d # b
        BY <1>3, <1>5, <2>1, <4>1
      <4>2. CASE d = b
        BY <2>2, <4>2
      <4> QED BY <4>1, <4>2
    <3> QED BY <3>1 DEF Fencing
  <2>4. Fresh'
    <3>1. ASSUME NEW c \in Agents, NEW d \in Buckets,
                 work'[c].read # None, work'[c].token[d] = epoch'[d]
          PROVE  work'[c].read >= closedAt'[d]
      <4>1. c # w /\ work'[c] = work[c] /\ d # b
        BY <1>3, <2>2, <3>1
      <4> QED BY <2>1, <3>1, <4>1 DEF LifeInv, Fresh
    <3> QED BY <3>1 DEF Fresh
  <2>5. Past'
    BY <1>a, <1>2, <2>1, Numbers DEF LifeInv, Past
  <2>6. RetiredIsEmpty' /\ SnapshotIsOfThisLife'
    BY <2>1 DEF LifeInv, RetiredIsEmpty, SnapshotIsOfThisLife
  <2> QED BY <1>4, <2>3, <2>4, <2>5, <2>6 DEF LifeInv
<1> QED BY <1>6, <1>7

LEMMA CaptureTokensLife ==
    ASSUME LifeInv, Shape', NEW w \in Workers, NEW B \in SUBSET Buckets,
           CaptureTokens(w, B), \A b \in B : ~retired[b], work[w].read = None,
           UNCHANGED <<retired, closedAt, shown, account>>
    PROVE  LifeInv'
<1>1. w \in Agents /\ work \in [Agents -> Work] /\ work[w] \in Work
  BY AgentsAre DEF LifeInv, Shape, TypeOK
<1>2. /\ work'[w].token = [b \in Buckets |-> IF b \in B THEN AtLeastOne(epoch[b]) ELSE 0]
      /\ work'[w].read = work[w].read
      /\ \A c \in Agents \ {w} : work'[c] = work[c]
  BY <1>1 DEF CaptureTokens, Work
<1>3. /\ \A b \in B : work'[w].token[b] = AtLeastOne(epoch[b])
      /\ \A b \in Buckets \ B : work'[w].token[b] \in {work[w].token[b], 0}
  BY <1>2
<1>4. epoch' = [b \in Buckets |-> IF b \in B THEN AtLeastOne(epoch[b]) ELSE epoch[b]]
  BY DEF CaptureTokens
<1> QED BY <1>1, <1>2, <1>3, <1>4, CapturedLife

LEMMA PollerLife ==
    ASSUME LifeInv, Shape',
           \/ PollOutbox \/ HandleAccountEvent \/ HandleGroupEvent \/ EventEnds
           \/ BatchEnds \/ PollFails
    PROVE  LifeInv'
<1>a. /\ Shape /\ work \in [Agents -> Work] /\ Poller \in Agents /\ Poller \in Workers
      /\ work[Poller] \in Work
  BY AgentsAre DEF LifeInv, Shape, TypeOK, Workers
<1>b. account \in Nat /\ account <= account
  BY <1>a, Numbers
<1>c. work[Poller].at \in {"idle", "event"} => work[Poller].read = None
  BY <1>a DEF LifeInv, Unread
<1>1. CASE HandleAccountEvent
  <2> DEFINE B == {b \in Buckets : "platform" \notin seen /\ ~retired[b]}
  <2>1. B \in SUBSET Buckets /\ CaptureTokens(Poller, B) /\ \A b \in B : ~retired[b]
    BY <1>1 DEF HandleAccountEvent
  <2> HIDE DEF B
  <2>2. work[Poller].read = None /\ UNCHANGED <<retired, closedAt, shown, account>>
    BY <1>1, <1>c DEF HandleAccountEvent, At, database
  <2> QED BY <1>a, <2>1, <2>2, CaptureTokensLife
<1>2. CASE PollOutbox \/ HandleGroupEvent
  <2>1. UNCHANGED <<account, epoch, retired, closedAt, shown>>
    BY <1>2 DEF PollOutbox, HandleGroupEvent, database, marks
  <2>2. /\ \A c \in Agents \ {Poller} : work'[c] = work[c]
        /\ work'[Poller].token = work[Poller].token
        /\ work'[Poller].read = work[Poller].read /\ work[Poller].read = None
    BY <1>2, <1>a, <1>c DEF PollOutbox, HandleGroupEvent, Go, At, Work
  <2>3. Keeps(Poller)
    BY <2>2 DEF Keeps
  <2> QED BY <1>b, <2>1, <2>2, <2>3, SteadyLife
<1>3. CASE EventEnds \/ BatchEnds \/ PollFails
  <2>1. UNCHANGED <<account, epoch, retired, closedAt, shown>>
    BY <1>3 DEF EventEnds, BatchEnds, PollFails, database, marks
  <2>2. \/ work' = [work EXCEPT ![Poller] = Idle]
        \/ work' = [work EXCEPT ![Poller] = [Idle EXCEPT !.at = "event"]]
    BY <1>3 DEF EventEnds, BatchEnds, PollFails, Rest
  <2>3. /\ \A c \in Agents \ {Poller} : work'[c] = work[c]
        /\ work'[Poller] = Idle \/ work'[Poller] = [Idle EXCEPT !.at = "event"]
    BY <1>a, <2>2
  <2>4. Keeps(Poller)
    BY <2>3 DEF Keeps, Idle
  <2> QED BY <1>b, <2>1, <2>3, <2>4, SteadyLife
<1> QED BY <1>1, <1>2, <1>3

LEMMA FullRebuildLife ==
    ASSUME LifeInv, Shape', StartRebuild \/ RebuildEnds \/ RebuildFails
    PROVE  LifeInv'
<1>a. /\ Shape /\ work \in [Agents -> Work] /\ Rebuilder \in Agents /\ Rebuilder \in Workers
      /\ work[Rebuilder] \in Work
  BY AgentsAre DEF LifeInv, Shape, TypeOK, Workers
<1>b. account \in Nat /\ account <= account
  BY <1>a, Numbers
<1>1. CASE StartRebuild
  <2>1. work[Rebuilder].read = None /\ UNCHANGED <<retired, closedAt, shown, account>>
    BY <1>1, <1>a DEF StartRebuild, At, LifeInv, Unread, database
  <2>2. CASE (\A b \in Buckets : ~retired[b]) /\ CaptureTokens(Rebuilder, Buckets)
    BY <1>a, <2>1, <2>2, CaptureTokensLife
  <2>3. CASE (Go(Rebuilder, "lease") \/ Go(Rebuilder, "task")) /\ UNCHANGED epoch
    <3>1. /\ \A c \in Agents \ {Rebuilder} : work'[c] = work[c]
          /\ work'[Rebuilder].token = work[Rebuilder].token
          /\ work'[Rebuilder].read = work[Rebuilder].read
      BY <1>a, <2>3 DEF Go, Work
    <3>2. Keeps(Rebuilder)
      BY <2>1, <3>1 DEF Keeps
    <3> QED BY <1>b, <2>1, <2>3, <3>1, <3>2, SteadyLife
  <2> QED BY <1>1, <2>2, <2>3 DEF StartRebuild
<1>2. CASE RebuildEnds
  <2>1. UNCHANGED <<account, epoch, retired, closedAt, shown>>
    BY <1>2 DEF RebuildEnds, database, marks
  <2>2. /\ \A c \in Agents \ {Rebuilder} : work'[c] = work[c]
        /\ work'[Rebuilder] = Idle
    BY <1>a, <1>2 DEF RebuildEnds, Rest
  <2>3. Keeps(Rebuilder)
    BY <2>2 DEF Keeps, Idle
  <2> QED BY <1>b, <2>1, <2>2, <2>3, SteadyLife
<1>3. CASE RebuildFails
  <2>1. UNCHANGED <<account, epoch, retired, closedAt, shown, work>>
    BY <1>3 DEF RebuildFails, database, marks
  <2> QED BY <1>b, <2>1, SteadyLife
<1> QED BY <1>1, <1>2, <1>3

LEMMA WorldLife ==
    ASSUME LifeInv, Shape',
           \/ ChangeAccount \/ ChangeGroup \/ LeaseLapses
           \/ \E b \in Buckets : LockLapses(b)
           \/ \E r \in Readers, b \in Buckets : ReaderMisses(r, b)
           \/ \E kept \in Restarts : Crash(kept)
    PROVE  LifeInv'
<1>a. Shape /\ work \in [Agents -> Work]
  BY DEF LifeInv, Shape, TypeOK
<1>b. account \in Nat /\ account <= account /\ account <= account + 1
  BY <1>a, Numbers
<1>1. CASE ChangeAccount \/ ChangeGroup \/ LeaseLapses \/ \E b \in Buckets : LockLapses(b)
  <2>1. UNCHANGED <<epoch, retired, closedAt, shown, work>>
    BY <1>1 DEF ChangeAccount, ChangeGroup, LeaseLapses, LockLapses, marks
  <2>2. account' = account \/ account' = account + 1
    BY <1>1 DEF ChangeAccount, ChangeGroup, LeaseLapses, LockLapses, database
  <2> QED BY <1>b, <2>1, <2>2, SteadyLife
<1>2. ASSUME NEW r \in Readers, NEW b \in Buckets, ReaderMisses(r, b)
      PROVE  LifeInv'
  <2>1. /\ r \in Agents /\ work[r] \in Work /\ work[r].read = None /\ ~retired[b]
        /\ UNCHANGED <<retired, closedAt, shown, account>>
    BY <1>a, <1>2, AgentsAre DEF ReaderMisses, At, LifeInv, Unread, database
  <2>2. /\ \A c \in Agents \ {r} : work'[c] = work[c]
        /\ work'[r].read = None
        /\ work'[r].token = [work[r].token EXCEPT ![b] = AtLeastOne(epoch[b])]
    BY <1>a, <1>2, <2>1 DEF ReaderMisses, Work
  <2>3. work[r].token \in [Buckets -> Nat]
    BY <2>1 DEF Work
  <2>4. /\ \A c \in {b} : work'[r].token[c] = AtLeastOne(epoch[c])
        /\ \A c \in Buckets \ {b} : work'[r].token[c] \in {work[r].token[c], 0}
    BY <2>2, <2>3
  <2>5. epoch' = [epoch EXCEPT ![b] = AtLeastOne(epoch[b])] /\ epoch \in [Buckets -> Nat]
    BY <1>a, <1>2 DEF ReaderMisses, Shape, TypeOK
  <2>6. epoch' = [c \in Buckets |-> IF c \in {b} THEN AtLeastOne(epoch[c]) ELSE epoch[c]]
    BY <2>5
  <2>7. {b} \in SUBSET Buckets /\ \A c \in {b} : ~retired[c]
    BY <2>1
  <2> QED BY <2>1, <2>2, <2>4, <2>6, <2>7, CapturedLife
<1>3. ASSUME NEW kept \in Restarts, Crash(kept)
      PROVE  LifeInv'
  <2>1. UNCHANGED <<account, closedAt>> /\ \A c \in Agents : work'[c] = Idle
    BY <1>3 DEF Crash, database
  <2>2. CASE kept
    <3>1. UNCHANGED <<epoch, retired, shown>>
      BY <1>3, <2>2 DEF Crash
    <3>2. \A c \in Agents : Keeps(c)
      BY <2>1 DEF Keeps, Idle
    <3> QED BY <1>b, <2>1, <3>1, <3>2, SteadyLife
  <2>3. CASE ~kept
    <3>1. \A b \in Buckets : epoch'[b] = 0 /\ retired'[b] = FALSE /\ shown'[b] = None
      BY <1>3, <2>3 DEF Crash
    <3>2. Fencing' /\ Fresh' /\ Unread'
      BY <2>1, <3>1 DEF Fencing, Fresh, Unread, Idle
    <3>3. Past' /\ RetiredIsEmpty' /\ SnapshotIsOfThisLife'
      BY <2>1, <3>1 DEF LifeInv, Past, RetiredIsEmpty, SnapshotIsOfThisLife
    <3> QED BY <3>2, <3>3 DEF LifeInv
  <2> QED BY <2>2, <2>3
<1> QED BY <1>1, <1>2, <1>3

LEMMA LifeInit == ASSUME Init PROVE LifeInv
<1>1. Shape
  BY ShapeInit
<1>2. /\ \A a \in Agents : work[a] = Idle
      /\ \A b \in Buckets : epoch[b] = 0 /\ retired[b] = FALSE /\ shown[b] = None
                            /\ closedAt[b] = 0
      /\ account = 0
  BY DEF Init
<1>3. Fencing /\ Fresh /\ Unread /\ Past
  BY <1>2 DEF Fencing, Fresh, Unread, Past, Idle
<1>4. RetiredIsEmpty /\ SnapshotIsOfThisLife
  BY <1>2 DEF RetiredIsEmpty, SnapshotIsOfThisLife
<1> QED BY <1>1, <1>3, <1>4 DEF LifeInv

LEMMA LifeNext == ASSUME LifeInv, [Next]_vars PROVE LifeInv'
<1>a. Shape'
  BY ShapeNext DEF LifeInv
<1>1. CASE Next
  <2>1. \A r \in Readers : Publishing(r) => LifeInv'
    BY <1>a, PublishingLife, AgentsAre
  <2>2. \A c \in Agents : PublishFails(c) => LifeInv'
    BY <1>a, PublishingLife
  <2>3. \A w \in Workers : Rebuilding(w) => LifeInv'
    BY <1>a, PublishingLife, JudgingLife, ApplyingLife, AgentsAre DEF Rebuilding
  <2>4. Polling => LifeInv'
    BY <1>a, <2>3, PollerLife DEF Polling, Workers
  <2>5. FullRebuilding => LifeInv'
    BY <1>a, <2>3, FullRebuildLife DEF FullRebuilding, Workers
  <2>6. Fails => LifeInv'
    BY <1>a, <2>2, JudgingLife, PollerLife, FullRebuildLife DEF Fails
  <2> QED BY <1>a, <1>1, <2>1, <2>4, <2>5, <2>6, WorldLife DEF Next
<1>2. CASE UNCHANGED vars
  <2>1. UNCHANGED <<account, epoch, retired, closedAt, shown, work>>
    BY <1>2 DEF vars
  <2>2. account \in Nat /\ account <= account
    BY Numbers DEF LifeInv
  <2> QED BY <1>a, <2>1, <2>2, SteadyLife
<1> QED BY <1>1, <1>2

(***************************************************************************)
(* A retired bucket shows nothing, whoever was publishing when it was      *)
(* retired (RetireBucket, activateSnapshotVersion).                        *)
(***************************************************************************)
THEOREM RetiredStaysEmpty == Spec => []RetiredIsEmpty
<1>1. LifeInv => RetiredIsEmpty
  BY DEF LifeInv
<1> QED BY <1>1, LifeInit, LifeNext, PTL DEF Spec

(***************************************************************************)
(* No snapshot shows what was read before its bucket was last retired,     *)
(* through any number of lives (CaptureBucketWriteToken and the scripts    *)
(* that look at the token).                                                *)
(***************************************************************************)
THEOREM NothingOfEarlierLives == Spec => []SnapshotIsOfThisLife
<1>1. LifeInv => SnapshotIsOfThisLife
  BY DEF LifeInv
<1> QED BY <1>1, LifeInit, LifeNext, PTL DEF Spec

-----------------------------------------------------------------------------
(* A judgement stays.                                                      *)

\* Who applies a judgement has the lease, and has left only retired buckets
\* behind when the group was closed.
Applying ==
    \A w \in Workers : At(w, "apply") =>
      /\ lease = w
      /\ ~work[w].judged => \A b \in Buckets \ work[w].todo : retired[b]

\* Nobody is about to reopen what was confirmed.
Confirmed ==
    confirmed => /\ ~open
                 /\ \A b \in Buckets : retired[b]
                 /\ \A w \in Workers : At(w, "apply") => ~work[w].judged

ClosedInv == Shape /\ Applying /\ Confirmed

\* A step beside the lifecycle: it retires and reopens nothing, nobody begins
\* to apply, and who applies keeps lease and judgement.
LEMMA Beside ==
    ASSUME ClosedInv, Shape', UNCHANGED retired,
           confirmed' => confirmed /\ open' = open,
           \A w \in Workers : At(w, "apply")' => work'[w] = work[w] /\ lease' = lease
    PROVE  ClosedInv'
<1>1. Applying'
  BY DEF ClosedInv, Applying, At
<1>2. Confirmed'
  BY DEF ClosedInv, Confirmed, At
<1> QED BY <1>1, <1>2 DEF ClosedInv

LEMMA PublishingBeside ==
    ASSUME ClosedInv, Shape', NEW a \in Agents, Publishing(a) \/ PublishFails(a)
    PROVE  ClosedInv'
<1>a. Shape /\ work \in [Agents -> Work] /\ Workers \subseteq Agents
  BY AgentsAre DEF ClosedInv, Shape, TypeOK
<1>1. UNCHANGED <<retired, confirmed, open, lease>>
  BY DEF Publishing, PublishFails, Load, IsFenced, AllocateAndWrite,
         activateSnapshotVersion, database, marks
<1>2. \A c \in Agents : work'[c] = work[c] \/ work'[c].at # "apply"
  <2>1. CASE Load(a)
    BY <1>a, <2>1 DEF Load, Work
  <2>2. CASE AllocateAndWrite(a)
    BY <1>a, <2>2 DEF AllocateAndWrite, Go, Work
  <2>3. ASSUME NEW ok, NEW written, NEW older, Leaves(a, ok, written, older)
        PROVE  \A c \in Agents : work'[c] = work[c] \/ work'[c].at # "apply"
    <3> DEFINE done == IF a \in Readers THEN Idle
                       ELSE Rebuilt(a, work[a].bucket, ok, written)
    <3>1. work' = [work EXCEPT ![a] = done]
      BY <2>3 DEF Leaves, Rest
    <3>2. done.at # "apply"
      BY <1>a DEF Rebuilt, Idle, Work
    <3> HIDE DEF done
    <3> QED BY <1>a, <3>1, <3>2
  <2>4. CASE IsFenced(a) \/ activateSnapshotVersion(a) \/ PublishFails(a)
    BY <2>3, <2>4 DEF IsFenced, activateSnapshotVersion, PublishFails
  <2> QED BY <2>1, <2>2, <2>4 DEF Publishing
<1> QED BY <1>a, <1>1, <1>2, Beside DEF At

LEMMA WorkersBeside ==
    ASSUME ClosedInv, Shape', NEW w \in Workers,
           TryLockBucket(w) \/ BucketIsBusy(w) \/ LeaseIsBusy(w) \/ LifecycleFails(w)
    PROVE  ClosedInv'
<1>a. /\ Shape /\ work \in [Agents -> Work] /\ Workers \subseteq Agents
      /\ w \in Agents /\ work[w] \in Work
  BY AgentsAre DEF ClosedInv, Shape, TypeOK
<1>1. UNCHANGED <<retired, confirmed, open>>
  BY DEF TryLockBucket, BucketIsBusy, LeaseIsBusy, LifecycleFails, database, marks
<1>2. \A c \in Agents \ {w} : work'[c] = work[c]
  BY <1>a DEF TryLockBucket, BucketIsBusy, LeaseIsBusy, LifecycleFails
<1>3. work'[w].at # "apply"
  <2>1. CASE TryLockBucket(w)
    BY <1>a, <2>1 DEF TryLockBucket, Work
  <2>2. CASE BucketIsBusy(w)
    <3> DEFINE r == Rebuilt(w, First(work[w].todo), ~work[w].strict, work[w].written)
    <3>1. work' = [work EXCEPT ![w] = r]
      BY <2>2 DEF BucketIsBusy
    <3>2. r.at # "apply"
      BY <1>a DEF Rebuilt, Idle, Work
    <3> HIDE DEF r
    <3> QED BY <1>a, <3>1, <3>2
  <2>3. CASE LeaseIsBusy(w) \/ LifecycleFails(w)
    BY <1>a, <2>3 DEF LeaseIsBusy, LifecycleFails, GivenUp, Idle
  <2> QED BY <2>1, <2>2, <2>3
<1>4. lease' = lease \/ lease = w
  BY DEF TryLockBucket, BucketIsBusy, LeaseIsBusy, LifecycleFails
<1>5. ASSUME NEW v \in Workers, At(v, "apply")'
      PROVE  work'[v] = work[v] /\ lease' = lease
  <2>1. v # w /\ work'[v] = work[v] /\ At(v, "apply")
    BY <1>a, <1>2, <1>3, <1>5 DEF At
  <2>2. lease = v
    BY <2>1 DEF ClosedInv, Applying
  <2> QED BY <1>4, <2>1, <2>2
<1> QED BY <1>1, <1>5, Beside

\* The lease is free, so nobody else applies.
LEMMA JudgingClosed ==
    ASSUME ClosedInv, Shape', NEW w \in Workers, JudgeGroup(w)
    PROVE  ClosedInv'
<1>a. work \in [Agents -> Work] /\ w \in Agents /\ Workers \subseteq Agents
  BY AgentsAre DEF ClosedInv, Shape, TypeOK
<1>1. /\ UNCHANGED <<retired, confirmed, open>> /\ lease' = w
      /\ work'[w].judged = open /\ work'[w].todo = Buckets
      /\ \A v \in Workers \ {w} : work'[v] = work[v]
  BY <1>a DEF JudgeGroup, database, marks, Work
<1>2. \A v \in Workers : ~At(v, "apply")
  BY NoneIsNone DEF JudgeGroup, ClosedInv, Applying
<1>3. Applying'
  BY <1>1, <1>2 DEF Applying, At
<1>4. Confirmed'
  BY <1>1, <1>2 DEF ClosedInv, Confirmed, At
<1> QED BY <1>3, <1>4 DEF ClosedInv

LEMMA ApplyingClosed ==
    ASSUME ClosedInv, Shape', NEW w \in Workers, ApplyJudgement(w)
    PROVE  ClosedInv'
<1> DEFINE b == First(work[w].todo)
<1>a. /\ Shape /\ work \in [Agents -> Work] /\ Workers \subseteq Agents
      /\ w \in Agents /\ work[w] \in Work /\ retired \in [Buckets -> BOOLEAN]
  BY AgentsAre DEF ClosedInv, Shape, TypeOK
<1>1. b \in work[w].todo /\ b \in Buckets
  BY <1>a, FirstIsIn DEF ApplyJudgement, Work
<1>2. /\ work' = [work EXCEPT ![w].todo = @ \ {b},
                    ![w].token[b] = IF work[w].judged THEN AtLeastOne(epoch[b]) ELSE 0]
      /\ retired' = [retired EXCEPT ![b] = ~work[w].judged]
      /\ UNCHANGED <<confirmed, open, lease>> /\ At(w, "apply")
  <2>1. retired' = [retired EXCEPT ![b] = ~work[w].judged]
    <3>1. CASE work[w].judged
      BY <3>1 DEF ApplyJudgement, ReopenBucket
    <3>2. CASE ~work[w].judged
      BY <3>2 DEF ApplyJudgement, RetireBucket
    <3> QED BY <3>1, <3>2
  <2> QED BY <2>1 DEF ApplyJudgement, database
<1> HIDE DEF b
<1>3. /\ \A v \in Workers \ {w} : work'[v] = work[v]
      /\ work'[w].todo = work[w].todo \ {b} /\ work'[w].judged = work[w].judged
      /\ work'[w].at = "apply"
  BY <1>a, <1>2 DEF Work, At
<1>4. /\ \A v \in Workers \ {w} : ~At(v, "apply")
      /\ lease = w
  BY <1>2 DEF ClosedInv, Applying
<1>5. \A c \in Buckets : retired'[c] = IF c = b THEN ~work[w].judged ELSE retired[c]
  BY <1>a, <1>2
<1>6. Applying'
  <2>1. ~work[w].judged => \A c \in Buckets \ work'[w].todo : retired'[c]
    BY <1>2, <1>3, <1>5 DEF ClosedInv, Applying
  <2> QED BY <1>2, <1>3, <1>4, <2>1 DEF Applying, At
<1>7. Confirmed'
  <2>1. ASSUME confirmed PROVE ~open /\ (\A c \in Buckets : retired[c]) /\ ~work[w].judged
    BY <1>2, <2>1 DEF ClosedInv, Confirmed
  <2> QED BY <1>2, <1>3, <1>4, <1>5, <2>1 DEF Confirmed, At
<1> QED BY <1>6, <1>7 DEF ClosedInv

LEMMA EndingClosed ==
    ASSUME ClosedInv, Shape', NEW w \in Workers, LifecycleEnds(w)
    PROVE  ClosedInv'
<1>a. /\ Shape /\ work \in [Agents -> Work] /\ Workers \subseteq Agents
      /\ w \in Agents /\ work[w] \in Work
  BY AgentsAre DEF ClosedInv, Shape, TypeOK
<1>1. /\ UNCHANGED <<retired, open>> /\ At(w, "apply") /\ work[w].todo = {}
      /\ confirmed' = (confirmed \/ (~work[w].judged /\ ~open))
  BY DEF LifecycleEnds, database, marks
<1>2. /\ \A v \in Workers \ {w} : work'[v] = work[v] /\ ~At(v, "apply")
      /\ lease = w
  BY <1>a, <1>1 DEF LifecycleEnds, ClosedInv, Applying
<1>3. work'[w].at # "apply"
  <2>1. \/ work'[w] = [Idle EXCEPT !.at = "task"]
        \/ work'[w] = [work[w] EXCEPT !.at = "task", !.judged = FALSE,
                                      !.strict = TRUE, !.todo = Buckets]
    BY <1>a, <1>2 DEF LifecycleEnds
  <2> QED BY <1>a, <2>1 DEF Idle, Work
<1>4. \A v \in Workers : ~At(v, "apply")'
  BY <1>2, <1>3 DEF At
<1>5. confirmed' => ~open /\ \A b \in Buckets : retired[b]
  BY <1>1 DEF ClosedInv, Confirmed, Applying
<1>6. Applying' /\ Confirmed'
  BY <1>1, <1>4, <1>5 DEF Applying, Confirmed
<1> QED BY <1>6 DEF ClosedInv

LEMMA OthersBeside ==
    ASSUME ClosedInv, Shape',
           \/ PollOutbox \/ HandleAccountEvent \/ HandleGroupEvent \/ EventEnds
           \/ BatchEnds \/ PollFails \/ StartRebuild \/ RebuildEnds \/ RebuildFails
    PROVE  ClosedInv'
<1>a. Shape /\ work \in [Agents -> Work] /\ Workers \subseteq Agents
  BY AgentsAre DEF ClosedInv, Shape, TypeOK
<1>1. UNCHANGED <<retired, confirmed, open, lease>>
  BY DEF PollOutbox, HandleAccountEvent, HandleGroupEvent, EventEnds, BatchEnds,
         PollFails, StartRebuild, RebuildEnds, RebuildFails, database, marks
<1>2. ASSUME NEW w \in Agents,
             \/ \E B \in SUBSET Buckets : CaptureTokens(w, B)
             \/ \E p \in {"event", "task", "lease"} : Go(w, p)
             \/ Rest(w) \/ work' = [work EXCEPT ![w] = [Idle EXCEPT !.at = "event"]]
             \/ UNCHANGED work
      PROVE  \A c \in Agents : work'[c] = work[c] \/ work'[c].at # "apply"
  <2>a. work[w] \in Work
    BY <1>a DEF Shape, TypeOK
  <2>1. ASSUME NEW B \in SUBSET Buckets, CaptureTokens(w, B)
        PROVE  work'[w].at = "task" /\ \A c \in Agents \ {w} : work'[c] = work[c]
    BY <1>a, <2>a, <2>1 DEF CaptureTokens, Work
  <2>2. ASSUME NEW p \in {"event", "task", "lease"}, Go(w, p)
        PROVE  work'[w].at # "apply" /\ \A c \in Agents \ {w} : work'[c] = work[c]
    BY <1>a, <2>a, <2>2 DEF Go, Work
  <2>3. CASE Rest(w) \/ work' = [work EXCEPT ![w] = [Idle EXCEPT !.at = "event"]]
    <3>1. \E p \in {Idle, [Idle EXCEPT !.at = "event"]} : work' = [work EXCEPT ![w] = p]
      BY <2>3 DEF Rest
    <3>2. \A p \in {Idle, [Idle EXCEPT !.at = "event"]} : p.at # "apply"
      BY DEF Idle
    <3> QED BY <1>a, <3>1, <3>2
  <2> QED BY <1>2, <2>1, <2>2, <2>3
<1>3. /\ PollOutbox => Go(Poller, "event")
      /\ HandleGroupEvent => \E p \in {"event", "task", "lease"} : Go(Poller, p)
      /\ EventEnds => Rest(Poller)
                      \/ work' = [work EXCEPT ![Poller] = [Idle EXCEPT !.at = "event"]]
      /\ BatchEnds \/ PollFails => Rest(Poller)
      /\ RebuildEnds => Rest(Rebuilder)
      /\ RebuildFails => UNCHANGED work
  BY DEF PollOutbox, HandleGroupEvent, EventEnds, BatchEnds, PollFails, RebuildEnds,
         RebuildFails, Rest
<1>4. HandleAccountEvent => \E B \in SUBSET Buckets : CaptureTokens(Poller, B)
  BY DEF HandleAccountEvent
<1>5. StartRebuild => \/ CaptureTokens(Rebuilder, Buckets)
                     \/ \E p \in {"event", "task", "lease"} : Go(Rebuilder, p)
  BY DEF StartRebuild
<1>6. \A c \in Agents : work'[c] = work[c] \/ work'[c].at # "apply"
  BY <1>2, <1>3, <1>4, <1>5, AgentsAre
<1> QED BY <1>a, <1>1, <1>6, Beside DEF At

LEMMA WorldClosed ==
    ASSUME ClosedInv, Shape',
           \/ ChangeAccount \/ ChangeGroup \/ LeaseLapses
           \/ \E b \in Buckets : LockLapses(b)
           \/ \E r \in Readers, b \in Buckets : ReaderMisses(r, b)
           \/ \E kept \in Restarts : Crash(kept)
    PROVE  ClosedInv'
<1>a. Shape /\ work \in [Agents -> Work] /\ Workers \subseteq Agents
  BY AgentsAre DEF ClosedInv, Shape, TypeOK
<1>1. CASE ChangeAccount \/ ChangeGroup \/ \E b \in Buckets : LockLapses(b)
  <2>1. /\ UNCHANGED <<retired, lease, work>>
        /\ confirmed' => confirmed /\ open' = open
    BY <1>1 DEF ChangeAccount, ChangeGroup, LockLapses, database, marks
  <2> QED BY <2>1, Beside
<1>2. CASE LeaseLapses
  <2>1. UNCHANGED <<retired, confirmed, open, work>> /\ ~At(lease, "apply")
    BY <1>2 DEF LeaseLapses, database, marks
  <2>2. \A w \in Workers : ~At(w, "apply")'
    BY <2>1 DEF ClosedInv, Applying, At
  <2> QED BY <2>1, <2>2, Beside
<1>3. ASSUME NEW r \in Readers, NEW b \in Buckets, ReaderMisses(r, b)
      PROVE  ClosedInv'
  <2>1. UNCHANGED <<retired, confirmed, open, lease>>
    BY <1>3 DEF ReaderMisses, database
  <2>2. \A w \in Workers : work'[w] = work[w]
    BY <1>a, <1>3, AgentsAre DEF ReaderMisses
  <2> QED BY <2>1, <2>2, Beside
<1>4. ASSUME NEW kept \in Restarts, Crash(kept)
      PROVE  ClosedInv'
  <2>1. \A w \in Workers : ~At(w, "apply")'
    BY <1>a, <1>4 DEF Crash, Idle, At
  <2>2. CASE kept
    BY <1>4, <2>1, <2>2, Beside DEF Crash, database
  <2>3. CASE ~kept
    BY <1>4, <2>1, <2>3 DEF Crash, ClosedInv, Applying, Confirmed
  <2> QED BY <2>2, <2>3
<1> QED BY <1>1, <1>2, <1>3, <1>4

LEMMA ClosedNext == ASSUME ClosedInv, [Next]_vars PROVE ClosedInv'
<1>a. Shape'
  BY ShapeNext DEF ClosedInv
<1>1. CASE Next
  <2>1. \A r \in Readers : Publishing(r) => ClosedInv'
    BY <1>a, PublishingBeside, AgentsAre
  <2>2. \A c \in Agents : PublishFails(c) => ClosedInv'
    BY <1>a, PublishingBeside
  <2>3. \A w \in Workers : Rebuilding(w) => ClosedInv'
    BY <1>a, PublishingBeside, WorkersBeside, JudgingClosed, ApplyingClosed,
       EndingClosed, AgentsAre DEF Rebuilding
  <2>4. Polling => ClosedInv'
    BY <1>a, <2>3, OthersBeside DEF Polling, Workers
  <2>5. FullRebuilding => ClosedInv'
    BY <1>a, <2>3, OthersBeside DEF FullRebuilding, Workers
  <2>6. Fails => ClosedInv'
    BY <1>a, <2>2, WorkersBeside, OthersBeside DEF Fails
  <2> QED BY <1>a, <1>1, <2>1, <2>4, <2>5, <2>6, WorldClosed DEF Next
<1>2. CASE UNCHANGED vars
  BY <1>a, <1>2, Beside DEF vars
<1> QED BY <1>1, <1>2

(***************************************************************************)
(* Once a lifecycle has confirmed that the group is closed, its buckets    *)
(* stay retired until the group changes again (prepareGroupLifecycle under *)
(* its lease).                                                             *)
(***************************************************************************)
THEOREM JudgementStays == Spec => []ClosedStaysClosed
<1>1. Init => ClosedInv
  <2>1. ASSUME Init PROVE ClosedInv
    <3>1. \A w \in Workers : ~At(w, "apply")
      BY <2>1, AgentsAre DEF Init, Idle, At
    <3>2. ~confirmed
      BY <2>1 DEF Init
    <3> QED BY <2>1, <3>1, <3>2, ShapeInit DEF ClosedInv, Applying, Confirmed
  <2> QED BY <2>1
<1>2. ClosedInv => ClosedStaysClosed
  BY DEF ClosedInv, Confirmed, ClosedStaysClosed
<1> QED BY <1>1, <1>2, ClosedNext, PTL DEF Spec
=============================================================================
