-------------------------- MODULE SchedulerSnapshots --------------------------
(***************************************************************************)
(* The scheduler's snapshots of one group and the outbox that keeps them   *)
(* up to date (service/scheduler_snapshot_service.go,                      *)
(* repository/scheduler_cache.go and repository/scheduler_outbox_repo.go). *)
(*                                                                         *)
(* The database holds the group and an account of it; every change leaves  *)
(* an event in the outbox, in the same transaction or after it.  The cache *)
(* holds, per bucket (platform and mode) of the group, a snapshot of the   *)
(* schedulable accounts, and one entry per account.  A gateway request     *)
(* that finds no usable snapshot reads the database and publishes what it  *)
(* read; so do the poller of the outbox and the periodic full rebuild.     *)
(*                                                                         *)
(* A publication takes a token (the bucket's epoch) before it reads, and   *)
(* a version after; retiring a bucket advances the epoch, which fences the *)
(* publications that are under way.  Buckets are retired and reopened      *)
(* under a lease of the group, by who judges the group under that lease.   *)
(*                                                                         *)
(* The buckets are those of one platform, which share one query.  What the *)
(* database says of the account is a number, its row's version; whatever   *)
(* it says, the account stays schedulable, so a snapshot is never empty.   *)
(***************************************************************************)
EXTENDS Integers, Sequences

CONSTANTS
    Readers,        \* gateway requests
    Poller,         \* runOutboxWorker
    Rebuilder,      \* runInitialRebuild, runFullRebuildWorker
    Buckets,
    None,
    Restarts,       \* may a restart keep the cache (TRUE), or empty it (FALSE)
    MaxAccountChanges, MaxGroupChanges, MaxFaults,
    MaxTroubles     \* changes and faults together; a lost event is its change's

ASSUME SnapshotsAssumption ==
    /\ {Poller, Rebuilder} \cap Readers = {} /\ Poller # Rebuilder
    /\ None \notin Nat /\ None \notin Buckets \cup {Poller, Rebuilder}
    /\ Restarts \subseteq BOOLEAN
    /\ {MaxAccountChanges, MaxGroupChanges, MaxFaults, MaxTroubles} \subseteq Nat

Workers == {Poller, Rebuilder}
Agents == Readers \cup Workers
Kinds == {"account", "group"}

VARIABLES
    account,    \* the account's row
    open,       \* the group exists and is active
    regrouped,  \* how often that changed
    outbox,     \* the kinds of the events behind the watermark, in id order
    released,   \* how many of them were listed, and so lost their dedup key
    boot,       \* how many of them the first rebuild found at its start
    epoch, retired,
    shown,      \* shown[b]: the row that b's active snapshot was made from
    lock,       \* lock[b]: who rebuilds the bucket
    lease,      \* the group's lifecycle lease
    entry,      \* the account's entry in the cache
    work,       \* work[a]: what agent a is doing
    beats,      \* beats[a]: whose unpublished version a's version is above
    overtaken,  \* whose version is below the active one
    events, seen,   \* the poller's batch
    initial,        \* the process has not done its first full rebuild
    faults,     \* lost answers, lost events, late keys and restarts so far
    closedAt,   \* history: the row's version when the bucket was retired
    confirmed   \* history: a lifecycle retired the buckets of the closed group

database == <<account, open, regrouped>>
feed == <<outbox, released, boot>>
marks == <<epoch, retired, closedAt>>
versions == <<beats, overtaken>>
batch == <<events, seen>>
vars == <<account, open, regrouped, outbox, released, boot, epoch, retired,
          shown, lock, lease, entry, work, beats, overtaken, events, seen,
          initial, faults, closedAt, confirmed>>

Places == {"idle", "lease", "apply", "task", "load", "allocate", "activate",
           "event"}

\* bucket: the one being published; todo: the ones left; token: the epoch
\* taken per bucket; read: what the query returned; written: its accounts are
\* in the cache, ids suffice; judged: the group was found active; strict: a
\* busy lock or a fence is an error; failed: some bucket was not rebuilt
Work == [at : Places, bucket : Buckets \cup {None}, todo : SUBSET Buckets,
         token : [Buckets -> Nat], read : Nat \cup {None},
         written : BOOLEAN, judged : BOOLEAN, strict : BOOLEAN, failed : BOOLEAN]

Idle == [at |-> "idle", bucket |-> None, todo |-> {},
         token |-> [b \in Buckets |-> 0], read |-> None,
         written |-> FALSE, judged |-> FALSE, strict |-> FALSE, failed |-> FALSE]

TypeOK ==
    /\ account \in 0..MaxAccountChanges /\ open \in BOOLEAN
    /\ regrouped \in 0..MaxGroupChanges
    /\ outbox \in Seq(Kinds)
    /\ released \in 0..Len(outbox) /\ boot \in 0..Len(outbox)
    /\ epoch \in [Buckets -> Nat] /\ retired \in [Buckets -> BOOLEAN]
    /\ shown \in [Buckets -> Nat \cup {None}]
    /\ lock \in [Buckets -> Workers \cup {None}] /\ lease \in Workers \cup {None}
    /\ entry \in Nat \cup {None}
    /\ work \in [Agents -> Work]
    /\ beats \in [Agents -> SUBSET Agents] /\ overtaken \subseteq Agents
    /\ events \in Seq(Kinds) /\ seen \subseteq {"platform", "lifecycle"}
    /\ initial \in BOOLEAN
    /\ faults \in 0..MaxFaults
    /\ closedAt \in [Buckets -> Nat] /\ confirmed \in BOOLEAN

Init ==
    /\ account = 0 /\ open \in BOOLEAN /\ regrouped = 0
    /\ outbox = (IF open THEN <<"group">> ELSE <<>>) /\ released = 0 /\ boot = 0
    /\ epoch = [b \in Buckets |-> 0] /\ retired = [b \in Buckets |-> FALSE]
    /\ shown = [b \in Buckets |-> None]
    /\ lock = [b \in Buckets |-> None] /\ lease = None /\ entry = None
    /\ work = [a \in Agents |-> Idle]
    /\ beats = [a \in Agents |-> {}] /\ overtaken = {}
    /\ events = <<>> /\ seen = {} /\ initial = TRUE
    /\ faults = 0 /\ closedAt = [b \in Buckets |-> 0] /\ confirmed = FALSE

At(a, place) == work[a].at = place
Go(a, place) == work' = [work EXCEPT ![a].at = place]
Rest(a) == work' = [work EXCEPT ![a] = Idle]
GivenUp == [Idle EXCEPT !.at = "task", !.failed = TRUE]
MayTrouble == account + regrouped + faults < MaxTroubles
Fault == faults < MaxFaults /\ MayTrouble /\ faults' = faults + 1
First(S) == CHOOSE x \in S : TRUE    \* the code's order, whichever it is
AtLeastOne(n) == IF n = 0 THEN 1 ELSE n

-----------------------------------------------------------------------------
(* The database changes.                                                   *)

\* DELETE of the older event that still has its dedup key, INSERT.
Pending(kind) == {i \in (released + 1)..Len(outbox) : outbox[i] = kind}

enqueueSchedulerOutbox(kind) ==
    IF Pending(kind) = {}
    THEN outbox' = Append(outbox, kind) /\ UNCHANGED <<released, boot>>
    ELSE LET i == First(Pending(kind)) IN
         /\ outbox' = SubSeq(outbox, 1, i - 1) \o SubSeq(outbox, i + 1, Len(outbox))
                      \o <<kind>>
         /\ boot' = IF i <= boot THEN boot - 1 ELSE boot
         /\ UNCHANGED released

\* The event is in the change's transaction, or it is enqueued after the
\* commit; then an error, which is logged, or the end of the process loses it.
Announce(kind) ==
    \/ enqueueSchedulerOutbox(kind) /\ UNCHANGED faults
    \/ Fault /\ UNCHANGED feed

ChangeGroup ==
    /\ regrouped < MaxGroupChanges /\ MayTrouble /\ regrouped' = regrouped + 1
    /\ open' = ~open /\ confirmed' = FALSE
    /\ Announce("group")
    /\ UNCHANGED <<account, marks, shown, lock, lease, entry, work, versions,
                   batch, initial>>

\* Some changes end with syncSchedulerAccountSnapshot, whose errors are
\* logged.  That its write may come late is left to late publications, which
\* write the same entry.
ChangeAccount ==
    /\ account < MaxAccountChanges /\ MayTrouble /\ account' = account + 1
    /\ Announce("account")
    /\ entry' \in {entry, account'}
    /\ UNCHANGED <<open, regrouped, marks, shown, lock, lease, work, versions,
                   batch, initial, confirmed>>

-----------------------------------------------------------------------------
(* Publishing a bucket: ListSchedulableAccounts by a request, and          *)
(* rebuildBucketWithTokenPolicyAndQueryCache by a worker.                  *)

\* an active snapshot and the entry it lists
Hit(b) == shown[b] # None /\ entry # None

\* CaptureBucketWriteToken sets the epoch of a bucket that has none.
ReaderMisses(r, b) ==
    /\ At(r, "idle") /\ ~Hit(b) /\ ~retired[b]
    /\ epoch' = [epoch EXCEPT ![b] = AtLeastOne(@)]
    /\ work' = [work EXCEPT ![r].at = "load", ![r].bucket = b,
                            ![r].token[b] = AtLeastOne(epoch[b])]
    /\ UNCHANGED <<database, feed, retired, closedAt, shown, lock, lease,
                   entry, versions, batch, initial, faults, confirmed>>

TryLockBucket(w) ==
    /\ At(w, "task") /\ work[w].todo # {}
    /\ LET b == First(work[w].todo) IN
       /\ lock[b] = None
       /\ lock' = [lock EXCEPT ![b] = w]
       /\ work' = [work EXCEPT ![w].bucket = b,
                     ![w].at = IF work[w].read = None THEN "load" ELSE "allocate"]
    /\ UNCHANGED <<database, feed, marks, shown, lease, entry, versions,
                   batch, initial, faults, confirmed>>

\* What becomes of a rebuild after bucket b: a failure of the poller's strict
\* rebuild ends it, any other is remembered and the next bucket follows.
Rebuilt(w, b, ok, written) ==
    IF work[w].todo = {b} \/ (w = Poller /\ work[w].strict /\ ~ok)
    THEN [Idle EXCEPT !.at = "task", !.failed = work[w].failed \/ ~ok]
    ELSE [work[w] EXCEPT !.at = "task", !.bucket = None, !.todo = @ \ {b},
                         !.token[b] = 0, !.written = written,
                         !.failed = @ \/ ~ok]

\* A busy bucket is skipped, or fails the strict rebuild.
BucketIsBusy(w) ==
    /\ At(w, "task") /\ work[w].todo # {}
    /\ LET b == First(work[w].todo) IN
       /\ lock[b] # None
       /\ work' = [work EXCEPT ![w] =
                     Rebuilt(w, b, ~work[w].strict, work[w].written)]
    /\ UNCHANGED <<database, feed, marks, shown, lock, lease, entry,
                   versions, batch, initial, faults, confirmed>>

\* loadAccountsFromDB, or loadAccountsForRebuild's one query for all buckets
Load(a) ==
    /\ At(a, "load")
    /\ work' = [work EXCEPT ![a].read = account, ![a].at = "allocate"]
    /\ UNCHANGED <<database, feed, marks, shown, lock, lease, entry,
                   versions, batch, initial, faults, confirmed>>

\* The publication of a's bucket ends, with the versions of those in  older
\* overtaken; UnlockBucket deletes whatever lock there is.
Leaves(a, ok, written, older) ==
    LET b == work[a].bucket IN
    /\ IF a \in Readers
       THEN Rest(a) /\ UNCHANGED lock
       ELSE /\ work' = [work EXCEPT ![a] = Rebuilt(a, b, ok, written)]
            /\ lock' = [lock EXCEPT ![b] = None]
    /\ beats' = [c \in Agents |-> IF c = a THEN {} ELSE beats[c] \ {a}]
    /\ overtaken' = (overtaken \cup older) \ {a}

Fenced(a) ==
    LET b == work[a].bucket IN retired[b] \/ epoch[b] # work[a].token[b]

\* allocate or activate finds the bucket retired or its epoch advanced
IsFenced(a) ==
    /\ work[a].at \in {"allocate", "activate"} /\ Fenced(a)
    /\ Leaves(a, ~work[a].strict, work[a].written, {})
    /\ UNCHANGED <<database, feed, marks, shown, lease, entry, batch,
                   initial, faults, confirmed>>

Versioned(b) == {c \in Agents : work[c].bucket = b /\ At(c, "activate")}

\* allocateSnapshotVersion, and writeAccountIDs unless the query's accounts
\* were written with an earlier bucket
AllocateAndWrite(a) ==
    /\ At(a, "allocate") /\ ~Fenced(a)
    /\ beats' = [beats EXCEPT ![a] = Versioned(work[a].bucket)]
    /\ entry' = IF work[a].written THEN entry ELSE work[a].read
    /\ Go(a, "activate")
    /\ UNCHANGED <<database, feed, marks, shown, lock, lease, overtaken,
                   batch, initial, faults, confirmed>>

\* mutant: the script does not look at epoch and retirement again
ActivateUnfenced(a) ==
    /\ At(a, "activate")
    /\ shown' = IF a \in overtaken THEN shown
                ELSE [shown EXCEPT ![work[a].bucket] = work[a].read]
    /\ Leaves(a, TRUE, TRUE, IF a \in overtaken THEN {} ELSE beats[a])
    /\ UNCHANGED <<database, feed, marks, lease, entry, batch, initial,
                   faults, confirmed>>

activateSnapshotVersion(a) ==
    /\ At(a, "activate") /\ ~Fenced(a)
    /\ shown' = IF a \in overtaken THEN shown
                ELSE [shown EXCEPT ![work[a].bucket] = work[a].read]
    /\ Leaves(a, TRUE, TRUE, IF a \in overtaken THEN {} ELSE beats[a])
    /\ UNCHANGED <<database, feed, marks, lease, entry, batch, initial,
                   faults, confirmed>>

\* an error of the store or the database within a publication
PublishFails(a) ==
    /\ work[a].at \in {"load", "allocate", "activate"} /\ Fault
    /\ Leaves(a, FALSE, work[a].written, {})
    /\ UNCHANGED <<database, feed, marks, shown, lease, entry, batch,
                   initial, confirmed>>

\* prepareBucketWriteTasks, captureFullRebuildCanonicalTasks: the tokens are
\* taken bucket by bucket, which differs from taking them at once only in
\* publications that are fenced later on.
CaptureTokens(w, B) ==
    /\ epoch' = [b \in Buckets |-> IF b \in B THEN AtLeastOne(epoch[b]) ELSE epoch[b]]
    /\ work' = [work EXCEPT ![w].at = "task", ![w].todo = B,
                  ![w].token = [b \in Buckets |->
                                  IF b \in B THEN AtLeastOne(epoch[b]) ELSE 0]]

-----------------------------------------------------------------------------
(* prepareGroupLifecycle                                                   *)

\* mutant: SET instead of SET NX
JudgeUnleased(w) ==
    /\ At(w, "lease") /\ lease' = w
    /\ work' = [work EXCEPT ![w].judged = open, ![w].todo = Buckets, ![w].at = "apply"]
    /\ UNCHANGED <<database, feed, marks, shown, lock, entry, versions,
                   batch, initial, faults, confirmed>>

\* TryAcquireGroupLifecycleLease, then GetByIDLite
JudgeGroup(w) ==
    /\ At(w, "lease") /\ lease = None /\ lease' = w
    /\ work' = [work EXCEPT ![w].judged = open, ![w].todo = Buckets, ![w].at = "apply"]
    /\ UNCHANGED <<database, feed, marks, shown, lock, entry, versions,
                   batch, initial, faults, confirmed>>

\* ErrSchedulerGroupLifecycleLeaseBusy ends the batch, or the full rebuild.
LeaseIsBusy(w) ==
    /\ At(w, "lease") /\ lease # None
    /\ work' = [work EXCEPT ![w] = GivenUp]
    /\ UNCHANGED <<database, feed, marks, shown, lock, lease, entry,
                   versions, batch, initial, faults, confirmed>>

\* mutant: the epoch stays
RetireInEpoch(b) ==
    /\ epoch' = [epoch EXCEPT ![b] = AtLeastOne(@)]
    /\ retired' = [retired EXCEPT ![b] = TRUE]
    /\ closedAt' = IF retired[b] THEN closedAt
                   ELSE [closedAt EXCEPT ![b] = account]
    /\ shown' = [shown EXCEPT ![b] = None]

RetireBucket(b) ==
    /\ epoch' = IF retired[b] THEN epoch ELSE [epoch EXCEPT ![b] = @ + 1]
    /\ retired' = [retired EXCEPT ![b] = TRUE]
    /\ closedAt' = IF retired[b] THEN closedAt
                   ELSE [closedAt EXCEPT ![b] = account]
    /\ shown' = [shown EXCEPT ![b] = None]

ReopenBucket(b) ==
    /\ epoch' = [epoch EXCEPT ![b] = AtLeastOne(@)]
    /\ retired' = [retired EXCEPT ![b] = FALSE]
    /\ shown' = IF retired[b] THEN [shown EXCEPT ![b] = None] ELSE shown
    /\ UNCHANGED closedAt

ApplyJudgement(w) ==
    /\ At(w, "apply") /\ work[w].todo # {}
    /\ LET b == First(work[w].todo) IN
       /\ IF work[w].judged THEN ReopenBucket(b) ELSE RetireBucket(b)
       /\ work' = [work EXCEPT ![w].todo = @ \ {b},
                     ![w].token[b] = IF work[w].judged THEN AtLeastOne(epoch[b]) ELSE 0]
    /\ UNCHANGED <<database, feed, lock, lease, entry, versions, batch,
                   initial, faults, confirmed>>

\* The lease is released, the buckets of an active group are rebuilt.  A lease
\* that was lost meanwhile is an error.
LifecycleEnds(w) ==
    /\ At(w, "apply") /\ work[w].todo = {}
    /\ lease' = IF lease = w THEN None ELSE lease
    /\ work' = [work EXCEPT ![w] =
                  CASE lease # w -> GivenUp
                    [] lease = w /\ @.judged ->
                         [@ EXCEPT !.at = "task", !.judged = FALSE,
                                   !.strict = TRUE, !.todo = Buckets]
                    [] OTHER -> [Idle EXCEPT !.at = "task"]]
    /\ confirmed' = (confirmed \/ (~work[w].judged /\ ~open))
    /\ UNCHANGED <<database, feed, marks, shown, lock, entry, versions,
                   batch, initial, faults>>

\* an error; the deferred release may fail as well
LifecycleFails(w) ==
    /\ work[w].at \in {"lease", "apply"} /\ Fault
    /\ lease' \in IF lease = w THEN {lease, None} ELSE {lease}
    /\ work' = [work EXCEPT ![w] = GivenUp]
    /\ UNCHANGED <<database, feed, marks, shown, lock, entry, versions,
                   batch, initial, confirmed>>

-----------------------------------------------------------------------------
(* The poller                                                              *)

\* ListAfterAndReleaseDedup
PollOutbox ==
    /\ At(Poller, "idle") /\ outbox # <<>>
    /\ released' = Len(outbox) /\ events' = outbox /\ seen' = {}
    /\ Go(Poller, "event")
    /\ UNCHANGED <<database, outbox, boot, marks, shown, lock, lease, entry,
                   versions, initial, faults, confirmed>>

\* handleAccountEvent: GetByID and SetAccount, then the tokens of the account's
\* platform, unless this batch has rebuilt it; retired buckets are left out
HandleAccountEvent ==
    /\ At(Poller, "event") /\ events # <<>> /\ Head(events) = "account"
    /\ entry' = account
    /\ CaptureTokens(Poller, {b \in Buckets : "platform" \notin seen /\ ~retired[b]})
    /\ seen' = seen \cup {"platform"}
    /\ UNCHANGED <<database, feed, retired, closedAt, shown, lock, lease,
                   versions, events, initial, faults, confirmed>>

\* handleGroupEvent: within one batch a group is judged once
HandleGroupEvent ==
    /\ At(Poller, "event") /\ events # <<>> /\ Head(events) = "group"
    /\ Go(Poller, IF "lifecycle" \in seen THEN "task" ELSE "lease")
    /\ UNCHANGED <<database, feed, marks, shown, lock, lease, entry,
                   versions, batch, initial, faults, confirmed>>

EventEnds ==
    /\ At(Poller, "task") /\ work[Poller].todo = {}
    /\ work' = [work EXCEPT ![Poller] = IF work[Poller].failed THEN Idle
                                        ELSE [Idle EXCEPT !.at = "event"]]
    /\ events' = IF work[Poller].failed THEN <<>> ELSE Tail(events)
    /\ seen' = CASE work[Poller].failed     -> {}
                 [] Head(events) = "group"  -> {"platform", "lifecycle"}
                 [] OTHER                   -> seen
    /\ UNCHANGED <<database, feed, marks, shown, lock, lease, entry,
                   versions, initial, faults, confirmed>>

\* SetOutboxWatermark moves past the batch
BatchEnds ==
    /\ At(Poller, "event") /\ events = <<>> /\ Rest(Poller)
    /\ outbox' = SubSeq(outbox, released + 1, Len(outbox))
    /\ released' = 0
    /\ boot' = IF boot > released THEN boot - released ELSE 0
    /\ seen' = {}
    /\ UNCHANGED <<database, marks, shown, lock, lease, entry, versions,
                   events, initial, faults, confirmed>>

\* an error of the database or the store outside a publication; the next
\* poll lists the same events again
PollFails ==
    /\ At(Poller, "event") /\ Fault /\ Rest(Poller)
    /\ events' = <<>> /\ seen' = {}
    /\ UNCHANGED <<database, feed, marks, shown, lock, lease, entry,
                   versions, initial, confirmed>>

-----------------------------------------------------------------------------
(* The full rebuild: at the start of the process, then periodically        *)

Registered == {b \in Buckets : shown[b] # None}

\* mutant: registered buckets of a group that is not active are left alone
StartRebuildOfActive ==
    /\ At(Rebuilder, "idle")
    /\ boot' = IF initial THEN Len(outbox) ELSE boot
    /\ \/ open /\ (\A b \in Buckets : ~retired[b]) /\ CaptureTokens(Rebuilder, Buckets)
       \/ /\ open /\ (\E b \in Buckets : retired[b])
          /\ Go(Rebuilder, "lease") /\ UNCHANGED epoch
       \/ ~open /\ Go(Rebuilder, "task") /\ UNCHANGED epoch
    /\ UNCHANGED <<database, outbox, released, retired, closedAt, shown, lock,
                   lease, entry, versions, batch, initial, faults, confirmed>>

\* MaxID at the first time, ListBuckets (an active snapshot is registered) and
\* listActiveSchedulerGroupIDs.  A retired bucket of an active group, or a
\* registered one of another group, is a reason to judge the group.
StartRebuild ==
    /\ At(Rebuilder, "idle")
    /\ boot' = IF initial THEN Len(outbox) ELSE boot
    /\ \/ open /\ (\A b \in Buckets : ~retired[b]) /\ CaptureTokens(Rebuilder, Buckets)
       \/ /\ IF open THEN \E b \in Buckets : retired[b] ELSE Registered # {}
          /\ Go(Rebuilder, "lease") /\ UNCHANGED epoch
       \/ ~open /\ Registered = {} /\ Go(Rebuilder, "task") /\ UNCHANGED epoch
    /\ UNCHANGED <<database, outbox, released, retired, closedAt, shown, lock,
                   lease, entry, versions, batch, initial, faults, confirmed>>

\* The first rebuild deletes the events of before the start, consumed or not;
\* those of the last 10 s stay.
RebuildEnds ==
    /\ At(Rebuilder, "task") /\ work[Rebuilder].todo = {}
    /\ \E n \in IF initial /\ ~work[Rebuilder].failed THEN 0..boot ELSE {0} :
          /\ outbox' = SubSeq(outbox, n + 1, Len(outbox))
          /\ released' = IF released > n THEN released - n ELSE 0
    /\ boot' = 0 /\ initial' = FALSE
    /\ Rest(Rebuilder)
    /\ UNCHANGED <<database, marks, shown, lock, lease, entry, versions,
                   batch, faults, confirmed>>

\* an error before the tokens are taken
RebuildFails ==
    /\ At(Rebuilder, "idle") /\ Fault /\ initial' = FALSE
    /\ UNCHANGED <<database, feed, marks, shown, lock, lease, entry, work,
                   versions, batch, confirmed>>

-----------------------------------------------------------------------------
(* Keys that expire, and restarts                                          *)

\* 30 s, as long as a rebuild of the bucket may take
LockLapses(b) ==
    /\ lock[b] # None /\ lock' = [lock EXCEPT ![b] = None]
    /\ work[lock[b]].bucket = b => Fault
    /\ work[lock[b]].bucket # b => UNCHANGED faults
    /\ UNCHANGED <<database, feed, marks, shown, lease, entry, work,
                   versions, batch, initial, confirmed>>

\* 60 s, twice the time a lifecycle may take: only a dead one's lapses
LeaseLapses ==
    /\ lease # None /\ ~At(lease, "apply")
    /\ lease' = None
    /\ UNCHANGED <<database, feed, marks, shown, lock, entry, work,
                   versions, batch, initial, faults, confirmed>>

Crash(kept) ==
    /\ Fault
    /\ work' = [a \in Agents |-> Idle]
    /\ beats' = [a \in Agents |-> {}] /\ overtaken' = {}
    /\ initial' = TRUE /\ boot' = 0 /\ events' = <<>> /\ seen' = {}
    /\ IF kept
       THEN UNCHANGED <<epoch, retired, shown, lock, lease, entry, confirmed>>
       ELSE /\ epoch' = [b \in Buckets |-> 0] /\ retired' = [b \in Buckets |-> FALSE]
            /\ shown' = [b \in Buckets |-> None] /\ lock' = [b \in Buckets |-> None]
            /\ lease' = None /\ entry' = None /\ confirmed' = FALSE
    /\ UNCHANGED <<database, outbox, released, closedAt>>

-----------------------------------------------------------------------------
Publishing(a) ==
    \/ Load(a) \/ IsFenced(a) \/ AllocateAndWrite(a) \/ activateSnapshotVersion(a)

Rebuilding(w) ==
    \/ Publishing(w) \/ TryLockBucket(w) \/ BucketIsBusy(w) \/ JudgeGroup(w)
    \/ LeaseIsBusy(w) \/ ApplyJudgement(w) \/ LifecycleEnds(w)

Polling ==
    \/ Rebuilding(Poller) \/ PollOutbox \/ HandleAccountEvent \/ HandleGroupEvent
    \/ EventEnds \/ BatchEnds

FullRebuilding == Rebuilding(Rebuilder) \/ StartRebuild \/ RebuildEnds

Fails ==
    \/ \E a \in Agents : PublishFails(a)
    \/ \E w \in Workers : LifecycleFails(w)
    \/ PollFails \/ RebuildFails

Next ==
    \/ ChangeAccount \/ ChangeGroup
    \/ \E r \in Readers : Publishing(r) \/ \E b \in Buckets : ReaderMisses(r, b)
    \/ Polling \/ FullRebuilding \/ Fails
    \/ \E b \in Buckets : LockLapses(b)
    \/ LeaseLapses
    \/ \E kept \in Restarts : Crash(kept)

Spec == Init /\ [][Next]_vars

\* What has begun goes on, the workers begin again and again, keys expire.
FairSpec ==
    /\ Spec
    /\ WF_vars(Polling) /\ WF_vars(FullRebuilding)
    /\ \A r \in Readers : WF_vars(Publishing(r))
    /\ \A b \in Buckets : WF_vars(LockLapses(b))
    /\ WF_vars(LeaseLapses)

-----------------------------------------------------------------------------
(***************************************************************************)
(* A retired bucket shows nothing: whatever publication was under way when *)
(* it was retired is fenced at its activation.                             *)
(***************************************************************************)
RetiredIsEmpty == \A b \in Buckets : retired[b] => shown[b] = None

(***************************************************************************)
(* A bucket that was reopened never shows what was read before it was      *)
(* retired, however long that publication was on its way.                  *)
(***************************************************************************)
SnapshotIsOfThisLife ==
    \A b \in Buckets : shown[b] # None => shown[b] >= closedAt[b]

(***************************************************************************)
(* Once a lifecycle has found the group closed and retired its buckets,    *)
(* they stay retired while the group is closed: no lifecycle that judged   *)
(* the group earlier reopens them.                                         *)
(***************************************************************************)
ClosedStaysClosed == confirmed => \A b \in Buckets : retired[b]

\* what the cache must come to: nothing of a closed group, and of an open
\* one only what the database says
Settled ==
    /\ ~open => \A b \in Buckets : shown[b] = None
    /\ open => /\ \A b \in Buckets : shown[b] \in {None, account}
               /\ entry \in {None, account}

(***************************************************************************)
(* When the changes end, the snapshots come to agree with the database and *)
(* stay so, whatever was lost, skipped or overtaken on the way: the full   *)
(* rebuild makes up for it.                                                *)
(***************************************************************************)
SnapshotsSettle == <>[]Settled

=============================================================================
