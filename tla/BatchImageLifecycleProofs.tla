---------------------- MODULE BatchImageLifecycleProofs ----------------------
(***************************************************************************)
(* The whole subsystem, for any number of batches, workers, faults,        *)
(* crashes and retries: it is type correct, it implements the queue and    *)
(* the ledger modules it is composed of (so what is proved of those holds  *)
(* of it) and the promise to the user, and its jobs do what the README     *)
(* lists.  The invariants are layers, each proved with the ones before:    *)
(*                                                                         *)
(*   LifecycleInv  types, and that a completed job is paid for.  A worker  *)
(*                 at  mark  has captured its batch with the cost it       *)
(*                 carries (the fingerprint of a capture never changes     *)
(*                 again), a transition never aims at  completed , and a   *)
(*                 job is settling only after its items were counted.      *)
(*   StageInv      how far a job is, seen from its row, its handlers and   *)
(*                 the workers.  From here on the proofs use what a step   *)
(*                 does to one batch (Paths, ControlPath; EveryPath says   *)
(*                 that every step follows them), not the actions.         *)
(*   FreshRow      a row that is old under way has lapsed, or is as the    *)
(*                 INSERT left it.                                         *)
(*   EarlyInv      no cancellation meets Submit.                           *)
(*   KeptInv       a job begun stays queued.                               *)
(*   OneInv        a hold has one outcome, and the pool covers the rest.   *)
(*   OwedInv       a worker acknowledges no job whose refund is open.      *)
(***************************************************************************)
EXTENDS BatchImageLifecycle, BatchImageQueueProofs, BalanceHoldProofs

\* what TransitionBatchImageJobStatus is called with, and what comes after
Targets == {"running", "indexing", "failed", "cancelled", "settling"}
Returns == {"none", "index", "refund", "requeue", "reread"}

PricedRow(b) == Status(b) = "settling" => job[b].cost \in Costs

PaidRow(b) ==
    Status(b) \in {"completed", "output_deleted"} =>
        "capture" \in moved[b] /\ fingerprint[b] = job[b].paid

CaptureMoved(b) == "capture" \in claim[b] => "capture" \in moved[b]

DataInv ==
    /\ QueueInv /\ LedgerInv /\ JobsTypeOK
    /\ \A b \in Batches : PricedRow(b) /\ PaidRow(b) /\ CaptureMoved(b)

TaskInv(w) ==
    /\ task[w] \in Tasks
    /\ wpc[w] = "processing" => task[w].at # "none"
    /\ task[w].at \in {"transit", "record"} => task[w].then # "none"
    /\ wpc[w] # "processing" => task[w] = NoTask
    /\ task[w].then \in Returns
    /\ task[w].to \in Targets \union {None}
    /\ task[w].at = "transit" => task[w].to # None
    /\ task[w].to = "settling" => job[wcur[w]].cost \in Costs
    /\ task[w].at = "capture" => task[w].cost \in Costs
    /\ task[w].at = "mark" =>
          "capture" \in moved[wcur[w]] /\ fingerprint[wcur[w]] = task[w].cost

ControlInv ==
    /\ upstream \in [Batches -> UpstreamStates]
    /\ at \in [Handlers -> [Batches -> Points]]
    /\ faults \in 0..MaxFaults /\ lost \in 0..MaxLost
    /\ lapses \in 0..MaxLapses /\ deaths \in 0..MaxDeaths

LifecycleInv ==
    /\ DataInv /\ ControlInv
    /\ task = [w \in Workers |-> task[w]]
    /\ \A w \in Workers : TaskInv(w)

USE RetriesAssumption, LifecycleAssumption

-----------------------------------------------------------------------------
(***************************************************************************)
(* Which store a step writes: the queue, the ledger, one row of the job    *)
(* table or none of them.                                                  *)
(***************************************************************************)
PlainJobStep(b) ==
    \/ CreateJob(b) \/ RecordSubmitted(b) \/ TouchSubmitting(b)
    \/ FailStale(b) \/ RecordQueueFailure(b) \/ SetSettlementFailed(b)
    \/ MarkOutputDeleted(b) \/ MarkUserDeleted(b)
    \/ \E cost \in Costs : ReplaceItems(b, cost)
    \/ RecordSubmitFailure(b)
    \/ \E to \in Targets \union {"uploading"} :
          Transition(b, to) /\ (to = "settling" => job[b].cost \in Costs)
    \/ job' = [job EXCEPT ![b] = [@ EXCEPT !.old = TRUE]]

MarkStep(b) ==
    \E cost \in Costs \union {None} :
        /\ "capture" \in moved[b] /\ fingerprint[b] = cost
        /\ MarkSettled(b, cost)

StoreStep ==
    \/ QueueNext /\ OnlyQueue
    \/ LedgerNext /\ OnlyLedger
    \/ (\E b \in Batches : PlainJobStep(b) \/ MarkStep(b)) /\ OnlyJob
    \/ UNCHANGED <<queueVars, ledgerVars, job>>

LEMMA NoStore == NoData \/ OnlyUpstream => StoreStep
BY DEF NoData, OnlyUpstream, StoreStep

LEMMA EnqueueStores == \A b \in Batches : Queued(b) => StoreStep
BY DEF Queued, StoreStep, QueueNext

LEMMA RefundStores ==
    \A b \in Batches : Released(b) \/ NotReleased(b) => StoreStep
BY NoStore DEF Released, NotReleased, Failed, StoreStep, LedgerNext

LEMMA TransitStores ==
    \A b \in Batches, to \in (Targets \ {"settling"}) \union {"uploading"} :
        Transits(b, to) \/ TransitFails(b, to) \/ TransitDenied(b, to) => StoreStep
BY NoStore DEF Transits, TransitFails, TransitDenied, Failed, StoreStep, PlainJobStep

LEMMA SubmitStores ==
    ASSUME NEW b \in Batches, SubmitStep(b)
    PROVE  StoreStep
<1>1. CASE SubmitReserve(b)
  BY <1>1 DEF SubmitReserve, StoreStep, LedgerNext
<1>2. CASE SubmitNotReserved(b)
  BY <1>2, NoStore DEF SubmitNotReserved, Failed, StoreStep, LedgerNext
<1>3. CASE SubmitItems(b)
  BY <1>3, NoStore DEF SubmitItems, Failed
<1>4. CASE SubmitUpload(b)
  BY <1>4, TransitStores DEF SubmitUpload
<1>5. CASE SubmitProvider(b) \/ SubmitAbort(b)
  BY <1>5, NoStore DEF SubmitProvider, SubmitAbort, Failed
<1>6. CASE SubmitRecord(b)
  BY <1>6, NoStore DEF SubmitRecord, TransitDenied, Failed, StoreStep, PlainJobStep
<1>7. CASE SubmitEnqueue(b) \/ ResubmitEnqueue(b)
  BY <1>7, EnqueueStores DEF SubmitEnqueue, ResubmitEnqueue, StoreStep, PlainJobStep
<1>8. CASE SubmitRefund(b)
  BY <1>8, RefundStores DEF SubmitRefund
<1>9. CASE SubmitMark(b)
  <2>1. RecordSubmitFailure(b) => PlainJobStep(b)
    BY DEF PlainJobStep
  <2> QED BY <1>9, <2>1, NoStore DEF SubmitMark, Failed, StoreStep
<1>10. CASE SubmitHide(b)
  BY <1>10, NoStore DEF SubmitHide, Failed, StoreStep, PlainJobStep
<1>11. CASE BillingRetry("submit", b, "done")
  BY <1>11, NoStore, EnqueueStores DEF BillingRetry, Failed
<1> QED BY <1>1, <1>2, <1>3, <1>4, <1>5, <1>6, <1>7, <1>8, <1>9, <1>10, <1>11 DEF SubmitStep

LEMMA AgentsStore ==
    ASSUME NEW b \in Batches, CancelStep(b) \/ RecoverStep(b) \/ Client(b)
    PROVE  StoreStep
<1>1. CASE \E h \in Handlers : AgentRefund(h, b) \/ BillingRetry(h, b, "idle")
  BY <1>1, NoStore, EnqueueStores, RefundStores DEF AgentRefund, BillingRetry, Failed
<1>2. CASE CancelProvider(b) \/ CancelEnqueue(b)
  BY <1>2, NoStore, EnqueueStores DEF CancelProvider, CancelEnqueue, Failed
<1>3. CASE CancelTransition(b)
  BY <1>3, TransitStores DEF CancelTransition, Targets
<1>4. CASE RecoverFail(b)
  BY <1>4 DEF RecoverFail, StoreStep, PlainJobStep
<1>5. CASE SubmitCreate(b) \/ SubmitHeartbeat(b) \/ DeleteOutput(b) \/ DeleteRecord(b)
  BY <1>5 DEF SubmitCreate, SubmitHeartbeat, DeleteOutput, DeleteRecord, StoreStep, PlainJobStep
<1>6. CASE Resubmit(b) \/ CancelRead(b)
  BY <1>6, NoStore DEF Resubmit, CancelRead
<1> QED BY <1>1, <1>2, <1>3, <1>4, <1>5, <1>6 DEF CancelStep, RecoverStep, Client, Handlers

-----------------------------------------------------------------------------
LEMMA WorkersBatch ==
    ASSUME LifecycleInv, NEW w \in Workers, wpc[w] = "processing"
    PROVE  wcur[w] \in Batches
BY DEF LifecycleInv, DataInv, QueueInv, QueueTypeOK

LEMMA ProcessStores ==
    ASSUME LifecycleInv, NEW w \in Workers, ProcessStep(w) \/ CallFails(w)
    PROVE  StoreStep
<1>1. wcur[w] \in Batches /\ wpc[w] = "processing" /\ TaskInv(w)
  <2>1. wpc[w] = "processing"
    BY DEF ProcessStep, CallFails, In, Route, ReadJob, Poll, ChangeStatus, Index,
           RefundTerminal, SettleRead, Capture, Mark, Record,
           Exhaust, RecordRelease, Reread
  <2> QED BY <2>1, WorkersBatch DEF LifecycleInv
<1>2. CASE Route(w) \/ ReadJob(w) \/ Poll(w)
  BY <1>2, NoStore DEF Route, ReadJob, Poll, Decide, Transit
<1>3. CASE SettleRead(w) \/ Reread(w) \/ CallFails(w)
  BY <1>3, NoStore DEF SettleRead, Reread, CallFails, Decide, Transit, Failed
<1>4. CASE ChangeStatus(w)
  <2>1. task[w].to \in Targets /\ (task[w].to = "settling" => job[wcur[w]].cost \in Costs)
    BY <1>1, <1>4 DEF ChangeStatus, In, TaskInv
  <2>2. Transition(wcur[w], task[w].to) => PlainJobStep(wcur[w])
    BY <2>1 DEF PlainJobStep
  <2> QED BY <1>1, <1>4, <2>2, NoStore DEF ChangeStatus, Mine, Transits, TransitDenied, StoreStep
<1>5. CASE Index(w)
  BY <1>1, <1>5, NoStore DEF Index, Mine, Decide, Transit, StoreStep, PlainJobStep
<1>6. CASE RefundTerminal(w) \/ Exhaust(w)
  BY <1>1, <1>6, RefundStores DEF RefundTerminal, Exhaust, Mine
<1>7. CASE Capture(w)
  <2>1. task[w].cost \in Costs
    BY <1>1, <1>7 DEF Capture, In, TaskInv
  <2> QED BY <1>1, <1>7, <2>1, NoStore DEF Capture, Mine, Failed, StoreStep, LedgerNext
<1>8. CASE Mark(w)
  <2>1. "capture" \in moved[wcur[w]] /\ fingerprint[wcur[w]] = task[w].cost
    BY <1>1, <1>8 DEF Mark, In, TaskInv
  <2>2. task[w].cost \in Costs \union {None}
    BY <1>1 DEF TaskInv, Tasks
  <2> QED BY <1>1, <1>8, <2>1, <2>2, NoStore DEF Mark, Mine, StoreStep, MarkStep
<1>9. CASE Record(w) \/ RecordRelease(w)
  BY <1>1, <1>9, NoStore DEF Record, RecordRelease, Mine, Failed, StoreStep, PlainJobStep
<1> QED BY <1>2, <1>3, <1>4, <1>5, <1>6, <1>7, <1>8, <1>9 DEF ProcessStep

LEMMA EveryStepStores ==
    ASSUME LifecycleInv, [Next]_vars
    PROVE  StoreStep
<1>1. CASE UNCHANGED vars
  BY <1>1 DEF vars, StoreStep
<1>2. CASE \E b \in Batches : SubmitStep(b) \/ CancelStep(b) \/ RecoverStep(b) \/ Client(b)
  BY <1>2, SubmitStores, AgentsStore
<1>3. CASE \E w \in Workers : ProcessStep(w) \/ CallFails(w)
  BY <1>3, ProcessStores
<1>4. CASE \E w \in Workers : Start(w) \/ Finish(w) \/ CrashTask(w)
  BY <1>4 DEF Start, Finish, CrashTask, StoreStep, QueueNext, WorkerStep, Environment
<1>5. CASE \E b \in Batches : UpstreamFinishes(b)
  BY <1>5, NoStore DEF UpstreamFinishes
<1>6. CASE \E b \in Batches : BecomesOld(b)
  BY <1>6 DEF BecomesOld, StoreStep, PlainJobStep
<1>7. CASE \E h \in Handlers, b \in Batches : CrashHandler(h, b)
  BY <1>7, NoStore DEF CrashHandler
<1>8. CASE QueueOnly
  BY <1>8 DEF QueueOnly, LoopStep, Movers, QueueTimeouts, StoreStep, QueueNext,
              WorkerStep, Environment
<1> QED BY <1>1, <1>2, <1>3, <1>4, <1>5, <1>6, <1>7, <1>8 DEF Next

-----------------------------------------------------------------------------
(***************************************************************************)
(* What a write of one store keeps of the data, and what of it the workers *)
(* may rely on: a counted row stays counted, and a captured batch keeps    *)
(* its amount.                                                             *)
(***************************************************************************)
Stable ==
    \A b \in Batches :
        /\ job[b].cost \in Costs => job'[b].cost \in Costs
        /\ "capture" \in moved[b] =>
              "capture" \in moved'[b] /\ fingerprint'[b] = fingerprint[b]

LEMMA RowWriteKeeps ==
    ASSUME DataInv, NEW b \in Batches, NEW r \in Rows,
           job' = [job EXCEPT ![b] = r],
           r.status = "settling" => r.cost \in Costs,
           job[b].cost \in Costs => r.cost \in Costs,
           r.status \in {"completed", "output_deleted"} =>
               "capture" \in moved[b] /\ fingerprint[b] = r.paid
    PROVE  /\ JobsTypeOK'
           /\ UNCHANGED <<moved, fingerprint, claim>> =>
                Stable /\ \A c \in Batches : PricedRow(c)' /\ PaidRow(c)' /\ CaptureMoved(c)'
BY DEF DataInv, JobsTypeOK, Status, PricedRow, PaidRow, CaptureMoved, Stable

LEMMA JobStepKeeps ==
    ASSUME DataInv, NEW b \in Batches, PlainJobStep(b) \/ MarkStep(b)
    PROVE  /\ JobsTypeOK'
           /\ UNCHANGED <<moved, fingerprint, claim>> =>
                Stable /\ \A c \in Batches : PricedRow(c)' /\ PaidRow(c)' /\ CaptureMoved(c)'
<1> DEFINE Keeps(r) ==
              /\ r \in Rows
              /\ r.status = "settling" => r.cost \in Costs
              /\ job[b].cost \in Costs => r.cost \in Costs
              /\ r.status \in {"completed", "output_deleted"} =>
                    "capture" \in moved[b] /\ fingerprint[b] = r.paid
<1> SUFFICES \E r : Keeps(r) /\ job' = [job EXCEPT ![b] = r]
  BY RowWriteKeeps
<1>1. Keeps(job[b]) /\ job = [job EXCEPT ![b] = job[b]]
  BY DEF DataInv, JobsTypeOK, Status, PricedRow, PaidRow
<1>2. CASE CreateJob(b)
  BY <1>1, <1>2 DEF CreateJob, Status, Rows, Statuses, Terminal
<1>3. CASE RecordSubmitted(b)
  BY <1>1, <1>3 DEF RecordSubmitted, Rows, Statuses, Terminal
<1>4. CASE TouchSubmitting(b) \/ RecordQueueFailure(b) \/ MarkUserDeleted(b)
  BY <1>1, <1>4 DEF TouchSubmitting, RecordQueueFailure, MarkUserDeleted, Rows
<1>5. CASE FailStale(b)
  BY <1>1, <1>5 DEF FailStale, Rows, Statuses, Terminal
<1>6. CASE SetSettlementFailed(b)
  <2>1. RetriesAfter(b) \in 0..MaxRetries
    BY <1>1 DEF RetriesAfter, Rows
  <2>2. Keeps([job[b] EXCEPT !.retries = RetriesAfter(b), !.old = FALSE])
    BY <1>1, <2>1 DEF Rows
  <2> QED BY <1>6, <2>2 DEF SetSettlementFailed
<1>7. CASE MarkOutputDeleted(b)
  BY <1>1, <1>7 DEF MarkOutputDeleted, Status, Rows, Statuses, Terminal
<1>8. CASE \E cost \in Costs : ReplaceItems(b, cost)
  <2>1. PICK cost \in Costs : job' = [job EXCEPT ![b] = [@ EXCEPT !.cost = cost, !.old = FALSE]]
    BY <1>8 DEF ReplaceItems
  <2>2. Keeps([job[b] EXCEPT !.cost = cost, !.old = FALSE])
    <3>1. [job[b] EXCEPT !.cost = cost, !.old = FALSE] \in Rows
      BY <1>1 DEF Rows
    <3> QED BY <1>1, <3>1 DEF Rows
  <2> QED BY <2>1, <2>2
<1>9. CASE \/ RecordSubmitFailure(b)
           \/ \E to \in Targets \union {"uploading"} :
                Transition(b, to) /\ (to = "settling" => job[b].cost \in Costs)
  <2>1. PICK to \in Targets \union {"uploading"} :
            /\ job' = [job EXCEPT ![b] = [@ EXCEPT !.status = to, !.old = FALSE]]
            /\ to = "settling" => job[b].cost \in Costs
    BY <1>9 DEF RecordSubmitFailure, Transition, WriteStatus, Targets
  <2>2. Keeps([job[b] EXCEPT !.status = to, !.old = FALSE])
    BY <1>1, <2>1 DEF Targets, Rows, Statuses, Terminal
  <2> QED BY <2>1, <2>2
<1>10. CASE job' = [job EXCEPT ![b] = [@ EXCEPT !.old = TRUE]]
  BY <1>1, <1>10 DEF Rows
<1>11. CASE MarkStep(b)
  <2>1. PICK cost \in Costs \union {None} :
            /\ "capture" \in moved[b] /\ fingerprint[b] = cost
            /\ job' = [job EXCEPT ![b] = [@ EXCEPT !.status = "completed", !.paid = cost, !.old = FALSE]]
    BY <1>11 DEF MarkStep, MarkSettled
  <2>2. Keeps([job[b] EXCEPT !.status = "completed", !.paid = cost, !.old = FALSE])
    <3>1. [job[b] EXCEPT !.status = "completed", !.paid = cost, !.old = FALSE] \in Rows
      BY <1>1 DEF Rows, Statuses, Terminal
    <3> QED BY <1>1, <2>1, <3>1 DEF Rows
  <2> QED BY <2>1, <2>2
<1> QED BY <1>2, <1>3, <1>4, <1>5, <1>6, <1>7, <1>8, <1>9, <1>10, <1>11 DEF PlainJobStep

LEMMA LedgerStepKeeps ==
    ASSUME DataInv, LedgerNext, UNCHANGED job
    PROVE  Stable /\ \A c \in Batches : PricedRow(c)' /\ PaidRow(c)' /\ CaptureMoved(c)'
<1> USE DEF DataInv, LedgerInv, LedgerTypeOK, ClaimedWhenMoved, Status, PricedRow, PaidRow,
            CaptureMoved, Stable, AlreadyDone, ledgerVars, Claim, Move
<1>1. ASSUME NEW b \in Batches, ReserveHold(b)
      PROVE  Stable /\ \A c \in Batches : PricedRow(c)' /\ PaidRow(c)' /\ CaptureMoved(c)'
  BY <1>1 DEF ReserveHold
<1>2. ASSUME NEW b \in Batches, NEW cost \in Costs, CaptureHold(b, cost)
      PROVE  Stable /\ \A c \in Batches : PricedRow(c)' /\ PaidRow(c)' /\ CaptureMoved(c)'
  BY <1>2 DEF CaptureHold
<1>3. ASSUME NEW b \in Batches, ReleaseHold(b)
      PROVE  Stable /\ \A c \in Batches : PricedRow(c)' /\ PaidRow(c)' /\ CaptureMoved(c)'
  BY <1>3 DEF ReleaseHold
<1> QED BY <1>1, <1>2, <1>3 DEF LedgerNext

LEMMA StoreStepKeeps ==
    ASSUME DataInv, StoreStep
    PROVE  DataInv' /\ Stable
<1>1. QueueInv'
  BY QueueNextInv DEF DataInv, StoreStep, OnlyLedger, OnlyJob
<1>2. LedgerInv'
  BY LedgerStepInv DEF DataInv, StoreStep, OnlyQueue, OnlyJob
<1>3. JobsTypeOK'
  <2>1. CASE UNCHANGED job
    BY <2>1 DEF DataInv, JobsTypeOK
  <2>2. CASE \E b \in Batches : PlainJobStep(b) \/ MarkStep(b)
    BY <2>2, JobStepKeeps
  <2> QED BY <2>1, <2>2 DEF StoreStep, OnlyQueue, OnlyLedger
<1>4. Stable /\ \A b \in Batches : PricedRow(b)' /\ PaidRow(b)' /\ CaptureMoved(b)'
  <2>1. CASE LedgerNext /\ OnlyLedger
    BY <2>1, LedgerStepKeeps DEF OnlyLedger
  <2>2. CASE (\E b \in Batches : PlainJobStep(b) \/ MarkStep(b)) /\ OnlyJob
    BY <2>2, JobStepKeeps DEF OnlyJob, ledgerVars
  <2>3. CASE UNCHANGED <<ledgerVars, job>>
    BY <2>3 DEF DataInv, ledgerVars, Stable, PricedRow, PaidRow, CaptureMoved, Status
  <2> QED BY <2>1, <2>2, <2>3 DEF StoreStep, OnlyQueue
<1> QED BY <1>1, <1>2, <1>3, <1>4 DEF DataInv

-----------------------------------------------------------------------------
(***************************************************************************)
(* The workers.  A step changes the task of one worker; what the tasks of  *)
(* the others rely on is stable.                                           *)
(***************************************************************************)
LEMMA TargetsAreStatuses == Targets \subseteq Statuses /\ None \notin Targets
BY DEF Targets, Statuses, Terminal

LEMMA FreshIsTask ==
    \A point \in TaskPoints :
        /\ Fresh(point) \in Tasks
        /\ Fresh(point).at = point /\ Fresh(point).to = None
        /\ Fresh(point).then = "none" /\ Fresh(point).cost = None
BY DEF Fresh, Tasks, TaskPoints

LEMMA BystanderKeeps ==
    ASSUME LifecycleInv, Stable, NEW v \in Workers,
           task'[v] = task[v],
           (wpc'[v] = "processing") <=> (wpc[v] = "processing"),
           wpc[v] = "processing" => wcur'[v] = wcur[v]
    PROVE  TaskInv(v)'
<1>1. CASE wpc[v] # "processing"
  BY <1>1, FreshIsTask, TargetsAreStatuses
     DEF LifecycleInv, TaskInv, NoTask, TaskPoints, Targets, Returns
<1>2. CASE wpc[v] = "processing"
  BY <1>2, WorkersBatch DEF LifecycleInv, TaskInv, Stable
<1> QED BY <1>1, <1>2

LEMMA IdleKeeps ==
    ASSUME NEW w \in Workers, wpc'[w] # "processing", task'[w] = NoTask
    PROVE  TaskInv(w)'
BY FreshIsTask, TargetsAreStatuses DEF TaskInv, NoTask, TaskPoints, Targets, Returns

\* A control point at which the task carries nothing.
LEMMA FreshKeeps ==
    ASSUME NEW w \in Workers, wpc'[w] = "processing",
           NEW point \in TaskPoints \ {"none", "transit", "record", "capture", "mark"},
           task'[w] = Fresh(point)
    PROVE  TaskInv(w)'
BY FreshIsTask, TargetsAreStatuses DEF TaskInv, Targets, Returns

\* A control point reached with the task kept otherwise.
LEMMA BecomeKeeps ==
    ASSUME LifecycleInv, Stable, NEW w \in Workers,
           UNCHANGED <<wpc, wcur>>, wpc[w] = "processing",
           NEW point \in TaskPoints \ {"none", "capture", "mark", "transit", "record"},
           Become(w, point)
    PROVE  TaskInv(w)'
<1>1. task'[w] = [task[w] EXCEPT !.at = point]
  BY DEF Become, NextTask, LifecycleInv
<1> QED BY <1>1, WorkersBatch DEF LifecycleInv, TaskInv, Tasks, Stable

\* A transition aimed at from a fresh task.
LEMMA AimKeeps ==
    ASSUME NEW w \in Workers, wpc'[w] = "processing",
           NEW to \in Targets, NEW then \in Returns \ {"none"},
           to = "settling" => job'[wcur'[w]].cost \in Costs,
           task'[w] = Aim(to, then)
    PROVE  TaskInv(w)'
<1>1. to \in Statuses /\ then \in TaskPoints /\ to # None
  BY TargetsAreStatuses DEF Returns, TaskPoints
<1>2. Aim(to, then) \in Tasks
  BY <1>1 DEF Aim, Tasks, TaskPoints
<1>3. Aim(to, then).at = "transit" /\ Aim(to, then).to = to /\ Aim(to, then).then = then
  BY DEF Aim
<1> QED BY <1>1, <1>2, <1>3 DEF TaskInv

\* A fresh task which carries a point to go on at, a status that was read or
\* a price.
LEMMA CarryKeeps ==
    ASSUME NEW w \in Workers, wpc'[w] = "processing",
           task'[w] \in Tasks, task'[w].to = None,
           task'[w].then \in Returns,
           task'[w].at \in {"poll", "record", "capture"},
           task'[w].at = "record" => task'[w].then # "none",
           task'[w].at = "capture" => task'[w].cost \in Costs
    PROVE  TaskInv(w)'
BY TargetsAreStatuses DEF TaskInv, Targets, Statuses

LEMMA TransitKeeps ==
    ASSUME LifecycleInv, Stable, NEW w \in Workers,
           UNCHANGED <<wpc, wcur>>, wpc[w] = "processing",
           NEW to \in Targets \ {"settling"}, NEW then \in Returns \ {"none"},
           Transit(w, to, then)
    PROVE  TaskInv(w)'
<1>1. task'[w] = [task[w] EXCEPT !.at = "transit", !.to = to, !.then = then]
  BY DEF Transit, NextTask, LifecycleInv
<1>2. to \in Statuses /\ then \in TaskPoints /\ to # None
  BY TargetsAreStatuses DEF Returns, TaskPoints
<1>3. task[w] \in Tasks
  BY DEF LifecycleInv, TaskInv
<1>4. /\ task'[w] \in Tasks
      /\ task'[w].at = "transit" /\ task'[w].to = to /\ task'[w].then = then
  BY <1>1, <1>2, <1>3 DEF Tasks, TaskPoints
<1> QED BY <1>2, <1>4 DEF TaskInv

\* The step of a worker inside Process keeps its batch and ends in a task
\* of its own.
LEMMA ProcessKeeps ==
    ASSUME LifecycleInv, Stable, NEW w \in Workers, ProcessStep(w) \/ CallFails(w)
    PROVE  /\ TaskInv(w)'
           /\ UNCHANGED <<wpc, wcur>>
           /\ \E t : NextTask(w, t)
<1>1. /\ wpc[w] = "processing"
      /\ UNCHANGED <<wpc, wcur>>
      /\ \E t : NextTask(w, t)
  BY DEF ProcessStep, CallFails, In, Route, ReadJob, Poll, ChangeStatus, Index,
         RefundTerminal, SettleRead, Capture, Mark, Record,
         Exhaust, RecordRelease, Reread, Decide, Transit, Become, Released, NotReleased, Failed,
         Transits, TransitDenied, NoData, OnlyJob, OnlyLedger, queueVars, workerVars
<1>2. wcur[w] \in Batches /\ TaskInv(w) /\ w \in DOMAIN task
  BY <1>1, WorkersBatch DEF LifecycleInv
<1> SUFFICES TaskInv(w)'
  BY <1>1
<1>3. \A t : NextTask(w, t) => task'[w] = t
  BY <1>2 DEF NextTask
<1> DEFINE Plain == TaskPoints \ {"none", "transit", "record", "capture", "mark"}
<1>4. \A point \in Plain : NextTask(w, Fresh(point)) => TaskInv(w)'
  BY <1>1, <1>3, FreshKeeps
<1>5. \A point \in Plain : Become(w, point) => TaskInv(w)'
  BY <1>1, BecomeKeeps
<1>6. CASE Route(w) \/ ReadJob(w) \/ Poll(w)
  <2>1. CASE \E then \in Returns \ {"none"}, to \in Targets \ {"settling"} : Transit(w, to, then)
    BY <1>1, <2>1, TransitKeeps
  <2>2. CASE NextTask(w, [Fresh("poll") EXCEPT !.seen = Row(w).status])
             /\ Row(w).status \in Statuses \union {"absent"}
    <3>1. task'[w] = [Fresh("poll") EXCEPT !.seen = Row(w).status]
      BY <1>3, <2>2
    <3>2. /\ task'[w] \in Tasks /\ task'[w].at = "poll"
          /\ task'[w].to = None /\ task'[w].then = "none"
      BY <2>2, <3>1 DEF Fresh, Tasks, TaskPoints
    <3> QED BY <1>1, <3>2, CarryKeeps DEF Returns
  <2>3. Row(w).status \in Statuses \union {"absent"}
    BY <1>2 DEF LifecycleInv, DataInv, JobsTypeOK, Rows, Row
  <2> QED BY <1>5, <1>6, <2>1, <2>2, <2>3
          DEF Route, ReadJob, Poll, Decide, TaskPoints, Returns, Targets
<1>7. CASE ChangeStatus(w)
  <2>1. task[w].then \in Returns /\ task[w].then # "none"
    BY <1>2, <1>7 DEF ChangeStatus, In, TaskInv
  <2> QED BY <1>4, <1>7, <2>1 DEF ChangeStatus, Returns, TaskPoints
<1>8. CASE Index(w)
  <2>1. CASE /\ \E cost \in Costs : ReplaceItems(wcur[w], cost)
             /\ NextTask(w, Aim("settling", "requeue"))
    <3>1. task'[w] = Aim("settling", "requeue")
      BY <1>3, <2>1
    <3>2. PICK cost \in Costs : ReplaceItems(wcur[w], cost)
      BY <2>1
    <3>3. job'[wcur[w]].cost \in Costs
      BY <1>2, <3>2 DEF ReplaceItems, LifecycleInv, DataInv, JobsTypeOK, Rows
    <3> QED BY <1>1, <3>1, <3>3, AimKeeps DEF Returns, Targets
  <2>2. CASE Decide(w, "requeue")
    BY <1>5, <2>2 DEF Decide, TaskPoints
  <2>3. CASE Transit(w, "failed", "refund")
    BY <1>1, <2>3, TransitKeeps DEF Returns, Targets
  <2> QED BY <1>8, <2>1, <2>2, <2>3 DEF Index, Mine
<1>9. CASE RefundTerminal(w)
  BY <1>5, <1>9 DEF RefundTerminal, TaskPoints
<1>10. CASE SettleRead(w)
  <2>1. CASE NextTask(w, [Fresh("record") EXCEPT !.then = "requeue"])
    <3>1. task'[w] = [Fresh("record") EXCEPT !.then = "requeue"]
      BY <1>3, <2>1
    <3>2. /\ task'[w] \in Tasks /\ task'[w].at = "record"
          /\ task'[w].to = None /\ task'[w].then = "requeue"
      BY <3>1 DEF Fresh, Tasks, TaskPoints
    <3> QED BY <1>1, <3>2, CarryKeeps DEF Returns
  <2>2. CASE /\ Row(w).status = "settling"
             /\ NextTask(w, [Fresh("capture") EXCEPT !.cost = Row(w).cost])
    <3>1. task'[w] = [Fresh("capture") EXCEPT !.cost = Row(w).cost]
      BY <1>3, <2>2
    <3>2. Row(w).cost \in Costs
      BY <1>2, <2>2 DEF LifecycleInv, DataInv, PricedRow, Status, Row
    <3>3. /\ task'[w] \in Tasks /\ task'[w].at = "capture" /\ task'[w].cost \in Costs
          /\ task'[w].to = None /\ task'[w].then = "none"
      BY <3>1, <3>2 DEF Fresh, Tasks, TaskPoints
    <3> QED BY <1>1, <3>3, CarryKeeps DEF Returns
  <2> QED BY <1>5, <1>10, <2>1, <2>2 DEF SettleRead, Decide, TaskPoints
<1>11. CASE Capture(w)
  <2>1. CASE Become(w, "mark") /\ CaptureHold(wcur[w], task[w].cost)
    <3>1. "capture" \in moved'[wcur[w]] /\ fingerprint'[wcur[w]] = task[w].cost
      BY <1>2, <2>1 DEF CaptureHold, AlreadyDone, ledgerVars, Move, LifecycleInv, DataInv,
                        LedgerInv, LedgerTypeOK, CaptureMoved
    <3>2. task'[w] = [task[w] EXCEPT !.at = "mark"]
      BY <1>3, <2>1 DEF Become
    <3> QED BY <1>1, <1>2, <3>1, <3>2 DEF TaskInv, Tasks, TaskPoints, Stable
  <2>2. CASE NextTask(w, [Fresh("record") EXCEPT !.then = "reread"])
    <3>1. task'[w] = [Fresh("record") EXCEPT !.then = "reread"]
      BY <1>3, <2>2
    <3>2. /\ task'[w] \in Tasks /\ task'[w].at = "record"
          /\ task'[w].to = None /\ task'[w].then = "reread"
      BY <3>1 DEF Fresh, Tasks, TaskPoints
    <3> QED BY <1>1, <3>2, CarryKeeps DEF Returns
  <2> QED BY <1>11, <2>1, <2>2 DEF Capture, Mine
<1>12. CASE Mark(w)
  BY <1>4, <1>12 DEF Mark, TaskPoints
<1>13. CASE Record(w)
  <2>1. task[w].then \in Plain
    BY <1>2, <1>13 DEF Record, In, TaskInv, Returns, TaskPoints
  <2> QED BY <1>4, <1>13, <2>1 DEF Record, TaskPoints
<1>14. CASE Exhaust(w)
  <2>1. CASE NextTask(w, Aim("failed", "reread"))
    <3>1. task'[w] = Aim("failed", "reread")
      BY <1>3, <2>1
    <3> QED BY <1>1, <3>1, AimKeeps DEF Returns, Targets
  <2> QED BY <1>4, <1>14, <2>1 DEF Exhaust, TaskPoints
<1>15. CASE RecordRelease(w) \/ Reread(w) \/ CallFails(w)
  BY <1>4, <1>5, <1>15 DEF RecordRelease, Reread, CallFails, Decide, TaskPoints
<1> QED BY <1>6, <1>7, <1>8, <1>9, <1>10, <1>11, <1>12, <1>13, <1>14, <1>15 DEF ProcessStep

-----------------------------------------------------------------------------
(***************************************************************************)
(* The handlers, the provider and the budgets: a step takes one handler to *)
(* one control point, moves one job of the provider, and uses one unit of  *)
(* one budget, at most.                                                    *)
(***************************************************************************)
AtStep ==
    \/ UNCHANGED at
    \/ \E h \in Handlers, b \in Batches, to \in Points : at' = [at EXCEPT ![h][b] = to]

UpstreamStep ==
    \/ UNCHANGED upstream
    \/ \E b \in Batches, s \in UpstreamStates : upstream' = [upstream EXCEPT ![b] = s]

BudgetStep ==
    \/ NoFault \/ Fault \/ Lost
    \/ lapses < MaxLapses /\ lapses' = lapses + 1 /\ UNCHANGED <<faults, lost, deaths>>
    \/ deaths < MaxDeaths /\ deaths' = deaths + 1 /\ UNCHANGED <<faults, lost, lapses>>

ControlStep == AtStep /\ UpstreamStep /\ BudgetStep

LEMMA ControlStepKeeps ==
    ASSUME ControlInv, ControlStep
    PROVE  ControlInv'
<1>1. at' \in [Handlers -> [Batches -> Points]]
  BY DEF ControlInv, ControlStep, AtStep
<1>2. upstream' \in [Batches -> UpstreamStates]
  BY DEF ControlInv, ControlStep, UpstreamStep
<1>3. /\ faults' \in 0..MaxFaults /\ lost' \in 0..MaxLost
      /\ lapses' \in 0..MaxLapses /\ deaths' \in 0..MaxDeaths
  BY DEF ControlInv, ControlStep, BudgetStep, NoFault, Fault, Lost, budgets
<1> QED BY <1>1, <1>2, <1>3 DEF ControlInv

\* Go leaves the workers alone.
LEMMA GoStep ==
    \A h \in Handlers, b \in Batches, from, to \in Points :
        Go(h, b, from, to) => AtStep /\ UNCHANGED task
BY DEF Go, AtStep

LEMMA HandlerControl ==
    ASSUME NEW b \in Batches,
           SubmitStep(b) \/ CancelStep(b) \/ RecoverStep(b) \/ Client(b)
    PROVE  ControlStep /\ UNCHANGED <<task, wpc, wcur>>
<1> USE DEF queueVars, workerVars, Queued, Produce, Failed, Released, NotReleased,
            NoData, OnlyQueue, OnlyLedger, OnlyJob, OnlyUpstream,
            Transits, TransitFails, TransitDenied
<1>1. AtStep /\ UNCHANGED task
  <2> USE GoStep DEF Points, SubmitPoints, AgentPoints, Handlers
  <2>1. CASE SubmitStep(b)
    BY <2>1 DEF SubmitStep, SubmitReserve, SubmitNotReserved, SubmitItems, SubmitUpload,
        SubmitProvider, SubmitRecord, SubmitAbort,
        SubmitEnqueue, SubmitRefund, SubmitMark, SubmitHide, BillingRetry, ResubmitEnqueue
  <2>2. CASE CancelStep(b) \/ RecoverStep(b)
    BY <2>2 DEF CancelStep, RecoverStep, CancelProvider, CancelEnqueue, CancelTransition,
        AgentRefund, BillingRetry, RecoverFail
  <2>3. CASE Client(b)
    BY <2>3 DEF Client, SubmitCreate, SubmitHeartbeat, Resubmit, CancelRead, DeleteOutput,
        DeleteRecord, AtStep
  <2> QED BY <2>1, <2>2, <2>3
<1>2. UpstreamStep /\ BudgetStep /\ UNCHANGED <<wpc, wcur>>
  <2> USE DEF UpstreamStep, BudgetStep
  <2>1. CASE SubmitStep(b)
    BY <2>1 DEF SubmitStep, SubmitReserve, SubmitNotReserved, SubmitItems, SubmitUpload,
        SubmitProvider, SubmitRecord, SubmitAbort,
        SubmitEnqueue, SubmitRefund, SubmitMark, SubmitHide, BillingRetry, ResubmitEnqueue,
        ProviderCancel, UpstreamStates
  <2>2. CASE CancelStep(b) \/ RecoverStep(b)
    BY <2>2 DEF CancelStep, RecoverStep, CancelProvider, CancelEnqueue, CancelTransition,
        AgentRefund, BillingRetry, RecoverFail, ProviderCancel, UpstreamStates
  <2>3. CASE Client(b)
    BY <2>3 DEF Client, SubmitCreate, SubmitHeartbeat, Resubmit, CancelRead, DeleteOutput,
        DeleteRecord
  <2> QED BY <2>1, <2>2, <2>3
<1> QED BY <1>1, <1>2 DEF ControlStep

LEMMA WorkerControl ==
    ASSUME NEW w \in Workers,
           Start(w) \/ ProcessStep(w) \/ CallFails(w) \/ Finish(w) \/ CrashTask(w)
    PROVE  ControlStep
<1> USE DEF ControlStep, AtStep, UpstreamStep, BudgetStep, NextTask, OnlyQueue
<1>1. CASE Start(w) \/ Finish(w) \/ CrashTask(w)
  BY <1>1 DEF Start, Finish, CrashTask
<1>2. CASE ProcessStep(w) \/ CallFails(w)
  BY <1>2 DEF ProcessStep, CallFails, Route, ReadJob, Poll, ChangeStatus, Index,
         RefundTerminal, SettleRead, Capture, Mark, Record,
         Exhaust, RecordRelease, Reread, Decide, Transit, Become, Released, NotReleased, Failed,
         Transits, TransitDenied, NoData, OnlyJob, OnlyLedger
<1> QED BY <1>1, <1>2

LEMMA EveryStepControls ==
    ASSUME [Next]_vars
    PROVE  ControlStep
<1> USE DEF ControlStep, AtStep, UpstreamStep, BudgetStep, NoFault
<1>1. CASE UNCHANGED vars
  BY <1>1 DEF vars
<1>2. CASE \E b \in Batches : UpstreamFinishes(b)
  BY <1>2 DEF UpstreamFinishes, UpstreamStates
<1>3. CASE \E b \in Batches : BecomesOld(b)
  BY <1>3 DEF BecomesOld, OnlyJob, budgets
<1>4. CASE \E h \in Handlers, b \in Batches : CrashHandler(h, b)
  BY <1>4 DEF CrashHandler, NoData, Points, SubmitPoints, AgentPoints
<1>5. CASE QueueOnly
  BY <1>5 DEF QueueOnly, OnlyQueue
<1> HIDE DEF ControlStep
<1> QED BY <1>1, <1>2, <1>3, <1>4, <1>5, HandlerControl, WorkerControl DEF Next

-----------------------------------------------------------------------------
(***************************************************************************)
(* The steps of the workers, and those of everybody else, keep all tasks.  *)
(***************************************************************************)
TasksInv == task = [w \in Workers |-> task[w]] /\ \A w \in Workers : TaskInv(w)

\* No step but those of the worker loop enters or leaves Process.
LEMMA NobodysStep ==
    ASSUME LifecycleInv, Stable, UNCHANGED task,
           \A v \in Workers :
              /\ (wpc'[v] = "processing") <=> (wpc[v] = "processing")
              /\ wpc[v] = "processing" => wcur'[v] = wcur[v]
    PROVE  TasksInv'
BY BystanderKeeps DEF TasksInv, LifecycleInv

LEMMA OneWorkersStep ==
    ASSUME LifecycleInv, Stable, NEW w \in Workers, NEW t, NextTask(w, t), TaskInv(w)',
           \A v \in Workers \ {w} : wpc'[v] = wpc[v] /\ wcur'[v] = wcur[v]
    PROVE  TasksInv'
<1>1. task' = [v \in Workers |-> IF v = w THEN t ELSE task[v]]
  BY DEF NextTask, LifecycleInv
<1>2. \A v \in Workers \ {w} : TaskInv(v)'
  BY <1>1, BystanderKeeps
<1> QED BY <1>1, <1>2 DEF TasksInv

\* Start, Finish and a crash: the worker's control point and batch.
LEMMA LoopKeeps ==
    ASSUME LifecycleInv, Stable, NEW w \in Workers, Start(w) \/ Finish(w) \/ CrashTask(w)
    PROVE  TasksInv'
<1>1. /\ wpc \in [Workers -> WorkerPoints] /\ wcur \in [Workers -> Batches \union {None}]
      /\ task = [v \in Workers |-> task[v]]
  BY DEF LifecycleInv, DataInv, QueueInv, QueueTypeOK
<1>2. \A v \in Workers \ {w} : wpc'[v] = wpc[v] /\ wcur'[v] = wcur[v]
  BY <1>1 DEF Start, Finish, CrashTask, TakeLock, FinishAck, FinishRequeue, CrashWorker,
              RedisFails, SetWorker
<1>3. CASE Start(w)
  <2>1. wpc'[w] = "processing" /\ NextTask(w, Fresh("route")) /\ task'[w] = Fresh("route")
    BY <1>1, <1>3 DEF Start, TakeLock, SetWorker, NextTask
  <2>2. TaskInv(w)'
    BY <2>1, FreshKeeps DEF TaskPoints
  <2> QED BY <1>2, <2>1, <2>2, OneWorkersStep
<1>4. CASE Finish(w) \/ CrashTask(w)
  <2>1. wpc'[w] # "processing" /\ NextTask(w, NoTask) /\ task'[w] = NoTask
    BY <1>1, <1>4 DEF Finish, CrashTask, FinishAck, FinishRequeue, CrashWorker, RedisFails,
                      SetWorker, NextTask
  <2>2. TaskInv(w)'
    BY <2>1, IdleKeeps
  <2> QED BY <1>2, <2>1, <2>2, OneWorkersStep
<1> QED BY <1>3, <1>4

LEMMA QueueOnlyKeeps ==
    ASSUME LifecycleInv, Stable, QueueOnly
    PROVE  TasksInv'
<1>1. wpc \in [Workers -> WorkerPoints] /\ wcur \in [Workers -> Batches \union {None}]
  BY DEF LifecycleInv, DataInv, QueueInv, QueueTypeOK
<1>2. CASE \E w \in Workers : LoopStep(w)
  <2>1. PICK w \in Workers : LoopStep(w)
    BY <1>2
  <2>2. \A v \in Workers :
           /\ (wpc'[v] = "processing") <=> (wpc[v] = "processing")
           /\ wpc[v] = "processing" => wcur'[v] = wcur[v]
    BY <1>1, <2>1 DEF LoopStep, Reserve, LockConflict, Unlock, Heartbeat, SetWorker, workerVars
  <2> QED BY <2>2, NobodysStep DEF QueueOnly
<1>3. CASE Movers \/ QueueTimeouts
  BY <1>3, NobodysStep DEF QueueOnly, Movers, QueueTimeouts, MoveDueDelayed, RecoverStaleActive,
                           BecomesStale, LockExpires, workerVars
<1> QED BY <1>2, <1>3 DEF QueueOnly

LEMMA EveryStepKeepsTasks ==
    ASSUME LifecycleInv, Stable, [Next]_vars
    PROVE  TasksInv'
<1>1. CASE UNCHANGED <<task, wpc, wcur>>
  BY <1>1, NobodysStep
<1>2. CASE UNCHANGED vars
  BY <1>1, <1>2 DEF vars, queueVars, workerVars
<1>3. CASE \E b \in Batches : SubmitStep(b) \/ CancelStep(b) \/ RecoverStep(b) \/ Client(b)
  BY <1>1, <1>3, HandlerControl
<1>4. CASE \E w \in Workers : ProcessStep(w) \/ CallFails(w)
  BY <1>4, ProcessKeeps, OneWorkersStep
<1>5. CASE \E w \in Workers : Start(w) \/ Finish(w) \/ CrashTask(w)
  BY <1>5, LoopKeeps
<1>6. CASE \/ \E b \in Batches : UpstreamFinishes(b) \/ BecomesOld(b)
           \/ \E h \in Handlers, b \in Batches : CrashHandler(h, b)
  BY <1>1, <1>6 DEF UpstreamFinishes, BecomesOld, CrashHandler, OnlyUpstream, OnlyJob, NoData,
                    queueVars, workerVars
<1>7. CASE QueueOnly
  BY <1>7, QueueOnlyKeeps
<1> QED BY <1>2, <1>3, <1>4, <1>5, <1>6, <1>7 DEF Next

-----------------------------------------------------------------------------
LEMMA LifecycleInitInv == Init => LifecycleInv
<1> SUFFICES ASSUME Init PROVE LifecycleInv
  OBVIOUS
<1>1. QueueInv /\ LedgerInv
  BY QueueInitInv, LedgerInitInv DEF Init
<1>2. JobsTypeOK /\ \A b \in Batches : PricedRow(b) /\ PaidRow(b) /\ CaptureMoved(b)
  BY CostsAssumption
     DEF Init, JobsInit, LedgerInit, NoRow, JobsTypeOK, Rows, PricedRow, PaidRow, CaptureMoved, Status
<1>3. ControlInv
  BY DEF Init, ControlInv, UpstreamStates, Points, SubmitPoints, AgentPoints
<1>4. task = [w \in Workers |-> task[w]] /\ \A w \in Workers : TaskInv(w)
  BY FreshIsTask, TargetsAreStatuses
     DEF Init, QueueInit, TaskInv, NoTask, TaskPoints, Returns, Targets
<1> QED BY <1>1, <1>2, <1>3, <1>4 DEF LifecycleInv, DataInv

LEMMA LifecycleNextInv ==
    ASSUME LifecycleInv, [Next]_vars
    PROVE  LifecycleInv'
<1>1. DataInv' /\ Stable
  BY EveryStepStores, StoreStepKeeps DEF LifecycleInv
<1>2. ControlInv'
  BY EveryStepControls, ControlStepKeeps DEF LifecycleInv
<1>3. TasksInv'
  BY <1>1, EveryStepKeepsTasks
<1> QED BY <1>1, <1>2, <1>3 DEF LifecycleInv, TasksInv

THEOREM LifecycleInvariant == SafetySpec => []LifecycleInv
BY LifecycleInitInv, LifecycleNextInv, PTL DEF SafetySpec

(***************************************************************************)
(* Type correctness of the whole subsystem; in particular no interleaving  *)
(* of handlers and workers overdraws the balance or the frozen pool, and a *)
(* worker has a task exactly while it is inside Process.                   *)
(***************************************************************************)
THEOREM LifecycleTypeCorrect == SafetySpec => []TypeOK
<1>1. LifecycleInv => TypeOK
  <2> SUFFICES ASSUME LifecycleInv PROVE TypeOK
    OBVIOUS
  <2>1. QueueTypeOK /\ LedgerTypeOK /\ JobsTypeOK
    BY DEF LifecycleInv, DataInv, QueueInv, LedgerInv
  <2>2. \A w \in Workers : task[w] \in Tasks /\ (wpc[w] = "processing" <=> task[w].at # "none")
    BY FreshIsTask DEF LifecycleInv, TaskInv, NoTask, TaskPoints
  <2>3. task \in [Workers -> Tasks]
    BY <2>2 DEF LifecycleInv
  <2> QED BY <2>1, <2>2, <2>3 DEF TypeOK, LifecycleInv, ControlInv
<1> QED BY LifecycleInvariant, <1>1, PTL

(***************************************************************************)
(* A completed job has been paid for, with exactly its recorded amount,    *)
(* whatever fails, lapses, crashes or is retried, and however many workers *)
(* hold the batch at once.                                                 *)
(***************************************************************************)
THEOREM CompletedJobsArePaid == SafetySpec => []CompletedIsPaid
<1>1. LifecycleInv => CompletedIsPaid
  BY DEF LifecycleInv, DataInv, PaidRow, CompletedIsPaid
<1> QED BY LifecycleInvariant, <1>1, PTL

(***************************************************************************)
(* The subsystem implements the queue module and the ledger module: what   *)
(* its handlers and workers do with them are operations of those modules.  *)
(***************************************************************************)
THEOREM LifecycleImplementsQueue == SafetySpec => QueueSafetySpec
<1>1. Init => QueueInit
  BY DEF Init
<1>2. ASSUME LifecycleInv, [Next]_vars PROVE [QueueNext]_queueVars
  <2>1. StoreStep
    BY <1>2, EveryStepStores
  <2> QED BY <2>1 DEF StoreStep, OnlyLedger, OnlyJob
<1> QED BY LifecycleInvariant, <1>1, <1>2, PTL DEF SafetySpec, QueueSafetySpec

THEOREM LifecycleImplementsLedger == SafetySpec => LedgerSpec
<1>1. Init => LedgerInit
  BY DEF Init
<1>2. ASSUME LifecycleInv, [Next]_vars PROVE [LedgerNext]_ledgerVars
  <2>1. StoreStep
    BY <1>2, EveryStepStores
  <2> QED BY <2>1 DEF StoreStep, OnlyQueue, OnlyJob
<1> QED BY LifecycleInvariant, <1>1, <1>2, PTL DEF SafetySpec, LedgerSpec

(***************************************************************************)
(* Hence, for the subsystem as a whole: an enqueued batch never drops out  *)
(* of the queue, two workers meet in Process only after two lapses, a      *)
(* worker loses its lock to a timeout only, no step makes or loses money,  *)
(* the pool is accounted for and no release is paid for a batch that froze *)
(* nothing.                                                                *)
(***************************************************************************)
COROLLARY LifecycleInherits ==
    SafetySpec =>
        /\ []InflightIsListed /\ []ExclusiveUnlessLapsed
        /\ LockLostOnlyToTimeout /\ OnlyReservationActivates
        /\ MoneyConserved /\ []PoolAccounted /\ []NoPhantomRelease
BY LifecycleImplementsQueue, LifecycleImplementsLedger, InflightAlwaysListed, WorkersExcluded,
   LocksKept, ReservationActivates, MoneyIsConserved, PoolIsAccounted, PhantomReleaseImpossible, PTL

-----------------------------------------------------------------------------
(***************************************************************************)
(* Stages.  How far a job has come ties its row, its handlers and the      *)
(* workers together, whatever fails, lapses or overlaps:                   *)
(*   - a row has the name of the provider's job from the moment the        *)
(*     submission is recorded, and is then past  uploading  for ever;      *)
(*   - a handler that refunds, and a worker that does, deals with a job    *)
(*     that failed or was cancelled, and such a job stays one;             *)
(*   - a worker past its poll has seen the name.                           *)
(***************************************************************************)
Dead == {"failed", "cancelled"}
Opening == {"absent", "created", "uploading"}

\* Submit may still record the submission; it may, or has given up before
Forward == {"new", "reserve", "items", "upload", "provider", "record"}
Unrecorded == Forward \union {"refundMark", "refundStop", "mark", "markUnrefunded"}

\* the provider's job is known to the task
Informed == {"poll", "transit", "index", "settle", "capture", "mark", "record",
             "exhaust", "recordRelease"}

RowInv(b) ==
    /\ job[b].named => Status(b) \notin Opening
    /\ ~job[b].named => Status(b) \in Opening \union Dead

HandlerInv(b) ==
    /\ at["submit"][b] \in Unrecorded => ~job[b].named
    /\ at["cancel"][b] \in {"refund", "retry"} => Status(b) \in Dead
    /\ at["recover"][b] \in {"refund", "retry"} => Status(b) \in Dead
    /\ at["submit"][b] \in Forward /\ "release" \in moved[b] => Status(b) \in Dead

StageTask(w) ==
    /\ task[w].at = "refund" => Status(wcur[w]) \in Dead
    /\ task[w].at = "transit" /\ task[w].then = "refund" => task[w].to \in Dead
    /\ task[w].at = "record" => task[w].then \in {"requeue", "reread"}
    /\ task[w].at \in Informed => job[wcur[w]].named

StageInv ==
    /\ \A b \in Batches : RowInv(b) /\ HandlerInv(b)
    /\ \A w \in Workers : StageTask(w)

\* what never goes back in a row
Advances(b) ==
    /\ job[b].named => job'[b].named
    /\ Status(b) \in Dead => job'[b].status \in Dead
    /\ Status(b) \in Terminal => job'[b].status \in Terminal

LEMMA RowsAdvance ==
    ASSUME DataInv, StoreStep, \A b \in Batches : RowInv(b)
    PROVE  \A b \in Batches : RowInv(b)' /\ Advances(b)
<1>1. CASE UNCHANGED job
  BY <1>1 DEF RowInv, Advances, Status
<1>2. ASSUME NEW b \in Batches, PlainJobStep(b) \/ MarkStep(b)
      PROVE  \A c \in Batches : RowInv(c)' /\ Advances(c)
  <2> DEFINE Onward(r) ==
                /\ r.named => r.status \notin Opening
                /\ ~r.named => r.status \in Opening \union Dead
                /\ job[b].named => r.named
                /\ Status(b) \in Dead => r.status \in Dead
                /\ Status(b) \in Terminal => r.status \in Terminal
  <2>0. RowInv(b) /\ job[b] \in Rows /\ job \in [Batches -> Rows]
    BY DEF DataInv, JobsTypeOK
  <2>1. ASSUME NEW r, Onward(r), job' = [job EXCEPT ![b] = r]
        PROVE  \A c \in Batches : RowInv(c)' /\ Advances(c)
    <3>1. job'[b] = r /\ \A c \in Batches \ {b} : job'[c] = job[c]
      BY <2>0, <2>1
    <3> QED BY <2>1, <3>1 DEF RowInv, Advances, Status
  <2> SUFFICES \E r : Onward(r) /\ job' = [job EXCEPT ![b] = r]
    BY <2>1
  <2>2. Onward(job[b]) /\ job = [job EXCEPT ![b] = job[b]]
    BY <2>0 DEF RowInv, Status
  <2> USE <2>0, <2>2 DEF RowInv, Status, Rows, Opening, Dead, Terminal
  <2>3. CASE CreateJob(b)
    BY <2>3 DEF CreateJob
  <2>4. CASE RecordSubmitted(b)
    BY <2>4 DEF RecordSubmitted, CanTransition
  <2>5. CASE TouchSubmitting(b) \/ RecordQueueFailure(b) \/ MarkUserDeleted(b)
    BY <2>5 DEF TouchSubmitting, RecordQueueFailure, MarkUserDeleted
  <2>6. CASE FailStale(b)
    BY <2>6 DEF FailStale, Submitting
  <2>7. CASE SetSettlementFailed(b)
    BY <2>7 DEF SetSettlementFailed
  <2>8. CASE MarkOutputDeleted(b)
    BY <2>8 DEF MarkOutputDeleted
  <2>9. CASE \E cost \in Costs : ReplaceItems(b, cost)
    BY <2>9 DEF ReplaceItems
  <2>10. CASE RecordSubmitFailure(b)
    BY <2>10 DEF RecordSubmitFailure, WriteStatus
  <2>11. CASE \E to \in Targets \union {"uploading"} : Transition(b, to)
    <3>1. PICK to \in Targets \union {"uploading"} : CanTransition(Status(b), to) /\ WriteStatus(b, to)
      BY <2>11 DEF Transition
    <3> QED BY <3>1 DEF WriteStatus, CanTransition, Targets
  <2>12. CASE job' = [job EXCEPT ![b] = [@ EXCEPT !.old = TRUE]]
    BY <2>12
  <2>13. CASE MarkStep(b)
    BY <2>13 DEF MarkStep, MarkSettled
  <2> QED BY <1>2, <2>3, <2>4, <2>5, <2>6, <2>7, <2>8, <2>9, <2>10, <2>11, <2>12, <2>13 DEF PlainJobStep
<1> QED BY <1>1, <1>2 DEF StoreStep, OnlyQueue, OnlyLedger

-----------------------------------------------------------------------------
(***************************************************************************)
(* The effect of each write on the row of its batch, column by column.     *)
(***************************************************************************)
Wrote(b, status, named, old, retries, cost) ==
    /\ \A c \in Batches \ {b} : job'[c] = job[c]
    /\ job'[b].status = status /\ job'[b].named = named /\ job'[b].old = old
    /\ job'[b].retries = retries /\ job'[b].cost = cost

LEMMA RowWrites ==
    ASSUME job \in [Batches -> Rows], NEW b \in Batches
    PROVE  /\ \A to : WriteStatus(b, to) => Wrote(b, to, job[b].named, FALSE, job[b].retries, job[b].cost)
           /\ \A cost : ReplaceItems(b, cost) =>
                 Wrote(b, "indexing", job[b].named, FALSE, job[b].retries, cost)
           /\ \A cost : MarkSettled(b, cost) =>
                 Wrote(b, "completed", job[b].named, FALSE, job[b].retries, job[b].cost)
           /\ SetSettlementFailed(b) =>
                 Wrote(b, Status(b), job[b].named, FALSE, RetriesAfter(b), job[b].cost)
           /\ MarkOutputDeleted(b) =>
                 \/ UNCHANGED job
                 \/ /\ Status(b) = "completed"
                    /\ Wrote(b, "output_deleted", job[b].named, job[b].old, job[b].retries, job[b].cost)
           /\ MarkUserDeleted(b) \/ RecordQueueFailure(b) \/ TouchSubmitting(b) =>
                 \E old \in {FALSE, job[b].old} :
                    Wrote(b, Status(b), job[b].named, old, job[b].retries, job[b].cost)
           /\ job' = [job EXCEPT ![b] = [@ EXCEPT !.old = TRUE]] =>
                 Wrote(b, Status(b), job[b].named, TRUE, job[b].retries, job[b].cost)
           /\ CreateJob(b) => Wrote(b, "created", job[b].named, ZoneAhead, job[b].retries, job[b].cost)
           /\ FailStale(b) => Wrote(b, "failed", job[b].named, FALSE, job[b].retries, job[b].cost)
           /\ RecordSubmitted(b) =>
                 Wrote(b, "submitted", TRUE, FALSE, job[b].retries, job[b].cost)
<1>0. job[b] = [ status |-> job[b].status, named |-> job[b].named, old |-> job[b].old,
                 hidden |-> job[b].hidden, retries |-> job[b].retries, cost |-> job[b].cost,
                 paid |-> job[b].paid ]
  BY DEF Rows
<1>1. \A r : job' = [job EXCEPT ![b] = r] =>
         job'[b] = r /\ \A c \in Batches \ {b} : job'[c] = job[c]
  OBVIOUS
<1> DEFINE New(s, n, o, h, r, c, p) ==
              [ status |-> s, named |-> n, old |-> o, hidden |-> h, retries |-> r,
                cost |-> c, paid |-> p ]
           R == job[b]
<1>2. \A s, n, o, h, r, c, p : job'[b] = New(s, n, o, h, r, c, p) =>
         /\ job'[b].status = s /\ job'[b].named = n /\ job'[b].old = o
         /\ job'[b].retries = r /\ job'[b].cost = c
  OBVIOUS
<1>3. ASSUME NEW to, WriteStatus(b, to) PROVE Wrote(b, to, R.named, FALSE, R.retries, R.cost)
  <2>1. job' = [job EXCEPT ![b] = [R EXCEPT !.status = to, !.old = FALSE]]
    BY <1>3 DEF WriteStatus
  <2>2. job'[b] = [R EXCEPT !.status = to, !.old = FALSE]
    BY <1>1, <2>1
  <2>3. job'[b] = New(to, R.named, FALSE, R.hidden, R.retries, R.cost, R.paid)
    BY <1>0, <2>2
  <2> QED BY <1>1, <1>2, <2>1, <2>3 DEF Wrote
<1>4. ASSUME NEW cost, ReplaceItems(b, cost) PROVE Wrote(b, "indexing", R.named, FALSE, R.retries, cost)
  <2>1. job' = [job EXCEPT ![b] = [R EXCEPT !.cost = cost, !.old = FALSE]] /\ R.status = "indexing"
    BY <1>4 DEF ReplaceItems, Status
  <2>2. job'[b] = [R EXCEPT !.cost = cost, !.old = FALSE]
    BY <1>1, <2>1
  <2>3. job'[b] = New("indexing", R.named, FALSE, R.hidden, R.retries, cost, R.paid)
    BY <1>0, <2>1, <2>2
  <2> QED BY <1>1, <1>2, <2>1, <2>3 DEF Wrote
<1>5. ASSUME NEW cost, MarkSettled(b, cost) PROVE Wrote(b, "completed", R.named, FALSE, R.retries, R.cost)
  <2>1. job' = [job EXCEPT ![b] = [R EXCEPT !.status = "completed", !.paid = cost, !.old = FALSE]]
    BY <1>5 DEF MarkSettled
  <2>2. job'[b] = [R EXCEPT !.status = "completed", !.paid = cost, !.old = FALSE]
    BY <1>1, <2>1
  <2>3. job'[b] = New("completed", R.named, FALSE, R.hidden, R.retries, R.cost, cost)
    BY <1>0, <2>2
  <2> QED BY <1>1, <1>2, <2>1, <2>3 DEF Wrote
<1>6. ASSUME SetSettlementFailed(b) PROVE Wrote(b, R.status, R.named, FALSE, RetriesAfter(b), R.cost)
  <2>1. job' = [job EXCEPT ![b] = [R EXCEPT !.retries = RetriesAfter(b), !.old = FALSE]]
    BY <1>6 DEF SetSettlementFailed
  <2>2. job'[b] = [R EXCEPT !.retries = RetriesAfter(b), !.old = FALSE]
    BY <1>1, <2>1
  <2>3. job'[b] = New(R.status, R.named, FALSE, R.hidden, RetriesAfter(b), R.cost, R.paid)
    BY <1>0, <2>2
  <2> QED BY <1>1, <1>2, <2>1, <2>3 DEF Wrote
<1>7. ASSUME MarkOutputDeleted(b), job' # job
      PROVE  R.status = "completed" /\ Wrote(b, "output_deleted", R.named, R.old, R.retries, R.cost)
  <2>1. job' = [job EXCEPT ![b] = [R EXCEPT !.status = "output_deleted"]] /\ R.status = "completed"
    BY <1>7 DEF MarkOutputDeleted, Status
  <2>2. job'[b] = [R EXCEPT !.status = "output_deleted"]
    BY <1>1, <2>1
  <2>3. job'[b] = New("output_deleted", R.named, R.old, R.hidden, R.retries, R.cost, R.paid)
    BY <1>0, <2>2
  <2> QED BY <1>1, <1>2, <2>1, <2>3 DEF Wrote
<1>8. ASSUME NEW v, job' = [job EXCEPT ![b] = [R EXCEPT !.old = v]]
      PROVE  Wrote(b, R.status, R.named, v, R.retries, R.cost)
  <2>1. job'[b] = [R EXCEPT !.old = v]
    BY <1>1, <1>8
  <2>2. job'[b] = New(R.status, R.named, v, R.hidden, R.retries, R.cost, R.paid)
    BY <1>0, <2>1
  <2> QED BY <1>1, <1>2, <1>8, <2>2 DEF Wrote
<1>12. ASSUME MarkUserDeleted(b) \/ RecordQueueFailure(b) \/ TouchSubmitting(b)
       PROVE  \E old \in {FALSE, R.old} : Wrote(b, R.status, R.named, old, R.retries, R.cost)
  <2>1. ASSUME job' = [job EXCEPT ![b] = [R EXCEPT !.hidden = TRUE]]
        PROVE  Wrote(b, R.status, R.named, R.old, R.retries, R.cost)
    <3>1. job'[b] = [R EXCEPT !.hidden = TRUE]
      BY <1>1, <2>1
    <3>2. job'[b] = New(R.status, R.named, R.old, TRUE, R.retries, R.cost, R.paid)
      BY <1>0, <3>1
    <3> QED BY <1>1, <1>2, <2>1, <3>2 DEF Wrote
  <2>2. UNCHANGED job => Wrote(b, R.status, R.named, R.old, R.retries, R.cost)
    BY DEF Wrote
  <2> QED BY <1>8, <1>12, <2>1, <2>2 DEF MarkUserDeleted, RecordQueueFailure, TouchSubmitting
<1>9. ASSUME CreateJob(b) PROVE Wrote(b, "created", R.named, ZoneAhead, R.retries, R.cost)
  <2>1. job' = [job EXCEPT ![b] = [R EXCEPT !.status = "created", !.old = ZoneAhead]]
    BY <1>9 DEF CreateJob
  <2>2. job'[b] = [R EXCEPT !.status = "created", !.old = ZoneAhead]
    BY <1>1, <2>1
  <2>3. job'[b] = New("created", R.named, ZoneAhead, R.hidden, R.retries, R.cost, R.paid)
    BY <1>0, <2>2
  <2> QED BY <1>1, <1>2, <2>1, <2>3 DEF Wrote
<1>10. FailStale(b) => Wrote(b, "failed", R.named, FALSE, R.retries, R.cost)
  BY <1>3 DEF FailStale, WriteStatus
<1>11. ASSUME RecordSubmitted(b) PROVE Wrote(b, "submitted", TRUE, FALSE, R.retries, R.cost)
  <2>1. job' = [job EXCEPT ![b] = [R EXCEPT !.status = "submitted", !.named = TRUE, !.old = FALSE]]
    BY <1>11 DEF RecordSubmitted
  <2>2. job'[b] = [R EXCEPT !.status = "submitted", !.named = TRUE, !.old = FALSE]
    BY <1>1, <2>1
  <2>3. job'[b] = New("submitted", TRUE, FALSE, R.hidden, R.retries, R.cost, R.paid)
    BY <1>0, <2>2
  <2> QED BY <1>1, <1>2, <2>1, <2>3 DEF Wrote
<1> QED BY <1>3, <1>4, <1>5, <1>6, <1>7, <1>8, <1>9, <1>10, <1>11, <1>12 DEF Status

-----------------------------------------------------------------------------
(***************************************************************************)
(* Who writes what.  A step changes the row, the money, the provider's job *)
(* or the control points of a batch c only as said here; what follows is   *)
(* proved from these paths and not from the actions.                       *)
(***************************************************************************)
Works(w, c, point) == In(w, point) /\ wcur[w] = c
Leaves(h, c, point) == at[h][c] = point /\ at'[h][c] # point

StatusPath(c, to) ==
    \/ to = Status(c)
    \/ Leaves("submit", c, "new") /\ Status(c) = "absent" /\ to = "created"
    \/ Leaves("submit", c, "upload") /\ Status(c) = "created" /\ to = "uploading"
    \/ /\ Leaves("submit", c, "record")
       /\ CanTransition(Status(c), "submitted") /\ to = "submitted"
    \/ /\ \/ Leaves("submit", c, "mark")
          \/ Leaves("submit", c, "markUnrefunded") /\ at'["submit"][c] = "retry"
       /\ to = "failed"
    \/ /\ Leaves("cancel", c, "cancel") /\ (at'["cancel"][c] = "refund" \/ lost' > 0)
       /\ CanTransition(Status(c), "cancelled") /\ to = "cancelled"
    \/ /\ Leaves("recover", c, "idle") /\ at'["recover"][c] = "refund"
       /\ Submitting(c) /\ ~job[c].named /\ job[c].old /\ to = "failed"
    \/ Status(c) = "completed" /\ to = "output_deleted"
    \/ \E w \in Workers : Works(w, c, "transit") /\ CanTransition(Status(c), to) /\ to = task[w].to
    \/ \E w \in Workers : Works(w, c, "mark") /\ Status(c) = "settling" /\ to = "completed"

NamePath(c, to, named) ==
    \/ named = job[c].named
    \/ at["submit"][c] = "record" /\ to = "submitted" /\ named /\ UNCHANGED moved

AgePath(c, to, old) ==
    old => \/ job[c].old /\ (Status(c) = "created" => to = "created")
           \/ ZoneAhead /\ to = "created"
           \/ ~UnderWay(c) \/ lapses' > 0

RetryPath(c, retries) ==
    \/ retries = job[c].retries
    \/ /\ \E w \in Workers : /\ Works(w, c, "record") \/ Works(w, c, "recordRelease")
                             /\ task'[w] # task[w]
       /\ retries = RetriesAfter(c)

RowPath(c) ==
    /\ StatusPath(c, job'[c].status)
    /\ NamePath(c, job'[c].status, job'[c].named)
    /\ AgePath(c, job'[c].status, job'[c].old)
    /\ RetryPath(c, job'[c].retries)
    /\ job'[c].cost = job[c].cost \/ Status(c) = "indexing"

Refunding(c) ==
    \/ \E h \in {"cancel", "recover"} : at[h][c] = "refund"
    \/ at["submit"][c] \in {"refundMark", "refundStop"} /\ at'["submit"][c] \notin Forward
    \/ \E w \in Workers : Works(w, c, "refund") \/ Works(w, c, "exhaust")

MoneyPath(c) ==
    \/ moved'[c] = moved[c] /\ fingerprint'[c] = fingerprint[c]
    \/ /\ Leaves("submit", c, "reserve") /\ moved'[c] = moved[c] \union {"hold"}
       /\ fingerprint'[c] = fingerprint[c]
    \/ /\ Refunding(c) /\ moved'[c] = moved[c] \union {"release"}
       /\ fingerprint'[c] = fingerprint[c]
    \/ \E w \in Workers : /\ Works(w, c, "capture") /\ task[w].cost <= Hold
                          /\ moved'[c] = moved[c] \union {"capture"}
                          /\ fingerprint'[c] = task[w].cost

UpstreamPath(c) ==
    \/ upstream'[c] = upstream[c]
    \/ upstream'[c] # "running"
    \/ at["submit"][c] = "provider" /\ job'[c].named = job[c].named

Paths(c) == RowPath(c) /\ MoneyPath(c) /\ UpstreamPath(c)

\* Submit has returned, or died
Returned == {"done", "dead", "resubmit"}

\* the hold is frozen, and Submit goes on
Reserved == {"items", "upload", "provider", "record"}

SubmitPath(c) ==
    /\ at'["submit"][c] \in Forward => at["submit"][c] \in Forward
    /\ at'["submit"][c] \in Unrecorded =>
          at["submit"][c] \in Unrecorded /\ job'[c].named = job[c].named
    /\ at'["submit"][c] \in Reserved => at["submit"][c] \in Reserved \/ "hold" \in moved'[c]
    /\ at["submit"][c] \in Returned => at'["submit"][c] \in Returned
    /\ UnderWay(c)' => UnderWay(c) \/ ~job'[c].old \/ (ZoneAhead /\ job'[c].status = "created")

AgentPath(c) ==
    /\ \A h \in {"cancel", "recover"} :
          at'[h][c] \in {"refund", "retry"} =>
              at[h][c] \in {"refund", "retry"} \/ Status(c) \in Dead \/ job'[c].status \in Dead
    /\ at'["cancel"][c] # "idle" =>
          at["cancel"][c] # "idle" \/ (MayCancel(c) /\ at'["submit"][c] = at["submit"][c])
    /\ at'["cancel"][c] = "cancel" => at["cancel"][c] = "cancel" \/ ~job[c].named
    /\ at["recover"][c] = "idle" /\ at'["recover"][c] = "refund" => FailStale(c)

ControlPath(c) == SubmitPath(c) /\ AgentPath(c)

-----------------------------------------------------------------------------
\* What stays as it is follows every path.
LEMMA SameRow ==
    ASSUME NEW c \in Batches, job'[c] = job[c]
    PROVE  RowPath(c)
BY DEF RowPath, StatusPath, NamePath, AgePath, RetryPath, Status

LEMMA SameMoney ==
    ASSUME NEW c \in Batches, UNCHANGED ledgerVars
    PROVE  MoneyPath(c)
BY DEF MoneyPath, ledgerVars

LEMMA SameUpstream ==
    ASSUME NEW c \in Batches, UNCHANGED upstream
    PROVE  UpstreamPath(c)
BY DEF UpstreamPath

LEMMA SameControl ==
    ASSUME NEW c \in Batches, \A h \in Handlers : at'[h][c] = at[h][c],
           job'[c].named = job[c].named
    PROVE  ControlPath(c)
BY DEF ControlPath, SubmitPath, AgentPath, UnderWay, Handlers, Forward, Unrecorded, Returned, Reserved

\* A write of the row of b follows them when its columns do.
LEMMA WrittenRow ==
    ASSUME NEW b \in Batches, NEW status, NEW named, NEW old, NEW retries, NEW cost,
           Wrote(b, status, named, old, retries, cost),
           StatusPath(b, status), NamePath(b, status, named), AgePath(b, status, old),
           RetryPath(b, retries), cost = job[b].cost \/ Status(b) = "indexing",
           NEW c \in Batches
    PROVE  RowPath(c)
<1>1. CASE c = b
  BY <1>1 DEF Wrote, RowPath
<1>2. CASE c # b
  BY <1>2, SameRow DEF Wrote
<1> QED BY <1>1, <1>2

\* Most writes touch the status only.
LEMMA WrittenStatus ==
    ASSUME NEW b \in Batches, NEW status, NEW old \in {FALSE, job[b].old},
           Wrote(b, status, job[b].named, old, job[b].retries, job[b].cost),
           old = FALSE \/ Status(b) # "created" \/ status = "created",
           StatusPath(b, status), NEW c \in Batches
    PROVE  RowPath(c) /\ job'[c].named = job[c].named
<1>1. NamePath(b, status, job[b].named) /\ AgePath(b, status, old) /\ RetryPath(b, job[b].retries)
  BY DEF NamePath, AgePath, RetryPath
<1>2. job'[c].named = job[c].named
  BY DEF Wrote
<1> QED BY <1>1, <1>2, WrittenRow

\* A refund, whichever way it ends, touches the money of its batch only.
LEMMA RefundPath ==
    ASSUME LedgerTypeOK, NEW b \in Batches, Released(b) \/ NotReleased(b), Refunding(b),
           NEW c \in Batches
    PROVE  UNCHANGED <<job, upstream>> /\ MoneyPath(c)
<1>1. UNCHANGED <<job, upstream>>
  BY DEF Released, NotReleased, Failed, NoData, OnlyLedger
<1> SUFFICES MoneyPath(c)
  BY <1>1
<1>2. UNCHANGED ledgerVars \/ ReleaseHold(b)
  BY DEF Released, NotReleased, Failed, NoData
<1>3. CASE ReleaseHold(b)
  <2>1. \/ UNCHANGED ledgerVars
        \/ UNCHANGED <<moved, fingerprint>>
        \/ moved' = [moved EXCEPT ![b] = @ \union {"release"}] /\ UNCHANGED fingerprint
    BY <1>3 DEF ReleaseHold, AlreadyDone, Move
  <2>2. CASE moved' = [moved EXCEPT ![b] = @ \union {"release"}] /\ UNCHANGED fingerprint
    <3>1. CASE c = b
      <4>1. moved'[c] = moved[c] \union {"release"}
        BY <2>2, <3>1 DEF LedgerTypeOK
      <4> QED BY <2>2, <3>1, <4>1 DEF MoneyPath
    <3>2. CASE c # b
      <4>1. moved'[c] = moved[c]
        BY <2>2, <3>2 DEF LedgerTypeOK
      <4> QED BY <2>2, <4>1 DEF MoneyPath
    <3> QED BY <3>1, <3>2
  <2> QED BY <2>1, <2>2, SameMoney DEF MoneyPath
<1> QED BY <1>2, <1>3, SameMoney

LEMMA ReservePath ==
    ASSUME LedgerInv, NEW b \in Batches, ReserveHold(b), Leaves("submit", b, "reserve"),
           NEW c \in Batches
    PROVE  MoneyPath(c) /\ "hold" \in moved'[b]
<1>1. \/ UNCHANGED ledgerVars /\ "hold" \in claim[b]
      \/ Move("hold", b) /\ UNCHANGED fingerprint
  BY DEF ReserveHold, AlreadyDone
<1>2. CASE Move("hold", b) /\ UNCHANGED fingerprint
  BY <1>2 DEF Move, MoneyPath, LedgerInv, LedgerTypeOK
<1>3. CASE UNCHANGED ledgerVars /\ "hold" \in claim[b]
  BY <1>3, SameMoney DEF LedgerInv, ClaimedWhenMoved, ledgerVars
<1> QED BY <1>1, <1>2, <1>3

-----------------------------------------------------------------------------
(***************************************************************************)
(* The steps of Submit follow the paths.                                   *)
(***************************************************************************)
Onward(from, to) ==
    /\ to \in Forward => from \in Forward
    /\ to \in Unrecorded => from \in Unrecorded
    /\ from \in Returned => to \in Returned
    /\ to \notin Returned \union {"new"} => from \notin Returned \union {"new"}

LEMMA SubmitMoves ==
    ASSUME at \in [Handlers -> [Batches -> Points]], NEW b \in Batches, NEW from, NEW to,
           Go("submit", b, from, to), Onward(from, to), NEW c \in Batches,
           c = b /\ to \in Reserved => from \in Reserved \/ "hold" \in moved'[c],
           c # b \/ to \in Unrecorded => job'[c].named = job[c].named
    PROVE  ControlPath(c)
<1>1. /\ at["submit"][b] = from /\ at'["submit"][b] = to
      /\ \A h \in Handlers : h # "submit" \/ c # b => at'[h][c] = at[h][c]
  BY DEF Go, Handlers
<1>2. CASE c # b
  BY <1>1, <1>2, SameControl
<1>3. CASE c = b
  <2>1. SubmitPath(c)
    BY <1>1, <1>3 DEF SubmitPath, Onward, UnderWay, Returned
  <2>2. AgentPath(c)
    BY <1>1, <1>3 DEF AgentPath, Handlers
  <2> QED BY <2>1, <2>2 DEF ControlPath
<1> QED BY <1>2, <1>3

LEMMA SubmitPaths ==
    ASSUME LifecycleInv, NEW b \in Batches, SubmitStep(b), NEW c \in Batches
    PROVE  Paths(c) /\ ControlPath(c)
<1>1. LedgerInv /\ job \in [Batches -> Rows] /\ at \in [Handlers -> [Batches -> Points]]
      /\ upstream \in [Batches -> UpstreamStates]
  BY DEF LifecycleInv, DataInv, JobsTypeOK, ControlInv
<1> DEFINE Moves(from, to) == Go("submit", b, from, to) /\ Onward(from, to)
           Named == job'[c].named = job[c].named
<1>0. \A from, to : Go("submit", b, from, to) /\ from # to => Leaves("submit", b, from)
  BY <1>1 DEF Go, Leaves, Handlers
<1>2. \A from, to : Moves(from, to) /\ (to \in Reserved => from \in Reserved) /\ Named => ControlPath(c)
  BY <1>1, SubmitMoves
<1>3. UNCHANGED job => RowPath(c) /\ Named
  BY SameRow
<1>4. UNCHANGED upstream => UpstreamPath(c)
  BY SameUpstream
<1>5. UNCHANGED ledgerVars => MoneyPath(c)
  BY SameMoney
<1> USE DEF Onward, Forward, Unrecorded, Returned, Reserved
<1>6. CASE SubmitReserve(b) \/ SubmitNotReserved(b)
  <2>1. UNCHANGED <<job, upstream>>
    BY <1>6 DEF SubmitReserve, SubmitNotReserved, Failed, NoData, OnlyLedger
  <2>2. MoneyPath(c) /\ (SubmitReserve(b) => "hold" \in moved'[b])
    <3>1. Leaves("submit", b, "reserve")
      BY <1>0, <1>6 DEF SubmitReserve, SubmitNotReserved
    <3> QED BY <1>1, <1>5, <1>6, <3>1, ReservePath DEF SubmitReserve, SubmitNotReserved, Failed, NoData
  <2>3. CASE SubmitReserve(b)
    <3>1. Moves("reserve", "items")
      BY <2>3 DEF SubmitReserve
    <3> QED BY <1>1, <1>3, <1>4, <2>1, <2>2, <2>3, <3>1, SubmitMoves DEF Paths
  <2>4. CASE SubmitNotReserved(b)
    <3>1. Moves("reserve", "mark")
      BY <2>4 DEF SubmitNotReserved
    <3> QED BY <1>2, <1>3, <1>4, <2>1, <2>2, <3>1 DEF Paths
  <2> QED BY <1>6, <2>3, <2>4
<1>7. CASE SubmitItems(b)
  <2>1. UNCHANGED <<ledgerVars, job, upstream>>
    BY <1>7 DEF SubmitItems, Failed, NoData
  <2>2. Moves("items", "upload") \/ Moves("items", "refundMark")
    BY <1>7 DEF SubmitItems
  <2> QED BY <1>2, <1>3, <1>4, <1>5, <2>1, <2>2 DEF Paths
<1>8. CASE SubmitProvider(b) \/ SubmitAbort(b)
  <2>1. UNCHANGED <<ledgerVars, job>>
    BY <1>8 DEF SubmitProvider, SubmitAbort, Failed, NoData, OnlyUpstream
  <2>2. \/ Moves("provider", "record") \/ Moves("provider", "refundMark")
        \/ Moves("abort", "done")
    BY <1>8 DEF SubmitProvider, SubmitAbort
  <2>3. UpstreamPath(c)
    BY <1>1, <1>3, <1>8, <2>1 DEF SubmitProvider, SubmitAbort, ProviderCancel, Failed, NoData,
           UpstreamPath, Go
  <2> QED BY <1>2, <1>3, <1>5, <2>1, <2>2, <2>3 DEF Paths
<1>9. CASE SubmitUpload(b)
  <2>1. /\ UNCHANGED <<ledgerVars, upstream>>
        /\ UNCHANGED job \/ Transition(b, "uploading")
        /\ Leaves("submit", b, "upload")
    BY <1>0, <1>9 DEF SubmitUpload, Transits, TransitFails, TransitDenied, Failed, NoData, OnlyJob
  <2>2. \/ Moves("upload", "provider") \/ Moves("upload", "refundStop") \/ Moves("upload", "refundMark")
    BY <1>9 DEF SubmitUpload
  <2>3. RowPath(c) /\ Named
    <3>1. CASE Transition(b, "uploading")
      <4>1. Status(b) = "created" /\ WriteStatus(b, "uploading")
        BY <3>1 DEF Transition, CanTransition
      <4>2. StatusPath(b, "uploading")
        BY <2>1, <4>1 DEF StatusPath
      <4>3. Wrote(b, "uploading", job[b].named, FALSE, job[b].retries, job[b].cost)
        BY <1>1, <4>1, RowWrites
      <4> QED BY <4>2, <4>3, WrittenStatus
    <3> QED BY <1>3, <2>1, <3>1
  <2> QED BY <1>2, <1>4, <1>5, <2>1, <2>2, <2>3 DEF Paths
<1>10. CASE SubmitRecord(b)
  <2>1. /\ UNCHANGED <<ledgerVars, upstream>>
        /\ UNCHANGED job \/ RecordSubmitted(b)
        /\ Leaves("submit", b, "record")
    BY <1>0, <1>10 DEF SubmitRecord, TransitDenied, Failed, NoData, OnlyJob
  <2>2. Moves("record", "enqueue") \/ Moves("record", "abort")
    BY <1>10 DEF SubmitRecord
  <2>3. RowPath(c) /\ (c # b => Named)
    <3>1. CASE RecordSubmitted(b)
      <4>1. Wrote(b, "submitted", TRUE, FALSE, job[b].retries, job[b].cost)
        BY <1>1, <3>1, RowWrites
      <4>2. StatusPath(b, "submitted")
        BY <2>1, <3>1 DEF StatusPath, RecordSubmitted
      <4>3. /\ NamePath(b, "submitted", TRUE) /\ AgePath(b, "submitted", FALSE)
            /\ RetryPath(b, job[b].retries)
        BY <2>1 DEF NamePath, AgePath, RetryPath, ledgerVars, Leaves
      <4>4. c # b => Named
        BY <4>1 DEF Wrote
      <4> QED BY <4>1, <4>2, <4>3, <4>4, WrittenRow
    <3> QED BY <1>3, <2>1, <3>1
  <2>4. ControlPath(c)
    BY <1>1, <2>2, <2>3, SubmitMoves
  <2> QED BY <1>4, <1>5, <2>1, <2>3, <2>4 DEF Paths
<1>11. CASE SubmitEnqueue(b) \/ ResubmitEnqueue(b)
  <2>1. /\ UNCHANGED <<ledgerVars, upstream>>
        /\ UNCHANGED job \/ RecordQueueFailure(b)
    BY <1>11 DEF SubmitEnqueue, ResubmitEnqueue, Queued, OnlyQueue, OnlyJob
  <2>2. Moves("enqueue", "done") \/ Moves("resubmit", "done")
    BY <1>11 DEF SubmitEnqueue, ResubmitEnqueue
  <2>3. RowPath(c) /\ Named
    BY <1>1, <1>3, <2>1, RowWrites, WrittenStatus, ZenonT(60) DEF StatusPath
  <2> QED BY <1>2, <1>4, <1>5, <2>1, <2>2, <2>3 DEF Paths
<1>12. CASE SubmitRefund(b)
  <2>1. /\ at["submit"][b] \in {"refundMark", "refundStop"} /\ at'["submit"][b] \notin Forward
        /\ Released(b) \/ NotReleased(b)
    BY <1>1, <1>12 DEF SubmitRefund, Go, Handlers
  <2>2. UNCHANGED <<job, upstream>> /\ MoneyPath(c)
    BY <1>1, <2>1, RefundPath DEF Refunding, LedgerInv
  <2>3. \/ Moves("refundMark", "mark") \/ Moves("refundStop", "done")
        \/ Moves("refundMark", "markUnrefunded") \/ Moves("refundStop", "markUnrefunded")
    BY <1>12 DEF SubmitRefund
  <2> QED BY <1>2, <1>3, <1>4, <2>2, <2>3 DEF Paths
<1>13. CASE SubmitMark(b)
  <2>1. /\ UNCHANGED <<ledgerVars, upstream>>
        /\ UNCHANGED job \/ WriteStatus(b, "failed")
        /\ \/ Leaves("submit", b, "mark")
           \/ Leaves("submit", b, "markUnrefunded") /\ at'["submit"][b] = "retry"
    <3>1. Go("submit", b, "markUnrefunded", "retry") => at'["submit"][b] = "retry"
      BY <1>1 DEF Go, Handlers
    <3> QED BY <1>0, <1>13, <3>1 DEF SubmitMark, RecordSubmitFailure, Failed, NoData, OnlyJob
  <2>2. RowPath(c) /\ Named
    BY <1>1, <1>3, <2>1, RowWrites, WrittenStatus DEF StatusPath
  <2>3. Moves("mark", "hide") \/ Moves("markUnrefunded", "retry")
    BY <1>13 DEF SubmitMark
  <2> QED BY <1>2, <1>4, <1>5, <2>1, <2>2, <2>3 DEF Paths
<1>14. CASE SubmitHide(b)
  <2>1. /\ UNCHANGED <<ledgerVars, upstream>>
        /\ UNCHANGED job \/ MarkUserDeleted(b)
    BY <1>14 DEF SubmitHide, Failed, NoData, OnlyJob
  <2>2. RowPath(c) /\ Named
    BY <1>1, <1>3, <2>1, RowWrites, WrittenStatus, ZenonT(60) DEF StatusPath
  <2>3. Moves("hide", "done")
    BY <1>14 DEF SubmitHide
  <2> QED BY <1>2, <1>4, <1>5, <2>1, <2>2, <2>3 DEF Paths
<1>15. CASE BillingRetry("submit", b, "done")
  <2>1. UNCHANGED <<ledgerVars, job, upstream>>
    BY <1>15 DEF BillingRetry, Queued, Failed, NoData, OnlyQueue
  <2>2. Moves("retry", "done")
    BY <1>15 DEF BillingRetry
  <2> QED BY <1>2, <1>3, <1>4, <1>5, <2>1, <2>2 DEF Paths
<1> QED BY <1>6, <1>7, <1>8, <1>9, <1>10, <1>11, <1>12, <1>13, <1>14, <1>15 DEF SubmitStep

-----------------------------------------------------------------------------
(***************************************************************************)
(* So do those of Cancel, of the recovery scan and of the client.          *)
(***************************************************************************)
LEMMA AgentMoves ==
    ASSUME at \in [Handlers -> [Batches -> Points]], NEW b \in Batches, NEW h \in {"cancel", "recover"},
           NEW from, NEW to, Go(h, b, from, to), NEW c \in Batches, job'[c].named = job[c].named,
           to \in {"refund", "retry"} =>
              from \in {"refund", "retry"} \/ Status(b) \in Dead \/ job'[b].status \in Dead,
           from = "idle" /\ h = "cancel" => MayCancel(b) /\ (to = "cancel" => ~job[b].named),
           from = "idle" /\ h = "recover" /\ to = "refund" => FailStale(b),
           to = "cancel" => from = "idle"
    PROVE  ControlPath(c)
<1>1. /\ at[h][b] = from /\ at'[h][b] = to
      /\ \A g \in Handlers : g # h \/ c # b => at'[g][c] = at[g][c]
  BY DEF Go, Handlers
<1>2. CASE c # b
  BY <1>1, <1>2, SameControl
<1>3. CASE c = b
  <2>1. SubmitPath(c)
    BY <1>1, <1>3 DEF SubmitPath, Handlers, UnderWay, Forward, Unrecorded, Reserved, Returned
  <2>2. AgentPath(c)
    BY <1>1, <1>3 DEF AgentPath, Handlers
  <2> QED BY <2>1, <2>2 DEF ControlPath
<1> QED BY <1>2, <1>3

LEMMA AgentPaths ==
    ASSUME LifecycleInv, NEW b \in Batches, CancelStep(b) \/ RecoverStep(b), NEW c \in Batches
    PROVE  Paths(c) /\ ControlPath(c)
<1>1. LedgerInv /\ job \in [Batches -> Rows] /\ at \in [Handlers -> [Batches -> Points]]
      /\ upstream \in [Batches -> UpstreamStates] /\ lost \in Nat
  BY DEF LifecycleInv, DataInv, JobsTypeOK, ControlInv
<1> DEFINE Named == job'[c].named = job[c].named
           Later(from, to) == /\ to \in {"refund", "retry"} => from \in {"refund", "retry"}
                              /\ from # "idle" /\ to # "cancel"
<1>2. \A h \in {"cancel", "recover"} : \A from, to :
         Go(h, b, from, to) /\ Later(from, to) /\ Named => ControlPath(c)
  BY <1>1, AgentMoves
<1>3. UNCHANGED job => RowPath(c) /\ Named
  BY SameRow
<1>4. UNCHANGED upstream => UpstreamPath(c)
  BY SameUpstream
<1>5. UNCHANGED ledgerVars => MoneyPath(c)
  BY SameMoney
<1>6. CASE CancelProvider(b) \/ CancelEnqueue(b)
  <2>1. UNCHANGED <<ledgerVars, job>>
    BY <1>6 DEF CancelProvider, CancelEnqueue, Queued, Failed, NoData, OnlyUpstream, OnlyQueue
  <2>2. \E from, to : Go("cancel", b, from, to) /\ Later(from, to)
    BY <1>6 DEF CancelProvider, CancelEnqueue
  <2>3. UpstreamPath(c)
    BY <1>1, <1>6 DEF CancelProvider, CancelEnqueue, Queued, ProviderCancel, Failed, NoData,
           OnlyQueue, UpstreamPath
  <2> QED BY <1>2, <1>3, <1>5, <2>1, <2>2, <2>3 DEF Paths
<1>7. CASE CancelTransition(b)
  <2>1. UNCHANGED <<ledgerVars, upstream>> /\ (UNCHANGED job \/ Transition(b, "cancelled"))
    BY <1>7 DEF CancelTransition, Transits, TransitFails, TransitDenied, Failed, NoData, OnlyJob
  <2>6. /\ Leaves("cancel", b, "cancel")
        /\ UNCHANGED job \/ at'["cancel"][b] = "refund" \/ lost' > 0
    <3>1. \A to : Go("cancel", b, "cancel", to) /\ to # "cancel" =>
                    Leaves("cancel", b, "cancel") /\ at'["cancel"][b] = to
      BY <1>1 DEF Go, Leaves, Handlers
    <3>2. Lost => lost' > 0
      BY <1>1 DEF Lost
    <3> QED BY <1>7, <3>1, <3>2 DEF CancelTransition, TransitDenied, TransitFails, Failed, NoData
  <2>2. Transition(b, "cancelled") =>
           Wrote(b, "cancelled", job[b].named, FALSE, job[b].retries, job[b].cost)
    BY <1>1, RowWrites DEF Transition
  <2>3. RowPath(c) /\ Named
    BY <1>3, <2>1, <2>2, <2>6, WrittenStatus DEF StatusPath, Transition
  <2>4. CASE Go("cancel", b, "cancel", "idle")
    BY <1>2, <1>4, <1>5, <2>1, <2>3, <2>4 DEF Paths
  <2>5. CASE Go("cancel", b, "cancel", "refund") /\ Transition(b, "cancelled")
    <3>1. job'[b].status \in Dead
      BY <2>2, <2>5 DEF Wrote, Dead
    <3>2. ControlPath(c)
      BY <1>1, <2>3, <2>5, <3>1, AgentMoves
    <3> QED BY <1>4, <1>5, <2>1, <2>3, <3>2 DEF Paths
  <2> QED BY <1>7, <2>4, <2>5 DEF CancelTransition, Transits
<1>8. CASE RecoverFail(b)
  <2>1. Go("recover", b, "idle", "refund") /\ FailStale(b) /\ UNCHANGED <<ledgerVars, upstream>>
    BY <1>8 DEF RecoverFail, OnlyJob
  <2>2. Wrote(b, "failed", job[b].named, FALSE, job[b].retries, job[b].cost)
    BY <1>1, <2>1, RowWrites
  <2>3. StatusPath(b, "failed")
    <3>1. Leaves("recover", b, "idle") /\ at'["recover"][b] = "refund"
      BY <1>1, <2>1 DEF Go, Leaves, Handlers
    <3> QED BY <2>1, <3>1 DEF StatusPath, FailStale
  <2>4. RowPath(c) /\ Named
    BY <2>2, <2>3, WrittenStatus
  <2>5. job'[b].status \in Dead
    BY <2>2 DEF Wrote, Dead
  <2>6. ControlPath(c)
    BY <1>1, <2>1, <2>4, <2>5, AgentMoves
  <2> QED BY <1>4, <1>5, <2>1, <2>4, <2>6 DEF Paths
<1>9. CASE \E h \in {"cancel", "recover"} : BillingRetry(h, b, "idle")
  <2>1. UNCHANGED <<ledgerVars, job, upstream>>
    BY <1>9 DEF BillingRetry, Queued, Failed, NoData, OnlyQueue
  <2>2. \E h \in {"cancel", "recover"} : Go(h, b, "retry", "idle")
    BY <1>9 DEF BillingRetry
  <2> QED BY <1>2, <1>3, <1>4, <1>5, <2>1, <2>2 DEF Paths
<1>10. CASE \E h \in {"cancel", "recover"} : AgentRefund(h, b)
  <2>1. PICK h \in {"cancel", "recover"} : AgentRefund(h, b)
    BY <1>10
  <2>2. at[h][b] = "refund" /\ (Released(b) \/ NotReleased(b))
    BY <2>1 DEF AgentRefund, Go
  <2>3. UNCHANGED <<job, upstream>> /\ MoneyPath(c)
    BY <1>1, <2>2, RefundPath DEF Refunding, LedgerInv
  <2>4. Go(h, b, "refund", "idle") \/ Go(h, b, "refund", "retry")
    BY <2>1 DEF AgentRefund
  <2> QED BY <1>2, <1>3, <1>4, <2>3, <2>4 DEF Paths
<1> QED BY <1>6, <1>7, <1>8, <1>9, <1>10 DEF CancelStep, RecoverStep

LEMMA ClientPaths ==
    ASSUME LifecycleInv, NEW b \in Batches, Client(b), NEW c \in Batches
    PROVE  Paths(c) /\ ControlPath(c)
<1>1. LedgerInv /\ job \in [Batches -> Rows] /\ at \in [Handlers -> [Batches -> Points]]
  BY DEF LifecycleInv, DataInv, JobsTypeOK, ControlInv
<1>2. MoneyPath(c) /\ UpstreamPath(c)
  <2>1. UNCHANGED <<ledgerVars, upstream>>
    BY DEF Client, SubmitCreate, SubmitHeartbeat, Resubmit, CancelRead, DeleteOutput, DeleteRecord,
           NoData, OnlyJob
  <2> QED BY <2>1, SameMoney, SameUpstream
<1> DEFINE Named == job'[c].named = job[c].named
<1> SUFFICES RowPath(c) /\ ControlPath(c)
  BY <1>2 DEF Paths
<1>3. CASE SubmitCreate(b)
  <2>1. Go("submit", b, "new", "reserve") /\ CreateJob(b)
    BY <1>3 DEF SubmitCreate
  <2>2. Wrote(b, "created", job[b].named, ZoneAhead, job[b].retries, job[b].cost)
    BY <1>1, <2>1, RowWrites
  <2>3. StatusPath(b, "created") /\ NamePath(b, "created", job[b].named)
        /\ AgePath(b, "created", ZoneAhead) /\ RetryPath(b, job[b].retries)
    <3>1. Leaves("submit", b, "new")
      BY <1>1, <2>1 DEF Go, Leaves, Handlers
    <3> QED BY <2>1, <3>1 DEF StatusPath, NamePath, AgePath, RetryPath, CreateJob
  <2>4. RowPath(c)
    BY <2>2, <2>3, WrittenRow
  <2>5. Named
    BY <2>2 DEF Wrote
  <2>6. CASE c = b
    <3>1. at["submit"][c] = "new" /\ at'["submit"][c] = "reserve"
          /\ \A h \in Handlers : h # "submit" => at'[h][c] = at[h][c]
      BY <1>1, <2>1, <2>6 DEF Go, Handlers
    <3>2. job'[c].old = ZoneAhead /\ job'[c].status = "created"
      BY <2>2, <2>6 DEF Wrote
    <3>3. SubmitPath(c)
      BY <2>5, <3>1, <3>2 DEF SubmitPath, Forward, Unrecorded, Returned, Reserved
    <3>4. AgentPath(c)
      BY <3>1 DEF AgentPath, Handlers
    <3> QED BY <2>4, <3>3, <3>4 DEF ControlPath
  <2>7. CASE c # b
    BY <1>1, <2>1, <2>4, <2>5, <2>7, SameControl DEF Go, Handlers
  <2> QED BY <2>6, <2>7
<1>4. CASE SubmitHeartbeat(b)
  <2>1. Go("submit", b, "provider", "provider") /\ TouchSubmitting(b)
    BY <1>4 DEF SubmitHeartbeat
  <2>2. RowPath(c) /\ Named
    BY <1>1, <2>1, RowWrites, WrittenStatus, ZenonT(60) DEF StatusPath
  <2>3. Onward("provider", "provider")
    BY DEF Onward
  <2> QED BY <1>1, <2>1, <2>2, <2>3, SubmitMoves
<1>5. CASE Resubmit(b)
  <2>1. UNCHANGED job /\ (Go("submit", b, "done", "resubmit") \/ Go("submit", b, "dead", "resubmit"))
    BY <1>5 DEF Resubmit, NoData
  <2>2. Onward("done", "resubmit") /\ Onward("dead", "resubmit")
    BY DEF Onward, Forward, Unrecorded, Returned
  <2>3. "resubmit" \notin Reserved /\ "resubmit" \notin Unrecorded
    BY DEF Reserved, Unrecorded, Forward
  <2> QED BY <1>1, <2>1, <2>2, <2>3, SubmitMoves, SameRow
<1>6. CASE CancelRead(b)
  <2>1. UNCHANGED job /\ MayCancel(b)
    BY <1>6 DEF CancelRead, NoData
  <2>2. \/ Status(b) \in Dead /\ Go("cancel", b, "idle", "refund")
        \/ Go("cancel", b, "idle", "provider")
        \/ ~job[b].named /\ Go("cancel", b, "idle", "cancel")
    BY <1>6 DEF CancelRead, Dead
  <2> QED BY <1>1, <2>1, <2>2, AgentMoves, SameRow
<1>7. CASE DeleteOutput(b) \/ DeleteRecord(b)
  <2>1. UNCHANGED at /\ (MarkOutputDeleted(b) \/ MarkUserDeleted(b))
    BY <1>7 DEF DeleteOutput, DeleteRecord
  <2>2. RowPath(c) /\ Named
    <3>1. CASE UNCHANGED job
      BY <3>1, SameRow
    <3>2. CASE MarkUserDeleted(b)
      BY <1>1, <3>2, RowWrites, WrittenStatus, ZenonT(60) DEF StatusPath
    <3>3. CASE /\ Status(b) = "completed"
               /\ Wrote(b, "output_deleted", job[b].named, job[b].old, job[b].retries, job[b].cost)
      BY <3>3, WrittenStatus DEF StatusPath
    <3> QED BY <1>1, <2>1, <3>1, <3>2, <3>3, RowWrites
  <2> QED BY <2>1, <2>2, SameControl
<1> QED BY <1>3, <1>4, <1>5, <1>6, <1>7 DEF Client

-----------------------------------------------------------------------------
(***************************************************************************)
(* And those of the workers and of the environment: every step does.       *)
(***************************************************************************)
LEMMA ProcessIsOwn ==
    ASSUME NEW w \in Workers, ProcessStep(w) \/ CallFails(w)
    PROVE  wpc[w] = "processing" /\ UNCHANGED <<wpc, wcur>> /\ \E t : NextTask(w, t)
BY DEF ProcessStep, CallFails, In, Route, ReadJob, Poll, ChangeStatus, Index,
       RefundTerminal, SettleRead, Capture, Mark, Record,
       Exhaust, RecordRelease, Reread, Decide, Transit, Become, Released, NotReleased, Failed,
       Transits, TransitDenied, NoData, OnlyJob, OnlyLedger, queueVars, workerVars

LEMMA WorkerPaths ==
    ASSUME LifecycleInv, NEW w \in Workers, ProcessStep(w) \/ CallFails(w), NEW c \in Batches
    PROVE  Paths(c) /\ ControlPath(c) /\ UNCHANGED <<at, upstream>>
<1>1. /\ LedgerInv /\ job \in [Batches -> Rows] /\ wcur[w] \in Batches
      /\ wpc[w] = "processing"
  BY WorkersBatch, ProcessIsOwn DEF LifecycleInv, DataInv, JobsTypeOK
<1>2. UNCHANGED <<at, upstream>>
  BY DEF ProcessStep, CallFails, Route, ReadJob, Poll, ChangeStatus, Index,
         RefundTerminal, SettleRead, Capture, Mark, Record, Released, NotReleased, Failed,
         Transits, TransitDenied, NoData, OnlyJob, OnlyLedger,
         Exhaust, RecordRelease, Reread, Decide, Transit, Become, NextTask
<1> DEFINE b == wcur[w]
           Named == job'[c].named = job[c].named
<1> SUFFICES RowPath(c) /\ MoneyPath(c) /\ Named
  BY <1>2, SameUpstream, SameControl DEF Paths
<1>3. UNCHANGED job => RowPath(c) /\ Named
  BY SameRow
<1>4. UNCHANGED ledgerVars => MoneyPath(c)
  BY SameMoney
<1>5. CASE Route(w) \/ ReadJob(w) \/ Poll(w) \/ SettleRead(w) \/ Reread(w) \/ CallFails(w)
  <2>1. UNCHANGED <<job, ledgerVars>>
    BY <1>5 DEF Route, ReadJob, Poll, SettleRead, Reread, CallFails, Decide, Transit, Failed, NoData
  <2> QED BY <1>3, <1>4, <2>1
<1>6. CASE ChangeStatus(w)
  <2>1. /\ UNCHANGED ledgerVars /\ In(w, "transit")
        /\ UNCHANGED job \/ Transition(b, task[w].to)
    BY <1>6 DEF ChangeStatus, Transits, TransitDenied, NoData, OnlyJob, Mine
  <2>2. CASE Transition(b, task[w].to)
    <3>1. CanTransition(Status(b), task[w].to) /\ WriteStatus(b, task[w].to)
      BY <2>2 DEF Transition
    <3>2. StatusPath(b, task[w].to)
      BY <2>1, <3>1 DEF StatusPath, Works
    <3>3. Wrote(b, task[w].to, job[b].named, FALSE, job[b].retries, job[b].cost)
      BY <1>1, <3>1, RowWrites
    <3>4. RowPath(c) /\ Named
      BY <1>1, <3>2, <3>3, WrittenStatus
    <3> QED BY <1>4, <2>1, <3>4
  <2> QED BY <1>3, <1>4, <2>1, <2>2
<1>7. CASE Index(w)
  <2>1. /\ UNCHANGED ledgerVars
        /\ UNCHANGED job \/ \E cost \in Costs : ReplaceItems(b, cost)
    BY <1>7 DEF Index, Decide, Transit, NoData, OnlyJob, Mine
  <2>2. ASSUME NEW cost \in Costs, ReplaceItems(b, cost) PROVE RowPath(c) /\ Named
    <3>1. Wrote(b, "indexing", job[b].named, FALSE, job[b].retries, cost)
      BY <1>1, <2>2, RowWrites
    <3>2. Status(b) = "indexing"
      BY <2>2 DEF ReplaceItems
    <3>3. StatusPath(b, "indexing") /\ NamePath(b, "indexing", job[b].named)
          /\ AgePath(b, "indexing", FALSE) /\ RetryPath(b, job[b].retries)
      BY <3>2 DEF StatusPath, NamePath, AgePath, RetryPath
    <3>4. RowPath(c)
      BY <1>1, <3>1, <3>2, <3>3, WrittenRow
    <3>5. Named
      BY <1>1, <3>1 DEF Wrote
    <3> QED BY <3>4, <3>5
  <2> QED BY <1>3, <1>4, <2>1, <2>2
<1>8. CASE RefundTerminal(w) \/ Exhaust(w)
  <2>1. (In(w, "refund") \/ In(w, "exhaust")) /\ (Released(b) \/ NotReleased(b))
    BY <1>8 DEF RefundTerminal, Exhaust, Mine
  <2>2. Refunding(b)
    BY <2>1 DEF Refunding, Works
  <2>3. UNCHANGED job /\ MoneyPath(c)
    BY <1>1, <2>1, <2>2, RefundPath DEF LedgerInv
  <2> QED BY <1>3, <2>3
<1>9. CASE Capture(w)
  <2>1. /\ UNCHANGED job /\ In(w, "capture")
        /\ UNCHANGED ledgerVars \/ CaptureHold(b, task[w].cost)
    BY <1>9 DEF Capture, Failed, NoData, OnlyLedger, Mine
  <2>2. CASE CaptureHold(b, task[w].cost)
    <3>1. \/ UNCHANGED ledgerVars
          \/ /\ task[w].cost <= Hold
             /\ moved' = [moved EXCEPT ![b] = @ \union {"capture"}]
             /\ fingerprint' = [fingerprint EXCEPT ![b] = task[w].cost]
      BY <2>2 DEF CaptureHold, AlreadyDone, Move
    <3>2. CASE /\ task[w].cost <= Hold
               /\ moved' = [moved EXCEPT ![b] = @ \union {"capture"}]
               /\ fingerprint' = [fingerprint EXCEPT ![b] = task[w].cost]
      <4>1. CASE c = b
        <5>1. moved'[c] = moved[c] \union {"capture"} /\ fingerprint'[c] = task[w].cost
          BY <1>1, <3>2, <4>1 DEF LedgerInv, LedgerTypeOK
        <5>2. Works(w, c, "capture")
          BY <2>1, <4>1 DEF Works
        <5>3. MoneyPath(c)
          BY <3>2, <5>1, <5>2 DEF MoneyPath
        <5> QED BY <1>3, <2>1, <5>3
      <4>2. CASE c # b
        <5>1. moved'[c] = moved[c] /\ fingerprint'[c] = fingerprint[c]
          BY <1>1, <3>2, <4>2 DEF LedgerInv, LedgerTypeOK
        <5> QED BY <1>3, <2>1, <5>1 DEF MoneyPath
      <4> QED BY <4>1, <4>2
    <3> QED BY <1>3, <1>4, <2>1, <3>1, <3>2
  <2> QED BY <1>3, <1>4, <2>1, <2>2
<1>10. CASE Mark(w)
  <2>1. /\ UNCHANGED ledgerVars /\ In(w, "mark")
        /\ UNCHANGED job \/ MarkSettled(b, task[w].cost)
    BY <1>10 DEF Mark, NoData, OnlyJob, Mine
  <2>2. CASE MarkSettled(b, task[w].cost)
    <3>0. Status(b) = "settling"
      BY <2>2 DEF MarkSettled
    <3>1. Status(b) = "settling"
          /\ Wrote(b, "completed", job[b].named, FALSE, job[b].retries, job[b].cost)
      BY <1>1, <2>2, <3>0, RowWrites
    <3>2. StatusPath(b, "completed")
      BY <2>1, <3>1 DEF StatusPath, Works
    <3>3. RowPath(c) /\ Named
      BY <1>1, <3>1, <3>2, WrittenStatus
    <3> QED BY <1>4, <2>1, <3>3
  <2> QED BY <1>3, <1>4, <2>1, <2>2
<1>11. CASE Record(w) \/ RecordRelease(w)
  <2>1. /\ UNCHANGED ledgerVars /\ (In(w, "record") \/ In(w, "recordRelease"))
        /\ UNCHANGED job \/ SetSettlementFailed(b)
    BY <1>11 DEF Record, RecordRelease, Failed, NoData, OnlyJob, Mine
  <2>2. CASE SetSettlementFailed(b)
    <3>1. Wrote(b, Status(b), job[b].named, FALSE, RetriesAfter(b), job[b].cost)
      BY <1>1, <2>2, RowWrites
    <3>2. StatusPath(b, Status(b)) /\ NamePath(b, Status(b), job[b].named)
          /\ AgePath(b, Status(b), FALSE)
      BY DEF StatusPath, NamePath, AgePath
    <3>3. task'[w] # task[w]
      <4>1. task[w].at \in {"record", "recordRelease"} /\ task[w].then \in Returns
        BY <2>1 DEF In, LifecycleInv, TaskInv
      <4>2. PICK p : p \notin {"record", "recordRelease"} /\ NextTask(w, Fresh(p))
        BY <1>11, <4>1 DEF Record, RecordRelease, Returns
      <4>3. task'[w] = Fresh(p)
        BY <4>2 DEF NextTask, LifecycleInv
      <4> QED BY <4>1, <4>2, <4>3 DEF Fresh
    <3>6. RetryPath(b, RetriesAfter(b))
      BY <2>1, <3>3 DEF RetryPath, Works
    <3>4. RowPath(c)
      BY <1>1, <3>1, <3>2, <3>6, WrittenRow
    <3>5. Named
      BY <1>1, <3>1 DEF Wrote
    <3> QED BY <1>4, <2>1, <3>4, <3>5
  <2> QED BY <1>3, <1>4, <2>1, <2>2
<1> QED BY <1>5, <1>6, <1>7, <1>8, <1>9, <1>10, <1>11 DEF ProcessStep

LEMMA OtherPaths ==
    ASSUME LifecycleInv, NEW c \in Batches,
           \/ UNCHANGED vars
           \/ \E w \in Workers : Start(w) \/ Finish(w) \/ CrashTask(w)
           \/ \E b \in Batches : UpstreamFinishes(b) \/ BecomesOld(b)
           \/ \E h \in Handlers, b \in Batches : CrashHandler(h, b)
           \/ QueueOnly
    PROVE  Paths(c) /\ ControlPath(c)
<1>1. job \in [Batches -> Rows] /\ at \in [Handlers -> [Batches -> Points]]
      /\ upstream \in [Batches -> UpstreamStates] /\ lapses \in Nat
  BY DEF LifecycleInv, DataInv, JobsTypeOK, ControlInv
<1>2. MoneyPath(c)
  <2>1. UNCHANGED ledgerVars
    BY DEF Start, Finish, CrashTask, UpstreamFinishes, BecomesOld, CrashHandler, QueueOnly,
           OnlyQueue, OnlyUpstream, OnlyJob, NoData, vars
  <2> QED BY <2>1, SameMoney
<1>3. RowPath(c) /\ job'[c].named = job[c].named
  <2>1. UNCHANGED job \/ \E b \in Batches : BecomesOld(b)
    BY DEF Start, Finish, CrashTask, UpstreamFinishes, CrashHandler, QueueOnly,
           OnlyQueue, OnlyUpstream, NoData, vars
  <2>2. ASSUME NEW b \in Batches, BecomesOld(b) PROVE RowPath(c) /\ job'[c].named = job[c].named
    <3>1. Wrote(b, Status(b), job[b].named, TRUE, job[b].retries, job[b].cost)
      BY <1>1, <2>2, RowWrites DEF BecomesOld
    <3>2. AgePath(b, Status(b), TRUE)
      BY <1>1, <2>2 DEF AgePath, BecomesOld
    <3>3. StatusPath(b, Status(b)) /\ NamePath(b, Status(b), job[b].named)
          /\ RetryPath(b, job[b].retries)
      BY DEF StatusPath, NamePath, RetryPath
    <3>4. RowPath(c)
      BY <3>1, <3>2, <3>3, WrittenRow
    <3> QED BY <3>1, <3>4 DEF Wrote
  <2> QED BY <2>1, <2>2, SameRow
<1>4. UpstreamPath(c)
  BY <1>1 DEF UpstreamPath, Start, Finish, CrashTask, UpstreamFinishes, BecomesOld, CrashHandler,
         QueueOnly, OnlyQueue, OnlyJob, NoData, vars
<1>5. ControlPath(c)
  <2>1. UNCHANGED at \/ \E h \in Handlers, b \in Batches : CrashHandler(h, b)
    BY DEF Start, Finish, CrashTask, UpstreamFinishes, BecomesOld, QueueOnly, NextTask, vars
  <2>2. ASSUME NEW h \in Handlers, NEW b \in Batches, CrashHandler(h, b) PROVE ControlPath(c)
    <3>1. /\ \A g \in Handlers : g # h \/ c # b => at'[g][c] = at[g][c]
          /\ at[h][b] \notin {"new", "done", "dead", "idle"}
          /\ at'[h][b] = IF h = "submit" THEN "dead" ELSE "idle"
      BY <1>1, <2>2 DEF CrashHandler
    <3>2. CASE c # b
      BY <1>3, <3>1, <3>2, SameControl
    <3>3. CASE c = b
      <4>1. SubmitPath(c)
        BY <1>3, <3>1, <3>3 DEF SubmitPath, UnderWay, Handlers, Forward, Unrecorded, Returned, Reserved
      <4>2. AgentPath(c)
        BY <3>1, <3>3 DEF AgentPath, Handlers
      <4> QED BY <4>1, <4>2 DEF ControlPath
    <3> QED BY <3>2, <3>3
  <2> QED BY <1>3, <2>1, <2>2, SameControl
<1> QED BY <1>2, <1>3, <1>4, <1>5 DEF Paths

LEMMA EveryPath ==
    ASSUME LifecycleInv, [Next]_vars, NEW c \in Batches
    PROVE  Paths(c) /\ ControlPath(c)
BY SubmitPaths, AgentPaths, ClientPaths, WorkerPaths, OtherPaths DEF Next

LEMMA HandlersKeepStage ==
    ASSUME LifecycleInv, StageInv, [Next]_vars, NEW c \in Batches
    PROVE  RowInv(c)' /\ HandlerInv(c)' /\ Advances(c)
<1>1. RowInv(c)' /\ Advances(c)
  BY EveryStepStores, RowsAdvance DEF LifecycleInv, StageInv
<1>2. HandlerInv(c) /\ MoneyPath(c) /\ SubmitPath(c) /\ AgentPath(c)
  BY EveryPath DEF StageInv, Paths, ControlPath
<1>3. Refunding(c) => Status(c) \in Dead \/ at'["submit"][c] \notin Forward
  <2>1. \A w \in Workers : Works(w, c, "refund") => Status(c) \in Dead
    BY DEF Works, In, StageInv, StageTask
  <2>2. \A w \in Workers : Works(w, c, "exhaust") => job[c].named
    BY DEF Works, In, StageInv, StageTask, Informed
  <2>3. job[c].named => at'["submit"][c] \notin Forward
    BY <1>2 DEF HandlerInv, SubmitPath, Unrecorded
  <2> QED BY <1>2, <2>1, <2>2, <2>3 DEF Refunding, HandlerInv
<1>4. "release" \in moved'[c] => Refunding(c) \/ "release" \in moved[c]
  BY <1>2 DEF MoneyPath
<1> QED BY <1>1, <1>2, <1>3, <1>4 DEF HandlerInv, SubmitPath, AgentPath, Advances, Status

-----------------------------------------------------------------------------
\* What the step of a worker leaves in its task, field by field.
LEMMA TaskFields ==
    ASSUME LifecycleInv, NEW w \in Workers
    PROVE  /\ \A t : NextTask(w, t) => task'[w] = t /\ \A v \in Workers \ {w} : task'[v] = task[v]
           /\ \A p \in TaskPoints : NextTask(w, Fresh(p)) =>
                 task'[w].at = p /\ task'[w].to = None /\ task'[w].then = "none"
           /\ \A p \in TaskPoints : Become(w, p) =>
                 /\ task'[w].at = p /\ task'[w].to = task[w].to /\ task'[w].then = task[w].then
                 /\ task'[w].cost = task[w].cost
           /\ \A to, then : NextTask(w, Aim(to, then)) \/ Transit(w, to, then) =>
                 task'[w].at = "transit" /\ task'[w].to = to /\ task'[w].then = then
           /\ \A then : NextTask(w, [Fresh("record") EXCEPT !.then = then]) =>
                 task'[w].at = "record" /\ task'[w].then = then
           /\ \A c : NextTask(w, [Fresh("capture") EXCEPT !.cost = c]) =>
                 task'[w].at = "capture" /\ task'[w].cost = c
           /\ \A s : NextTask(w, [Fresh("poll") EXCEPT !.seen = s]) => task'[w].at = "poll"
<1>1. \A t : NextTask(w, t) => task'[w] = t /\ \A v \in Workers \ {w} : task'[v] = task[v]
  BY DEF NextTask, LifecycleInv
<1>2. task[w] \in Tasks
  BY DEF LifecycleInv, TaskInv
<1>3. ASSUME NEW p \in TaskPoints, Become(w, p)
      PROVE  /\ task'[w].at = p /\ task'[w].to = task[w].to /\ task'[w].then = task[w].then
             /\ task'[w].cost = task[w].cost
  <2>1. task'[w] = [task[w] EXCEPT !.at = p]
    BY <1>1, <1>3 DEF Become
  <2> QED BY <1>2, <2>1 DEF Tasks
<1>4. ASSUME NEW to, NEW then, NextTask(w, Aim(to, then)) \/ Transit(w, to, then)
      PROVE  task'[w].at = "transit" /\ task'[w].to = to /\ task'[w].then = then
  <2>1. \/ task'[w] = Aim(to, then)
        \/ task'[w] = [task[w] EXCEPT !.at = "transit", !.to = to, !.then = then]
    BY <1>1, <1>4 DEF Transit
  <2>2. CASE task'[w] = Aim(to, then)
    BY <2>2 DEF Aim
  <2>3. CASE task'[w] = [task[w] EXCEPT !.at = "transit", !.to = to, !.then = then]
    <3>1. task[w] = [ at |-> task[w].at, to |-> task[w].to, then |-> task[w].then,
                      seen |-> task[w].seen, cost |-> task[w].cost ]
      BY <1>2 DEF Tasks
    <3>2. task'[w] = [ at |-> "transit", to |-> to, then |-> then,
                       seen |-> task[w].seen, cost |-> task[w].cost ]
      BY <2>3, <3>1
    <3> QED BY <3>2
  <2> QED BY <2>1, <2>2, <2>3
<1>5. ASSUME NEW p \in TaskPoints, NextTask(w, Fresh(p))
      PROVE  task'[w].at = p /\ task'[w].to = None /\ task'[w].then = "none"
  BY <1>1, <1>5, FreshIsTask
<1>6. ASSUME NEW then, NextTask(w, [Fresh("record") EXCEPT !.then = then])
      PROVE  task'[w].at = "record" /\ task'[w].then = then
  BY <1>1, <1>6 DEF Fresh
<1>7. ASSUME NEW c, NextTask(w, [Fresh("capture") EXCEPT !.cost = c])
      PROVE  task'[w].at = "capture" /\ task'[w].cost = c
  BY <1>1, <1>7 DEF Fresh
<1>8. ASSUME NEW s, NextTask(w, [Fresh("poll") EXCEPT !.seen = s])
      PROVE  task'[w].at = "poll"
  BY <1>1, <1>8 DEF Fresh
<1> QED BY <1>1, <1>3, <1>4, <1>5, <1>6, <1>7, <1>8

LEMMA BystanderStage ==
    ASSUME LifecycleInv, StageInv, \A b \in Batches : Advances(b), NEW v \in Workers,
           task'[v] = task[v], wpc[v] = "processing" => wcur'[v] = wcur[v]
    PROVE  StageTask(v)'
<1>1. CASE wpc[v] = "processing"
  BY <1>1, WorkersBatch DEF StageInv, StageTask, Advances, Status
<1>2. CASE wpc[v] # "processing"
  BY <1>2, FreshIsTask DEF LifecycleInv, TaskInv, NoTask, StageTask, Informed, TaskPoints
<1> QED BY <1>1, <1>2

LEMMA ProcessStage ==
    ASSUME LifecycleInv, StageInv, \A b \in Batches : Advances(b), NEW w \in Workers,
           ProcessStep(w) \/ CallFails(w)
    PROVE  StageTask(w)'
<1>1. UNCHANGED <<wpc, wcur>> /\ wpc[w] = "processing"
  BY ProcessIsOwn
<1>2. /\ wcur[w] \in Batches /\ wcur'[w] = wcur[w]
      /\ StageTask(w) /\ RowInv(wcur[w]) /\ Advances(wcur[w])
      /\ job[wcur[w]] \in Rows
  BY <1>1, WorkersBatch DEF StageInv, LifecycleInv, DataInv, JobsTypeOK
<1> DEFINE S == job[wcur[w]].status
           named == job[wcur[w]].named
           Quiet == TaskPoints \ (Informed \union {"refund"})
<1>3. /\ named => job'[wcur'[w]].named
      /\ S \in Dead => job'[wcur'[w]].status \in Dead
      /\ S \notin Opening \union Dead => named
  BY <1>2 DEF Advances, RowInv, Status
<1>4. \A p \in Quiet : NextTask(w, Fresh(p)) \/ Become(w, p) => StageTask(w)'
  BY TaskFields DEF StageTask, Informed
<1>5. \A p \in Informed \ {"transit", "record"} : named /\ (NextTask(w, Fresh(p)) \/ Become(w, p)) => StageTask(w)'
  BY <1>3, TaskFields DEF StageTask, Informed, TaskPoints
<1>6. \A to, then : named /\ (then = "refund" => to \in Dead)
                      /\ (NextTask(w, Aim(to, then)) \/ Transit(w, to, then)) => StageTask(w)'
  BY <1>3, TaskFields DEF StageTask, Informed, TaskPoints
<1>7. Become(w, "refund") /\ S \in Dead => StageTask(w)'
  <2> SUFFICES ASSUME Become(w, "refund"), S \in Dead PROVE StageTask(w)'
    OBVIOUS
  <2>1. task'[w].at = "refund"
    BY TaskFields DEF TaskPoints
  <2> QED BY <1>3, <2>1 DEF StageTask, Informed, Status
<1>8. task[w].at \in Informed => named
  BY <1>2 DEF StageTask
<1>9. S # "absent" \/ ~named
  BY <1>2 DEF RowInv, Status, Opening
<1> USE DEF In, Row, Mine, Status
<1>10. CASE Route(w)
  BY <1>3, <1>4, <1>5, <1>10 DEF Route, Decide, TaskPoints, Informed, Opening, Dead
<1>11. CASE ReadJob(w)
  <2>1. CASE \E s : named /\ NextTask(w, [Fresh("poll") EXCEPT !.seen = s])
    BY <1>3, <2>1, TaskFields DEF StageTask, Informed
  <2> QED BY <1>4, <1>5, <1>7, <1>11, <2>1 DEF ReadJob, Decide, TaskPoints, Informed, Dead
<1>12. CASE Poll(w)
  BY <1>4, <1>6, <1>8, <1>12 DEF Poll, Decide, TaskPoints, Informed, Dead
<1>13. CASE ChangeStatus(w)
  <2>1. named /\ (task[w].then = "refund" => task[w].to \in Dead)
    BY <1>2, <1>13 DEF ChangeStatus, StageTask, Informed
  <2>2. CASE NextTask(w, Fresh(task[w].then)) /\ Transits(wcur[w], task[w].to)
    <3>1. job'[wcur[w]].status = task[w].to
      BY <1>2, <2>2 DEF Transits, Transition, WriteStatus, LifecycleInv, DataInv, JobsTypeOK, Rows
    <3>2. task[w].then \in Returns \ {"none"}
      BY <1>13 DEF ChangeStatus, LifecycleInv, TaskInv
    <3>3. CASE task[w].then = "refund"
      BY <1>2, <2>1, <2>2, <3>1, <3>3, TaskFields DEF StageTask, Informed, TaskPoints
    <3>4. CASE task[w].then # "refund"
      BY <1>4, <1>5, <2>1, <2>2, <3>2, <3>4 DEF Returns, Informed, TaskPoints
    <3> QED BY <3>3, <3>4
  <2> QED BY <1>4, <1>13, <2>2 DEF ChangeStatus, TaskPoints, Informed
<1>14. CASE Index(w)
  BY <1>4, <1>6, <1>8, <1>14 DEF Index, Decide, TaskPoints, Informed, Dead
<1>15. CASE RefundTerminal(w) \/ Reread(w) \/ CallFails(w)
  BY <1>4, <1>15 DEF RefundTerminal, Reread, CallFails, Decide, TaskPoints, Informed
<1>16. CASE SettleRead(w)
  <2>1. named
    BY <1>8, <1>16 DEF SettleRead, Informed
  <2>2. CASE \E c : NextTask(w, [Fresh("capture") EXCEPT !.cost = c])
    BY <1>3, <2>1, <2>2, TaskFields DEF StageTask, Informed
  <2>3. CASE NextTask(w, [Fresh("record") EXCEPT !.then = "requeue"])
    BY <1>3, <2>1, <2>3, TaskFields DEF StageTask, Informed
  <2> QED BY <1>4, <1>5, <1>16, <2>1, <2>2, <2>3 DEF SettleRead, Decide, TaskPoints, Informed
<1>17. CASE Capture(w)
  <2>1. named
    BY <1>8, <1>17 DEF Capture, Informed
  <2>2. CASE NextTask(w, [Fresh("record") EXCEPT !.then = "reread"])
    BY <1>3, <2>1, <2>2, TaskFields DEF StageTask, Informed
  <2> QED BY <1>5, <1>17, <2>1, <2>2 DEF Capture, Informed
<1>18. CASE Mark(w)
  BY <1>4, <1>18 DEF Mark, TaskPoints, Informed
<1>19. CASE Record(w)
  <2>1. named /\ task[w].then \in {"requeue", "reread"}
    BY <1>2, <1>8, <1>19 DEF Record, Informed, StageTask
  <2> QED BY <1>4, <1>5, <1>19, <2>1 DEF Record, TaskPoints, Informed
<1>20. CASE Exhaust(w) \/ RecordRelease(w)
  <2>1. named
    BY <1>8, <1>20 DEF Exhaust, RecordRelease, Informed
  <2> QED BY <1>4, <1>5, <1>6, <1>20, <2>1 DEF Exhaust, RecordRelease, TaskPoints, Informed
<1> QED BY <1>10, <1>11, <1>12, <1>13, <1>14, <1>15, <1>16, <1>17, <1>18, <1>19, <1>20 DEF ProcessStep

\* What a step does to the task of worker v: a step of its own, none, or an
\* end or a beginning of Process.
LEMMA TaskSteps ==
    ASSUME LifecycleInv, [Next]_vars, NEW v \in Workers
    PROVE  \/ ProcessStep(v) \/ CallFails(v)
           \/ task'[v] = task[v] /\ (wpc[v] = "processing" => wcur'[v] = wcur[v])
           \/ task'[v] = Fresh("route") \/ task'[v] = NoTask
<1>1. CASE UNCHANGED <<task, wpc, wcur>>
  BY <1>1
<1>2. CASE UNCHANGED vars
  BY <1>1, <1>2 DEF vars, queueVars, workerVars
<1>3. CASE \E b \in Batches : SubmitStep(b) \/ CancelStep(b) \/ RecoverStep(b) \/ Client(b)
  BY <1>1, <1>3, HandlerControl
<1>4. ASSUME NEW w \in Workers, w # v, ProcessStep(w) \/ CallFails(w)
      PROVE  task'[v] = task[v] /\ wcur'[v] = wcur[v]
  <2>1. UNCHANGED wcur /\ \E t : NextTask(w, t)
    BY <1>4, ProcessIsOwn
  <2>2. task'[v] = task[v]
    BY <1>4, <2>1, TaskFields
  <2> QED BY <2>1, <2>2
<1>5. ASSUME NEW w \in Workers, Start(w) \/ Finish(w) \/ CrashTask(w)
      PROVE  \/ task'[v] = task[v] /\ wcur'[v] = wcur[v]
             \/ task'[v] = Fresh("route") \/ task'[v] = NoTask
  <2>1. NextTask(w, Fresh("route")) \/ NextTask(w, NoTask)
    BY <1>5 DEF Start, Finish, CrashTask
  <2>2. CASE v = w
    BY <2>1, <2>2, TaskFields
  <2>3. CASE v # w
    BY <1>5, <2>3, TaskFields DEF Start, Finish, CrashTask, TakeLock, FinishAck, FinishRequeue,
           CrashWorker, RedisFails, SetWorker, LifecycleInv, DataInv, QueueInv, QueueTypeOK
  <2> QED BY <2>2, <2>3
<1>6. CASE \/ \E b \in Batches : UpstreamFinishes(b) \/ BecomesOld(b)
           \/ \E h \in Handlers, b \in Batches : CrashHandler(h, b)
  BY <1>1, <1>6 DEF UpstreamFinishes, BecomesOld, CrashHandler, OnlyUpstream, OnlyJob, NoData,
                    queueVars, workerVars
<1>7. CASE QueueOnly
  BY <1>7 DEF QueueOnly, LoopStep, Reserve, LockConflict, Unlock, Heartbeat, SetWorker,
         Movers, QueueTimeouts, MoveDueDelayed, RecoverStaleActive, BecomesStale, LockExpires,
         workerVars, LifecycleInv, DataInv, QueueInv, QueueTypeOK
<1> QED BY <1>2, <1>3, <1>4, <1>5, <1>6, <1>7 DEF Next

LEMMA WorkersKeepStage ==
    ASSUME LifecycleInv, StageInv, [Next]_vars, \A b \in Batches : Advances(b),
           NEW v \in Workers
    PROVE  StageTask(v)'
<1>1. CASE task'[v] = Fresh("route") \/ task'[v] = NoTask
  BY <1>1 DEF StageTask, Informed, Fresh, NoTask
<1> QED BY <1>1, TaskSteps, ProcessStage, BystanderStage

LEMMA StageInitInv == Init => StageInv
<1> SUFFICES ASSUME Init PROVE StageInv
  OBVIOUS
<1>1. \A b \in Batches : RowInv(b) /\ HandlerInv(b)
  BY DEF Init, JobsInit, NoRow, LedgerInit, RowInv, HandlerInv, Status, Opening, Handlers
<1>2. \A w \in Workers : StageTask(w)
  BY FreshIsTask DEF Init, NoTask, StageTask, Informed, TaskPoints
<1> QED BY <1>1, <1>2 DEF StageInv

LEMMA StageNextInv ==
    ASSUME LifecycleInv, StageInv, [Next]_vars
    PROVE  StageInv' /\ \A b \in Batches : Advances(b)
BY HandlersKeepStage, WorkersKeepStage DEF StageInv

(***************************************************************************)
(* The stages of a job, for every interleaving of handlers and workers.    *)
(***************************************************************************)
THEOREM StagesAreKept == SafetySpec => []StageInv
BY LifecycleInvariant, StageInitInv, StageNextInv, PTL DEF SafetySpec

-----------------------------------------------------------------------------
(***************************************************************************)
(* A submission that is under way grows old by a lapse of its heartbeat    *)
(* only, or was inserted old, where the zone is ahead of UTC.              *)
(***************************************************************************)
FreshRow(b) == UnderWay(b) /\ job[b].old => lapses > 0 \/ (ZoneAhead /\ Status(b) = "created")

LEMMA LapsesGrow ==
    ASSUME LifecycleInv, [Next]_vars
    PROVE  lapses \in Nat /\ lapses' \in Nat /\ lapses' >= lapses
<1>1. ControlInv /\ ControlStep
  BY EveryStepControls DEF LifecycleInv
<1> QED BY <1>1 DEF ControlInv, ControlStep, BudgetStep, NoFault, Fault, Lost, budgets

LEMMA FreshRowStep ==
    ASSUME LifecycleInv, \A b \in Batches : FreshRow(b), [Next]_vars,
           NEW c \in Batches
    PROVE  FreshRow(c)'
<1>1. AgePath(c, job'[c].status, job'[c].old) /\ SubmitPath(c) /\ FreshRow(c)
  BY EveryPath DEF Paths, RowPath, ControlPath
<1> QED BY <1>1, LapsesGrow DEF FreshRow, AgePath, SubmitPath, Status

(***************************************************************************)
(* In every time zone the recovery scan spares a submission that is under  *)
(* way and has not lapsed, except for the row as the INSERT left it where  *)
(* the zone is ahead of UTC.                                               *)
(***************************************************************************)
THEOREM RefreshedSubmissionsAreSpared == SafetySpec => RefreshedSubmissionIsSpared
<1> DEFINE I == \A b \in Batches : FreshRow(b)
           P == \A b \in Batches :
                   ScanFails(b) => \/ ~UnderWay(b) \/ lapses > 0
                                   \/ ZoneAhead /\ Status(b) = "created"
<1>1. Init => I
  BY DEF Init, FreshRow, UnderWay, Handlers
<1>2. LifecycleInv /\ I /\ [Next]_vars => I'
  BY FreshRowStep
<1>3. ASSUME LifecycleInv, I, [Next]_vars PROVE P
  <2>1. \A b \in Batches : AgentPath(b)
    BY <1>3, EveryPath DEF ControlPath
  <2> QED BY <1>3, <2>1 DEF AgentPath, FailStale, FreshRow, ScanFails
<1>4. LifecycleInv /\ I /\ [Next]_vars => [P]_vars
  BY <1>3
<1> HIDE DEF I, P
<1>5. SafetySpec => [][P]_vars
  BY LifecycleInvariant, <1>1, <1>2, <1>4, PTL DEF SafetySpec
<1> QED BY <1>5 DEF P, RefreshedSubmissionIsSpared

-----------------------------------------------------------------------------
(***************************************************************************)
(* A client that cancels only after Submit has returned never meets it.    *)
(* Then a row that was recorded is past  running  only when the provider   *)
(* is done, and so is a worker past its poll.                              *)
(***************************************************************************)
EarlyRow(b) ==
    /\ at["cancel"][b] # "idle" => at["submit"][b] \in Returned
    /\ at["cancel"][b] = "cancel" => ~job[b].named
    /\ at["submit"][b] \in Unrecorded => Status(b) # "cancelled"
    /\ job[b].named /\ Status(b) \notin {"submitted", "running"} => upstream[b] # "running"
    /\ job[b].named /\ "release" \in moved[b] => upstream[b] # "running"

\* the poll has found the provider's job finished
Settled == {"index", "settle", "capture", "mark", "record", "exhaust", "recordRelease"}

EarlyTask(w) ==
    /\ task[w].at \in Settled => upstream[wcur[w]] # "running"
    /\ task[w].at = "transit" /\ task[w].to # "running" => upstream[wcur[w]] # "running"
    /\ task[w].at = "transit" /\ task[w].to = "running" => task[w].then = "requeue"

EarlyInv == (\A b \in Batches : EarlyRow(b)) /\ (\A w \in Workers : EarlyTask(w))

LEMMA EarlyRows ==
    ASSUME LifecycleInv, StageInv, EarlyInv, ~EarlyCancel, [Next]_vars, NEW c \in Batches
    PROVE  EarlyRow(c)'
<1>1. /\ StatusPath(c, job'[c].status) /\ NamePath(c, job'[c].status, job'[c].named)
      /\ MoneyPath(c) /\ UpstreamPath(c) /\ SubmitPath(c) /\ AgentPath(c)
  BY EveryPath DEF Paths, RowPath, ControlPath
<1>2. RowInv(c) /\ HandlerInv(c) /\ EarlyRow(c) /\ Advances(c) /\ RowInv(c)'
  BY HandlersKeepStage DEF StageInv, EarlyInv
<1>3. \A w \in Workers : Works(w, c, "transit") =>
         job[c].named /\ (task[w].to # "running" => upstream[c] # "running")
  BY DEF Works, In, EarlyInv, EarlyTask, StageInv, StageTask, Informed
<1>4. \A w \in Workers : Works(w, c, "mark") => job[c].named
  BY DEF Works, In, StageInv, StageTask, Informed
<1>5. (at["cancel"][c] # "idle" => at["submit"][c] \in Returned)'
  BY <1>1, <1>2 DEF EarlyRow, SubmitPath, AgentPath, MayCancel, Returned
<1>6. Returned \intersect Unrecorded = {} /\ Forward \subseteq Unrecorded
      /\ "record" \in Forward /\ "provider" \in Forward /\ "mark" \in Unrecorded
      /\ "markUnrefunded" \in Unrecorded /\ "refundMark" \in Unrecorded
      /\ "refundStop" \in Unrecorded
  BY DEF Returned, Unrecorded, Forward
<1>7. (at["cancel"][c] = "cancel" => ~job[c].named)'
  <2>1. ASSUME at'["cancel"][c] = "cancel", at["cancel"][c] # "cancel" PROVE ~job'[c].named
    <3>1. ~job[c].named
      BY <1>1, <2>1 DEF AgentPath
    <3>2. at'["submit"][c] \in Returned
      BY <1>5, <2>1
    <3>3. CASE at["cancel"][c] # "idle"
      BY <1>1, <1>2, <1>6, <3>1, <3>3 DEF EarlyRow, NamePath
    <3>4. CASE at["cancel"][c] = "idle"
      <4>1. at["submit"][c] \in Returned
        BY <1>1, <2>1, <3>4 DEF AgentPath, MayCancel, Returned
      <4> QED BY <1>1, <1>6, <3>1, <4>1 DEF NamePath
    <3> QED BY <3>3, <3>4
  <2>2. ASSUME at["cancel"][c] = "cancel" PROVE ~job'[c].named
    BY <1>1, <1>2, <1>6, <2>2 DEF EarlyRow, NamePath
  <2> QED BY <2>1, <2>2
<1>8. (at["submit"][c] \in Unrecorded => Status(c) # "cancelled")'
  <2> SUFFICES ASSUME at'["submit"][c] \in Unrecorded, job'[c].status = "cancelled"
               PROVE  FALSE
    BY DEF Status
  <2>1. at["submit"][c] \in Unrecorded /\ ~job[c].named /\ Status(c) # "cancelled"
    BY <1>1, <1>2 DEF SubmitPath, HandlerInv, EarlyRow
  <2>2. at["cancel"][c] # "cancel"
    BY <1>2, <1>6, <2>1 DEF EarlyRow
  <2> QED BY <1>1, <1>3, <2>1, <2>2 DEF StatusPath, Leaves
<1>9. (job[c].named /\ Status(c) \notin {"submitted", "running"} => upstream[c] # "running")'
  <2> SUFFICES ASSUME job'[c].named, job'[c].status \notin {"submitted", "running"}
               PROVE  upstream'[c] # "running"
    BY DEF Status
  <2>1. job[c].named
    BY <1>1 DEF NamePath
  <2>2. at["submit"][c] \notin Unrecorded
    BY <1>2, <2>1 DEF HandlerInv
  <2>3. upstream'[c] = upstream[c] \/ upstream'[c] # "running"
    BY <1>1, <1>6, <2>2 DEF UpstreamPath
  <2>4. upstream[c] # "running"
    <3>1. CASE job'[c].status = Status(c)
      BY <1>2, <2>1, <3>1 DEF EarlyRow
    <3>2. CASE Status(c) \notin {"submitted", "running"}
      BY <1>2, <2>1, <3>2 DEF EarlyRow
    <3>3. CASE job'[c].status # Status(c) /\ Status(c) \in {"submitted", "running"}
      <4>1. at["cancel"][c] # "cancel"
        BY <1>2, <2>1 DEF EarlyRow
      <4>2. \E w \in Workers : Works(w, c, "transit") /\ job'[c].status = task[w].to
        BY <1>1, <1>6, <2>1, <2>2, <3>3, <4>1 DEF StatusPath, Leaves
      <4> QED BY <1>3, <4>2
    <3> QED BY <3>1, <3>2, <3>3
  <2> QED BY <2>3, <2>4
<1>10. (job[c].named /\ "release" \in moved[c] => upstream[c] # "running")'
  <2> SUFFICES ASSUME job'[c].named, "release" \in moved'[c] PROVE upstream'[c] # "running"
    OBVIOUS
  <2>1. CASE ~job[c].named
    <3>1. at["submit"][c] \in Forward /\ UNCHANGED moved /\ CanTransition(Status(c), "submitted")
      BY <1>1, <1>2, <1>6, <2>1 DEF NamePath, StatusPath, Leaves, RowInv, Opening, Dead, Status
    <3>2. Status(c) \in Dead
      BY <1>2, <3>1 DEF HandlerInv
    <3> QED BY <3>1, <3>2 DEF CanTransition, Dead
  <2>2. CASE job[c].named
    <3>1. at["submit"][c] \notin Unrecorded
      BY <1>2, <2>2 DEF HandlerInv
    <3>2. upstream'[c] = upstream[c] \/ upstream'[c] # "running"
      BY <1>1, <1>6, <3>1 DEF UpstreamPath
    <3>3. CASE "release" \in moved[c]
      BY <1>2, <2>2, <3>2, <3>3 DEF EarlyRow
    <3>4. CASE "release" \notin moved[c]
      <4>1. Refunding(c)
        BY <1>1, <3>4 DEF MoneyPath
      <4>2. Status(c) \in Dead \/ \E w \in Workers : Works(w, c, "exhaust")
        <5>1. \A w \in Workers : Works(w, c, "refund") => Status(c) \in Dead
          BY DEF Works, In, StageInv, StageTask
        <5> QED BY <1>2, <1>6, <3>1, <4>1, <5>1 DEF Refunding, HandlerInv
      <4>3. \A w \in Workers : Works(w, c, "exhaust") => upstream[c] # "running"
        BY DEF Works, In, EarlyInv, EarlyTask, Settled
      <4> QED BY <1>2, <2>2, <3>2, <4>2, <4>3 DEF EarlyRow, Dead
    <3> QED BY <3>3, <3>4
  <2> QED BY <2>1, <2>2
<1> QED BY <1>5, <1>7, <1>8, <1>9, <1>10 DEF EarlyRow

\* The provider's job of a batch that is named does not start again.
LEMMA UpstreamOver ==
    ASSUME LifecycleInv, StageInv, [Next]_vars, NEW c \in Batches, job[c].named,
           upstream[c] # "running"
    PROVE  upstream'[c] # "running"
<1>1. UpstreamPath(c) /\ HandlerInv(c)
  BY EveryPath DEF Paths, StageInv
<1> QED BY <1>1 DEF UpstreamPath, HandlerInv, Unrecorded, Forward

LEMMA BystanderEarly ==
    ASSUME LifecycleInv, StageInv, EarlyInv, [Next]_vars, NEW v \in Workers,
           task'[v] = task[v], wpc[v] = "processing" => wcur'[v] = wcur[v]
    PROVE  EarlyTask(v)'
<1>1. CASE wpc[v] = "processing"
  <2>1. wcur[v] \in Batches /\ wcur'[v] = wcur[v] /\ EarlyTask(v) /\ StageTask(v)
    BY <1>1, WorkersBatch DEF EarlyInv, StageInv
  <2>2. task[v].at \in Informed /\ upstream[wcur[v]] # "running" => upstream'[wcur'[v]] # "running"
    BY <2>1, UpstreamOver DEF StageTask
  <2> QED BY <2>1, <2>2 DEF EarlyTask, Informed, Settled
<1>2. CASE wpc[v] # "processing"
  BY <1>2, FreshIsTask DEF LifecycleInv, TaskInv, NoTask, EarlyTask, Settled, TaskPoints
<1> QED BY <1>1, <1>2

LEMMA ProcessEarly ==
    ASSUME LifecycleInv, StageInv, EarlyInv, NEW w \in Workers, ProcessStep(w) \/ CallFails(w)
    PROVE  EarlyTask(w)'
<1>1. /\ UNCHANGED <<wpc, wcur, upstream>> /\ wcur[w] \in Batches /\ EarlyTask(w) /\ StageTask(w)
      /\ EarlyRow(wcur[w]) /\ RowInv(wcur[w])
  <2>1. UNCHANGED <<wpc, wcur>> /\ wpc[w] = "processing"
    BY ProcessIsOwn
  <2>2. wcur[w] \in Batches
    BY <2>1, WorkersBatch
  <2>3. UNCHANGED upstream
    BY <2>2, WorkerPaths
  <2> QED BY <2>1, <2>2, <2>3 DEF EarlyInv, StageInv
<1> DEFINE Over == upstream[wcur[w]] # "running"
           Quiet == TaskPoints \ (Settled \union {"transit"})
<1>2. \A p \in Quiet : NextTask(w, Fresh(p)) \/ Become(w, p) => EarlyTask(w)'
  BY TaskFields DEF EarlyTask, Settled
<1>3. \A p \in Settled : Over /\ (NextTask(w, Fresh(p)) \/ Become(w, p)) => EarlyTask(w)'
  BY <1>1, TaskFields DEF EarlyTask, Settled, TaskPoints
<1>4. \A to, then : (to # "running" => Over) /\ (to = "running" => then = "requeue")
                    /\ (NextTask(w, Aim(to, then)) \/ Transit(w, to, then)) => EarlyTask(w)'
  BY <1>1, TaskFields DEF EarlyTask, Settled, TaskPoints
<1>5. /\ task[w].at \in Settled => Over
      /\ job[wcur[w]].status \in {"settling", "indexing"} => Over
  BY <1>1 DEF EarlyTask, EarlyRow, RowInv, Status, Opening, Dead
<1> USE DEF In, Row, Mine, Status
<1>6. CASE Route(w)
  BY <1>2, <1>3, <1>5, <1>6 DEF Route, Decide, TaskPoints, Settled
<1>7. CASE ReadJob(w)
  <2>1. CASE \E s : NextTask(w, [Fresh("poll") EXCEPT !.seen = s])
    BY <2>1, TaskFields DEF EarlyTask, Settled
  <2> QED BY <1>2, <1>3, <1>5, <1>7, <2>1 DEF ReadJob, Decide, TaskPoints, Settled
<1>8. CASE Poll(w)
  BY <1>2, <1>4, <1>8 DEF Poll, Decide, TaskPoints, Settled
<1>9. CASE ChangeStatus(w)
  <2>1. task[w].then \in Returns \ {"none"} /\ (task[w].then = "index" => Over)
    BY <1>1, <1>9 DEF ChangeStatus, LifecycleInv, TaskInv, EarlyTask
  <2> QED BY <1>2, <1>3, <1>9, <2>1 DEF ChangeStatus, TaskPoints, Settled, Returns
<1>10. CASE Index(w)
  BY <1>2, <1>4, <1>5, <1>10 DEF Index, Decide, TaskPoints, Settled
<1>11. CASE RefundTerminal(w) \/ Reread(w) \/ CallFails(w)
  BY <1>2, <1>11 DEF RefundTerminal, Reread, CallFails, Decide, TaskPoints, Settled
<1>12. CASE SettleRead(w)
  <2>1. Over
    BY <1>5, <1>12 DEF SettleRead, Settled
  <2>2. CASE \E c : NextTask(w, [Fresh("capture") EXCEPT !.cost = c])
    BY <1>1, <2>1, <2>2, TaskFields DEF EarlyTask
  <2>3. CASE NextTask(w, [Fresh("record") EXCEPT !.then = "requeue"])
    BY <1>1, <2>1, <2>3, TaskFields DEF EarlyTask
  <2> QED BY <1>2, <1>3, <1>12, <2>1, <2>2, <2>3 DEF SettleRead, Decide, TaskPoints, Settled
<1>13. CASE Capture(w)
  <2>1. Over
    BY <1>5, <1>13 DEF Capture, Settled
  <2>2. CASE NextTask(w, [Fresh("record") EXCEPT !.then = "reread"])
    BY <1>1, <2>1, <2>2, TaskFields DEF EarlyTask
  <2> QED BY <1>3, <1>13, <2>1, <2>2 DEF Capture, Settled
<1>14. CASE Mark(w)
  BY <1>2, <1>14 DEF Mark, TaskPoints, Settled
<1>15. CASE Record(w)
  <2>1. Over /\ task[w].then \in {"requeue", "reread"}
    BY <1>1, <1>5, <1>15 DEF Record, Settled, StageTask
  <2> QED BY <1>2, <1>3, <1>15, <2>1 DEF Record, TaskPoints, Settled
<1>16. CASE Exhaust(w) \/ RecordRelease(w)
  <2>1. Over
    BY <1>5, <1>16 DEF Exhaust, RecordRelease, Settled
  <2> QED BY <1>2, <1>3, <1>4, <1>16, <2>1 DEF Exhaust, RecordRelease, TaskPoints, Settled
<1> QED BY <1>6, <1>7, <1>8, <1>9, <1>10, <1>11, <1>12, <1>13, <1>14, <1>15, <1>16 DEF ProcessStep

LEMMA EarlyNextInv ==
    ASSUME LifecycleInv, StageInv, EarlyInv, ~EarlyCancel, [Next]_vars
    PROVE  EarlyInv'
<1>1. ASSUME NEW v \in Workers PROVE EarlyTask(v)'
  <2>1. CASE task'[v] = Fresh("route") \/ task'[v] = NoTask
    BY <2>1 DEF EarlyTask, Settled, Fresh, NoTask
  <2> QED BY <2>1, TaskSteps, ProcessEarly, BystanderEarly
<1> QED BY <1>1, EarlyRows DEF EarlyInv

LEMMA EarlyInitInv == Init => EarlyInv
<1> SUFFICES ASSUME Init PROVE EarlyInv
  OBVIOUS
<1>1. \A b \in Batches : EarlyRow(b)
  BY DEF Init, JobsInit, NoRow, LedgerInit, EarlyRow, Status, Handlers
<1>2. \A w \in Workers : EarlyTask(w)
  BY FreshIsTask DEF Init, NoTask, EarlyTask, Settled, TaskPoints
<1> QED BY <1>1, <1>2 DEF EarlyInv

LEMMA EarlyIsKept == ~EarlyCancel => (SafetySpec => []EarlyInv)
<1> SUFFICES ASSUME ~EarlyCancel PROVE SafetySpec => []EarlyInv
  OBVIOUS
<1>1. LifecycleInv /\ StageInv /\ EarlyInv /\ [Next]_vars => EarlyInv'
  BY EarlyNextInv
<1> QED BY LifecycleInvariant, StagesAreKept, EarlyInitInv, <1>1, PTL DEF SafetySpec

(***************************************************************************)
(* A job that was recorded as submitted is not refunded while the provider *)
(* still works on it, as long as the client waits for Submit to return     *)
(* before it cancels: no scan, lapse, retry, crash or overlap of workers   *)
(* does it.                                                                *)
(***************************************************************************)
THEOREM RunningJobsKeepTheirHold == ~EarlyCancel => (SafetySpec => []NoRefundWhileRunning)
<1> SUFFICES ASSUME ~EarlyCancel PROVE SafetySpec => []NoRefundWhileRunning
  OBVIOUS
<1>1. EarlyInv => NoRefundWhileRunning
  BY DEF EarlyInv, EarlyRow, NoRefundWhileRunning
<1> QED BY EarlyIsKept, <1>1, PTL

(***************************************************************************)
(* Under the same premise the status of a terminal job is final, whatever  *)
(* a handler or a worker read before.                                      *)
(***************************************************************************)
THEOREM TerminalStatusIsKept == ~EarlyCancel => (SafetySpec => TerminalStatusIsFinal)
<1> SUFFICES ASSUME ~EarlyCancel PROVE SafetySpec => TerminalStatusIsFinal
  OBVIOUS
<1> DEFINE P == \A b \in Batches :
                   Status(b) \in Terminal =>
                       job'[b].status = Status(b) \/ job'[b].status = "output_deleted"
<1>1. ASSUME LifecycleInv, StageInv, EarlyInv, [Next]_vars PROVE P
  <2> SUFFICES ASSUME NEW b \in Batches, Status(b) \in Terminal
               PROVE  job'[b].status = Status(b) \/ job'[b].status = "output_deleted"
    OBVIOUS
  <2>1. StatusPath(b, job'[b].status) /\ RowInv(b) /\ HandlerInv(b) /\ EarlyRow(b)
    BY <1>1, EveryPath DEF Paths, RowPath, StageInv, EarlyInv
  <2>2. at["submit"][b] \in {"mark", "markUnrefunded"} => Status(b) = "failed"
    BY <2>1 DEF RowInv, HandlerInv, EarlyRow, Unrecorded, Terminal, Opening, Dead
  <2> QED BY <2>1, <2>2 DEF StatusPath, Leaves, CanTransition, Terminal, Submitting
<1>2. LifecycleInv /\ StageInv /\ EarlyInv /\ [Next]_vars => [P]_vars
  BY <1>1
<1> HIDE DEF P
<1>3. SafetySpec => [][P]_vars
  BY LifecycleInvariant, StagesAreKept, EarlyIsKept, <1>2, PTL DEF SafetySpec
<1> QED BY <1>3 DEF P, TerminalStatusIsFinal

-----------------------------------------------------------------------------
(***************************************************************************)
(* As long as two workers are not inside Process for one batch, a job that *)
(* is in the queue, or with a worker that took it from there, keeps its    *)
(* dedup key until it is terminal: the workers return the job, and an Ack  *)
(* is for a terminal one.                                                  *)
(***************************************************************************)
Begun == {"running", "indexing", "settling"}

KeptRow(b) ==
    /\ Fed(b) => b \in inflight \/ Status(b) \in Terminal
    /\ Status(b) \in Begun => b \in inflight

KeptTask(w) ==
    /\ task[w].at = "process" => Status(wcur[w]) # "settling"
    /\ task[w].at = "ack" => Status(wcur[w]) \in Terminal

KeptInv == (\A b \in Batches : KeptRow(b)) /\ (\A w \in Workers : KeptTask(w))

\* The dedup key is removed by the worker that acknowledges the job.
LEMMA KeyRemoved ==
    ASSUME LifecycleInv, [Next]_vars, NEW b \in Batches, b \in inflight, b \notin inflight'
    PROVE  \E w \in Workers : Works(w, b, "ack")
<1>1. ASSUME NEW w \in Workers, Start(w) \/ Finish(w) \/ CrashTask(w)
      PROVE  \E v \in Workers : Works(v, b, "ack")
  <2>1. CASE In(w, "ack") /\ FinishAck(w)
    BY <2>1 DEF FinishAck, Ack, Works
  <2>2. CASE FinishRequeue(w) \/ TakeLock(w) \/ CrashWorker(w) \/ RedisFails(w)
    BY <2>2 DEF FinishRequeue, TakeLock, CrashWorker, RedisFails, RequeueAfter, redisVars
  <2> QED BY <1>1, <2>1, <2>2 DEF Start, Finish, CrashTask
<1>2. ASSUME NEW w \in Workers, ProcessStep(w) \/ CallFails(w) PROVE inflight' = inflight
  BY <1>2 DEF ProcessStep, CallFails, Route, ReadJob, Poll, ChangeStatus, Index,
         RefundTerminal, SettleRead, Capture, Mark, Record,
         Exhaust, RecordRelease, Reread, Decide, Transit, Become, Released, NotReleased, Failed,
         Transits, TransitDenied, NoData, OnlyJob, OnlyLedger, queueVars, redisVars
<1>3. ASSUME NEW c \in Batches, SubmitStep(c) \/ CancelStep(c) \/ RecoverStep(c) \/ Client(c)
      PROVE  inflight \subseteq inflight'
  <2> USE DEF Queued, Produce, Enqueue, Failed, Released, NotReleased,
              NoData, OnlyLedger, OnlyJob, OnlyUpstream, Transits, TransitFails, TransitDenied,
              queueVars, redisVars
  <2>1. CASE SubmitStep(c)
    BY <2>1 DEF SubmitStep, SubmitReserve, SubmitNotReserved, SubmitItems, SubmitUpload,
        SubmitProvider, SubmitRecord, SubmitAbort,
        SubmitEnqueue, SubmitRefund, SubmitMark, SubmitHide, BillingRetry, ResubmitEnqueue
  <2>2. CASE CancelStep(c) \/ RecoverStep(c)
    BY <2>2 DEF CancelStep, RecoverStep, CancelProvider, CancelEnqueue, CancelTransition,
        AgentRefund, BillingRetry, RecoverFail
  <2>3. CASE Client(c)
    BY <2>3 DEF Client, SubmitCreate, SubmitHeartbeat, Resubmit, CancelRead, DeleteOutput,
        DeleteRecord
  <2> QED BY <1>3, <2>1, <2>2, <2>3
<1>4. CASE \/ UNCHANGED vars
           \/ \E c \in Batches : UpstreamFinishes(c) \/ BecomesOld(c)
           \/ \E h \in Handlers, c \in Batches : CrashHandler(h, c)
  BY <1>4 DEF vars, UpstreamFinishes, BecomesOld, CrashHandler, OnlyUpstream, OnlyJob, NoData,
              queueVars, redisVars
<1>5. CASE QueueOnly
  BY <1>5 DEF QueueOnly, LoopStep, Reserve, ReserveScript, LockConflict, RequeueAfter, Unlock,
         ReleaseLockScript, Heartbeat, HeartbeatScript, Movers, QueueTimeouts, MoveDueDelayed,
         RecoverStaleActive, MoveDueScript, RecoverStaleScript, BecomesStale, LockExpires
<1> QED BY <1>1, <1>2, <1>3, <1>4, <1>5 DEF Next

LEMMA QueueMoves ==
    ASSUME LifecycleInv, [Next]_vars
    PROVE  QueueInv /\ [QueueNext]_queueVars
BY EveryStepStores DEF LifecycleInv, DataInv, StoreStep, OnlyLedger, OnlyJob

LEMMA RowsKept ==
    ASSUME LifecycleInv, StageInv, KeptInv, [Next]_vars, NEW b \in Batches
    PROVE  KeptRow(b)'
<1>1. KeptRow(b) /\ Advances(b) /\ StatusPath(b, job'[b].status)
  BY StageNextInv, EveryPath DEF KeptInv, Paths, RowPath
<1>2. b \in inflight => b \in inflight' \/ job'[b].status \in Terminal
  <2>1. \A w \in Workers : Works(w, b, "ack") => Status(b) \in Terminal
    BY DEF Works, In, KeptInv, KeptTask
  <2> QED BY <1>1, <2>1, KeyRemoved DEF Advances
<1>3. Fed(b)' => b \in inflight' \/ job'[b].status \in Terminal
  BY <1>1, <1>2, QueueMoves, FedKept DEF KeptRow, Advances
<1>4. job'[b].status \in Begun => b \in inflight'
  <2>1. Begun \intersect Terminal = {}
    BY DEF Begun, Terminal
  <2>2. CASE Status(b) \in Begun
    BY <1>1, <1>2, <2>1, <2>2 DEF KeptRow
  <2>3. CASE job'[b].status \in Begun /\ Status(b) \notin Begun
    <3>1. PICK w \in Workers : Works(w, b, "transit")
      BY <1>1, <2>3 DEF StatusPath, Leaves, Begun
    <3>2. Fed(b)
      BY <3>1 DEF Fed, Works, In, Holds
    <3> QED BY <1>1, <1>2, <2>1, <2>3, <3>2 DEF KeptRow, Advances
  <2> QED BY <2>2, <2>3
<1> QED BY <1>3, <1>4 DEF KeptRow, Status

LEMMA BystanderKept ==
    ASSUME LifecycleInv, StageInv, KeptInv, [Next]_vars, ExclusiveUnlessLapsed, late <= 1,
           NEW v \in Workers, ~ProcessStep(v), task'[v] = task[v],
           wpc[v] = "processing" => wcur'[v] = wcur[v]
    PROVE  KeptTask(v)'
<1>1. CASE wpc[v] = "processing"
  <2>1. wcur[v] \in Batches /\ wcur'[v] = wcur[v] /\ KeptTask(v)
    BY <1>1, WorkersBatch DEF KeptInv
  <2>2. Advances(wcur[v]) /\ StatusPath(wcur[v], job'[wcur[v]].status)
    BY <2>1, StageNextInv, EveryPath DEF Paths, RowPath
  <2>3. CASE task[v].at = "process"
    <3>1. \A w \in Workers : Works(w, wcur[v], "transit") => FALSE
      BY <1>1, <2>1, <2>3 DEF Works, In, ExclusiveUnlessLapsed, Processes, LifecycleInv, DataInv,
             QueueInv, QueueTypeOK
    <3>2. job'[wcur[v]].status # "settling"
      BY <2>1, <2>2, <2>3, <3>1 DEF StatusPath, Leaves, KeptTask
    <3> QED BY <2>1, <2>3, <3>2 DEF KeptTask, Status
  <2>4. CASE task[v].at # "process"
    BY <2>1, <2>2, <2>4 DEF KeptTask, Advances, Status
  <2> QED BY <2>3, <2>4
<1>2. CASE wpc[v] # "processing"
  BY <1>2, FreshIsTask DEF LifecycleInv, TaskInv, NoTask, KeptTask, TaskPoints
<1> QED BY <1>1, <1>2

LEMMA ProcessKept ==
    ASSUME LifecycleInv, StageInv, KeptInv, NEW w \in Workers, ProcessStep(w) \/ CallFails(w)
    PROVE  KeptTask(w)'
<1>1. /\ wcur'[w] = wcur[w] /\ wcur[w] \in Batches /\ KeptTask(w) /\ StageTask(w)
      /\ Advances(wcur[w]) /\ job \in [Batches -> Rows]
  <2>1. UNCHANGED wcur /\ wpc[w] = "processing"
    BY ProcessIsOwn
  <2>2. wcur[w] \in Batches
    BY <2>1, WorkersBatch
  <2> QED BY <2>1, <2>2, StageNextInv DEF Next, KeptInv, StageInv, LifecycleInv, DataInv, JobsTypeOK
<1> DEFINE Over == job'[wcur[w]].status \in Terminal
           Quiet == TaskPoints \ {"process", "ack"}
<1>2. Status(wcur[w]) \in Terminal => Over
  BY <1>1 DEF Advances
<1>3. \A p \in Quiet : NextTask(w, Fresh(p)) \/ Become(w, p) => KeptTask(w)'
  BY TaskFields DEF KeptTask
<1>4. Over /\ (NextTask(w, Fresh("ack")) \/ Become(w, "ack")) => KeptTask(w)'
  BY <1>1, TaskFields DEF KeptTask, TaskPoints, Status
<1>5. \A to, then : NextTask(w, Aim(to, then)) \/ Transit(w, to, then) => KeptTask(w)'
  BY TaskFields DEF KeptTask
<1> USE DEF In, Row, Mine, Status
<1>6. CASE Route(w)
  <2>1. CASE Row(w).status = "settling"
    BY <1>3, <1>6, <2>1 DEF Route, Decide, TaskPoints
  <2>2. CASE Row(w).status # "settling"
    <3>1. Become(w, "process") /\ UNCHANGED job
      BY <1>6, <2>2 DEF Route, Decide, NoData
    <3>2. task'[w].at = "process"
      BY <3>1, TaskFields DEF TaskPoints
    <3> QED BY <1>1, <2>2, <3>1, <3>2 DEF KeptTask
  <2> QED BY <2>1, <2>2
<1>7. CASE ReadJob(w)
  <2>1. CASE \E s : NextTask(w, [Fresh("poll") EXCEPT !.seen = s])
    BY <2>1, TaskFields DEF KeptTask
  <2>2. Row(w).status \in {"settling", "completed", "output_deleted"} => Over
    BY <1>1, <1>2, <1>7 DEF ReadJob, KeptTask, Terminal
  <2> QED BY <1>3, <1>4, <1>7, <2>1, <2>2 DEF ReadJob, Decide, TaskPoints
<1>8. CASE Poll(w) \/ Index(w)
  BY <1>3, <1>5, <1>8 DEF Poll, Index, Decide, TaskPoints
<1>9. CASE ChangeStatus(w)
  <2>1. task[w].then \in Returns \ {"none"}
    BY <1>9 DEF ChangeStatus, LifecycleInv, TaskInv
  <2> QED BY <1>3, <1>9, <2>1 DEF ChangeStatus, TaskPoints, Returns
<1>10. CASE RefundTerminal(w)
  <2>1. Over
    BY <1>1, <1>2, <1>10 DEF RefundTerminal, StageTask, Dead, Terminal
  <2> QED BY <1>3, <1>4, <1>10, <2>1 DEF RefundTerminal, TaskPoints
<1>11. CASE SettleRead(w)
  <2>1. CASE \E c : NextTask(w, [Fresh("capture") EXCEPT !.cost = c])
    BY <2>1, TaskFields DEF KeptTask
  <2>2. CASE NextTask(w, [Fresh("record") EXCEPT !.then = "requeue"])
    BY <2>2, TaskFields DEF KeptTask
  <2>3. Row(w).status = "completed" => Over
    BY <1>2 DEF Terminal
  <2> QED BY <1>3, <1>4, <1>11, <2>1, <2>2, <2>3 DEF SettleRead, Decide, TaskPoints
<1>12. CASE Capture(w)
  <2>1. CASE NextTask(w, [Fresh("record") EXCEPT !.then = "reread"])
    BY <2>1, TaskFields DEF KeptTask
  <2> QED BY <1>3, <1>12, <2>1 DEF Capture, TaskPoints
<1>13. CASE Mark(w)
  <2>1. MarkSettled(wcur[w], task[w].cost) => Over
    <3>1. MarkSettled(wcur[w], task[w].cost) => job'[wcur[w]].status = "completed"
      BY <1>1, RowWrites DEF Wrote
    <3> QED BY <3>1 DEF Terminal
  <2> QED BY <1>3, <1>4, <1>13, <2>1 DEF Mark, TaskPoints
<1>14. CASE Record(w)
  <2>1. task[w].then \in {"requeue", "reread"}
    BY <1>1, <1>14 DEF Record, StageTask
  <2> QED BY <1>3, <1>14, <2>1 DEF Record, TaskPoints
<1>15. CASE Exhaust(w) \/ RecordRelease(w) \/ CallFails(w)
  BY <1>3, <1>5, <1>15 DEF Exhaust, RecordRelease, CallFails, TaskPoints
<1>16. CASE Reread(w)
  <2>1. Row(w).status \in Terminal => Over
    BY <1>2
  <2> QED BY <1>3, <1>4, <1>16, <2>1 DEF Reread, Decide, TaskPoints
<1> QED BY <1>6, <1>7, <1>8, <1>9, <1>10, <1>11, <1>12, <1>13, <1>14, <1>15, <1>16 DEF ProcessStep

LEMMA LateGrows ==
    ASSUME LifecycleInv, [Next]_vars
    PROVE  late \in Nat /\ late' >= late
<1>1. QueueInv /\ [QueueNext]_queueVars
  BY QueueMoves
<1> QED BY <1>1, LapsesCounted DEF QueueInv, QueueTypeOK, Lapse, NoLapse

LEMMA KeptNextInv ==
    ASSUME LifecycleInv, StageInv, ExclusiveUnlessLapsed, late <= 1, KeptInv, [Next]_vars
    PROVE  KeptInv'
<1>1. ASSUME NEW v \in Workers PROVE KeptTask(v)'
  <2>1. CASE task'[v] = Fresh("route") \/ task'[v] = NoTask
    BY <2>1 DEF KeptTask, Fresh, NoTask
  <2> QED BY <2>1, TaskSteps, ProcessKept, BystanderKept
<1> QED BY <1>1, RowsKept DEF KeptInv

LEMMA KeptInitInv == Init => KeptInv
<1> SUFFICES ASSUME Init PROVE KeptInv
  OBVIOUS
<1>1. \A b \in Batches : KeptRow(b)
  BY DEF Init, JobsInit, NoRow, QueueInit, KeptRow, Fed, Listed, InReady, Holds, Status, Begun
<1>2. \A w \in Workers : KeptTask(w)
  BY FreshIsTask DEF Init, NoTask, KeptTask, TaskPoints
<1> QED BY <1>1, <1>2 DEF KeptInv

LEMMA KeptWhileExclusive == SafetySpec => [](late <= 1 => KeptInv)
<1>1. Init => (late <= 1 => KeptInv)
  BY KeptInitInv
<1>2. /\ LifecycleInv /\ LifecycleInv' /\ StageInv /\ ExclusiveUnlessLapsed
      /\ (late <= 1 => KeptInv) /\ [Next]_vars
      => (late <= 1 => KeptInv)'
  <2> SUFFICES ASSUME LifecycleInv, LifecycleInv', StageInv, ExclusiveUnlessLapsed,
                      late <= 1 => KeptInv, [Next]_vars, late' <= 1
               PROVE  KeptInv'
    OBVIOUS
  <2>1. late' \in Nat
    BY DEF LifecycleInv, DataInv, QueueInv, QueueTypeOK
  <2>2. late <= 1
    BY <2>1, LateGrows
  <2> QED BY <2>2, KeptNextInv
<1> QED BY LifecycleInvariant, StagesAreKept, LifecycleInherits, <1>1, <1>2, PTL DEF SafetySpec

(***************************************************************************)
(* A job a worker has begun with stays in the queue until it is terminal,  *)
(* whatever crashes and fails and is redelivered, until a second lapse     *)
(* puts two workers inside Process for it.                                 *)
(***************************************************************************)
THEOREM BegunJobsStayQueued == SafetySpec => [](late <= 1 => BegunJobStaysQueued)
<1>1. KeptInv => BegunJobStaysQueued
  BY DEF KeptInv, KeptRow, BegunJobStaysQueued, Begun
<1> QED BY KeptWhileExclusive, <1>1, PTL

-----------------------------------------------------------------------------
(***************************************************************************)
(* One outcome.  While two workers are not inside Process for one batch    *)
(* and fewer calls have failed than a settlement is retried, a price that  *)
(* the hold covers is captured before the retries are used up, so the      *)
(* release of an exhausted settlement never meets a capture:               *)
(*   - a captured job is settling, at the price of its row, or completed;  *)
(*   - a settlement whose price is covered was retried for failed calls    *)
(*     only, because the pool covers its hold;                             *)
(*   - a job that is not terminal is refunded with its retries used up.    *)
(***************************************************************************)
HeldRow(b) == job[b].named \/ at["submit"][b] \in Reserved => "hold" \in moved[b]

Captured(b) == "capture" \in moved[b]

OneRow(b) ==
    /\ Captured(b) => /\ Status(b) \in {"settling", "completed", "output_deleted"}
                      /\ "hold" \in moved[b] /\ "release" \notin moved[b]
    /\ Captured(b) /\ Status(b) = "settling" => job[b].cost = fingerprint[b] /\ job[b].cost <= Hold
    /\ Status(b) = "settling" /\ job[b].cost <= Hold => job[b].retries <= faults + lost
    /\ job[b].retries = 0 \/ Status(b) \in Terminal \union {"settling"}
    /\ job[b].named /\ "release" \in moved[b] /\ Status(b) \notin Terminal =>
          Status(b) = "settling" /\ job[b].retries = MaxRetries

Settling == {"capture", "record", "exhaust", "recordRelease"}

OneTask(w) ==
    /\ task[w].at \in Settling => Status(wcur[w]) = "settling"
    /\ task[w].at = "capture" => task[w].cost = job[wcur[w]].cost /\ task[w].cost <= Hold
    /\ task[w].at = "record" /\ job[wcur[w]].cost <= Hold => job[wcur[w]].retries < faults + lost
    /\ task[w].at \in {"exhaust", "recordRelease"} => job[wcur[w]].retries = MaxRetries
    /\ task[w].at \in {"poll", "transit", "index"} => ~Captured(wcur[w])

OneInv ==
    /\ \A b \in Batches : HeldRow(b) /\ OneRow(b)
    /\ \A w \in Workers : OneTask(w)

\* few lapses and few failures
Sound == late <= 1 /\ faults + lost < MaxRetries

LEMMA SumsGrow ==
    ASSUME NEW a \in Nat, NEW b \in Nat, NEW c \in Nat, NEW d \in Nat, c >= a, d >= b
    PROVE  a + b \in Nat /\ c + d \in Nat /\ c + d >= a + b
OBVIOUS

LEMMA SoundBefore ==
    ASSUME LifecycleInv, LifecycleInv', [Next]_vars
    PROVE  /\ faults + lost \in Nat /\ faults' + lost' \in Nat
           /\ faults' + lost' >= faults + lost
           /\ Sound' => Sound
<1>1. ControlInv /\ ControlInv' /\ ControlStep /\ late \in Nat /\ late' \in Nat /\ late' >= late
  BY EveryStepControls, LateGrows DEF LifecycleInv, DataInv, QueueInv, QueueTypeOK
<1>2. /\ faults \in Nat /\ lost \in Nat /\ faults' \in Nat /\ lost' \in Nat
      /\ faults' >= faults /\ lost' >= lost
  BY <1>1 DEF ControlInv, ControlStep, BudgetStep, NoFault, Fault, Lost, budgets
<1>3. faults + lost \in Nat /\ faults' + lost' \in Nat /\ faults' + lost' >= faults + lost
  BY <1>2, SumsGrow
<1>4. \A m, n \in Nat : m >= n /\ m < MaxRetries => n < MaxRetries
  OBVIOUS
<1>5. \A m, n \in Nat : m >= n /\ m <= 1 => n <= 1
  OBVIOUS
<1> QED BY <1>1, <1>3, <1>4, <1>5 DEF Sound

\* One worker is at one point.
LEMMA OneWorks ==
    ASSUME LifecycleInv, ExclusiveUnlessLapsed, late <= 1, NEW c \in Batches,
           NEW v \in Workers, NEW w \in Workers, NEW p, NEW q, Works(v, c, p), Works(w, c, q)
    PROVE  v = w /\ p = q
BY DEF Works, In, ExclusiveUnlessLapsed, Processes, LifecycleInv, DataInv, QueueInv, QueueTypeOK

\* What may become of a settling row.
LEMMA SettlingPath ==
    ASSUME LifecycleInv, StageInv, [Next]_vars, NEW c \in Batches, Status(c) = "settling"
    PROVE  /\ \/ job'[c].status = "settling"
              \/ job'[c].status = "completed" /\ \E w \in Workers : Works(w, c, "mark")
              \/ /\ job'[c].status \in {"completed", "failed"}
                 /\ \E w \in Workers : Works(w, c, "transit")
           /\ job'[c].cost = job[c].cost
<1>1. RowPath(c) /\ RowInv(c) /\ HandlerInv(c)
  BY EveryPath DEF Paths, StageInv
<1>2. at["submit"][c] \notin {"mark", "markUnrefunded"}
  BY <1>1 DEF RowInv, HandlerInv, Unrecorded, Opening, Dead
<1> QED BY <1>1, <1>2 DEF RowPath, StatusPath, Leaves, CanTransition, Submitting, Terminal

LEMMA HeldRowKept ==
    ASSUME LifecycleInv, OneInv, [Next]_vars, NEW c \in Batches
    PROVE  HeldRow(c)'
<1>1. /\ HeldRow(c) /\ NamePath(c, job'[c].status, job'[c].named) /\ MoneyPath(c)
      /\ SubmitPath(c)
  BY EveryPath DEF OneInv, Paths, RowPath, ControlPath
<1>2. "hold" \in moved[c] => "hold" \in moved'[c]
  BY <1>1 DEF MoneyPath
<1> QED BY <1>1, <1>2 DEF HeldRow, NamePath, SubmitPath, Reserved

\* A refund of a named job is that of a dead one, or of an exhausted settlement.
LEMMA RefundingOf ==
    ASSUME LifecycleInv, StageInv, OneInv, [Next]_vars, NEW c \in Batches, Refunding(c),
           job[c].named
    PROVE  \/ Status(c) \in Dead
           \/ /\ Status(c) = "settling" /\ job[c].retries = MaxRetries
              /\ \E w \in Workers : Works(w, c, "exhaust")
<1>1. HandlerInv(c)
  BY DEF StageInv
<1>2. \A w \in Workers : Works(w, c, "refund") => Status(c) \in Dead
  BY DEF Works, In, StageInv, StageTask
<1>3. \A w \in Workers : Works(w, c, "exhaust") => Status(c) = "settling" /\ job[c].retries = MaxRetries
  BY DEF Works, In, OneInv, OneTask, Settling
<1> QED BY <1>1, <1>2, <1>3 DEF Refunding, HandlerInv, Unrecorded

LEMMA OneRowKept ==
    ASSUME LifecycleInv, LifecycleInv', StageInv, ExclusiveUnlessLapsed, Sound, OneInv,
           [Next]_vars, NEW c \in Batches
    PROVE  OneRow(c)'
<1> DEFINE S == Status(c)
           S2 == job'[c].status
           few == faults + lost
           few2 == faults' + lost'
           Row1 == job[c]
           Row2 == job'[c]
<1>1. /\ StatusPath(c, S2) /\ NamePath(c, S2, Row2.named) /\ RetryPath(c, Row2.retries)
      /\ MoneyPath(c)
  BY EveryPath DEF Paths, RowPath
<1>2. /\ RowInv(c) /\ HandlerInv(c) /\ Advances(c) /\ OneRow(c) /\ HeldRow(c)
      /\ Row1.retries \in 0..MaxRetries
  BY StageNextInv DEF StageInv, OneInv, LifecycleInv, DataInv, JobsTypeOK, Rows
<1>3. late <= 1 /\ few \in Nat /\ few2 \in Nat /\ few2 >= few /\ few < MaxRetries
  BY SoundBefore DEF Sound
<1>4. ASSUME NEW w \in Workers, Works(w, c, "capture") \/ Works(w, c, "record") \/ Works(w, c, "recordRelease")
      PROVE  /\ S = "settling"
             /\ Works(w, c, "capture") => task[w].cost = Row1.cost /\ Row1.cost <= Hold
             /\ Works(w, c, "record") /\ Row1.cost <= Hold => Row1.retries < few
             /\ Works(w, c, "recordRelease") => Row1.retries = MaxRetries
  BY <1>4 DEF Works, In, OneInv, OneTask, Settling
<1>5. S = "settling" => /\ Row1.named /\ "hold" \in moved[c] /\ Row2.cost = Row1.cost
                        /\ S2 \in Terminal \union {"settling"}
  BY <1>2, SettlingPath DEF RowInv, HeldRow, Opening, Dead, Terminal
<1>6. S \in {"completed", "output_deleted"} =>
         Row1.named /\ S2 \in {"completed", "output_deleted"}
  <2>1. S \in {"completed", "output_deleted"} => Row1.named
    BY <1>2 DEF RowInv, Opening, Dead
  <2> QED BY <1>1, <1>2, <2>1 DEF StatusPath, Leaves, CanTransition, Submitting, HandlerInv, Unrecorded, Terminal
\* a price that is covered keeps retries in hand
<1>7. S = "settling" /\ Row1.cost <= Hold => Row1.retries # MaxRetries
  BY <1>2, <1>3 DEF OneRow
<1>8. Captured(c) => Captured(c)' /\ "hold" \in moved'[c] /\ "release" \notin moved'[c]
                     /\ fingerprint'[c] = fingerprint[c]
  <2> SUFFICES ASSUME Captured(c) PROVE Captured(c)' /\ "hold" \in moved'[c] /\ "release" \notin moved'[c]
                                        /\ fingerprint'[c] = fingerprint[c]
    OBVIOUS
  <2>1. S \in {"settling", "completed", "output_deleted"} /\ "hold" \in moved[c]
        /\ "release" \notin moved[c] /\ Row1.named
    BY <1>2, <1>5, <1>6 DEF OneRow
  <2>2. ~Refunding(c)
    <3>1. S = "settling" => Row1.retries # MaxRetries
      BY <1>2, <1>7 DEF OneRow
    <3> QED BY <2>1, <3>1, RefundingOf DEF Dead
  <2>3. fingerprint'[c] = fingerprint[c]
    BY EveryStepStores, StoreStepKeeps DEF Stable, Captured, LifecycleInv
  <2> QED BY <1>1, <2>1, <2>2, <2>3 DEF MoneyPath, Captured
<1>9. Captured(c)' /\ ~Captured(c) =>
         \E w \in Workers : /\ Works(w, c, "capture") /\ fingerprint'[c] = task[w].cost
                            /\ moved'[c] = moved[c] \union {"capture"}
  BY <1>1 DEF MoneyPath, Captured
<1>10. S # "settling" /\ S2 \notin Terminal => Row2.retries = 0
  BY <1>1, <1>2, <1>4 DEF RetryPath, OneRow, Advances
\* the conjuncts of OneRow
<1>11. (Captured(c) => Status(c) \in {"settling", "completed", "output_deleted"}
                       /\ "hold" \in moved[c] /\ "release" \notin moved[c])'
  <2>1. CASE Captured(c)
    <3>1. \A w \in Workers : ~Works(w, c, "transit")
      BY <2>1 DEF Works, In, OneInv, OneTask
    <3>2. S = "settling" => S2 \in {"settling", "completed"}
      BY <3>1, SettlingPath
    <3> QED BY <1>2, <1>6, <1>8, <2>1, <3>2 DEF OneRow, Status
  <2>2. CASE ~Captured(c) /\ Captured(c)'
    <3>1. PICK w \in Workers : Works(w, c, "capture") /\ moved'[c] = moved[c] \union {"capture"}
      BY <1>9, <2>2
    <3>2. S = "settling" /\ Row1.cost <= Hold /\ Row1.named /\ "hold" \in moved[c]
      BY <1>4, <1>5, <3>1
    <3>3. "release" \notin moved[c]
      BY <1>2, <1>7, <3>2 DEF OneRow, Terminal
    <3>4. \A v \in Workers : ~Works(v, c, "transit")
      BY <1>3, <3>1, OneWorks
    <3>5. S2 \in {"settling", "completed"}
      BY <3>2, <3>4, SettlingPath
    <3> QED BY <3>1, <3>2, <3>3, <3>5 DEF Status
  <2> QED BY <2>1, <2>2
<1>12. (Captured(c) /\ Status(c) = "settling" => job[c].cost = fingerprint[c] /\ job[c].cost <= Hold)'
  <2> SUFFICES ASSUME Captured(c)', S2 = "settling"
               PROVE  Row2.cost = fingerprint'[c] /\ Row2.cost <= Hold
    BY DEF Status
  <2>1. CASE Captured(c)
    <3>1. S = "settling"
      BY <1>2, <1>6, <2>1 DEF OneRow
    <3> QED BY <1>2, <1>5, <1>8, <2>1, <3>1 DEF OneRow
  <2>2. CASE ~Captured(c)
    BY <1>4, <1>5, <1>9, <2>2
  <2> QED BY <2>1, <2>2
<1>13. (Status(c) = "settling" /\ job[c].cost <= Hold => job[c].retries <= faults + lost)'
  <2> SUFFICES ASSUME S2 = "settling", Row2.cost <= Hold PROVE Row2.retries <= few2
    BY DEF Status
  <2>1. CASE S # "settling"
    <3>1. Row2.retries = 0
      BY <1>10, <2>1 DEF Terminal
    <3> QED BY <1>3, <3>1
  <2>2. CASE S = "settling"
    <3>1. Row1.cost <= Hold /\ Row1.retries <= few
      BY <1>2, <1>5, <2>2 DEF OneRow
    <3>2. Row2.retries = Row1.retries \/ (Row2.retries = RetriesAfter(c) /\ Row1.retries < few)
      BY <1>1, <1>4, <1>7, <2>2, <3>1 DEF RetryPath
    <3>3. RetriesAfter(c) = Row1.retries + 1 \/ Row1.retries >= MaxRetries
      BY <1>2 DEF RetriesAfter
    <3> HIDE DEF few, few2
    <3>4. Row1.retries < few => Row1.retries + 1 <= few2 /\ Row1.retries < MaxRetries
      BY <1>2, <1>3
    <3>5. Row1.retries <= few2
      BY <1>2, <1>3, <3>1
    <3> QED BY <1>2, <3>2, <3>3, <3>4, <3>5
  <2> QED BY <2>1, <2>2
<1>14. (job[c].retries = 0 \/ Status(c) \in Terminal \union {"settling"})'
  BY <1>5, <1>10 DEF Status
<1>15. (job[c].named /\ "release" \in moved[c] /\ Status(c) \notin Terminal =>
          Status(c) = "settling" /\ job[c].retries = MaxRetries)'
  <2> SUFFICES ASSUME Row2.named, "release" \in moved'[c], S2 \notin Terminal
               PROVE  S2 = "settling" /\ Row2.retries = MaxRetries
    BY DEF Status
  <2>1. S \notin Terminal /\ S \notin Dead
    BY <1>2 DEF Advances, Dead, Terminal
  <2>2. Row1.named
    <3> SUFFICES ASSUME ~Row1.named PROVE FALSE
      OBVIOUS
    <3>1. at["submit"][c] = "record" /\ UNCHANGED moved
      BY <1>1 DEF NamePath
    <3> QED BY <1>2, <2>1, <3>1 DEF HandlerInv, Forward
  <2>3. S = "settling" /\ Row1.retries = MaxRetries
    <3>1. CASE "release" \in moved[c]
      BY <1>2, <2>1, <2>2, <3>1 DEF OneRow
    <3>2. CASE "release" \notin moved[c]
      <4>1. Refunding(c)
        BY <1>1, <3>2 DEF MoneyPath
      <4> QED BY <2>1, <2>2, <4>1, RefundingOf
    <3> QED BY <3>1, <3>2
  <2> QED BY <1>1, <1>5, <2>3 DEF RetryPath, RetriesAfter
<1> QED BY <1>11, <1>12, <1>13, <1>14, <1>15 DEF OneRow

-----------------------------------------------------------------------------
(***************************************************************************)
(* The pool holds what is unresolved: of the batches that froze money, the *)
(* captured, the released and the unresolved ones are apart.               *)
(***************************************************************************)
Apart(b) ==
    /\ Captured(b) => "hold" \in moved[b]
    /\ ~({"capture", "release"} \subseteq moved[b])

LEMMA PoolCovers ==
    ASSUME LedgerInv, PoolAccounted, \A b \in Batches : Apart(b)
    PROVE  PoolCoversHolds
<1> DEFINE U == { b \in Batches : Unresolved(b) }
           H == Moved("hold")
           C == Moved("capture")
           R == Moved("release")
<1>1. IsFiniteSet(Batches) /\ IsFiniteSet(U) /\ IsFiniteSet(H) /\ IsFiniteSet(C) /\ IsFiniteSet(R)
      /\ IsFiniteSet(C \union R)
  <2>1. C \union R \subseteq Batches /\ H \subseteq Batches /\ C \subseteq Batches
        /\ R \subseteq Batches /\ U \subseteq Batches
    BY DEF Moved
  <2>2. IsFiniteSet(Batches)
    BY IdsAssumption
  <2> QED BY <2>1, <2>2, FS_Subset
<1>2. C \intersect R = {} /\ U \intersect (C \union R) = {} /\ H = U \union (C \union R)
  <2>1. \A b \in Batches : Apart(b) /\ moved[b] \subseteq {"hold", "capture", "release"}
           /\ ("release" \in moved[b] => "hold" \in moved[b])
    BY DEF LedgerInv, LedgerTypeOK, NoPhantomRelease, Kinds
  <2>2. \A b \in Batches : "hold" \in moved[b] <=>
           (Unresolved(b) \/ "capture" \in moved[b] \/ "release" \in moved[b])
    BY <2>1 DEF Apart, Captured, Unresolved
  <2>3. \A b \in Batches : Unresolved(b) => "capture" \notin moved[b] /\ "release" \notin moved[b]
    BY DEF Unresolved
  <2> QED BY <2>1, <2>2, <2>3 DEF Moved, Apart
<1>3. /\ Cardinality(C \union R) = Cardinality(C) + Cardinality(R) - Cardinality(C \intersect R)
      /\ Cardinality(U \union (C \union R))
            = Cardinality(U) + Cardinality(C \union R) - Cardinality(U \intersect (C \union R))
  BY <1>1, FS_Union
<1>4. Cardinality({}) = 0
  BY FS_EmptySet
<1>5. /\ Cardinality(U) \in Nat /\ Cardinality(H) \in Nat /\ Cardinality(C) \in Nat
      /\ Cardinality(R) \in Nat
  BY <1>1, FS_CardinalityType
<1> HIDE DEF U, H, C, R
<1>6. Cardinality(H) - Cardinality(C) - Cardinality(R) = Cardinality(U)
  <2>1. /\ Cardinality(C \intersect R) = 0 /\ Cardinality(U \intersect (C \union R)) = 0
        /\ Cardinality(H) = Cardinality(U \union (C \union R))
    BY <1>2, <1>4
  <2>2. /\ Cardinality(C \union R) = Cardinality(C) + Cardinality(R)
        /\ Cardinality(H) = Cardinality(U) + Cardinality(C \union R)
    BY <1>1, <1>3, <1>5, <2>1, FS_CardinalityType
  <2>3. \A u, h, c, r, cr \in Nat : cr = c + r /\ h = u + cr => h - c - r = u
    OBVIOUS
  <2>4. Cardinality(C \union R) \in Nat
    BY <1>1, FS_CardinalityType
  <2> QED BY <1>5, <2>2, <2>3, <2>4
<1>7. frozen = Pool + Hold * Cardinality(U)
  BY <1>6 DEF PoolAccounted, H, C, R
<1>8. Hold * Cardinality(U) \in Int
  BY <1>5, LedgerAssumption
<1> QED BY <1>7, <1>8, LedgerAssumption DEF PoolCoversHolds, U, LedgerInv, LedgerTypeOK

\* what one unresolved batch needs is there
LEMMA PoolCoversOne ==
    ASSUME LedgerInv, PoolAccounted, \A b \in Batches : Apart(b), NEW c \in Batches, Unresolved(c)
    PROVE  frozen >= Hold
<1> DEFINE U == { b \in Batches : Unresolved(b) }
<1>1. IsFiniteSet(U) /\ Cardinality(U) \in Nat
  BY IdsAssumption, FS_Subset, FS_CardinalityType
<1>2. U # {}
  OBVIOUS
<1>3. Cardinality(U) # 0
  BY <1>1, <1>2, FS_EmptySet
<1>4. frozen >= Pool + Hold * Cardinality(U)
  BY PoolCovers DEF PoolCoversHolds
<1> HIDE DEF U
<1>5. \A n \in Nat \ {0} : Pool + Hold * n >= Hold
  <2> TAKE n \in Nat \ {0}
  <2>1. n - 1 \in Nat
    OBVIOUS
  <2>2. Hold * n = Hold * (n - 1) + Hold
    BY <2>1, LedgerAssumption
  <2>3. Hold * (n - 1) \in Nat
    BY <2>1, LedgerAssumption
  <2> QED BY <2>2, <2>3, LedgerAssumption
<1>6. Hold * Cardinality(U) \in Nat
  BY <1>1, LedgerAssumption
<1>7. frozen \in Nat /\ Pool + Hold * Cardinality(U) >= Hold
  BY <1>1, <1>3, <1>5 DEF LedgerInv, LedgerTypeOK
<1> QED BY <1>4, <1>6, <1>7, LedgerAssumption

LEMMA OneIsApart ==
    ASSUME OneInv PROVE \A b \in Batches : Apart(b)
BY DEF OneInv, OneRow, Apart, Captured

-----------------------------------------------------------------------------
LEMMA BystanderOne ==
    ASSUME LifecycleInv, LifecycleInv', StageInv, ExclusiveUnlessLapsed, Sound, OneInv,
           [Next]_vars, NEW v \in Workers, task'[v] = task[v],
           wpc[v] = "processing" => wcur'[v] = wcur[v]
    PROVE  OneTask(v)'
<1>1. CASE wpc[v] # "processing"
  BY <1>1, FreshIsTask DEF LifecycleInv, TaskInv, NoTask, OneTask, Settling, TaskPoints
<1>2. CASE wpc[v] = "processing"
  <2> DEFINE c == wcur[v]
             p == task[v].at
  <2>1. c \in Batches /\ wcur'[v] = c /\ OneTask(v) /\ Works(v, c, p)
    BY <1>2, WorkersBatch DEF OneInv, Works, In
  <2>2. /\ RetryPath(c, job'[c].retries) /\ MoneyPath(c)
        /\ job[c].retries \in 0..MaxRetries
    BY <2>1, EveryPath DEF Paths, RowPath, LifecycleInv, DataInv, JobsTypeOK, Rows
  <2>3. late <= 1 /\ faults + lost \in Nat /\ faults' + lost' \in Nat /\ faults' + lost' >= faults + lost
    BY SoundBefore DEF Sound
  <2>4. \A w \in Workers : \A q : Works(w, c, q) => w = v /\ q = p
    BY <2>1, <2>3, OneWorks
  <2>5. CASE p \in Settling
    <3>1. Status(c) = "settling"
      BY <2>1, <2>5 DEF OneTask
    <3>2. \A w \in Workers : ~Works(w, c, "mark") /\ ~Works(w, c, "transit")
      BY <2>4, <2>5 DEF Settling
    <3>3. job'[c].status = "settling" /\ job'[c].cost = job[c].cost
      BY <2>1, <3>1, <3>2, SettlingPath
    <3>4. job'[c].retries = job[c].retries
      BY <2>2, <2>4 DEF RetryPath
    <3>5. job[c].retries < faults + lost => job'[c].retries < faults' + lost'
      BY <2>2, <2>3, <3>4
    <3> QED BY <2>1, <2>5, <3>3, <3>4, <3>5 DEF OneTask, Settling, Status
  <2>6. CASE p \in {"poll", "transit", "index"}
    <3>1. \A w \in Workers : ~Works(w, c, "capture")
      BY <2>4, <2>6
    <3>2. ~Captured(c)'
      BY <2>1, <2>2, <2>6, <3>1 DEF OneTask, MoneyPath, Captured
    <3> QED BY <2>1, <2>6, <3>2 DEF OneTask, Settling, Captured
  <2>7. CASE p \notin Settling \union {"poll", "transit", "index"}
    BY <2>1, <2>7 DEF OneTask, Settling
  <2> QED BY <2>5, <2>6, <2>7
<1> QED BY <1>1, <1>2

LEMMA ProcessOne ==
    ASSUME LifecycleInv, LifecycleInv', StageInv, PoolAccounted, Sound, OneInv,
           NEW w \in Workers, ProcessStep(w) \/ CallFails(w)
    PROVE  OneTask(w)'
<1> DEFINE c == wcur[w]
           S == job[c].status
           Quiet == TaskPoints \ (Settling \union {"poll", "transit", "index"})
           Aside == {"poll", "transit", "index"}
           NextAt(p) == task'[w].at = p
<1>1. /\ c \in Batches /\ wcur'[w] = c /\ OneTask(w) /\ StageTask(w) /\ RowInv(c)
      /\ OneRow(c) /\ HeldRow(c) /\ job \in [Batches -> Rows]
      /\ LedgerInv /\ CaptureMoved(c) /\ [Next]_vars
  <2>1. wpc[w] = "processing" /\ UNCHANGED wcur
    BY ProcessIsOwn
  <2> QED BY <2>1, WorkersBatch DEF Next, OneInv, StageInv, LifecycleInv, DataInv, JobsTypeOK
<1>2. /\ faults + lost \in Nat /\ faults' + lost' \in Nat /\ faults' + lost' >= faults + lost
      /\ faults + lost < MaxRetries /\ job[c].retries \in 0..MaxRetries
  BY <1>1, SoundBefore DEF Sound, Rows
<1>3. \A p \in Quiet : NextAt(p) => OneTask(w)'
  BY DEF OneTask, Settling
<1>4. \A p \in Aside : NextAt(p) /\ moved' = moved /\ ~Captured(c) => OneTask(w)'
  BY <1>1 DEF OneTask, Settling, Captured
<1>5. \A p \in {"exhaust", "recordRelease"} :
         NextAt(p) /\ S = "settling" /\ job' = job /\ job[c].retries = MaxRetries => OneTask(w)'
  BY <1>1 DEF OneTask, Settling, Status
<1>6. NextAt("record") /\ S = "settling" /\ job' = job
      /\ (job[c].cost <= Hold => job[c].retries < faults' + lost') => OneTask(w)'
  BY <1>1 DEF OneTask, Settling, Status
<1>7. \A p \in TaskPoints : NextTask(w, Fresh(p)) \/ Become(w, p) => NextAt(p)
  BY TaskFields
<1> USE DEF In, Row, Mine, Status
<1>8. CASE Route(w)
  BY <1>3, <1>7, <1>8 DEF Route, Decide, TaskPoints, Settling
<1>9. CASE ReadJob(w)
  <2>1. S \notin Terminal \union {"settling"} => ~Captured(c)
    BY <1>1 DEF OneRow, Terminal
  <2>2. CASE S \notin Terminal \union {"settling"} /\ \E s : NextTask(w, [Fresh("poll") EXCEPT !.seen = s])
    <3>1. NextAt("poll") /\ moved' = moved
      BY <1>9, <2>2, TaskFields DEF ReadJob, Decide, NoData, ledgerVars
    <3> QED BY <1>4, <2>1, <2>2, <3>1
  <2>3. CASE S \notin Terminal \union {"settling"} /\ Decide(w, "index")
    <3>1. NextAt("index") /\ moved' = moved
      BY <1>7, <2>3 DEF Decide, NoData, ledgerVars, TaskPoints
    <3> QED BY <1>4, <2>1, <2>3, <3>1
  <2> QED BY <1>3, <1>7, <1>9, <2>2, <2>3 DEF ReadJob, Decide, TaskPoints, Settling
<1>10. CASE Poll(w)
  <2>1. ~Captured(c) /\ moved' = moved
    BY <1>1, <1>10 DEF Poll, OneTask, Decide, Transit, NoData, ledgerVars
  <2>2. CASE \E to, then : Transit(w, to, then)
    <3>1. NextAt("transit")
      BY <2>2, TaskFields
    <3> QED BY <1>4, <2>1, <3>1
  <2> QED BY <1>3, <1>7, <1>10, <2>2 DEF Poll, Decide, TaskPoints, Settling
<1>11. CASE ChangeStatus(w)
  <2>1. ~Captured(c) /\ moved' = moved /\ task[w].then \in Returns \ {"none"}
    BY <1>1, <1>11 DEF ChangeStatus, OneTask, Transits, TransitDenied, OnlyJob, NoData, ledgerVars,
       LifecycleInv, TaskInv
  <2>2. PICK p \in Returns \ {"none"} : NextAt(p)
    BY <1>7, <1>11, <2>1 DEF ChangeStatus, Returns, TaskPoints
  <2> QED BY <1>3, <1>4, <2>1, <2>2 DEF Returns, TaskPoints, Settling
<1>12. CASE Index(w)
  <2>1. ~Captured(c) /\ moved' = moved
    BY <1>1, <1>12 DEF Index, OneTask, Decide, Transit, OnlyJob, NoData, ledgerVars
  <2>2. CASE \E to, then : Transit(w, to, then) \/ NextTask(w, Aim(to, then))
    <3>1. NextAt("transit")
      BY <2>2, TaskFields
    <3> QED BY <1>4, <2>1, <3>1
  <2> QED BY <1>3, <1>7, <1>12, <2>2 DEF Index, Decide, TaskPoints, Settling
<1>13. CASE RefundTerminal(w) \/ RecordRelease(w) \/ Reread(w) \/ Mark(w) \/ CallFails(w)
  <2>1. PICK p \in {"ack", "requeue", "reread"} : NextAt(p)
    BY <1>7, <1>13 DEF RefundTerminal, RecordRelease, Reread, Mark, CallFails, Decide, TaskPoints
  <2> QED BY <1>3, <2>1 DEF TaskPoints, Settling
<1>14. CASE SettleRead(w)
  <2>1. UNCHANGED job
    BY <1>14 DEF SettleRead, Decide, NoData
  <2>2. CASE Decide(w, "ack") \/ Decide(w, "requeue")
    BY <1>3, <1>7, <2>2 DEF Decide, TaskPoints, Settling
  <2>3. CASE S = "settling" /\ job[c].retries >= MaxRetries /\ Decide(w, "exhaust")
    <3>1. NextAt("exhaust") /\ job[c].retries = MaxRetries
      BY <1>2, <1>7, <2>3 DEF Decide, TaskPoints
    <3> QED BY <1>5, <2>1, <2>3, <3>1
  <2>4. CASE S = "settling" /\ job[c].cost > Hold /\ NextTask(w, [Fresh("record") EXCEPT !.then = "requeue"])
    <3>1. NextAt("record")
      BY <2>4, TaskFields
    <3>2. ~(job[c].cost <= Hold)
      <4>1. job[c].cost \in Nat /\ Hold \in Nat
        BY <1>1, <2>4, CostsAssumption, LedgerAssumption DEF LifecycleInv, DataInv, PricedRow
      <4> QED BY <2>4, <4>1
    <3> QED BY <1>6, <2>1, <2>4, <3>1, <3>2
  <2>5. CASE S = "settling" /\ job[c].cost <= Hold
             /\ NextTask(w, [Fresh("capture") EXCEPT !.cost = job[c].cost])
    <3>1. NextAt("capture") /\ task'[w].cost = job[c].cost
      BY <2>5, TaskFields
    <3> QED BY <1>1, <2>1, <2>5, <3>1 DEF OneTask, Settling
  <2> QED BY <1>14, <2>2, <2>3, <2>4, <2>5 DEF SettleRead
<1>15. CASE Capture(w)
  <2>1. /\ S = "settling" /\ task[w].cost = job[c].cost /\ job[c].cost <= Hold
        /\ job[c].retries <= faults + lost /\ job[c].named /\ "hold" \in moved[c] /\ UNCHANGED job
    BY <1>1, <1>15 DEF Capture, OneTask, Settling, OneRow, RowInv, HeldRow, Opening, Dead,
       NoData, OnlyLedger, Failed
  <2>2. ~CaptureRefused(c, task[w].cost)
    <3>1. CASE "capture" \in claim[c]
      BY <1>1, <2>1, <3>1 DEF CaptureMoved, OneRow, Captured, CaptureRefused
    <3>2. CASE "capture" \notin claim[c]
      <4>1. "release" \notin moved[c]
        BY <1>1, <1>2, <2>1 DEF OneRow, Terminal
      <4>2. moved[c] = {"hold"}
        BY <1>1, <2>1, <3>2, <4>1 DEF LedgerInv, LedgerTypeOK, ClaimedWhenMoved, Kinds
      <4>3. frozen >= Hold
        BY <1>1, <4>2, OneIsApart, PoolCoversOne DEF Unresolved
      <4>4. frozen \in Nat /\ Hold \in Nat /\ task[w].cost \in Nat
        BY <1>1, <1>15, LedgerAssumption, CostsAssumption
           DEF LedgerInv, LedgerTypeOK, Capture, LifecycleInv, TaskInv
      <4> QED BY <2>1, <3>2, <4>3, <4>4 DEF CaptureRefused
    <3> QED BY <3>1, <3>2
  <2>3. CASE Become(w, "mark")
    BY <1>3, <1>7, <2>3 DEF TaskPoints, Settling
  <2>4. CASE NextTask(w, [Fresh("record") EXCEPT !.then = "reread"]) /\ (Fault \/ Lost)
    <3>1. NextAt("record")
      BY <2>4, TaskFields
    <3>2. faults' + lost' = faults + lost + 1
      <4>1. faults \in Nat /\ lost \in Nat
        BY DEF LifecycleInv, ControlInv
      <4> QED BY <2>4, <4>1 DEF Fault, Lost
    <3>3. job[c].retries < faults' + lost'
      BY <1>2, <2>1, <3>2
    <3> QED BY <1>6, <2>1, <3>1, <3>3
  <2> QED BY <1>15, <2>2, <2>3, <2>4 DEF Capture, Failed
<1>16. CASE Record(w)
  <2>1. S = "settling" /\ task[w].then \in {"requeue", "reread"}
    BY <1>1, <1>16 DEF Record, OneTask, StageTask, Settling
  <2>2. CASE SetSettlementFailed(c) /\ NextTask(w, Fresh("exhaust")) /\ RetriesAfter(c) >= MaxRetries
    <3>1. NextAt("exhaust")
      BY <1>7, <2>2 DEF TaskPoints
    <3>2. job'[c].status = S /\ job'[c].retries = RetriesAfter(c)
      BY <1>1, <2>2, RowWrites DEF Wrote
    <3>3. RetriesAfter(c) = MaxRetries
      BY <1>2, <2>2 DEF RetriesAfter
    <3> QED BY <1>1, <2>1, <3>1, <3>2, <3>3 DEF OneTask, Settling
  <2>3. CASE NextTask(w, Fresh(task[w].then))
    <3>1. task[w].then \in TaskPoints
      BY <2>1 DEF TaskPoints
    <3>2. NextAt(task[w].then)
      BY <1>7, <2>3, <3>1
    <3> QED BY <1>3, <2>1, <3>2 DEF TaskPoints, Settling
  <2> QED BY <1>16, <2>2, <2>3 DEF Record
<1>17. CASE Exhaust(w)
  <2>1. S = "settling" /\ job[c].retries = MaxRetries /\ UNCHANGED job
    BY <1>1, <1>17 DEF Exhaust, OneTask, Settling, Released, NotReleased, NoData, OnlyLedger, Failed
  <2>2. ~Captured(c)
    BY <1>1, <1>2, <2>1 DEF OneRow
  <2>3. CASE Released(c) /\ NextTask(w, Aim("failed", "reread"))
    <3>1. NextAt("transit")
      BY <2>3, TaskFields
    <3>2. ReleaseHold(c)
      BY <2>3 DEF Released
    <3>3. ~Captured(c)'
      BY <1>1, <2>2, <3>2 DEF ReleaseHold, AlreadyDone, Move, ledgerVars, Captured, LedgerInv,
         LedgerTypeOK
    <3> QED BY <1>1, <3>1, <3>3 DEF OneTask, Settling, Captured
  <2>4. CASE NextTask(w, Fresh("recordRelease"))
    <3>1. NextAt("recordRelease")
      BY <1>7, <2>4 DEF TaskPoints
    <3> QED BY <1>5, <2>1, <3>1
  <2> QED BY <1>17, <2>3, <2>4 DEF Exhaust
<1> QED BY <1>8, <1>9, <1>10, <1>11, <1>12, <1>13, <1>14, <1>15, <1>16, <1>17 DEF ProcessStep

LEMMA OneNextInv ==
    ASSUME LifecycleInv, LifecycleInv', StageInv, ExclusiveUnlessLapsed, PoolAccounted,
           Sound, OneInv, [Next]_vars
    PROVE  OneInv'
<1>1. ASSUME NEW v \in Workers PROVE OneTask(v)'
  <2>1. CASE task'[v] = Fresh("route") \/ task'[v] = NoTask
    BY <2>1 DEF OneTask, Settling, Fresh, NoTask
  <2> QED BY <2>1, TaskSteps, ProcessOne, BystanderOne
<1> QED BY <1>1, HeldRowKept, OneRowKept DEF OneInv

LEMMA OneInitInv == Init => OneInv
<1> SUFFICES ASSUME Init PROVE OneInv
  OBVIOUS
<1>1. \A b \in Batches : HeldRow(b) /\ OneRow(b)
  BY DEF Init, JobsInit, NoRow, LedgerInit, HeldRow, OneRow, Captured, Reserved, Status, Terminal,
         Handlers
<1>2. \A w \in Workers : OneTask(w)
  BY FreshIsTask DEF Init, NoTask, OneTask, Settling, TaskPoints
<1> QED BY <1>1, <1>2 DEF OneInv

LEMMA OneWhileSound == SafetySpec => [](Sound => OneInv)
<1>1. Init => (Sound => OneInv)
  BY OneInitInv
<1>2. /\ LifecycleInv /\ LifecycleInv' /\ StageInv /\ ExclusiveUnlessLapsed /\ PoolAccounted
      /\ (Sound => OneInv) /\ [Next]_vars
      => (Sound => OneInv)'
  BY SoundBefore, OneNextInv
<1> QED BY LifecycleInvariant, StagesAreKept, LifecycleInherits, <1>1, <1>2, PTL
        DEF SafetySpec

(***************************************************************************)
(* A hold is captured or released, never both, as long as no second lapse  *)
(* puts two workers inside Process for a batch and fewer calls fail than a *)
(* settlement is retried.                                                  *)
(***************************************************************************)
THEOREM HoldsHaveOneOutcome == SafetySpec => [](Sound => OneOutcome)
<1>1. OneInv => OneOutcome
  BY OneIsApart DEF Apart, OneOutcome
<1> QED BY OneWhileSound, <1>1, PTL

(***************************************************************************)
(* Under the same premise the pool holds the money of every unresolved     *)
(* batch, whatever the others of the same user do with the shared number.  *)
(***************************************************************************)
THEOREM PoolAlwaysCovers == SafetySpec => [](Sound => PoolCoversHolds)
<1>1. LifecycleInv /\ OneInv /\ PoolAccounted => PoolCoversHolds
  BY OneIsApart, PoolCovers DEF LifecycleInv, DataInv
<1> QED BY LifecycleInvariant, LifecycleInherits, OneWhileSound, <1>1, PTL

-----------------------------------------------------------------------------
(***************************************************************************)
(* The promise.  A step that moves money of a batch, or changes what has   *)
(* become of it, is the step of HoldPromise that does so, and leaves every *)
(* other batch alone.                                                      *)
(***************************************************************************)
MoneyIs(m) ==
    CASE m = {}                  -> "none"
      [] m = {"hold"}            -> "held"
      [] m = {"hold", "capture"} -> "charged"
      [] m = {"hold", "release"} -> "refunded"
      [] OTHER                   -> "broken"

ResultIs(s) ==
    CASE s \in {"completed", "output_deleted"} -> "completed"
      [] s \in Dead                            -> "dead"
      [] OTHER                                 -> "open"

LEMMA PromiseReads ==
    \A b \in Batches : MoneyOf(b) = MoneyIs(moved[b]) /\ ResultOf(b) = ResultIs(Status(b))
BY DEF MoneyOf, MoneyIs, ResultOf, ResultIs, Dead

LEMMA MoneyNames ==
    /\ MoneyIs({}) = "none" /\ MoneyIs({"hold"}) = "held"
    /\ MoneyIs({"hold", "capture"}) = "charged" /\ MoneyIs({"hold", "release"}) = "refunded"
    /\ \A m : "capture" \notin m => MoneyIs(m) # "charged"
<1>1. /\ {} # {"hold"} /\ {} # {"hold", "capture"} /\ {} # {"hold", "release"}
      /\ {"hold"} # {"hold", "capture"} /\ {"hold"} # {"hold", "release"}
      /\ {"hold", "capture"} # {"hold", "release"}
  OBVIOUS
<1>2. \A m : "capture" \notin m => m # {"hold", "capture"}
  OBVIOUS
<1> QED BY <1>1, <1>2 DEF MoneyIs

\* What a step does to the money and the row of one batch: nothing, or one
\* movement of the money, or a change of the row.
LEMMA MoneyMoves ==
    ASSUME LifecycleInv, LifecycleInv', StageInv, OneInv, OneInv', [Next]_vars,
           NEW b \in Batches, moved'[b] # moved[b], UNCHANGED job
    PROVE  \/ moved[b] = {} /\ moved'[b] = {"hold"}
           \/ /\ moved[b] = {"hold"} /\ moved'[b] = {"hold", "capture"}
              /\ Status(b) = "settling"
           \/ moved[b] = {"hold"} /\ moved'[b] = {"hold", "release"}
<1>1. /\ Apart(b) /\ Apart(b)' /\ MoneyPath(b)
      /\ moved[b] \subseteq {"hold", "capture", "release"}
      /\ moved'[b] \subseteq {"hold", "capture", "release"}
      /\ ("release" \in moved[b] => "hold" \in moved[b])
      /\ ("release" \in moved'[b] => "hold" \in moved'[b])
  BY OneIsApart, EveryPath DEF OneInv, OneRow, Apart, Captured, Paths, LifecycleInv, DataInv, LedgerInv,
     LedgerTypeOK, NoPhantomRelease, Kinds
<1>2. CASE moved'[b] = moved[b] \union {"hold"}
  BY <1>1, <1>2 DEF Apart, Captured
<1>3. CASE moved'[b] = moved[b] \union {"release"}
  BY <1>1, <1>3 DEF Apart, Captured
<1>4. CASE moved'[b] = moved[b] \union {"capture"} /\ \E w \in Workers : Works(w, b, "capture")
  <2>1. Status(b) = "settling"
    BY <1>4 DEF Works, In, OneInv, OneTask, Settling
  <2> QED BY <1>1, <1>4, <2>1 DEF Apart, Captured
<1> QED BY <1>1, <1>2, <1>3, <1>4 DEF MoneyPath

LEMMA ResultMoves ==
    ASSUME LifecycleInv, LifecycleInv', StageInv, OneInv, OneInv', [Next]_vars,
           NEW b \in Batches, ResultOf(b)' # ResultOf(b), UNCHANGED moved
    PROVE  /\ ResultOf(b) = "open"
           /\ \/ ResultOf(b)' = "completed" /\ MoneyOf(b) = "charged"
              \/ ResultOf(b)' = "dead" /\ MoneyOf(b) # "charged"
<1>1. /\ Advances(b) /\ PaidRow(b) /\ PaidRow(b)' /\ OneRow(b) /\ OneRow(b)'
      /\ moved[b] \subseteq {"hold", "capture", "release"}
  BY StageNextInv DEF OneInv, LifecycleInv, DataInv, LedgerInv, LedgerTypeOK, Kinds
<1>2. ResultOf(b) = ResultIs(Status(b)) /\ ResultOf(b)' = ResultIs(job'[b].status)
      /\ MoneyOf(b) = MoneyIs(moved[b])
  BY DEF MoneyOf, MoneyIs, ResultOf, ResultIs, Dead, Status
<1>3. "capture" \in moved[b] => moved[b] = {"hold", "capture"}
  BY <1>1 DEF OneRow, Captured
<1>4. CASE job'[b].status \in {"completed", "output_deleted"}
  <2>1. "capture" \in moved[b]
    BY <1>1, <1>4 DEF PaidRow, Status
  <2>2. Status(b) \notin Dead
    BY <1>1, <1>4 DEF Advances, Dead
  <2>3. ResultOf(b)' = "completed" /\ ResultOf(b) # "dead"
    BY <1>2, <1>4, <2>2 DEF ResultIs, Dead
  <2> QED BY <1>2, <1>3, <2>1, <2>3, MoneyNames DEF ResultIs
<1>5. CASE job'[b].status \in Dead
  <2>1. ResultOf(b)' = "dead"
    BY <1>2, <1>5 DEF ResultIs, Dead
  <2>2. "capture" \notin moved[b]
    BY <1>1, <1>5 DEF OneRow, Captured, Status, Dead
  <2>3. Status(b) \notin {"completed", "output_deleted"}
    BY <1>1, <2>2 DEF PaidRow
  <2> QED BY <1>2, <2>1, <2>2, <2>3, MoneyNames DEF ResultIs
<1>6. CASE job'[b].status \notin Dead \union {"completed", "output_deleted"}
  <2>1. Status(b) \notin Dead \union {"completed", "output_deleted"}
    BY <1>1, <1>6 DEF Advances, Dead, Terminal
  <2> QED BY <1>2, <1>6, <2>1 DEF ResultIs
<1> QED BY <1>4, <1>5, <1>6

\* A step writes the money of one batch or the row of one.
LEMMA OneBatchMoves ==
    ASSUME LifecycleInv, [Next]_vars
    PROVE  \/ UNCHANGED <<job, moved>>
           \/ UNCHANGED job /\ \E b \in Batches : \A c \in Batches \ {b} : moved'[c] = moved[c]
           \/ UNCHANGED moved /\ \E b \in Batches : \A c \in Batches \ {b} : job'[c] = job[c]
<1>1. StoreStep /\ job \in [Batches -> Rows] /\ moved \in [Batches -> SUBSET Kinds]
  BY EveryStepStores DEF LifecycleInv, DataInv, JobsTypeOK, LedgerInv, LedgerTypeOK
<1>2. CASE OnlyQueue \/ UNCHANGED <<ledgerVars, job>>
  BY <1>2 DEF OnlyQueue, ledgerVars
<1>3. CASE LedgerNext /\ OnlyLedger
  <2>1. PICK b \in Batches : \/ ReserveHold(b) \/ ReleaseHold(b)
                             \/ \E cost \in Costs : CaptureHold(b, cost)
    BY <1>3 DEF LedgerNext
  <2>2. \A c \in Batches \ {b} : moved'[c] = moved[c]
    BY <1>1, <2>1 DEF ReserveHold, ReleaseHold, CaptureHold, AlreadyDone, ledgerVars, Move
  <2> QED BY <1>3, <2>2 DEF OnlyLedger
<1>4. CASE (\E b \in Batches : PlainJobStep(b) \/ MarkStep(b)) /\ OnlyJob
  <2>1. PICK b \in Batches : PlainJobStep(b) \/ MarkStep(b)
    BY <1>4
  <2>2. \/ job' = job
        \/ \E r : job' = [job EXCEPT ![b] = r]
    BY <2>1 DEF PlainJobStep, MarkStep, CreateJob, RecordSubmitted, TouchSubmitting, FailStale,
       RecordQueueFailure, SetSettlementFailed, MarkOutputDeleted, MarkUserDeleted, ReplaceItems,
       RecordSubmitFailure, Transition, WriteStatus, MarkSettled
  <2> QED BY <1>1, <1>4, <2>2 DEF OnlyJob, ledgerVars
<1> QED BY <1>1, <1>2, <1>3, <1>4 DEF StoreStep

LEMMA PromiseStep ==
    ASSUME LifecycleInv, LifecycleInv', StageInv, OneInv, OneInv', [Next]_vars
    PROVE  [Promise!PromiseNext]_(Promise!promiseVars)
<1> DEFINE M == [b \in Batches |-> MoneyOf(b)]
           R == [b \in Batches |-> ResultOf(b)]
<1>1. \A b \in Batches : /\ M[b] = MoneyIs(moved[b]) /\ M'[b] = MoneyIs(moved'[b])
                         /\ R[b] = ResultIs(job[b].status) /\ R'[b] = ResultIs(job'[b].status)
                         /\ M[b] = MoneyOf(b) /\ R[b] = ResultOf(b) /\ R'[b] = ResultOf(b)'
  BY DEF MoneyOf, MoneyIs, ResultOf, ResultIs, Dead, Status
<1>2. M' = [b \in Batches |-> M'[b]] /\ R' = [b \in Batches |-> R'[b]]
      /\ M = [b \in Batches |-> M[b]] /\ R = [b \in Batches |-> R[b]]
  OBVIOUS
<1>3. UNCHANGED job => R' = R
  BY <1>1, <1>2
<1>4. UNCHANGED moved => M' = M
  BY <1>1, <1>2
<1> HIDE DEF M, R
<1>5. CASE UNCHANGED <<job, moved>>
  BY <1>3, <1>4, <1>5 DEF Promise!promiseVars, M, R
<1>6. ASSUME UNCHANGED job, NEW b \in Batches, \A c \in Batches \ {b} : moved'[c] = moved[c]
      PROVE  [Promise!PromiseNext]_(Promise!promiseVars)
  <2>1. CASE moved'[b] = moved[b]
    <3>1. M' = M
      BY <1>1, <1>2, <1>6, <2>1
    <3> QED BY <1>3, <1>6, <3>1 DEF Promise!promiseVars, M, R
  <2>2. CASE moved'[b] # moved[b]
    <3>1. M' = [M EXCEPT ![b] = M'[b]] /\ R' = R
      BY <1>1, <1>2, <1>3, <1>6
    <3>2. CASE moved[b] = {} /\ moved'[b] = {"hold"}
      <4>1. M[b] = "none" /\ M' = [M EXCEPT ![b] = "held"]
        BY <1>1, <3>1, <3>2, MoneyNames
      <4> QED BY <3>1, <4>1 DEF Promise!PromiseNext, Promise!Freeze, M, R
    <3>3. CASE moved[b] = {"hold"} /\ moved'[b] = {"hold", "capture"} /\ Status(b) = "settling"
      <4>1. M[b] = "held" /\ M' = [M EXCEPT ![b] = "charged"]
        BY <1>1, <3>1, <3>3, MoneyNames
      <4>2. R[b] = "open"
        BY <1>1, <3>3 DEF ResultIs, Dead, Status
      <4> QED BY <3>1, <4>1, <4>2 DEF Promise!PromiseNext, Promise!Charge, M, R
    <3>4. CASE moved[b] = {"hold"} /\ moved'[b] = {"hold", "release"}
      <4>1. M[b] = "held" /\ M' = [M EXCEPT ![b] = "refunded"]
        BY <1>1, <3>1, <3>4, MoneyNames
      <4> QED BY <3>1, <4>1 DEF Promise!PromiseNext, Promise!Refund, M, R
    <3> QED BY <1>6, <2>2, <3>2, <3>3, <3>4, MoneyMoves
  <2> QED BY <2>1, <2>2
<1>7. ASSUME UNCHANGED moved, NEW b \in Batches, \A c \in Batches \ {b} : job'[c] = job[c]
      PROVE  [Promise!PromiseNext]_(Promise!promiseVars)
  <2>1. CASE R'[b] = R[b]
    <3>1. R' = R
      BY <1>1, <1>2, <1>7, <2>1
    <3> QED BY <1>4, <1>7, <3>1 DEF Promise!promiseVars, M, R
  <2>2. CASE R'[b] # R[b]
    <3>1. R' = [R EXCEPT ![b] = R'[b]] /\ M' = M
      BY <1>1, <1>2, <1>4, <1>7
    <3>2. /\ R[b] = "open"
          /\ \/ R'[b] = "completed" /\ M[b] = "charged"
             \/ R'[b] = "dead" /\ M[b] # "charged"
      BY <1>1, <1>7, <2>2, ResultMoves
    <3>3. CASE R'[b] = "completed" /\ M[b] = "charged"
      BY <3>1, <3>2, <3>3 DEF Promise!PromiseNext, Promise!Complete, M, R
    <3>4. CASE R'[b] = "dead" /\ M[b] # "charged"
      BY <3>1, <3>2, <3>4 DEF Promise!PromiseNext, Promise!Fail, M, R
    <3> QED BY <3>2, <3>3, <3>4
  <2> QED BY <2>1, <2>2
<1> QED BY <1>5, <1>6, <1>7, OneBatchMoves

LEMMA PromiseStart == Init => Promise!PromiseInit
<1> SUFFICES ASSUME Init PROVE Promise!PromiseInit
  OBVIOUS
<1>1. \A b \in Batches : moved[b] = {} /\ Status(b) = "absent"
  BY DEF Init, LedgerInit, JobsInit, NoRow, Status
<1>2. \A b \in Batches : MoneyOf(b) = "none" /\ ResultOf(b) = "open"
  BY <1>1, MoneyNames, PromiseReads DEF ResultIs, Dead
<1> QED BY <1>2 DEF Promise!PromiseInit

(***************************************************************************)
(* The detailed subsystem implements the promise to the user: whatever its *)
(* handlers, workers, crashes and retries do, the money of a batch is      *)
(* frozen once, then charged or refunded once, and a batch completes only  *)
(* charged and fails only uncharged.  The premise is the one of            *)
(* HoldsHaveOneOutcome; without it the code breaks the promise.            *)
(***************************************************************************)
THEOREM PromiseIsKept == SafetySpec /\ []Sound => KeepsPromise
<1>1. SafetySpec /\ []Sound => []OneInv
  BY OneWhileSound, PTL
<1> QED BY LifecycleInvariant, StagesAreKept, PromiseStart, PromiseStep, <1>1, PTL
        DEF SafetySpec, KeepsPromise, Promise!PromiseSpec

(***************************************************************************)
(* In particular where the bounds say so: at most one lapse, and fewer     *)
(* failed calls than a settlement has retries.                             *)
(***************************************************************************)
COROLLARY PromiseIsKeptWithinBounds ==
    MaxLate <= 1 /\ MaxFaults + MaxLost < MaxRetries => (SafetySpec => KeepsPromise)
<1> SUFFICES ASSUME MaxLate <= 1, MaxFaults + MaxLost < MaxRetries
             PROVE  SafetySpec => KeepsPromise
  OBVIOUS
<1>1. LifecycleInv => Sound
  <2> SUFFICES ASSUME LifecycleInv PROVE Sound
    OBVIOUS
  <2>1. /\ late \in 0..MaxLate /\ faults \in 0..MaxFaults /\ lost \in 0..MaxLost
        /\ MaxLate \in Nat /\ MaxFaults \in Nat /\ MaxLost \in Nat
    BY QueueAssumption DEF LifecycleInv, DataInv, QueueInv, QueueTypeOK, ControlInv
  <2>2. late <= 1
    BY <2>1
  <2>3. \A i \in 0..MaxFaults, j \in 0..MaxLost : i + j < MaxRetries
    BY <2>1
  <2> QED BY <2>1, <2>2, <2>3 DEF Sound
<1> QED BY LifecycleInvariant, PromiseIsKept, <1>1, PTL

-----------------------------------------------------------------------------
(***************************************************************************)
(* Owners.  Whoever ends a job owes its refund, and whoever owes one       *)
(* carries it out or passes it on:                                         *)
(*   - a handler that owes goes to its release, to the retry and from      *)
(*     there to the queue;                                                 *)
(*   - Submit marks a job as failed without a refund only when it has no   *)
(*     hold, was refunded, or the answer to its reservation was lost;      *)
(*   - a worker acknowledges a job whose refund was answered, or whose     *)
(*     hold was captured.                                                  *)
(***************************************************************************)
Owes == {"refund", "refundMark", "refundStop", "markUnrefunded", "retry"}

Answered(b) == "release" \in claim[b] \/ "capture" \in moved[b]

\* a handler of b that goes from one control point to another
Passes(b, from, to) ==
    from \in Owes =>
        \/ to \in Owes
        \/ "release" \in claim'[b]
        \/ from = "retry" /\ (b \in inflight' \/ faults' > faults)
        \/ from # to /\ deaths' > deaths

Marks(b, from, to) ==
    /\ to \in {"new", "reserve"} => from = to \/ from = "new"
    /\ to = "mark" => \/ from = "mark"
                      \/ "release" \in claim'[b]
                      \/ from = "reserve" /\ (moved'[b] = moved[b] \/ lost' > 0)

PassPath(c) ==
    /\ \A h \in Handlers : Passes(c, at[h][c], at'[h][c])
    /\ Marks(c, at["submit"][c], at'["submit"][c])

LEMMA SamePasses ==
    ASSUME NEW c \in Batches, \A h \in Handlers : at'[h][c] = at[h][c]
    PROVE  PassPath(c)
BY DEF PassPath, Passes, Marks, Handlers

\* A move of h is one of these when its own move is.
LEMMA PassMoves ==
    ASSUME at \in [Handlers -> [Batches -> Points]], NEW b \in Batches, NEW h \in Handlers,
           NEW from, NEW to, Go(h, b, from, to), Passes(b, from, to),
           h = "submit" => Marks(b, from, to),
           NEW c \in Batches
    PROVE  PassPath(c)
<1>1. /\ at[h][b] = from /\ at'[h][b] = to
      /\ \A g \in Handlers : g # h \/ c # b => at'[g][c] = at[g][c]
  BY DEF Go, Handlers
<1>2. CASE c # b
  BY <1>1, <1>2, SamePasses
<1>3. CASE c = b
  <2>1. \A g \in Handlers : Passes(c, at[g][c], at'[g][c])
    BY <1>1, <1>3 DEF Passes
  <2>2. Marks(c, at["submit"][c], at'["submit"][c])
    BY <1>1, <1>3 DEF Marks, Handlers
  <2> QED BY <2>1, <2>2 DEF PassPath
<1> QED BY <1>2, <1>3

LEMMA ReleaseClaims ==
    ASSUME LedgerTypeOK, NEW b \in Batches, ReleaseHold(b)
    PROVE  "release" \in claim'[b]
BY DEF ReleaseHold, AlreadyDone, Claim, LedgerTypeOK, ledgerVars

LEMMA SubmitPasses ==
    ASSUME LifecycleInv, NEW b \in Batches, SubmitStep(b), NEW c \in Batches
    PROVE  PassPath(c)
<1>1. /\ at \in [Handlers -> [Batches -> Points]] /\ faults \in Nat /\ lost \in Nat /\ LedgerTypeOK
  BY DEF LifecycleInv, ControlInv, DataInv, LedgerInv
<1> DEFINE Moves(from, to) == Go("submit", b, from, to) /\ Passes(b, from, to) /\ Marks(b, from, to)
<1>2. \A from, to : Moves(from, to) => PassPath(c)
  BY <1>1, PassMoves DEF Handlers
<1>3. \A from, to :
         Go("submit", b, from, to) /\ from \notin Owes /\ to \notin {"new", "reserve", "mark"}
         => PassPath(c)
  BY <1>2 DEF Passes, Marks
<1>4. CASE \/ SubmitReserve(b) \/ SubmitItems(b) \/ SubmitUpload(b) \/ SubmitProvider(b)
           \/ SubmitRecord(b) \/ SubmitAbort(b) \/ SubmitEnqueue(b) \/ SubmitHide(b)
           \/ ResubmitEnqueue(b)
  BY <1>3, <1>4 DEF SubmitReserve, SubmitItems, SubmitUpload, SubmitProvider, SubmitRecord,
         SubmitAbort, SubmitEnqueue, SubmitHide, ResubmitEnqueue, Owes
<1>5. CASE SubmitNotReserved(b)
  <2>1. moved' = moved \/ lost' > 0
    BY <1>1, <1>5 DEF SubmitNotReserved, Failed, NoData, Lost, ledgerVars
  <2>2. Moves("reserve", "mark")
    BY <1>5, <2>1 DEF SubmitNotReserved, Passes, Marks, Owes
  <2> QED BY <1>2, <2>2
<1>6. CASE SubmitRefund(b)
  <2>1. Released(b) => "release" \in claim'[b]
    BY <1>1, ReleaseClaims DEF Released
  <2>2. \/ Moves("refundMark", "mark") \/ Moves("refundStop", "done")
        \/ Moves("refundMark", "markUnrefunded") \/ Moves("refundStop", "markUnrefunded")
    BY <1>6, <2>1 DEF SubmitRefund, Passes, Marks, Owes
  <2> QED BY <1>2, <2>2
<1>7. CASE SubmitMark(b)
  <2>1. Moves("mark", "hide") \/ Moves("markUnrefunded", "retry")
    BY <1>7 DEF SubmitMark, Passes, Marks, Owes
  <2> QED BY <1>2, <2>1
<1>8. CASE BillingRetry("submit", b, "done")
  <2>1. b \in inflight' \/ faults' > faults
    BY <1>1, <1>8 DEF BillingRetry, Queued, Produce, Enqueue, Failed, Fault
  <2>2. Moves("retry", "done")
    BY <1>8, <2>1 DEF BillingRetry, Passes, Marks, Owes
  <2> QED BY <1>2, <2>2
<1> QED BY <1>4, <1>5, <1>6, <1>7, <1>8 DEF SubmitStep

LEMMA AgentPasses ==
    ASSUME LifecycleInv, NEW b \in Batches, CancelStep(b) \/ RecoverStep(b) \/ Client(b), NEW c \in Batches
    PROVE  PassPath(c)
<1>1. at \in [Handlers -> [Batches -> Points]] /\ faults \in Nat /\ LedgerTypeOK
  BY DEF LifecycleInv, ControlInv, DataInv, LedgerInv
<1>2. \A h \in {"cancel", "recover"} : \A from, to :
         Go(h, b, from, to) /\ Passes(b, from, to) => PassPath(c)
  BY <1>1, PassMoves DEF Handlers
<1>3. \A h \in {"cancel", "recover"} : \A from, to :
         Go(h, b, from, to) /\ from \notin Owes => PassPath(c)
  BY <1>2 DEF Passes
<1>4. CASE CancelProvider(b) \/ CancelEnqueue(b) \/ CancelTransition(b) \/ CancelRead(b) \/ RecoverFail(b)
  <2>1. \E h \in {"cancel", "recover"} : \E from, to : Go(h, b, from, to) /\ from \notin Owes
    BY <1>4 DEF CancelProvider, CancelEnqueue, CancelTransition, CancelRead, RecoverFail, Owes
  <2> QED BY <1>3, <2>1
<1>5. ASSUME NEW h \in {"cancel", "recover"}, AgentRefund(h, b) PROVE PassPath(c)
  <2>1. Released(b) => "release" \in claim'[b]
    BY <1>1, ReleaseClaims DEF Released
  <2>2. \E to : Go(h, b, "refund", to) /\ Passes(b, "refund", to)
    BY <1>5, <2>1 DEF AgentRefund, Passes, Owes
  <2> QED BY <1>2, <2>2
<1>6. ASSUME NEW h \in {"cancel", "recover"}, BillingRetry(h, b, "idle") PROVE PassPath(c)
  <2>1. b \in inflight' \/ faults' > faults
    BY <1>1, <1>6 DEF BillingRetry, Queued, Produce, Enqueue, Failed, Fault
  <2>2. Go(h, b, "retry", "idle") /\ Passes(b, "retry", "idle")
    BY <1>6, <2>1 DEF BillingRetry, Passes
  <2> QED BY <1>2, <2>2
<1>7. CASE SubmitCreate(b) \/ SubmitHeartbeat(b) \/ Resubmit(b)
  <2>1. \E from, to : Go("submit", b, from, to) /\ Passes(b, from, to) /\ Marks(b, from, to)
    BY <1>7 DEF SubmitCreate, SubmitHeartbeat, Resubmit, Passes, Marks, Owes
  <2> QED BY <1>1, <2>1, PassMoves DEF Handlers
<1>8. CASE DeleteOutput(b) \/ DeleteRecord(b)
  BY <1>8, SamePasses DEF DeleteOutput, DeleteRecord
<1> QED BY <1>4, <1>5, <1>6, <1>7, <1>8 DEF CancelStep, RecoverStep, Client

LEMMA CrashPasses ==
    ASSUME LifecycleInv, NEW h \in Handlers, NEW b \in Batches, CrashHandler(h, b), NEW c \in Batches
    PROVE  PassPath(c)
<1> DEFINE to == IF h = "submit" THEN "dead" ELSE "idle"
<1>1. /\ at \in [Handlers -> [Batches -> Points]] /\ deaths' > deaths
      /\ at[h][b] \notin {"new", "done", "dead", "idle"}
  BY DEF LifecycleInv, ControlInv, CrashHandler
<1>2. Go(h, b, at[h][b], to)
  BY DEF Go, CrashHandler
<1>3. Passes(b, at[h][b], to) /\ Marks(b, at[h][b], to)
  BY <1>1 DEF Passes, Marks
<1> QED BY <1>1, <1>2, <1>3, PassMoves

LEMMA EveryPass ==
    ASSUME LifecycleInv, [Next]_vars, NEW c \in Batches
    PROVE  PassPath(c)
<1>1. ASSUME NEW w \in Workers, ProcessStep(w) \/ CallFails(w) PROVE PassPath(c)
  BY <1>1, WorkerPaths, SamePasses
<1>2. CASE \/ UNCHANGED vars \/ QueueOnly
           \/ \E w \in Workers : Start(w) \/ Finish(w) \/ CrashTask(w)
           \/ \E b \in Batches : UpstreamFinishes(b) \/ BecomesOld(b)
  <2>1. UNCHANGED at
    BY <1>2 DEF Start, Finish, CrashTask, UpstreamFinishes, BecomesOld, QueueOnly, NextTask, vars
  <2> QED BY <2>1, SamePasses
<1> QED BY <1>1, <1>2, CrashPasses, SubmitPasses, AgentPasses DEF Next

\* What was answered stays so, and lost answers are not forgotten.
LEMMA AnsweredStays ==
    ASSUME LifecycleInv, [Next]_vars, NEW c \in Batches
    PROVE  /\ Answered(c) => Answered(c)'
           /\ "release" \in claim'[c] => Answered(c)'
           /\ lost > 0 => lost' > 0
<1>1. LedgerTypeOK /\ lost \in Nat /\ lost' \in Nat /\ lost' >= lost /\ StoreStep
  <2>1. ControlInv /\ ControlStep
    BY EveryStepControls DEF LifecycleInv
  <2> QED BY <2>1, EveryStepStores DEF ControlInv, ControlStep, BudgetStep, NoFault, Fault, Lost, budgets,
             LifecycleInv, DataInv, LedgerInv
<1>2. claim[c] \subseteq claim'[c]
  <2>1. UNCHANGED ledgerVars => claim' = claim
    BY DEF ledgerVars
  <2>2. LedgerNext => claim[c] \subseteq claim'[c]
    BY <1>1, <2>1 DEF LedgerNext, ReserveHold, CaptureHold, ReleaseHold, AlreadyDone, Claim, LedgerTypeOK
  <2> QED BY <1>1, <2>1, <2>2 DEF StoreStep, OnlyQueue, OnlyJob
<1>3. moved[c] \subseteq moved'[c]
  BY EveryPath DEF Paths, MoneyPath
<1> QED BY <1>1, <1>2, <1>3 DEF Answered

(***************************************************************************)
(* Submit reserves once, and marks no reserved hold it was told of.        *)
(***************************************************************************)
MarkRow(b) ==
    /\ at["submit"][b] \in {"new", "reserve"} => "hold" \notin moved[b]
    /\ at["submit"][b] = "mark" => "hold" \notin moved[b] \/ Answered(b) \/ lost > 0

LEMMA MarkRowKept ==
    ASSUME LifecycleInv, \A b \in Batches : MarkRow(b), [Next]_vars, NEW c \in Batches
    PROVE  MarkRow(c)'
<1>1. MarkRow(c) /\ Marks(c, at["submit"][c], at'["submit"][c]) /\ MoneyPath(c)
  BY EveryPass, EveryPath DEF PassPath, Paths
<1>2. "hold" \in moved'[c] => "hold" \in moved[c] \/ Leaves("submit", c, "reserve")
  BY <1>1 DEF MoneyPath
<1>3. at'["submit"][c] \in {"new", "reserve"} => "hold" \notin moved'[c]
  BY <1>1, <1>2 DEF MarkRow, Marks, Leaves
<1>4. CASE at'["submit"][c] = "mark" /\ at["submit"][c] = "mark"
  BY <1>1, <1>2, <1>4, AnsweredStays DEF MarkRow, Leaves
<1>5. CASE at'["submit"][c] = "mark" /\ at["submit"][c] # "mark"
  BY <1>1, <1>5, AnsweredStays DEF MarkRow, Marks
<1> QED BY <1>3, <1>4, <1>5 DEF MarkRow

LEMMA RowsAreMarked == SafetySpec => [](\A b \in Batches : MarkRow(b))
<1> DEFINE I == \A b \in Batches : MarkRow(b)
<1>1. Init => I
  BY DEF Init, LedgerInit, MarkRow, Handlers
<1>2. LifecycleInv /\ I /\ [Next]_vars => I'
  BY MarkRowKept
<1>3. LifecycleInv /\ I /\ UNCHANGED vars => I'
  BY <1>2
<1> HIDE DEF I
<1>4. SafetySpec => []I
  BY LifecycleInvariant, <1>1, <1>2, PTL DEF SafetySpec
<1> QED BY <1>4 DEF I

-----------------------------------------------------------------------------
(***************************************************************************)
(* A worker acknowledges no job whose refund is open, while no other one   *)
(* is inside Process for it.                                               *)
(***************************************************************************)
OwedTask(w) ==
    /\ task[w].at \in Settling => Status(wcur[w]) = "settling"
    /\ task[w].at = "ack" => Answered(wcur[w])
    /\ task[w].at = "reread" => Answered(wcur[w]) \/ Status(wcur[w]) = "settling"
    /\ task[w].at = "transit" /\ task[w].then = "reread" => Answered(wcur[w])

OwedInv == \A w \in Workers : OwedTask(w)

\* what is known of every state, besides OwedInv
Known ==
    /\ LifecycleInv /\ StageInv /\ KeptInv /\ ExclusiveUnlessLapsed /\ late <= 1
    /\ \A b \in Batches : MarkRow(b)

\* Only a worker that is about to write the row ends a settlement.
LEMMA SettlingStays ==
    ASSUME Known, [Next]_vars, NEW v \in Workers, NEW p, Works(v, wcur[v], p), wcur[v] \in Batches,
           p \notin {"mark", "transit"}, Status(wcur[v]) = "settling"
    PROVE  job'[wcur[v]].status = "settling"
<1>1. \A w \in Workers : ~Works(w, wcur[v], "mark") /\ ~Works(w, wcur[v], "transit")
  BY OneWorks DEF Known
<1> QED BY <1>1, SettlingPath DEF Known

LEMMA BystanderOwed ==
    ASSUME Known, OwedInv, [Next]_vars, NEW v \in Workers, task'[v] = task[v],
           wpc[v] = "processing" => wcur'[v] = wcur[v]
    PROVE  OwedTask(v)'
<1>1. CASE wpc[v] = "processing"
  <2>1. wcur[v] \in Batches /\ wcur'[v] = wcur[v] /\ OwedTask(v)
    BY <1>1, WorkersBatch DEF OwedInv, Known
  <2>2. Answered(wcur[v]) => Answered(wcur[v])'
    BY <2>1, AnsweredStays DEF Known
  <2>3. \A p : task[v].at = p <=> Works(v, wcur[v], p)
    BY <1>1 DEF Works, In
  <2>4. task[v].at \notin {"mark", "transit"} /\ Status(wcur[v]) = "settling" =>
           job'[wcur[v]].status = "settling"
    BY <2>1, <2>3, SettlingStays
  <2> QED BY <2>1, <2>2, <2>4 DEF OwedTask, Answered, Status, Settling
<1>2. CASE wpc[v] # "processing"
  BY <1>2, FreshIsTask DEF Known, LifecycleInv, TaskInv, NoTask, OwedTask, TaskPoints, Settling
<1> QED BY <1>1, <1>2

LEMMA ProcessOwed ==
    ASSUME Known, LifecycleInv', OwedInv, [Next]_vars, NEW w \in Workers,
           ProcessStep(w) \/ CallFails(w)
    PROVE  OwedTask(w)'
<1> DEFINE c == wcur[w]
           Quiet == TaskPoints \ (Settling \union {"ack", "reread", "transit"})
<1>1. /\ c \in Batches /\ wcur'[w] = c /\ wpc[w] = "processing" /\ OwedTask(w)
      /\ KeptTask(w) /\ LifecycleInv
  <2>1. UNCHANGED wcur /\ wpc[w] = "processing"
    BY ProcessIsOwn
  <2> QED BY <2>1, WorkersBatch DEF Known, OwedInv, KeptInv
<1>2. Answered(c) => Answered(c)'
  BY <1>1, AnsweredStays
<1>3. Status(c) \in {"completed", "output_deleted"} => Answered(c)'
  BY <1>1, <1>2 DEF LifecycleInv, DataInv, PaidRow, Answered
<1>4. job'[c].status \in {"completed", "output_deleted"} => Answered(c)'
  BY <1>1 DEF LifecycleInv, DataInv, PaidRow, Answered, Status
<1>5. ReleaseHold(c) => Answered(c)'
  BY <1>1, ReleaseClaims DEF LifecycleInv, DataInv, LedgerInv, Answered
<1>6. \A p \in Quiet : NextTask(w, Fresh(p)) \/ Become(w, p) => OwedTask(w)'
  BY <1>1, TaskFields DEF OwedTask
<1>7. \A p \in TaskPoints \ Settling : Answered(c)' /\ (NextTask(w, Fresh(p)) \/ Become(w, p)) => OwedTask(w)'
  BY <1>1, TaskFields DEF OwedTask, Answered
<1>8. \A to, then : then # "reread" /\ (NextTask(w, Aim(to, then)) \/ Transit(w, to, then)) => OwedTask(w)'
  BY <1>1, TaskFields DEF OwedTask, Settling
<1>9. \A p : Works(w, c, p) <=> task[w].at = p
  BY <1>1 DEF Works, In
<1>10. task[w].at \notin {"mark", "transit"} /\ Status(c) = "settling" => job'[c].status = "settling"
  BY <1>1, <1>9, SettlingStays
<1>11. \A p \in Settling \union {"reread"} :
          job'[c].status = "settling" /\ (NextTask(w, Fresh(p)) \/ Become(w, p)) => OwedTask(w)'
  BY <1>1, TaskFields DEF OwedTask, Status, Settling, TaskPoints
<1> USE DEF In, Row, Mine, Status
<1>12. CASE Route(w) \/ CallFails(w)
  BY <1>6, <1>12 DEF Route, CallFails, Decide, TaskPoints, Settling
<1>13. CASE ReadJob(w)
  <2>1. CASE \E s : NextTask(w, [Fresh("poll") EXCEPT !.seen = s])
    BY <1>1, <2>1, TaskFields DEF OwedTask, Settling
  <2>2. Row(w).status # "settling"
    BY <1>1, <1>13 DEF ReadJob, KeptTask
  <2> QED BY <1>3, <1>6, <1>7, <1>13, <2>1, <2>2 DEF ReadJob, Decide, TaskPoints, Settling
<1>14. CASE Poll(w) \/ Index(w)
  BY <1>6, <1>8, <1>14 DEF Poll, Index, Decide, TaskPoints, Settling
<1>15. CASE ChangeStatus(w)
  <2>1. task[w].then \in Returns \ {"none"} /\ task[w].at = "transit"
    BY <1>1, <1>15 DEF ChangeStatus, LifecycleInv, TaskInv
  <2>2. task[w].then = "reread" => Answered(c)'
    BY <1>1, <1>2, <2>1 DEF OwedTask
  <2> QED BY <1>6, <1>7, <1>15, <2>1, <2>2 DEF ChangeStatus, TaskPoints, Returns, Settling
<1>16. CASE RefundTerminal(w)
  <2>1. Released(c) => Answered(c)'
    BY <1>5 DEF Released
  <2> QED BY <1>6, <1>7, <1>16, <2>1 DEF RefundTerminal, TaskPoints, Settling
<1>17. CASE Exhaust(w)
  <2>1. Released(c) /\ NextTask(w, Aim("failed", "reread")) => OwedTask(w)'
    BY <1>1, <1>5, TaskFields DEF Released, OwedTask, Settling
  <2>2. job'[c].status = "settling"
    BY <1>1, <1>10, <1>17 DEF Exhaust, OwedTask, Settling
  <2> QED BY <1>11, <1>17, <2>1, <2>2 DEF Exhaust, Settling
<1>18. CASE SettleRead(w)
  <2>1. CASE Row(w).status = "settling"
    <3>1. job'[c].status = "settling"
      BY <1>10, <1>18, <2>1 DEF SettleRead
    <3>2. CASE \/ NextTask(w, [Fresh("record") EXCEPT !.then = "requeue"])
               \/ \E k : NextTask(w, [Fresh("capture") EXCEPT !.cost = k])
      BY <1>1, <3>1, <3>2, TaskFields DEF OwedTask, Settling
    <3> QED BY <1>11, <1>18, <2>1, <3>1, <3>2 DEF SettleRead, Decide, Settling
  <2>2. CASE Row(w).status # "settling"
    BY <1>3, <1>6, <1>7, <1>18, <2>2 DEF SettleRead, Decide, TaskPoints, Settling
  <2> QED BY <2>1, <2>2
<1>19. CASE Capture(w)
  <2>1. job'[c].status = "settling"
    BY <1>1, <1>10, <1>19 DEF Capture, OwedTask, Settling
  <2>2. CASE NextTask(w, [Fresh("record") EXCEPT !.then = "reread"])
    BY <1>1, <2>1, <2>2, TaskFields DEF OwedTask, Settling
  <2> QED BY <1>6, <1>19, <2>2 DEF Capture, TaskPoints, Settling
<1>20. CASE Mark(w)
  <2>1. MarkSettled(c, task[w].cost) => Answered(c)'
    <3>1. job \in [Batches -> Rows]
      BY <1>1 DEF LifecycleInv, DataInv, JobsTypeOK
    <3>2. MarkSettled(c, task[w].cost) => job'[c].status = "completed"
      BY <1>1, <3>1, RowWrites DEF Wrote
    <3> QED BY <1>4, <3>2
  <2> QED BY <1>6, <1>7, <1>20, <2>1 DEF Mark, TaskPoints, Settling
<1>21. CASE Record(w) \/ RecordRelease(w)
  <2>1. task[w].at \in {"record", "recordRelease"} /\ job'[c].status = "settling"
    BY <1>1, <1>10, <1>21 DEF Record, RecordRelease, OwedTask, Settling
  <2>2. task[w].at = "record" => task[w].then \in {"requeue", "reread"}
    BY <1>1 DEF Known, StageInv, StageTask
  <2> QED BY <1>6, <1>11, <1>21, <2>1, <2>2 DEF Record, RecordRelease, TaskPoints, Settling
<1>22. CASE Reread(w)
  <2>1. Row(w).status \in Terminal => Answered(c)'
    BY <1>1, <1>2, <1>22 DEF Reread, OwedTask, Terminal
  <2> QED BY <1>6, <1>7, <1>22, <2>1 DEF Reread, Decide, TaskPoints, Settling
<1> QED BY <1>12, <1>13, <1>14, <1>15, <1>16, <1>17, <1>18, <1>19, <1>20, <1>21, <1>22 DEF ProcessStep

LEMMA OwedWhileExclusive == SafetySpec => [](late <= 1 => OwedInv)
<1>1. Init => (late <= 1 => OwedInv)
  BY FreshIsTask DEF Init, NoTask, OwedInv, OwedTask, TaskPoints, Settling
<1>2. ASSUME Known, LifecycleInv', OwedInv, [Next]_vars PROVE OwedInv'
  <2>1. ASSUME NEW v \in Workers PROVE OwedTask(v)'
    <3>1. CASE task'[v] = Fresh("route") \/ task'[v] = NoTask
      BY <3>1 DEF OwedTask, Fresh, NoTask, Settling
    <3> QED BY <1>2, <3>1, TaskSteps, ProcessOwed, BystanderOwed DEF Known
  <2> QED BY <2>1 DEF OwedInv
<1> DEFINE M == \A b \in Batches : MarkRow(b)
<1>3. /\ LifecycleInv /\ LifecycleInv' /\ StageInv /\ (late <= 1 => KeptInv) /\ M
      /\ ExclusiveUnlessLapsed /\ (late <= 1 => OwedInv) /\ [Next]_vars
      => (late <= 1 => OwedInv)'
  <2> SUFFICES ASSUME LifecycleInv, LifecycleInv', StageInv, late <= 1 => KeptInv, M,
                      ExclusiveUnlessLapsed, late <= 1 => OwedInv, [Next]_vars, late' <= 1
               PROVE  OwedInv'
    OBVIOUS
  <2>1. late <= 1
    <3>1. late' \in Nat
      BY DEF LifecycleInv, DataInv, QueueInv, QueueTypeOK
    <3> QED BY <3>1, LateGrows
  <2> QED BY <1>2, <2>1 DEF Known
<1>4. SafetySpec => []M
  BY RowsAreMarked
<1> HIDE DEF M
<1> QED BY LifecycleInvariant, StagesAreKept, KeptWhileExclusive, LifecycleInherits,
           <1>1, <1>3, <1>4, PTL DEF SafetySpec

-----------------------------------------------------------------------------
\* No step forgets a refund, but by the named losses.
RefundStep ==
    \A b \in Batches :
        RefundPending(b)' /\ ~HasOwner(b)' =>
            \/ Status(b) \in {"failed", "cancelled"} /\ ~HasOwner(b)
            \/ Status(b) \notin {"failed", "cancelled"} /\ lost' > 0
            \/ \E h \in Handlers : at[h][b] = "retry" /\ faults' > faults
            \/ \E h \in Handlers : at'[h][b] # at[h][b] /\ deaths' > deaths

LEMMA RefundSteps ==
    ASSUME Known, LifecycleInv', OwedInv, [Next]_vars
    PROVE  RefundStep
<1> SUFFICES ASSUME NEW c \in Batches, RefundPending(c)', ~HasOwner(c)'
             PROVE  \/ Status(c) \in Dead /\ ~HasOwner(c)
                    \/ Status(c) \notin Dead /\ lost' > 0
                    \/ \E h \in Handlers : at[h][c] = "retry" /\ faults' > faults
                    \/ \E h \in Handlers : at'[h][c] # at[h][c] /\ deaths' > deaths
  BY DEF RefundStep, Dead
<1>1. /\ job'[c].status \in Dead /\ moved'[c] = {"hold"} /\ ~Answered(c)' /\ ~Answered(c)
      /\ "release" \notin claim'[c]
  BY AnsweredStays DEF RefundPending, Unresolved, Answered, Known, Status, Dead
<1>2. c \notin inflight' /\ \A h \in Handlers : at'[h][c] \notin Owes
  BY DEF HasOwner, Owes
<1>3. c \notin inflight
  <2>1. \A w \in Workers : ~Works(w, c, "ack")
    BY <1>1 DEF Works, In, OwedInv, OwedTask
  <2> QED BY <1>2, <2>1, KeyRemoved DEF Known
<1>4. CASE Status(c) \in Dead /\ HasOwner(c)
  <2>1. PICK h \in Handlers : at[h][c] \in Owes
    BY <1>3, <1>4 DEF HasOwner, Owes
  <2>2. Passes(c, at[h][c], at'[h][c])
    BY EveryPass DEF PassPath, Known
  <2> QED BY <1>1, <1>2, <2>1, <2>2 DEF Passes
<1>5. CASE Status(c) \notin Dead
  <2>1. StatusPath(c, job'[c].status) /\ MoneyPath(c) /\ MarkRow(c) /\ KeptRow(c)
    BY EveryPath DEF Known, Paths, RowPath, KeptInv
  <2>2. CASE Leaves("submit", c, "mark")
    <3>1. "hold" \in moved[c]
      BY <1>1, <2>1, <2>2 DEF MoneyPath, Leaves
    <3> QED BY <1>1, <1>5, <2>1, <2>2, <3>1, AnsweredStays DEF MarkRow, Leaves, Known
  <2>3. CASE \E w \in Workers : Works(w, c, "transit") /\ CanTransition(Status(c), job'[c].status)
    <3>1. Status(c) \notin Terminal
      BY <1>1, <2>3 DEF CanTransition, Terminal, Dead
    <3>2. Fed(c)
      BY <2>3 DEF Fed, Works, In, Holds
    <3> QED BY <1>3, <2>1, <3>1, <3>2 DEF KeptRow
  <2> QED BY <1>1, <1>2, <1>5, <2>1, <2>2, <2>3 DEF StatusPath, Leaves, Owes, Handlers, Dead
<1> QED BY <1>4, <1>5

(***************************************************************************)
(* The refund of a dead job is carried out, or its id is used up, by       *)
(* whoever ended it or those it was passed on to; it is forgotten only     *)
(* with a handler's process, with the last retry, or where the answer to   *)
(* the reservation or the cancel was lost: in every time zone, with        *)
(* cancels at any time, for any faults, deaths, lapses and redeliveries,   *)
(* until a second lapse puts two workers inside Process.                   *)
(***************************************************************************)
THEOREM RefundsArePassedOn == SafetySpec /\ [](late <= 1) => RefundIsPassedOn
<1>1. /\ LifecycleInv /\ LifecycleInv' /\ StageInv /\ (late <= 1 => KeptInv)
      /\ ExclusiveUnlessLapsed /\ late <= 1 /\ (\A b \in Batches : MarkRow(b))
      /\ (late <= 1 => OwedInv) /\ [Next]_vars
      => [RefundStep]_vars
  BY RefundSteps DEF Known
<1> DEFINE M == \A b \in Batches : MarkRow(b)
<1>2. SafetySpec => []M
  BY RowsAreMarked
<1>3. /\ LifecycleInv /\ LifecycleInv' /\ StageInv /\ (late <= 1 => KeptInv)
      /\ ExclusiveUnlessLapsed /\ late <= 1 /\ M /\ (late <= 1 => OwedInv) /\ [Next]_vars
      => [RefundStep]_vars
  BY <1>1
<1> HIDE DEF M
<1>4. SafetySpec /\ [](late <= 1) => [][RefundStep]_vars
  BY LifecycleInvariant, StagesAreKept, KeptWhileExclusive, LifecycleInherits, OwedWhileExclusive,
     <1>2, <1>3, PTL DEF SafetySpec
<1> QED BY <1>4 DEF RefundStep, RefundIsPassedOn

=============================================================================
