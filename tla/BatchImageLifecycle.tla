------------------------- MODULE BatchImageLifecycle -------------------------
(***************************************************************************)
(* The life of a batch image job, from Submit to the settlement of its     *)
(* hold: the request handlers (Submit, Cancel, output deletion), the       *)
(* recovery scan and the worker's pipeline, running concurrently over the  *)
(* queue (BatchImageQueue), the job table (BatchImageJobs) and the user's  *)
(* balance (BalanceHold).                                                  *)
(*                                                                         *)
(*   service/batch_image_public.go             Submit, Cancel              *)
(*   service/batch_image_billing_recovery.go   ReleaseStaleUnsubmittedOnce *)
(*   service/batch_image_processor.go          ProviderProcessor, Index    *)
(*   service/batch_image_settlement.go         Settle, PipelineProcessor   *)
(*                                                                         *)
(* A step is one database transaction, one queue operation or one call of  *)
(* the provider.  Each handler is a control point per batch (at) and each  *)
(* worker a control point (task); what a handler read before and still     *)
(* uses is part of its control point.                                      *)
(***************************************************************************)
EXTENDS BatchImageQueue, BatchImageJobs, BalanceHold

CONSTANTS
    EarlyCancel,    \* the client may cancel before Submit has returned
    Deletions,      \* the owner may delete outputs and records
    MaxFaults,      \* bound: calls that fail without effect
    MaxLost,        \* bound: calls that take effect but are reported failed
    MaxLapses,      \* bound: lapses of the submit heartbeat
    MaxDeaths       \* bound: handlers that die between two steps

ASSUME LifecycleAssumption ==
    /\ None \notin Statuses
    /\ EarlyCancel \in BOOLEAN /\ Deletions \in BOOLEAN
    /\ MaxFaults \in Nat /\ MaxLost \in Nat
    /\ MaxLapses \in Nat /\ MaxDeaths \in Nat

VARIABLES
    upstream,       \* batch -> state of the provider's job
    at,             \* handler -> batch -> control point
    task,           \* worker -> control point of Process
    faults, lost, lapses, deaths

budgets == <<faults, lost, lapses, deaths>>
vars == <<queueVars, ledgerVars, job, upstream, at, task, budgets>>

Handlers == {"submit", "cancel", "recover"}

SubmitPoints == {"new", "reserve", "items", "upload", "provider", "record", "abort",
                 "enqueue", "refundMark", "refundStop", "mark", "markUnrefunded", "hide",
                 "retry", "resubmit", "done", "dead"}
AgentPoints  == {"idle", "cancel", "provider", "enqueue", "refund", "retry"}
Points == SubmitPoints \union AgentPoints

TaskPoints == {"none", "route", "process", "poll", "transit", "index", "refund",
               "settle", "capture", "mark", "record", "exhaust", "recordRelease",
               "reread", "ack", "requeue"}

\* to: the status being written; then: the point after it; seen: the status
\* that was read; cost: the price that was read
Tasks == [ at : TaskPoints, to : Statuses \union {None}, then : TaskPoints,
           seen : Statuses \union {"absent", None}, cost : Costs \union {None} ]

Fresh(point) == [ at |-> point, to |-> None, then |-> "none", seen |-> None, cost |-> None ]
NoTask == Fresh("none")

\* about to write a status, from a task that carries nothing else
Aim(to, then) ==
    [ at |-> "transit", to |-> to, then |-> then, seen |-> None, cost |-> None ]

UpstreamStates == {"none", "running", "succeeded", "failed", "cancelled"}

-----------------------------------------------------------------------------
(***************************************************************************)
(* Frames.                                                                 *)
(***************************************************************************)
OnlyQueue    == UNCHANGED <<ledgerVars, job, upstream>>
OnlyLedger   == UNCHANGED <<queueVars, job, upstream>>
OnlyJob      == UNCHANGED <<queueVars, ledgerVars, upstream>>
OnlyUpstream == UNCHANGED <<queueVars, ledgerVars, job>>
NoData       == UNCHANGED <<queueVars, ledgerVars, job, upstream>>

NoFault == UNCHANGED budgets
Fault   == faults < MaxFaults /\ faults' = faults + 1 /\ UNCHANGED <<lost, lapses, deaths>>
Lost    == lost < MaxLost /\ lost' = lost + 1 /\ UNCHANGED <<faults, lapses, deaths>>

\* handler h of batch b goes from one control point to another
Go(h, b, from, to) ==
    /\ at[h][b] = from
    /\ at' = [at EXCEPT ![h][b] = to]
    /\ UNCHANGED task

\* the task of worker w, which is inside Process
In(w, point) == wpc[w] = "processing" /\ task[w].at = point
NextTask(w, t)  == task' = [task EXCEPT ![w] = t] /\ UNCHANGED at
Become(w, point) == NextTask(w, [task[w] EXCEPT !.at = point])

\* Enqueue; ErrBatchImageAlreadyQueued is not an error to any caller
Queued(b) == Produce(b) /\ OnlyQueue /\ NoFault
Failed    == NoData /\ Fault

\* a transition of the status, when it applies; and when the caller is told
\* that it failed, other than by CanTransition
Transits(b, to)      == Transition(b, to) /\ OnlyJob /\ NoFault
TransitFails(b, to)  == Failed \/ (Transition(b, to) /\ OnlyJob /\ Lost)
TransitDenied(b, to) == ~CanTransition(Status(b), to) /\ NoData /\ NoFault

\* releaseBatchImageBalanceHold and its three outcomes
Released(b)   == ReleaseHold(b) /\ OnlyLedger /\ NoFault
NotReleased(b) ==
    \/ ReleaseRefused(b) /\ NoData /\ NoFault
    \/ Failed
    \/ ReleaseHold(b) /\ OnlyLedger /\ Lost

-----------------------------------------------------------------------------
(***************************************************************************)
(* Submit.                                                                 *)
(***************************************************************************)
SubmitCreate(b) == Go("submit", b, "new", "reserve") /\ CreateJob(b) /\ OnlyJob /\ NoFault

SubmitReserve(b) == Go("submit", b, "reserve", "items") /\ ReserveHold(b) /\ OnlyLedger /\ NoFault

\* no release follows: the reservation is taken not to have happened
SubmitNotReserved(b) ==
    /\ Go("submit", b, "reserve", "mark")
    /\ \/ ReserveRefused(b) /\ NoData /\ NoFault
       \/ Failed
       \/ ReserveHold(b) /\ OnlyLedger /\ Lost

SubmitItems(b) ==
    \/ Go("submit", b, "items", "upload") /\ NoData /\ NoFault
    \/ Go("submit", b, "items", "refundMark") /\ Failed

\* An invalid transition means another handler ended the job: its status is
\* then left alone.
SubmitUpload(b) ==
    \/ Go("submit", b, "upload", "provider")   /\ Transits(b, "uploading")
    \/ Go("submit", b, "upload", "refundStop") /\ TransitDenied(b, "uploading")
    \/ Go("submit", b, "upload", "refundMark") /\ TransitFails(b, "uploading")

\* provider.Submit; a lost answer leaves a job upstream that nobody knows of
SubmitProvider(b) ==
    \/ /\ Go("submit", b, "provider", "record")
       /\ upstream' = [upstream EXCEPT ![b] = "running"] /\ OnlyUpstream /\ NoFault
    \/ Go("submit", b, "provider", "refundMark") /\ Failed
    \/ /\ Go("submit", b, "provider", "refundMark")
       /\ upstream' = [upstream EXCEPT ![b] = "running"] /\ OnlyUpstream /\ Lost

SubmitHeartbeat(b) ==
    /\ Go("submit", b, "provider", "provider")
    /\ TouchSubmitting(b) /\ OnlyJob /\ NoFault

SubmitRecord(b) ==
    \/ Go("submit", b, "record", "enqueue") /\ RecordSubmitted(b) /\ OnlyJob /\ NoFault
    \/ /\ Go("submit", b, "record", "abort")
       /\ \/ TransitDenied(b, "submitted")
          \/ Failed
          \/ RecordSubmitted(b) /\ OnlyJob /\ Lost

\* the provider takes a cancel request for a running job and may still finish it
ProviderCancel(b) ==
    upstream' \in { upstream,
                    IF upstream[b] = "running" THEN [upstream EXCEPT ![b] = "cancelled"]
                                               ELSE upstream }

\* abortOrphanProviderJob, best effort
SubmitAbort(b) ==
    /\ Go("submit", b, "abort", "done")
    /\ ProviderCancel(b) /\ OnlyUpstream /\ NoFault

SubmitEnqueue(b) ==
    /\ Go("submit", b, "enqueue", "done")
    /\ \/ Queued(b)
       \/ RecordQueueFailure(b) /\ OnlyJob /\ Fault

\* releaseFailedSubmitHold
SubmitRefund(b) ==
    \/ Go("submit", b, "refundMark", "mark") /\ Released(b)
    \/ Go("submit", b, "refundStop", "done") /\ Released(b)
    \/ /\ Go("submit", b, "refundMark", "markUnrefunded") \/ Go("submit", b, "refundStop", "markUnrefunded")
       /\ NotReleased(b)

\* RecordBatchImageJobSubmitFailure(markFailed), whose own error is ignored
SubmitMark(b) ==
    /\ Go("submit", b, "mark", "hide") \/ Go("submit", b, "markUnrefunded", "retry")
    /\ \/ RecordSubmitFailure(b) /\ OnlyJob /\ NoFault
       \/ Failed

\* hidePreUpstreamSubmitFailure
SubmitHide(b) ==
    /\ Go("submit", b, "hide", "done")
    /\ \/ MarkUserDeleted(b) /\ OnlyJob /\ NoFault
       \/ Failed

\* the request is repeated with its idempotency key
Resubmit(b) ==
    /\ Status(b) = "submitted"
    /\ Go("submit", b, "done", "resubmit") \/ Go("submit", b, "dead", "resubmit")
    /\ NoData /\ NoFault

ResubmitEnqueue(b) ==
    /\ Go("submit", b, "resubmit", "done")
    /\ \/ Queued(b)
       \/ RecordQueueFailure(b) /\ OnlyJob /\ Fault

-----------------------------------------------------------------------------
(***************************************************************************)
(* Cancel: one snapshot of the row decides which way it goes.              *)
(***************************************************************************)
MayCancel(b) == EarlyCancel \/ at["submit"][b] \in {"done", "dead", "resubmit"}

CancelRead(b) ==
    /\ MayCancel(b)
    /\ Status(b) # "absent" /\ ~job[b].hidden
    /\ NoData /\ NoFault
    /\ \/ Status(b) \in {"failed", "cancelled"} /\ Go("cancel", b, "idle", "refund")
       \/ /\ Status(b) \notin Terminal \union {"settling"}
          /\ \/ job[b].named  /\ Go("cancel", b, "idle", "provider")
             \/ ~job[b].named /\ Go("cancel", b, "idle", "cancel")

CancelProvider(b) ==
    \/ Go("cancel", b, "provider", "enqueue") /\ ProviderCancel(b) /\ OnlyUpstream /\ NoFault
    \/ Go("cancel", b, "provider", "idle") /\ Failed

CancelEnqueue(b) == Go("cancel", b, "enqueue", "idle") /\ (Queued(b) \/ Failed)

CancelTransition(b) ==
    \/ Go("cancel", b, "cancel", "refund") /\ Transits(b, "cancelled")
    \/ /\ Go("cancel", b, "cancel", "idle")
       /\ TransitDenied(b, "cancelled") \/ TransitFails(b, "cancelled")

(***************************************************************************)
(* ReleaseStaleUnsubmittedOnce, for one job of the list.  The list itself  *)
(* decides nothing: FailStale checks again.                                *)
(***************************************************************************)
RecoverFail(b) == Go("recover", b, "idle", "refund") /\ FailStale(b) /\ OnlyJob /\ NoFault

\* the refund of Cancel and of the recovery scan
AgentRefund(h, b) ==
    \/ Go(h, b, "refund", "idle") /\ Released(b)
    \/ Go(h, b, "refund", "retry") /\ NotReleased(b)

\* mutant: a failed release is only logged
BillingRetryNone(h, b, next) == Go(h, b, "retry", next) /\ NoData /\ NoFault

\* enqueueBillingRetry, enqueueReleaseRetry: best effort
BillingRetry(h, b, next) == Go(h, b, "retry", next) /\ (Queued(b) \/ Failed)

\* DeleteOutputsForOwner and the retention job, once the files are gone
DeleteOutput(b) ==
    /\ Deletions /\ Status(b) = "completed"
    /\ MarkOutputDeleted(b) /\ OnlyJob /\ NoFault
    /\ UNCHANGED <<at, task>>

\* the owner deletes the record of a finished job from the list
DeleteRecord(b) ==
    /\ Deletions /\ Status(b) \in Terminal /\ ~job[b].hidden
    /\ MarkUserDeleted(b) /\ OnlyJob /\ NoFault
    /\ UNCHANGED <<at, task>>

-----------------------------------------------------------------------------
(***************************************************************************)
(* BatchImagePipelineProcessor.Process on worker w.  An error ends in a    *)
(* requeue, so does a wish to be called again.                             *)
(***************************************************************************)
Mine(w) == wcur[w]
Row(w)  == job[wcur[w]]

\* the job is read, and nothing is written
Decide(w, point) == Become(w, point) /\ NoData /\ NoFault

\* aim at a transition of the status, to go on at point then
Transit(w, to, then) ==
    NextTask(w, [task[w] EXCEPT !.at = "transit", !.to = to, !.then = then]) /\ NoData /\ NoFault

Start(w) ==
    /\ TakeLock(w)
    /\ NextTask(w, Fresh("route")) /\ OnlyQueue /\ NoFault

\* the pipeline's own read of the job
Route(w) ==
    /\ In(w, "route")
    /\ Decide(w, IF Row(w).status = "settling" THEN "settle" ELSE "process")

\* ProviderProcessor.Process reads the job again
ReadJob(w) ==
    /\ In(w, "process")
    /\ \/ Row(w).status \in {"failed", "cancelled"} /\ Decide(w, "refund")
       \/ Row(w).status \in {"settling", "completed", "output_deleted"} /\ Decide(w, "ack")
       \/ /\ Row(w).status \notin Terminal \union {"settling"}
          /\ \/ ~Row(w).named /\ Decide(w, "requeue")
             \/ Row(w).named /\ Row(w).status = "indexing" /\ Decide(w, "index")
             \/ /\ Row(w).named /\ Row(w).status # "indexing"
                /\ NextTask(w, [Fresh("poll") EXCEPT !.seen = Row(w).status]) /\ NoData /\ NoFault

Poll(w) ==
    /\ In(w, "poll")
    /\ \/ upstream[Mine(w)] = "running" /\ Decide(w, "requeue")
       \/ /\ upstream[Mine(w)] = "running" /\ task[w].seen # "running"
          /\ Transit(w, "running", "requeue")
       \/ upstream[Mine(w)] = "succeeded" /\ Transit(w, "indexing", "index")
       \/ upstream[Mine(w)] = "failed"    /\ Transit(w, "failed", "refund")
       \/ upstream[Mine(w)] = "cancelled" /\ Transit(w, "cancelled", "refund")

\* TransitionBatchImageJobStatus
ChangeStatus(w) ==
    /\ In(w, "transit")
    /\ \/ NextTask(w, Fresh(task[w].then)) /\ Transits(Mine(w), task[w].to)
       \/ NextTask(w, Fresh("requeue")) /\ TransitDenied(Mine(w), task[w].to)
       \/ NextTask(w, Fresh("requeue")) /\ Transition(Mine(w), task[w].to) /\ OnlyJob /\ Lost

\* mutant: Terminal is returned once the items are indexed
IndexAck(w) ==
    /\ In(w, "index")
    /\ \/ /\ \E cost \in Costs : ReplaceItems(Mine(w), cost)
          /\ NextTask(w, Aim("settling", "ack"))
          /\ OnlyJob /\ NoFault
       \/ Row(w).status # "indexing" /\ Decide(w, "requeue")
       \/ Transit(w, "failed", "refund")

\* The output is opened, parsed and stored.  Whatever goes wrong with it fails
\* the job, except that the output is missing (CallFails) or that the job is
\* not indexing any more.
Index(w) ==
    /\ In(w, "index")
    /\ \/ /\ \E cost \in Costs : ReplaceItems(Mine(w), cost)
          /\ NextTask(w, Aim("settling", "requeue"))
          /\ OnlyJob /\ NoFault
       \/ Row(w).status # "indexing" /\ Decide(w, "requeue")
       \/ Transit(w, "failed", "refund")

\* mutant: the error of the release is only logged
RefundTerminalIgnored(w) ==
    In(w, "refund") /\ Become(w, "ack") /\ (Released(Mine(w)) \/ NotReleased(Mine(w)))

\* releaseTerminalHold
RefundTerminal(w) ==
    /\ In(w, "refund")
    /\ \/ Become(w, "ack") /\ Released(Mine(w))
       \/ Become(w, "requeue") /\ NotReleased(Mine(w))

\* mutant: a price over the hold is an error that nobody counts
SettleReadUncounted(w) ==
    /\ In(w, "settle")
    /\ \/ Row(w).status = "completed" /\ Decide(w, "ack")
       \/ Row(w).status \notin {"completed", "settling"} /\ Decide(w, "requeue")
       \/ /\ Row(w).status = "settling"
          /\ \/ Row(w).retries >= MaxRetries /\ Decide(w, "exhaust")
             \/ Row(w).retries < MaxRetries /\ Row(w).cost > Hold /\ Decide(w, "requeue")
             \/ /\ Row(w).retries < MaxRetries
                /\ Row(w).cost <= Hold
                /\ NextTask(w, [Fresh("capture") EXCEPT !.cost = Row(w).cost]) /\ NoData /\ NoFault

\* Settle: the checks up to the capture
SettleRead(w) ==
    /\ In(w, "settle")
    /\ \/ Row(w).status = "completed" /\ Decide(w, "ack")
       \/ Row(w).status \notin {"completed", "settling"} /\ Decide(w, "requeue")
       \/ /\ Row(w).status = "settling"
          /\ \/ Row(w).retries >= MaxRetries /\ Decide(w, "exhaust")
             \/ /\ Row(w).retries < MaxRetries
                /\ Row(w).cost > Hold
                /\ NextTask(w, [Fresh("record") EXCEPT !.then = "requeue"]) /\ NoData /\ NoFault
             \/ /\ Row(w).retries < MaxRetries
                /\ Row(w).cost <= Hold
                /\ NextTask(w, [Fresh("capture") EXCEPT !.cost = Row(w).cost]) /\ NoData /\ NoFault

\* mutant: the error of the capture is logged only
CaptureErrorIgnored(w) ==
    /\ In(w, "capture")
    /\ Become(w, "mark")
    /\ \/ CaptureHold(Mine(w), task[w].cost) /\ OnlyLedger /\ NoFault
       \/ CaptureRefused(Mine(w), task[w].cost) /\ NoData /\ NoFault
       \/ Failed

Capture(w) ==
    /\ In(w, "capture")
    /\ \/ Become(w, "mark") /\ CaptureHold(Mine(w), task[w].cost) /\ OnlyLedger /\ NoFault
       \/ /\ NextTask(w, [Fresh("record") EXCEPT !.then = "reread"])
          /\ \/ CaptureRefused(Mine(w), task[w].cost) /\ NoData /\ NoFault
             \/ Failed
             \/ CaptureHold(Mine(w), task[w].cost) /\ OnlyLedger /\ Lost

Mark(w) ==
    /\ In(w, "mark")
    /\ \/ MarkSettled(Mine(w), task[w].cost) /\ OnlyJob /\ NoFault /\ NextTask(w, Fresh("ack"))
       \/ MarkSettled(Mine(w), task[w].cost) /\ OnlyJob /\ Lost /\ NextTask(w, Fresh("requeue"))
       \/ Row(w).status # "settling" /\ NextTask(w, Fresh("requeue")) /\ NoData /\ NoFault

\* mutant: one retry too few
RecordOffByOne(w) ==
    /\ In(w, "record")
    /\ \/ /\ SetSettlementFailed(Mine(w)) /\ OnlyJob /\ NoFault
          /\ NextTask(w, Fresh(IF RetriesAfter(Mine(w)) >= MaxRetries - 1 THEN "exhaust" ELSE task[w].then))
       \/ NextTask(w, Fresh(task[w].then)) /\ Failed

\* recordSettlementFailure; the event after the UPDATE is a statement of its
\* own, which may be the one that fails
Record(w) ==
    /\ In(w, "record")
    /\ \/ /\ SetSettlementFailed(Mine(w)) /\ OnlyJob /\ NoFault
          /\ NextTask(w, Fresh(IF RetriesAfter(Mine(w)) >= MaxRetries THEN "exhaust" ELSE task[w].then))
       \/ /\ NextTask(w, Fresh(task[w].then))
          /\ Failed \/ (SetSettlementFailed(Mine(w)) /\ OnlyJob /\ Fault)

\* failExhaustedSettlement
Exhaust(w) ==
    /\ In(w, "exhaust")
    /\ \/ /\ Released(Mine(w))
          /\ NextTask(w, Aim("failed", "reread"))
       \/ NextTask(w, Fresh("recordRelease")) /\ NotReleased(Mine(w))

RecordRelease(w) ==
    /\ In(w, "recordRelease")
    /\ NextTask(w, Fresh("reread"))
    /\ \/ SetSettlementFailed(Mine(w)) /\ OnlyJob /\ NoFault
       \/ Failed

\* the pipeline looks at the job again after a billing error
Reread(w) ==
    /\ In(w, "reread")
    /\ Decide(w, IF Row(w).status \in Terminal THEN "ack" ELSE "requeue")

\* any other call that fails ends Process with an error
CallFails(w) ==
    /\ \E point \in {"route", "process", "poll", "transit", "index", "settle",
                      "mark", "reread"} : In(w, point)
    /\ NextTask(w, Fresh("requeue")) /\ Failed

\* RunOnce acknowledges, or requeues, what Process returned
Finish(w) ==
    /\ \/ In(w, "ack") /\ FinishAck(w)
       \/ In(w, "requeue") /\ FinishRequeue(w)
    /\ NextTask(w, NoTask) /\ OnlyQueue /\ NoFault

ProcessStep(w) ==
    \/ Route(w) \/ ReadJob(w) \/ Poll(w) \/ ChangeStatus(w) \/ Index(w)
    \/ RefundTerminal(w)
    \/ SettleRead(w) \/ Capture(w) \/ Mark(w) \/ Record(w)
    \/ Exhaust(w) \/ RecordRelease(w) \/ Reread(w)

-----------------------------------------------------------------------------
(***************************************************************************)
(* The environment.                                                        *)
(***************************************************************************)
UpstreamFinishes(b) ==
    /\ upstream[b] = "running"
    /\ \E s \in {"succeeded", "failed"} : upstream' = [upstream EXCEPT ![b] = s]
    /\ OnlyUpstream /\ NoFault /\ UNCHANGED <<at, task>>

\* updated_at falls behind the cutoff: for a submission that is under way
\* this takes a lapse of its heartbeat
UnderWay(b) == at["submit"][b] \notin {"new", "done", "dead", "resubmit"}

BecomesOld(b) ==
    /\ Submitting(b) /\ ~job[b].old
    /\ IF UnderWay(b) THEN lapses < MaxLapses /\ lapses' = lapses + 1 ELSE UNCHANGED lapses
    /\ job' = [job EXCEPT ![b] = [@ EXCEPT !.old = TRUE]]
    /\ OnlyJob /\ UNCHANGED <<at, task, faults, lost, deaths>>

CrashHandler(h, b) ==
    /\ at[h][b] \notin {"new", "done", "dead", "idle"}
    /\ deaths < MaxDeaths /\ deaths' = deaths + 1
    /\ at' = [at EXCEPT ![h][b] = IF h = "submit" THEN "dead" ELSE "idle"]
    /\ NoData /\ UNCHANGED <<task, faults, lost, lapses>>

\* the process of worker w dies anywhere in RunOnce, or Redis fails it before
\* or after Process
CrashTask(w) ==
    /\ \/ CrashWorker(w)
       \/ RedisFails(w) /\ task[w].at \in {"none", "ack", "requeue"}
    /\ NextTask(w, NoTask) /\ OnlyQueue /\ NoFault

-----------------------------------------------------------------------------
Init ==
    /\ QueueInit /\ LedgerInit /\ JobsInit
    /\ upstream = [b \in Batches |-> "none"]
    /\ at = [h \in Handlers |-> [b \in Batches |-> IF h = "submit" THEN "new" ELSE "idle"]]
    /\ task = [w \in Workers |-> NoTask]
    /\ faults = 0 /\ lost = 0 /\ lapses = 0 /\ deaths = 0

SubmitStep(b) ==
    \/ SubmitReserve(b) \/ SubmitNotReserved(b) \/ SubmitItems(b)
    \/ SubmitUpload(b) \/ SubmitProvider(b) \/ SubmitRecord(b) \/ SubmitAbort(b) \/ SubmitEnqueue(b)
    \/ SubmitRefund(b) \/ SubmitMark(b) \/ SubmitHide(b)
    \/ BillingRetry("submit", b, "done") \/ ResubmitEnqueue(b)

CancelStep(b) ==
    \/ CancelProvider(b) \/ CancelEnqueue(b) \/ CancelTransition(b)
    \/ AgentRefund("cancel", b) \/ BillingRetry("cancel", b, "idle")

RecoverStep(b) ==
    \/ RecoverFail(b) \/ AgentRefund("recover", b) \/ BillingRetry("recover", b, "idle")

Client(b) ==
    \/ SubmitCreate(b) \/ SubmitHeartbeat(b) \/ Resubmit(b) \/ CancelRead(b)
    \/ DeleteOutput(b) \/ DeleteRecord(b)

\* the worker loop around Process, as the queue module has it
LoopStep(w) == Reserve(w) \/ LockConflict(w) \/ Unlock(w) \/ Heartbeat(w)
Movers == \E S \in SUBSET Batches : MoveDueDelayed(S) \/ RecoverStaleActive(S)
QueueTimeouts == \E b \in Batches : BecomesStale(b) \/ LockExpires(b)

QueueOnly ==
    /\ (\E w \in Workers : LoopStep(w)) \/ Movers \/ QueueTimeouts
    /\ OnlyQueue /\ NoFault /\ UNCHANGED <<at, task>>

Next ==
    \/ \E b \in Batches : SubmitStep(b) \/ CancelStep(b) \/ RecoverStep(b) \/ Client(b)
    \/ \E w \in Workers : Start(w) \/ ProcessStep(w) \/ CallFails(w) \/ Finish(w) \/ CrashTask(w)
    \/ \E b \in Batches : UpstreamFinishes(b) \/ BecomesOld(b)
    \/ \E h \in Handlers, b \in Batches : CrashHandler(h, b)
    \/ QueueOnly

SafetySpec == Init /\ [][Next]_vars

(***************************************************************************)
(* Handlers run on while their process lives, the worker loop, the movers  *)
(* and the recovery scan run for as long as it does, and the provider      *)
(* finishes every job.  Nothing makes a client call.                       *)
(***************************************************************************)
Fairness ==
    /\ \A b \in Batches :
        /\ WF_vars(SubmitStep(b))
        /\ WF_vars(CancelStep(b))
        /\ WF_vars(RecoverStep(b))
        /\ WF_vars(UpstreamFinishes(b))
        /\ WF_vars(BecomesOld(b) /\ ~UnderWay(b))
        /\ WF_vars(QueueOnly /\ BecomesStale(b) /\ ~HeldBy(b))
        /\ WF_vars(QueueOnly /\ LockExpires(b) /\ lock[b] = Abandoned)
        /\ WF_vars(QueueOnly /\ \E S \in SUBSET Batches : b \in S /\ MoveDueDelayed(S))
        /\ WF_vars(QueueOnly /\ \E S \in SUBSET Batches : b \in S /\ RecoverStaleActive(S))
    /\ \A w \in Workers :
        /\ WF_vars(QueueOnly /\ (Reserve(w) \/ LockConflict(w) \/ Unlock(w)))
        /\ WF_vars(Start(w) \/ Finish(w))
        /\ WF_vars(ProcessStep(w))

Spec == SafetySpec /\ Fairness

-----------------------------------------------------------------------------
(***************************************************************************)
(* Every variable has its type, and a worker has a task exactly while it   *)
(* is inside Process.                                                      *)
(***************************************************************************)
TypeOK ==
    /\ QueueTypeOK /\ LedgerTypeOK /\ JobsTypeOK
    /\ upstream \in [Batches -> UpstreamStates]
    /\ at \in [Handlers -> [Batches -> Points]]
    /\ task \in [Workers -> Tasks]
    /\ \A w \in Workers : wpc[w] = "processing" <=> task[w].at # "none"
    /\ faults \in 0..MaxFaults /\ lost \in 0..MaxLost
    /\ lapses \in 0..MaxLapses /\ deaths \in 0..MaxDeaths

(***************************************************************************)
(* The promise to the user (HoldPromise) is kept: every step of the        *)
(* handlers, the workers and their failures is a step of it or none, as    *)
(* long as one worker at a time is inside Process for a batch.             *)
(***************************************************************************)
MoneyOf(b) ==
    CASE moved[b] = {}                  -> "none"
      [] moved[b] = {"hold"}            -> "held"
      [] moved[b] = {"hold", "capture"} -> "charged"
      [] moved[b] = {"hold", "release"} -> "refunded"
      [] OTHER                          -> "broken"

ResultOf(b) ==
    CASE Status(b) \in {"completed", "output_deleted"} -> "completed"
      [] Status(b) \in {"failed", "cancelled"}         -> "dead"
      [] OTHER                                         -> "open"

Promise == INSTANCE HoldPromise
    WITH money  <- [b \in Batches |-> MoneyOf(b)],
         result <- [b \in Batches |-> ResultOf(b)]

KeepsPromise == Promise!PromiseSpec

(***************************************************************************)
(* A completed job has been paid for, with exactly the amount its row says *)
(* (actual_cost), whichever of several workers captured and marked it.     *)
(***************************************************************************)
CompletedIsPaid ==
    \A b \in Batches :
        Status(b) \in {"completed", "output_deleted"} =>
            "capture" \in moved[b] /\ fingerprint[b] = job[b].paid

(***************************************************************************)
(* A job a worker has begun with stays in the queue until it is terminal:  *)
(* no crash, failed call or redelivery makes it wait for nobody, as long   *)
(* as one worker at a time is inside Process for it.                       *)
(***************************************************************************)
BegunJobStaysQueued ==
    \A b \in Batches : Status(b) \in {"running", "indexing", "settling"} => b \in inflight

(***************************************************************************)
(* A job that was recorded as submitted is not refunded while the provider *)
(* is still working on it (comment in ReleaseStaleUnsubmittedOnce).        *)
(***************************************************************************)
NoRefundWhileRunning ==
    \A b \in Batches : job[b].named /\ "release" \in moved[b] => upstream[b] # "running"

(***************************************************************************)
(* The recovery scan fails no job whose submission is still under way and  *)
(* has not lapsed (comments in Submit and ReleaseStaleUnsubmittedOnce):    *)
(* once its row was written in local time, by the transition to uploading  *)
(* or the heartbeat of the provider's call, it is spared in every time     *)
(* zone.  The row as the INSERT left it is spared only where the zone is   *)
(* not ahead of UTC; the comments make no such difference.                 *)
(***************************************************************************)
ScanFails(b) == at["recover"][b] = "idle" /\ at'["recover"][b] = "refund"

RefreshedSubmissionIsSpared ==
    [][ \A b \in Batches :
          ScanFails(b) =>
              \/ ~UnderWay(b) \/ lapses > 0
              \/ ZoneAhead /\ Status(b) = "created" ]_vars

(***************************************************************************)
(* A hold is captured or released, never both.                             *)
(***************************************************************************)
OneOutcome == \A b \in Batches : ~({"capture", "release"} \subseteq moved[b])

Unresolved(b) == moved[b] = {"hold"}

(***************************************************************************)
(* The pool always holds the money of every batch that is still frozen:    *)
(* no batch is captured or released at the cost of another one, although   *)
(* all of them share one number.                                           *)
(***************************************************************************)
PoolCoversHolds == frozen >= Pool + Hold * Cardinality({ b \in Batches : Unresolved(b) })

(***************************************************************************)
(* The status of a terminal job does not change any more, except that the  *)
(* output of a completed job is deleted: no handler or worker that read    *)
(* the row before writes over it (comment in Submit).                      *)
(***************************************************************************)
TerminalStatusIsFinal ==
    [][ \A b \in Batches :
          Status(b) \in Terminal =>
              job'[b].status = Status(b) \/ job'[b].status = "output_deleted" ]_vars

(***************************************************************************)
(* While the money of a failed or cancelled job is frozen, somebody is     *)
(* still going to release it: a handler, or a worker through the queue.    *)
(* Nothing else looks at such a job again (comment in                      *)
(* ReleaseStaleUnsubmittedOnce).                                           *)
(***************************************************************************)
RefundHasOwner ==
    \A b \in Batches :
        Status(b) \in {"failed", "cancelled"} /\ Unresolved(b) =>
            \/ b \in inflight
            \/ \E h \in Handlers : at[h][b] \in {"refund", "refundMark", "refundStop", "retry"}

(***************************************************************************)
(* Nobody who owes the refund of a dead job forgets it: whoever ends a job *)
(* takes its refund over, and passes it on until it has been carried out   *)
(* or its request id is used up.  It gets lost with the process of a       *)
(* handler, when the last retry fails as well, and when the answer to the  *)
(* reservation or to the cancel was lost.                                  *)
(***************************************************************************)
RefundPending(b) ==
    Status(b) \in {"failed", "cancelled"} /\ Unresolved(b) /\ "release" \notin claim[b]

HasOwner(b) ==
    \/ b \in inflight
    \/ \E h \in Handlers :
          at[h][b] \in {"refund", "refundMark", "refundStop", "markUnrefunded", "retry"}

RefundIsPassedOn ==
    [][ \A b \in Batches :
          RefundPending(b)' /\ ~HasOwner(b)' =>
              \/ Status(b) \in {"failed", "cancelled"} /\ ~HasOwner(b)
              \/ Status(b) \notin {"failed", "cancelled"} /\ lost' > 0
              \/ \E h \in Handlers : at[h][b] = "retry" /\ faults' > faults
              \/ \E h \in Handlers : at'[h][b] # at[h][b] /\ deaths' > deaths ]_vars

(***************************************************************************)
(* Once a job has reached the queue, has failed or was cancelled, or its   *)
(* submission ended before it was recorded, its money does not stay frozen *)
(* for ever.  (A submitted job whose Enqueue failed does wait for          *)
(* the client: QUEUE_FAILED, or the death of Submit before the Enqueue.)   *)
(***************************************************************************)
TakenOver(b) ==
    \/ b \in inflight
    \/ Status(b) \in {"failed", "cancelled"}
    \/ Submitting(b) /\ ~UnderWay(b)

HoldIsResolved == \A b \in Batches : Unresolved(b) /\ TakenOver(b) ~> ~Unresolved(b)

=============================================================================
