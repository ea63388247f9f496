--------------------------- MODULE BatchImageJobs ---------------------------
(***************************************************************************)
(* The table  batch_image_jobs  (repository/batch_image_repo.go), in       *)
(* SQLite.  Every operator is one transaction.  A status transition is a   *)
(* SELECT that checks CanTransition and an UPDATE that no longer looks at  *)
(* the status; it is atomic all the same, because SQLite refuses an UPDATE *)
(* built on a snapshot that another connection has overtaken (SQLITE_BUSY) *)
(* and the transaction is rolled back.  To the callers such a refusal is a *)
(* call that failed without effect.                                        *)
(***************************************************************************)
EXTENDS BatchImageCosts

CONSTANTS
    MaxRetries,     \* batchImageSettlementMaxRetries
    ZoneAhead       \* the configured time zone is ahead of UTC by more than the cutoff

ASSUME RetriesAssumption == MaxRetries \in Nat \ {0} /\ ZoneAhead \in BOOLEAN

VARIABLE job        \* batch -> row

Terminal == {"completed", "failed", "cancelled", "output_deleted"}
Statuses == Terminal \union
            {"created", "uploading", "submitted", "running", "indexing", "settling"}

\* "absent": not inserted yet.  retries counts up to MaxRetries only, the one
\* value the code compares it with.
Rows == [ status  : Statuses \union {"absent"},
          named   : BOOLEAN,                    \* provider_job_name is set
          old     : BOOLEAN,                    \* updated_at is before the cutoff
          hidden  : BOOLEAN,                    \* user_deleted_at is set
          retries : 0..MaxRetries,              \* retry_count
          cost    : Costs \union {None},        \* price of success_count
          paid    : Costs \union {None} ]       \* actual_cost

NoRow == [ status |-> "absent", named |-> FALSE, old |-> FALSE, hidden |-> FALSE,
           retries |-> 0, cost |-> None, paid |-> None ]

-----------------------------------------------------------------------------
CanTransition(from, to) ==
    \/ from \in {"completed", "failed", "cancelled"} /\ to = "output_deleted"
    \/ from \notin Terminal \union {"absent"} /\ to = "failed"
    \/ from = "created"   /\ to \in {"uploading", "submitted", "cancelled"}
    \/ from = "uploading" /\ to \in {"submitted", "cancelled"}
    \/ from = "submitted" /\ to \in {"running", "indexing", "cancelled"}
    \/ from = "running"   /\ to \in {"running", "indexing", "cancelled"}
    \/ from = "indexing"  /\ to = "settling"
    \/ from = "settling"  /\ to = "completed"

Status(b) == job[b].status

\* The INSERT leaves updated_at to the column default, datetime('now'), which
\* is UTC; every later write and the cutoff of the recovery scan are local
\* times, and the comparison is one of texts.
CreateJob(b) ==
    /\ Status(b) = "absent"
    /\ job' = [job EXCEPT ![b] = [@ EXCEPT !.status = "created", !.old = ZoneAhead]]

\* mutant: the UPDATE leaves updated_at as it is
WriteStatusUntouched(b, to) == job' = [job EXCEPT ![b] = [@ EXCEPT !.status = to]]

WriteStatus(b, to) ==
    job' = [job EXCEPT ![b] = [@ EXCEPT !.status = to, !.old = FALSE]]

\* mutant: the caller's own reading of the status is trusted
TransitionUnchecked(b, to) == WriteStatus(b, to)

\* TransitionBatchImageJobStatus
Transition(b, to) == CanTransition(Status(b), to) /\ WriteStatus(b, to)

\* mutant: whatever the status is
RecordSubmittedUnchecked(b) ==
    job' = [job EXCEPT ![b] = [@ EXCEPT !.status = "submitted", !.named = TRUE, !.old = FALSE]]

\* UpdateBatchImageJobProviderSubmit
RecordSubmitted(b) ==
    /\ CanTransition(Status(b), "submitted")
    /\ job' = [job EXCEPT ![b] = [@ EXCEPT !.status = "submitted", !.named = TRUE, !.old = FALSE]]

Submitting(b) == Status(b) \in {"created", "uploading"}

TouchSubmitting(b) ==
    job' = IF Submitting(b) THEN [job EXCEPT ![b] = [@ EXCEPT !.old = FALSE]] ELSE job

\* FailStaleUnsubmittedBatchImageJob, when it applies
FailStale(b) ==
    /\ Submitting(b)
    /\ ~job[b].named
    /\ job[b].old
    /\ job' = [job EXCEPT ![b] = [@ EXCEPT !.status = "failed", !.old = FALSE]]

\* RecordBatchImageJobSubmitFailure with markFailed: whatever the status is
RecordSubmitFailure(b) == WriteStatus(b, "failed")

\* the same without markFailed
RecordQueueFailure(b) == job' = [job EXCEPT ![b] = [@ EXCEPT !.old = FALSE]]

\* ReplaceBatchImageItemsForJob
ReplaceItems(b, cost) ==
    /\ Status(b) = "indexing"
    /\ job' = [job EXCEPT ![b] = [@ EXCEPT !.cost = cost, !.old = FALSE]]

MarkSettled(b, cost) ==
    /\ Status(b) = "settling"
    /\ job' = [job EXCEPT ![b] = [@ EXCEPT !.status = "completed", !.paid = cost, !.old = FALSE]]

RetriesAfter(b) == IF job[b].retries < MaxRetries THEN job[b].retries + 1 ELSE MaxRetries

SetSettlementFailed(b) ==
    job' = [job EXCEPT ![b] = [@ EXCEPT !.retries = RetriesAfter(b), !.old = FALSE]]

MarkOutputDeleted(b) ==
    job' = IF Status(b) = "completed" THEN [job EXCEPT ![b] = [@ EXCEPT !.status = "output_deleted"]]
                                      ELSE job

\* no row changes unless the job is terminal
MarkUserDeleted(b) ==
    job' = IF Status(b) \in Terminal THEN [job EXCEPT ![b] = [@ EXCEPT !.hidden = TRUE]] ELSE job

JobsInit == job = [b \in Batches |-> NoRow]

JobsTypeOK == job \in [Batches -> Rows]
=============================================================================
