------------------------- MODULE IdempotencyRecords -------------------------
(***************************************************************************)
(* Rows of the table idempotency_records and the statements of             *)
(* repository/idempotency_repo.go.  Each statement is atomic: SQLite has   *)
(* one writer.                                                             *)
(*                                                                         *)
(* locked_until and expires_at are kept as the time left until them, so a  *)
(* row grows older when time passes (Aged) and no clock is needed.  A      *)
(* caller compares them with the time at which it started, `age' ago: a    *)
(* time t ahead of now was passed for it when t <= -age.  NULL in          *)
(* locked_until is Past: no caller takes either for a lock.                *)
(***************************************************************************)
EXTENDS Integers

CONSTANTS
    MaxStall,   \* longest time between a caller's time stamp and its last statement
    NoRow       \* the table has no row for the key

ASSUME MaxStallAssumption == MaxStall \in Nat

Past == -(MaxStall + 1)

Status == {"processing", "succeeded", "failed_retryable"}

Row(Ops, MaxTime) ==
    [id : Nat, status : Status, op : Ops, left : Past..MaxTime,
     ttl : Past..MaxTime, body : Ops]

Older(t) == IF t > Past THEN t - 1 ELSE Past

Aged(row) ==
    IF row = NoRow THEN NoRow
                   ELSE [row EXCEPT !.left = Older(@), !.ttl = Older(@)]

\* locked_until, or expires_at, is after the caller's time stamp.
After(t, age) == t > -age

\* INSERT ... ON CONFLICT DO NOTHING: the caller owns the row it inserts.
CreateProcessing(row, id, op, left, ttl) ==
    IF row = NoRow
    THEN [id |-> id, status |-> "processing", op |-> op, left |-> left,
          ttl |-> ttl, body |-> op]
    ELSE row

\* Mutant: the lock is not asked for.
MayReclaimLocked(row, id, from, age) ==
    row # NoRow /\ row.id = id /\ row.status = from

\* The WHERE clause of TryReclaim: neither the owner nor the expiry is part of it.
MayReclaim(row, id, from, age) ==
    /\ row # NoRow
    /\ row.id = id
    /\ row.status = from
    /\ ~After(row.left, age)

Reclaimed(row, left, ttl) ==
    [row EXCEPT !.status = "processing", !.left = left, !.ttl = ttl]

\* The WHERE clause of ExtendProcessingLock.
MayExtend(row, id, op) ==
    /\ row # NoRow
    /\ row.id = id
    /\ row.status = "processing"
    /\ row.op = op

Extended(row, left, ttl) == [row EXCEPT !.left = left, !.ttl = ttl]

\* MarkSucceeded and MarkFailedRetryable ask for the id only: they also end a
\* claim that somebody else has taken over.
MarkSucceeded(row, id, body, ttl) ==
    IF row # NoRow /\ row.id = id
    THEN [row EXCEPT !.status = "succeeded", !.left = Past, !.ttl = ttl, !.body = body]
    ELSE row

MarkFailedRetryable(row, id, left, ttl) ==
    IF row # NoRow /\ row.id = id
    THEN [row EXCEPT !.status = "failed_retryable", !.left = left, !.ttl = ttl]
    ELSE row

\* The WHERE clause of DeleteExpired, with the time of the cleanup itself.
Expired(row) == row # NoRow /\ ~After(row.ttl, 0)
=============================================================================
