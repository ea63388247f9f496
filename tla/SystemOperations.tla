-------------------------- MODULE SystemOperations --------------------------
(***************************************************************************)
(* The administrator's update, rollback and restart requests               *)
(* (handler/admin/system_handler.go): IdempotencyCoordinator.Execute       *)
(* around SystemOperationLockService.Acquire, the operation itself and     *)
(* Release, with the lock's renewal goroutine and the cleanup of expired   *)
(* records.  The coordinator is the one all idempotent endpoints use; only *)
(* the function it executes is particular to this handler.                 *)
(*                                                                         *)
(* An operation id is made from the endpoint, the administrator and the    *)
(* Idempotency-Key, so it stands for the request fingerprint too.  A       *)
(* request without a key skips the coordinator (observe_only, the          *)
(* default) and has an operation id of its own.                            *)
(***************************************************************************)
EXTENDS IdempotencyRecords, FiniteSets

CONSTANTS
    Requests,     \* concurrent requests; an ended one may be sent again
    Keys, Admins, \* an operation id is a pair of them
    NoKey,        \* the request carries no Idempotency-Key
    NoOp,         \* the request has not started
    Lease,        \* ProcessingTimeout, in renewal intervals (a third of it each)
    RecordTTL,    \* SystemOperationTTL
    Backoff,      \* FailedRetryBackoff
    MaxRun,       \* longest time from a request's start to its last statement
    MaxFaults,    \* statements that fail after a claim was made, and ends of the process
    MaxDeletes,   \* records deleted by the cleanup
    MaxTroubles   \* faults and deletions together

ASSUME SystemOperationsAssumption ==
    /\ {Lease, RecordTTL, Backoff, MaxRun} \subseteq Nat \ {0}
    /\ {MaxFaults, MaxDeletes, MaxTroubles} \subseteq Nat
    \* a request's statements are not delayed by the whole lock timeout (30 s), and
    \* an operation may take longer than that; FailedRetryBackoff (5 s) may not
    /\ MaxStall < Lease /\ MaxStall <= MaxRun
    /\ Backoff <= Lease
    \* systemUpdateTimeout (15 minutes) and the delay of another request's statement
    \* are below system_operation_ttl_seconds (1 hour)
    /\ MaxRun + MaxStall < RecordTTL
    /\ NoKey \notin Keys

OperationIds == (Keys \X Admins) \cup ({NoKey} \X Requests)

VARIABLES
    rows,    \* rows[k]: the coordinator's record of key k
    lock,    \* the record of the global system operation lock
    req,     \* req[r]: where request r is and what it has read
    renews,  \* renews[r]: the renewal goroutine of r's lock
    dels, faults

vars == <<rows, lock, req, renews, dels, faults>>

KeyOf(r) == req[r].op[1]

Coordinating == {"get", "reclaimExpired", "getAgain", "reclaimFailed"}
Locking == {"acquire", "lockGet", "lockReclaim"}
Places == {"idle"} \cup Coordinating \cup Locking \cup {"run", "release", "mark"}

Idle == [at |-> "idle", op |-> NoOp, age |-> 0, lage |-> 0, id |-> 0, from |-> "none",
         lid |-> 0, lfrom |-> "none", created |-> FALSE, ok |-> FALSE,
         fresh |-> FALSE, reply |-> NoOp]

NoLoop == [on |-> FALSE, due |-> FALSE]

Time == IF Lease > RecordTTL THEN Lease ELSE RecordTTL

\* What stands for nothing is none of the things there are.
ASSUME NothingAssumption ==
    NoOp \notin OperationIds /\ NoRow \notin Row(OperationIds, Time)

Request ==
    [at : Places, op : OperationIds \cup {NoOp}, age : Nat, lage : Nat,
     id : Nat, from : Status \cup {"none"}, lid : Nat,
     lfrom : Status \cup {"none"}, created : BOOLEAN, ok : BOOLEAN,
     fresh : BOOLEAN, reply : OperationIds \cup {NoOp}]

TypeOK ==
    /\ rows \in [Keys -> Row(OperationIds, Time) \cup {NoRow}]
    /\ lock \in Row(OperationIds, Time) \cup {NoRow}
    /\ req \in [Requests -> Request]
    /\ renews \in [Requests -> [on : BOOLEAN, due : BOOLEAN]]
    /\ dels \in 0..MaxDeletes
    /\ faults \in 0..MaxFaults

Init ==
    /\ rows = [k \in Keys |-> NoRow]
    /\ lock = NoRow
    /\ req = [r \in Requests |-> Idle]
    /\ renews = [r \in Requests |-> NoLoop]
    /\ dels = 0 /\ faults = 0

-----------------------------------------------------------------------------
(* IdempotencyCoordinator.Execute.  `fresh' remembers that, when the       *)
(* request first met the table, a success within its TTL was stored for    *)
(* its operation; `reply' is the stored response it was answered with.     *)

Becomes(r, q) == req' = [req EXCEPT ![r] = q]

\* The request ends with an error or with the result of its execution ...
End(r) == Becomes(r, Idle)

\* ... or with the stored response of an earlier execution.
Replay(r, body) == Becomes(r, [Idle EXCEPT !.op = req[r].op, !.reply = body])

Counters == <<dels, faults>>
MayTrouble == dels + faults < MaxTroubles

StartWithoutKey(r) ==
    /\ req[r].at = "idle"
    /\ Becomes(r, [Idle EXCEPT !.at = "acquire", !.op = <<NoKey, r>>])
    /\ UNCHANGED <<rows, lock, renews, Counters>>

\* A new row's id: AUTOINCREMENT never gives one twice.
NewId == dels + 1

Claim(r) == Becomes(r, [req[r] EXCEPT !.at = "acquire", !.from = "none"])

\* The first statement of a request, `age' after it took its time stamp.
Create(r, op, age) ==
    /\ req[r].at = "idle"
    /\ LET k == op[1]
           row == rows[k]
           start == [Idle EXCEPT !.op = op, !.age = age]
       IN  /\ rows' = [rows EXCEPT ![k] =
                  CreateProcessing(@, NewId, op, Lease - age, RecordTTL - age)]
           /\ \/ /\ row = NoRow
                 /\ Becomes(r, [start EXCEPT !.at = "acquire", !.id = NewId])
              \/ /\ row # NoRow
                 /\ Becomes(r, [start EXCEPT !.at = "get",
                                    !.fresh = /\ row.op = op
                                              /\ row.status = "succeeded"
                                              /\ After(row.ttl, age)])
    /\ UNCHANGED <<lock, renews, Counters>>

\* The switch on the status of the record that was read.
Decide(r, row) ==
    \/ row.status = "succeeded" /\ Replay(r, row.body)
    \/ row.status = "processing" /\ End(r)
    \/ row.status = "failed_retryable" /\ After(row.left, req[r].age) /\ End(r)
    \/ /\ row.status = "failed_retryable"
       /\ ~After(row.left, req[r].age)
       /\ Becomes(r, [req[r] EXCEPT !.at = "reclaimFailed", !.id = row.id, !.from = row.status])

\* Mutant: the lock's end is taken for the record's.
GetByLock(r) ==
    /\ req[r].at = "get"
    /\ LET row == rows[KeyOf(r)]
       IN  IF row = NoRow \/ row.op # req[r].op THEN End(r)
           ELSE IF After(row.left, req[r].age) THEN Decide(r, row)
           ELSE Becomes(r, [req[r] EXCEPT !.at = "reclaimExpired", !.id = row.id, !.from = row.status])
    /\ UNCHANGED <<rows, lock, renews, Counters>>

Get(r) ==
    /\ req[r].at = "get"
    /\ LET row == rows[KeyOf(r)]
       IN  IF row = NoRow \/ row.op # req[r].op THEN End(r)
           ELSE IF After(row.ttl, req[r].age) THEN Decide(r, row)
           ELSE Becomes(r, [req[r] EXCEPT !.at = "reclaimExpired", !.id = row.id, !.from = row.status])
    /\ UNCHANGED <<rows, lock, renews, Counters>>

\* Mutant: the record read after a lost race is taken for the request's own.
GetAgainUnchecked(r) ==
    /\ req[r].at = "getAgain"
    /\ IF rows[KeyOf(r)] = NoRow THEN End(r) ELSE Decide(r, rows[KeyOf(r)])
    /\ UNCHANGED <<rows, lock, renews, Counters>>

GetAgain(r) ==
    /\ req[r].at = "getAgain"
    /\ LET row == rows[KeyOf(r)]
       IN  IF row = NoRow \/ row.op # req[r].op THEN End(r)
           ELSE Decide(r, row)
    /\ UNCHANGED <<rows, lock, renews, Counters>>

\* `refused' is what becomes of the request when another one was faster.
TryReclaim(r, place, refused) ==
    /\ req[r].at = place
    /\ LET k == KeyOf(r)
           row == rows[k]
           age == req[r].age
       IN  \/ /\ MayReclaim(row, req[r].id, req[r].from, age)
              /\ rows' = [rows EXCEPT ![k] = Reclaimed(@, Lease - age, RecordTTL - age)]
              /\ Claim(r)
           \/ /\ ~MayReclaim(row, req[r].id, req[r].from, age)
              /\ Becomes(r, refused)
              /\ UNCHANGED rows
    /\ UNCHANGED <<lock, renews, Counters>>

ReadAgain(r) == [req[r] EXCEPT !.at = "getAgain", !.id = 0, !.from = "none"]

ReclaimExpired(r) == TryReclaim(r, "reclaimExpired", ReadAgain(r))
ReclaimFailed(r) == TryReclaim(r, "reclaimFailed", Idle)

\* The statement after the execution, under the request's context: the
\* client's disconnection is one way for it to fail.
Mark(r) ==
    /\ req[r].at = "mark"
    /\ End(r)
    /\ IF KeyOf(r) = NoKey THEN UNCHANGED rows
       ELSE LET ttl == RecordTTL - req[r].age
            IN  rows' = [rows EXCEPT ![KeyOf(r)] =
                    IF req[r].ok THEN MarkSucceeded(@, req[r].id, req[r].op, ttl)
                    ELSE MarkFailedRetryable(@, req[r].id, Backoff, ttl)]
    /\ UNCHANGED <<lock, renews, Counters>>

MarkFails(r) ==
    /\ req[r].at = "mark"
    /\ KeyOf(r) # NoKey
    /\ faults < MaxFaults /\ MayTrouble
    /\ faults' = faults + 1
    /\ End(r)
    /\ UNCHANGED <<rows, lock, renews, dels>>

-----------------------------------------------------------------------------
(* SystemOperationLockService: Acquire, the renewal loop, Release.         *)

Fail(r) == Becomes(r, [req[r] EXCEPT !.at = "mark", !.lid = 0, !.lfrom = "none", !.lage = 0])

Hold(r, id, created) ==
    /\ Becomes(r, [req[r] EXCEPT !.at = "run", !.lid = id, !.lfrom = "none",
                                 !.created = created, !.lage = IF created THEN @ ELSE 0])
    /\ renews' = [renews EXCEPT ![r] = [on |-> TRUE, due |-> FALSE]]

Acquire(r) ==
    /\ req[r].at = "acquire"
    /\ lock' = CreateProcessing(lock, NewId, req[r].op, Lease - req[r].lage,
                                RecordTTL - req[r].lage)
    /\ \/ lock = NoRow /\ Hold(r, NewId, TRUE)
       \/ lock # NoRow /\ Becomes(r, [req[r] EXCEPT !.at = "lockGet"]) /\ UNCHANGED renews
    /\ UNCHANGED <<rows, Counters>>

LockGet(r) ==
    /\ req[r].at = "lockGet"
    /\ \/ lock = NoRow /\ Fail(r)
       \/ /\ lock # NoRow
          /\ lock.status = "processing" /\ After(lock.left, req[r].lage)
          /\ Fail(r)
       \/ /\ lock # NoRow
          /\ ~(lock.status = "processing" /\ After(lock.left, req[r].lage))
          /\ Becomes(r, [req[r] EXCEPT !.at = "lockReclaim", !.lid = lock.id, !.lfrom = lock.status])
    /\ UNCHANGED <<rows, lock, renews, Counters>>

\* TryReclaim leaves request_fingerprint as it was: the row goes on naming the
\* operation that created it.
LockReclaim(r) ==
    /\ req[r].at = "lockReclaim"
    /\ \/ /\ MayReclaim(lock, req[r].lid, req[r].lfrom, req[r].lage)
          /\ lock' = Reclaimed(lock, Lease - req[r].lage, RecordTTL - req[r].lage)
          /\ Hold(r, req[r].lid, FALSE)
       \/ /\ ~MayReclaim(lock, req[r].lid, req[r].lfrom, req[r].lage)
          /\ Fail(r)
          /\ UNCHANGED <<lock, renews>>
    /\ UNCHANGED <<rows, Counters>>

Renew(r) ==
    /\ renews[r].on /\ renews[r].due
    /\ \/ /\ MayExtend(lock, req[r].lid, req[r].op)
          /\ lock' = Extended(lock, Lease, RecordTTL)
          /\ renews' = [renews EXCEPT ![r].due = FALSE]
       \/ /\ ~MayExtend(lock, req[r].lid, req[r].op)
          /\ renews' = [renews EXCEPT ![r] = NoLoop]
          /\ UNCHANGED lock
    /\ UNCHANGED <<rows, req, Counters>>

\* Mutant: the loop ends at the first error.
RenewFailsForGood(r) ==
    /\ renews[r].on /\ renews[r].due
    /\ faults < MaxFaults /\ MayTrouble
    /\ faults' = faults + 1
    /\ renews' = [renews EXCEPT ![r] = NoLoop]
    /\ UNCHANGED <<rows, lock, req, dels>>

\* The statement fails or takes more than two seconds: the loop goes on.
RenewFails(r) ==
    /\ renews[r].on /\ renews[r].due
    /\ faults < MaxFaults /\ MayTrouble
    /\ faults' = faults + 1
    /\ renews' = [renews EXCEPT ![r].due = FALSE]
    /\ UNCHANGED <<rows, lock, req, dels>>

Finish(r, ok) ==
    /\ req[r].at = "run"
    /\ Becomes(r, [req[r] EXCEPT !.at = "release", !.ok = ok])
    /\ UNCHANGED <<rows, lock, renews, Counters>>

\* Nobody reads the response in the lock's record: it is left out.
Release(r) ==
    /\ req[r].at = "release"
    /\ lock' = IF req[r].ok THEN MarkSucceeded(lock, req[r].lid, lock.body, RecordTTL)
               ELSE MarkFailedRetryable(lock, req[r].lid, 0, RecordTTL)
    /\ renews' = [renews EXCEPT ![r] = NoLoop]
    /\ Becomes(r, [req[r] EXCEPT !.at = "mark", !.lid = 0, !.lage = 0, !.created = FALSE])
    /\ UNCHANGED <<rows, Counters>>

\* Mutant: the renewal loop is stopped by a successful release only.
ReleaseFailsRenewing(r) ==
    /\ req[r].at = "release"
    /\ faults < MaxFaults /\ MayTrouble
    /\ faults' = faults + 1
    /\ Becomes(r, [req[r] EXCEPT !.at = "mark"])
    /\ UNCHANGED <<rows, lock, renews, dels>>

ReleaseFails(r) ==
    /\ req[r].at = "release"
    /\ faults < MaxFaults /\ MayTrouble
    /\ faults' = faults + 1
    /\ renews' = [renews EXCEPT ![r] = NoLoop]
    /\ Becomes(r, [req[r] EXCEPT !.at = "mark", !.lid = 0, !.lage = 0, !.created = FALSE])
    /\ UNCHANGED <<rows, lock, dels>>

-----------------------------------------------------------------------------
(* The cleanup service, the end of the process, and time.                  *)

CleanKey(k) ==
    /\ Expired(rows[k])
    /\ dels < MaxDeletes /\ MayTrouble
    /\ rows' = [rows EXCEPT ![k] = NoRow]
    /\ dels' = dels + 1
    /\ UNCHANGED <<lock, req, renews, faults>>

CleanLock ==
    /\ Expired(lock)
    /\ dels < MaxDeletes /\ MayTrouble
    /\ lock' = NoRow
    /\ dels' = dels + 1
    /\ UNCHANGED <<rows, req, renews, faults>>

Crash ==
    /\ faults < MaxFaults /\ MayTrouble
    /\ \E r \in Requests : req[r].at # "idle"
    /\ faults' = faults + 1
    /\ req' = [r \in Requests |-> Idle]
    /\ renews' = [r \in Requests |-> NoLoop]
    /\ UNCHANGED <<rows, lock, dels>>

\* Time passes one renewal interval at a time.  It does not pass a request
\* whose statements would be later than MaxStall, an operation that reached its
\* timeout, the statements after it (they count as part of the operation), or a
\* due renewal (a late renewal is one that fails).
MayWait(r) ==
    /\ req[r].at \in Coordinating => req[r].age < MaxStall
    /\ req[r].at \in Locking => req[r].lage < MaxStall /\ req[r].age < MaxRun
    /\ req[r].at = "run" => req[r].age < MaxRun
    /\ req[r].at \notin {"release", "mark"}
    /\ ~renews[r].due

Passed(r) ==
    LET q == req[r]
    IN  IF q.at = "idle" THEN q
        ELSE [q EXCEPT !.age = @ + 1, !.lage = IF q.at \in Locking THEN @ + 1 ELSE @]

Tick ==
    /\ \A r \in Requests : MayWait(r)
    /\ rows' = [k \in Keys |-> Aged(rows[k])]
    /\ lock' = Aged(lock)
    /\ req' = [r \in Requests |-> Passed(r)]
    /\ renews' = [r \in Requests |-> [renews[r] EXCEPT !.due = renews[r].on]]
    /\ UNCHANGED Counters

Coordinate(r) ==
    Get(r) \/ ReclaimExpired(r) \/ GetAgain(r) \/ ReclaimFailed(r)

Operate(r) ==
    \/ Acquire(r) \/ LockGet(r) \/ LockReclaim(r)
    \/ \E ok \in BOOLEAN : Finish(r, ok)

Settle(r) == Release(r) \/ ReleaseFails(r) \/ Mark(r) \/ MarkFails(r)

Next ==
    \/ \E r \in Requests :
        \/ \E op \in Keys \X Admins, age \in 0..MaxStall : Create(r, op, age)
        \/ StartWithoutKey(r)
        \/ Coordinate(r) \/ Operate(r) \/ Settle(r)
        \/ Renew(r) \/ RenewFails(r)
    \/ \E k \in Keys : CleanKey(k)
    \/ CleanLock \/ Crash \/ Tick

Spec == Init /\ [][Next]_vars

-----------------------------------------------------------------------------
(* Properties.                                                             *)

Claimed(r) == req[r].at \in Locking \cup {"run", "release", "mark"} /\ KeyOf(r) # NoKey

\* One Idempotency-Key is executed by one request at a time, through expiry,
\* reclaiming and deletion of its record: the records of dead owners are taken
\* over by one request only.
OneRunPerKey ==
    \A r, s \in Requests : Claimed(r) /\ Claimed(s) /\ KeyOf(r) = KeyOf(s) => r = s

\* A request that found a success of its operation within the TTL does not
\* execute the operation again, whatever late retries of the expired record do
\* meanwhile.
FreshSuccessIsNotRepeated == \A r \in Requests : Claimed(r) => ~req[r].fresh

\* The response a request is answered with from the store was made for the
\* same operation id: a key that another administrator used, also one whose
\* record was deleted and created anew while the request was being answered,
\* never leaks its response.
ReplayIsOwn == \A r \in Requests : req[r].reply \in {NoOp, req[r].op}

Running == {r \in Requests : req[r].at = "run"}

\* The operation that created the lock's record is alone for as long as it
\* runs, through failed renewals that, with the delay of its first statement,
\* leave time for one more renewal within the lease.
CreatorIsAlone ==
    \A r \in Running :
        req[r].created /\ req[r].lage + faults + 1 < Lease => Running = {r}

\* What a refused request is told (ErrSystemOperationBusy): an operation is in
\* progress, and another one does not run at the same time.
OneOperationAtATime == Cardinality(Running) <= 1

\* A lock that nobody holds any more, after a crash or a failed release, is not
\* prolonged by anybody: it lapses with its lease.
LockBusy == lock # NoRow /\ lock.status = "processing" /\ After(lock.left, 0)
Orphaned == LockBusy /\ \A r \in Requests : req[r].at \notin {"run", "release"}
OrphanedLockLapses == [][Orphaned /\ Orphaned' => lock'.left <= lock.left]_vars
=============================================================================
