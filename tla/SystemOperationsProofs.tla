------------------------ MODULE SystemOperationsProofs ------------------------
(***************************************************************************)
(* For every set of requests, keys and administrators, and every lease,    *)
(* TTL and delay the assumptions allow: the types, and the five properties *)
(* the run of SystemOperations checks.                                     *)
(*                                                                         *)
(* Records (IInv): the row of a claimed key is the claim's, its lock lapses *)
(* no sooner than a lease after the claimant started, and its TTL outlives *)
(* the claimant (Owned).  A request that takes the row for a dead owner's  *)
(* read it before the claim, so it started at most MaxStall after the      *)
(* claimant (Overtaken), and the lease is longer than that.                *)
(*                                                                         *)
(* The lock (LInv): its row outlives whoever runs (Kept), so a request that *)
(* creates the row meets nobody; from then on its renewals keep the lease  *)
(* ahead of its last failure (Renewed).                                    *)
(***************************************************************************)
EXTENDS SystemOperations, TLAPS

\* What the proofs use of the assumptions, as facts about numbers.
LEMMA Numbers ==
    /\ Lease \in Nat /\ RecordTTL \in Nat /\ Backoff \in Nat /\ MaxRun \in Nat
    /\ MaxStall \in Nat /\ MaxFaults \in Nat /\ MaxDeletes \in Nat
    /\ Lease > 0 /\ Backoff > 0 /\ MaxRun > 0
    /\ MaxStall < Lease /\ MaxStall <= MaxRun /\ Backoff <= Lease
    /\ MaxRun + MaxStall < RecordTTL
BY SystemOperationsAssumption, MaxStallAssumption

LEMMA TimeBounds ==
    Time \in Nat /\ Lease <= Time /\ RecordTTL <= Time
BY Numbers DEF Time

-----------------------------------------------------------------------------
(* Rows.                                                                   *)

Rows == Row(OperationIds, Time)

LEMMA NoRowIsNoRow == NoRow \notin Rows
BY NothingAssumption DEF Rows

LEMMA RowFields ==
    ASSUME NEW row \in Rows
    PROVE  /\ row # NoRow
           /\ row.id \in Nat /\ row.status \in Status /\ row.op \in OperationIds
           /\ row.left \in Past..Time /\ row.ttl \in Past..Time
           /\ row.body \in OperationIds
           /\ row.left \in Int /\ row.ttl \in Int
<1>1. row # NoRow
  BY NoRowIsNoRow
<1>2. /\ row.id \in Nat /\ row.status \in Status /\ row.op \in OperationIds
      /\ row.left \in Past..Time /\ row.ttl \in Past..Time
      /\ row.body \in OperationIds
  BY DEF Rows, Row
<1>3. Past \in Int
  BY Numbers DEF Past
<1> QED BY <1>1, <1>2, <1>3, TimeBounds

LEMMA OlderIsOlder ==
    ASSUME NEW t \in Past..Time
    PROVE  Older(t) \in Past..Time /\ Older(t) <= t /\ Older(t) >= t - 1
           /\ Older(t) >= Past
BY Numbers, TimeBounds DEF Older, Past

LEMMA AgedRow ==
    ASSUME NEW row \in Rows
    PROVE  /\ Aged(row) \in Rows
           /\ Aged(row).id = row.id /\ Aged(row).status = row.status
           /\ Aged(row).op = row.op /\ Aged(row).body = row.body
           /\ Aged(row).left = Older(row.left) /\ Aged(row).ttl = Older(row.ttl)
<1>1. Aged(row) = [row EXCEPT !.left = Older(@), !.ttl = Older(@)]
  BY NoRowIsNoRow DEF Aged
<1>2. Older(row.left) \in Past..Time /\ Older(row.ttl) \in Past..Time
  BY RowFields, OlderIsOlder
<1> QED BY <1>1, <1>2 DEF Rows, Row

LEMMA AgedNoRow == Aged(NoRow) = NoRow
BY DEF Aged

\* A row that is created, or taken over.
LEMMA CreatedRow ==
    ASSUME NEW id \in Nat, NEW op \in OperationIds,
           NEW left \in 0..Time, NEW ttl \in 0..Time,
           NEW row \in Rows
    PROVE  /\ CreateProcessing(NoRow, id, op, left, ttl) \in Rows
           /\ CreateProcessing(NoRow, id, op, left, ttl).id = id
           /\ CreateProcessing(NoRow, id, op, left, ttl).status = "processing"
           /\ CreateProcessing(NoRow, id, op, left, ttl).op = op
           /\ CreateProcessing(NoRow, id, op, left, ttl).body = op
           /\ CreateProcessing(NoRow, id, op, left, ttl).left = left
           /\ CreateProcessing(NoRow, id, op, left, ttl).ttl = ttl
           /\ CreateProcessing(row, id, op, left, ttl) = row
           /\ Reclaimed(row, left, ttl) \in Rows
           /\ Reclaimed(row, left, ttl).id = row.id
           /\ Reclaimed(row, left, ttl).status = "processing"
           /\ Reclaimed(row, left, ttl).op = row.op
           /\ Reclaimed(row, left, ttl).body = row.body
           /\ Reclaimed(row, left, ttl).left = left
           /\ Reclaimed(row, left, ttl).ttl = ttl
<1>1. left \in Past..Time /\ ttl \in Past..Time
  BY Numbers, TimeBounds DEF Past
<1>2. row # NoRow
  BY NoRowIsNoRow
<1> QED BY <1>1, <1>2 DEF Rows, Row, CreateProcessing, Reclaimed, Status

\* A row whose claim ends, or is prolonged.
LEMMA SucceededRow ==
    ASSUME NEW body \in OperationIds, NEW ttl \in 0..Time, NEW row \in Rows
    PROVE  /\ MarkSucceeded(row, row.id, body, ttl) \in Rows
           /\ MarkSucceeded(row, row.id, body, ttl).id = row.id
           /\ MarkSucceeded(row, row.id, body, ttl).status = "succeeded"
           /\ MarkSucceeded(row, row.id, body, ttl).op = row.op
           /\ MarkSucceeded(row, row.id, body, ttl).body = body
           /\ MarkSucceeded(row, row.id, body, ttl).ttl = ttl
<1>1. ttl \in Past..Time /\ Past \in Past..Time
  BY Numbers, TimeBounds DEF Past
<1> QED BY <1>1, NoRowIsNoRow DEF Rows, Row, MarkSucceeded, Status

LEMMA FailedRow ==
    ASSUME NEW left \in 0..Time, NEW ttl \in 0..Time, NEW row \in Rows
    PROVE  /\ MarkFailedRetryable(row, row.id, left, ttl) \in Rows
           /\ MarkFailedRetryable(row, row.id, left, ttl).id = row.id
           /\ MarkFailedRetryable(row, row.id, left, ttl).status = "failed_retryable"
           /\ MarkFailedRetryable(row, row.id, left, ttl).op = row.op
           /\ MarkFailedRetryable(row, row.id, left, ttl).body = row.body
           /\ MarkFailedRetryable(row, row.id, left, ttl).left = left
           /\ MarkFailedRetryable(row, row.id, left, ttl).ttl = ttl
<1>1. left \in Past..Time /\ ttl \in Past..Time
  BY Numbers, TimeBounds DEF Past
<1> QED BY <1>1, NoRowIsNoRow DEF Rows, Row, MarkFailedRetryable, Status

LEMMA ExtendedRow ==
    ASSUME NEW left \in 0..Time, NEW ttl \in 0..Time, NEW row \in Rows
    PROVE  /\ Extended(row, left, ttl) \in Rows
           /\ Extended(row, left, ttl).id = row.id
           /\ Extended(row, left, ttl).status = row.status
           /\ Extended(row, left, ttl).op = row.op
           /\ Extended(row, left, ttl).left = left
           /\ Extended(row, left, ttl).ttl = ttl
<1>1. left \in Past..Time /\ ttl \in Past..Time
  BY Numbers, TimeBounds DEF Past
<1> QED BY <1>1 DEF Rows, Row, Extended

-----------------------------------------------------------------------------
(* Types, and what holds of a request by itself.                           *)

Claiming == Locking \cup {"run", "release", "mark"}

Sound(q) ==
    /\ q.at \in Coordinating => q.op \in Keys \X Admins /\ q.age <= MaxStall /\ q.lage = 0
    /\ q.at \in Claiming => q.op \in OperationIds /\ q.age <= MaxRun
    /\ q.at \in Locking => q.lage <= MaxStall
    /\ q.at = "reclaimFailed" => q.from = "failed_retryable"
    /\ q.fresh => q.at = "get"

TInv == TypeOK /\ \A r \in Requests : Sound(req[r])

LEMMA Operations ==
    /\ \A op \in OperationIds : op \in Keys \X Admins \/ op[1] = NoKey
    /\ \A op \in Keys \X Admins : op[1] \in Keys /\ op[1] # NoKey /\ op \in OperationIds
    /\ \A r \in Requests : <<NoKey, r>> \in OperationIds /\ <<NoKey, r>>[1] = NoKey
BY SystemOperationsAssumption DEF OperationIds

\* A request that becomes q is q, and the others stay as they are.
LEMMA Becoming ==
    ASSUME TInv, NEW r \in Requests, NEW q \in Request, Becomes(r, q)
    PROVE  /\ req' \in [Requests -> Request] /\ req'[r] = q
           /\ \A s \in Requests \ {r} : req'[s] = req[s]
BY DEF Becomes, TInv, TypeOK

LEMMA BecomingSound ==
    ASSUME TInv, NEW r \in Requests, NEW q \in Request, Sound(q), Becomes(r, q)
    PROVE  req' \in [Requests -> Request] /\ \A s \in Requests : Sound(req'[s])
<1>1. /\ req' \in [Requests -> Request] /\ req'[r] = q
      /\ \A s \in Requests \ {r} : req'[s] = req[s]
  BY Becoming
<1> QED BY <1>1 DEF TInv

LEMMA IdleIsSound ==
    /\ Idle \in Request /\ Sound(Idle)
    /\ Idle.at = "idle" /\ Idle.id = 0 /\ Idle.fresh = FALSE /\ Idle.reply = NoOp
BY DEF Idle, Request, Sound, Places, Coordinating, Claiming, Locking, Status

LEMMA ReplayIsSound ==
    ASSUME TInv, NEW r \in Requests, NEW body \in OperationIds
    PROVE  /\ [Idle EXCEPT !.op = req[r].op, !.reply = body] \in Request
           /\ Sound([Idle EXCEPT !.op = req[r].op, !.reply = body])
<1>1. req[r].op \in OperationIds \cup {NoOp}
  BY DEF TInv, TypeOK, Request
<1> QED BY <1>1 DEF Idle, Request, Sound, Places, Coordinating, Claiming, Locking, Status

\* A request goes on to another place with the operation and age it has.
LEMMA RequestFields ==
    ASSUME TInv, NEW r \in Requests
    PROVE  /\ req[r] \in Request /\ Sound(req[r])
           /\ req[r].at \in Places /\ req[r].op \in OperationIds \cup {NoOp}
           /\ req[r].age \in Nat /\ req[r].lage \in Nat /\ req[r].id \in Nat
           /\ req[r].from \in Status \cup {"none"} /\ req[r].lid \in Nat
           /\ req[r].lfrom \in Status \cup {"none"} /\ req[r].created \in BOOLEAN
           /\ req[r].ok \in BOOLEAN /\ req[r].fresh \in BOOLEAN
           /\ req[r].reply \in OperationIds \cup {NoOp}
BY DEF TInv, TypeOK, Request

LEMMA RowTyped ==
    ASSUME TInv
    PROVE  /\ \A k \in Keys : rows[k] \in Rows \/ rows[k] = NoRow
           /\ lock \in Rows \/ lock = NoRow
           /\ dels \in Nat /\ faults \in Nat
BY Numbers DEF TInv, TypeOK, Rows

\* The types hold at the start.
THEOREM TypesInit == Init => TInv
<1> SUFFICES ASSUME Init PROVE TInv
  OBVIOUS
<1>1. req \in [Requests -> Request] /\ \A r \in Requests : Sound(req[r])
  BY IdleIsSound DEF Init
<1>2. /\ rows \in [Keys -> Row(OperationIds, Time) \cup {NoRow}]
      /\ lock \in Row(OperationIds, Time) \cup {NoRow}
      /\ renews \in [Requests -> [on : BOOLEAN, due : BOOLEAN]]
      /\ dels \in 0..MaxDeletes /\ faults \in 0..MaxFaults
  BY Numbers DEF Init, NoLoop
<1> QED BY <1>1, <1>2 DEF TInv, TypeOK

-----------------------------------------------------------------------------
(* The records of the coordinator.                                         *)

\* The response a row stores was made for the row's operation.
RowSound(k) ==
    rows[k] # NoRow => rows[k].id <= dels + 1 /\ rows[k].body = rows[k].op

\* A request that means to take over a row knows it by its id.
Knows(q) ==
    q.at \in {"reclaimExpired", "reclaimFailed"} =>
        LET row == rows[q.op[1]] IN
        /\ q.id <= dels + 1
        /\ row = NoRow => q.id <= dels
        /\ row # NoRow /\ row.id = q.id => row.op = q.op

\* The row of a claimed key is the claim's.
Owned(q) ==
    q.at \in Claiming /\ q.op[1] # NoKey =>
        LET row == rows[q.op[1]] IN
        /\ row # NoRow
        /\ row.id = q.id /\ row.op = q.op
        /\ row.status = "processing"
        /\ row.left >= Lease - q.age
        /\ row.ttl >= RecordTTL - q.age

\* Who takes the row for a dead owner's read it before the claim was made.
Overtaken(q, c) ==
    /\ q.at = "reclaimExpired" /\ q.from = "processing"
    /\ c.at \in Claiming /\ q.op[1] = c.op[1]
    => c.age <= q.age + MaxStall

\* A success that was there when the request came can only be followed by a
\* claim, or by a failure that is younger than the request.
NotRepeated(q) ==
    q.fresh =>
        LET row == rows[q.op[1]] IN
        row # NoRow => /\ row.ttl > -q.age
                       /\ row.status = "failed_retryable" => row.left > -q.age

RInv ==
    /\ \A k \in Keys : RowSound(k)
    /\ \A r \in Requests :
          /\ Knows(req[r]) /\ Owned(req[r]) /\ NotRepeated(req[r])
          /\ req[r].reply \in {NoOp, req[r].op}
    /\ \A r, s \in Requests : Overtaken(req[r], req[s])
    /\ OneRunPerKey

IInv == TInv /\ RInv

LEMMA ClaimedIsClaiming ==
    \A r : Claimed(r) <=> req[r].at \in Claiming /\ req[r].op[1] # NoKey
BY DEF Claimed, Claiming, KeyOf

\* While a key is claimed its row is locked for everybody who tries to take it
\* over, and it does not expire.
LEMMA ClaimIsSafe ==
    ASSUME IInv, NEW c \in Requests, req[c].at \in Claiming, req[c].op[1] # NoKey
    PROVE  /\ req[c].op \in Keys \X Admins /\ req[c].op[1] \in Keys
           /\ rows[req[c].op[1]] \in Rows
           /\ rows[req[c].op[1]].ttl > 0
           /\ \A t \in Requests :
                /\ req[t].at \in {"reclaimExpired", "reclaimFailed"}
                /\ req[t].op[1] = req[c].op[1]
                => ~MayReclaim(rows[req[c].op[1]], req[t].id, req[t].from, req[t].age)
<1>1. req[c].op \in Keys \X Admins /\ req[c].op[1] \in Keys
  BY RequestFields, Operations DEF Sound, IInv
<1> DEFINE row == rows[req[c].op[1]]
<1>2. /\ row # NoRow /\ row.status = "processing"
      /\ row.left >= Lease - req[c].age /\ row.ttl >= RecordTTL - req[c].age
  BY DEF IInv, RInv, Owned
<1>3. row \in Rows
  BY <1>1, <1>2, RowTyped DEF IInv
<1>4. req[c].age \in Nat /\ req[c].age <= MaxRun
  BY RequestFields DEF Sound, IInv
<1>5. row.ttl > 0
  BY <1>2, <1>3, <1>4, RowFields, Numbers
<1>6. ASSUME NEW t \in Requests,
             req[t].at \in {"reclaimExpired", "reclaimFailed"},
             req[t].op[1] = req[c].op[1],
             MayReclaim(row, req[t].id, req[t].from, req[t].age)
      PROVE  FALSE
  <2>1. req[t].from = "processing" /\ row.left <= -req[t].age
    BY <1>2, <1>3, <1>6, RowFields, RequestFields DEF MayReclaim, After, IInv
  <2>2. req[t].at = "reclaimExpired"
    BY <1>6, <2>1, RequestFields DEF Sound, IInv
  <2>3. req[c].age <= req[t].age + MaxStall
    BY <1>6, <2>1, <2>2 DEF IInv, RInv, Overtaken
  <2>4. req[t].age \in Nat
    BY RequestFields DEF IInv
  <2> QED BY <1>2, <1>3, <1>4, <2>1, <2>3, <2>4, RowFields, Numbers
<1> QED BY <1>1, <1>3, <1>5, <1>6

\* Where a request may go by itself: it ends, goes on with its claim, or meets
\* a row that nobody has claimed.
Move(r, q) ==
    /\ q.reply \in {NoOp, q.op}
    /\ \/ q.at = "idle"
       \/ q.at \in Claiming /\ q.op[1] = NoKey
       \/ /\ q.at \in Claiming /\ req[r].at \in Claiming
          /\ q.op = req[r].op /\ q.age = req[r].age /\ q.id = req[r].id
       \/ q.at \in {"get", "getAgain"} /\ NotRepeated(q)
       \/ /\ q.at \in {"reclaimExpired", "reclaimFailed"}
          /\ rows[q.op[1]] \in Rows
          /\ rows[q.op[1]].id = q.id /\ rows[q.op[1]].op = q.op
          /\ \/ q.at = "reclaimFailed"
             \/ rows[q.op[1]].ttl <= -q.age

MovesTo(r, q) == q \in Request /\ Sound(q) /\ Move(r, q) /\ Becomes(r, q)

LEMMA MoveKeeps ==
    ASSUME IInv, NEW r \in Requests, NEW q \in Request, MovesTo(r, q),
           UNCHANGED <<rows, dels>>
    PROVE  RInv'
<1>1. /\ req' \in [Requests -> Request] /\ req'[r] = q
      /\ \A s \in Requests \ {r} : req'[s] = req[s]
      /\ \A s \in Requests : Sound(req'[s])
  BY Becoming, BecomingSound DEF MovesTo, IInv
<1>2. ASSUME q.at \in {"reclaimExpired", "reclaimFailed"}
      PROVE  q.op \in Keys \X Admins /\ q.op[1] \in Keys /\ q.op[1] # NoKey
  BY <1>2, Operations DEF MovesTo, Sound, Coordinating
<1>3. \A k \in Keys : RowSound(k)'
  BY DEF IInv, RInv, RowSound
<1>4. Knows(q)' /\ \A s \in Requests \ {r} : Knows(req[s])'
  <2>1. \A s \in Requests \ {r} : Knows(req[s])'
    BY <1>1 DEF IInv, RInv, Knows
  <2>2. ASSUME q.at \in {"reclaimExpired", "reclaimFailed"}
        PROVE  rows[q.op[1]] \in Rows /\ rows[q.op[1]].id = q.id /\ rows[q.op[1]].op = q.op
    BY <2>2 DEF MovesTo, Move, Claiming, Locking
  <2>3. ASSUME q.at \in {"reclaimExpired", "reclaimFailed"} PROVE q.id <= dels + 1
    BY <2>2, <2>3, <1>2, NoRowIsNoRow DEF IInv, RInv, RowSound
  <2> QED BY <2>1, <2>2, <2>3, NoRowIsNoRow DEF Knows
<1>5. Owned(q)' /\ \A s \in Requests \ {r} : Owned(req[s])'
  <2>1. \A s \in Requests \ {r} : Owned(req[s])'
    BY <1>1 DEF IInv, RInv, Owned
  <2>2. ASSUME q.at \in Claiming, q.op[1] # NoKey
        PROVE  /\ req[r].at \in Claiming
               /\ q.op = req[r].op /\ q.age = req[r].age /\ q.id = req[r].id
    BY <2>2 DEF MovesTo, Move, Claiming, Locking
  <2>3. Owned(req[r])
    BY DEF IInv, RInv
  <2> QED BY <2>1, <2>2, <2>3 DEF Owned
<1>6. NotRepeated(q)' /\ \A s \in Requests \ {r} : NotRepeated(req[s])'
  <2>1. \A s \in Requests \ {r} : NotRepeated(req[s])'
    BY <1>1 DEF IInv, RInv, NotRepeated
  <2>2. q.fresh => q.at = "get"
    BY DEF MovesTo, Sound
  <2>3. q.fresh => NotRepeated(q)
    BY <2>2 DEF MovesTo, Move, Claiming, Locking
  <2> QED BY <2>1, <2>3 DEF NotRepeated
<1>7. \A s \in Requests : req'[s].reply \in {NoOp, req'[s].op}
  BY <1>1 DEF IInv, RInv, MovesTo, Move
<1>8. ASSUME NEW s \in Requests, NEW c \in Requests PROVE Overtaken(req'[s], req'[c])
  <2> SUFFICES ASSUME req'[s].at = "reclaimExpired", req'[s].from = "processing",
                      req'[c].at \in Claiming, req'[s].op[1] = req'[c].op[1]
               PROVE  req'[c].age <= req'[s].age + MaxStall
    BY DEF Overtaken
  <2>1. req'[s].op[1] \in Keys /\ req'[s].op[1] # NoKey
    BY <1>1, Operations DEF Sound, Coordinating
  <2>2. s # c
    BY DEF Claiming, Locking
  <2>3. /\ req[c].at \in Claiming /\ req[c].op = req'[c].op /\ req[c].age = req'[c].age
    BY <1>1, <2>1 DEF MovesTo, Move, Claiming, Locking
  <2>4. CASE s # r
    BY <2>3, <2>4, <1>1 DEF IInv, RInv, Overtaken
  <2>5. CASE s = r
    <3>1. rows[q.op[1]] \in Rows /\ rows[q.op[1]].ttl <= -q.age
      BY <2>5, <1>1 DEF MovesTo, Move, Claiming, Locking
    <3>2. rows[q.op[1]].ttl > 0
      BY <2>1, <2>3, <2>5, <1>1, ClaimIsSafe
    <3>3. q.age \in Nat
      BY DEF Request
    <3> QED BY <3>1, <3>2, <3>3, RowFields
  <2> QED BY <2>4, <2>5
<1>9. OneRunPerKey'
  <2>1. ASSUME NEW s \in Requests, Claimed(s)'
        PROVE  Claimed(s) /\ req'[s].op = req[s].op
    BY <2>1, <1>1, ClaimedIsClaiming DEF MovesTo, Move, Claimed, KeyOf, Claiming, Locking
  <2> QED BY <2>1 DEF IInv, RInv, OneRunPerKey, KeyOf
<1> QED BY <1>1, <1>3, <1>4, <1>5, <1>6, <1>7, <1>8, <1>9 DEF RInv

\* A claimant goes on: what it carries of the coordinator stays as it is.
LEMMA GoesOn ==
    ASSUME IInv, NEW r \in Requests, NEW q \in Request,
           req[r].at \in Claiming, q.at \in Claiming,
           q.op = req[r].op, q.age = req[r].age, q.id = req[r].id,
           q.fresh = req[r].fresh, q.reply = req[r].reply,
           q.at \in Locking => q.lage <= MaxStall,
           Becomes(r, q)
    PROVE  MovesTo(r, q)
<1>1. q.fresh = FALSE
  BY RequestFields DEF IInv, Sound, Claiming, Locking
<1>2. Sound(q)
  BY <1>1, RequestFields DEF IInv, Sound, Claiming, Coordinating, Locking
<1>3. Move(r, q)
  BY DEF IInv, RInv, Move
<1> QED BY <1>2, <1>3 DEF MovesTo

LEMMA Ends ==
    ASSUME IInv, NEW r \in Requests, End(r)
    PROVE  MovesTo(r, Idle)
BY IdleIsSound DEF End, MovesTo, Move

LEMMA StartMoves ==
    ASSUME IInv, NEW r \in Requests, StartWithoutKey(r)
    PROVE  \E q \in Request : MovesTo(r, q)
<1> DEFINE q == [Idle EXCEPT !.at = "acquire", !.op = <<NoKey, r>>]
<1>1. q \in Request /\ q.at = "acquire" /\ q.op = <<NoKey, r>> /\ q.age = 0
      /\ q.lage = 0 /\ q.fresh = FALSE /\ q.reply = NoOp
  BY Operations DEF Idle, Request, Places, Coordinating, Claiming, Locking, Status
<1>2. Sound(q)
  BY <1>1, Operations, Numbers DEF Sound, Coordinating, Claiming, Locking
<1>3. Move(r, q)
  BY <1>1, Operations DEF Move, Claiming, Locking
<1>4. Becomes(r, q)
  BY DEF StartWithoutKey
<1> QED BY <1>1, <1>2, <1>3, <1>4 DEF MovesTo

\* The switch on the status of a row that was read: it is the request's own.
LEMMA DecideMoves ==
    ASSUME IInv, NEW r \in Requests, req[r].at \in {"get", "getAgain"},
           rows[KeyOf(r)] # NoRow, rows[KeyOf(r)].op = req[r].op,
           req[r].at = "get" => After(rows[KeyOf(r)].ttl, req[r].age),
           Decide(r, rows[KeyOf(r)])
    PROVE  \E q \in Request : MovesTo(r, q)
<1> DEFINE row == rows[KeyOf(r)]
<1>1. /\ req[r].op \in Keys \X Admins /\ KeyOf(r) \in Keys
      /\ req[r].age <= MaxStall /\ req[r].lage = 0
  BY RequestFields, Operations DEF Sound, Coordinating, IInv, KeyOf
<1>2. row \in Rows /\ row.body = req[r].op
  BY <1>1, RowTyped DEF IInv, RInv, RowSound
<1>3. CASE Replay(r, row.body)
  <2> DEFINE q == [Idle EXCEPT !.op = req[r].op, !.reply = row.body]
  <2>1. q \in Request /\ Sound(q)
    BY <1>1, <1>2, Operations, ReplayIsSound DEF IInv
  <2>2. q.at = "idle" /\ q.reply = q.op
    BY <1>2 DEF Idle
  <2> QED BY <2>1, <2>2, <1>3 DEF Replay, MovesTo, Move
<1>4. CASE End(r)
  BY <1>4, Ends, IdleIsSound
<1>5. CASE /\ row.status = "failed_retryable" /\ ~After(row.left, req[r].age)
           /\ Becomes(r, [req[r] EXCEPT !.at = "reclaimFailed", !.id = row.id, !.from = row.status])
  <2> DEFINE q == [req[r] EXCEPT !.at = "reclaimFailed", !.id = row.id, !.from = row.status]
  <2>1. /\ q \in Request /\ q.at = "reclaimFailed" /\ q.id = row.id
        /\ q.from = "failed_retryable" /\ q.op = req[r].op /\ q.age = req[r].age
        /\ q.lage = req[r].lage
        /\ q.fresh = req[r].fresh /\ q.reply = req[r].reply
    BY <1>2, <1>5, RowFields, RequestFields, ZenonT(60) DEF IInv, Request, Places, Coordinating
  <2>2. ~req[r].fresh
    <3> SUFFICES ASSUME req[r].fresh PROVE FALSE
      OBVIOUS
    <3>1. row.left > -req[r].age
      BY <1>5 DEF IInv, RInv, NotRepeated, KeyOf
    <3> QED BY <3>1, <1>5 DEF After
  <2>3. Sound(q)
    BY <1>1, <2>1, <2>2 DEF Sound, Coordinating, Claiming, Locking
  <2>4. Move(r, q)
    BY <1>2, <2>1 DEF Move, IInv, RInv, KeyOf
  <2> QED BY <2>1, <2>3, <2>4, <1>5 DEF MovesTo
<1> QED BY <1>3, <1>4, <1>5 DEF Decide

LEMMA GetMoves ==
    ASSUME IInv, NEW r \in Requests, Get(r)
    PROVE  \E q \in Request : MovesTo(r, q)
<1> DEFINE row == rows[KeyOf(r)]
<1>0. req[r].at = "get"
  BY DEF Get
<1>1. /\ req[r].op \in Keys \X Admins /\ KeyOf(r) \in Keys
      /\ req[r].age <= MaxStall /\ req[r].lage = 0
  BY <1>0, RequestFields, Operations DEF Sound, Coordinating, IInv, KeyOf
<1>2. CASE End(r)
  BY <1>2, Ends, IdleIsSound
<1>3. CASE row # NoRow /\ row.op = req[r].op /\ After(row.ttl, req[r].age) /\ Decide(r, row)
  BY <1>0, <1>3, DecideMoves
<1>4. CASE /\ row # NoRow /\ row.op = req[r].op /\ ~After(row.ttl, req[r].age)
           /\ Becomes(r, [req[r] EXCEPT !.at = "reclaimExpired", !.id = row.id, !.from = row.status])
  <2> DEFINE q == [req[r] EXCEPT !.at = "reclaimExpired", !.id = row.id, !.from = row.status]
  <2>0. row \in Rows
    BY <1>1, <1>4, RowTyped DEF IInv
  <2>1. /\ q \in Request /\ q.at = "reclaimExpired" /\ q.id = row.id
        /\ q.op = req[r].op /\ q.age = req[r].age /\ q.lage = req[r].lage
        /\ q.fresh = req[r].fresh /\ q.reply = req[r].reply
    BY <2>0, RowFields, RequestFields DEF IInv, Request, Places, Coordinating
  <2>2. row.ttl <= -req[r].age
    BY <1>4, <2>0, RowFields, RequestFields DEF After, IInv
  <2>3. ~req[r].fresh
    <3> SUFFICES ASSUME req[r].fresh PROVE FALSE
      OBVIOUS
    <3>1. row.ttl > -req[r].age
      BY <1>4 DEF IInv, RInv, NotRepeated, KeyOf
    <3> QED BY <3>1, <1>4 DEF After
  <2>4. Sound(q)
    BY <1>1, <2>1, <2>3 DEF Sound, Coordinating, Claiming, Locking
  <2>5. Move(r, q)
    BY <1>4, <2>0, <2>1, <2>2 DEF Move, IInv, RInv, KeyOf
  <2> QED BY <2>1, <2>4, <2>5, <1>4 DEF MovesTo
<1> QED BY <1>2, <1>3, <1>4 DEF Get

LEMMA GetAgainMoves ==
    ASSUME IInv, NEW r \in Requests, GetAgain(r)
    PROVE  \E q \in Request : MovesTo(r, q)
<1>1. CASE End(r)
  BY <1>1, Ends, IdleIsSound
<1>2. CASE /\ rows[KeyOf(r)] # NoRow /\ rows[KeyOf(r)].op = req[r].op
           /\ Decide(r, rows[KeyOf(r)])
  BY <1>2, DecideMoves DEF GetAgain
<1> QED BY <1>1, <1>2 DEF GetAgain

\* A reclaim that came too late: the record is read again.
LEMMA ReadAgainMoves ==
    ASSUME IInv, NEW r \in Requests, req[r].at = "reclaimExpired", Becomes(r, ReadAgain(r))
    PROVE  ReadAgain(r) \in Request /\ MovesTo(r, ReadAgain(r))
<1> DEFINE q == ReadAgain(r)
<1>1. /\ q \in Request /\ q.at = "getAgain" /\ q.op = req[r].op /\ q.age = req[r].age
      /\ q.lage = req[r].lage
      /\ q.fresh = req[r].fresh /\ q.reply = req[r].reply
  BY RequestFields DEF IInv, ReadAgain, Request, Places, Coordinating
<1>2. ~q.fresh
  BY <1>1, RequestFields DEF IInv, Sound
<1>3. Sound(q)
  BY <1>1, <1>2, RequestFields DEF IInv, Sound, Coordinating, Claiming, Locking
<1>4. Move(r, q)
  BY <1>1, <1>2 DEF Move, NotRepeated, IInv, RInv
<1> QED BY <1>1, <1>3, <1>4 DEF MovesTo

\* The lock's and the operation's steps, as far as the records are concerned.
LEMMA OperateMoves ==
    ASSUME IInv, NEW r \in Requests,
           \/ Operate(r) \/ Release(r) \/ ReleaseFails(r) \/ MarkFails(r)
           \/ Mark(r) /\ KeyOf(r) = NoKey
    PROVE  \E q \in Request : MovesTo(r, q)
<1> USE DEF Becomes
<1>1. CASE Acquire(r) /\ lock = NoRow
  <2> DEFINE q == [req[r] EXCEPT !.at = "run", !.lid = NewId, !.lfrom = "none",
                                 !.created = TRUE, !.lage = req[r].lage]
  <2>1. Becomes(r, q) /\ req[r].at = "acquire"
    BY <1>1 DEF Acquire, Hold
  <2>0. NewId \in Nat
    BY RowTyped DEF IInv, NewId
  <2>2. q \in Request
    BY <2>0, RequestFields DEF IInv, Request, Places
  <2> QED BY <2>1, <2>2, GoesOn DEF Claiming, Locking, Request
<1>2. CASE Acquire(r) /\ lock # NoRow
  <2> DEFINE q == [req[r] EXCEPT !.at = "lockGet"]
  <2>1. Becomes(r, q) /\ req[r].at = "acquire"
    BY <1>2 DEF Acquire
  <2>2. q \in Request
    BY RequestFields DEF IInv, Request, Places, Locking
  <2>3. q.lage <= MaxStall
    BY <2>1, RequestFields DEF IInv, Sound, Locking, Request
  <2> QED BY <2>1, <2>2, <2>3, GoesOn DEF Claiming, Locking, Request
<1>3. CASE Fail(r) /\ req[r].at \in Locking
  <2> DEFINE q == [req[r] EXCEPT !.at = "mark", !.lid = 0, !.lfrom = "none", !.lage = 0]
  <2>1. Becomes(r, q)
    BY <1>3 DEF Fail
  <2>2. q \in Request
    BY RequestFields DEF IInv, Request, Places
  <2> QED BY <1>3, <2>1, <2>2, GoesOn DEF Claiming, Locking, Request
<1>4. CASE /\ LockGet(r) /\ lock # NoRow
           /\ Becomes(r, [req[r] EXCEPT !.at = "lockReclaim", !.lid = lock.id, !.lfrom = lock.status])
  <2> DEFINE q == [req[r] EXCEPT !.at = "lockReclaim", !.lid = lock.id, !.lfrom = lock.status]
  <2>1. Becomes(r, q) /\ req[r].at = "lockGet"
    BY <1>4 DEF LockGet
  <2>2. q \in Request
    BY <1>4, RequestFields, RowTyped, RowFields, ZenonT(60) DEF IInv, Request, Places, Locking
  <2>3. q.lage <= MaxStall
    BY <2>1, RequestFields DEF IInv, Sound, Locking, Request
  <2> QED BY <2>1, <2>2, <2>3, GoesOn DEF Claiming, Locking, Request
<1>5. CASE LockReclaim(r) /\ Hold(r, req[r].lid, FALSE)
  <2> DEFINE q == [req[r] EXCEPT !.at = "run", !.lid = req[r].lid, !.lfrom = "none",
                                 !.created = FALSE, !.lage = 0]
  <2>1. Becomes(r, q) /\ req[r].at = "lockReclaim"
    BY <1>5 DEF LockReclaim, Hold
  <2>2. q \in Request
    BY RequestFields DEF IInv, Request, Places
  <2> QED BY <2>1, <2>2, GoesOn DEF Claiming, Locking, Request
<1>6. CASE \E ok \in BOOLEAN : Finish(r, ok)
  <2>0. PICK ok \in BOOLEAN : Finish(r, ok)
    BY <1>6
  <2> DEFINE q == [req[r] EXCEPT !.at = "release", !.ok = ok]
  <2>1. Becomes(r, q) /\ req[r].at = "run"
    BY <2>0 DEF Finish
  <2>2. q \in Request
    BY RequestFields, ZenonT(60) DEF IInv, Request, Places
  <2> QED BY <2>1, <2>2, GoesOn DEF Claiming, Locking, Request
<1>7. CASE Release(r) \/ ReleaseFails(r)
  <2> DEFINE q == [req[r] EXCEPT !.at = "mark", !.lid = 0, !.lage = 0, !.created = FALSE]
  <2>1. Becomes(r, q) /\ req[r].at = "release"
    BY <1>7 DEF Release, ReleaseFails
  <2>2. q \in Request
    BY RequestFields DEF IInv, Request, Places
  <2> QED BY <2>1, <2>2, GoesOn DEF Claiming, Locking, Request
<1>8. CASE MarkFails(r) \/ Mark(r)
  BY <1>8, Ends, IdleIsSound DEF MarkFails, Mark
<1>9. LockGet(r) => Fail(r) \/ /\ lock # NoRow
                               /\ Becomes(r, [req[r] EXCEPT !.at = "lockReclaim", !.lid = lock.id,
                                                            !.lfrom = lock.status])
  BY DEF LockGet
<1>10. LockReclaim(r) => Fail(r) \/ Hold(r, req[r].lid, FALSE)
  BY DEF LockReclaim
<1>11. LockGet(r) \/ LockReclaim(r) => req[r].at \in Locking
  BY DEF LockGet, LockReclaim, Locking
<1> QED BY <1>1, <1>2, <1>3, <1>4, <1>5, <1>6, <1>7, <1>8, <1>9, <1>10, <1>11 DEF Operate

-----------------------------------------------------------------------------
(* Claims.                                                                 *)

\* A request claims a key nobody has claimed: its row is new, or taken over.
Claims(r, q, k, new) ==
    /\ q \in Request /\ Sound(q) /\ Becomes(r, q)
    /\ q.at = "acquire" /\ q.op \in Keys \X Admins /\ q.op[1] = k /\ q.age <= MaxStall
    /\ q.reply \in {NoOp, q.op}
    /\ rows' = [rows EXCEPT ![k] = new]
    /\ new \in Rows /\ new.id = q.id /\ new.op = q.op /\ new.body = new.op
    /\ new.id <= dels + 1 /\ new.status = "processing"
    /\ new.left = Lease - q.age /\ new.ttl = RecordTTL - q.age
    /\ \A s \in Requests : ~(req[s].at \in Claiming /\ req[s].op[1] = k)
    /\ \/ rows[k] = NoRow /\ new.id = dels + 1
       \/ rows[k] \in Rows /\ new.id = rows[k].id /\ new.op = rows[k].op

LEMMA ClaimKeeps ==
    ASSUME IInv, NEW r \in Requests, NEW q \in Request, NEW k \in Keys, NEW new \in Rows,
           Claims(r, q, k, new), UNCHANGED dels
    PROVE  RInv'
<1>1. /\ req' \in [Requests -> Request] /\ req'[r] = q
      /\ \A s \in Requests \ {r} : req'[s] = req[s]
      /\ \A s \in Requests : Sound(req'[s])
  BY Becoming, BecomingSound DEF Claims, IInv
<1>2. rows'[k] = new /\ \A j \in Keys \ {k} : rows'[j] = rows[j]
  BY DEF Claims, IInv, TInv, TypeOK
<1>3. new # NoRow /\ q.fresh = FALSE /\ q.age \in Nat
  BY NoRowIsNoRow DEF Claims, Sound, Request
<1>4. \A j \in Keys : RowSound(j)'
  BY <1>2 DEF IInv, RInv, RowSound, Claims
<1>5. ASSUME NEW s \in Requests \ {r},
             req[s].at \in Coordinating \/ (req[s].at \in Claiming /\ req[s].op[1] # NoKey)
      PROVE  req[s].op[1] \in Keys
  BY <1>5, RequestFields, Operations DEF IInv, Sound
<1>6. Knows(q)' /\ \A s \in Requests \ {r} : Knows(req[s])'
  <2>1. Knows(q)'
    BY DEF Knows, Claims
  <2>2. ASSUME NEW s \in Requests \ {r},
               req[s].at \in {"reclaimExpired", "reclaimFailed"}, req[s].op[1] = k
        PROVE  req[s].id <= dels + 1 /\ (new.id = req[s].id => new.op = req[s].op)
    <3>1. /\ req[s].id <= dels + 1
          /\ rows[k] = NoRow => req[s].id <= dels
          /\ rows[k] # NoRow /\ rows[k].id = req[s].id => rows[k].op = req[s].op
      BY <2>2 DEF IInv, RInv, Knows
    <3>2. req[s].id \in Nat /\ dels \in Nat
      BY RequestFields, RowTyped DEF IInv
    <3> QED BY <3>1, <3>2, NoRowIsNoRow DEF Claims
  <2>3. ASSUME NEW s \in Requests \ {r},
               req[s].at \in {"reclaimExpired", "reclaimFailed"}
        PROVE  Knows(req[s])'
    <3>1. CASE req[s].op[1] = k
      BY <3>1, <2>2, <2>3, <1>1, <1>2, <1>3 DEF Knows
    <3>2. CASE req[s].op[1] # k
      BY <3>2, <2>3, <1>1, <1>2, <1>5 DEF Knows, IInv, RInv, Coordinating
    <3> QED BY <3>1, <3>2
  <2>4. \A s \in Requests \ {r} : Knows(req[s])'
    BY <2>3, <1>1 DEF Knows
  <2> QED BY <2>1, <2>4
<1>7. Owned(q)' /\ \A s \in Requests \ {r} : Owned(req[s])'
  <2>1. Owned(q)'
    BY <1>2, <1>3, Numbers DEF Owned, Claims
  <2>2. ASSUME NEW s \in Requests \ {r}, req[s].at \in Claiming, req[s].op[1] # NoKey
        PROVE  rows'[req[s].op[1]] = rows[req[s].op[1]]
    BY <2>2, <1>2, <1>5 DEF Claims
  <2>3. \A s \in Requests \ {r} : Owned(req[s])'
    BY <1>1, <2>2 DEF IInv, RInv, Owned
  <2> QED BY <2>1, <2>3
<1>8. NotRepeated(q)' /\ \A s \in Requests \ {r} : NotRepeated(req[s])'
  <2>1. NotRepeated(q)'
    BY <1>3 DEF NotRepeated
  <2>2. ASSUME NEW s \in Requests \ {r}, req[s].fresh
        PROVE  NotRepeated(req[s])'
    <3>1. req[s].op[1] \in Keys /\ req[s].age \in Nat
      BY <2>2, <1>5, RequestFields DEF Sound, IInv, Coordinating
    <3>2. new.ttl > 0
      BY <1>3, Numbers DEF Claims
    <3>3. CASE req[s].op[1] = k
      BY <3>1, <3>2, <3>3, <1>1, <1>2, RowFields DEF NotRepeated, Claims
    <3>4. CASE req[s].op[1] # k
      BY <3>1, <3>4, <2>2, <1>1, <1>2 DEF NotRepeated, IInv, RInv
    <3> QED BY <3>3, <3>4
  <2> QED BY <2>1, <2>2, <1>1 DEF NotRepeated
<1>9. \A s \in Requests : req'[s].reply \in {NoOp, req'[s].op}
  BY <1>1 DEF IInv, RInv, Claims
<1>10. ASSUME NEW s \in Requests, NEW c \in Requests PROVE Overtaken(req'[s], req'[c])
  <2>1. CASE c = r
    <3>1. req'[s].age \in Nat
      BY <1>1 DEF Request
    <3> QED BY <2>1, <3>1, <1>1, <1>3, Numbers DEF Overtaken, Claims
  <2>2. CASE c # r /\ s # r
    BY <2>2, <1>1 DEF Overtaken, IInv, RInv
  <2>3. CASE s = r
    BY <2>3, <1>1 DEF Overtaken, Claims
  <2> QED BY <2>1, <2>2, <2>3
<1>11. OneRunPerKey'
  <2>1. ASSUME NEW s \in Requests \ {r}, Claimed(s)'
        PROVE  Claimed(s) /\ KeyOf(s)' = KeyOf(s) /\ KeyOf(s) # k
    BY <2>1, <1>1, ClaimedIsClaiming DEF Claims, Claimed, KeyOf, Claiming
  <2>2. KeyOf(r)' = k
    BY <1>1 DEF KeyOf, Claims
  <2> QED BY <2>1, <2>2 DEF IInv, RInv, OneRunPerKey
<1> QED BY <1>1, <1>4, <1>6, <1>7, <1>8, <1>9, <1>10, <1>11 DEF RInv

LEMMA CreateClaimsOrMoves ==
    ASSUME IInv, NEW r \in Requests, NEW op \in Keys \X Admins, NEW age \in 0..MaxStall,
           Create(r, op, age)
    PROVE  \/ UNCHANGED rows /\ \E q \in Request : MovesTo(r, q)
           \/ \E q \in Request, new \in Rows : Claims(r, q, op[1], new)
<1> DEFINE k == op[1]
           row == rows[k]
           start == [Idle EXCEPT !.op = op, !.age = age]
<1>1. k \in Keys /\ k # NoKey /\ op \in OperationIds
  BY Operations
<1>2. age \in Nat /\ age <= MaxStall /\ Lease - age \in 0..Time /\ RecordTTL - age \in 0..Time
  BY Numbers, TimeBounds
<1>3. NewId \in Nat /\ NewId = dels + 1 /\ dels \in Nat
  BY RowTyped DEF NewId, IInv
<1>4. CASE row = NoRow /\ Becomes(r, [start EXCEPT !.at = "acquire", !.id = NewId])
  <2> DEFINE q == [start EXCEPT !.at = "acquire", !.id = NewId]
             new == CreateProcessing(NoRow, NewId, op, Lease - age, RecordTTL - age)
  <2>1. /\ q \in Request /\ q.at = "acquire" /\ q.op = op /\ q.age = age /\ q.lage = 0
        /\ q.id = NewId /\ q.fresh = FALSE /\ q.reply = NoOp
    BY <1>1, <1>2, <1>3 DEF Idle, Request, Places, Coordinating, Claiming, Locking, Status
  <2>2. Sound(q)
    BY <1>1, <1>2, <2>1, Numbers DEF Sound, Coordinating, Claiming, Locking
  <2>3. /\ new \in Rows /\ new.id = NewId /\ new.op = op /\ new.body = op
        /\ new.status = "processing" /\ new.left = Lease - age /\ new.ttl = RecordTTL - age
    <3>1. /\ new = [id |-> NewId, status |-> "processing", op |-> op, left |-> Lease - age,
                    ttl |-> RecordTTL - age, body |-> op]
      BY DEF CreateProcessing
    <3>2. Lease - age \in Past..Time /\ RecordTTL - age \in Past..Time
      BY <1>2, Numbers, TimeBounds DEF Past
    <3> QED BY <3>1, <3>2, <1>1, <1>3 DEF Rows, Row, Status
  <2>4. rows' = [rows EXCEPT ![k] = new]
    BY <1>4 DEF Create
  <2>5. \A s \in Requests : ~(req[s].at \in Claiming /\ req[s].op[1] = k)
    BY <1>1, <1>4, ClaimIsSafe, NoRowIsNoRow
  <2>6. Becomes(r, q)
    BY <1>4
  <2> HIDE DEF q, new
  <2>7. Claims(r, q, k, new)
    BY <1>1, <1>2, <1>3, <1>4, <2>1, <2>2, <2>3, <2>4, <2>5, <2>6 DEF Claims
  <2> QED BY <2>1, <2>3, <2>7
<1>5. CASE row # NoRow /\ \E fresh \in {row.op = op /\ row.status = "succeeded" /\ After(row.ttl, age)} :
               Becomes(r, [start EXCEPT !.at = "get", !.fresh = fresh])
  <2>0. row \in Rows
    BY <1>1, <1>5, RowTyped DEF IInv
  <2> DEFINE fresh == row.op = op /\ row.status = "succeeded" /\ After(row.ttl, age)
             q == [start EXCEPT !.at = "get", !.fresh = fresh]
  <2>1. /\ q \in Request /\ q.at = "get" /\ q.op = op /\ q.age = age /\ q.lage = 0
        /\ q.fresh = fresh /\ q.reply = NoOp
    <3>1. fresh \in BOOLEAN
      OBVIOUS
    <3> HIDE DEF fresh
    <3> QED BY <3>1, <1>1, <1>2 DEF Idle, Request, Places, Coordinating, Claiming, Locking, Status
  <2>2. Sound(q)
    BY <1>1, <1>2, <2>1 DEF Sound, Coordinating, Claiming, Locking
  <2>3. NotRepeated(q)
    BY <2>1 DEF NotRepeated, After
  <2>4. Move(r, q)
    BY <2>1, <2>3 DEF Move
  <2>5. Becomes(r, q)
    BY <1>5
  <2>6. CreateProcessing(row, NewId, op, Lease - age, RecordTTL - age) = row
    BY <1>5 DEF CreateProcessing
  <2>7. rows' = rows
    BY <1>1, <2>6 DEF Create, IInv, TInv, TypeOK
  <2> QED BY <2>1, <2>2, <2>4, <2>5, <2>7 DEF MovesTo
<1> QED BY <1>4, <1>5 DEF Create

LEMMA ReclaimClaimsOrMoves ==
    ASSUME IInv, NEW r \in Requests, ReclaimExpired(r) \/ ReclaimFailed(r)
    PROVE  \/ UNCHANGED rows /\ \E q \in Request : MovesTo(r, q)
           \/ \E k \in Keys, q \in Request, new \in Rows : Claims(r, q, k, new)
<1> DEFINE k == KeyOf(r)
           row == rows[k]
           age == req[r].age
<1>0. req[r].at \in {"reclaimExpired", "reclaimFailed"}
  BY DEF ReclaimExpired, ReclaimFailed, TryReclaim
<1>1. req[r].op \in Keys \X Admins /\ k \in Keys /\ age \in Nat /\ age <= MaxStall
  BY <1>0, RequestFields, Operations DEF Sound, Coordinating, IInv, KeyOf
<1>2. CASE ~MayReclaim(row, req[r].id, req[r].from, age)
  <2>1. CASE ReclaimExpired(r)
    BY <2>1, <1>2, ReadAgainMoves DEF ReclaimExpired, TryReclaim
  <2>2. CASE ReclaimFailed(r)
    <3>1. End(r) /\ UNCHANGED rows
      BY <2>2, <1>2 DEF ReclaimFailed, TryReclaim, End
    <3> QED BY <3>1, Ends, IdleIsSound
  <2> QED BY <2>1, <2>2
<1>3. CASE MayReclaim(row, req[r].id, req[r].from, age)
  <2> DEFINE new == Reclaimed(row, Lease - age, RecordTTL - age)
             q == [req[r] EXCEPT !.at = "acquire", !.from = "none"]
  <2>1. row \in Rows /\ row.id = req[r].id
    BY <1>1, <1>3, RowTyped DEF MayReclaim, IInv
  <2>2. row.op = req[r].op
    BY <2>1, <1>0, NoRowIsNoRow DEF IInv, RInv, Knows, KeyOf
  <2>3. Lease - age \in 0..Time /\ RecordTTL - age \in 0..Time
    BY <1>1, Numbers, TimeBounds
  <2>4. /\ new \in Rows /\ new.id = row.id /\ new.op = row.op /\ new.body = row.body
        /\ new.status = "processing" /\ new.left = Lease - age /\ new.ttl = RecordTTL - age
    BY <2>1, <2>3, CreatedRow, RowFields
  <2>5. row.body = row.op /\ row.id <= dels + 1
    BY <1>1, <2>1, NoRowIsNoRow DEF IInv, RInv, RowSound
  <2>6. /\ q \in Request /\ q.at = "acquire" /\ q.op = req[r].op /\ q.age = age
        /\ q.lage = req[r].lage /\ q.id = req[r].id /\ q.fresh = req[r].fresh
        /\ q.reply = req[r].reply
    BY RequestFields DEF IInv, Request, Places, Locking
  <2>7. rows' = [rows EXCEPT ![k] = new] /\ Becomes(r, q)
    <3>1. rows' = [rows EXCEPT ![k] = Reclaimed(@, Lease - age, RecordTTL - age)] /\ Claim(r)
      BY <1>3 DEF ReclaimExpired, ReclaimFailed, TryReclaim
    <3> QED BY <3>1 DEF Claim
  <2>8. \A s \in Requests : ~(req[s].at \in Claiming /\ req[s].op[1] = k)
    <3> SUFFICES ASSUME NEW s \in Requests, req[s].at \in Claiming, req[s].op[1] = k PROVE FALSE
      OBVIOUS
    <3>1. req[s].op[1] # NoKey
      BY <1>1, SystemOperationsAssumption
    <3> QED BY <3>1, <1>0, <1>3, ClaimIsSafe DEF KeyOf
  <2>9. Sound(q)
    BY <1>0, <1>1, <2>6, RequestFields, Operations, Numbers
       DEF Sound, IInv, Coordinating, Claiming, Locking
  <2>10. Claims(r, q, k, new)
    BY <1>1, <2>1, <2>2, <2>4, <2>5, <2>6, <2>7, <2>8, <2>9 DEF Claims, KeyOf, IInv, RInv
  <2> QED BY <1>1, <2>4, <2>6, <2>10
<1> QED BY <1>2, <1>3

-----------------------------------------------------------------------------
(* The end of a claim, the cleanup, the end of the process, and time.      *)

LEMMA MarkKeeps ==
    ASSUME IInv, NEW r \in Requests, Mark(r), KeyOf(r) # NoKey
    PROVE  /\ RInv' /\ req' \in [Requests -> Request]
           /\ \A s \in Requests : Sound(req'[s])
           /\ rows' \in [Keys -> Row(OperationIds, Time) \cup {NoRow}]
<1> DEFINE k == KeyOf(r)
           row == rows[k]
           ttl == RecordTTL - req[r].age
           new == rows'[k]
<1>1. req[r].at \in Claiming /\ req[r].op[1] = k /\ k # NoKey
  BY DEF Mark, KeyOf, Claiming
<1>2. k \in Keys /\ row \in Rows /\ req[r].op \in OperationIds
  BY <1>1, ClaimIsSafe, Operations
<1>3. row.id = req[r].id /\ row.op = req[r].op
  BY <1>1 DEF IInv, RInv, Owned
<1>4. ttl \in 0..Time /\ ttl > 0 /\ Backoff \in 0..Time /\ Backoff > 0
  BY <1>1, RequestFields, Numbers, TimeBounds DEF IInv, Sound
<1>5. rows' = [rows EXCEPT ![k] = IF req[r].ok THEN MarkSucceeded(row, req[r].id, req[r].op, ttl)
                                  ELSE MarkFailedRetryable(row, req[r].id, Backoff, ttl)]
  BY <1>1 DEF Mark
<1>6. new = IF req[r].ok THEN MarkSucceeded(row, req[r].id, req[r].op, ttl)
            ELSE MarkFailedRetryable(row, req[r].id, Backoff, ttl)
  BY <1>2, <1>5 DEF IInv, TInv, TypeOK
<1>7. /\ new \in Rows /\ new.id = row.id /\ new.op = row.op /\ new.ttl = ttl
      /\ new.body = row.op
      /\ new.status = "failed_retryable" => new.left = Backoff
  <2>1. row.body = row.op
    BY <1>2, NoRowIsNoRow DEF IInv, RInv, RowSound
  <2> HIDE DEF new, ttl, row
  <2>2. CASE req[r].ok
    BY <2>1, <2>2, <1>2, <1>3, <1>4, <1>6, SucceededRow, SMTT(60)
  <2>3. CASE ~req[r].ok
    <3> DEFINE failed == MarkFailedRetryable(row, row.id, Backoff, ttl)
    <3>1. /\ failed \in Rows /\ failed.id = row.id /\ failed.op = row.op
          /\ failed.body = row.body /\ failed.left = Backoff /\ failed.ttl = ttl
      BY <1>2, <1>4, FailedRow
    <3>2. new = failed
      BY <2>3, <1>3, <1>6
    <3> QED BY <2>1, <3>1, <3>2
  <2> QED BY <2>2, <2>3
<1>8. /\ req' \in [Requests -> Request] /\ req'[r] = Idle
      /\ \A s \in Requests \ {r} : req'[s] = req[s]
      /\ \A s \in Requests : Sound(req'[s])
  BY Becoming, BecomingSound, IdleIsSound DEF IInv, Mark, End
<1>9. /\ \A j \in Keys \ {k} : rows'[j] = rows[j]
      /\ rows' \in [Keys -> Row(OperationIds, Time) \cup {NoRow}]
  BY <1>2, <1>5, <1>6, <1>7 DEF IInv, TInv, TypeOK, Rows
<1> HIDE DEF new, row, ttl
<1>10. new = rows'[k] /\ new # NoRow /\ row # NoRow /\ row = rows[k] /\ dels' = dels
  BY <1>2, <1>7, NoRowIsNoRow DEF new, row, Mark, Counters
<1>11. \A j \in Keys : RowSound(j)'
  BY <1>2, <1>7, <1>9, <1>10 DEF IInv, RInv, RowSound
<1>12. ASSUME NEW s \in Requests \ {r},
              req[s].at \in Coordinating \/ (req[s].at \in Claiming /\ req[s].op[1] # NoKey)
       PROVE  req[s].op[1] \in Keys
  BY <1>12, RequestFields, Operations DEF IInv, Sound
<1>13. Knows(Idle)' /\ Owned(Idle)' /\ NotRepeated(Idle)' /\ Idle.reply \in {NoOp, Idle.op}
  BY IdleIsSound DEF Knows, Owned, NotRepeated, Claiming, Locking
<1>14. ASSUME NEW s \in Requests \ {r} PROVE Knows(req[s])'
  BY <1>7, <1>8, <1>9, <1>10, <1>12 DEF Knows, IInv, RInv, Coordinating
<1>15. ASSUME NEW s \in Requests \ {r} PROVE Owned(req[s])'
  <2> SUFFICES ASSUME req[s].at \in Claiming, req[s].op[1] # NoKey
               PROVE  Owned(req[s])'
    BY <1>8 DEF Owned
  <2>1. req[s].op[1] # k
    BY <1>1, ClaimedIsClaiming DEF IInv, RInv, OneRunPerKey, KeyOf
  <2>2. req[s].op[1] \in Keys
    BY <1>12
  <2> QED BY <2>1, <2>2, <1>8, <1>9 DEF Owned, IInv, RInv
<1>16. ASSUME NEW s \in Requests \ {r} PROVE NotRepeated(req[s])'
  <2> SUFFICES ASSUME req[s].fresh PROVE NotRepeated(req[s])'
    BY <1>8 DEF NotRepeated
  <2>1. req[s].op[1] \in Keys /\ req[s].age \in Nat
    BY <1>12, RequestFields DEF Sound, IInv, Coordinating
  <2>2. CASE req[s].op[1] = k
    BY <2>1, <2>2, <1>4, <1>7, <1>8, <1>10 DEF NotRepeated
  <2>3. CASE req[s].op[1] # k
    BY <2>1, <2>3, <1>8, <1>9 DEF NotRepeated, IInv, RInv
  <2> QED BY <2>2, <2>3
<1>17. \A s, c \in Requests : Overtaken(req'[s], req'[c])
  BY <1>8, IdleIsSound DEF Overtaken, IInv, RInv, Claiming, Locking
<1>18. OneRunPerKey'
  <2>1. ASSUME NEW s \in Requests, Claimed(s)' PROVE Claimed(s) /\ req'[s] = req[s]
    BY <2>1, <1>8, IdleIsSound, ClaimedIsClaiming DEF Claimed, KeyOf, Locking
  <2> QED BY <2>1 DEF IInv, RInv, OneRunPerKey, KeyOf
<1>19. \A s \in Requests : /\ Knows(req[s])' /\ Owned(req[s])' /\ NotRepeated(req[s])'
                           /\ req'[s].reply \in {NoOp, req'[s].op}
  <2>1. ASSUME NEW s \in Requests \ {r}
        PROVE  /\ Knows(req[s])' /\ Owned(req[s])' /\ NotRepeated(req[s])'
               /\ req'[s].reply \in {NoOp, req'[s].op}
    BY <1>8, <1>14, <1>15, <1>16 DEF IInv, RInv, Knows, Owned, NotRepeated
  <2>2. /\ Knows(req[r])' /\ Owned(req[r])' /\ NotRepeated(req[r])'
        /\ req'[r].reply \in {NoOp, req'[r].op}
    BY <1>8, <1>13 DEF Knows, Owned, NotRepeated
  <2> QED BY <2>1, <2>2
<1> QED BY <1>8, <1>9, <1>11, <1>17, <1>18, <1>19 DEF RInv

LEMMA CleanKeeps ==
    ASSUME IInv, NEW k \in Keys, CleanKey(k)
    PROVE  RInv' /\ rows' \in [Keys -> Row(OperationIds, Time) \cup {NoRow}]
<1>1. /\ rows'[k] = NoRow /\ dels' = dels + 1 /\ req' = req /\ dels \in Nat
      /\ \A j \in Keys \ {k} : rows'[j] = rows[j]
      /\ rows' \in [Keys -> Row(OperationIds, Time) \cup {NoRow}]
  BY RowTyped DEF CleanKey, IInv, TInv, TypeOK
<1>2. rows[k] \in Rows /\ rows[k].ttl <= 0
  BY RowTyped, RowFields DEF CleanKey, Expired, After, IInv
<1>3. ASSUME NEW s \in Requests, req[s].at \in Claiming, req[s].op[1] # NoKey
      PROVE  req[s].op[1] \in Keys \ {k}
  BY <1>2, <1>3, ClaimIsSafe, RowFields
<1>4. ASSUME NEW s \in Requests, req[s].at \in Coordinating PROVE req[s].op[1] \in Keys
  BY <1>4, RequestFields, Operations DEF IInv, Sound
<1>5. \A j \in Keys : RowSound(j)'
  <2> SUFFICES ASSUME NEW j \in Keys \ {k}, rows[j] # NoRow
               PROVE  rows[j].id <= dels + 2 /\ rows[j].body = rows[j].op
    BY <1>1 DEF RowSound
  <2>1. rows[j].id \in Nat
    BY RowTyped, RowFields DEF IInv
  <2> QED BY <1>1, <2>1 DEF IInv, RInv, RowSound
<1>6. ASSUME NEW s \in Requests PROVE Knows(req[s])'
  <2>1. req[s].id \in Nat
    BY RequestFields DEF IInv
  <2> QED BY <1>1, <1>4, <2>1 DEF Knows, IInv, RInv, Coordinating
<1>7. ASSUME NEW s \in Requests PROVE Owned(req[s])'
  BY <1>1, <1>3 DEF Owned, IInv, RInv
<1>8. ASSUME NEW s \in Requests PROVE NotRepeated(req[s])'
  <2>1. req[s].fresh => req[s].op[1] \in Keys
    BY <1>4, RequestFields DEF Sound, IInv, Coordinating
  <2> QED BY <1>1, <2>1 DEF NotRepeated, IInv, RInv
<1>9. \A s, c \in Requests : Overtaken(req'[s], req'[c])
  BY <1>1 DEF IInv, RInv
<1>10. OneRunPerKey'
  BY <1>1 DEF IInv, RInv, OneRunPerKey, Claimed, KeyOf
<1> QED BY <1>1, <1>5, <1>6, <1>7, <1>8, <1>9, <1>10 DEF RInv, IInv

LEMMA CrashKeeps ==
    ASSUME IInv, Crash
    PROVE  RInv' /\ req' \in [Requests -> Request] /\ \A s \in Requests : Sound(req'[s])
<1>1. /\ \A s \in Requests : req'[s] = Idle
      /\ req' \in [Requests -> Request] /\ rows' = rows /\ dels' = dels
  BY IdleIsSound DEF Crash
<1>2. /\ Knows(Idle)' /\ Owned(Idle)' /\ NotRepeated(Idle)' /\ Idle.reply \in {NoOp, Idle.op}
      /\ Overtaken(Idle, Idle)
  BY IdleIsSound DEF Knows, Owned, NotRepeated, Overtaken, Claiming, Locking
<1>3. \A s \in Requests : /\ Knows(req[s])' /\ Owned(req[s])' /\ NotRepeated(req[s])'
                          /\ req'[s].reply \in {NoOp, req'[s].op}
  BY <1>1, <1>2 DEF Knows, Owned, NotRepeated
<1>4. \A k \in Keys : RowSound(k)'
  BY <1>1 DEF RowSound, IInv, RInv
<1>5. OneRunPerKey'
  BY <1>1, IdleIsSound DEF OneRunPerKey, Claimed, Locking
<1>6. \A s, c \in Requests : Overtaken(req'[s], req'[c])
  BY <1>1, <1>2
<1> QED BY <1>1, <1>3, <1>4, <1>5, <1>6, IdleIsSound DEF RInv

\* What a tick makes of a request that may wait.
LEMMA PassedRequest ==
    ASSUME TInv, NEW r \in Requests, MayWait(r)
    PROVE  /\ Passed(r) \in Request /\ Sound(Passed(r))
           /\ Passed(r).at = req[r].at /\ Passed(r).op = req[r].op
           /\ Passed(r).id = req[r].id /\ Passed(r).from = req[r].from
           /\ Passed(r).lid = req[r].lid /\ Passed(r).created = req[r].created
           /\ Passed(r).fresh = req[r].fresh /\ Passed(r).reply = req[r].reply
           /\ req[r].at # "idle" => Passed(r).age = req[r].age + 1
           /\ Passed(r).lage = IF req[r].at \in Locking THEN req[r].lage + 1 ELSE req[r].lage
<1>1. CASE req[r].at = "idle"
  BY <1>1, RequestFields DEF Passed, Locking
<1>2. CASE req[r].at # "idle"
  <2> DEFINE lage == IF req[r].at \in Locking THEN req[r].lage + 1 ELSE req[r].lage
  <2>0. lage \in Nat /\ req[r].age + 1 \in Nat
    BY RequestFields
  <2>1. Passed(r) = [req[r] EXCEPT !.age = req[r].age + 1, !.lage = lage]
    BY <1>2 DEF Passed
  <2> HIDE DEF lage
  <2>2. /\ Passed(r) \in Request
        /\ Passed(r).at = req[r].at /\ Passed(r).op = req[r].op
        /\ Passed(r).id = req[r].id /\ Passed(r).from = req[r].from
        /\ Passed(r).lid = req[r].lid /\ Passed(r).created = req[r].created
        /\ Passed(r).fresh = req[r].fresh /\ Passed(r).reply = req[r].reply
        /\ Passed(r).age = req[r].age + 1 /\ Passed(r).lage = lage
    BY <2>0, <2>1, RequestFields DEF Request
  <2> USE DEF lage
  <2>3. Sound(Passed(r))
    <3>1. Sound(req[r]) /\ req[r].age \in Nat /\ req[r].lage \in Nat
      BY RequestFields
    <3>2. /\ req[r].at \in Coordinating => req[r].age < MaxStall
          /\ req[r].at \in Locking => req[r].lage < MaxStall /\ req[r].age < MaxRun
          /\ req[r].at = "run" => req[r].age < MaxRun
          /\ req[r].at \notin {"release", "mark"}
      BY DEF MayWait
    <3> QED BY <2>2, <3>1, <3>2, Numbers DEF Sound, Coordinating, Claiming, Locking
  <2> QED BY <2>2, <2>3
<1> QED BY <1>1, <1>2

LEMMA TickKeeps ==
    ASSUME IInv, Tick
    PROVE  /\ RInv' /\ req' \in [Requests -> Request]
           /\ \A s \in Requests : Sound(req'[s])
           /\ rows' \in [Keys -> Row(OperationIds, Time) \cup {NoRow}]
<1>1. /\ \A s \in Requests : MayWait(s) /\ req'[s] = Passed(s)
      /\ \A k \in Keys : rows'[k] = Aged(rows[k])
      /\ dels' = dels
  BY DEF Tick, Counters
<1>2. /\ req' \in [Requests -> Request] /\ \A s \in Requests : Sound(req'[s])
  BY <1>1, PassedRequest DEF Tick, IInv
<1>3. /\ rows' \in [Keys -> Row(OperationIds, Time) \cup {NoRow}]
      /\ \A k \in Keys : rows'[k] = NoRow <=> rows[k] = NoRow
      /\ \A k \in Keys : rows[k] # NoRow => rows[k] \in Rows /\ rows'[k] \in Rows
  BY <1>1, RowTyped, AgedRow, AgedNoRow, NoRowIsNoRow DEF Tick, IInv, Rows
<1>4. \A k \in Keys : RowSound(k)'
  BY <1>1, <1>3, AgedRow DEF IInv, RInv, RowSound
<1>5. ASSUME NEW s \in Requests,
             req[s].at \in Coordinating \/ (req[s].at \in Claiming /\ req[s].op[1] # NoKey)
      PROVE  /\ req[s].op[1] \in Keys /\ req'[s].age = req[s].age + 1
             /\ req[s].age \in Nat
  BY <1>1, <1>5, PassedRequest, RequestFields, Operations
     DEF IInv, Sound, Coordinating, Claiming, Locking
<1>6. ASSUME NEW s \in Requests PROVE Knows(req[s])'
  BY <1>1, <1>3, <1>5, AgedRow, PassedRequest DEF Knows, IInv, RInv, Coordinating
<1>7. ASSUME NEW s \in Requests PROVE Owned(req[s])'
  <2> SUFFICES ASSUME req[s].at \in Claiming, req[s].op[1] # NoKey PROVE Owned(req[s])'
    BY <1>1, PassedRequest DEF Owned, IInv
  <2> DEFINE row == rows[req[s].op[1]]
  <2>1. /\ row \in Rows /\ row.id = req[s].id /\ row.op = req[s].op
        /\ row.status = "processing"
        /\ row.left >= Lease - req[s].age /\ row.ttl >= RecordTTL - req[s].age
    BY <1>3, <1>5 DEF IInv, RInv, Owned
  <2>2. Aged(row).left >= row.left - 1 /\ Aged(row).ttl >= row.ttl - 1
    BY <2>1, AgedRow, RowFields, OlderIsOlder
  <2>3. /\ rows'[req[s].op[1]] = Aged(row) /\ req'[s].op = req[s].op /\ req'[s].id = req[s].id
        /\ req'[s].age = req[s].age + 1 /\ req[s].age \in Nat
    BY <1>1, <1>5, PassedRequest DEF IInv
  <2>4. /\ Aged(row) # NoRow /\ Aged(row).id = row.id /\ Aged(row).op = row.op
        /\ Aged(row).status = row.status /\ Aged(row).left \in Int /\ Aged(row).ttl \in Int
        /\ row.left \in Int /\ row.ttl \in Int
    BY <2>1, AgedRow, RowFields
  <2> HIDE DEF row
  <2>5. /\ Aged(row).left >= Lease - (req[s].age + 1)
        /\ Aged(row).ttl >= RecordTTL - (req[s].age + 1)
    BY <2>1, <2>2, <2>3, <2>4, Numbers
  <2> QED BY <2>1, <2>3, <2>4, <2>5 DEF Owned
<1>8. ASSUME NEW s \in Requests PROVE NotRepeated(req[s])'
  <2> SUFFICES ASSUME req[s].fresh, rows[req[s].op[1]] # NoRow PROVE NotRepeated(req[s])'
    <3>1. req[s].fresh => req[s].op[1] \in Keys
      BY <1>5, RequestFields DEF Sound, IInv, Coordinating
    <3> QED BY <1>1, <1>3, <3>1, PassedRequest DEF NotRepeated, IInv
  <2> DEFINE row == rows[req[s].op[1]]
  <2>0. req[s].op[1] \in Keys /\ req'[s].age = req[s].age + 1 /\ req[s].age \in Nat
        /\ req[s].age < MaxStall
    BY <1>1, <1>5, RequestFields DEF Sound, IInv, Coordinating, MayWait
  <2>1. row \in Rows /\ row.ttl > -req[s].age
        /\ (row.status = "failed_retryable" => row.left > -req[s].age)
    BY <1>3, <2>0 DEF IInv, RInv, NotRepeated
  <2>2. Aged(row).left >= row.left - 1 /\ Aged(row).ttl >= row.ttl - 1
    BY <2>1, AgedRow, RowFields, OlderIsOlder
  <2>3. rows'[req[s].op[1]] = Aged(row) /\ req'[s].op = req[s].op
    BY <1>1, <2>0, PassedRequest DEF IInv
  <2>4. /\ Aged(row).status = row.status /\ Aged(row).left \in Int /\ Aged(row).ttl \in Int
        /\ row.left \in Int /\ row.ttl \in Int
    BY <2>1, AgedRow, RowFields
  <2> HIDE DEF row
  <2>5. /\ Aged(row).ttl > -(req[s].age + 1)
        /\ row.status = "failed_retryable" => Aged(row).left > -(req[s].age + 1)
    BY <2>0, <2>1, <2>2, <2>4
  <2> QED BY <2>0, <2>3, <2>4, <2>5 DEF NotRepeated
<1>9. ASSUME NEW s \in Requests, NEW c \in Requests PROVE Overtaken(req'[s], req'[c])
  <2> SUFFICES ASSUME req'[s].at = "reclaimExpired", req'[s].from = "processing",
                      req'[c].at \in Claiming, req'[s].op[1] = req'[c].op[1]
               PROVE  req'[c].age <= req'[s].age + MaxStall
    BY DEF Overtaken
  <2>1. /\ req[s].at = "reclaimExpired" /\ req[s].from = "processing"
        /\ req[c].at \in Claiming /\ req[s].op[1] = req[c].op[1]
    BY <1>1, PassedRequest DEF IInv
  <2>2. req[c].age <= req[s].age + MaxStall
    BY <2>1 DEF IInv, RInv, Overtaken
  <2>3. req'[s].age = req[s].age + 1 /\ req'[c].age = req[c].age + 1
        /\ req[s].age \in Nat /\ req[c].age \in Nat
    BY <1>1, <2>1, PassedRequest, RequestFields DEF IInv, Claiming, Locking
  <2> QED BY <2>2, <2>3, Numbers
<1>10. OneRunPerKey'
  <2>1. ASSUME NEW s \in Requests, Claimed(s)' PROVE Claimed(s) /\ req'[s].op = req[s].op
    BY <2>1, <1>1, PassedRequest DEF IInv, Claimed, KeyOf
  <2> QED BY <2>1 DEF IInv, RInv, OneRunPerKey, KeyOf
<1>11. \A s \in Requests : req'[s].reply \in {NoOp, req'[s].op}
  BY <1>1, PassedRequest DEF IInv, RInv
<1> QED BY <1>2, <1>3, <1>4, <1>6, <1>7, <1>8, <1>9, <1>10, <1>11 DEF RInv

-----------------------------------------------------------------------------
(* The lock's row, the renewal loops and the counters keep their types.     *)

LockTypes ==
    /\ lock \in Rows \cup {NoRow}
    /\ renews \in [Requests -> [on : BOOLEAN, due : BOOLEAN]]
    /\ dels \in 0..MaxDeletes /\ faults \in 0..MaxFaults

LEMMA LoopsTyped ==
    /\ NoLoop \in [on : BOOLEAN, due : BOOLEAN] /\ NoLoop.on = FALSE /\ NoLoop.due = FALSE
    /\ [on |-> TRUE, due |-> FALSE] \in [on : BOOLEAN, due : BOOLEAN]
BY DEF NoLoop

LEMMA LockTypesKept ==
    ASSUME TInv, Next
    PROVE  LockTypes'
<1>0. LockTypes
  BY DEF TInv, TypeOK, LockTypes, Rows
<1>1. ASSUME NEW r \in Requests, NEW op \in Keys \X Admins, NEW age \in 0..MaxStall,
             Create(r, op, age)
      PROVE  LockTypes'
  BY <1>0, <1>1 DEF Create, Counters, LockTypes
<1>18. ASSUME NEW r \in Requests, StartWithoutKey(r) PROVE LockTypes'
  BY <1>0, <1>18 DEF StartWithoutKey, Counters, LockTypes
<1>2. ASSUME NEW r \in Requests, Coordinate(r) PROVE LockTypes'
  BY <1>0, <1>2 DEF Coordinate, Get, GetAgain, ReclaimExpired, ReclaimFailed, TryReclaim,
                    Counters, LockTypes
<1>3. ASSUME NEW r \in Requests, Acquire(r) PROVE LockTypes'
  <2>1. /\ req[r].lage \in Nat /\ req[r].lage <= MaxStall /\ req[r].op \in OperationIds
    BY <1>3, RequestFields DEF Acquire, Sound, Claiming, Locking
  <2>2. /\ Lease - req[r].lage \in 0..Time /\ RecordTTL - req[r].lage \in 0..Time
        /\ NewId \in Nat
    BY <2>1, Numbers, TimeBounds, RowTyped DEF NewId
  <2>3. lock' \in Rows \cup {NoRow}
    <3>1. CASE lock = NoRow
      <4>1. /\ lock' = [id |-> NewId, status |-> "processing", op |-> req[r].op,
                        left |-> Lease - req[r].lage, ttl |-> RecordTTL - req[r].lage,
                        body |-> req[r].op]
        BY <1>3, <3>1 DEF Acquire, CreateProcessing
      <4>2. Lease - req[r].lage \in Past..Time /\ RecordTTL - req[r].lage \in Past..Time
        BY <2>2, Numbers, TimeBounds DEF Past
      <4> QED BY <4>1, <4>2, <2>1, <2>2 DEF Rows, Row, Status
    <3>2. CASE lock # NoRow
      BY <1>0, <1>3, <3>2 DEF Acquire, CreateProcessing, LockTypes
    <3> QED BY <3>1, <3>2
  <2>4. renews' \in [Requests -> [on : BOOLEAN, due : BOOLEAN]]
    BY <1>0, <1>3, LoopsTyped DEF Acquire, Hold, LockTypes
  <2> QED BY <1>0, <1>3, <2>3, <2>4 DEF Acquire, Counters, LockTypes
<1>4. ASSUME NEW r \in Requests, LockGet(r) PROVE LockTypes'
  BY <1>0, <1>4 DEF LockGet, Counters, LockTypes
<1>5. ASSUME NEW r \in Requests, LockReclaim(r) PROVE LockTypes'
  <2>1. /\ req[r].lage \in Nat /\ req[r].lage <= MaxStall
    BY <1>5, RequestFields DEF LockReclaim, Sound, Locking
  <2>2. /\ Lease - req[r].lage \in 0..Time /\ RecordTTL - req[r].lage \in 0..Time
    BY <2>1, Numbers, TimeBounds
  <2>3. lock' \in Rows \cup {NoRow}
    <3>1. lock # NoRow => Reclaimed(lock, Lease - req[r].lage, RecordTTL - req[r].lage) \in Rows
      BY <1>0, <2>2, RowFields, CreatedRow DEF LockTypes
    <3> QED BY <1>0, <1>5, <3>1 DEF LockReclaim, LockTypes, MayReclaim
  <2>4. renews' \in [Requests -> [on : BOOLEAN, due : BOOLEAN]]
    BY <1>0, <1>5, LoopsTyped DEF LockReclaim, Hold, LockTypes
  <2> QED BY <1>0, <1>5, <2>3, <2>4 DEF LockReclaim, Counters, LockTypes
<1>6. ASSUME NEW r \in Requests, \E ok \in BOOLEAN : Finish(r, ok) PROVE LockTypes'
  BY <1>0, <1>6 DEF Finish, Counters, LockTypes
<1>7. ASSUME NEW r \in Requests, Release(r) PROVE LockTypes'
  <2>1. RecordTTL \in 0..Time /\ 0 \in 0..Time
    BY Numbers, TimeBounds
  <2>3. lock' \in Rows \cup {NoRow}
    <3>1. CASE lock = NoRow \/ lock.id # req[r].lid
      BY <1>0, <1>7, <3>1 DEF Release, MarkSucceeded, MarkFailedRetryable, LockTypes
    <3>2. CASE lock # NoRow /\ lock.id = req[r].lid
      <4>1. lock.body \in OperationIds
        BY <1>0, <3>2, RowFields DEF LockTypes
      <4>2. /\ MarkSucceeded(lock, lock.id, lock.body, RecordTTL) \in Rows
            /\ MarkFailedRetryable(lock, lock.id, 0, RecordTTL) \in Rows
        BY <1>0, <2>1, <3>2, <4>1, SucceededRow, FailedRow DEF LockTypes
      <4> QED BY <1>7, <3>2, <4>2 DEF Release
    <3> QED BY <3>1, <3>2
  <2>4. renews' \in [Requests -> [on : BOOLEAN, due : BOOLEAN]]
    BY <1>0, <1>7, LoopsTyped DEF Release, LockTypes
  <2> QED BY <1>0, <1>7, <2>3, <2>4 DEF Release, Counters, LockTypes
<1>8. ASSUME NEW r \in Requests, ReleaseFails(r) PROVE LockTypes'
  <2>1. renews' \in [Requests -> [on : BOOLEAN, due : BOOLEAN]]
    BY <1>0, <1>8, LoopsTyped DEF ReleaseFails, LockTypes
  <2>2. faults' \in 0..MaxFaults
    BY <1>0, <1>8, Numbers DEF ReleaseFails, LockTypes
  <2> QED BY <1>0, <1>8, <2>1, <2>2 DEF ReleaseFails, LockTypes
<1>9. ASSUME NEW r \in Requests, Mark(r) PROVE LockTypes'
  BY <1>0, <1>9 DEF Mark, Counters, LockTypes
<1>10. ASSUME NEW r \in Requests, MarkFails(r) PROVE LockTypes'
  <2>1. faults' \in 0..MaxFaults
    BY <1>0, <1>10, Numbers DEF MarkFails, LockTypes
  <2> QED BY <1>0, <1>10, <2>1 DEF MarkFails, LockTypes
<1>11. ASSUME NEW r \in Requests, Renew(r) PROVE LockTypes'
  <2>1. Lease \in 0..Time /\ RecordTTL \in 0..Time
    BY Numbers, TimeBounds
  <2>2. lock # NoRow => Extended(lock, Lease, RecordTTL) \in Rows
    BY <1>0, <2>1, ExtendedRow DEF LockTypes
  <2>3. lock' \in Rows \cup {NoRow}
    BY <1>0, <1>11, <2>2 DEF Renew, MayExtend, LockTypes
  <2>4. renews' \in [Requests -> [on : BOOLEAN, due : BOOLEAN]]
    BY <1>0, <1>11, LoopsTyped DEF Renew, LockTypes
  <2> QED BY <1>0, <1>11, <2>3, <2>4 DEF Renew, Counters, LockTypes
<1>12. ASSUME NEW r \in Requests, RenewFails(r) PROVE LockTypes'
  <2>1. renews' \in [Requests -> [on : BOOLEAN, due : BOOLEAN]]
    BY <1>0, <1>12 DEF RenewFails, LockTypes
  <2>2. faults' \in 0..MaxFaults
    BY <1>0, <1>12, Numbers DEF RenewFails, LockTypes
  <2> QED BY <1>0, <1>12, <2>1, <2>2 DEF RenewFails, LockTypes
<1>13. ASSUME NEW k \in Keys, CleanKey(k) PROVE LockTypes'
  BY <1>0, <1>13, Numbers DEF CleanKey, LockTypes
<1>14. ASSUME CleanLock PROVE LockTypes'
  BY <1>0, <1>14, Numbers DEF CleanLock, LockTypes
<1>15. ASSUME Crash PROVE LockTypes'
  <2>1. renews' \in [Requests -> [on : BOOLEAN, due : BOOLEAN]]
    BY <1>15, LoopsTyped DEF Crash
  <2>2. faults' \in 0..MaxFaults
    BY <1>0, <1>15, Numbers DEF Crash, LockTypes
  <2> QED BY <1>0, <1>15, <2>1, <2>2 DEF Crash, LockTypes
<1>16. ASSUME Tick PROVE LockTypes'
  <2>1. lock' \in Rows \cup {NoRow}
    BY <1>0, <1>16, AgedRow, AgedNoRow DEF Tick, LockTypes
  <2>2. renews' \in [Requests -> [on : BOOLEAN, due : BOOLEAN]]
    BY <1>0, <1>16 DEF Tick, LockTypes
  <2> QED BY <1>0, <1>16, <2>1, <2>2 DEF Tick, Counters, LockTypes
<1>17. ASSUME NEW r \in Requests, Operate(r) \/ Settle(r) PROVE LockTypes'
  <2> HIDE DEF LockTypes
  <2> QED BY <1>17, <1>3, <1>4, <1>5, <1>6, <1>7, <1>8, <1>9, <1>10 DEF Operate, Settle
<1> HIDE DEF LockTypes
<1> QED BY <1>1, <1>2, <1>11, <1>12, <1>13, <1>14, <1>15, <1>16, <1>17, <1>18 DEF Next

-----------------------------------------------------------------------------
(* The invariant of the records.                                           *)

\* At the start there is no record and nobody claims one.
THEOREM RecordsInit == Init => IInv
<1> SUFFICES ASSUME Init PROVE IInv
  OBVIOUS
<1>1. TInv
  BY TypesInit
<1>2. /\ \A k \in Keys : rows[k] = NoRow
      /\ \A r \in Requests : req[r] = Idle
  BY DEF Init
<1>3. /\ Knows(Idle) /\ Owned(Idle) /\ NotRepeated(Idle) /\ Idle.reply \in {NoOp, Idle.op}
      /\ Overtaken(Idle, Idle)
  BY IdleIsSound DEF Knows, Owned, NotRepeated, Overtaken, Claiming, Locking
<1>4. \A k \in Keys : RowSound(k)
  BY <1>2 DEF RowSound
<1>5. OneRunPerKey
  BY <1>2, IdleIsSound DEF OneRunPerKey, Claimed, Locking
<1> QED BY <1>1, <1>2, <1>3, <1>4, <1>5 DEF IInv, RInv

\* Every step of the program keeps the records in order.
THEOREM RecordsStep == IInv /\ [Next]_vars => IInv'
<1> SUFFICES ASSUME IInv, [Next]_vars PROVE IInv'
  OBVIOUS
<1> DEFINE Typed == /\ req' \in [Requests -> Request] /\ \A s \in Requests : Sound(req'[s])
                    /\ rows' \in [Keys -> Row(OperationIds, Time) \cup {NoRow}]
<1>1. ASSUME NEW r \in Requests, \E q \in Request : MovesTo(r, q), UNCHANGED <<rows, dels>>
      PROVE  RInv' /\ Typed
  <2>1. PICK q \in Request : MovesTo(r, q)
    BY <1>1
  <2>2. RInv'
    BY <1>1, <2>1, MoveKeeps
  <2>3. req' \in [Requests -> Request] /\ \A s \in Requests : Sound(req'[s])
    BY <2>1, BecomingSound DEF MovesTo, IInv
  <2> QED BY <1>1, <2>2, <2>3 DEF IInv, TInv, TypeOK
<1>2. ASSUME NEW r \in Requests, NEW k \in Keys,
             \E q \in Request, new \in Rows : Claims(r, q, k, new), UNCHANGED dels
      PROVE  RInv' /\ Typed
  <2>1. PICK q \in Request, new \in Rows : Claims(r, q, k, new)
    BY <1>2
  <2>2. RInv'
    BY <1>2, <2>1, ClaimKeeps
  <2>3. req' \in [Requests -> Request] /\ \A s \in Requests : Sound(req'[s])
    BY <2>1, BecomingSound DEF Claims, IInv
  <2>4. rows' \in [Keys -> Row(OperationIds, Time) \cup {NoRow}]
    BY <2>1 DEF Claims, IInv, TInv, TypeOK, Rows
  <2> QED BY <2>2, <2>3, <2>4
<1>3. ASSUME UNCHANGED <<rows, req, dels>> PROVE RInv' /\ Typed
  BY <1>3 DEF IInv, TInv, TypeOK, RInv, RowSound, Knows, Owned, NotRepeated, Overtaken,
              OneRunPerKey, Claimed, KeyOf
<1>4. ASSUME NEW r \in Requests, NEW op \in Keys \X Admins, NEW age \in 0..MaxStall,
             Create(r, op, age)
      PROVE  RInv' /\ Typed
  <2>1. UNCHANGED dels /\ op[1] \in Keys
    BY <1>4, Operations DEF Create, Counters
  <2>2. \/ UNCHANGED rows /\ \E q \in Request : MovesTo(r, q)
        \/ \E q \in Request, new \in Rows : Claims(r, q, op[1], new)
    BY <1>4, CreateClaimsOrMoves
  <2> QED BY <2>1, <2>2, <1>1, <1>2
<1>5. ASSUME NEW r \in Requests, StartWithoutKey(r) PROVE RInv' /\ Typed
  <2>1. UNCHANGED <<rows, dels>>
    BY <1>5 DEF StartWithoutKey, Counters
  <2> QED BY <2>1, <1>1, <1>5, StartMoves
<1>6. ASSUME NEW r \in Requests, Get(r) \/ GetAgain(r) PROVE RInv' /\ Typed
  <2>1. UNCHANGED <<rows, dels>>
    BY <1>6 DEF Get, GetAgain, Counters
  <2> QED BY <2>1, <1>1, <1>6, GetMoves, GetAgainMoves
<1>7. ASSUME NEW r \in Requests, ReclaimExpired(r) \/ ReclaimFailed(r) PROVE RInv' /\ Typed
  <2>1. UNCHANGED dels
    BY <1>7 DEF ReclaimExpired, ReclaimFailed, TryReclaim, Counters
  <2>2. \/ UNCHANGED rows /\ \E q \in Request : MovesTo(r, q)
        \/ \E k \in Keys, q \in Request, new \in Rows : Claims(r, q, k, new)
    BY <1>7, ReclaimClaimsOrMoves
  <2> QED BY <2>1, <2>2, <1>1, <1>2
<1>8. ASSUME NEW r \in Requests,
             \/ Operate(r) \/ Release(r) \/ ReleaseFails(r) \/ MarkFails(r)
             \/ Mark(r) /\ KeyOf(r) = NoKey
      PROVE  RInv' /\ Typed
  <2>1. UNCHANGED <<rows, dels>>
    BY <1>8 DEF Operate, Acquire, LockGet, LockReclaim, Finish, Release, ReleaseFails,
                MarkFails, Mark, Counters
  <2>2. \E q \in Request : MovesTo(r, q)
    BY <1>8, OperateMoves
  <2> QED BY <2>1, <2>2, <1>1
<1>9. ASSUME NEW r \in Requests, Mark(r), KeyOf(r) # NoKey PROVE RInv' /\ Typed
  BY <1>9, MarkKeeps
<1>10. ASSUME NEW r \in Requests, Renew(r) \/ RenewFails(r) PROVE RInv' /\ Typed
  <2>1. UNCHANGED <<rows, req, dels>>
    BY <1>10 DEF Renew, RenewFails, Counters
  <2> QED BY <2>1, <1>3
<1>11. ASSUME NEW k \in Keys, CleanKey(k) PROVE RInv' /\ Typed
  <2>1. RInv' /\ rows' \in [Keys -> Row(OperationIds, Time) \cup {NoRow}]
    BY <1>11, CleanKeeps
  <2> QED BY <1>11, <2>1 DEF CleanKey, IInv, TInv, TypeOK
<1>12. ASSUME CleanLock PROVE RInv' /\ Typed
  <2>1. rows' = rows /\ req' = req /\ dels' = dels + 1 /\ dels \in Nat
    BY <1>12, RowTyped DEF CleanLock, IInv
  <2>2. \A k \in Keys : RowSound(k)'
    <3> SUFFICES ASSUME NEW k \in Keys, rows[k] # NoRow
                 PROVE  rows[k].id <= dels + 2 /\ rows[k].body = rows[k].op
      BY <2>1 DEF RowSound
    <3>1. rows[k].id \in Nat
      BY RowTyped, RowFields DEF IInv
    <3> QED BY <2>1, <3>1 DEF IInv, RInv, RowSound
  <2>3. ASSUME NEW s \in Requests PROVE Knows(req[s])'
    <3>1. req[s].id \in Nat
      BY RequestFields DEF IInv
    <3> QED BY <2>1, <3>1 DEF Knows, IInv, RInv
  <2> QED BY <2>1, <2>2, <2>3 DEF IInv, TInv, TypeOK, RInv, Owned, NotRepeated,
                                  OneRunPerKey, Claimed, KeyOf
<1>13. ASSUME Crash PROVE RInv' /\ Typed
  <2>1. rows' = rows
    BY <1>13 DEF Crash
  <2> QED BY <1>13, <2>1, CrashKeeps DEF IInv, TInv, TypeOK
<1>14. ASSUME Tick PROVE RInv' /\ Typed
  BY <1>14, TickKeeps
<1>15. ASSUME Next PROVE RInv' /\ Typed
  <2> HIDE DEF Typed
  <2> QED BY <1>15, <1>4, <1>5, <1>6, <1>7, <1>8, <1>9, <1>10, <1>11, <1>12, <1>13, <1>14
          DEF Next, Coordinate, Settle
<1>16. CASE Next
  <2>1. LockTypes'
    BY <1>16, LockTypesKept DEF IInv
  <2> QED BY <1>15, <1>16, <2>1 DEF IInv, TInv, TypeOK, LockTypes, Rows
<1>17. CASE UNCHANGED vars
  BY <1>3, <1>17 DEF vars, IInv, TInv, TypeOK
<1> QED BY <1>16, <1>17

\* Types: every request, record, loop and counter is what TypeOK names
\* (repository/idempotency_repo.go, service/system_operation_lock_service.go).
THEOREM TypesHold == Spec => []TypeOK
<1>1. IInv => TypeOK
  BY DEF IInv, TInv
<1> QED BY <1>1, RecordsInit, RecordsStep, PTL DEF Spec

\* One request executes a key at a time, through expiry, takeover and deletion
\* of its record (service/idempotency.go: Execute).
THEOREM KeyRunsOnce == Spec => []OneRunPerKey
<1>1. IInv => OneRunPerKey
  BY DEF IInv, RInv
<1> QED BY <1>1, RecordsInit, RecordsStep, PTL DEF Spec

\* A request that met a fresh success of its operation does not execute it
\* again (service/idempotency.go: Execute, TryReclaim).
THEOREM FreshSuccessIsKept == Spec => []FreshSuccessIsNotRepeated
<1>1. IInv => FreshSuccessIsNotRepeated
  <2> SUFFICES ASSUME IInv, NEW r \in Requests, Claimed(r), req[r].fresh PROVE FALSE
    BY DEF FreshSuccessIsNotRepeated
  <2>1. req[r].at = "get"
    BY DEF IInv, TInv, Sound
  <2> QED BY <2>1 DEF Claimed, Locking
<1> QED BY <1>1, RecordsInit, RecordsStep, PTL DEF Spec

\* A stored response goes to requests of the operation it was made for only
\* (repository/idempotency_repo.go: MarkSucceeded, which asks for the id alone).
THEOREM ReplayStaysOwn == Spec => []ReplayIsOwn
<1>1. IInv => ReplayIsOwn
  BY DEF IInv, RInv, ReplayIsOwn
<1> QED BY <1>1, RecordsInit, RecordsStep, PTL DEF Spec

-----------------------------------------------------------------------------
(* The lock.                                                               *)

\* The lock's row outlives whoever runs or releases: it is not deleted, and
\* the id is still its own, whoever has taken it over meanwhile.
Kept(q) ==
    q.at \in {"run", "release"} =>
        /\ lock # NoRow
        /\ lock.id = q.lid
        /\ lock.ttl >= RecordTTL - MaxStall - q.age

\* Who means to take the lock over knows it by its id.
KnowsLock(q) ==
    q.at = "lockReclaim" => q.lid <= dels + 1 /\ (lock = NoRow => q.lid <= dels)

LockSound == lock # NoRow => lock.id <= dels + 1

\* A renewal loop ends with the operation it renews for.
Loops(r) ==
    /\ renews[r].on => req[r].at \in {"run", "release"}
    /\ renews[r].due => renews[r].on

Creating(r) == req[r].at = "run" /\ req[r].created /\ req[r].lage + faults + 1 < Lease

Away(q) == q.at \notin {"run", "release"} /\ (q.at = "lockReclaim" => q.lid # lock.id)

\* The creator of the lock's row renews it, and no other request can have it.
Renewed(r) ==
    Creating(r) =>
        /\ lock.op = req[r].op
        /\ lock.status = "processing"
        /\ lock.left >= Lease - req[r].lage - faults - (IF renews[r].due THEN 1 ELSE 0)
        /\ renews[r].on
        /\ \A t \in Requests \ {r} : Away(req[t])

LInv ==
    /\ LockSound
    /\ \A r \in Requests : Kept(req[r]) /\ KnowsLock(req[r]) /\ Loops(r) /\ Renewed(r)

LEMMA LoopFields ==
    ASSUME TInv, NEW r \in Requests
    PROVE  renews[r].on \in BOOLEAN /\ renews[r].due \in BOOLEAN
BY DEF TInv, TypeOK

\* The row is not expired while somebody runs or releases.
LEMMA LockOutlives ==
    ASSUME TInv, LInv, NEW r \in Requests, req[r].at \in {"run", "release"}
    PROVE  lock \in Rows /\ lock.id = req[r].lid /\ lock.ttl > 0
<1>1. /\ lock # NoRow /\ lock.id = req[r].lid
      /\ lock.ttl >= RecordTTL - MaxStall - req[r].age
  BY DEF LInv, Kept
<1>2. lock \in Rows
  BY <1>1, RowTyped
<1>3. req[r].age \in Nat /\ req[r].age <= MaxRun
  BY RequestFields DEF Sound, Claiming
<1> QED BY <1>1, <1>2, <1>3, RowFields, Numbers

\* While the creator is safe, its lock is busy for everybody who asks.
LEMMA CreatorIsSafe ==
    ASSUME TInv, LInv, NEW r \in Requests, Creating(r)
    PROVE  lock \in Rows /\ lock.status = "processing" /\ lock.left > 0
<1>1. lock \in Rows
  BY LockOutlives DEF Creating
<1>2. /\ lock.status = "processing"
      /\ lock.left >= Lease - req[r].lage - faults - (IF renews[r].due THEN 1 ELSE 0)
      /\ req[r].lage + faults + 1 < Lease
  BY DEF LInv, Renewed, Creating
<1>3. lock.left \in Int /\ req[r].lage \in Nat /\ faults \in Nat
  BY <1>1, RowFields, RequestFields, RowTyped
<1> QED BY <1>1, <1>2, <1>3, Numbers

\* Steps that leave the lock and the loops alone: nobody begins to run, or to
\* take the lock over.
Aloof(r) ==
    \/ req'[r] = req[r]
    \/ /\ req[r].at \notin {"run", "release"}
       /\ req'[r].at \notin {"run", "release", "lockReclaim"}
    \/ /\ req[r].at = "run" /\ req'[r].at = "release"
       /\ req'[r].lid = req[r].lid /\ req'[r].age = req[r].age

LEMMA AloofKeeps ==
    ASSUME TInv, LInv, \A r \in Requests : Aloof(r),
           UNCHANGED <<lock, renews>>, dels' \in Nat, faults' \in Nat,
           dels' >= dels, faults' >= faults
    PROVE  LInv'
<1>0. dels \in Nat /\ faults \in Nat /\ (lock \in Rows \/ lock = NoRow)
  BY RowTyped
<1>1. LockSound'
  <2>1. lock # NoRow => lock.id \in Nat
    BY <1>0, RowFields
  <2> QED BY <1>0, <2>1 DEF LInv, LockSound
<1>2. ASSUME NEW r \in Requests PROVE Kept(req[r])'
  BY DEF LInv, Kept, Aloof
<1>3. ASSUME NEW r \in Requests PROVE KnowsLock(req[r])'
  <2>1. req[r].lid \in Nat
    BY RequestFields
  <2> QED BY <1>0, <2>1 DEF LInv, KnowsLock, Aloof
<1>4. ASSUME NEW r \in Requests PROVE Loops(r)'
  BY DEF LInv, Loops, Aloof
<1>5. ASSUME NEW r \in Requests PROVE Renewed(r)'
  <2> SUFFICES ASSUME Creating(r)' PROVE Renewed(r)'
    BY DEF Renewed
  <2>1. req'[r] = req[r] /\ req[r].lage \in Nat
    BY RequestFields DEF Creating, Aloof
  <2>2. Creating(r)
    BY <1>0, <2>1, Numbers DEF Creating
  <2>3. lock.left \in Int
    BY <2>2, CreatorIsSafe, RowFields
  <2>4. \A t \in Requests \ {r} : Away(req[t])'
    BY <2>2 DEF LInv, Renewed, Away, Aloof
  <2>5. lock.left >= Lease - req[r].lage - faults' - (IF renews[r].due THEN 1 ELSE 0)
    BY <1>0, <2>1, <2>2, <2>3, Numbers DEF LInv, Renewed
  <2> QED BY <2>1, <2>2, <2>4, <2>5 DEF LInv, Renewed
<1> QED BY <1>1, <1>2, <1>3, <1>4, <1>5 DEF LInv

\* What becomes of a request, whatever it is.
LEMMA BecomesIs ==
    ASSUME TInv, NEW r \in Requests, NEW q, Becomes(r, q)
    PROVE  req'[r] = q /\ \A s \in Requests \ {r} : req'[s] = req[s]
BY DEF Becomes, TInv, TypeOK

LEMMA OneIsAloof ==
    ASSUME TInv, NEW r \in Requests, \A s \in Requests \ {r} : req'[s] = req[s],
           \/ /\ req[r].at \notin {"run", "release"}
              /\ req'[r].at \notin {"run", "release", "lockReclaim"}
           \/ /\ req[r].at = "run" /\ req'[r].at = "release"
              /\ req'[r].lid = req[r].lid /\ req'[r].age = req[r].age
    PROVE  \A s \in Requests : Aloof(s)
BY DEF Aloof

OffTheLock == {"idle", "acquire", "mark"} \cup Coordinating

StaysOff(r) ==
    req'[r].at \in OffTheLock /\ \A s \in Requests \ {r} : req'[s] = req[s]

LEMMA OffIsAloof ==
    ASSUME TInv, NEW r \in Requests, req[r].at \notin {"run", "release"}, StaysOff(r)
    PROVE  \A s \in Requests : Aloof(s)
BY OneIsAloof DEF StaysOff, OffTheLock, Coordinating

LEMMA CoordinatorIsAloof ==
    ASSUME TInv, NEW r \in Requests,
           \/ \E op \in Keys \X Admins, age \in 0..MaxStall : Create(r, op, age)
           \/ StartWithoutKey(r) \/ Coordinate(r) \/ Mark(r) \/ MarkFails(r)
    PROVE  /\ \A s \in Requests : Aloof(s)
           /\ UNCHANGED <<lock, renews, dels>>
           /\ faults' \in Nat /\ faults' >= faults
<1>0. req[r] \in Request /\ faults \in Nat
  BY RequestFields, RowTyped
<1>1. ASSUME NEW q, Becomes(r, q), q.at \in OffTheLock PROVE StaysOff(r)
  BY <1>1, BecomesIs DEF StaysOff
<1>2. End(r) => StaysOff(r)
  <2>1. Idle.at \in OffTheLock
    BY DEF Idle, OffTheLock
  <2> QED BY <2>1, <1>1 DEF End
<1>3. ASSUME NEW row, Decide(r, row) PROVE StaysOff(r)
  <2>1. ASSUME Replay(r, row.body) PROVE StaysOff(r)
    <3>1. [Idle EXCEPT !.op = req[r].op, !.reply = row.body].at \in OffTheLock
      BY DEF Idle, OffTheLock
    <3> QED BY <2>1, <3>1, <1>1 DEF Replay
  <2>2. ASSUME Becomes(r, [req[r] EXCEPT !.at = "reclaimFailed", !.id = row.id,
                                         !.from = row.status])
        PROVE  StaysOff(r)
    <3>1. [req[r] EXCEPT !.at = "reclaimFailed", !.id = row.id, !.from = row.status].at
             \in OffTheLock
      BY <1>0 DEF Request, OffTheLock, Coordinating
    <3> QED BY <2>2, <3>1, <1>1
  <2> QED BY <1>2, <1>3, <2>1, <2>2 DEF Decide
<1>4. CASE \E op \in Keys \X Admins, age \in 0..MaxStall : Create(r, op, age)
  <2>1. PICK op \in Keys \X Admins, age \in 0..MaxStall : Create(r, op, age)
    BY <1>4
  <2> DEFINE start == [Idle EXCEPT !.op = op, !.age = age]
             row == rows[op[1]]
             fresh == row.op = op /\ row.status = "succeeded" /\ After(row.ttl, age)
  <2>2. /\ [start EXCEPT !.at = "acquire", !.id = NewId].at \in OffTheLock
        /\ [start EXCEPT !.at = "get", !.fresh = fresh].at \in OffTheLock
    BY DEF Idle, OffTheLock, Coordinating
  <2>3. \/ Becomes(r, [start EXCEPT !.at = "acquire", !.id = NewId])
        \/ Becomes(r, [start EXCEPT !.at = "get", !.fresh = fresh])
    BY <2>1 DEF Create
  <2>4. StaysOff(r)
    BY <2>2, <2>3, <1>1
  <2>5. req[r].at = "idle" /\ UNCHANGED <<lock, renews, dels, faults>>
    BY <2>1 DEF Create, Counters
  <2> QED BY <1>0, <2>4, <2>5, OffIsAloof
<1>5. CASE StartWithoutKey(r)
  <2>1. [Idle EXCEPT !.at = "acquire", !.op = <<NoKey, r>>].at \in OffTheLock
    BY DEF Idle, OffTheLock
  <2>2. StaysOff(r)
    BY <1>5, <2>1, <1>1 DEF StartWithoutKey
  <2> QED BY <1>0, <1>5, <2>2, OffIsAloof DEF StartWithoutKey, Counters
<1>6. CASE Coordinate(r)
  <2>1. Get(r) \/ GetAgain(r) => StaysOff(r)
    <3>1. ASSUME Becomes(r, [req[r] EXCEPT !.at = "reclaimExpired", !.id = rows[KeyOf(r)].id,
                                           !.from = rows[KeyOf(r)].status])
          PROVE  StaysOff(r)
      <4>1. [req[r] EXCEPT !.at = "reclaimExpired", !.id = rows[KeyOf(r)].id,
                           !.from = rows[KeyOf(r)].status].at \in OffTheLock
        BY <1>0 DEF Request, OffTheLock, Coordinating
      <4> QED BY <3>1, <4>1, <1>1
    <3> QED BY <1>2, <1>3, <3>1 DEF Get, GetAgain
  <2>2. ReclaimExpired(r) \/ ReclaimFailed(r) => StaysOff(r)
    <3>1. ReadAgain(r).at \in OffTheLock /\ Idle.at \in OffTheLock
      BY <1>0 DEF ReadAgain, Idle, Request, OffTheLock, Coordinating
    <3>2. [req[r] EXCEPT !.at = "acquire", !.from = "none"].at \in OffTheLock
      BY <1>0 DEF Request, OffTheLock
    <3>3. \/ ReclaimExpired(r) \/ ReclaimFailed(r)
          => \/ Becomes(r, ReadAgain(r)) \/ Becomes(r, Idle)
             \/ Becomes(r, [req[r] EXCEPT !.at = "acquire", !.from = "none"])
      BY DEF ReclaimExpired, ReclaimFailed, TryReclaim, Claim
    <3> QED BY <3>1, <3>2, <3>3, <1>1
  <2>3. req[r].at \notin {"run", "release"} /\ UNCHANGED <<lock, renews, dels, faults>>
    BY <1>6 DEF Coordinate, Get, GetAgain, ReclaimExpired, ReclaimFailed, TryReclaim, Counters
  <2> QED BY <1>0, <1>6, <2>1, <2>2, <2>3, OffIsAloof DEF Coordinate
<1>7. CASE Mark(r) \/ MarkFails(r)
  <2>1. StaysOff(r) /\ req[r].at = "mark"
    BY <1>2, <1>7 DEF Mark, MarkFails
  <2> QED BY <1>0, <1>7, <2>1, OffIsAloof DEF Mark, MarkFails, Counters
<1> QED BY <1>4, <1>5, <1>6, <1>7

\* The steps of the lock that change neither its row nor a loop.
LEMMA RefusedIsAloof ==
    ASSUME TInv, NEW r \in Requests,
           \/ Acquire(r) /\ lock # NoRow
           \/ Fail(r) /\ req[r].at \in Locking
           \/ \E ok \in BOOLEAN : Finish(r, ok)
    PROVE  \A s \in Requests : Aloof(s)
<1>0. req[r] \in Request
  BY RequestFields
<1>1. CASE Acquire(r) /\ lock # NoRow
  <2> DEFINE q == [req[r] EXCEPT !.at = "lockGet"]
  <2>1. q.at = "lockGet"
    BY <1>0 DEF Request
  <2>2. req[r].at = "acquire" /\ Becomes(r, q)
    BY <1>1 DEF Acquire
  <2>3. req'[r] = q /\ \A s \in Requests \ {r} : req'[s] = req[s]
    BY <2>2, BecomesIs
  <2> QED BY <2>1, <2>2, <2>3, OneIsAloof
<1>2. CASE Fail(r) /\ req[r].at \in Locking
  <2> DEFINE q == [req[r] EXCEPT !.at = "mark", !.lid = 0, !.lfrom = "none", !.lage = 0]
  <2>1. q.at = "mark"
    BY <1>0 DEF Request
  <2>2. Becomes(r, q)
    BY <1>2 DEF Fail
  <2>3. req'[r] = q /\ \A s \in Requests \ {r} : req'[s] = req[s]
    BY <2>2, BecomesIs
  <2> QED BY <1>2, <2>1, <2>3, OneIsAloof DEF Locking
<1>3. CASE \E ok \in BOOLEAN : Finish(r, ok)
  <2>0. PICK ok \in BOOLEAN : Finish(r, ok)
    BY <1>3
  <2> DEFINE q == [req[r] EXCEPT !.at = "release", !.ok = ok]
  <2>1. q.at = "release" /\ q.lid = req[r].lid /\ q.age = req[r].age
    BY <1>0 DEF Request
  <2>2. req[r].at = "run" /\ Becomes(r, q)
    BY <2>0 DEF Finish
  <2>3. req'[r] = q /\ \A s \in Requests \ {r} : req'[s] = req[s]
    BY <2>2, BecomesIs
  <2> QED BY <2>1, <2>2, <2>3, OneIsAloof
<1> QED BY <1>1, <1>2, <1>3

\* A request finds the lock free, or taken for dead, and means to take it over.
LEMMA LockGetKeeps ==
    ASSUME TInv, LInv, NEW r \in Requests, LockGet(r), ~Fail(r)
    PROVE  LInv'
<1> DEFINE q == [req[r] EXCEPT !.at = "lockReclaim", !.lid = lock.id, !.lfrom = lock.status]
<1>1. /\ q.at = "lockReclaim" /\ q.lid = lock.id
  BY RequestFields DEF Request
<1>2. /\ Becomes(r, q) /\ req[r].at = "lockGet" /\ lock # NoRow
      /\ ~(lock.status = "processing" /\ After(lock.left, req[r].lage))
      /\ UNCHANGED <<lock, renews, dels, faults>>
  BY DEF LockGet, Counters
<1>3. req'[r] = q /\ \A s \in Requests \ {r} : req'[s] = req[s]
  BY <1>2, BecomesIs
<1>4. LockSound'
  BY <1>2 DEF LInv, LockSound
<1>5. ASSUME NEW s \in Requests PROVE Kept(req[s])'
  BY <1>1, <1>2, <1>3 DEF LInv, Kept
<1>6. ASSUME NEW s \in Requests PROVE KnowsLock(req[s])'
  BY <1>1, <1>2, <1>3 DEF LInv, LockSound, KnowsLock
<1>7. ASSUME NEW s \in Requests PROVE Loops(s)'
  BY <1>1, <1>2, <1>3 DEF LInv, Loops
<1>8. ASSUME NEW s \in Requests PROVE Renewed(s)'
  <2> SUFFICES ASSUME Creating(s)' PROVE FALSE
    BY DEF Renewed
  <2>1. Creating(s)
    BY <1>1, <1>2, <1>3 DEF Creating
  <2>2. lock.status = "processing" /\ lock.left > 0 /\ lock.left \in Int
    BY <2>1, CreatorIsSafe, RowFields
  <2>3. req[r].lage \in Nat
    BY RequestFields
  <2> QED BY <1>2, <2>2, <2>3 DEF After
<1> QED BY <1>4, <1>5, <1>6, <1>7, <1>8 DEF LInv

\* The lock's row is created: nobody runs, and nobody else knows it.
LEMMA AcquireKeeps ==
    ASSUME TInv, LInv, NEW r \in Requests, Acquire(r), lock = NoRow
    PROVE  LInv'
<1> DEFINE q == [req[r] EXCEPT !.at = "run", !.lid = NewId, !.lfrom = "none",
                               !.created = TRUE, !.lage = req[r].lage]
<1>1. /\ q.at = "run" /\ q.lid = NewId /\ q.created = TRUE /\ q.lage = req[r].lage
      /\ q.age = req[r].age /\ q.op = req[r].op
  BY RequestFields DEF Request
<1>2. /\ Becomes(r, q) /\ req[r].at = "acquire"
      /\ renews' = [renews EXCEPT ![r] = [on |-> TRUE, due |-> FALSE]]
      /\ UNCHANGED <<dels, faults>>
  BY DEF Acquire, Hold, Counters
<1>3. req'[r] = q /\ \A s \in Requests \ {r} : req'[s] = req[s]
  BY <1>2, BecomesIs
<1>4. renews'[r] = [on |-> TRUE, due |-> FALSE] /\ \A s \in Requests \ {r} : renews'[s] = renews[s]
  BY <1>2 DEF TInv, TypeOK
<1>5. /\ lock'.id = NewId /\ lock'.op = req[r].op /\ lock'.status = "processing"
      /\ lock'.left = Lease - req[r].lage /\ lock'.ttl = RecordTTL - req[r].lage
  BY DEF Acquire, CreateProcessing
<1>6. lock' # NoRow
  <2>1. req[r].lage \in Nat /\ req[r].lage <= MaxStall /\ req[r].op \in OperationIds
    BY <1>2, RequestFields DEF Sound, Claiming, Locking
  <2>2. Lease - req[r].lage \in Past..Time /\ RecordTTL - req[r].lage \in Past..Time
    BY <2>1, Numbers, TimeBounds DEF Past
  <2>3. NewId \in Nat
    BY RowTyped DEF NewId
  <2>4. lock' = [id |-> NewId, status |-> "processing", op |-> req[r].op,
                 left |-> Lease - req[r].lage, ttl |-> RecordTTL - req[r].lage,
                 body |-> req[r].op]
    BY DEF Acquire, CreateProcessing
  <2>5. lock' \in Rows
    BY <2>1, <2>2, <2>3, <2>4 DEF Rows, Row, Status
  <2> QED BY <2>5, NoRowIsNoRow
<1>7. NewId = dels + 1 /\ dels \in Nat /\ faults \in Nat
  BY RowTyped DEF NewId
<1>8. \A s \in Requests : req[s].at \notin {"run", "release"}
  BY DEF LInv, Kept
<1>9. /\ req[r].lage \in Nat /\ req[r].lage <= MaxStall /\ req[r].age \in Nat
  BY <1>2, RequestFields DEF Sound, Locking
<1>10. LockSound'
  BY <1>2, <1>5, <1>7 DEF LockSound
<1>11. ASSUME NEW s \in Requests PROVE Kept(req[s])'
  <2>1. CASE s = r
    <3>1. lock'.id = req'[r].lid /\ req'[r].age = req[r].age
      BY <1>1, <1>3, <1>5
    <3>2. lock'.ttl >= RecordTTL - MaxStall - req[r].age
      BY <1>5, <1>9, Numbers
    <3> QED BY <1>6, <2>1, <3>1, <3>2 DEF Kept
  <2>2. CASE s # r
    BY <2>2, <1>3, <1>8 DEF Kept
  <2> QED BY <2>1, <2>2
<1>12. ASSUME NEW s \in Requests PROVE KnowsLock(req[s])'
  BY <1>1, <1>2, <1>3, <1>6 DEF LInv, KnowsLock
<1>13. ASSUME NEW s \in Requests PROVE Loops(s)'
  <2>1. CASE s = r
    <3>1. req'[r].at = "run"
      BY <1>1, <1>3
    <3>2. renews'[r].on = TRUE /\ renews'[r].due = FALSE
      BY <1>4
    <3> QED BY <2>1, <3>1, <3>2 DEF Loops
  <2>2. CASE s # r
    BY <2>2, <1>3, <1>4 DEF LInv, Loops
  <2> QED BY <2>1, <2>2
<1>14. ASSUME NEW s \in Requests PROVE Renewed(s)'
  <2> SUFFICES ASSUME Creating(s)' PROVE Renewed(s)'
    BY DEF Renewed
  <2>1. s = r
    BY <1>3, <1>8 DEF Creating
  <2>2. ASSUME NEW t \in Requests \ {r} PROVE Away(req[t])'
    <3>1. req[t].at = "lockReclaim" => req[t].lid <= dels /\ req[t].lid \in Nat
      BY RequestFields DEF LInv, KnowsLock
    <3> QED BY <1>3, <1>5, <1>7, <1>8, <3>1 DEF Away
  <2>3. lock'.left >= Lease - req'[r].lage - faults' - (IF renews'[r].due THEN 1 ELSE 0)
    BY <1>1, <1>2, <1>3, <1>4, <1>5, <1>7, <1>9, Numbers
  <2>4. lock'.op = req'[r].op /\ lock'.status = "processing"
    BY <1>1, <1>3, <1>5
  <2>5. renews'[r].on
    BY <1>4
  <2> QED BY <2>1, <2>2, <2>3, <2>4, <2>5 DEF Renewed
<1> QED BY <1>10, <1>11, <1>12, <1>13, <1>14 DEF LInv

\* A lock that lapsed, or was released, is taken over.  No creator is safe any
\* more, so that nobody is owed anything.
LEMMA ReclaimKeeps ==
    ASSUME TInv, LInv, NEW r \in Requests, LockReclaim(r), ~Fail(r)
    PROVE  LInv'
<1> DEFINE q == [req[r] EXCEPT !.at = "run", !.lid = req[r].lid, !.lfrom = "none",
                               !.created = FALSE, !.lage = 0]
           new == Reclaimed(lock, Lease - req[r].lage, RecordTTL - req[r].lage)
<1>1. q.at = "run" /\ q.lid = req[r].lid /\ q.created = FALSE /\ q.age = req[r].age
  BY RequestFields DEF Request
<1>2. /\ Becomes(r, q) /\ req[r].at = "lockReclaim" /\ lock' = new
      /\ MayReclaim(lock, req[r].lid, req[r].lfrom, req[r].lage)
      /\ renews' = [renews EXCEPT ![r] = [on |-> TRUE, due |-> FALSE]]
      /\ UNCHANGED <<dels, faults>>
  BY DEF LockReclaim, Hold, Counters
<1>3. req'[r] = q /\ \A s \in Requests \ {r} : req'[s] = req[s]
  BY <1>2, BecomesIs
<1>4. renews'[r] = [on |-> TRUE, due |-> FALSE] /\ \A s \in Requests \ {r} : renews'[s] = renews[s]
  BY <1>2 DEF TInv, TypeOK
<1>5. /\ req[r].lage \in Nat /\ req[r].lage <= MaxStall /\ req[r].age \in Nat
  BY <1>2, RequestFields DEF Sound, Locking
<1>6. lock \in Rows /\ lock.id = req[r].lid
  BY <1>2, RowTyped DEF MayReclaim
<1>7. lock' # NoRow /\ lock'.id = lock.id /\ lock'.ttl = RecordTTL - req[r].lage
  <2>1. Lease - req[r].lage \in 0..Time /\ RecordTTL - req[r].lage \in 0..Time
    BY <1>5, Numbers, TimeBounds
  <2>2. new \in Rows /\ new.id = lock.id /\ new.ttl = RecordTTL - req[r].lage
    BY <1>6, <2>1, RowFields, CreatedRow
  <2> QED BY <1>2, <2>2, NoRowIsNoRow
<1>8. LockSound'
  BY <1>2, <1>6, <1>7, NoRowIsNoRow DEF LInv, LockSound
<1>9. ASSUME NEW s \in Requests PROVE Kept(req[s])'
  <2>1. req'[s].at \in {"run", "release"} => req'[s].lid = lock.id
    BY <1>1, <1>3, <1>6 DEF LInv, Kept
  <2>2. req'[s].age \in Nat
    <3>1. CASE s = r
      BY <3>1, <1>1, <1>3, <1>5
    <3>2. CASE s # r
      BY <3>2, <1>3, RequestFields
    <3> QED BY <3>1, <3>2
  <2> QED BY <1>5, <1>7, <2>1, <2>2, Numbers DEF Kept
<1>10. ASSUME NEW s \in Requests PROVE KnowsLock(req[s])'
  BY <1>1, <1>2, <1>3, <1>6, <1>7, NoRowIsNoRow DEF LInv, KnowsLock
<1>11. ASSUME NEW s \in Requests PROVE Loops(s)'
  <2>1. CASE s = r
    <3>1. req'[r].at = "run"
      BY <1>1, <1>3
    <3>2. renews'[r].on = TRUE /\ renews'[r].due = FALSE
      BY <1>4
    <3> QED BY <2>1, <3>1, <3>2 DEF Loops
  <2>2. CASE s # r
    BY <2>2, <1>3, <1>4 DEF LInv, Loops
  <2> QED BY <2>1, <2>2
<1>12. ASSUME NEW s \in Requests PROVE Renewed(s)'
  <2> SUFFICES ASSUME Creating(s)' PROVE FALSE
    BY DEF Renewed
  <2>1. s # r /\ Creating(s)
    BY <1>1, <1>2, <1>3 DEF Creating
  <2>2. Away(req[r])
    BY <2>1 DEF LInv, Renewed
  <2> QED BY <1>2, <1>6, <2>2 DEF Away
<1> QED BY <1>8, <1>9, <1>10, <1>11, <1>12 DEF LInv

\* A renewal: who renews runs or releases, so it prolongs a row that is kept.
LEMMA RenewKeeps ==
    ASSUME TInv, LInv, NEW r \in Requests, Renew(r) \/ RenewFails(r)
    PROVE  LInv'
<1>1. /\ req' = req /\ dels' = dels /\ faults' \in {faults, faults + 1}
      /\ dels \in Nat /\ faults \in Nat
  BY RowTyped DEF Renew, RenewFails, Counters
<1>2. req[r].at \in {"run", "release"} /\ lock \in Rows /\ lock # NoRow
  BY LockOutlives, NoRowIsNoRow DEF Renew, RenewFails, LInv, Loops
<1>3. \/ /\ Renew(r) /\ MayExtend(lock, req[r].lid, req[r].op)
         /\ lock' = Extended(lock, Lease, RecordTTL) /\ faults' = faults
         /\ renews' = [renews EXCEPT ![r].due = FALSE]
      \/ /\ Renew(r) /\ ~MayExtend(lock, req[r].lid, req[r].op)
         /\ lock' = lock /\ faults' = faults /\ renews' = [renews EXCEPT ![r] = NoLoop]
      \/ /\ lock' = lock /\ faults' = faults + 1
         /\ renews' = [renews EXCEPT ![r].due = FALSE]
  BY DEF Renew, RenewFails, Counters
<1>4. \A s \in Requests \ {r} : renews'[s] = renews[s]
  BY <1>3 DEF TInv, TypeOK
<1>5. \/ renews'[r].on = FALSE /\ renews'[r].due = FALSE
      \/ renews'[r].on = renews[r].on /\ renews'[r].due = FALSE
  BY <1>3, LoopsTyped DEF TInv, TypeOK
<1>6. /\ lock' \in Rows /\ lock' # NoRow /\ lock'.id = lock.id /\ lock'.op = lock.op
      /\ lock'.status = lock.status
      /\ \/ lock'.left = lock.left /\ lock'.ttl = lock.ttl
         \/ lock'.left = Lease /\ lock'.ttl = RecordTTL
      /\ lock' = Extended(lock, Lease, RecordTTL) => lock'.left = Lease
  <2>1. Lease \in 0..Time /\ RecordTTL \in 0..Time
    BY Numbers, TimeBounds
  <2> DEFINE new == Extended(lock, Lease, RecordTTL)
  <2>2. /\ new \in Rows /\ new.id = lock.id /\ new.op = lock.op /\ new.status = lock.status
        /\ new.left = Lease /\ new.ttl = RecordTTL
    BY <1>2, <2>1, ExtendedRow
  <2>4. lock' = Extended(lock, Lease, RecordTTL) => lock'.left = Lease
    BY <2>2
  <2> HIDE DEF new
  <2>3. lock' = lock \/ lock' = new
    BY <1>3 DEF new
  <2> QED BY <1>2, <2>2, <2>3, <2>4, NoRowIsNoRow
<1>7. LockSound'
  BY <1>1, <1>2, <1>6 DEF LInv, LockSound
<1>8. ASSUME NEW s \in Requests PROVE Kept(req[s])'
  <2>1. req[s].age \in Nat
    BY RequestFields
  <2> QED BY <1>1, <1>6, <2>1, Numbers DEF LInv, Kept
<1>9. ASSUME NEW s \in Requests PROVE KnowsLock(req[s])'
  BY <1>1, <1>2, <1>6 DEF LInv, KnowsLock
<1>10. ASSUME NEW s \in Requests PROVE Loops(s)'
  <2>1. CASE s = r
    BY <2>1, <1>1, <1>2, <1>5 DEF Loops
  <2>2. CASE s # r
    BY <2>2, <1>1, <1>4 DEF LInv, Loops
  <2> QED BY <2>1, <2>2
<1>11. ASSUME NEW s \in Requests PROVE Renewed(s)'
  <2> SUFFICES ASSUME Creating(s)' PROVE Renewed(s)'
    BY DEF Renewed
  <2>0. req[s].lage \in Nat
    BY RequestFields
  <2>1. Creating(s)
    BY <1>1, <2>0, Numbers DEF Creating
  <2>2. /\ lock.op = req[s].op /\ lock.status = "processing" /\ renews[s].on
        /\ lock.left >= Lease - req[s].lage - faults - (IF renews[s].due THEN 1 ELSE 0)
        /\ \A t \in Requests \ {s} : Away(req[t])
    BY <2>1 DEF LInv, Renewed
  <2>3. s = r
    BY <1>2, <2>2 DEF Away
  <2>4. lock.id = req[r].lid
    BY <1>2, LockOutlives
  <2>5. MayExtend(lock, req[r].lid, req[r].op)
    BY <1>2, <2>2, <2>3, <2>4 DEF MayExtend
  <2>6. renews[r].due
    BY DEF Renew, RenewFails
  <2>7. renews'[r].on /\ ~renews'[r].due
    BY <1>3, <2>2, <2>3, <2>5 DEF TInv, TypeOK
  <2>8. lock.left \in Int
    BY <1>2, RowFields
  <2>9. lock'.left >= Lease - req'[r].lage - faults'
    <3>1. CASE lock'.left = Lease /\ faults' = faults
      BY <3>1, <1>1, <2>0, <2>3, Numbers
    <3>2. CASE lock' = lock /\ faults' = faults + 1
      <4>1. lock.left >= Lease - req[r].lage - faults - 1
        BY <2>2, <2>3, <2>6
      <4> QED BY <3>2, <4>1, <1>1, <2>0, <2>3, <2>8, Numbers
    <3> QED BY <3>1, <3>2, <1>3, <1>6, <2>5
  <2>10. \A t \in Requests \ {s} : Away(req[t])'
    BY <1>1, <1>6, <2>2 DEF Away
  <2>11. lock'.left >= Lease - req'[r].lage - faults' - (IF renews'[r].due THEN 1 ELSE 0)
    <3>1. (IF renews'[r].due THEN 1 ELSE 0) = 0
      BY <2>7
    <3>2. lock'.left \in Int /\ req'[r].lage \in Nat /\ faults' \in Nat
      BY <1>1, <1>6, <2>0, <2>3, RowFields
    <3> QED BY <2>9, <3>1, <3>2, Numbers
  <2> QED BY <1>1, <1>6, <2>2, <2>3, <2>7, <2>10, <2>11 DEF Renewed
<1> QED BY <1>7, <1>8, <1>9, <1>10, <1>11 DEF LInv

\* A release ends the row's claim, whosever it is, and its own loop.
LEMMA ReleaseKeeps ==
    ASSUME TInv, LInv, NEW r \in Requests, Release(r) \/ ReleaseFails(r)
    PROVE  LInv'
<1> DEFINE q == [req[r] EXCEPT !.at = "mark", !.lid = 0, !.lage = 0, !.created = FALSE]
<1>1. q.at = "mark"
  BY RequestFields DEF Request
<1>2. /\ Becomes(r, q) /\ req[r].at = "release" /\ renews' = [renews EXCEPT ![r] = NoLoop]
      /\ dels' = dels /\ faults' \in {faults, faults + 1} /\ dels \in Nat /\ faults \in Nat
  BY RowTyped DEF Release, ReleaseFails, Counters
<1>3. req'[r] = q /\ \A s \in Requests \ {r} : req'[s] = req[s]
  BY <1>2, BecomesIs
<1>4. renews'[r] = NoLoop /\ \A s \in Requests \ {r} : renews'[s] = renews[s]
  BY <1>2 DEF TInv, TypeOK
<1>5. lock \in Rows /\ lock.id = req[r].lid /\ lock # NoRow
  BY <1>2, LockOutlives, NoRowIsNoRow
<1>6. lock' # NoRow /\ lock'.id = lock.id /\ (lock' = lock \/ lock'.ttl = RecordTTL)
  <2>1. RecordTTL \in 0..Time /\ 0 \in 0..Time
    BY Numbers, TimeBounds
  <2>2. lock.body \in OperationIds
    BY <1>5, RowFields
  <2> DEFINE done == MarkSucceeded(lock, lock.id, lock.body, RecordTTL)
             failed == MarkFailedRetryable(lock, lock.id, 0, RecordTTL)
  <2>3. done \in Rows /\ done.id = lock.id /\ done.ttl = RecordTTL
    BY <1>5, <2>1, <2>2, SucceededRow
  <2>4. failed \in Rows /\ failed.id = lock.id /\ failed.ttl = RecordTTL
    BY <1>5, <2>1, FailedRow
  <2>5. lock' = done \/ lock' = failed \/ lock' = lock
    BY <1>5 DEF Release, ReleaseFails
  <2> HIDE DEF done, failed
  <2> QED BY <1>5, <2>3, <2>4, <2>5, NoRowIsNoRow
<1>7. LockSound'
  BY <1>2, <1>5, <1>6 DEF LInv, LockSound
<1>8. ASSUME NEW s \in Requests PROVE Kept(req[s])'
  <2>1. CASE s = r
    BY <2>1, <1>1, <1>3 DEF Kept
  <2>2. CASE s # r
    <3>1. req[s].age \in Nat
      BY RequestFields
    <3> QED BY <2>2, <3>1, <1>3, <1>6, Numbers DEF LInv, Kept
  <2> QED BY <2>1, <2>2
<1>9. ASSUME NEW s \in Requests PROVE KnowsLock(req[s])'
  BY <1>1, <1>2, <1>3, <1>6 DEF LInv, KnowsLock
<1>10. ASSUME NEW s \in Requests PROVE Loops(s)'
  BY <1>3, <1>4, LoopsTyped DEF LInv, Loops
<1>11. ASSUME NEW s \in Requests PROVE Renewed(s)'
  <2> SUFFICES ASSUME Creating(s)' PROVE FALSE
    BY DEF Renewed
  <2>0. s # r
    BY <1>1, <1>3 DEF Creating
  <2>1. req[s].lage \in Nat
    BY RequestFields
  <2>2. Creating(s)
    BY <1>2, <1>3, <2>0, <2>1, Numbers DEF Creating
  <2>3. Away(req[r])
    BY <2>0, <2>2 DEF LInv, Renewed
  <2> QED BY <1>2, <2>3 DEF Away
<1> QED BY <1>7, <1>8, <1>9, <1>10, <1>11 DEF LInv

LEMMA CleanLockKeeps ==
    ASSUME TInv, LInv, CleanLock
    PROVE  LInv'
<1>1. /\ lock' = NoRow /\ dels' = dels + 1 /\ UNCHANGED <<req, renews, faults>>
      /\ lock # NoRow /\ ~After(lock.ttl, 0) /\ dels \in Nat
  BY RowTyped DEF CleanLock, Expired
<1>2. \A s \in Requests : req[s].at \notin {"run", "release"}
  <2> SUFFICES ASSUME NEW s \in Requests, req[s].at \in {"run", "release"} PROVE FALSE
    OBVIOUS
  <2>1. lock.ttl > 0
    BY LockOutlives
  <2> QED BY <1>1, <2>1 DEF After
<1>3. LockSound'
  BY <1>1 DEF LockSound
<1>4. ASSUME NEW s \in Requests PROVE Kept(req[s])' /\ Loops(s)' /\ Renewed(s)'
  BY <1>1, <1>2 DEF Kept, LInv, Loops, Renewed, Creating
<1>5. ASSUME NEW s \in Requests PROVE KnowsLock(req[s])'
  <2>1. req[s].lid \in Nat
    BY RequestFields
  <2> QED BY <1>1, <2>1 DEF LInv, KnowsLock
<1> QED BY <1>3, <1>4, <1>5 DEF LInv

LEMMA LockCrashKeeps ==
    ASSUME TInv, LInv, Crash
    PROVE  LInv'
<1>1. /\ \A s \in Requests : req'[s].at = "idle" /\ renews'[s] = NoLoop
      /\ lock' = lock /\ dels' = dels
  BY DEF Crash, Idle
<1>2. LockSound'
  BY <1>1 DEF LInv, LockSound
<1>3. ASSUME NEW s \in Requests PROVE Kept(req[s])' /\ KnowsLock(req[s])' /\ Renewed(s)'
  BY <1>1 DEF Kept, KnowsLock, Renewed, Creating
<1>4. ASSUME NEW s \in Requests PROVE Loops(s)'
  BY <1>1, LoopsTyped DEF Loops
<1> QED BY <1>2, <1>3, <1>4 DEF LInv

LEMMA LockTickKeeps ==
    ASSUME TInv, LInv, Tick
    PROVE  LInv'
<1>1. /\ \A s \in Requests : MayWait(s) /\ req'[s] = Passed(s)
      /\ lock' = Aged(lock) /\ UNCHANGED <<dels, faults>>
      /\ \A s \in Requests : renews'[s] = [renews[s] EXCEPT !.due = renews[s].on]
  BY DEF Tick, Counters
<1>2. /\ \A s \in Requests : renews'[s].on = renews[s].on /\ renews'[s].due = renews[s].on
      /\ \A s \in Requests : ~renews[s].due
  BY <1>1 DEF TInv, TypeOK, MayWait
<1>3. ASSUME NEW s \in Requests
      PROVE  /\ req'[s].at = req[s].at /\ req'[s].lid = req[s].lid /\ req'[s].op = req[s].op
             /\ req'[s].created = req[s].created
             /\ req[s].at # "idle" => req'[s].age = req[s].age + 1
             /\ req[s].at \notin Locking => req'[s].lage = req[s].lage
  BY <1>1, PassedRequest
<1>4. lock = NoRow => lock' = NoRow
  BY <1>1, AgedNoRow
<1>5. lock # NoRow =>
         /\ lock \in Rows /\ lock' # NoRow
         /\ lock'.id = lock.id /\ lock'.op = lock.op /\ lock'.status = lock.status
         /\ lock'.left >= lock.left - 1 /\ lock'.ttl >= lock.ttl - 1
         /\ lock'.left \in Int /\ lock'.ttl \in Int /\ lock.left \in Int /\ lock.ttl \in Int
  <2> SUFFICES ASSUME lock # NoRow
               PROVE  /\ lock \in Rows /\ lock' # NoRow
                      /\ lock'.id = lock.id /\ lock'.op = lock.op /\ lock'.status = lock.status
                      /\ lock'.left >= lock.left - 1 /\ lock'.ttl >= lock.ttl - 1
                      /\ lock'.left \in Int /\ lock'.ttl \in Int
                      /\ lock.left \in Int /\ lock.ttl \in Int
    OBVIOUS
  <2>1. lock \in Rows
    BY RowTyped
  <2>2. /\ Aged(lock) \in Rows
        /\ Aged(lock).id = lock.id /\ Aged(lock).op = lock.op
        /\ Aged(lock).status = lock.status
        /\ Aged(lock).left = Older(lock.left) /\ Aged(lock).ttl = Older(lock.ttl)
    BY <2>1, AgedRow
  <2>3. Older(lock.left) >= lock.left - 1 /\ Older(lock.ttl) >= lock.ttl - 1
    BY <2>1, RowFields, OlderIsOlder
  <2>4. /\ Aged(lock).left \in Int /\ Aged(lock).ttl \in Int
        /\ lock.left \in Int /\ lock.ttl \in Int
    BY <2>1, <2>2, RowFields
  <2> QED BY <1>1, <2>1, <2>2, <2>3, <2>4, NoRowIsNoRow
<1>6. LockSound'
  BY <1>1, <1>4, <1>5 DEF LInv, LockSound
<1>7. ASSUME NEW s \in Requests PROVE Kept(req[s])'
  <2> SUFFICES ASSUME req[s].at \in {"run", "release"} PROVE Kept(req[s])'
    BY <1>3 DEF Kept
  <2>1. /\ lock # NoRow /\ lock.id = req[s].lid
        /\ lock.ttl >= RecordTTL - MaxStall - req[s].age
    BY DEF LInv, Kept
  <2>2. req'[s].age = req[s].age + 1 /\ req[s].age \in Nat
    BY <1>3, RequestFields
  <2>3. lock'.ttl >= RecordTTL - MaxStall - req'[s].age
    BY <1>5, <2>1, <2>2, Numbers
  <2> QED BY <1>3, <1>5, <2>1, <2>3 DEF Kept
<1>8. ASSUME NEW s \in Requests PROVE KnowsLock(req[s])'
  BY <1>1, <1>3, <1>4, <1>5 DEF LInv, KnowsLock
<1>9. ASSUME NEW s \in Requests PROVE Loops(s)'
  BY <1>2, <1>3 DEF LInv, Loops
<1>10. ASSUME NEW s \in Requests PROVE Renewed(s)'
  <2> SUFFICES ASSUME Creating(s)' PROVE Renewed(s)'
    BY DEF Renewed
  <2>1. req'[s].lage = req[s].lage /\ req[s].lage \in Nat /\ faults \in Nat
    BY <1>3, RequestFields, RowTyped DEF Creating, Locking
  <2>2. Creating(s)
    BY <1>1, <1>3, <2>1 DEF Creating
  <2>3. /\ lock.op = req[s].op /\ lock.status = "processing" /\ renews[s].on
        /\ lock.left >= Lease - req[s].lage - faults - (IF renews[s].due THEN 1 ELSE 0)
        /\ \A t \in Requests \ {s} : Away(req[t])
    BY <2>2 DEF LInv, Renewed
  <2>4. lock # NoRow
    BY <2>2, LockOutlives, NoRowIsNoRow DEF Creating
  <2>5. lock'.left >= Lease - req'[s].lage - faults' - 1
    BY <1>1, <1>2, <1>5, <2>1, <2>3, <2>4, Numbers
  <2>6. \A t \in Requests \ {s} : Away(req[t])'
    BY <1>3, <1>5, <2>3, <2>4 DEF Away
  <2>7. renews'[s].on /\ renews'[s].due
    BY <1>2, <2>3
  <2>8. lock'.left >= Lease - req'[s].lage - faults' - (IF renews'[s].due THEN 1 ELSE 0)
    BY <2>5, <2>7
  <2> QED BY <1>3, <1>5, <2>3, <2>4, <2>6, <2>7, <2>8 DEF Renewed
<1> QED BY <1>6, <1>7, <1>8, <1>9, <1>10 DEF LInv

-----------------------------------------------------------------------------
(* The invariant of the lock.                                              *)

\* At the start there is no lock.
THEOREM LockInit == Init => LInv
<1> SUFFICES ASSUME Init PROVE LInv
  OBVIOUS
<1>1. lock = NoRow /\ \A r \in Requests : req[r].at = "idle" /\ renews[r] = NoLoop
  BY IdleIsSound DEF Init
<1>2. ASSUME NEW r \in Requests
      PROVE  Kept(req[r]) /\ KnowsLock(req[r]) /\ Loops(r) /\ Renewed(r)
  BY <1>1, LoopsTyped DEF Kept, KnowsLock, Loops, Renewed, Creating
<1> QED BY <1>1, <1>2 DEF LInv, LockSound

LEMMA TakesOverOrFails ==
    ASSUME TInv, NEW r \in Requests, LockReclaim(r), Fail(r)
    PROVE  UNCHANGED <<lock, renews, dels, faults>> /\ req[r].at \in Locking
<1> DEFINE q == [req[r] EXCEPT !.at = "run", !.lid = req[r].lid, !.lfrom = "none",
                               !.created = FALSE, !.lage = 0]
           f == [req[r] EXCEPT !.at = "mark", !.lid = 0, !.lfrom = "none", !.lage = 0]
<1>1. q.at = "run" /\ f.at = "mark"
  BY RequestFields DEF Request
<1>2. req'[r] = f
  BY BecomesIs DEF Fail
<1>3. Hold(r, req[r].lid, FALSE) => req'[r] = q
  BY BecomesIs DEF Hold
<1>4. ~Hold(r, req[r].lid, FALSE)
  BY <1>1, <1>2, <1>3
<1> QED BY <1>4 DEF LockReclaim, Counters, Locking

\* Every step keeps the lock's invariant.
THEOREM LockStep == TInv /\ LInv /\ [Next]_vars => LInv'
<1> SUFFICES ASSUME TInv, LInv, [Next]_vars PROVE LInv'
  OBVIOUS
<1>0. dels \in Nat /\ faults \in Nat
  BY RowTyped
<1>1. ASSUME NEW r \in Requests,
             \/ \E op \in Keys \X Admins, age \in 0..MaxStall : Create(r, op, age)
             \/ StartWithoutKey(r) \/ Coordinate(r) \/ Mark(r) \/ MarkFails(r)
      PROVE  LInv'
  BY <1>0, <1>1, CoordinatorIsAloof, AloofKeeps
<1>2. ASSUME NEW r \in Requests, Acquire(r) PROVE LInv'
  <2>1. CASE lock = NoRow
    BY <1>2, <2>1, AcquireKeeps
  <2>2. CASE lock # NoRow
    <3>1. UNCHANGED <<lock, renews, dels, faults>>
      BY <1>2, <2>2 DEF Acquire, CreateProcessing, Counters
    <3>2. \A s \in Requests : Aloof(s)
      BY <1>2, <2>2, RefusedIsAloof
    <3> QED BY <1>0, <3>1, <3>2, AloofKeeps
  <2> QED BY <2>1, <2>2
<1>3. ASSUME NEW r \in Requests, LockGet(r) PROVE LInv'
  <2>1. CASE Fail(r)
    <3>1. UNCHANGED <<lock, renews, dels, faults>> /\ req[r].at \in Locking
      BY <1>3 DEF LockGet, Counters, Locking
    <3>2. \A s \in Requests : Aloof(s)
      BY <2>1, <3>1, RefusedIsAloof
    <3> QED BY <1>0, <3>1, <3>2, AloofKeeps
  <2>2. CASE ~Fail(r)
    BY <1>3, <2>2, LockGetKeeps
  <2> QED BY <2>1, <2>2
<1>4. ASSUME NEW r \in Requests, LockReclaim(r) PROVE LInv'
  <2>1. CASE Fail(r)
    <3>1. UNCHANGED <<lock, renews, dels, faults>> /\ req[r].at \in Locking
      BY <1>4, <2>1, TakesOverOrFails
    <3>2. \A s \in Requests : Aloof(s)
      BY <2>1, <3>1, RefusedIsAloof
    <3> QED BY <1>0, <3>1, <3>2, AloofKeeps
  <2>2. CASE ~Fail(r)
    BY <1>4, <2>2, ReclaimKeeps
  <2> QED BY <2>1, <2>2
<1>5. ASSUME NEW r \in Requests, \E ok \in BOOLEAN : Finish(r, ok) PROVE LInv'
  <2>1. UNCHANGED <<lock, renews, dels, faults>>
    BY <1>5 DEF Finish, Counters
  <2>2. \A s \in Requests : Aloof(s)
    BY <1>5, RefusedIsAloof
  <2> QED BY <1>0, <2>1, <2>2, AloofKeeps
<1>6. ASSUME NEW r \in Requests, Release(r) \/ ReleaseFails(r) PROVE LInv'
  BY <1>6, ReleaseKeeps
<1>7. ASSUME NEW r \in Requests, Renew(r) \/ RenewFails(r) PROVE LInv'
  BY <1>7, RenewKeeps
<1>8. ASSUME NEW k \in Keys, CleanKey(k) PROVE LInv'
  <2>1. UNCHANGED <<lock, req, renews, faults>> /\ dels' = dels + 1
    BY <1>8 DEF CleanKey
  <2>2. \A s \in Requests : Aloof(s)
    BY <2>1 DEF Aloof
  <2>3. /\ UNCHANGED <<lock, renews>> /\ dels' \in Nat /\ faults' \in Nat
        /\ dels' >= dels /\ faults' >= faults
    BY <1>0, <2>1
  <2> QED BY <2>2, <2>3, AloofKeeps
<1>9. CASE CleanLock
  BY <1>9, CleanLockKeeps
<1>10. CASE Crash
  BY <1>10, LockCrashKeeps
<1>11. CASE Tick
  BY <1>11, LockTickKeeps
<1>12. CASE UNCHANGED vars
  <2>1. UNCHANGED <<lock, req, renews, dels, faults>>
    BY <1>12 DEF vars
  <2>2. \A s \in Requests : Aloof(s)
    BY <2>1 DEF Aloof
  <2> QED BY <1>0, <2>1, <2>2, AloofKeeps
<1>13. ASSUME NEW r \in Requests, Operate(r) \/ Settle(r) PROVE LInv'
  BY <1>13, <1>1, <1>2, <1>3, <1>4, <1>5, <1>6 DEF Operate, Settle
<1> QED BY <1>1, <1>7, <1>8, <1>9, <1>10, <1>11, <1>12, <1>13 DEF Next

\* Records and lock are in order in every state the program reaches.
THEOREM LockHolds == Spec => [](IInv /\ LInv)
<1>1. Init => IInv /\ LInv
  BY RecordsInit, LockInit
<1>2. IInv /\ LInv /\ [Next]_vars => IInv' /\ LInv'
  BY RecordsStep, LockStep DEF IInv
<1> QED BY <1>1, <1>2, PTL DEF Spec

\* The operation that created the lock's row runs alone while its failed
\* renewals leave time for one more (service/system_operation_lock_service.go:
\* Acquire, renewLoop).
THEOREM CreatorRunsAlone == Spec => []CreatorIsAlone
<1>1. IInv /\ LInv => CreatorIsAlone
  <2> SUFFICES ASSUME IInv, LInv, NEW r \in Requests, req[r].at = "run", req[r].created,
                      req[r].lage + faults + 1 < Lease
               PROVE  Running = {r}
    BY DEF CreatorIsAlone, Running
  <2>1. Creating(r)
    BY DEF Creating
  <2>2. \A t \in Requests \ {r} : req[t].at # "run"
    BY <2>1 DEF LInv, Renewed, Away
  <2> QED BY <2>2 DEF Running
<1> QED BY <1>1, LockHolds, PTL

\* A lock that nobody holds any more is prolonged by nobody: the renewal loop
\* ends with its operation (service/system_operation_lock_service.go: Release).
THEOREM OrphanLapses == Spec => OrphanedLockLapses
<1>1. ASSUME IInv, LInv, Next, Orphaned, Orphaned' PROVE lock'.left <= lock.left
  <2>1. /\ lock \in Rows /\ lock # NoRow /\ lock.left \in Int
        /\ \A r \in Requests : req[r].at \notin {"run", "release"}
    BY <1>1, RowTyped, RowFields DEF Orphaned, LockBusy, IInv
  <2>2. \A r \in Requests : req'[r].at \notin {"run", "release"} /\ lock' # NoRow
    BY <1>1 DEF Orphaned, LockBusy
  <2>3. ASSUME NEW r \in Requests, Renew(r) \/ RenewFails(r) PROVE FALSE
    BY <1>1, <2>1, <2>3 DEF Renew, RenewFails, LInv, Loops
  <2>4. ASSUME NEW r \in Requests, Acquire(r) PROVE lock' = lock
    BY <2>1, <2>4 DEF Acquire, CreateProcessing
  <2>5. ASSUME NEW r \in Requests, LockReclaim(r) PROVE lock' = lock
    <3> DEFINE q == [req[r] EXCEPT !.at = "run", !.lid = req[r].lid, !.lfrom = "none",
                                   !.created = FALSE, !.lage = 0]
    <3>1. q.at = "run"
      BY <1>1, RequestFields DEF IInv, Request
    <3>2. Hold(r, req[r].lid, FALSE) => req'[r] = q
      BY <1>1, BecomesIs DEF Hold, IInv
    <3>3. ~Hold(r, req[r].lid, FALSE)
      BY <2>2, <3>1, <3>2
    <3> QED BY <2>5, <3>3 DEF LockReclaim
  <2>6. ASSUME NEW r \in Requests, Release(r) \/ ReleaseFails(r) PROVE FALSE
    BY <2>1, <2>6 DEF Release, ReleaseFails
  <2>7. ASSUME NEW r \in Requests,
               \/ \E op \in Keys \X Admins, age \in 0..MaxStall : Create(r, op, age)
               \/ StartWithoutKey(r) \/ Coordinate(r) \/ Mark(r) \/ MarkFails(r)
        PROVE  lock' = lock
    BY <1>1, <2>7, CoordinatorIsAloof DEF IInv
  <2>8. ASSUME NEW r \in Requests, LockGet(r) \/ \E ok \in BOOLEAN : Finish(r, ok)
        PROVE  lock' = lock
    BY <2>8 DEF LockGet, Finish
  <2>9. ASSUME NEW k \in Keys, CleanKey(k) PROVE lock' = lock
    BY <2>9 DEF CleanKey
  <2>10. ASSUME CleanLock PROVE lock' = NoRow
    BY <2>10 DEF CleanLock
  <2>11. ASSUME Crash PROVE lock' = lock
    BY <2>11 DEF Crash
  <2>12. ASSUME Tick PROVE lock'.left <= lock.left
    <3>1. Aged(lock).left = Older(lock.left) /\ Older(lock.left) <= lock.left
      BY <2>1, AgedRow, RowFields, OlderIsOlder
    <3> QED BY <2>12, <3>1 DEF Tick
  <2>13. ASSUME NEW r \in Requests, Operate(r) \/ Settle(r) PROVE lock' = lock
    BY <2>13, <2>4, <2>5, <2>6, <2>7, <2>8 DEF Operate, Settle
  <2>14. Tick \/ CleanLock \/ lock' = lock
    BY <1>1, <2>3, <2>7, <2>9, <2>11, <2>13 DEF Next
  <2>15. ~CleanLock
    BY <1>1, <2>10 DEF Orphaned, LockBusy
  <2> QED BY <2>1, <2>12, <2>14, <2>15
<1>2. IInv /\ LInv /\ [Next]_vars => [Orphaned /\ Orphaned' => lock'.left <= lock.left]_vars
  BY <1>1
<1> QED BY <1>2, LockHolds, PTL DEF Spec, OrphanedLockLapses

=============================================================================
