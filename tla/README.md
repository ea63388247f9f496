# TLA+ models of the chat2api backend

This directory holds TLA+ specifications of the stateful core of the backend
(`src/backend/internal`), the TLC configurations that check them on small
instances and TLAPS proofs of their most important invariants.  Paths below are
relative to `src/backend/internal/` unless they start with `src/`.

Six parts of the backend are modelled, those in which independent actors meet
over shared state:

* the **batch image subsystem**: a job is submitted over HTTP, money of the user
  is frozen for it, a provider works on it for minutes or hours, workers follow
  it through a Redis queue, and in the end the hold is captured (charged) or
  released (refunded);
* **system operations**: an administrator's update, rollback or restart behind an
  idempotency key and a global lock that is renewed while it runs;
* **live calls**: a realtime call that an observer goroutine and sideband requests
  hand to each other until it is closed, logged and its lease given back;
* **concurrency slots**: the limit of a user or account, shared by requests and
  live calls, with its wait counter and the cleanup after a restart;
* **scheduler snapshots**: the cached lists of schedulable accounts, published by
  requests, an outbox poller and a periodic rebuild, fenced by epochs;
* **OAuth tokens**: the rotating credentials of an Anthropic account, renewed by a
  background service, by requests of two processes and by an administrator.

## 1. The system

The backend is a gateway in front of several AI providers.  It accepts API
requests, picks an upstream account, forwards the request, and bills it.  What
it keeps lives in two stores:

* an SQLite file (WAL mode, a pool of up to eight connections, deferred
  transactions).  SQLite has one writer: a transaction that read a snapshot and
  then finds it overtaken cannot write any more and fails with `SQLITE_BUSY`.
  What a transaction checks is therefore still true when it writes, or the whole
  call fails;
* Redis, either external (`src/deploy/docker-compose.yml`) or, with
  `redis.enabled=false`, a store inside the process (`repository/redis.go:89`).

The root README recommends a single instance.  The batch image code is
nevertheless written for several workers on one store (lock keys with owner
tokens, TTLs, recovery of stale reservations), and one process already runs
several handlers, the recovery scan, the movers and its worker loop concurrently;
two workers also stand for a process and the one it replaces at a restart.  The
subsystem is switched on by `batch_image.enabled` and
`batch_image.queue_enabled`; its routes are in `server/routes/gateway.go:253`.

| Component | State it keeps | Operations | What is hard | What makes it correct |
|---|---|---|---|---|
| Batch image queue (`repository/batch_image_queue.go`, `service/batch_image_worker*.go`) | Redis list `ready`, sorted sets `delayed` and `active`, a dedup key and a lock key per batch | Enqueue, Reserve, Ack, RequeueAfter, heartbeat, movers | processes die, locks and scores time out, a late heartbeat or release hits a newer owner | nothing enqueued is lost; a batch has one worker; everything is served |
| Balance holds (`repository/usage_billing_repo.go`) | `users.balance`, `users.frozen_balance`, the claims of request ids | reserve, capture, release | calls repeated, reordered, with lost answers; all batches of a user share one pool | money is conserved, the pool is accounted for, a hold has one outcome |
| Batch image job table (`repository/batch_image_repo.go`) | one row per job | status transitions, counts, settlement, marks | some writes have no condition on the status; a row read before is used after other transactions | terminal jobs stay terminal, completed jobs are paid |
| Batch image lifecycle (`service/batch_image_public.go`, `_billing_recovery.go`, `_processor.go`, `_settlement.go`, `_cleanup.go`) | the handlers' own progress | Submit, Cancel, recovery scan, Process, Settle, deletion | all of them act on one job at once and any of them may die between two steps | section 4 |
| Usage billing of ordinary requests (`repository/usage_billing_repo.go` Apply, `service/gateway_usage_billing.go`, `service/usage_record_worker_pool.go`) | balances, subscription and key usage, claims | Apply; a bounded worker pool | duplicate results, queue overflow | each request is billed once or reported as dropped |
| Concurrency slots (`service/concurrency_service.go`, `repository/concurrency_cache.go`, `handler/gateway_helper.go`) | sorted sets of slots and live leases, wait counters, the index of active owners | acquire, wait, refresh, release, cleanup worker, startup cleanup | a holder dies or outlives the TTL; live leases share the limit of ordinary slots; scripts run twice | no more holders than the limit, unless one outlived its TTL; the wait queue opens again |
| Live calls (`service/openai_live.go`, `repository/gateway_cache.go`, `handler/openai_live.go`) | the record of a call with its controller, its lease | create, observe, take over, hand back, refresh, finalize | agents take the control from each other while the store fails under them | an open call has a keeper; it is logged once; its lease does not come back |
| Payment orders, redeem codes, subscriptions, promotions, affiliates (`service/payment_*.go`, `redeem_service.go`, ...) | rows | create, notify, fulfil, refund, redeem | unreachable: their routes are not registered (`REMOVED_PAGES.md`) | |
| Idempotency and system operation lock (`service/idempotency.go`, `service/system_operation_lock_service.go`) | a record per key with a status and a lock time | claim, replay, reclaim, mark | owners die or are slow; the marks have no owner check | one execution per key while its lock holds; replay returns what the execution returned |
| OAuth refresh (`service/oauth_refresh_api.go`, `token_refresh_service.go`, `claude_token_provider.go`, `handler/admin/account_handler.go`) | credentials, status and cooldown of an account, a mutex and a Redis lock, the cached access token | refresh, race recovery, quarantine, cache fill, manual refresh, re-authorization, edit | the provider consumes a refresh token before its successor is saved; locks lapse or are bypassed; whole rows are written back | the account never loses its last good refresh token, no token is spent twice, nobody is quarantined for a token somebody else renewed |
| Scheduler snapshot and outbox (`service/scheduler_snapshot_service.go`, `repository/scheduler_cache.go`, `repository/scheduler_outbox_repo.go`) | outbox rows, watermark, cached buckets with epochs, versions, locks and a lease per group | append with dedup, poll, rebuild, retire, reopen, publish | a publication reads before a retirement and writes after it; events get lost, keys lapse, rebuilds skip busy buckets | nothing from before a retirement comes back; every change reaches the snapshot |
| Auth cache invalidation, usage cleanup (`service/auth_cache_invalidation_outbox.go`, `usage_cleanup_service.go`) | claimed events, tasks | claim, process, retry | not started on SQLite (`service/wire.go:327`) | |
| Billing cache and breaker (`service/billing_cache_service.go`) | cached balances, breaker state | read-through, invalidate, Allow, OnSuccess, OnFailure | stale writes, late answers | an open breaker stays open for its timeout |
| User platform quota (`service/user_platform_quota_flusher.go`) | Redis usage, dirty set, database mirror | add, flush, reset | the flush races an administrator's reset | usage is not lost |
| Gateway, scheduling, rate limits, websocket pool, live sessions | in-process state, cooldowns | forward, pick, mark | mostly data transformation | |
| Authentication, settings, administration, monitoring, moderation, backup, update, migrations, generated code, frontend | rows, files | CRUD, reports | | |

**How the modelled parts interact.**  Submit inserts the job row, reserves the
hold, inserts the items, hands the job to the provider, records the provider's
name for it and enqueues the batch.  A worker reserves the batch from the
queue, takes its lock, and runs the pipeline processor, which either polls the
provider and writes status transitions and item counts, or settles the job:
capture of the hold, then the completion mark.  What Process returns decides
whether the worker acknowledges the batch or requeues it.  Cancel, and a scan
for stale submissions, end jobs from the side and release their holds; if a
release fails, they enqueue the batch so that a worker releases it.

A live call takes an ordinary slot, replaces it by a lease and is then kept by
its agents: `GatewaySlots` has the call's hold on the limit and abstracts its
agents to refreshes and a hang-up, `LiveCalls` has the agents and abstracts the
limit to whether the lease is there.  Both read the lease scripts of
`repository/concurrency_cache.go`.  System operations, scheduler snapshots and
OAuth tokens share no state with the other parts, except that each change of an
account's row is an event for the snapshots (`SchedulerSnapshots` has such a
change, whoever made it).

## 2. Modules

| Module | Models | Uses |
|---|---|---|
| `BatchImageIds`, `BatchImageCosts` | batch ids, prices | |
| `BatchImageQueue` | the Redis queue and the worker loop around Process | `BatchImageIds` |
| `BalanceHold` | reserve, capture and release of one user's balance | `BatchImageCosts` |
| `BatchImageJobs` | the transactions on `batch_image_jobs` | `BatchImageCosts` |
| `BatchImageLifecycle` | handlers, recovery scan and pipeline over the three modules above | all of them, `HoldPromise` |
| `HoldPromise` | the abstract specification: what a user is promised about a batch's money and result | |
| `IdempotencyRecords` | the statements on one row of `idempotency_records` | |
| `SystemOperations` | Execute of the coordinator, the system operation lock, the handlers between them, the cleanup | `IdempotencyRecords` |
| `LiveCalls` | one live call: creation, observers, sidebands, finalization, record and lease | |
| `GatewaySlots` | slots, leases and wait counter of one user or account | |
| `SchedulerSnapshots` | the buckets of one group, the outbox and who publishes them | |
| `OAuthTokens` | the credentials of one account, who renews them and who uses them | |
| `BatchImageQueueProofs`, `BalanceHoldProofs`, `BatchImageLifecycleProofs`, `SystemOperationsProofs`, `LiveCallsProofs`, `GatewaySlotsProofs`, `SchedulerSnapshotsProofs`, `OAuthTokensProofs` | theorems | TLAPS |
| `...MC` | symmetry sets for TLC | |

### BatchImageQueue

`ready`, `delayed`, `active` and `inflight` are the Redis keys of the same names
(`inflight` is the set of batches whose dedup key exists), `lock` the job lock
keys.  Each Lua script or MULTI/EXEC pipeline is one step.  A worker is at
`idle`, `reserved` (popped, lock not yet taken), `processing` (inside Process)
or `unlock` (acknowledged or requeued, the deferred release of the lock still
to come).

Time is not counted.  A sorted-set score that is older than the cutoff is
membership in `stale`; the stale recovery takes from there.  A score grows
stale, and a lock key expires, at any time when their owner is gone; for an
owner that is alive each such step costs one of `MaxLate` lapses, because a
live worker refreshes both by heartbeat.  `CrashWorker` loses the process
between any two steps: its token stays in the key (`Abandoned`) until the TTL.
`RedisFails` is a Redis call that returns an error to the loop.

The delay of a requeue is always positive in the code, so a requeued batch goes
to `delayed`.  Both movers push a set of batches in any order (`Orderings`).

Left out: validation of ids and the week-long TTL of the dedup key.

### BalanceHold

One user, integer money, one hold size.  `claim[b]` is the set of request ids
of batch `b` that are in the dedup table, `fingerprint[b]` the cost inside the
fingerprint of the capture (reserve and release have one fingerprint for all
callers).  A transaction either commits claim and money together or nothing; a
repeated call with the same fingerprint changes nothing and is no error; a
different fingerprint, a cost over the hold or a pool that is too small is
refused and the claim is rolled back.  One case is special and modelled as the
code has it: the release of a batch that never reserved moves nothing but does
commit its claim.

`Pool` is money frozen by batches outside the model.  It is there because the
code's only condition on the pool is that it is large enough; with an empty pool a
wrong release would be refused for a reason that has nothing to do with it.
`moved` and `charged` are history: which operations really moved money.

### BatchImageJobs

A row is its status, whether `provider_job_name` is set (`named`), whether
`updated_at` is behind the recovery cutoff (`old`), whether it is hidden from
the user, the retry counter (saturating at `MaxRetries`, the only value the code
compares it with), the price of the successful items (`cost`, "too dear" when
over the hold) and the recorded `actual_cost` (`paid`).  Each operator is one
transaction.  `TransitionBatchImageJobStatus` reads the status, checks it and
updates in one transaction, so the check and the write are one step; when
another writer came in between, the call fails as a whole (`SQLITE_BUSY`), like
any other call.

`ZoneAhead` says whether the process runs in a time zone ahead of UTC, as the
default `Asia/Shanghai` is.  The INSERT leaves `updated_at` to the column
default, which is UTC, every later write and the cutoff are local times, and
SQLite compares texts: ahead of UTC a row is old when it is inserted.

### BatchImageLifecycle

`at[h][b]` is the control point of handler `h` (`submit`, `cancel`, `recover`)
for batch `b`; `task[w]` the control point of Process on worker `w`, with what
Process has read and still uses (the status it saw, the price it captures, the
status it is about to write and where it goes afterwards).  `upstream[b]` is the
provider's job, an external actor: started by Submit, it succeeds or fails, and
a cancel request may or may not reach it.

| Code | Actions |
|---|---|
| `Submit` | `SubmitCreate` to `SubmitHide`, `SubmitHeartbeat`; a repeated request is `Resubmit`, `ResubmitEnqueue` |
| `Cancel` | `CancelRead` to `CancelTransition`, `AgentRefund`, `BillingRetry` |
| `ReleaseStaleUnsubmittedOnce` | `RecoverFail`, `AgentRefund`, `BillingRetry` |
| `BatchImageProviderProcessor.Process`, `Index` | `ReadJob`, `Poll`, `ChangeStatus`, `Index`, `RefundTerminal` |
| `PipelineProcessor.Process`, `Settle` | `Start`, `Route`, `SettleRead`, `Capture`, `Mark`, `Record`, `Exhaust`, `RecordRelease`, `Reread`, `Finish` |
| deletion of outputs and records | `DeleteOutput`, `DeleteRecord` |
| a process dies, a call fails | `CrashHandler`, `CrashTask`, `CallFails`, the failure disjuncts of the steps |

The environment is bounded by budgets: `MaxFaults` calls that fail without
effect, `MaxLost` calls that take effect but are reported failed, `MaxLapses`
lapses of the submit heartbeat, `MaxDeaths` handlers that die between two steps,
and the queue's `MaxCrashes` and `MaxLate`.  A lost answer is common with the
provider and rare with the local database (an I/O error after the commit point,
a request context that ends during the commit), but each call site has its
error path and the model takes it.  `Deletions` says whether the client deletes outputs
and records.  The death of a handler is not only a killed
process: Submit and Cancel run under the context of their HTTP request, so when
the client goes away every later call of the handler fails.  `EarlyCancel` says
whether the client can cancel before Submit has returned (it can find the job in
its list).

Abstracted: request validation (a rejected request changes nothing), pricing
and result parsing (their outcome is a price or an error), item rows and events,
the content of messages and errors.

### IdempotencyRecords, SystemOperations

A record is its id, status, the operation id it was made for (which stands for
the request fingerprint, being made from endpoint, administrator and key), the
time left until `locked_until` and `expires_at`, and the stored response.  Every
statement of `repository/idempotency_repo.go` is one operator.  A coordinator's
record and the global lock are rows of the same table with the same statements.

`req[r]` is the control point of a request with what it has read and still uses
(the id and status it will reclaim); `renews[r]` the renewal goroutine of its
lock.  The actions follow `Execute` (`Create`, `Get`, `ReclaimExpired`,
`GetAgain`, `ReclaimFailed`, `Mark`), `Acquire` and `Release` of the lock
(`Acquire`, `LockGet`, `LockReclaim`, `Release`) and `renewLoop` (`Renew`,
`RenewFails`).  `Execute` takes one time stamp and compares everything with it,
so a delayed statement works with an old one: `age` is that delay, at most
`MaxStall`.  Time passes one renewal interval (a third of the lease) per `Tick`.

Abstracted: validation of keys, fingerprints and the encoding of responses.  The
update itself is a point at which the request stays for up to `MaxRun`.

### LiveCalls

One call.  `ctl` and `owner` are the record's `controller` and
`controller_owner`, `lease` and `left` the time left of the lease and until the
session's end, in intervals of 20 s between refreshes.  `obs[w]` is the observer
goroutine started by `w` (the creating request, or a sideband that handed the
control back), `side[s]` a sideband request.  Every call to the store is an
action of its own with its error path: claim, read, poll, refresh, hand-back,
mark, release.  Errors the code answers with another step cost one of
`MaxFaults`.  `Losses` are what it does not answer: a claim whose answer is
lost, an observer's claim that took effect and is run again by the client library
(`ObserverClaimIsRerun`: the second run finds `observer` and answers 0, which looks
like another controller), a hand-back that fails, a mark that fails, a dial that
hangs past the record's TTL, the end of the process; one of them happens in a
behaviour.  A sideband's claim that is run again finds its own owner id.

Abstracted: SDP, headers, attestation, frames.  The write of the usage log is
taken as successful.  A retry with another account begins the module anew.

### GatewaySlots

`slot` and `lease` are the two sorted sets, by what is left of each member
(`Lapsed` is a member the next script reaps), `waits` and `waitLeft` the counter
with its TTL, `indexed` the owner's entry in the active index.  A script is one
step; `refreshActiveIndex`, which reads the load and then removes the entry, is
two (`removing`).  `at[r]` is where a request is: waiting, served, giving back.
A slip is an error at the counter, or a script the client library runs again
because its answer was lost.  `Crash` and `Start` are the end of the process and
`CleanupStaleProcessSlots`; one process is what the root README recommends
(`src/README.md:52`).

A member of `Plain` or `Live` stands for one acquisition; it is used again when
nothing in Redis refers to it, as request ids are fresh.  Left out: WebSocket
ingress leases and API-key slots, which run the same scripts on keys of their
own, the load caches of the scheduler, and the sweep of wait counters of an
earlier version.

### SchedulerSnapshots

The buckets of one group on one platform (they share one query) and one account.
What the database says of the account is a version number of its row.  `outbox`
holds the events behind the watermark; `released` counts those that were listed
and so lost their dedup key.  `epoch`, `retired`, `shown`, `lock` and `lease` are
the keys of `repository/scheduler_cache.go`.  Version numbers of publications
are abstracted to their order: `beats[a]` is whose unpublished version `a`'s is
above, `overtaken` whose version is below the active one.

A publication takes a token, reads the database, allocates a version (fenced by
the epoch), writes the accounts and activates the snapshot (fenced again); each
is a step.  `JudgeGroup` to `LifecycleEnds` are `prepareGroupLifecycle` under the
group's lease.  `PollOutbox` to `BatchEnds` are the poller, `StartRebuild` to
`RebuildEnds` the initial and the periodic full rebuild.  A change of the account
writes its event after the commit, so it may be lost; a change of the group is
one transaction with its event.

Taken as one step: the sync of an account's entry with the read before it, and
the reads at the start of a full rebuild.  Left out: group 0 and the simple
mode, deleted accounts, accounts that become unschedulable, last-used times, the
replay of rows below the watermark after the cache was emptied, and the rebuild
a lagging outbox triggers (the same rebuild at another time).

### OAuthTokens

A generation is a pair of access and refresh token; the provider issues them one
after the other and accepts the refresh tokens in `live`.  `due` is the clock:
generations up to it are due for a refresh.  `row` is the account (tokens,
`_token_version` and `expires_at`, status, `schedulable`, the cooldown and its
reason), `expires_at` standing as the generation it is the date of,
`cache` the cached access token, `lock` the Redis lock (`Orphan` when its process
is gone or failed to delete it), `mutex[p]` the mutex of process `p`.

| Code | Actions |
|---|---|
| `RefreshIfNeeded` | `LockMutex` to `ReleaseRefreshLock`, with `TryRecoverFromRefreshRace` |
| `refreshWithRetryWithRateGate` and its candidates | `ListCandidate`, `AfterBackground`, `ClearCooldown`, `InvalidateToken`, `Quarantine`, `CoolDown` |
| `ClaudeTokenProvider.GetAccessToken` | `GetCachedToken`, `AfterRequest`, `WaitForCache`, `CheckTokenVersion`, `SetAccessToken` |
| `HandleUpstreamError` for a 401 | `Use`, `Reject`, `Bench` |
| manual refresh, re-authorization, edit | `ReadForRefresh`, `RefreshManually`, `Authorize`, `LoadAccount`, `WriteAccount`, `ClearAccountError`, `InvalidateAfterAdmin` |

Every statement on the row, the cache, the lock and the provider is a step.  One
of `MaxFaults` is a statement that fails, an answer of the provider that is lost,
a context that ends, or a process that dies.  The provider may refuse connections
any number of times.  `lost`, `unguarded` and `excused` are history: what happened
that the properties allow for.

`ListCandidate` has the three-valued logic of its query: `NOT (a AND b)` over the
two cooldown columns is NULL, and the row left out, while they are NULL
(`row.temp = "none"`); a row is listed once it has cooled down, for as long as its
cooldown is over or has another reason.  Time passes for SQLite later than for Go
(`"overdue"`): the text of a local time ahead of UTC is behind.
An edit keeps the tokens of the row it read, which are sensitive keys, and takes
`_token_version` and `expires_at` from its form (`service/account_credentials_redact.go:38`):
any version and date of an earlier look, or none.  The release of the lock may be
run again by the client library after a lost answer and then delete the lock of
the next holder (`ReleaseRefreshLock`).

That the provider rotates is what `SaveCredentials` and
`tryRecoverFromRefreshRace` are written for; one that keeps old refresh tokens
good is easier.  The lock does not lapse under the background refresh, whose
attempt times out before the TTL of 60 s (`attemptTimeout`,
`service/token_refresh_service.go:776`); under a request it may.

Left out: Grok, whose writes compare the credentials first, what Antigravity and
OpenAI add to a refresh, the `Extra` of a re-authorization, and the cycle around
one account (pages, rate gates, the provider's breaker).

## 3. Runs

| Run | Properties | What it shows |
|---|---|---|
| `queue` | `InflightIsListed`, `ExclusiveUnlessLapsed`, `LockLostOnlyToTimeout`, `OnlyReservationActivates`, `InflightIsServed` | two workers, two batches, one crash, two lapses: nothing is lost, the lock excludes, nobody starves |
| `job_safety` | `BegunJobStaysQueued`, `CompletedIsPaid`, `NoRefundWhileRunning`, `TerminalStatusIsFinal`, `RefreshedSubmissionIsSpared`, `RefundIsPassedOn`, `KeepsPromise` | two workers, ahead of UTC, with a worker crash, a handler's death, a lapsed submission, a failed call and a lost answer: the subsystem implements `HoldPromise`, no begun job waits for nobody, no running one is refunded, no submission that refreshed its row is failed by the scan, nobody forgets a refund but in the named ways |
| `job_two` | `PoolCoversHolds`, `PoolAccounted`, `NoPhantomRelease`, `MoneyConserved` | two batches with money for both holds and no more, cancels at any time: none is paid out of the other's hold, and the ledger adds up |
| `job_resolution` | `RefundHasOwner`, `HoldIsResolved` | while no handler dies and no answer is lost, in a zone not ahead of UTC: dead jobs are refunded by somebody, and every hold taken over by the queue or by a dead job is resolved |
| `system_operations` | `OneRunPerKey`, `FreshSuccessIsNotRepeated`, `ReplayIsOwn`, `CreatorIsAlone`, `OrphanedLockLapses` | two requests of two administrators, sent again and again, a failed statement, a crash or a deleted record |
| `live_calls` | `OpenCallHasKeeper`, `OneLogPerCall`, `StableConnectionIsCounted`, `ReleasedLeaseStaysAway`, `EveryCallIsLogged` | an observer and two sidebands, two errors of the store, or one and a loss of each kind |
| `gateway_slots` | `LimitHolds`, `WaitCountIsHonest`, `QueueOpens` | two requests and a live call at a limit of one, one waiting place, an error or a restart |
| `scheduler_snapshots` | `RetiredIsEmpty`, `SnapshotIsOfThisLife`, `ClosedStaysClosed`, `SnapshotsSettle` | a request, the poller and the full rebuild publish a bucket, through two of: a change of its group, a change of its account, a fault |
| `oauth_tokens` | `TokenSurvives`, `RefreshTokenIsUsedOnce`, `QuarantineIsDeserved`, `FillIsNotOlder`, `CooledTokenIsRenewed` | the background refresh and a request of another process, one fault or one operation of the administrator |
| `v_double_outcome`, `v_refund_running`, `v_system_overlap` | one property each | disagreements of the code with its own comments, section 5 |

Every property has a mutant: a changed form of one definition (marked
`mutant:` in the modules) with which TLC finds the property violated.  The type
invariants are proved (section 6) and not among the runs' properties.

**Bounds and why they are enough.**

*Batch images.*  Two workers are the smallest number that can contend for a
lock, and a third behaves like one of the two, since workers are identified by
their token only.  Two batches are the smallest number that can pass each other
in the queue.  The lifecycle runs other than `job_two` have one batch, because
batches meet only in the queue (checked with two), in the user's balance (a
start balance that does or does not cover the hold, `Funds = {1, 3}`) and in the
pool (`Pool = 2`, one foreign hold); `job_two` checks that with two batches,
an otherwise empty pool and a balance of just both holds, without faults and
deletions; the theorems of section 6 are about any number of batches.  `Hold = 2` with
prices 1 and 3 gives a price under and one over the hold.  `MaxRetries` is 5 in
the code; the runs use 2 or 3.  What matters is whether the failures can reach
the limit: `job_safety` and `job_resolution` have two failing calls (in the former
one of them with effect) and a limit of three, which only a price over the hold
exhausts; `v_double_outcome` reaches it by failures.  `RefundIsPassedOn` was also
checked with cancels at any time, two failed calls, a lost answer and a death each
of a handler and of a worker (555,232 states), and its theorem leaves all of these
open.

*System operations.*  Two requests contend; because an ended request is sent
again, every request may meet the traces of any number of earlier ones.  One key
with two administrators gives two operation ids on one row.  The lease is three
renewal intervals, as in the code; `MaxRun` equals the lease, so an operation
without renewal would lose the lock.  `RecordTTL` is above `MaxRun + MaxStall`
(15 minutes and a delay below 30 seconds against an hour in the code).  `MaxTroubles`
is the number of failures and deletions together, one of either.  `MaxRun`
alone is not enough: who takes a row over counts its TTL from its own, delayed,
time stamp, so with four requests and less than that the cleanup could remove the
row under a running operation, and `CreatorIsAlone` would fail.

*Live calls.*  A sideband can take over from the observer of another one, so two
show every kind of hand-over.  `LeaseTTL = 2` is two intervals instead of three; a
session of 3 is longer than a lease, so that a lease that is not refreshed lapses
within it.  `RetryLimit` is 2 instead of 5 and `MaxFaults` 2 reaches it; a loss
counts as one of the `MaxTroubles = 2`.

*Slots.*  A limit of one with two requests and a live call has a holder, one that
waits and one that is refused.  `SlotTTL` 2 and `LeaseTTL` 1 lapse at different
times.  `MaxTroubles = 1` is one error, or one restart, whose cleanup may fail; the
module was also run with one of each, with two errors, and with a limit of two and two live calls without a
crash.  `WaitTimeout < WaitTTL` is an assumption: the
counter's TTL comes from the configured account waits and the user's wait from
another setting (`repository/wire.go:19`); the defaults satisfy it.

*Snapshots.*  One request, the poller and the rebuild are three publishers of a
bucket; a fourth could only be one more reader.  One change of the account and
one of the group, from an open or a closed one, give a closing and a reopening
with the first judgement of a new group; the fault is any one of a lost event, a
failed call, a key that lapses under its holder, or a restart that keeps or empties
the cache.  A behaviour has two of the three (`MaxTroubles = 2`).  The module was
also run with all three, with two group changes and with two buckets.

*OAuth tokens.*  Two refreshers of two processes meet over the lock, the row and
the cache, in the same process only over the mutex as well.  Three generations are
the one at the start, its successor and one more, so that whoever works with the
first finds a row, a cache or a cooldown of the second while the third is being
issued; the last one does not grow due.  One fault and one operation of the
administrator are enough for each way to lose a token, and `MaxTroubles = 1` has one
or the other; the module was also run with both, and the inductive invariant
(section 6) covers more of each.

**Deadlock.**  The batch image lifecycle, the system operations and the live call
stop when their jobs, requests or the call are finished and the budgets are used
up, which is not an error, so their runs switch the deadlock check off.  The
account of the OAuth tokens may end in error or out of service with the
administrator's operations used up, so does that run.  The other runs keep it on.

**Fairness.**  It is weak fairness, but for one assumption about a provider.

* Batch images: a handler that runs continues (`SubmitStep`, `CancelStep`), the
  worker loop, the movers and the recovery scan run for as long as the process
  (`Run`, `RunDelayedMover`, `RunStaleActiveRecovery` and the runtime's scan
  ticker), clocks run, and the provider finishes every job.  That each batch in
  `delayed` or stale has its turn in the movers is justified by their reading the
  lowest scores first.  Clients owe nothing: no submission, cancel or repeated
  request is fair.
* Live calls: time passes, and the agents' steps and the finalization go on:
  goroutines are scheduled, statements and dials end, timers fire.
* Slots: time passes, and a request that began to wait goes on, gives up at its
  timer and counts itself off; its calls to the store have deadlines.  That a
  slot is given back is not assumed.
* Snapshots: a publication that began goes on, the poller (every second) and the
  full rebuild (every 300 s by default, `config/config.go:2478`) run again and
  again, and keys expire.  An interval of 0 switches the full rebuild off; then
  `SnapshotsSettle` is not promised.
* OAuth tokens: the background service runs every few minutes, requests go on, a
  cooldown ends and the lock of a dead process lapses.  That the provider answers
  the background's calls again and again is strong fairness: it is not down for
  ever.  Without it a due token is rightly not renewed.

Crashes and failures are bounded, which stands for "they stop long enough".

## 4. What the properties say

* `InflightIsListed`: a batch whose dedup key refuses new enqueues is in
  `ready`, `delayed` or `active`, whatever dies.
* `ExclusiveUnlessLapsed`, `LockLostOnlyToTimeout`: exclusion of workers breaks
  only when both the active score and the lock key of a live worker lapse, and a
  worker that lost its lock does not take it from the next one.
* `OnlyReservationActivates`: a heartbeat late for its Ack brings nothing back.
* `PoolAccounted`, `MoneyConserved`, `NoPhantomRelease`: the ledger, in the
  subsystem by `job_two`, under arbitrary callers by proof (section 6).
* `KeepsPromise`: with `money` and `result` of a batch read off the ledger and
  the row, every step is a step of `HoldPromise`: frozen once, then charged or
  refunded once, completed only when charged, never charged when dead.
* `CompletedIsPaid`: capture and completion mark are two transactions, maybe of
  two workers, and agree on the amount.
* `BegunJobStaysQueued`: a job a worker has begun with is in the queue until it
  is terminal.
* `RefreshedSubmissionIsSpared`: a submission whose row was written once in local
  time is failed by the recovery scan only after its heartbeat lapsed; a fresh row
  is spared too where the zone is not ahead of UTC.
* `RefundIsPassedOn`: who ends a job takes its refund over and hands it on until it
  is carried out, or its request id is used up.  It is forgotten only with a
  handler's process, with a last retry that fails, or where the answer to the
  reservation or the cancel was lost.
* `RefundHasOwner` (the same as an invariant, in the calm run), `NoRefundWhileRunning`,
  `PoolCoversHolds`, `HoldIsResolved`, `TerminalStatusIsFinal`: see the comments
  in `BatchImageLifecycle`.
* `OneRunPerKey`, `FreshSuccessIsNotRepeated`, `ReplayIsOwn`: one idempotency key
  is executed by one request at a time, not again while a success is fresh, and
  answers its own requests only, although reads, reclaims and the cleanup are
  separate statements and the marks ask for the id alone.
* `CreatorIsAlone`, `OrphanedLockLapses`: the lock excludes for as long as it is
  renewed, failed renewals included, and nobody renews a lock nobody holds.
* `OpenCallHasKeeper`, `OneLogPerCall`, `EveryCallIsLogged`: a call never falls
  between two agents, is logged, and only once.
* `StableConnectionIsCounted`, `ReleasedLeaseStaysAway`: the lease is there while
  a connection lasts, and does not come back afterwards.
* `LimitHolds`: holders that did not outlive their slot or lease are within the
  limit, also while a live call has both.
* `WaitCountIsHonest`, `QueueOpens`: the counter is off by what the errors and the
  restart did to it and no more, and it never closes the queue for good.
* `RetiredIsEmpty`, `SnapshotIsOfThisLife`, `ClosedStaysClosed`: no late
  publication and no late judgement undoes a retirement.
* `SnapshotsSettle`: the cache comes to agree with the database and stays so,
  whatever was lost, skipped or overtaken.
* `TokenSurvives`: a rotated refresh token is in the row or about to be saved,
  unless it was lost in a way the comment names.
* `RefreshTokenIsUsedOnce`: while mutex and lock are not bypassed, the provider
  never sees a consumed refresh token.
* `QuarantineIsDeserved`: an account in error has a refresh token the provider
  refuses, but for the three windows the comment names.
* `FillIsNotOlder`: the version check keeps a request from caching a token older
  than the row's, unless an administrator replaced the credentials or an edit
  brought the version of another look.
* `CooledTokenIsRenewed`: no lock, cooldown or failure keeps the background from a
  due account that has cooled down before; requests that hold the lock whenever it
  looks may.  Of an account that never cooled down it is false (section 5).

## 5. Where the code disagrees with its comments

Three runs expect a violation; each checks what a comment of the code says.

1. `v_double_outcome` (`OneOutcome`): the settlement that has used up its
   retries releases the hold (`service/batch_image_settlement.go:222`) without
   asking whether a capture was committed.  A capture whose completion mark
   fails, followed by failures up to the limit, is charged *and* refunded; the
   refund comes out of the frozen pool of the user's other batches.
2. `v_refund_running` (`NoRefundWhileRunning`): a Cancel that read the row before
   the submission was recorded goes on to the transition `submitted` to
   `cancelled`, which is allowed, and refunds
   (`service/batch_image_public.go:753`); the provider's job is not cancelled and
   runs on.
3. `v_system_overlap` (`OneOperationAtATime`): a lock row that is taken over keeps
   the operation id of its creator, the renewal asks for its own
   (`service/system_operation_lock_service.go:178`) and ends at its first turn.
   After 30 s a second update or rollback starts next to the first.

Each passing run leaves out exactly the circumstance that breaks its properties:
1 needs as many failures after the capture as there are retries, 2 a cancel before
Submit returned; `CreatorIsAlone` speaks of the operation that created the lock,
and `EveryCallIsLogged` names the losses.

**Four more comments do not hold.**  The circumstance is in the passing run, and an
exception in its property names it.  Without the exception the run ends with a
counterexample of a few steps:

* *Healthy accounts are not refreshed in the background.*  The query of the
  background refresh filters with `NOT (temp_unschedulable_until > ... AND
  temp_unschedulable_reason LIKE ...)` (`repository/account_repo.go:1174`).  For an
  account that never cooled down, or whose cooldown was cleared, both columns are
  NULL, the condition is NULL, and the account is not listed.  The comment at
  `:1138` warns of this very mistake and asks for `IS NOT TRUE`.  Such an account is
  renewed by its own requests or by hand only.  (`CooledTokenIsRenewed` without
  `row.temp # "none"`, in `oauth_tokens`.)
* *A claim that took effect is left without an observer.*  The comment at
  `service/openai_live.go:624` says that an observer whose claim may have taken
  effect must not leave silently.  When the answer of the script is lost, the
  client library runs it again; it finds `observer`, written by its first run,
  answers 0 without an error (`repository/gateway_cache.go:201`), and the observer
  leaves at `:630`: no refresh of the lease, no usage log.  (`OpenCallHasKeeper`
  with `lost \subseteq {"rerun"}` for `lost = {}`, in `live_calls`.)
* *The recovery scan fails live submissions* in the default zone.  `updated_at` of a
  new row is UTC (`migrations/159_batch_image_foundation.sql:35`), the cutoff is
  local time and SQLite compares texts (`repository/batch_image_repo.go:744`), so
  ahead of UTC by more than the ten minutes of the cutoff every row is old when it
  is inserted: the scan may fail and refund a job whose Submit has just begun.  The
  comment at `service/batch_image_public.go:331` relies on the transition to
  `uploading` to prevent that, and it does from there on.
  (`RefreshedSubmissionIsSpared` without its last disjunct, in `job_safety`.)
* *An old account is cached.*  `service/token_cache_invalidator.go:71` says that a
  request with the account of before a refresh does not write it to the cache.  An
  edit whose form was opened before the refresh, or has no `_token_version`, takes
  the version away that would tell (`service/account_credentials_redact.go:38`), and
  the replaced token is cached.  (`FillIsNotOlder` without `"form"` in
  `Unversioned`, in `oauth_tokens`.)

**Known weaknesses** that have no run of their own.  They show when a constant of
a run is changed:

* A release that finds no hold commits its request id
  (`repository/usage_billing_repo.go:347`).  A Cancel, or ahead of UTC the recovery
  scan, between the insertion of the job and the reservation uses the id up, and the
  hold reserved afterwards is never released (`job_resolution` with
  `EarlyCancel = TRUE` or `ZoneAhead = TRUE`).
* A Submit that fails writes `failed` over a job that was cancelled meanwhile
  (`repository/batch_image_repo.go:252`): `TerminalStatusIsFinal` with
  `EarlyCancel = TRUE`.
* A scan that dies between failing a job and releasing its hold leaves the money
  frozen (`service/batch_image_billing_recovery.go:56`): `RefundHasOwner` with
  `MaxDeaths = 1`; an exception of `RefundIsPassedOn`.
* Of two workers in Process for one job, the one whose processor reads `settling`
  takes it for done and acknowledges the job
  (`service/batch_image_processor.go:269`), and the slower one may fail a settling
  job whose hold the other one captures: `KeepsPromise` and `BegunJobStaysQueued`
  need `MaxLate = 0`.  What it takes to break the exclusion is the content of
  `ExclusiveUnlessLapsed`; `CompletedIsPaid` survives it.
* An error at `MarkLiveCallClosed` ends the finalization without a usage log
  (`service/openai_live.go:808`), although the comment at `:642` says the log is
  not lost: `EveryCallIsLogged` counts it among the losses.
* A release that fails is handed to the queue with one Enqueue, whose error is only
  logged (`service/batch_image_public.go:502`): `RefundHasOwner` fails with
  `MaxFaults = 3`, when a step of the submission, the release and the Enqueue all
  fail; an exception of `RefundIsPassedOn`.
* With a user wait not shorter than the counter's TTL, `WaitCountIsHonest` fails.
* The cached entry of an account that became unschedulable may be older than the
  database and stay so; the comment at `repository/account_repo.go:1612` wants it
  current for sticky sessions, and the next refused request writes it again.
* A context that ends during the provider's call (the attempt's deadline, a client
  that left) discards credentials the provider has already issued
  (`service/oauth_refresh_api.go:259`); the row keeps the consumed ones.
* An edit of an account writes back the whole row it read, credentials included
  (`service/admin_account.go:552`, `:606`, `repository/account_repo.go:497`): a
  refresh in between is undone, and its successor is lost.
* The manual refresh takes neither mutex nor lock and does not raise
  `_token_version` (`handler/admin/account_handler.go:1298`), and a
  re-authorization drops the version: the version check cannot tell a stale
  account then, so `FillIsNotOlder` excepts it.
* The deletion of the refresh lock names no owner (`repository/gemini_token_cache.go:46`):
  one that comes late, or is run again after a lost answer, deletes the lock of the
  next holder (`"lock"` in `unguarded`).
* `SetError` has no condition on the credentials
  (`service/token_refresh_service.go:1015`); the snapshot that
  `service/oauth_refresh_api.go:283` keeps for this is used for Grok only.
  A re-authorization just before it is quarantined (`excused`).
* A re-authorization clears the error but not `schedulable`, which `SetError` has
  taken (`service/admin_account.go:1231`): the account is active, out of service,
  and passed over by the background refresh.
* The background passes over an account whose lock it finds taken, for the whole
  cycle: requests that fail to refresh it over and over may keep it due
  (`CooledTokenIsRenewed` has this in its conclusion).

Others are noted under hazards: a reservation that commits but is reported failed
is never released, a job whose Enqueue failed waits for the client, the embedded
Redis forgets the queue at a restart.  `HoldIsResolved` is therefore checked
without lost answers, and its premise `TakenOver` leaves the second case out.

## 6. Proofs

All theorems are checked by TLAPS for every value of the constants that
satisfies the named assumptions (`IdsAssumption`, `QueueAssumption`,
`CostsAssumption`, `LedgerAssumption`, `RetriesAssumption`,
`LifecycleAssumption`, `SystemOperationsAssumption`, `MaxStallAssumption`,
`NothingAssumption`, `LiveCallsAssumption`, `SlotsAssumption`,
`SnapshotsAssumption`, `OAuthAssumption`): any finite set of batches, any workers,
prices, holds, budgets, retry limits, keys, administrators, sidebands, requests,
limits, leases, TTLs, readers, buckets, generations and operations of the
administrator.

| Theorem | States |
|---|---|
| `QueueTypeCorrect` | `QueueSafetySpec => []QueueTypeOK` |
| `InflightAlwaysListed` | `QueueSafetySpec => []InflightIsListed` |
| `WorkersExcluded` | `QueueSafetySpec => []ExclusiveUnlessLapsed` |
| `LocksKept` | `QueueSafetySpec => LockLostOnlyToTimeout` |
| `ReservationActivates` | `QueueSafetySpec => OnlyReservationActivates` |
| `LedgerTypeCorrect` | `LedgerSpec => []LedgerTypeOK` (no overdraft included) |
| `PhantomReleaseImpossible` | `LedgerSpec => []NoPhantomRelease` |
| `MoneyIsConserved` | `LedgerSpec => MoneyConserved` |
| `PoolIsAccounted` | `LedgerSpec => []PoolAccounted` |
| `LifecycleTypeCorrect` | `SafetySpec => []TypeOK` |
| `CompletedJobsArePaid` | `SafetySpec => []CompletedIsPaid` |
| `LifecycleImplementsQueue` | `SafetySpec => QueueSafetySpec` |
| `LifecycleImplementsLedger` | `SafetySpec => LedgerSpec` |
| `LifecycleInherits` | the queue's and the ledger's theorems, for the whole subsystem |
| `StagesAreKept` | `SafetySpec => []StageInv` |
| `RefreshedSubmissionsAreSpared` | `SafetySpec => RefreshedSubmissionIsSpared` |
| `RunningJobsKeepTheirHold` | `~EarlyCancel => (SafetySpec => []NoRefundWhileRunning)` |
| `TerminalStatusIsKept` | `~EarlyCancel => (SafetySpec => TerminalStatusIsFinal)` |
| `BegunJobsStayQueued` | `SafetySpec => [](late <= 1 => BegunJobStaysQueued)` |
| `HoldsHaveOneOutcome` | `SafetySpec => [](Sound => OneOutcome)` |
| `PoolAlwaysCovers` | `SafetySpec => [](Sound => PoolCoversHolds)` |
| `PromiseIsKept` | `SafetySpec /\ []Sound => KeepsPromise` |
| `RefundsArePassedOn` | `SafetySpec /\ [](late <= 1) => RefundIsPassedOn` |
| `PromiseIsKeptWithinBounds` | `SafetySpec => KeepsPromise`, where `MaxLate <= 1` and `MaxFaults + MaxLost < MaxRetries` |
| `SystemOperationsProofs!TypesHold`, `KeyRunsOnce`, `FreshSuccessIsKept`, `ReplayStaysOwn`, `CreatorRunsAlone`, `OrphanLapses` | `TypeOK`, `OneRunPerKey`, `FreshSuccessIsNotRepeated`, `ReplayIsOwn`, `CreatorIsAlone`, `OrphanedLockLapses` of `SystemOperations` |
| `LiveCallsProofs!Typed`, `KeeperHolds`, `OneLogHolds`, `LeaseStaysAway`, `StableConnectionsCount` | `TypeOK`, `OpenCallHasKeeper`, `OneLogPerCall`, `ReleasedLeaseStaysAway`, `StableConnectionIsCounted` of `LiveCalls` |
| `GatewaySlotsProofs!Typed`, `LimitIsKept`, `WaitCountIsKept` | `TypeOK`, `LimitHolds`, `WaitCountIsHonest` of `GatewaySlots` |
| `SchedulerSnapshotsProofs!Typed`, `RetiredStaysEmpty`, `NothingOfEarlierLives`, `JudgementStays` | `TypeOK`, `RetiredIsEmpty`, `SnapshotIsOfThisLife`, `ClosedStaysClosed` of `SchedulerSnapshots` |
| `OAuthTokensProofs!TypesHold`, `TokenIsNeverDropped`, `NoTokenIsSpentTwice`, `CacheIsNotFilledWithOlder`, `AccountsAreNotLostUnheard` | `TypeOK`, `TokenSurvives`, `RefreshTokenIsUsedOnce`, `FillIsNotOlder`, `QuarantineIsDeserved` of `OAuthTokens` |

*Queue.*  `QueueInv` is the type invariant together with `InflightIsListed`.
The latter is inductive only with the link between worker and batch: a worker
in RunOnce has a batch, so the Ack and the requeue act on a real one.  That a
mover's push keeps every member is the lemma `PushAll` on `Orderings`.
`WorkersExcluded` has two reasons why workers exclude each other, and each fails
by a lapse of its own: a batch is in one of the three structures, once, and a worker
has its own, with a fresh score (`Once`, with the lemmas `PopOnce`, `PushAllOnce` and
`OrderingOnce` on lists); or the lock of a batch is that of the worker inside Process
(`Locked`).  `LapseInv` says that both hold before the first lapse and one of them
before the second.

*Ledger.*  `LedgerInv` adds to the type invariant that money moves only under a
claim (`ClaimedWhenMoved`); without it a second reserve could move money again
and the counting of `PoolAccounted` would not be inductive.  `PoolIsAccounted`
counts sets of batches: each granted operation adds one element to one of three
finite sets (`OneMore`, `PoolStep`).

*Lifecycle.*  Every step writes at most one of the stores queue, ledger, job
table (`EveryStepStores`); hence the two refinement theorems, and hence it
suffices to follow the rows through the few kinds of job writes.
`CompletedIsPaid` rests on `LifecycleInv`: a worker at `mark` has captured its
batch with the cost it carries, and claims and fingerprints of captures never
change, so a second worker cannot have captured another amount; a transition
never aims at `completed`; and a job is `settling` only after its items were
counted, so that what is captured is a price.

The other theorems about the lifecycle are layers over that one.  `EveryPath` (with
`Paths`, `RowPath` and `ControlPath`) says once for all actions what a step can do to
the row, the money, the provider's job and the control points of *one* batch; the
proofs after it follow the paths, not the actions.

* `StageInv` ties row, handlers and workers together: who refunds deals with a
  failed or cancelled job, and such a job stays one; a row with the name of a
  provider's job is past `uploading`; a worker past its poll has seen the name.
* `FreshRow`: a row grows old under a live Submit by a lapse of its heartbeat only,
  or was inserted old ahead of UTC and not written since.
* `EarlyInv`: a client that cancels after Submit has returned never meets it; then a
  row past `running` and a worker past its poll mean that the provider is done.
  From this follow `RunningJobsKeepTheirHold` and `TerminalStatusIsKept`; with an
  early cancel both are false (section 5), hence `~EarlyCancel`.
* `KeptInv`: workers return what they have taken, and acknowledge only a terminal
  job.  It needs one worker at a time inside Process (from `LapseInv` by
  `LifecycleImplementsQueue`), hence `late <= 1`.
* `OneInv`: a captured job is `settling` at the price that was captured, or
  completed; a settlement with a covered price is retried for failed calls only,
  because `PoolAccounted` has its hold in the pool.  So with fewer failures than
  retries the release of an exhausted settlement never meets a capture.  That is
  `Sound`, and `v_double_outcome` shows what happens without it.  `PoolAlwaysCovers`
  counts the unresolved holds on top of it.
* `PromiseIsKept` takes `OneInv` before and after a step and shows, path by path, that
  what the step does to `money` and `result` is a step of `HoldPromise` or a stutter;
  that it moves one batch only is `OneBatchMoves`.
* `RefundsArePassedOn` is about steps: for each edge of a handler and each write to a
  row it shows who has the refund afterwards (`EveryPass` with `PassPath`, next to
  `EveryPath`).  Two invariants carry it.  `MarkRow`: Submit, which alone writes its
  row and reserves its hold until it returns, marks a job failed without a release
  only if it knows of no reservation; it is wrong about that only when an answer was
  lost.  `OwedInv`: a worker is about to acknowledge a batch only when its job's
  refund has been carried out or its id is used up, or the job is not dead; this
  again needs one worker at a time inside Process, hence `[](late <= 1)`.  There is
  no premise about the zone, cancels, failed calls, deaths or lapses: what may go
  wrong with them is in the property.

The premises `late <= 1` and `Sound` are on the state, so that the theorems speak of
every behaviour up to the point where it leaves them, under any budgets.

*System operations.*  `IInv` is about the records.  A claimed key's row is the
claim's, and its lock and TTL run out no sooner than a full lease and TTL after the
claimant's time stamp (`Owned`).  A request takes a row over by its id, which is
that of the operation it read (`Knows`), and only if it read the row as lapsed; if
it read the row of a dead owner before the claim was made, it started at most
`MaxStall` after the claimant (`Overtaken`), so the new lock has not lapsed for it
either.  `NotRepeated` says what may follow a success that a request could have
seen.  `LInv` is about the lock.  The row keeps its id for as long as somebody runs
or releases, and its TTL outlives them (`Kept`); so a request that creates the row
meets nobody, and from then on its renewals keep the lease ahead of the failed ones
(`Renewed`).  After a take-over there is no such renewal: that is the finding of
section 5.  A renewal loop ends with its operation (`Loops`), hence
`OrphanedLockLapses`.

*Live calls.*  `Inv` is `TypeOK`, `Unstarted`, `Kept` and `LogInv`.  A sideband
starts its observer when it leaves, so the observer it would overwrite has never
run (`Unstarted`); without that, a hand-over could drop the call's only keeper.
`Kept` is `OpenCallHasKeeper` in terms of the agents' records; a claim that is run
again is one of the losses it excepts.  One log is written
because at most one agent is past the mark, and only after the record was closed
(`OneEnds`).  `Counted` is stronger than `StableConnectionIsCounted`: until its next
refresh is due, a connection that has refreshed the lease finds all of it, because time
does not pass while a refresh is due, and only the agent that closed the call gives
the lease back.

*Slots.*  `LimitHolds` counts handlers and the scripts count members.
`LimitInv` joins them: who is served and has not outlived its marks holds one
that is not lapsed (`ServedIsMarked`), and such marks are at most the limit
(`MarksFit`).  `WaitInv` needs `LapseIsLate`: when the counter's TTL runs out, who
is still counted is past its timeout; this is where `WaitTimeout < WaitTTL` is
used.

*Snapshots.*  `LifeInv` has `Fencing` (a retirement advances the epoch past every
token there is) and `Fresh` (who holds the epoch read after the retirement);
together they keep earlier lives out at the activation.  `ClosedInv` has
`Applying` (who applies a judgement holds the lease, and has retired what it has
left behind) and `Confirmed` (nobody is about to reopen what was confirmed).

*OAuth tokens.*  `Safe` proves `TokenSurvives` and `RefreshTokenIsUsedOnce`
together, because each needs the other: while nothing was bypassed, a refresh past
the lock is the one that set it (`Exclusive`), and no administrator has a token in
hand (`AdminIsOutside`); so when it reads the row nobody else is about to save a
successor, `TokenSurvives` says that the row's token is good, and so is the one it
presents (`CallIsGood`).  `Filled` proves `FillIsNotOlder`: in every copy of the
credentials a later version is a later generation (`VersionsFollow`, with the
`Bounded` on versions and generations), which a save keeps because at most one
successor is under way (`OneSuccessor`).  `Judged` proves `QuarantineIsDeserved`,
which has no premise about overlaps.  A successor in hand has never been in the row
and is in one hand (`Fresh`); so what the background refresh saw refused at its second
look (`Sentence`) stays refused, while the row has it nobody has a good token, and no
edit brings it back to the row over a good one (`Doomed`).  While the account is in
error, nobody has a good token in hand (`Condemned`), or a later save could only put
one next to the error.

*Only model-checked.*  The liveness properties (`InflightIsServed`, `HoldIsResolved`,
`EveryCallIsLogged`, `QueueOpens`, `SnapshotsSettle`, `CooledTokenIsRenewed`), which
need
fairness and ENABLED.

## 7. Not modelled

* Provider clients, downloads and pricing are HTTP and data.  The generated data
  access layer, migrations, frontend and deployment hold no logic of their own.
  Administration, settings, authentication and monitoring are single-row
  operations or reports.  The gateway's request rewriting is data transformation.
* Payment orders, redeem codes, subscriptions and affiliates have code but no
  registered routes; the auth cache invalidation worker and the usage cleanup are
  not started on SQLite.
* The embedded Redis: the modules have a Redis that outlives the process and whose
  keys expire.
* OAuth refresh of the other providers: Grok's writes are conditional, Antigravity
  and OpenAI add calls of their own; the cycle around a single account; a form that
  brings tokens of its own, which is a re-authorization with a version; and a zone
  behind UTC, where the texts of the query's comparison end a cooldown early.
* The ordinary usage billing claims its request id as `BalanceHold` does and adds
  independent amounts.  Its record pool, the billing cache with its breaker and
  the quota flusher are in one process; their hazards are listed below.

**Further hazards**, which no property covers or which are variants of those in
`PROJECT.json`:

* Batch images.  The count of a settlement failure and its event are two statements
  (`repository/batch_image_repo.go:339`); two workers in Process
  (`service/batch_image_processor.go:269`) and the release of a terminal job's hold
  on every delivery (`:69`); reserve, capture and release are conditional updates of
  two numbers (`repository/usage_billing_repo.go:293`); a price over the hold must
  not be retried for ever (`service/batch_image_settlement.go:143`): all in the runs.
  A job whose Enqueue failed waits for its client
  (`service/batch_image_public.go:392`), a client may repeat a request whose first
  submission is under way (`:216`), and a reservation that commits but is reported
  failed is never released (`:290`): in the runs.  With the embedded Redis a restart forgets
  every queued job, and no TTL runs, so a lock whose release failed blocks its batch
  (`repository/redis.go:89`): not modelled.
* Idempotency.  A record whose owner died answers "in progress" until it expires,
  not until its lock does (`service/idempotency.go:346`); the mark runs under the
  request's context (`:420`): both in the run.  A response over 64 KiB is cut off
  and cannot be replayed (`:452`): responses have no length in the model.
* Live calls (`service/openai_live.go`).  A claim that is lost with its error (`:623`), a
  failed poll taken for a take-over (`:754`), a dial that hangs (`:660`), a failed
  mark (`:808`), a failed save (`:234`), a restart (`:239`): in the run, as losses
  where the code has no answer.  Two observers next to each other (`:760`), and
  short connections that starve the lease's refresh (`:706`), happen in the run and
  break no property.
* Slots.  A request that outlives its slot is served uncounted
  (`repository/concurrency_cache.go:63`), a counter whose decrement failed
  (`service/concurrency_service.go:521`), a lease whose answer is lost
  (`service/openai_live.go:190`), an index entry removed under a new slot
  (`repository/concurrency_cache.go:472`): in the run.  The counter's TTL comes from
  another setting than the wait (`repository/wire.go:19`, an assumption); the work
  after a client left (`handler/gateway_helper.go:168`) and a slow provider before a
  live call's first refresh (`service/openai_live.go:198`) are not counted, by the
  code's design; the startup cleanup removes the slots of a second process
  (`repository/concurrency_cache.go:1247`), and the model has one.
* Snapshots.  Version, accounts and activation are three calls
  (`repository/scheduler_cache.go:428`), an older read may get the later version
  (`:477`), a lock is deleted by another holder (`:668`), the dedup keys are
  released before the watermark moves
  (`service/scheduler_snapshot_service.go:408`), the startup cleanup deletes events
  (`:371`), an event is replaced statement by statement
  (`repository/scheduler_outbox_repo.go:257`): in the run.  The stale entry of an
  unschedulable account (`repository/scheduler_cache.go:598`) is a known weakness;
  with a rebuild interval of 0 (`service/scheduler_snapshot_service.go:392`)
  nothing makes up for lost events.
* Billing, not modelled.  A late success closes an open breaker
  (`service/billing_cache_service.go:1036`); a balance read before an invalidation
  is cached after it (`:311`); the quota flusher forgets keys before it has written
  them, and overwrites an administrator's reset
  (`service/user_platform_quota_flusher.go:121`); a full queue drops or samples
  usage records (`service/usage_record_worker_pool.go:155`).

## 8. Plan

Done, in this order: queue, ledger, job table, lifecycle with its abstract
promise and proofs; system operations with their proofs; live calls, slots, snapshots and OAuth
tokens with their proofs.  Left, in the order of what they would show:

1. The embedded Redis in the queue and the lifecycle.
2. Grok's conditional writes in `OAuthTokens`, and the cycle with its breaker.
3. Usage records: the bounded pool with its overflow policy, and the quota flusher
   against an administrator's reset; the billing cache's breaker.

## 9. Running

    tlc -config queue.cfg BatchImageQueueMC.tla
    tlc -config job_two.cfg BatchImageLifecycleMC.tla
    tlc -config system_operations.cfg SystemOperationsMC.tla
    tlc -config live_calls.cfg LiveCalls.tla
    tlc -config gateway_slots.cfg GatewaySlots.tla
    tlc -config scheduler_snapshots.cfg SchedulerSnapshots.tla
    tlc -config oauth_tokens.cfg OAuthTokens.tla
    tlapm OAuthTokensProofs.tla

`job_*`, `v_double_outcome` and `v_refund_running` belong to
`BatchImageLifecycleMC`, `v_system_overlap` to `SystemOperationsMC`.  `system_operations` is the largest run (1.6
million distinct states), then `job_two` (1.0 million) and `oauth_tokens` (0.8
million); the others have less than half a million.  The proofs take longer: those of the lifecycle, the OAuth tokens and
the system operations some minutes each.
