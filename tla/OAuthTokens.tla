---------------------------- MODULE OAuthTokens ----------------------------
(***************************************************************************)
(* The OAuth credentials of one Anthropic account: the background refresh  *)
(* (service/token_refresh_service.go), requests that refresh on demand     *)
(* (service/claude_token_provider.go), both through RefreshIfNeeded        *)
(* (service/oauth_refresh_api.go), and the administrator's manual refresh, *)
(* re-authorization and edits (handler/admin/account_handler.go).          *)
(*                                                                         *)
(* The provider rotates: a refresh consumes the refresh token and issues a *)
(* new pair of tokens.  A generation stands for such a pair; live holds    *)
(* the generations whose refresh token the provider still accepts.  The    *)
(* credentials are the tokens (gen), their _token_version (ver) and        *)
(* expires_at, which stands as the generation it is the date of (exp, 0    *)
(* without one): an edit may part it from the tokens.  The account's row,  *)
(* the cache of access tokens and the lock are shared; every statement on  *)
(* them is a step.  RefreshIfNeeded also takes a mutex of its process; the *)
(* requests in Elsewhere are served by a second one.                       *)
(***************************************************************************)
EXTENDS Naturals, FiniteSets

CONSTANTS
    Requests,     \* requests that use the account
    Elsewhere,    \* those of them that another process serves
    Background,   \* the worker of the background refresh
    None,
    Orphan,       \* stands for a holder of the lock that will not release it
    AdminKinds,   \* what the administrator does: "refresh", "apply", "update"
    MaxRetries,   \* attempts of the background refresh
    MaxGen,       \* generations the provider issues
    MaxFaults,    \* failed statements and calls, cancellations and crashes
    MaxAdmin,     \* operations of the administrator
    MaxTroubles   \* faults and operations of the administrator together

ASSUME OAuthAssumption ==
    /\ IsFiniteSet(Requests) /\ Elsewhere \subseteq Requests
    /\ Background \notin Requests
    /\ {None, Orphan} \cap (Requests \cup {Background}) = {} /\ None # Orphan
    /\ AdminKinds \subseteq {"refresh", "apply", "update"}
    /\ {MaxRetries, MaxGen} \subseteq Nat \ {0}
    /\ {MaxFaults, MaxAdmin, MaxTroubles} \subseteq Nat

Refreshers == Requests \cup {Background}
Gens == 1..MaxGen
Places == {"here", "there"}
Place(h) == IF h \in Elsewhere THEN "there" ELSE "here"

VARIABLES
    row,       \* the account: credentials (gen, ver, exp), status, schedulable, temp
    live,      \* the generations whose refresh token is good
    issued,    \* the last generation issued
    due,       \* the generations up to this one are due for a refresh
    cache,     \* the cached access token, 0 if there is none
    lock,      \* who set the refresh lock
    mutex,     \* mutex[p]: who holds the mutex of process p
    agent,     \* agent[h]: where refresher h is and what it carries
    admin,     \* the administrator's operation
    saves,     \* counts saves; _token_version is the time of one
    faults, ops,
    lost,      \* a good refresh token was lost so far
    unguarded, \* so far no "lock" kept refreshes apart, the "admin" went past it, or an
               \* edit brought the version of its "form"
    excused    \* a quarantine rested on a look at the row that missed its successor

provider == <<live, issued, due>>
locks == <<lock, mutex>>
budget == <<faults, ops>>
history == <<lost, unguarded, excused>>
vars == <<row, live, issued, due, cache, lock, mutex, agent, admin, saves,
          faults, ops, lost, unguarded, excused>>

\* The cooldown: both columns NULL ("none"), set by a 401 or by attempts that
\* failed, past for Go but not for SQLite ("overdue"), or past for both.
Cooldowns == {"none", "auth401", "exhausted", "overdue", "lapsed"}
Cooling == row.temp \in {"auth401", "exhausted"}
Credentials == [gen : Gens, ver : Nat, exp : 0..MaxGen, cooling : BOOLEAN]
Row == [gen : Gens, ver : Nat, exp : 0..MaxGen, status : {"active", "error"},
        schedulable : BOOLEAN, temp : Cooldowns]
Read(h) == [gen |-> row.gen, ver |-> row.ver, exp |-> row.exp,
            cooling |-> h = Background /\ Cooling]

Locations == {"idle", "mutex", "lease", "reread", "call", "save", "recover", "release",
              "clear", "invalidate", "quarantine", "cool",
              "cache", "wait", "check", "fill", "use", "reject", "bench"}
Outcomes == {"none", "refreshed", "same", "held", "gone", "denied", "failed", "cancelled"}
Agent == [pc : Locations,
          acct : Credentials,    \* the account a request came with
          work : Credentials,    \* the account RefreshIfNeeded read
          new : 0..MaxGen,       \* what the provider answered
          locked : BOOLEAN, tries : 0..MaxRetries, out : Outcomes,
          token : 0..MaxGen,     \* the access token a request sends
          seen : 0..MaxGen,      \* the row's generation when it was last checked
          excuse : BOOLEAN]  \* its look at the row may have missed a successor
Blank == [gen |-> 1, ver |-> 0, exp |-> 0, cooling |-> FALSE]
Resting == [pc |-> "idle", acct |-> Blank, work |-> Blank, new |-> 0, locked |-> FALSE,
            tries |-> 0, out |-> "none", token |-> 0, seen |-> 0, excuse |-> FALSE]
NoOp == [pc |-> "idle", kind |-> "none", new |-> 0, gen |-> 1, ver |-> 0, exp |-> 0,
         status |-> "active", schedulable |-> TRUE]

Init ==
    /\ row = [gen |-> 1, ver |-> 0, exp |-> 1, status |-> "active", schedulable |-> TRUE, temp |-> "none"]
    /\ live = {1} /\ issued = 1
    /\ due = 0
    /\ cache = 0
    /\ lock = None /\ mutex = [p \in Places |-> None]
    /\ agent = [h \in Refreshers |-> Resting]
    /\ admin = NoOp
    /\ saves = 0 /\ faults = 0 /\ ops = 0
    /\ lost = FALSE /\ unguarded = {} /\ excused = FALSE

At(h, pc) == agent[h].pc = pc
Goto(h, pc) == agent' = [agent EXCEPT ![h].pc = pc]
Rest(h) == agent' = [agent EXCEPT ![h] = Resting]
MayTrouble == faults + ops < MaxTroubles
Fault == faults < MaxFaults /\ MayTrouble /\ faults' = faults + 1 /\ UNCHANGED ops

(* Somebody other than h has a good token in hand that is not in the row,   *)
(* or is about to exchange one.                                             *)
InHand(h) ==
    \/ \E k \in Refreshers \ {h} :
          \/ At(k, "save") /\ agent[k].new \in live
          \/ At(k, "call") /\ agent[k].work.gen \in live
    \/ admin.new \in live
    \/ admin.pc = "call" /\ admin.gen \in live

-----------------------------------------------------------------------------
(* RefreshIfNeeded *)

(* The provider exchanges the refresh token of generation g for a new pair. *)
Rotate(g) ==
    /\ issued < MaxGen
    /\ issued' = issued + 1
    /\ live' = (live \ {g}) \cup {issued + 1}
    /\ UNCHANGED due

(* The background refreshes a due token, a request only when little of its  *)
(* life is left: a due token may or may not be as old as that.  Credentials *)
(* without expires_at are never refreshed.                                  *)
NeedsRefresh(exp) == exp # 0 /\ exp <= due
NeedsNoRefresh(h, exp) == ~NeedsRefresh(exp) \/ h # Background

Finish(h, out) ==
    agent' = [agent EXCEPT ![h].pc = "release", ![h].out = out, ![h].new = 0, ![h].work = Blank]

LockMutex(h) ==
    /\ At(h, "mutex") /\ mutex[Place(h)] = None
    /\ mutex' = [mutex EXCEPT ![Place(h)] = h]
    /\ Goto(h, "lease")
    /\ UNCHANGED <<row, provider, cache, lock, admin, saves, budget, history>>

\* mutant: a lock that is taken is treated as a store that does not answer
AcquireOrGoOn(h) ==
    /\ At(h, "lease")
    /\ lock' = h
    /\ agent' = [agent EXCEPT ![h].pc = "reread", ![h].locked = TRUE]
    /\ UNCHANGED <<row, provider, cache, mutex, admin, saves, budget, history>>

\* A key that is set while its setter does not know, or gone, holds nobody.
LeftBehind == IF lock = None THEN Orphan ELSE lock

(* SET NX.  Of a store that does not answer, the client library asks again: *)
(* it then finds the key of its own first attempt, and takes it for         *)
(* another's.  When it gives up, the refresh goes on without the lock.      *)
AcquireRefreshLock(h) ==
    /\ At(h, "lease")
    /\ \/ /\ lock = None
          /\ lock' = h
          /\ agent' = [agent EXCEPT ![h].pc = "reread", ![h].locked = TRUE]
          /\ UNCHANGED <<budget, unguarded>>
       \/ /\ lock # None
          /\ Finish(h, "held")
          /\ UNCHANGED <<lock, budget, unguarded>>
       \/ /\ Fault /\ lock = None /\ lock' = Orphan
          /\ Finish(h, "held")
          /\ UNCHANGED unguarded
       \/ /\ Fault /\ lock' \in {lock, LeftBehind}
          /\ Goto(h, "reread")
          /\ unguarded' = unguarded \cup {"lock"}
    /\ UNCHANGED <<row, provider, cache, mutex, admin, saves, lost, excused>>

(* The row is read again.  An account that is out of service or needs no    *)
(* refresh is handed out as it was read; without an answer there is none.   *)
Reread(h) ==
    /\ At(h, "reread")
    /\ \/ /\ row.status = "active" /\ NeedsRefresh(row.exp)
          /\ agent' = [agent EXCEPT ![h].pc = "call", ![h].work = Read(h)]
          /\ UNCHANGED budget
       \/ /\ row.status # "active" \/ NeedsNoRefresh(h, row.exp)
          /\ agent' = [agent EXCEPT ![h].pc = "release", ![h].out = "same", ![h].work = Read(h)]
          /\ UNCHANGED budget
       \/ Fault /\ Finish(h, "gone")
    /\ UNCHANGED <<row, provider, cache, locks, admin, saves, history>>

(* The call to the provider.  It may fail before the provider acted (the   *)
(* provider is down), or its answer may be lost after the provider rotated. *)
Refresh(h) ==
    LET g == agent[h].work.gen IN
    /\ At(h, "call")
    /\ \/ /\ g \in live /\ Rotate(g)
          /\ agent' = [agent EXCEPT ![h].pc = "save", ![h].new = issued + 1]
          /\ UNCHANGED <<budget, lost>>
       \/ /\ g \notin live
          /\ Goto(h, "recover")
          /\ UNCHANGED <<provider, budget, lost>>
       \/ Finish(h, "failed") /\ UNCHANGED <<provider, budget, lost>>
       \/ /\ g \in live /\ Rotate(g) /\ Fault /\ Finish(h, "failed")
          /\ lost' = TRUE
    /\ UNCHANGED <<row, cache, locks, admin, saves, unguarded, excused>>

\* mutant: the old credentials win the merge with the new ones
SaveMergedWrongly(h) ==
    /\ At(h, "save")
    /\ row' = [row EXCEPT !.ver = saves + 1]
    /\ saves' = saves + 1
    /\ agent' = [agent EXCEPT ![h].pc = "release", ![h].out = "refreshed", ![h].new = 0,
                  ![h].work.ver = saves + 1]
    /\ UNCHANGED <<provider, cache, locks, admin, budget, history>>

(* The row gets the new credentials unless the context ended meanwhile (the *)
(* attempt's deadline, a client that left) or the statement fails.          *)
SaveCredentials(h) ==
    LET new == agent[h].new IN
    /\ At(h, "save")
    /\ \/ /\ row' = [row EXCEPT !.gen = new, !.ver = saves + 1, !.exp = new]
          /\ saves' = saves + 1
          /\ agent' = [agent EXCEPT ![h].pc = "release", ![h].out = "refreshed", ![h].new = 0,
                         ![h].work = [@ EXCEPT !.gen = new, !.ver = saves + 1, !.exp = new]]
          /\ lost' = (lost \/ (row.gen \in live /\ new \notin live))
          /\ UNCHANGED budget
       \/ /\ Fault /\ Finish(h, "cancelled")
          /\ lost' = TRUE
          /\ UNCHANGED <<row, saves>>
       \/ /\ Fault /\ Finish(h, "failed")
          /\ lost' = TRUE
          /\ UNCHANGED <<row, saves>>
    /\ UNCHANGED <<provider, cache, locks, admin, unguarded, excused>>

\* mutant: a refused refresh token is taken at its word
RefusedAtOnce(h) ==
    /\ At(h, "recover")
    /\ agent' = [agent EXCEPT ![h].pc = "release", ![h].out = "denied", ![h].seen = row.gen,
                  ![h].excuse = InHand(h)]
    /\ UNCHANGED <<row, provider, cache, locks, admin, saves, budget, history>>

(* invalid_grant: the account is read again, and if its refresh token is    *)
(* another one by now, somebody else has refreshed it.                      *)
TryRecoverFromRefreshRace(h) ==
    /\ At(h, "recover")
    /\ \/ /\ row.gen # agent[h].work.gen
          /\ agent' = [agent EXCEPT ![h].pc = "release", ![h].out = "same", ![h].work = Read(h)]
          /\ UNCHANGED budget
       \/ /\ row.gen = agent[h].work.gen
          /\ agent' = [agent EXCEPT ![h].pc = "release", ![h].out = "denied",
                         ![h].seen = row.gen,
                         ![h].excuse = InHand(h)]
          /\ UNCHANGED budget
       \/ /\ Fault
          /\ agent' = [agent EXCEPT ![h].pc = "release", ![h].out = "denied",
                         ![h].seen = row.gen, ![h].excuse = TRUE]
    /\ UNCHANGED <<row, provider, cache, locks, admin, saves, history>>

(* Where a refresher goes with the outcome of RefreshIfNeeded.              *)
AfterBackground(a) ==
    CASE a.out = "refreshed" -> [a EXCEPT !.pc = "clear", !.out = "none", !.locked = FALSE]
      [] a.out \in {"same", "held", "gone"} -> Resting
      [] a.out = "denied" -> [a EXCEPT !.pc = "quarantine", !.out = "none", !.locked = FALSE]
      [] OTHER -> IF a.tries < MaxRetries
                  THEN [Resting EXCEPT !.pc = "mutex", !.tries = a.tries + 1]
                  ELSE [Resting EXCEPT !.pc = "cool"]

AfterRequest(a) ==
    CASE a.out \in {"refreshed", "same"} -> [Resting EXCEPT !.pc = "check", !.acct = a.work]
      [] a.out = "held" -> [Resting EXCEPT !.pc = "wait", !.acct = a.acct]
      [] a.out \in {"gone", "denied", "failed"} -> [Resting EXCEPT !.pc = "check", !.acct = a.acct]
      [] OTHER -> Resting

After(h) == IF h = Background THEN AfterBackground(agent[h]) ELSE AfterRequest(agent[h])

\* Whose lock a deletion takes.
Deletes(h) ==
    /\ lock' = None
    /\ unguarded' = IF lock \in {None, Orphan, h} THEN unguarded ELSE unguarded \cup {"lock"}

(* The lock's key is deleted without asking who set it, then the mutex is   *)
(* given back.  A deletion that fails leaves the key to its TTL; one whose  *)
(* answer was lost is sent again by the client library, and may then take   *)
(* the lock of the next holder.                                             *)
ReleaseRefreshLock(h) ==
    /\ At(h, "release")
    /\ \/ /\ \/ agent[h].locked /\ Deletes(h) /\ UNCHANGED budget
             \/ ~agent[h].locked /\ UNCHANGED <<lock, unguarded, budget>>
             \/ /\ agent[h].locked /\ Fault /\ UNCHANGED unguarded
                /\ lock' = IF lock = h THEN Orphan ELSE lock
          /\ mutex' = [mutex EXCEPT ![Place(h)] = None]
          /\ agent' = [agent EXCEPT ![h] = After(h)]
       \/ /\ agent[h].locked /\ Fault /\ Deletes(h)
          /\ UNCHANGED <<mutex, agent>>
    /\ UNCHANGED <<row, provider, cache, admin, saves, lost, excused>>

-----------------------------------------------------------------------------
(* The background refresh *)

(* The query leaves out the accounts that cool down after failed attempts,  *)
(* with NOT (until > now AND reason LIKE ...): of an account whose columns  *)
(* are NULL that is NULL, so it leaves out these as well.                   *)
ListCandidate(h) ==
    /\ h = Background /\ At(h, "idle")
    /\ row.status = "active" /\ row.schedulable /\ row.temp \in {"auth401", "lapsed"}
    /\ NeedsRefresh(row.exp)
    /\ agent' = [agent EXCEPT ![h].pc = "mutex", ![h].tries = 1]
    /\ UNCHANGED <<row, provider, cache, locks, admin, saves, budget, history>>

(* postRefreshActions: first the cooldown the account was read with ...     *)
ClearCooldown(h) ==
    /\ At(h, "clear")
    /\ \/ /\ row' = IF agent[h].work.cooling THEN [row EXCEPT !.temp = "none"] ELSE row
          /\ UNCHANGED budget
       \/ agent[h].work.cooling /\ Fault /\ UNCHANGED row
    /\ agent' = [agent EXCEPT ![h] = [Resting EXCEPT !.pc = "invalidate"]]
    /\ UNCHANGED <<provider, cache, locks, admin, saves, history>>

(* ... then the cached token.                                               *)
InvalidateToken(h) ==
    /\ At(h, "invalidate")
    /\ \/ cache' = 0 /\ UNCHANGED budget
       \/ Fault /\ UNCHANGED cache
    /\ Rest(h)
    /\ UNCHANGED <<row, provider, locks, admin, saves, history>>

(* A refused refresh token: the account is taken out of service.            *)
Quarantine(h) ==
    /\ At(h, "quarantine")
    /\ \/ /\ row' = [row EXCEPT !.status = "error", !.schedulable = FALSE]
          /\ excused' = (excused \/ agent[h].excuse \/ row.gen # agent[h].seen)
          /\ UNCHANGED budget
       \/ Fault /\ UNCHANGED <<row, excused>>
    /\ agent' = [agent EXCEPT ![h] = [Resting EXCEPT !.pc = "invalidate"]]
    /\ UNCHANGED <<provider, cache, locks, admin, saves, lost, unguarded>>

(* SetTempUnschedulable: a cooldown that lasts longer stays as it is.       *)
SetCooldown(reason) ==
    \/ row' = [row EXCEPT !.temp = reason]
    \/ Cooling /\ UNCHANGED row

(* All attempts failed: a cooldown, after which the account is due again.   *)
CoolDown(h) ==
    /\ At(h, "cool")
    /\ \/ SetCooldown("exhausted") /\ UNCHANGED budget
       \/ Fault /\ UNCHANGED row
    /\ Rest(h)
    /\ UNCHANGED <<provider, cache, locks, admin, saves, history>>

-----------------------------------------------------------------------------
(* Requests *)

Begin(r) ==
    /\ r \in Requests /\ At(r, "idle")
    /\ row.status = "active" /\ row.schedulable /\ ~Cooling
    /\ agent' = [agent EXCEPT ![r].pc = "cache", ![r].acct = Read(r)]
    /\ UNCHANGED <<row, provider, cache, locks, admin, saves, budget, history>>

Send(r, g) == agent' = [agent EXCEPT ![r] = [Resting EXCEPT !.pc = "use", !.token = g]]

(* A cache that does not answer is a cache without the token.               *)
Missed == (cache = 0 /\ UNCHANGED budget) \/ Fault

GetCachedToken(r) ==
    /\ At(r, "cache")
    /\ \/ cache # 0 /\ Send(r, cache) /\ UNCHANGED budget
       \/ /\ Missed
          /\ \/ agent[r].acct.exp <= due /\ Goto(r, "mutex")   \* or there is no date
             \/ agent[r].acct.exp # 0 /\ Goto(r, "check")
    /\ UNCHANGED <<row, provider, cache, locks, admin, saves, history>>

(* Another process refreshes: the cache is read once more.                  *)
WaitForCache(r) ==
    /\ At(r, "wait")
    /\ \/ cache # 0 /\ Send(r, cache) /\ UNCHANGED budget
       \/ Missed /\ Goto(r, "check")
    /\ UNCHANGED <<row, provider, cache, locks, admin, saves, history>>

\* mutant: an account without a version is never stale
StaleIfVersioned(current, latest) == current # 0 /\ latest > current

(* A version of 0 is no version.                                            *)
IsStale(current, latest) ==
    \/ current = 0 /\ latest > 0
    \/ current # 0 /\ latest > current

CheckTokenVersion(r) ==
    /\ At(r, "check")
    /\ \/ /\ IsStale(agent[r].acct.ver, row.ver)
          /\ Send(r, row.gen)
          /\ UNCHANGED budget
       \/ /\ ~IsStale(agent[r].acct.ver, row.ver)
          /\ agent' = [agent EXCEPT ![r].pc = "fill", ![r].seen = row.gen, ![r].acct.ver = 0]
          /\ UNCHANGED budget
       \/ Fault /\ Goto(r, "fill")
    /\ UNCHANGED <<row, provider, cache, locks, admin, saves, history>>

SetAccessToken(r) ==
    /\ At(r, "fill")
    /\ \/ cache' = agent[r].acct.gen /\ UNCHANGED budget
       \/ Fault /\ UNCHANGED cache
    /\ Send(r, agent[r].acct.gen)
    /\ UNCHANGED <<row, provider, locks, admin, saves, history>>

(* The upstream may refuse a token that is old or was replaced.             *)
Use(r) ==
    /\ At(r, "use")
    /\ \/ Rest(r)
       \/ /\ agent[r].token <= due \/ agent[r].token # issued
          /\ agent' = [agent EXCEPT ![r] = [Resting EXCEPT !.pc = "reject"]]
    /\ UNCHANGED <<row, provider, cache, locks, admin, saves, budget, history>>

(* HandleUpstreamError for a 401: the cached token goes, and the account    *)
(* cools down; its credentials are left alone.                              *)
Reject(r) ==
    /\ At(r, "reject")
    /\ \/ cache' = 0 /\ UNCHANGED budget
       \/ Fault /\ UNCHANGED cache
    /\ Goto(r, "bench")
    /\ UNCHANGED <<row, provider, locks, admin, saves, history>>

Bench(r) ==
    /\ At(r, "bench")
    /\ \/ SetCooldown("auth401") /\ UNCHANGED budget
       \/ Fault /\ UNCHANGED row
    /\ Rest(r)
    /\ UNCHANGED <<provider, cache, locks, admin, saves, history>>

-----------------------------------------------------------------------------
(* The administrator *)

AdminAt(kind, pc) == admin.kind = kind /\ admin.pc = pc
AdminEnds == admin' = NoOp
Begins(kind) == kind \in AdminKinds /\ admin = NoOp /\ ops < MaxAdmin /\ MayTrouble
                /\ ops' = ops + 1 /\ UNCHANGED faults

(* A manual refresh reads the account and calls the provider; it takes      *)
(* neither the mutex nor the lock.                                          *)
ReadForRefresh ==
    /\ Begins("refresh")
    /\ admin' = [NoOp EXCEPT !.kind = "refresh", !.pc = "call", !.gen = row.gen, !.ver = row.ver]
    /\ unguarded' = unguarded \cup {"admin"}
    /\ UNCHANGED <<row, provider, cache, locks, agent, saves, lost, excused>>

RefreshManually ==
    /\ AdminAt("refresh", "call")
    /\ \/ /\ admin.gen \in live /\ Rotate(admin.gen)
          /\ admin' = [admin EXCEPT !.pc = "load", !.new = issued + 1]
       \/ admin.gen \notin live /\ AdminEnds /\ UNCHANGED provider
    /\ UNCHANGED <<row, cache, locks, agent, saves, budget, history>>

(* A re-authorization brings a new grant; the provider may or may not       *)
(* revoke the old one.  The new credentials carry no version.               *)
Authorize ==
    /\ Begins("apply") /\ issued < MaxGen
    /\ issued' = issued + 1 /\ UNCHANGED due
    /\ \E kept \in {live, {}} : live' = kept \cup {issued + 1}
    /\ admin' = [NoOp EXCEPT !.kind = "apply", !.pc = "load", !.new = issued + 1]
    /\ unguarded' = unguarded \cup {"admin"}
    /\ UNCHANGED <<row, cache, locks, agent, saves, lost, excused>>

(* UpdateAccount reads the whole account.  An edit keeps the tokens it read *)
(* but takes everything else of the credentials from its form, if that      *)
(* brings any: the version and expires_at of an earlier look, or none ...   *)
LoadAccount ==
    /\ \/ admin.pc = "load" /\ UNCHANGED <<budget, unguarded>>
          /\ admin' = [admin EXCEPT !.pc = "write", !.status = row.status,
                         !.schedulable = row.schedulable]
       \/ \E ver \in 0..saves, exp \in 0..issued :
             /\ Begins("update")
             /\ admin' = [NoOp EXCEPT !.kind = "update", !.pc = "write", !.gen = row.gen,
                            !.ver = ver, !.exp = exp, !.status = row.status,
                            !.schedulable = row.schedulable]
             /\ unguarded' = IF ver = row.ver THEN unguarded ELSE unguarded \cup {"form"}
    /\ UNCHANGED <<row, provider, cache, locks, agent, saves, lost, excused>>

(* ... and writes all of it, with the new credentials if it was given any.  *)
WriteAccount ==
    LET g == IF admin.new = 0 THEN admin.gen ELSE admin.new
        e == IF admin.new = 0 THEN admin.exp ELSE admin.new
    IN
    /\ admin.pc = "write"
    /\ \/ /\ row' = [row EXCEPT !.gen = g, !.ver = admin.ver, !.exp = e, !.status = admin.status,
                       !.schedulable = admin.schedulable /\ admin.status = "active"]
          /\ lost' = (lost \/ (row.gen \in live /\ g \notin live))
          /\ admin' = CASE admin.kind = "refresh" -> [NoOp EXCEPT !.kind = "refresh", !.pc = "invalidate"]
                        [] admin.kind = "apply" -> [NoOp EXCEPT !.kind = "apply", !.pc = "clear"]
                        [] OTHER -> NoOp
          /\ UNCHANGED budget
       \/ /\ Fault /\ AdminEnds /\ UNCHANGED row
          /\ lost' = (lost \/ admin.new # 0)
    /\ UNCHANGED <<provider, cache, locks, agent, saves, unguarded, excused>>

(* ClearAccountError: the status and the cooldown, but not schedulable.     *)
ClearAccountError ==
    /\ AdminAt("apply", "clear")
    /\ \/ /\ row' = [row EXCEPT !.status = "active", !.temp = "none"]
          /\ UNCHANGED <<budget, excused>>
       \/ Fault /\ UNCHANGED row /\ excused' = TRUE
    /\ admin' = [admin EXCEPT !.pc = "invalidate"]
    /\ UNCHANGED <<provider, cache, locks, agent, saves, lost, unguarded>>

InvalidateAfterAdmin ==
    /\ admin.pc = "invalidate"
    /\ \/ cache' = 0 /\ UNCHANGED budget
       \/ Fault /\ UNCHANGED cache
    /\ AdminEnds
    /\ UNCHANGED <<row, provider, locks, agent, saves, history>>

-----------------------------------------------------------------------------
(* Time and failures *)

(* A token never outlives the one it replaces.  The last generation never   *)
(* gets due: that is where MaxGen ends the run.                             *)
Age ==
    /\ due < issued /\ due < MaxGen - 1
    /\ due' = due + 1
    /\ UNCHANGED <<row, live, issued, cache, locks, agent, admin, saves, budget, history>>

ExpireCache ==
    /\ cache # 0 /\ cache' = 0
    /\ UNCHANGED <<row, provider, locks, agent, admin, saves, budget, history>>

(* The columns keep the past time.  SQLite compares it as local text with   *)
(* UTC, so with a zone ahead of UTC the query believes in it for longer.    *)
ExpireCooldown ==
    /\ \/ Cooling /\ \E t \in {"overdue", "lapsed"} :
             row' = [row EXCEPT !.temp = IF row.temp = "auth401" THEN "lapsed" ELSE t]
       \/ row.temp = "overdue" /\ row' = [row EXCEPT !.temp = "lapsed"]
    /\ UNCHANGED <<provider, cache, locks, agent, admin, saves, budget, history>>

\* mutant: SET NX without a TTL
NeverExpire == FALSE /\ UNCHANGED vars

(* An attempt of the background refresh ends before its lock lapses.        *)
ExpireLock ==
    /\ lock \notin {None, Background}
    /\ lock' = None
    /\ unguarded' = IF lock = Orphan THEN unguarded ELSE unguarded \cup {"lock"}
    /\ UNCHANGED <<row, provider, cache, mutex, agent, admin, saves, budget, lost, excused>>

(* A process ends.  Its refreshers and its mutex go, the lock stays.        *)
Crash(p) ==
    LET gone == {h \in Refreshers : Place(h) = p}
        inHand == \/ \E h \in gone : At(h, "save") /\ agent[h].new \in live
                  \/ p = "here" /\ admin.new \in live
    IN
    /\ Fault
    /\ agent' = [h \in Refreshers |-> IF h \in gone THEN Resting ELSE agent[h]]
    /\ mutex' = [mutex EXCEPT ![p] = None]
    /\ lock' = IF lock \in gone THEN Orphan ELSE lock
    /\ admin' = IF p = "here" THEN NoOp ELSE admin
    /\ lost' = (lost \/ inHand)
    /\ excused' = (excused \/ (p = "here" /\ AdminAt("apply", "clear")))
    /\ UNCHANGED <<row, provider, cache, saves, unguarded>>

-----------------------------------------------------------------------------
RefreshSteps(h) ==
    \/ LockMutex(h) \/ AcquireRefreshLock(h) \/ Reread(h) \/ Refresh(h)
    \/ SaveCredentials(h) \/ TryRecoverFromRefreshRace(h) \/ ReleaseRefreshLock(h)

BackgroundSteps(h) ==
    \/ ListCandidate(h) \/ ClearCooldown(h) \/ InvalidateToken(h)
    \/ Quarantine(h) \/ CoolDown(h)

RequestSteps(r) ==
    \/ GetCachedToken(r) \/ WaitForCache(r) \/ CheckTokenVersion(r)
    \/ SetAccessToken(r) \/ Use(r) \/ Reject(r) \/ Bench(r)

AdminSteps ==
    \/ ReadForRefresh \/ RefreshManually \/ Authorize \/ LoadAccount \/ WriteAccount
    \/ ClearAccountError \/ InvalidateAfterAdmin

Next ==
    \/ \E h \in Refreshers : RefreshSteps(h)
    \/ BackgroundSteps(Background)
    \/ \E r \in Requests : Begin(r) \/ RequestSteps(r)
    \/ AdminSteps
    \/ Age \/ ExpireCache \/ ExpireCooldown \/ ExpireLock
    \/ \E p \in Places : Crash(p)

Fairness ==
    /\ WF_vars(RefreshSteps(Background) \/ BackgroundSteps(Background))
    /\ SF_vars(Refresh(Background) /\ agent'[Background].pc \in {"save", "recover"})
    /\ \A r \in Requests : WF_vars(RefreshSteps(r) \/ RequestSteps(r))
    /\ WF_vars(ExpireCooldown)
    /\ WF_vars(lock = Orphan /\ ExpireLock)

SafetySpec == Init /\ [][Next]_vars
Spec == SafetySpec /\ Fairness

-----------------------------------------------------------------------------
(* Every variable keeps its type: the locations, outcomes, generations and
   reasons named above.                                                     *)
TypeOK ==
    /\ row \in Row
    /\ issued \in Gens /\ live \subseteq 1..issued
    /\ due \in 0..issued
    /\ cache \in 0..MaxGen
    /\ lock \in Refreshers \cup {None, Orphan}
    /\ mutex \in [Places -> Refreshers \cup {None}]
    /\ agent \in [Refreshers -> Agent]
    /\ admin \in [pc : {"idle", "call", "load", "write", "clear", "invalidate"},
                  kind : AdminKinds \cup {"none"}, new : 0..MaxGen, gen : Gens, ver : Nat,
                  exp : 0..MaxGen,
                  status : {"active", "error"}, schedulable : BOOLEAN]
    /\ saves \in Nat /\ faults \in 0..MaxFaults /\ ops \in 0..MaxAdmin
    /\ lost \in BOOLEAN /\ excused \in BOOLEAN
    /\ unguarded \subseteq {"lock", "admin", "form"}

(* The account can be refreshed: its refresh token is good, or somebody is
   about to save its successor, unless one was lost in one of the ways the
   code cannot help or does not prevent: the context ended or the answer was
   lost after the provider rotated, the row could not be written, the process
   died, a re-authorization revoked the grant of a refresh under way, or an
   edit wrote back what it had read (service/oauth_refresh_api.go:256-360,
   service/admin_account.go:551).                                           *)
TokenSurvives ==
    \/ lost
    \/ row.gen \in live
    \/ \E h \in Refreshers : At(h, "save") /\ agent[h].new \in live
    \/ admin.new \in live

\* Refreshes could overlap; a copy of the credentials could have a wrong version.
Overlapping == unguarded \cap {"lock", "admin"} # {}
Unversioned == unguarded \cap {"admin", "form"} # {}

(* No refresh presents a consumed refresh token, unless one was lost or
   refreshes overlapped: the lock could not be taken, lapsed under a request or
   was deleted by the one before, or an administrator went past it.  Reading the
   row again under mutex and lock is what makes it so
   (service/oauth_refresh_api.go:193-254).                                  *)
RefreshTokenIsUsedOnce ==
    [][\A h \in Refreshers :
          At(h, "call") /\ agent'[h].pc = "recover" => lost \/ Overlapping]_vars

(* An account is in error only when its refresh token is really refused,
   unless the second look at the row failed, fell between another refresh's
   rotation and its save, or was overtaken by a save before SetError; or the
   last step of a re-authorization did not happen
   (service/oauth_refresh_api.go:267, service/token_refresh_service.go:1015). *)
QuarantineIsDeserved ==
    row.status = "error" =>
        \/ row.gen \notin live
        \/ excused
        \/ AdminAt("apply", "clear")

(* A request does not fill the cache with an access token older than the one
   the row had when the request checked its version, as the comment of
   CheckTokenVersion has it, unless an administrator replaced the credentials,
   which moves no version forward, or an edit came with the version of another
   look or none, which the comment does not think of
   (service/token_cache_invalidator.go:71-78, service/claude_token_provider.go:128,
   service/account_credentials_redact.go:38).                               *)
FillIsNotOlder ==
    Unversioned \/ \A r \in Requests : At(r, "fill") => agent[r].acct.gen >= agent[r].seen

(* While an account that has cooled down before is in service, a token that is
   due is renewed in the end, or the account goes out of service: no lock of a
   dead process, cooldown or failed attempt stops it for good.  The background
   refresh passes by an account whose lock is taken, so it may be due for as
   long as requests keep refreshing it in vain
   (service/token_refresh_service.go:230-259, :842-1140).  An account that has
   not cooled down is not listed at all, which is what the comment of the query
   warns of (repository/account_repo.go:1138-1141, :1174).                  *)
CooledTokenIsRenewed ==
    <>[](/\ row.status = "active" /\ row.schedulable /\ row.temp # "none"
         /\ NeedsRefresh(row.exp) /\ issued < MaxGen)
        => []<>(lock \in Requests)
=============================================================================
