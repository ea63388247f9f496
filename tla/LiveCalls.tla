------------------------------ MODULE LiveCalls ------------------------------
(***************************************************************************)
(* One live (realtime) call, from its creation to its usage log:           *)
(* service/openai_live.go with the record of the call and the control of   *)
(* it in Redis (repository/gateway_cache.go) and the call's concurrency    *)
(* lease (repository/concurrency_cache.go).                                *)
(*                                                                         *)
(* Media goes between the client and the provider; the server only keeps a *)
(* control connection.  That is the work of an observer goroutine, or of a *)
(* client's sideband request which takes the control over and, when it     *)
(* leaves, hands it to an observer it starts.  Whoever ends the call marks *)
(* the record closed, gives the lease back and writes the usage log.       *)
(*                                                                         *)
(* Time passes in intervals between refreshes (20 s).  Calls do not meet:  *)
(* the module has one.                                                     *)
(***************************************************************************)
EXTENDS Integers

CONSTANTS
    Sidebands,    \* sideband requests for the call; each tries once
    Creator,      \* the request that creates the call
    NoOwner,
    LeaseTTL,     \* liveLeaseTTLSeconds, in refresh intervals
    MaxSession,   \* liveMaxSessionDuration, in refresh intervals
    RetryLimit,   \* liveObserverStoreRetryLimit
    MaxFaults,    \* errors of the store that the code answers with another step
    Losses,       \* what else may go wrong; one of them happens, once
    MaxTroubles   \* errors and the loss together

ASSUME LiveCallsAssumption ==
    /\ {LeaseTTL, MaxSession, RetryLimit} \subseteq Nat \ {0}
    /\ MaxFaults \in Nat /\ MaxTroubles \in Nat
    /\ Losses \subseteq {"claim", "rerun", "unclaim", "mark", "hang", "crash"}
    /\ Creator \notin Sidebands /\ NoOwner \notin Sidebands

\* Everyone who starts an observer, which carries its starter's name.
Spawners == Sidebands \cup {Creator}

VARIABLES
    create,  \* where the creating request is
    ctl,     \* the record's controller; "none" when there is no record
    owner,   \* the record's controller_owner, kept for sidebands only
    lease,   \* what is left of the lease; 0 when it is gone
    left,    \* intervals until the record's ExpiresAt
    obs,     \* obs[w]: the observer goroutine started by w
    side,    \* side[s]: the sideband request s
    logs,    \* usage logs written for the call
    faults, lost

record == <<ctl, owner>>
agents == <<obs, side>>
vars == <<create, ctl, owner, lease, left, obs, side, logs, faults, lost>>

Ending == {"mark", "release", "log"}

\* streak counts failed reads; a connection's refresh is due, or was made once.
ObserverStates ==
    [at : {"idle", "claim", "read", "dial", "conn", "wait", "await"} \cup Ending,
     streak : 0..RetryLimit - 1, due : BOOLEAN, kept : BOOLEAN]

SidebandStates ==
    [at : {"idle", "claim", "dial", "conn", "back", "gone"} \cup Ending,
     then : {"observe", "mark", "check"}, due : BOOLEAN, kept : BOOLEAN]

ObserverAt(place) == [at |-> place, streak |-> 0, due |-> FALSE, kept |-> FALSE]
SidebandAt(place) == [at |-> place, then |-> "observe", due |-> FALSE, kept |-> FALSE]

TypeOK ==
    /\ create \in {"start", "create", "save", "done", "failed"}
    /\ ctl \in {"none", "pending", "observer", "proxy", "closed"}
    /\ owner \in Sidebands \cup {NoOwner}
    /\ lease \in 0..LeaseTTL
    /\ left \in 0..MaxSession
    /\ obs \in [Spawners -> ObserverStates]
    /\ side \in [Sidebands -> SidebandStates]
    /\ logs \in Nat
    /\ faults \in 0..MaxFaults
    /\ lost \subseteq Losses

Init ==
    /\ create = "start"
    /\ ctl = "none" /\ owner = NoOwner
    /\ lease = 0 /\ left = 0
    /\ obs = [w \in Spawners |-> ObserverAt("idle")]
    /\ side = [s \in Sidebands |-> SidebandAt("idle")]
    /\ logs = 0 /\ faults = 0 /\ lost = {}

Observer(w, place) == obs' = [obs EXCEPT ![w] = ObserverAt(place)]
Sideband(s, place) == side' = [side EXCEPT ![s] = SidebandAt(place)]

MayTrouble == faults + (IF lost = {} THEN 0 ELSE 1) < MaxTroubles

\* An error the code is prepared for, and one that it is not.
Fault ==
    /\ faults < MaxFaults /\ MayTrouble
    /\ faults' = faults + 1
    /\ UNCHANGED lost

Loss(kind) ==
    /\ kind \in Losses /\ lost = {} /\ MayTrouble
    /\ lost' = {kind}
    /\ UNCHANGED faults

NoFault == UNCHANGED <<faults, lost>>

-----------------------------------------------------------------------------
(* The record and the lease: the scripts of the two caches.                *)

Open == ctl \in {"pending", "observer", "proxy"}

\* claimLiveControllerScript.  The owner ids are fresh.  A sideband whose claim is
\* sent again by the client library is recognized; an observer's own claim is in
\* its way (ObserverClaimIsRerun).
MayClaim(target) ==
    IF target = "observer" THEN ctl = "pending" ELSE ctl \in {"pending", "observer"}

SetController(target, who) == ctl' = target /\ owner' = who

\* Mutant: a call is closed as often as somebody ends it.
MarkClosedAgain == ctl # "none" /\ SetController("closed", NoOwner)

\* markLiveCallClosedScript, when it answers 1.
MarkClosed == Open /\ SetController("closed", NoOwner)

\* releaseLiveControllerScript
GiveBack(s) ==
    IF ctl = "proxy" /\ owner = s THEN SetController("pending", NoOwner)
                                  ELSE UNCHANGED record

\* Mutant: the refresh is the upsert that acquires a lease.
UpsertLease == lease' = LeaseTTL

\* refreshLiveLeaseScript, when it answers 1: a lease that is gone stays away.
RefreshLease == lease > 0 /\ lease' = LeaseTTL

-----------------------------------------------------------------------------
(* CreateLiveCall.  Its retries with other accounts begin anew.            *)

AcquireLease ==
    /\ create = "start"
    /\ \/ create' = "create" /\ lease' = LeaseTTL
       \/ create' = "failed" /\ UNCHANGED lease
    /\ UNCHANGED <<record, left, agents, logs>> /\ NoFault

CreateUpstream ==
    /\ create = "create"
    /\ \/ create' = "save" /\ UNCHANGED lease
       \/ create' = "failed" /\ lease' = 0
    /\ UNCHANGED <<record, left, agents, logs>> /\ NoFault

\* SaveLiveCall, and the observer is started.
Save ==
    /\ create = "save"
    /\ create' = "done"
    /\ SetController("pending", NoOwner)
    /\ left' = MaxSession
    /\ Observer(Creator, "claim")
    /\ UNCHANGED <<lease, side, logs>> /\ NoFault

\* The record may have been written all the same.
SaveFails ==
    /\ create = "save" /\ Fault
    /\ create' = "failed"
    /\ SetController("pending", NoOwner) \/ UNCHANGED record
    /\ lease' = 0
    /\ UNCHANGED <<left, agents, logs>>

-----------------------------------------------------------------------------
(* observeLiveCall                                                         *)

ObserverOnly == UNCHANGED <<create, lease, left, side, logs>>

ObserverClaims(w) ==
    /\ obs[w].at = "claim"
    /\ IF MayClaim("observer")
       THEN Observer(w, "read") /\ SetController("observer", NoOwner)
       ELSE Observer(w, "idle") /\ UNCHANGED record
    /\ ObserverOnly /\ NoFault

\* Mutant: the error ends the observer.
ObserverLeavesOnClaimError(w) ==
    /\ obs[w].at = "claim" /\ Fault
    /\ Observer(w, "idle")
    /\ \/ MayClaim("observer") /\ SetController("observer", NoOwner)
       \/ UNCHANGED record
    /\ ObserverOnly

\* It cannot know whether it has the control, so it waits for the session's end
\* (finalizeLiveCallAfterExpiry).
ObserverClaimFails(w) ==
    /\ obs[w].at = "claim" /\ Fault
    /\ Observer(w, "await")
    /\ \/ MayClaim("observer") /\ SetController("observer", NoOwner)
       \/ UNCHANGED record
    /\ ObserverOnly

\* The claim is made, its answer is lost, and the client library runs the script
\* again: that finds an observer in control and answers 0 without an error.
ObserverClaimIsRerun(w) ==
    /\ obs[w].at = "claim" /\ MayClaim("observer") /\ Loss("rerun")
    /\ Observer(w, "idle") /\ SetController("observer", NoOwner)
    /\ ObserverOnly

\* The head of the loop.
ObserverReads(w) ==
    /\ obs[w].at = "read"
    /\ Observer(w, IF ctl # "observer" THEN "idle" ELSE IF left = 0 THEN "mark" ELSE "dial")
    /\ ObserverOnly /\ UNCHANGED record /\ NoFault

ObserverReadFails(w) ==
    /\ obs[w].at = "read" /\ Fault
    /\ IF obs[w].streak + 1 >= RetryLimit THEN Observer(w, "await")
       ELSE obs' = [obs EXCEPT ![w].streak = @ + 1]
    /\ ObserverOnly /\ UNCHANGED record

ObserverDials(w) ==
    /\ obs[w].at = "dial"
    /\ Observer(w, "conn") \/ Observer(w, "wait")
    /\ ObserverOnly /\ UNCHANGED record /\ NoFault

\* runLiveObserverConnection: the poll of the controller, the refresh, the
\* session's end, and the connection's.
ObserverPolls(w) ==
    /\ obs[w].at = "conn" /\ ctl # "observer"
    /\ Observer(w, "idle")
    /\ ObserverOnly /\ UNCHANGED record /\ NoFault

ObserverPollFails(w) ==
    /\ obs[w].at = "conn" /\ Fault
    /\ Observer(w, "wait")
    /\ ObserverOnly /\ UNCHANGED record

ObserverRefreshes(w) ==
    /\ obs[w].at = "conn" /\ obs[w].due
    /\ \/ /\ RefreshLease
          /\ obs' = [obs EXCEPT ![w] = [ObserverAt("conn") EXCEPT !.kept = TRUE]]
       \/ lease = 0 /\ Observer(w, "mark") /\ UNCHANGED lease
    /\ UNCHANGED <<create, record, left, side, logs>> /\ NoFault

\* Mutant: an error of the store is left to the next refresh.
ObserverSkipsRefresh(w) ==
    /\ obs[w].at = "conn" /\ obs[w].due /\ Fault
    /\ obs' = [obs EXCEPT ![w].due = FALSE]
    /\ ObserverOnly /\ UNCHANGED record

\* An error of the store ends the session like a lease that is gone.
ObserverRefreshFails(w) ==
    /\ obs[w].at = "conn" /\ obs[w].due /\ Fault
    /\ Observer(w, "mark")
    /\ ObserverOnly /\ UNCHANGED record

ObserverExpires(w) ==
    /\ obs[w].at = "conn" /\ left = 0
    /\ Observer(w, "mark")
    /\ ObserverOnly /\ UNCHANGED record /\ NoFault

ObserverDisconnects(w) ==
    /\ obs[w].at = "conn"
    /\ Observer(w, "mark") \/ Observer(w, "wait")
    /\ ObserverOnly /\ UNCHANGED record /\ NoFault

\* waitForLiveObserverRetry
ObserverRetries(w) ==
    /\ obs[w].at = "wait"
    /\ Observer(w, IF ctl = "observer" THEN "read" ELSE "idle")
    /\ ObserverOnly /\ UNCHANGED record /\ NoFault

ObserverRetryFails(w) ==
    /\ obs[w].at = "wait" /\ Fault
    /\ Observer(w, "read")
    /\ ObserverOnly /\ UNCHANGED record

ObserverAwaits(w) ==
    /\ obs[w].at = "await" /\ left = 0
    /\ Observer(w, "mark")
    /\ ObserverOnly /\ UNCHANGED record /\ NoFault

-----------------------------------------------------------------------------
(* LiveSideband and ProxyLiveSideband                                      *)

SidebandOnly == UNCHANGED <<create, lease, left, obs, logs>>

\* GetLiveCallForIdentity; the client knows the call from its creation.
Join(s) ==
    /\ side[s].at = "idle" /\ create = "done" /\ Open
    /\ Sideband(s, "claim")
    /\ SidebandOnly /\ UNCHANGED record /\ NoFault

SidebandClaims(s) ==
    /\ side[s].at = "claim"
    /\ IF MayClaim("proxy") THEN Sideband(s, "dial") /\ SetController("proxy", s)
                            ELSE Sideband(s, "gone") /\ UNCHANGED record
    /\ SidebandOnly /\ NoFault

\* The claim is made, and the answer is lost.
SidebandClaimIsLost(s) ==
    /\ side[s].at = "claim" /\ MayClaim("proxy") /\ Loss("claim")
    /\ Sideband(s, "gone") /\ SetController("proxy", s)
    /\ SidebandOnly

Leave(s, then) ==
    side' = [side EXCEPT ![s] = [SidebandAt("back") EXCEPT !.then = then]]

SidebandDials(s) ==
    /\ side[s].at = "dial"
    /\ Sideband(s, "conn") \/ Leave(s, "observe")
    /\ SidebandOnly /\ UNCHANGED record /\ NoFault

\* runLiveController
SidebandRefreshes(s) ==
    /\ side[s].at = "conn" /\ side[s].due
    /\ \/ /\ RefreshLease
          /\ side' = [side EXCEPT ![s] = [SidebandAt("conn") EXCEPT !.kept = TRUE]]
       \/ lease = 0 /\ Leave(s, "mark") /\ UNCHANGED lease
    /\ UNCHANGED <<create, record, left, obs, logs>> /\ NoFault

SidebandRefreshFails(s) ==
    /\ side[s].at = "conn" /\ side[s].due /\ Fault
    /\ Leave(s, "mark")
    /\ SidebandOnly /\ UNCHANGED record

SidebandExpires(s) ==
    /\ side[s].at = "conn" /\ left = 0
    /\ Leave(s, "mark")
    /\ SidebandOnly /\ UNCHANGED record /\ NoFault

\* The session's end ("mark"), or the client's or the provider's connection.
SidebandDisconnects(s) ==
    /\ side[s].at = "conn"
    /\ Leave(s, "mark") \/ Leave(s, "check")
    /\ SidebandOnly /\ UNCHANGED record /\ NoFault

HandOver(s) ==
    IF side[s].then = "mark" \/ (side[s].then = "check" /\ left = 0)
    THEN Sideband(s, "mark") /\ UNCHANGED obs
    ELSE Sideband(s, "gone") /\ Observer(s, "claim")

SidebandGivesBack(s) ==
    /\ side[s].at = "back"
    /\ GiveBack(s)
    /\ HandOver(s)
    /\ UNCHANGED <<create, lease, left, logs>> /\ NoFault

\* The error is not looked at.
SidebandGiveBackFails(s) ==
    /\ side[s].at = "back" /\ Loss("unclaim")
    /\ HandOver(s)
    /\ UNCHANGED <<create, record, lease, left, logs>>

-----------------------------------------------------------------------------
(* finalizeLiveCall, for both kinds.  At(a) is the agent's place, Go(a, p) *)
(* its move.                                                               *)

Agents == ({"obs"} \X Spawners) \cup ({"side"} \X Sidebands)

Agent(a) == IF a[1] = "obs" THEN obs[a[2]] ELSE side[a[2]]
At(a) == Agent(a).at

Go(a, place) ==
    IF a[1] = "obs" THEN Observer(a[2], place) /\ UNCHANGED side
                    ELSE Sideband(a[2], place) /\ UNCHANGED obs

Rest(a) == IF a[1] = "obs" THEN "idle" ELSE "gone"

Mark(a) ==
    /\ At(a) = "mark"
    /\ \/ MarkClosed /\ Go(a, "release")
       \/ ~Open /\ Go(a, Rest(a)) /\ UNCHANGED record
    /\ UNCHANGED <<create, lease, left, logs>> /\ NoFault

\* The answer is lost, or the statement: nobody tries again.
MarkIsLost(a) ==
    /\ At(a) = "mark" /\ Loss("mark")
    /\ Go(a, Rest(a))
    /\ MarkClosed \/ UNCHANGED record
    /\ UNCHANGED <<create, lease, left, logs>>

ReleaseLease(a) ==
    /\ At(a) = "release"
    /\ lease' = 0
    /\ Go(a, "log")
    /\ UNCHANGED <<create, record, left, logs>> /\ NoFault

\* Mutant: the error ends the finalization.
ReleaseLeaseFailsForGood(a) ==
    /\ At(a) = "release" /\ Fault
    /\ Go(a, Rest(a))
    /\ UNCHANGED <<create, record, lease, left, logs>>

\* The error is not looked at: the lease lapses.
ReleaseLeaseFails(a) ==
    /\ At(a) = "release" /\ Fault
    /\ Go(a, "log")
    /\ UNCHANGED <<create, record, lease, left, logs>>

WriteLog(a) ==
    /\ At(a) = "log"
    /\ logs' = logs + 1
    /\ Go(a, Rest(a))
    /\ UNCHANGED <<create, record, lease, left>> /\ NoFault

-----------------------------------------------------------------------------
(* Time, the record's TTL and the end of the process.                      *)

Elapsed(t) == IF t > 0 THEN t - 1 ELSE 0

\* A connection's ticker and timer are on time.
MayWait(a) == At(a) = "conn" => ~Agent(a).due /\ left > 0

Tick ==
    /\ left > 0 \/ lease > 0
    /\ \A a \in Agents : MayWait(a)
    /\ lease' = Elapsed(lease)
    /\ left' = Elapsed(left)
    /\ obs' = [w \in Spawners |-> [obs[w] EXCEPT !.due = obs[w].at = "conn"]]
    /\ side' = [s \in Sidebands |-> [side[s] EXCEPT !.due = side[s].at = "conn"]]
    /\ UNCHANGED <<create, record, logs>> /\ NoFault

Resting(a) == At(a) \in {"idle", "gone"}

\* The TTL of an open record ends five minutes after the session, that of a
\* closed one after a day.  All statements have ended by then; a dial, which
\* has no deadline, may not have.
RecordExpires ==
    /\ create \in {"done", "failed"}
    /\ ctl # "none" /\ left = 0
    /\ \/ (\A a \in Agents : Resting(a)) /\ NoFault
       \/ /\ \E a \in Agents : At(a) = "dial"
          /\ \A a \in Agents : Resting(a) \/ At(a) = "dial"
          /\ Loss("hang")
    /\ SetController("none", NoOwner)
    /\ UNCHANGED <<create, lease, left, agents, logs>>

Crash ==
    /\ Loss("crash")
    /\ create' = IF create = "done" THEN "done" ELSE "failed"
    /\ obs' = [w \in Spawners |-> ObserverAt("idle")]
    /\ side' = [s \in Sidebands |->
                   SidebandAt(IF side[s].at = "idle" THEN "idle" ELSE "gone")]
    /\ UNCHANGED <<record, lease, left, logs>>

ObserverStep(w) ==
    \/ ObserverClaims(w) \/ ObserverReads(w) \/ ObserverDials(w)
    \/ ObserverPolls(w) \/ ObserverRefreshes(w) \/ ObserverExpires(w)
    \/ ObserverRetries(w) \/ ObserverAwaits(w)

ObserverTrouble(w) ==
    \/ ObserverClaimFails(w) \/ ObserverClaimIsRerun(w) \/ ObserverReadFails(w)
    \/ ObserverPollFails(w) \/ ObserverRefreshFails(w) \/ ObserverRetryFails(w)
    \/ ObserverDisconnects(w)

SidebandStep(s) ==
    \/ SidebandClaims(s) \/ SidebandDials(s) \/ SidebandRefreshes(s)
    \/ SidebandExpires(s) \/ SidebandGivesBack(s)

SidebandTrouble(s) ==
    \/ SidebandClaimIsLost(s) \/ SidebandRefreshFails(s)
    \/ SidebandDisconnects(s) \/ SidebandGiveBackFails(s)

Finalize(a) == Mark(a) \/ ReleaseLease(a) \/ WriteLog(a)

CreateStep == AcquireLease \/ CreateUpstream \/ Save \/ SaveFails

Next ==
    \/ CreateStep
    \/ \E w \in Spawners : ObserverStep(w) \/ ObserverTrouble(w)
    \/ \E s \in Sidebands : Join(s) \/ SidebandStep(s) \/ SidebandTrouble(s)
    \/ \E a \in Agents : Finalize(a) \/ MarkIsLost(a) \/ ReleaseLeaseFails(a)
    \/ Tick \/ RecordExpires \/ Crash

\* Goroutines are scheduled, statements and dials end, timers fire.
Fairness ==
    /\ WF_vars(Tick)
    /\ \A w \in Spawners : WF_vars(ObserverStep(w))
    /\ \A s \in Sidebands : WF_vars(SidebandStep(s))
    /\ \A a \in Agents : WF_vars(Finalize(a))

Spec == Init /\ [][Next]_vars
FairSpec == Spec /\ Fairness

-----------------------------------------------------------------------------
(* Properties.                                                             *)

\* Someone ends the call whatever the record says by then: finalizeLiveCall is
\* on its way or waits for the session's end.
HasFinalizer == \E a \in Agents : At(a) \in {"await", "mark"}

HasController ==
    \/ ctl = "pending" /\ \E w \in Spawners : obs[w].at = "claim"
    \/ ctl = "observer" /\ \E w \in Spawners : obs[w].at \in {"read", "dial", "conn", "wait"}
    \/ ctl = "proxy" /\ owner \in Sidebands /\ side[owner].at \in {"dial", "conn", "back"}

\* A call that was answered to the client and is not closed never falls between
\* two agents: through every take-over and hand-back, with errors of the store
\* at the claim, the read, the poll, the retry and the refresh, the record names
\* an agent that is there, or someone is about to end the call.  Not so after one
\* of Losses: a claim, a hand-back or the closing mark whose answer was lost, a dial
\* that outlives the record, the end of the process, or an observer's claim that took
\* effect and is run again by the client library, which the comment of observeLiveCall
\* takes for covered (service/openai_live.go:624-631).
OpenCallHasKeeper ==
    create = "done" /\ Open /\ lost = {} => HasController \/ HasFinalizer

\* However many agents end a call at the same time, one of them writes the log.
OneLogPerCall == logs <= 1

\* A lease that lapsed or was given back is not there again: an agent that comes
\* late with its refresh cannot occupy a slot nobody will free.
ReleasedLeaseStaysAway == [][create # "start" /\ lease = 0 => lease' = 0]_vars

\* A connection that has refreshed the lease once keeps it for as long as it
\* lasts, until the call is closed: at most one interval is lost of it.
StableConnectionIsCounted ==
    \A a \in Agents :
        At(a) = "conn" /\ Agent(a).kept /\ Open => lease >= LeaseTTL - 1

\* The usage log of a call that was answered to the client is written in the
\* end, unless one of Losses happened.
EveryCallIsLogged == create = "done" ~> (logs > 0 \/ lost # {})
=============================================================================
