--------------------------- MODULE LiveCallsProofs ---------------------------
(***************************************************************************)
(* For every set of sideband requests, every bound and every choice of     *)
(* losses: the types, OpenCallHasKeeper, OneLogPerCall,                    *)
(* StableConnectionIsCounted and ReleasedLeaseStaysAway.                   *)
(*                                                                         *)
(* A sideband starts its observer when it leaves, so the observer it will  *)
(* overwrite has never run (Unstarted); with that OpenCallHasKeeper is     *)
(* inductive.  One log is written because the record is closed once and an *)
(* agent that closed it is the only one past the mark (OneEnds).  Nobody   *)
(* but that agent gives the lease back, and time does not pass while a     *)
(* refresh is due: so the lease of a connection that refreshed it is full  *)
(* until the next tick and one short until the next refresh (Counted).     *)
(***************************************************************************)
EXTENDS LiveCalls, TLAPS

\* What finalizeLiveCall is to an observer and to a sideband.
LEMMA AgentKinds ==
    /\ \A w \in Spawners : /\ <<"obs", w>> \in Agents
                           /\ At(<<"obs", w>>) = obs[w].at
                           /\ Rest(<<"obs", w>>) = "idle"
    /\ \A s \in Sidebands : /\ <<"side", s>> \in Agents
                            /\ At(<<"side", s>>) = side[s].at
                            /\ Rest(<<"side", s>>) = "gone"
    /\ \A a \in Agents : \/ \E w \in Spawners : a = <<"obs", w>>
                         \/ \E s \in Sidebands : a = <<"side", s>>
<1>1. \A w : <<"obs", w>>[1] = "obs" /\ <<"obs", w>>[2] = w
  OBVIOUS
<1>2. \A s : <<"side", s>>[1] = "side" /\ <<"side", s>>[2] = s
  OBVIOUS
<1>3. "obs" # "side"
  OBVIOUS
<1> QED BY <1>1, <1>2, <1>3 DEF Agents, At, Agent, Rest

\* Where an agent goes is one update of its record.
LEMMA AgentMoves ==
    ASSUME NEW place
    PROVE  /\ \A w \in Spawners : Go(<<"obs", w>>, place) =>
                 Observer(w, place) /\ UNCHANGED side
           /\ \A s \in Sidebands : Go(<<"side", s>>, place) =>
                 Sideband(s, place) /\ UNCHANGED obs
<1>1. \A w : <<"obs", w>>[1] = "obs" /\ <<"obs", w>>[2] = w
  OBVIOUS
<1>2. \A s : <<"side", s>>[1] = "side" /\ <<"side", s>>[2] = s
  OBVIOUS
<1>3. "obs" # "side"
  OBVIOUS
<1> QED BY <1>1, <1>2, <1>3 DEF Go

LEMMA KeeperKinds ==
    HasFinalizer <=> \/ \E w \in Spawners : obs[w].at \in {"await", "mark"}
                     \/ \E s \in Sidebands : side[s].at \in {"await", "mark"}
<1>1. ASSUME HasFinalizer
      PROVE  \/ \E w \in Spawners : obs[w].at \in {"await", "mark"}
             \/ \E s \in Sidebands : side[s].at \in {"await", "mark"}
  <2>1. PICK a \in Agents : At(a) \in {"await", "mark"}
    BY <1>1 DEF HasFinalizer
  <2> QED BY <2>1, AgentKinds
<1>2. ASSUME NEW w \in Spawners, obs[w].at \in {"await", "mark"} PROVE HasFinalizer
  BY <1>2, AgentKinds DEF HasFinalizer
<1>3. ASSUME NEW s \in Sidebands, side[s].at \in {"await", "mark"} PROVE HasFinalizer
  BY <1>3, AgentKinds DEF HasFinalizer
<1> QED BY <1>1, <1>2, <1>3

-----------------------------------------------------------------------------
(* Types.                                                                  *)

\* What the three updates of an agent's record give.
LEMMA PlacesTyped ==
    /\ \A place \in {"idle", "claim", "read", "dial", "conn", "wait", "await"} \cup Ending :
          ObserverAt(place) \in ObserverStates
    /\ \A place \in {"idle", "claim", "dial", "conn", "back", "gone"} \cup Ending :
          SidebandAt(place) \in SidebandStates
    /\ \A then \in {"observe", "mark", "check"} :
          [SidebandAt("back") EXCEPT !.then = then] \in SidebandStates
    /\ [ObserverAt("conn") EXCEPT !.kept = TRUE] \in ObserverStates
    /\ [SidebandAt("conn") EXCEPT !.kept = TRUE] \in SidebandStates
<1>0. 0 \in 0..RetryLimit - 1
  BY LiveCallsAssumption
<1>1. \A place \in {"idle", "claim", "read", "dial", "conn", "wait", "await"} \cup Ending :
         ObserverAt(place) \in ObserverStates
  BY <1>0 DEF ObserverAt, ObserverStates
<1>2. \A place \in {"idle", "claim", "dial", "conn", "back", "gone"} \cup Ending :
         SidebandAt(place) \in SidebandStates
  BY DEF SidebandAt, SidebandStates
<1>3. \A then \in {"observe", "mark", "check"} :
         [SidebandAt("back") EXCEPT !.then = then] \in SidebandStates
  BY DEF SidebandAt, SidebandStates
<1>4. [ObserverAt("conn") EXCEPT !.kept = TRUE] \in ObserverStates
  BY <1>0 DEF ObserverAt, ObserverStates
<1>5. [SidebandAt("conn") EXCEPT !.kept = TRUE] \in SidebandStates
  BY DEF SidebandAt, SidebandStates
<1> QED BY <1>1, <1>2, <1>3, <1>4, <1>5

LEMMA Bounds == 0 \in 0..LeaseTTL /\ LeaseTTL \in 0..LeaseTTL /\ MaxFaults \in Nat
BY LiveCallsAssumption

\* The steps of observer w.
LEMMA ObserverTypes ==
    ASSUME TypeOK, NEW w \in Spawners, ObserverStep(w) \/ ObserverTrouble(w)
    PROVE  TypeOK'
<1>1. /\ ctl' \in {"none", "pending", "observer", "proxy", "closed"}
      /\ owner' \in Sidebands \cup {NoOwner}
      /\ lease' \in 0..LeaseTTL
      /\ UNCHANGED <<create, left, side, logs>>
      /\ faults' \in 0..MaxFaults /\ lost' \subseteq Losses
  BY LiveCallsAssumption
     DEF ObserverStep, ObserverTrouble, ObserverClaims, ObserverClaimFails, ObserverReads,
     ObserverReadFails, ObserverDials, ObserverPolls, ObserverPollFails, ObserverRefreshes,
     ObserverRefreshFails, ObserverExpires, ObserverDisconnects, ObserverRetries,
     ObserverRetryFails, ObserverAwaits, ObserverClaimIsRerun, SetController, RefreshLease,
     ObserverOnly, record, NoFault, Fault, Loss, TypeOK
<1>2. \/ \E place \in {"idle", "claim", "read", "dial", "conn", "wait", "await", "mark"} :
            Observer(w, place)
      \/ obs' = [obs EXCEPT ![w] = [ObserverAt("conn") EXCEPT !.kept = TRUE]]
      \/ obs[w].streak + 1 < RetryLimit /\ obs' = [obs EXCEPT ![w].streak = @ + 1]
  <2>1. ObserverReadFails(w)
           => \/ Observer(w, "await")
              \/ obs[w].streak + 1 < RetryLimit /\ obs' = [obs EXCEPT ![w].streak = @ + 1]
    <3>1. obs[w].streak \in Int /\ RetryLimit \in Int
      BY LiveCallsAssumption DEF TypeOK, ObserverStates
    <3>2. obs[w].streak + 1 >= RetryLimit \/ obs[w].streak + 1 < RetryLimit
      BY <3>1
    <3> QED BY <3>2, Zenon DEF ObserverReadFails
  <2>2. ObserverReads(w) => \E place \in {"idle", "mark", "dial"} : Observer(w, place)
    BY DEF ObserverReads
  <2>3. ObserverRetries(w) => \E place \in {"read", "idle"} : Observer(w, place)
    BY DEF ObserverRetries
  <2>4. ObserverClaims(w) \/ ObserverClaimFails(w) \/ ObserverClaimIsRerun(w)
           => \E place \in {"read", "idle", "await"} : Observer(w, place)
    BY DEF ObserverClaims, ObserverClaimFails, ObserverClaimIsRerun
  <2>5. ObserverDials(w) \/ ObserverPolls(w) \/ ObserverPollFails(w) \/ ObserverRefreshFails(w)
           \/ ObserverExpires(w) \/ ObserverDisconnects(w) \/ ObserverRetryFails(w)
           \/ ObserverAwaits(w)
           => \E place \in {"conn", "wait", "idle", "mark", "read"} : Observer(w, place)
    BY DEF ObserverDials, ObserverPolls, ObserverPollFails, ObserverRefreshFails,
       ObserverExpires, ObserverDisconnects, ObserverRetryFails, ObserverAwaits
  <2>6. ObserverRefreshes(w)
           => \/ Observer(w, "mark")
              \/ obs' = [obs EXCEPT ![w] = [ObserverAt("conn") EXCEPT !.kept = TRUE]]
    BY DEF ObserverRefreshes
  <2> QED BY <2>1, <2>2, <2>3, <2>4, <2>5, <2>6 DEF ObserverStep, ObserverTrouble
<1>3. obs' \in [Spawners -> ObserverStates]
  <2>1. CASE \E place \in {"idle", "claim", "read", "dial", "conn", "wait", "await", "mark"} :
                Observer(w, place)
    BY <2>1, PlacesTyped DEF Observer, TypeOK, Ending
  <2>2. CASE obs' = [obs EXCEPT ![w] = [ObserverAt("conn") EXCEPT !.kept = TRUE]]
    BY <2>2, PlacesTyped DEF TypeOK
  <2>3. CASE obs[w].streak + 1 < RetryLimit /\ obs' = [obs EXCEPT ![w].streak = @ + 1]
    BY <2>3, LiveCallsAssumption DEF TypeOK, ObserverStates
  <2> QED BY <1>2, <2>1, <2>2, <2>3
<1> QED BY <1>1, <1>3 DEF TypeOK

\* The steps of sideband s.
LEMMA SidebandTypes ==
    ASSUME TypeOK, NEW s \in Sidebands, Join(s) \/ SidebandStep(s) \/ SidebandTrouble(s)
    PROVE  TypeOK'
<1>1. /\ ctl' \in {"none", "pending", "observer", "proxy", "closed"}
      /\ owner' \in Sidebands \cup {NoOwner}
      /\ lease' \in 0..LeaseTTL
      /\ UNCHANGED <<create, left, logs>>
      /\ faults' \in 0..MaxFaults /\ lost' \subseteq Losses
  BY LiveCallsAssumption
     DEF Join, SidebandStep, SidebandTrouble, SidebandClaims, SidebandClaimIsLost,
     SidebandDials, SidebandRefreshes, SidebandRefreshFails, SidebandExpires,
     SidebandDisconnects, SidebandGivesBack, SidebandGiveBackFails, GiveBack,
     SetController, RefreshLease, SidebandOnly, record, NoFault, Fault, Loss, TypeOK
<1>2. /\ \/ \E place \in {"claim", "dial", "conn", "gone", "mark"} : Sideband(s, place)
         \/ \E then \in {"observe", "mark", "check"} : Leave(s, then)
         \/ side' = [side EXCEPT ![s] = [SidebandAt("conn") EXCEPT !.kept = TRUE]]
      /\ UNCHANGED obs \/ Observer(s, "claim")
  BY DEF Join, SidebandStep, SidebandTrouble, SidebandClaims, SidebandClaimIsLost,
     SidebandDials, SidebandRefreshes, SidebandRefreshFails, SidebandExpires,
     SidebandDisconnects, SidebandGivesBack, SidebandGiveBackFails, HandOver, SidebandOnly
<1>3. side' \in [Sidebands -> SidebandStates]
  BY <1>2, PlacesTyped DEF Sideband, Leave, TypeOK, Ending
<1>4. obs' \in [Spawners -> ObserverStates]
  BY <1>2, PlacesTyped DEF Observer, TypeOK, Spawners
<1> QED BY <1>1, <1>3, <1>4 DEF TypeOK

\* The steps that end the call.
LEMMA FinalizeTypes ==
    ASSUME TypeOK, NEW a \in Agents, Finalize(a) \/ MarkIsLost(a) \/ ReleaseLeaseFails(a)
    PROVE  TypeOK'
<1>1. (Open => ctl # "none") /\ Rest(a) \in {"idle", "gone"}
  BY DEF Open, Rest
<1>2. /\ ctl' \in {"none", "pending", "observer", "proxy", "closed"}
      /\ owner' \in Sidebands \cup {NoOwner}
      /\ lease' \in 0..LeaseTTL
      /\ logs' \in Nat /\ faults' \in 0..MaxFaults /\ lost' \subseteq Losses
      /\ create' = create /\ left' = left
  <2>1. CASE Mark(a) \/ MarkIsLost(a)
    BY <2>1 DEF TypeOK, Mark, MarkIsLost, MarkClosed, SetController, record, NoFault, Loss
  <2>2. CASE ReleaseLease(a) \/ ReleaseLeaseFails(a)
    BY <2>2, Bounds
       DEF TypeOK, ReleaseLease, ReleaseLeaseFails, record, NoFault, Fault
  <2>3. CASE WriteLog(a)
    BY <2>3 DEF TypeOK, WriteLog, record, NoFault
  <2> QED BY <2>1, <2>2, <2>3 DEF Finalize
<1>3. \E place \in {Rest(a), "release", "log"} : Go(a, place)
  BY DEF Finalize, Mark, MarkIsLost, ReleaseLease, ReleaseLeaseFails, WriteLog
<1>4. PICK place \in {Rest(a), "release", "log"} : Go(a, place)
  BY <1>3
<1>5. CASE \E w \in Spawners : a = <<"obs", w>>
  <2>1. PICK w \in Spawners : a = <<"obs", w>>
    BY <1>5
  <2>2. Observer(w, place) /\ UNCHANGED side /\ place \in {"idle", "release", "log"}
    BY <1>4, <2>1, AgentMoves, AgentKinds
  <2>3. obs' \in [Spawners -> ObserverStates]
    BY <2>2, PlacesTyped DEF TypeOK, Observer, Ending
  <2> QED BY <1>2, <2>2, <2>3 DEF TypeOK
<1>6. CASE \E s \in Sidebands : a = <<"side", s>>
  <2>1. PICK s \in Sidebands : a = <<"side", s>>
    BY <1>6
  <2>2. Sideband(s, place) /\ UNCHANGED obs /\ place \in {"gone", "release", "log"}
    BY <1>4, <2>1, AgentMoves, AgentKinds
  <2>3. side' \in [Sidebands -> SidebandStates]
    BY <2>2, PlacesTyped DEF TypeOK, Sideband, Ending
  <2> QED BY <1>2, <2>2, <2>3 DEF TypeOK
<1> QED BY <1>5, <1>6, AgentKinds

LEMMA TypeInit == Init => TypeOK
BY LiveCallsAssumption, PlacesTyped DEF Init, TypeOK

LEMMA TypeNext == TypeOK /\ [Next]_vars => TypeOK'
<1> SUFFICES ASSUME TypeOK, [Next]_vars PROVE TypeOK'
  OBVIOUS
<1> USE LiveCallsAssumption
<1>1. CASE CreateStep
  <2>1. obs' \in [Spawners -> ObserverStates] /\ UNCHANGED side
    BY <1>1, PlacesTyped DEF CreateStep, AcquireLease, CreateUpstream, Save, SaveFails,
       Observer, TypeOK, agents, Spawners
  <2>2. CASE AcquireLease \/ CreateUpstream
    BY <2>2, <2>1, Bounds DEF AcquireLease, CreateUpstream, TypeOK, record, NoFault
  <2>3. CASE Save
    BY <2>3, <2>1 DEF Save, TypeOK, SetController, NoFault
  <2>4. CASE SaveFails
    BY <2>4, <2>1 DEF SaveFails, TypeOK, SetController, record, Fault
  <2> QED BY <1>1, <2>2, <2>3, <2>4 DEF CreateStep
<1>2. CASE \E w \in Spawners : ObserverStep(w) \/ ObserverTrouble(w)
  BY <1>2, ObserverTypes
<1>3. CASE \E s \in Sidebands : Join(s) \/ SidebandStep(s) \/ SidebandTrouble(s)
  BY <1>3, SidebandTypes
<1>4. CASE \E a \in Agents : Finalize(a) \/ MarkIsLost(a) \/ ReleaseLeaseFails(a)
  BY <1>4, FinalizeTypes
<1>5. CASE Tick
  <2>1. lease' \in 0..LeaseTTL /\ left' \in 0..MaxSession
    BY <1>5 DEF Tick, Elapsed, TypeOK
  <2>2. obs' \in [Spawners -> ObserverStates]
    BY <1>5 DEF Tick, TypeOK, ObserverStates
  <2>3. side' \in [Sidebands -> SidebandStates]
    BY <1>5, ZenonT(60) DEF Tick, TypeOK, SidebandStates
  <2> QED BY <1>5, <2>1, <2>2, <2>3 DEF Tick, TypeOK, record, NoFault
<1>6. CASE RecordExpires
  BY <1>6 DEF RecordExpires, TypeOK, SetController, agents, NoFault, Loss
<1>7. CASE Crash
  BY <1>7, PlacesTyped DEF Crash, TypeOK, record, Loss
<1>8. CASE UNCHANGED vars
  BY <1>8 DEF TypeOK, vars
<1> QED BY <1>1, <1>2, <1>3, <1>4, <1>5, <1>6, <1>7, <1>8 DEF Next

\* Every variable has its type in every reachable state.
THEOREM Typed == Spec => []TypeOK
BY TypeInit, TypeNext, PTL DEF Spec

-----------------------------------------------------------------------------
(* What a step does to the places of the agents and to the record.         *)

Watching == {"read", "dial", "conn", "wait"}
Proxying == {"dial", "conn", "back"}

\* Only w's observer goes somewhere; its place becomes p.
ObsMoves(w, p) ==
    /\ obs'[w].at = p
    /\ \A v \in Spawners : v # w => obs'[v] = obs[v]
    /\ UNCHANGED side

SideMoves(s, p) ==
    /\ side'[s].at = p
    /\ \A t \in Sidebands : t # s => side'[t] = side[t]

LEMMA ObserverPlaces ==
    ASSUME TypeOK, NEW w \in Spawners, NEW p
    PROVE  /\ Observer(w, p) /\ UNCHANGED side => ObsMoves(w, p)
           /\ Observer(w, p) => /\ obs'[w].at = p
                                /\ \A v \in Spawners : v # w => obs'[v] = obs[v]
           /\ obs' = [obs EXCEPT ![w] = [ObserverAt("conn") EXCEPT !.kept = TRUE]]
                 /\ UNCHANGED side => ObsMoves(w, "conn")
           /\ obs' = [obs EXCEPT ![w].streak = @ + 1] /\ UNCHANGED side
                 => ObsMoves(w, obs[w].at)
BY DEF TypeOK, Observer, ObserverAt, ObserverStates, ObsMoves

LEMMA SidebandPlaces ==
    ASSUME TypeOK, NEW s \in Sidebands, NEW p
    PROVE  /\ Sideband(s, p) => SideMoves(s, p)
           /\ Leave(s, p) => SideMoves(s, "back")
           /\ side' = [side EXCEPT ![s] = [SidebandAt("conn") EXCEPT !.kept = TRUE]]
                 => SideMoves(s, "conn")
BY DEF TypeOK, Sideband, Leave, SidebandAt, SidebandStates, SideMoves

\* An observer's step: it waits for the end or is about to end the call; it goes
\* on watching; it leaves because the record does not name an observer; its claim
\* is made; or it is made and run again.
LEMMA ObserverMoves ==
    ASSUME TypeOK, NEW w \in Spawners, ObserverStep(w) \/ ObserverTrouble(w)
    PROVE  /\ \/ /\ \E p \in {"await", "mark"} : ObsMoves(w, p)
                 /\ obs[w].at \in Watching \cup {"claim", "await"}
                 /\ UNCHANGED record \/ (ctl = "pending" /\ ctl' = "observer")
              \/ /\ obs[w].at \in Watching /\ UNCHANGED record
                 /\ \E p \in Watching : ObsMoves(w, p)
              \/ /\ ObsMoves(w, "idle") /\ UNCHANGED record
                 /\ \/ obs[w].at = "claim" /\ ctl # "pending"
                    \/ obs[w].at \in Watching /\ ctl # "observer"
              \/ /\ ObsMoves(w, "read") /\ obs[w].at = "claim"
                 /\ ctl = "pending" /\ ctl' = "observer"
              \/ /\ ObsMoves(w, "idle") /\ obs[w].at = "claim"
                 /\ ctl = "pending" /\ ctl' = "observer" /\ lost' # {}
           /\ UNCHANGED <<create, logs>> /\ (lost' = {} => lost = {})
           /\ lease = 0 => lease' = 0
<1>1. CASE ObserverClaims(w) \/ ObserverClaimFails(w)
  BY <1>1, ObserverPlaces DEF ObserverClaims, ObserverClaimFails, MayClaim, SetController,
     ObserverOnly, NoFault, Fault
<1>7. CASE ObserverClaimIsRerun(w)
  BY <1>7, ObserverPlaces DEF ObserverClaimIsRerun, MayClaim, SetController, ObserverOnly, Loss
<1>2. CASE ObserverReads(w)
  BY <1>2, ObserverPlaces DEF ObserverReads, ObserverOnly, NoFault, Watching
<1>3. CASE ObserverReadFails(w)
  BY <1>3, ObserverPlaces DEF ObserverReadFails, ObserverOnly, Fault, Watching
<1>4. CASE ObserverDials(w) \/ ObserverPolls(w) \/ ObserverPollFails(w)
           \/ ObserverRefreshFails(w) \/ ObserverExpires(w)
  BY <1>4, ObserverPlaces DEF ObserverDials, ObserverPolls, ObserverPollFails,
     ObserverRefreshFails, ObserverExpires, ObserverOnly, NoFault, Fault, Watching
<1>5. CASE ObserverRefreshes(w)
  BY <1>5, ObserverPlaces DEF ObserverRefreshes, RefreshLease, NoFault, Watching
<1>6. CASE ObserverDisconnects(w) \/ ObserverRetries(w) \/ ObserverRetryFails(w)
           \/ ObserverAwaits(w)
  BY <1>6, ObserverPlaces DEF ObserverDisconnects, ObserverRetries, ObserverRetryFails,
     ObserverAwaits, ObserverOnly, NoFault, Fault, Watching
<1> QED BY <1>1, <1>2, <1>3, <1>4, <1>5, <1>6, <1>7 DEF ObserverStep, ObserverTrouble

\* A sideband's step: it comes or is refused; it takes the control; it goes on;
\* it leaves the control to its observer or is about to end the call; or one of
\* Losses happens.
LEMMA SidebandMoves ==
    ASSUME TypeOK, NEW s \in Sidebands, Join(s) \/ SidebandStep(s) \/ SidebandTrouble(s)
    PROVE  /\ \/ /\ side[s].at \in {"idle", "claim"}
                 /\ \E p \in {"claim", "gone"} : SideMoves(s, p)
                 /\ UNCHANGED <<record, obs, lost>> \/ (UNCHANGED obs /\ lost' # {} /\ Open)
              \/ /\ side[s].at = "claim" /\ SideMoves(s, "dial") /\ Open
                 /\ ctl' = "proxy" /\ owner' = s
                 /\ UNCHANGED <<obs, lost>>
              \/ /\ side[s].at \in Proxying /\ UNCHANGED <<record, obs, lost>>
                 /\ \E p \in Proxying : SideMoves(s, p)
              \/ /\ side[s].at = "back"
                 /\ \/ SideMoves(s, "mark") /\ UNCHANGED obs
                    \/ SideMoves(s, "gone") /\ Observer(s, "claim")
                 /\ \/ UNCHANGED lost /\ GiveBack(s)
                    \/ lost' # {} /\ UNCHANGED record
           /\ UNCHANGED <<create, logs>>
           /\ create = "done" \/ side[s].at # "idle"
           /\ lease = 0 => lease' = 0
<1>1. CASE Join(s) \/ SidebandClaims(s) \/ SidebandClaimIsLost(s)
  BY <1>1, SidebandPlaces DEF Join, SidebandClaims, SidebandClaimIsLost, MayClaim, Open,
     SetController, SidebandOnly, record, NoFault, Loss
<1>2. CASE SidebandDials(s) \/ SidebandRefreshFails(s) \/ SidebandExpires(s)
           \/ SidebandDisconnects(s)
  BY <1>2, SidebandPlaces DEF SidebandDials, SidebandRefreshFails, SidebandExpires,
     SidebandDisconnects, SidebandOnly, record, NoFault, Fault, Proxying
<1>3. CASE SidebandRefreshes(s)
  BY <1>3, SidebandPlaces DEF SidebandRefreshes, RefreshLease, record, NoFault, Proxying
<1>4. CASE SidebandGivesBack(s) \/ SidebandGiveBackFails(s)
  BY <1>4, SidebandPlaces DEF SidebandGivesBack, SidebandGiveBackFails, HandOver, record,
     NoFault, Loss
<1> QED BY <1>1, <1>2, <1>3, <1>4 DEF SidebandStep, SidebandTrouble

\* What becomes of the agent x (an observer's or a sideband's record) that ends
\* the call, and of the rest.
Ends(x) == x.at \in {"release", "log"}

EndsBy(from, to) ==
    \/ /\ from = "mark" /\ to = "release"
       /\ Open /\ ctl' = "closed" /\ UNCHANGED <<logs, lost>>
    \/ /\ from = "mark" /\ to \in {"idle", "gone"}
       /\ UNCHANGED logs
       /\ \/ ~Open /\ UNCHANGED <<record, lost>>
          \/ lost' # {} /\ (ctl' = "closed" \/ UNCHANGED record)
    \/ from = "release" /\ to = "log" /\ UNCHANGED <<record, logs, lost>>
    \/ /\ from = "log" /\ to \in {"idle", "gone"}
       /\ logs' = logs + 1 /\ UNCHANGED <<record, lost>>

SideEnds(s, p) ==
    SideMoves(s, p) /\ UNCHANGED obs /\ EndsBy(side[s].at, p) /\ p # "idle"

LEMMA FinalizeMoves ==
    ASSUME TypeOK, NEW a \in Agents, Finalize(a) \/ MarkIsLost(a) \/ ReleaseLeaseFails(a)
    PROVE  /\ \E p : /\ \/ \E w \in Spawners : ObsMoves(w, p) /\ EndsBy(obs[w].at, p)
                        \/ \E s \in Sidebands : SideEnds(s, p)
           /\ UNCHANGED create
           /\ lease = 0 => lease' = 0
<1>1. Rest(a) \in {"idle", "gone"}
  BY DEF Rest
<1>2. \E p : Go(a, p) /\ EndsBy(At(a), p) /\ p \in {Rest(a), "release", "log"}
  BY <1>1 DEF Finalize, Mark, MarkIsLost, ReleaseLease, ReleaseLeaseFails, WriteLog, EndsBy,
     MarkClosed, SetController, NoFault, Fault, Loss, record
<1>3. PICK p : Go(a, p) /\ EndsBy(At(a), p) /\ p \in {Rest(a), "release", "log"}
  BY <1>2
<1>5. /\ UNCHANGED create /\ (lease = 0 => lease' = 0)
  BY DEF Finalize, Mark, MarkIsLost, ReleaseLease, ReleaseLeaseFails, WriteLog
<1>4. CASE \E w \in Spawners : a = <<"obs", w>>
  <2>1. PICK w \in Spawners : a = <<"obs", w>>
    BY <1>4
  <2>2. Observer(w, p) /\ UNCHANGED side /\ EndsBy(obs[w].at, p)
    BY <1>3, <2>1, AgentMoves, AgentKinds
  <2>3. ObsMoves(w, p)
    BY <2>2, ObserverPlaces
  <2> QED BY <2>2, <2>3, <1>5
<1>6. CASE \E s \in Sidebands : a = <<"side", s>>
  <2>1. PICK s \in Sidebands : a = <<"side", s>>
    BY <1>6
  <2>2. Sideband(s, p) /\ UNCHANGED obs /\ EndsBy(side[s].at, p) /\ p # "idle"
    BY <1>3, <2>1, AgentMoves, AgentKinds
  <2>3. SideMoves(s, p)
    BY <2>2, SidebandPlaces
  <2> QED BY <2>2, <2>3, <1>5 DEF SideEnds
<1> QED BY <1>4, <1>6, AgentKinds

\* Time and the end of the record move nobody.
LEMMA OthersStay ==
    ASSUME TypeOK, Tick \/ RecordExpires
    PROVE  /\ \A w \in Spawners : obs'[w].at = obs[w].at
           /\ \A s \in Sidebands : side'[s].at = side[s].at
           /\ UNCHANGED <<create, logs>>
           /\ lease = 0 => lease' = 0
           /\ UNCHANGED <<record, lost>> \/ ~Open'
<1>1. CASE Tick
  <2>1. \A w \in Spawners : obs'[w].at = obs[w].at
    BY <1>1 DEF Tick, TypeOK, ObserverStates
  <2>2. \A s \in Sidebands : side'[s].at = side[s].at
    BY <1>1 DEF Tick, TypeOK, SidebandStates
  <2>3. lease = 0 => lease' = 0
    BY <1>1 DEF Tick, Elapsed
  <2>4. UNCHANGED <<create, logs>> /\ UNCHANGED <<record, lost>>
    BY <1>1 DEF Tick, NoFault
  <2> QED BY <2>1, <2>2, <2>3, <2>4
<1>2. CASE RecordExpires
  BY <1>2 DEF RecordExpires, SetController, agents, Open
<1> QED BY <1>1, <1>2

LEMMA CrashStops ==
    ASSUME TypeOK, Crash
    PROVE  /\ \A w \in Spawners : obs'[w].at = "idle"
           /\ \A s \in Sidebands : \/ side'[s].at = "gone" /\ side[s].at # "idle"
                                   \/ side'[s].at = "idle" /\ side[s].at = "idle"
           /\ UNCHANGED <<record, logs, lease>> /\ lost' # {}
           /\ create = "done" => create' = "done"
           /\ create # "done" => create' = "failed"
BY DEF Crash, TypeOK, ObserverAt, SidebandAt, Loss

-----------------------------------------------------------------------------
(* The invariant.                                                          *)

\* Before the client has its answer nobody works on the call, and an observer
\* starts when its sideband leaves.
Unstarted ==
    /\ create \in {"start", "create", "save"} => ctl = "none"
    /\ create # "done" => /\ \A w \in Spawners : obs[w].at = "idle"
                          /\ \A s \in Sidebands : side[s].at = "idle"
                          /\ logs = 0
    /\ \A s \in Sidebands :
          side[s].at \in {"idle", "claim"} \cup Proxying => obs[s].at = "idle"

LEMMA UnstartedNext == TypeOK /\ Unstarted /\ [Next]_vars => Unstarted'
<1> SUFFICES ASSUME TypeOK, Unstarted, [Next]_vars PROVE Unstarted'
  OBVIOUS
<1> USE DEF Unstarted
<1>1. CASE CreateStep
  <2>1. CASE AcquireLease \/ CreateUpstream
    BY <2>1 DEF AcquireLease, CreateUpstream, record, agents
  <2>2. CASE Save
    <3>1. Creator \in Spawners /\ \A s \in Sidebands : s \in Spawners /\ s # Creator
      BY LiveCallsAssumption DEF Spawners
    <3>2. Observer(Creator, "claim") /\ UNCHANGED side /\ create = "save" /\ create' = "done"
      BY <2>2 DEF Save
    <3>3. \A v \in Spawners : v # Creator => obs'[v] = obs[v]
      BY <3>1, <3>2, ObserverPlaces
    <3> QED BY <3>1, <3>2, <3>3
  <2>3. CASE SaveFails
    BY <2>3 DEF SaveFails, agents
  <2> QED BY <1>1, <2>1, <2>2, <2>3 DEF CreateStep
<1>2. CASE \E w \in Spawners : ObserverStep(w) \/ ObserverTrouble(w)
  <2>1. PICK w \in Spawners : ObserverStep(w) \/ ObserverTrouble(w)
    BY <1>2
  <2>2. obs[w].at # "idle" /\ \E p : ObsMoves(w, p)
    BY <2>1, ObserverMoves DEF Watching
  <2>3. create = "done" /\ create' = "done"
    BY <2>1, <2>2, ObserverMoves
  <2> QED BY <2>2, <2>3 DEF ObsMoves, Spawners
<1>3. CASE \E s \in Sidebands : Join(s) \/ SidebandStep(s) \/ SidebandTrouble(s)
  <2>1. PICK s \in Sidebands : Join(s) \/ SidebandStep(s) \/ SidebandTrouble(s)
    BY <1>3
  <2>2. create = "done" /\ create' = "done"
    BY <2>1, SidebandMoves
  <2>3. /\ side[s].at \in {"idle", "claim"} \cup Proxying
        /\ \E p : /\ SideMoves(s, p)
                  /\ \/ UNCHANGED obs
                     \/ p = "gone" /\ Observer(s, "claim")
    BY <2>1, SidebandMoves DEF Proxying
  <2>4. s \in Spawners
    BY DEF Spawners
  <2> QED BY <2>2, <2>3, <2>4, ObserverPlaces DEF SideMoves, Spawners, Proxying
<1>4. CASE \E a \in Agents : Finalize(a) \/ MarkIsLost(a) \/ ReleaseLeaseFails(a)
  <2>1. PICK a \in Agents : Finalize(a) \/ MarkIsLost(a) \/ ReleaseLeaseFails(a)
    BY <1>4
  <2>2. PICK p : \/ \E w \in Spawners : ObsMoves(w, p) /\ EndsBy(obs[w].at, p)
                 \/ \E s \in Sidebands : SideEnds(s, p)
    BY <2>1, FinalizeMoves
  <2>3. UNCHANGED create
    BY <2>1, FinalizeMoves
  <2>4. CASE \E w \in Spawners : ObsMoves(w, p) /\ EndsBy(obs[w].at, p)
    BY <2>3, <2>4 DEF ObsMoves, EndsBy, Spawners
  <2>5. CASE \E s \in Sidebands : SideEnds(s, p)
    <3>1. PICK s \in Sidebands : SideEnds(s, p)
      BY <2>5
    <3>2. p \notin {"idle", "claim"} \cup Proxying
      BY <3>1 DEF SideEnds, EndsBy, Proxying
    <3>3. side[s].at # "idle" /\ create = "done"
      BY <3>1 DEF SideEnds, EndsBy
    <3> QED BY <2>3, <3>1, <3>2, <3>3 DEF SideEnds, SideMoves
  <2> QED BY <2>2, <2>4, <2>5
<1>5. CASE Tick \/ RecordExpires
  BY <1>5, OthersStay DEF Spawners, Tick, RecordExpires, record
<1>6. CASE Crash
  BY <1>6, CrashStops DEF Spawners, Proxying
<1>7. CASE UNCHANGED vars
  BY <1>7 DEF vars
<1> QED BY <1>1, <1>2, <1>3, <1>4, <1>5, <1>6, <1>7 DEF Next

\* OpenCallHasKeeper in terms of the agents' records.
Ender ==
    \/ \E w \in Spawners : obs[w].at \in {"await", "mark"}
    \/ \E s \in Sidebands : side[s].at \in {"await", "mark"}

Kept == create = "done" /\ Open /\ lost = {} => HasController \/ Ender

LEMMA KeptNext == TypeOK /\ Unstarted /\ Kept /\ [Next]_vars => Kept'
<1> SUFFICES ASSUME TypeOK, Unstarted, Kept, [Next]_vars, (create = "done" /\ Open /\ lost = {})'
             PROVE  (HasController \/ Ender)'
  BY DEF Kept
<1>0. \A s \in Sidebands : s \in Spawners
  BY DEF Spawners
<1>1. CASE CreateStep
  <2>1. Save
    BY <1>1 DEF CreateStep, AcquireLease, CreateUpstream, SaveFails
  <2>2. ctl' = "pending" /\ Creator \in Spawners /\ obs'[Creator].at = "claim"
    BY <2>1, ObserverPlaces DEF Save, SetController, Spawners
  <2> QED BY <2>2 DEF HasController
<1>2. CASE \E w \in Spawners : ObserverStep(w) \/ ObserverTrouble(w)
  <2>1. PICK w \in Spawners : ObserverStep(w) \/ ObserverTrouble(w)
    BY <1>2
  <2>2. UNCHANGED create /\ (lost' = {} => lost = {})
    BY <2>1, ObserverMoves
  <2>3. CASE \E p \in {"await", "mark"} : ObsMoves(w, p)
    BY <2>3 DEF Ender, ObsMoves
  <2>4. CASE /\ obs[w].at \in Watching /\ UNCHANGED record
             /\ \E p \in Watching : ObsMoves(w, p)
    <3>1. HasController \/ Ender
      BY <2>2, <2>4 DEF Kept, Open, record
    <3> QED BY <3>1, <2>4 DEF HasController, Ender, ObsMoves, Watching, record
  <2>5. CASE /\ ObsMoves(w, "idle") /\ UNCHANGED record
             /\ \/ obs[w].at = "claim" /\ ctl # "pending"
                \/ obs[w].at \in Watching /\ ctl # "observer"
    <3>1. HasController \/ Ender
      BY <2>2, <2>5 DEF Kept, Open, record
    <3> QED BY <3>1, <2>5 DEF HasController, Ender, ObsMoves, Watching, record
  <2>6. CASE ObsMoves(w, "read") /\ ctl' = "observer"
    BY <2>6 DEF HasController, ObsMoves
  <2>7. CASE lost' # {}
    BY <2>7
  <2> QED BY <2>1, <2>3, <2>4, <2>5, <2>6, <2>7, ObserverMoves
<1>3. CASE \E s \in Sidebands : Join(s) \/ SidebandStep(s) \/ SidebandTrouble(s)
  <2>1. PICK s \in Sidebands : Join(s) \/ SidebandStep(s) \/ SidebandTrouble(s)
    BY <1>3
  <2>2. UNCHANGED create
    BY <2>1, SidebandMoves
  <2>3. CASE /\ side[s].at \in {"idle", "claim"} /\ UNCHANGED <<record, obs, lost>>
             /\ \E p \in {"claim", "gone"} : SideMoves(s, p)
    <3>1. HasController \/ Ender
      BY <2>2, <2>3 DEF Kept, Open, record
    <3> QED BY <3>1, <2>3 DEF HasController, Ender, SideMoves, record
  <2>4. CASE /\ SideMoves(s, "dial") /\ ctl' = "proxy" /\ owner' = s
    BY <2>4 DEF HasController, SideMoves
  <2>5. CASE /\ side[s].at \in Proxying /\ UNCHANGED <<record, obs, lost>>
             /\ \E p \in Proxying : SideMoves(s, p)
    <3>1. HasController \/ Ender
      BY <2>2, <2>5 DEF Kept, Open, record
    <3> QED BY <3>1, <2>5 DEF HasController, Ender, SideMoves, Proxying, record
  <2>6. CASE side[s].at = "back" /\ SideMoves(s, "mark")
    BY <2>6 DEF Ender, SideMoves
  <2>7. CASE /\ side[s].at = "back" /\ SideMoves(s, "gone") /\ Observer(s, "claim")
             /\ UNCHANGED lost /\ GiveBack(s)
    <3>1. /\ obs[s].at = "idle" /\ obs'[s].at = "claim"
          /\ \A v \in Spawners : v # s => obs'[v] = obs[v]
      BY <2>7, <1>0, ObserverPlaces DEF Unstarted, Proxying
    <3>2. CASE ctl = "proxy" /\ owner = s
      BY <2>7, <3>1, <3>2, <1>0 DEF GiveBack, SetController, HasController
    <3>3. CASE ~(ctl = "proxy" /\ owner = s)
      <4>1. UNCHANGED record
        BY <2>7, <3>3 DEF GiveBack
      <4>2. HasController \/ Ender
        BY <2>2, <2>7, <4>1 DEF Kept, Open, record
      <4> QED BY <4>1, <4>2, <3>1, <3>3, <2>7 DEF HasController, Ender, SideMoves, record
    <3> QED BY <3>2, <3>3
  <2> QED BY <2>1, <2>3, <2>4, <2>5, <2>6, <2>7, SidebandMoves
<1>4. CASE \E a \in Agents : Finalize(a) \/ MarkIsLost(a) \/ ReleaseLeaseFails(a)
  <2>1. PICK a \in Agents : Finalize(a) \/ MarkIsLost(a) \/ ReleaseLeaseFails(a)
    BY <1>4
  <2>2. PICK p : \/ \E w \in Spawners : ObsMoves(w, p) /\ EndsBy(obs[w].at, p)
                 \/ \E s \in Sidebands : SideEnds(s, p)
    BY <2>1, FinalizeMoves
  <2>3. UNCHANGED create
    BY <2>1, FinalizeMoves
  <2>4. CASE \E w \in Spawners : ObsMoves(w, p) /\ EndsBy(obs[w].at, p)
    <3>1. PICK w \in Spawners : ObsMoves(w, p) /\ EndsBy(obs[w].at, p)
      BY <2>4
    <3>2. obs[w].at \in {"release", "log"} /\ UNCHANGED <<record, lost>>
      BY <3>1 DEF EndsBy, Open, record
    <3>3. HasController \/ Ender
      BY <2>3, <3>2 DEF Kept, Open, record
    <3> QED BY <3>1, <3>2, <3>3 DEF HasController, Ender, ObsMoves, record
  <2>5. CASE \E s \in Sidebands : SideEnds(s, p)
    <3>1. PICK s \in Sidebands : SideEnds(s, p)
      BY <2>5
    <3>2. side[s].at \in {"release", "log"} /\ UNCHANGED <<record, lost>>
      BY <3>1 DEF SideEnds, EndsBy, Open, record
    <3>3. HasController \/ Ender
      BY <2>3, <3>2 DEF Kept, Open, record
    <3> QED BY <3>1, <3>2, <3>3 DEF HasController, Ender, SideEnds, SideMoves, record
  <2> QED BY <2>2, <2>4, <2>5
<1>5. CASE Tick \/ RecordExpires
  <2>1. UNCHANGED <<record, create, lost>>
    BY <1>5, OthersStay
  <2>2. HasController \/ Ender
    BY <2>1 DEF Kept, Open, record
  <2> QED BY <1>5, <2>1, <2>2, OthersStay DEF HasController, Ender, record
<1>6. CASE Crash
  BY <1>6, CrashStops
<1>7. CASE UNCHANGED vars
  BY <1>7 DEF vars, Kept, HasController, Ender, Open
<1> QED BY <1>1, <1>2, <1>3, <1>4, <1>5, <1>6, <1>7 DEF Next

-----------------------------------------------------------------------------
\* At most one agent is past the mark, none of them before the record is closed
\* or after the log is written.
NoneEnds ==
    /\ \A w \in Spawners : ~Ends(obs[w])
    /\ \A s \in Sidebands : ~Ends(side[s])

OneEnds ==
    /\ \A v, w \in Spawners : Ends(obs[v]) /\ Ends(obs[w]) => v = w
    /\ \A s, t \in Sidebands : Ends(side[s]) /\ Ends(side[t]) => s = t
    /\ \A w \in Spawners, s \in Sidebands : ~(Ends(obs[w]) /\ Ends(side[s]))

LogInv ==
    /\ OneEnds
    /\ logs \in {0, 1}
    /\ logs = 1 => NoneEnds
    /\ Open => NoneEnds /\ logs = 0

LEMMA LogNext == TypeOK /\ Unstarted /\ LogInv /\ [Next]_vars => LogInv'
<1> SUFFICES ASSUME TypeOK, Unstarted, LogInv, [Next]_vars PROVE LogInv'
  OBVIOUS
<1>1. CASE CreateStep
  <2>1. create # "done" /\ UNCHANGED logs
    BY <1>1 DEF CreateStep, AcquireLease, CreateUpstream, Save, SaveFails
  <2>2. /\ \A w \in Spawners : obs'[w].at \in {"idle", "claim"}
        /\ UNCHANGED side
    <3>1. \A w \in Spawners : obs[w].at = "idle"
      BY <2>1 DEF Unstarted
    <3>2. CASE UNCHANGED obs
      BY <1>1, <3>1, <3>2 DEF CreateStep, AcquireLease, CreateUpstream, Save, SaveFails, agents
    <3>3. CASE Observer(Creator, "claim") /\ UNCHANGED side
      BY <3>1, <3>3, ObserverPlaces DEF Spawners
    <3> QED BY <1>1, <3>2, <3>3 DEF CreateStep, AcquireLease, CreateUpstream, Save, SaveFails,
              agents
  <2> QED BY <2>1, <2>2 DEF Unstarted, LogInv, OneEnds, NoneEnds, Ends
<1>2. CASE \E w \in Spawners : ObserverStep(w) \/ ObserverTrouble(w)
  <2>1. PICK w \in Spawners : ObserverStep(w) \/ ObserverTrouble(w)
    BY <1>2
  <2>2. PICK p : ObsMoves(w, p) /\ p \notin {"release", "log"}
    BY <2>1, ObserverMoves DEF Watching
  <2>3. (Open' => Open) /\ UNCHANGED logs
    BY <2>1, ObserverMoves DEF Open, record
  <2> QED BY <2>2, <2>3 DEF ObsMoves, LogInv, OneEnds, NoneEnds, Ends
<1>3. CASE \E s \in Sidebands : Join(s) \/ SidebandStep(s) \/ SidebandTrouble(s)
  <2>1. PICK s \in Sidebands : Join(s) \/ SidebandStep(s) \/ SidebandTrouble(s)
    BY <1>3
  <2>2. PICK p : /\ SideMoves(s, p) /\ p \notin {"release", "log"}
                 /\ UNCHANGED obs \/ Observer(s, "claim")
    BY <2>1, SidebandMoves DEF Proxying
  <2>3. (Open' => Open) /\ UNCHANGED logs
    BY <2>1, SidebandMoves DEF Open, record, GiveBack, SetController
  <2>4. \A v \in Spawners : Ends(obs'[v]) => Ends(obs[v])
    BY <2>2, ObserverPlaces DEF Ends, Spawners
  <2> QED BY <2>2, <2>3, <2>4 DEF SideMoves, LogInv, OneEnds, NoneEnds, Ends
<1>4. CASE \E a \in Agents : Finalize(a) \/ MarkIsLost(a) \/ ReleaseLeaseFails(a)
  <2>1. PICK a \in Agents : Finalize(a) \/ MarkIsLost(a) \/ ReleaseLeaseFails(a)
    BY <1>4
  <2>2. PICK p : \/ \E w \in Spawners : ObsMoves(w, p) /\ EndsBy(obs[w].at, p)
                 \/ \E s \in Sidebands : SideEnds(s, p)
    BY <2>1, FinalizeMoves
  <2>3. CASE \E w \in Spawners : ObsMoves(w, p) /\ EndsBy(obs[w].at, p)
    BY <2>3 DEF ObsMoves, EndsBy, Open, record, LogInv, OneEnds, NoneEnds, Ends
  <2>4. CASE \E s \in Sidebands : SideEnds(s, p)
    BY <2>4 DEF SideEnds, SideMoves, EndsBy, Open, record, LogInv, OneEnds, NoneEnds, Ends
  <2> QED BY <2>2, <2>3, <2>4
<1>5. CASE Tick \/ RecordExpires
  BY <1>5, OthersStay DEF LogInv, OneEnds, NoneEnds, Ends, Open, record
<1>6. CASE Crash
  BY <1>6, CrashStops DEF LogInv, OneEnds, NoneEnds, Ends, Open, record
<1>7. CASE UNCHANGED vars
  BY <1>7 DEF vars, LogInv, OneEnds, NoneEnds, Ends, Open
<1> QED BY <1>1, <1>2, <1>3, <1>4, <1>5, <1>6, <1>7 DEF Next

-----------------------------------------------------------------------------
(* The lease of a connection.                                              *)

\* Until its next refresh is due, a connection that has refreshed the lease
\* finds all of it.
Fresh(x) ==
    x.at = "conn" /\ x.kept => lease >= LeaseTTL - 1 /\ (x.due \/ lease = LeaseTTL)

Counted ==
    Open => /\ \A w \in Spawners : Fresh(obs[w])
            /\ \A s \in Sidebands : Fresh(side[s])

\* A connection has refreshed the lease only by the step that did.
LEMMA RefreshIsKept ==
    ASSUME TypeOK
    PROVE  /\ \A w \in Spawners : ObserverStep(w) \/ ObserverTrouble(w) =>
                 /\ lease' \in {lease, LeaseTTL}
                 /\ obs'[w].at = "conn" /\ obs'[w].kept => lease' = LeaseTTL
           /\ \A s \in Sidebands : Join(s) \/ SidebandStep(s) \/ SidebandTrouble(s) =>
                 /\ lease' \in {lease, LeaseTTL}
                 /\ side'[s].at = "conn" /\ side'[s].kept => lease' = LeaseTTL
                 /\ obs' # obs => ~obs'[s].kept
<1>1. ASSUME NEW w \in Spawners, ObserverStep(w) \/ ObserverTrouble(w)
      PROVE  /\ lease' \in {lease, LeaseTTL}
             /\ obs'[w].at = "conn" /\ obs'[w].kept => lease' = LeaseTTL
  <2>1. \A p : Observer(w, p) => ~obs'[w].kept
    BY DEF Observer, ObserverAt, TypeOK
  <2>2. ObserverReadFails(w) => obs'[w].at # "conn" \/ ~obs'[w].kept
    BY <2>1 DEF ObserverReadFails, TypeOK, ObserverStates
  <2>3. lease' = LeaseTTL \/ (UNCHANGED lease /\ (ObserverReadFails(w) \/ \E p : Observer(w, p)))
    BY <1>1 DEF ObserverStep, ObserverTrouble, ObserverClaims, ObserverClaimFails, ObserverReads,
       ObserverReadFails, ObserverDials, ObserverPolls, ObserverPollFails, ObserverRefreshes,
       ObserverRefreshFails, ObserverExpires, ObserverDisconnects, ObserverRetries,
       ObserverRetryFails, ObserverAwaits, ObserverClaimIsRerun, RefreshLease, ObserverOnly
  <2> QED BY <2>1, <2>2, <2>3
<1>2. ASSUME NEW s \in Sidebands, Join(s) \/ SidebandStep(s) \/ SidebandTrouble(s)
      PROVE  /\ lease' \in {lease, LeaseTTL}
             /\ side'[s].at = "conn" /\ side'[s].kept => lease' = LeaseTTL
             /\ obs' # obs => ~obs'[s].kept
  <2>1. /\ \A p : Sideband(s, p) \/ Leave(s, p) => ~side'[s].kept
        /\ Observer(s, "claim") => ~obs'[s].kept
    BY DEF Sideband, Leave, SidebandAt, Observer, ObserverAt, TypeOK, Spawners
  <2>2. lease' = LeaseTTL \/ (UNCHANGED lease /\ \E p : Sideband(s, p) \/ Leave(s, p))
    BY <1>2 DEF Join, SidebandStep, SidebandTrouble, SidebandClaims, SidebandClaimIsLost,
       SidebandDials, SidebandRefreshes, SidebandRefreshFails, SidebandExpires,
       SidebandDisconnects, SidebandGivesBack, SidebandGiveBackFails, HandOver, RefreshLease,
       SidebandOnly
  <2>3. obs' # obs => Observer(s, "claim")
    BY <1>2, SidebandMoves
  <2> QED BY <2>1, <2>2, <2>3
<1> QED BY <1>1, <1>2

LEMMA CountedNext == TypeOK /\ Unstarted /\ LogInv /\ Counted /\ [Next]_vars => Counted'
<1> SUFFICES ASSUME TypeOK, Unstarted, LogInv, Counted, [Next]_vars, Open' PROVE Counted'
  BY DEF Counted
<1>0. LeaseTTL \in Nat /\ LeaseTTL > 0 /\ lease \in 0..LeaseTTL
  BY LiveCallsAssumption DEF TypeOK
<1>1. CASE CreateStep
  <2>1. create # "done"
    BY <1>1 DEF CreateStep, AcquireLease, CreateUpstream, Save, SaveFails
  <2>2. /\ \A w \in Spawners : obs'[w].at # "conn"
        /\ \A s \in Sidebands : side'[s].at # "conn"
    <3>1. UNCHANGED <<obs, side>> \/ (Observer(Creator, "claim") /\ UNCHANGED side)
      BY <1>1 DEF CreateStep, AcquireLease, CreateUpstream, Save, SaveFails, agents
    <3>2. /\ \A w \in Spawners : obs[w].at = "idle"
          /\ \A s \in Sidebands : side[s].at = "idle"
      BY <2>1 DEF Unstarted
    <3>3. Observer(Creator, "claim") => \A w \in Spawners : obs'[w].at \in {"idle", "claim"}
      BY <3>2, ObserverPlaces DEF Spawners
    <3> QED BY <3>1, <3>2, <3>3
  <2> QED BY <2>2 DEF Counted, Fresh
<1>2. CASE \E w \in Spawners : ObserverStep(w) \/ ObserverTrouble(w)
  <2>1. PICK w \in Spawners : ObserverStep(w) \/ ObserverTrouble(w)
    BY <1>2
  <2>2. PICK p : ObsMoves(w, p)
    BY <2>1, ObserverMoves
  <2>3. Open
    BY <2>1, ObserverMoves DEF Open, record
  <2> QED BY <1>0, <2>1, <2>2, <2>3, RefreshIsKept DEF ObsMoves, Counted, Fresh
<1>3. CASE \E s \in Sidebands : Join(s) \/ SidebandStep(s) \/ SidebandTrouble(s)
  <2>1. PICK s \in Sidebands : Join(s) \/ SidebandStep(s) \/ SidebandTrouble(s)
    BY <1>3
  <2>2. PICK p : SideMoves(s, p)
    BY <2>1, SidebandMoves
  <2>3. Open
    BY <2>1, SidebandMoves DEF Open, record, GiveBack, SetController
  <2>4. \A v \in Spawners : obs'[v] = obs[v] \/ ~obs'[v].kept
    BY <2>1, SidebandMoves, RefreshIsKept, ObserverPlaces DEF Spawners
  <2> QED BY <1>0, <2>1, <2>2, <2>3, <2>4, RefreshIsKept DEF SideMoves, Counted, Fresh
<1>4. CASE \E a \in Agents : Finalize(a) \/ MarkIsLost(a) \/ ReleaseLeaseFails(a)
  <2>1. PICK a \in Agents : Finalize(a) \/ MarkIsLost(a) \/ ReleaseLeaseFails(a)
    BY <1>4
  <2>2. PICK p : \/ \E w \in Spawners : ObsMoves(w, p) /\ EndsBy(obs[w].at, p)
                 \/ \E s \in Sidebands : SideEnds(s, p)
    BY <2>1, FinalizeMoves
  <2>3. Open
    BY <2>2 DEF EndsBy, SideEnds, Open, record
  <2>4. UNCHANGED lease
    <3>1. At(a) # "release"
      BY <2>3, AgentKinds DEF LogInv, NoneEnds, Ends
    <3> QED BY <2>1, <3>1 DEF Finalize, Mark, MarkIsLost, ReleaseLease, ReleaseLeaseFails, WriteLog
  <2>5. p # "conn"
    BY <2>2 DEF EndsBy, SideEnds
  <2> QED BY <2>2, <2>3, <2>4, <2>5 DEF ObsMoves, SideEnds, SideMoves, Counted, Fresh
<1>5. CASE Tick
  <2>1. /\ Open /\ lease' = Elapsed(lease)
        /\ \A a \in Agents : MayWait(a)
        /\ \A w \in Spawners : obs'[w] = [obs[w] EXCEPT !.due = obs[w].at = "conn"]
        /\ \A s \in Sidebands : side'[s] = [side[s] EXCEPT !.due = side[s].at = "conn"]
    BY <1>5 DEF Tick, Open, record
  <2>2. \A w \in Spawners : obs[w].at = "conn" => ~obs[w].due
    <3> TAKE w \in Spawners
    <3>1. Agent(<<"obs", w>>) = obs[w]
      BY DEF Agent
    <3>2. MayWait(<<"obs", w>>)
      BY <2>1, AgentKinds
    <3> QED BY <3>1, <3>2, Zenon DEF MayWait, At
  <2>3. \A s \in Sidebands : side[s].at = "conn" => ~side[s].due
    <3> TAKE s \in Sidebands
    <3>1. Agent(<<"side", s>>) = side[s]
      BY DEF Agent
    <3>2. MayWait(<<"side", s>>)
      BY <2>1, AgentKinds
    <3> QED BY <3>1, <3>2, Zenon DEF MayWait, At
  <2>4. \A w \in Spawners : Fresh(obs[w])'
    <3> TAKE w \in Spawners
    <3>1. /\ obs'[w].at = obs[w].at /\ obs'[w].kept = obs[w].kept
          /\ obs[w].at = "conn" => obs'[w].due
      <4>1. obs[w] \in ObserverStates
        BY DEF TypeOK
      <4>2. obs'[w] = [obs[w] EXCEPT !.due = obs[w].at = "conn"]
        BY <2>1
      <4> QED BY <4>1, <4>2, Zenon DEF ObserverStates
    <3>2. obs[w].at = "conn" /\ obs[w].kept => lease = LeaseTTL
      BY <2>1, <2>2 DEF Counted, Fresh
    <3> QED BY <1>0, <2>1, <3>1, <3>2 DEF Fresh, Elapsed
  <2>5. \A s \in Sidebands : Fresh(side[s])'
    <3> TAKE s \in Sidebands
    <3>1. /\ side'[s].at = side[s].at /\ side'[s].kept = side[s].kept
          /\ side[s].at = "conn" => side'[s].due
      <4>1. side[s] \in SidebandStates
        BY DEF TypeOK
      <4>2. side'[s] = [side[s] EXCEPT !.due = side[s].at = "conn"]
        BY <2>1
      <4> QED BY <4>1, <4>2, Zenon DEF SidebandStates
    <3>2. side[s].at = "conn" /\ side[s].kept => lease = LeaseTTL
      BY <2>1, <2>3 DEF Counted, Fresh
    <3> QED BY <1>0, <2>1, <3>1, <3>2 DEF Fresh, Elapsed
  <2> QED BY <2>4, <2>5 DEF Counted
<1>6. CASE RecordExpires
  BY <1>6 DEF RecordExpires, SetController, Open
<1>7. CASE Crash
  BY <1>7, CrashStops DEF Counted, Fresh
<1>8. CASE UNCHANGED vars
  BY <1>8 DEF vars, Counted, Fresh, Open
<1> QED BY <1>1, <1>2, <1>3, <1>4, <1>5, <1>6, <1>7, <1>8 DEF Next

-----------------------------------------------------------------------------
Inv == TypeOK /\ Unstarted /\ Kept /\ LogInv /\ Counted

LEMMA InvInit == Init => Inv
<1> SUFFICES ASSUME Init PROVE Inv
  OBVIOUS
<1>1. /\ \A w \in Spawners : obs[w].at = "idle"
      /\ \A s \in Sidebands : side[s].at = "idle"
  BY DEF Init, ObserverAt, SidebandAt
<1>2. TypeOK
  BY TypeInit
<1> QED
  BY <1>1, <1>2 DEF Init, Inv, Unstarted, Kept, LogInv, OneEnds, NoneEnds, Ends, Open,
     Spawners, Proxying, Counted, Fresh

LEMMA InvNext == Inv /\ [Next]_vars => Inv'
BY TypeNext, UnstartedNext, KeptNext, LogNext, CountedNext DEF Inv

LEMMA InvHolds == Spec => []Inv
BY InvInit, InvNext, PTL DEF Spec

\* An open call that was answered has someone who controls it or is about to
\* end it, unless one of Losses happened, the claim run again among them.
THEOREM KeeperHolds == Spec => []OpenCallHasKeeper
<1>1. Inv => OpenCallHasKeeper
  BY KeeperKinds DEF Inv, Kept, Ender, OpenCallHasKeeper
<1> QED BY <1>1, InvHolds, PTL

\* At most one usage log is written for a call.
THEOREM OneLogHolds == Spec => []OneLogPerCall
<1>1. Inv => OneLogPerCall
  BY DEF Inv, LogInv, OneLogPerCall
<1> QED BY <1>1, InvHolds, PTL

\* A lease that is gone is not there again.
THEOREM LeaseStaysAway == Spec => ReleasedLeaseStaysAway
<1>1. TypeOK /\ [Next]_vars => [create # "start" /\ lease = 0 => lease' = 0]_vars
  <2> SUFFICES ASSUME TypeOK, [Next]_vars, create # "start", lease = 0 PROVE lease' = 0
    OBVIOUS
  <2>1. CASE CreateStep
    BY <2>1 DEF CreateStep, AcquireLease, CreateUpstream, Save, SaveFails
  <2>2. CASE \E w \in Spawners : ObserverStep(w) \/ ObserverTrouble(w)
    BY <2>2, ObserverMoves
  <2>3. CASE \E s \in Sidebands : Join(s) \/ SidebandStep(s) \/ SidebandTrouble(s)
    BY <2>3, SidebandMoves
  <2>4. CASE \E a \in Agents : Finalize(a) \/ MarkIsLost(a) \/ ReleaseLeaseFails(a)
    BY <2>4, FinalizeMoves
  <2>5. CASE Tick \/ RecordExpires
    BY <2>5, OthersStay
  <2>6. CASE Crash
    BY <2>6, CrashStops
  <2>7. CASE UNCHANGED vars
    BY <2>7 DEF vars
  <2> QED BY <2>1, <2>2, <2>3, <2>4, <2>5, <2>6, <2>7 DEF Next
<1> QED BY <1>1, TypeInit, TypeNext, PTL DEF Spec, ReleasedLeaseStaysAway
\* A connection that has refreshed the lease is counted while the call is open.
THEOREM StableConnectionsCount == Spec => []StableConnectionIsCounted
<1>1. Inv => StableConnectionIsCounted
  <2> SUFFICES ASSUME Inv, NEW a \in Agents, At(a) = "conn", Agent(a).kept, Open
               PROVE  lease >= LeaseTTL - 1
    BY DEF StableConnectionIsCounted
  <2>1. \/ \E w \in Spawners : Agent(a) = obs[w]
        \/ \E s \in Sidebands : Agent(a) = side[s]
    BY AgentKinds DEF Agent, Agents
  <2> QED BY <2>1 DEF Inv, Counted, Fresh, At
<1> QED BY <1>1, InvHolds, PTL
=============================================================================
