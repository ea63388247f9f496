-------------------------- MODULE OAuthTokensProofs --------------------------
(***************************************************************************)
(* For every set of requests, every number of retries, generations, faults *)
(* and operations of the administrator: the types, TokenSurvives,          *)
(* RefreshTokenIsUsedOnce, FillIsNotOlder and QuarantineIsDeserved.        *)
(*                                                                         *)
(* Typed is inductive.  TokenSurvives and RefreshTokenIsUsedOnce need each *)
(* other (Safe): a refresh that holds the lock alone (Exclusive) read the  *)
(* row when no successor was in anybody's hands, so TokenSurvives says its *)
(* token is good (CallIsGood), and the token it is given replaces the one  *)
(* in the row.  FillIsNotOlder needs that versions are ordered like the    *)
(* generations in every copy of the credentials (Ordered), which needs     *)
(* that at most one successor is under way (OneSuccessor).                 *)
(* QuarantineIsDeserved holds whatever overlaps (Judged): a successor in   *)
(* hand was never in the row (Fresh), so what the background refresh saw   *)
(* refused cannot come back to the row while somebody has a good token     *)
(* (Doomed), and while the account is in error nobody has one (Condemned). *)
(***************************************************************************)
EXTENDS OAuthTokens, TLAPS

(* The types, one variable or a few at a time. *)

Accounts ==
    /\ row \in Row
    /\ issued \in Gens /\ live \subseteq 1..issued /\ due \in 0..issued /\ cache \in 0..MaxGen
    /\ lock \in Refreshers \cup {None, Orphan}
    /\ mutex \in [Places -> Refreshers \cup {None}]
AdminRecords ==
    [pc : {"idle", "call", "load", "write", "clear", "invalidate"},
     kind : AdminKinds \cup {"none"}, new : 0..MaxGen, gen : Gens, ver : Nat,
     exp : 0..MaxGen, status : {"active", "error"}, schedulable : BOOLEAN]
Admins == admin \in AdminRecords /\ (admin.pc \notin {"load", "write"} => admin.new = 0)
Counters == saves \in Nat /\ faults \in 0..MaxFaults /\ ops \in 0..MaxAdmin
Histories == lost \in BOOLEAN /\ excused \in BOOLEAN /\ unguarded \subseteq {"lock", "admin", "form"}

\* A refresher about to save has got something from the provider.
Good(a) == a \in Agent /\ (a.pc = "save" => a.new \in Gens)
Agents == agent \in [Refreshers -> Agent] /\ \A h \in Refreshers : Good(agent[h])
Moves(h) == agent' = [agent EXCEPT ![h] = agent'[h]] /\ Good(agent'[h])

Typed == Accounts /\ Agents /\ Admins /\ Counters /\ Histories

LEMMA Bounds ==
    /\ MaxGen \in Nat /\ MaxGen > 0 /\ MaxRetries \in Nat /\ MaxRetries > 0
    /\ MaxFaults \in Nat /\ MaxAdmin \in Nat
  BY OAuthAssumption

LEMMA Ranges ==
    /\ {0, 1} \subseteq 0..MaxRetries /\ 0 \in 0..MaxGen /\ 1 \in Gens /\ Gens \subseteq 0..MaxGen
    /\ 0..MaxGen \subseteq Gens \cup {0}
    /\ \A t \in 0..MaxRetries : t < MaxRetries => t + 1 \in 0..MaxRetries
    /\ \A g \in Gens : g < MaxGen => g + 1 \in Gens
    /\ 0 \in Nat /\ \A n \in Nat : n + 1 \in Nat
  BY Bounds DEF Gens

LEMMA Records == Blank \in Credentials /\ Good(Resting) /\ Resting.pc = "idle"
  BY Ranges DEF Resting, Blank, Good, Agent, Credentials, Locations, Outcomes

\* Only h moves.
LEMMA OneMoves == ASSUME Agents, NEW h \in Refreshers, Moves(h) PROVE Agents'
  BY DEF Agents, Moves, Good

\* The records refreshers become.
LEMMA Steps ==
    ASSUME Agents, NEW h \in Refreshers, NEW p \in Locations \ {"save"}
    PROVE  /\ Good([agent[h] EXCEPT !.pc = p])
           /\ Good([Resting EXCEPT !.pc = p])
           /\ \A g \in 0..MaxGen : Good([Resting EXCEPT !.pc = p, !.token = g])
           /\ \A t \in 0..MaxRetries : Good([Resting EXCEPT !.pc = p, !.tries = t])
           /\ \A c \in Credentials : Good([Resting EXCEPT !.pc = p, !.acct = c])
           /\ \A c \in Credentials : Good([agent[h] EXCEPT !.pc = p, !.work = c])
           /\ \A c \in Credentials, o \in Outcomes : Good([agent[h] EXCEPT !.pc = p, !.out = o, !.work = c])
           /\ \A c \in Credentials, o \in Outcomes :
                 Good([agent[h] EXCEPT !.pc = p, !.out = o, !.new = 0, !.work = c])
           /\ Good([agent[h] EXCEPT !.pc = p, !.out = "none", !.locked = FALSE])
           /\ agent[h].acct \in Credentials /\ agent[h].work \in Credentials
           /\ agent[h].tries \in 0..MaxRetries
  BY Records, Ranges, ZenonT(60) DEF Agents, Good, Agent, Outcomes

LEMMA Sends == ASSUME Agents, NEW h \in Refreshers, NEW g \in 0..MaxGen, Send(h, g) PROVE Moves(h)
  BY Steps DEF Moves, Agents, Send, Locations

LEMMA Finishes ==
    ASSUME Agents, NEW h \in Refreshers, NEW o \in Outcomes, Finish(h, o)
    PROVE  Moves(h)
<1>1. agent' = [agent EXCEPT ![h] = [agent[h] EXCEPT !.pc = "release", !.out = o, !.new = 0,
                                                    !.work = Blank]]
  BY DEF Finish
<1> QED BY <1>1, Steps, Records DEF Moves, Agents, Locations

LEMMA AfterType == ASSUME Agents, NEW h \in Refreshers PROVE Good(After(h))
<1> DEFINE a == agent[h]
<1>1. Good(AfterBackground(a))
  BY Steps, Records, Ranges DEF AfterBackground, Locations
<1>2. Good(AfterRequest(a))
  BY Steps, Records, Ranges DEF AfterRequest, Locations
<1> QED BY <1>1, <1>2 DEF After

LEMMA NoOpTypes ==
    /\ NoOp \in AdminRecords /\ NoOp.new = 0
    /\ \A k \in AdminKinds \cup {"none"}, p \in {"invalidate", "clear"} :
          /\ [NoOp EXCEPT !.kind = k, !.pc = p] \in AdminRecords
          /\ [NoOp EXCEPT !.kind = k, !.pc = p].new = 0
  BY Ranges DEF AdminRecords, NoOp

LEMMA NoOps ==
    /\ admin' = NoOp => Admins'
    /\ \A k \in AdminKinds \cup {"none"}, p \in {"invalidate", "clear"} :
          admin' = [NoOp EXCEPT !.kind = k, !.pc = p] => Admins'
  BY NoOpTypes DEF Admins

LEMMA Reads == ASSUME Accounts, NEW h
    PROVE  Read(h) \in Credentials /\ row.gen \in Gens /\ row.gen \in 0..MaxGen /\ row.ver \in Nat
  BY Ranges DEF Accounts, Row, Read, Credentials

\* RefreshIfNeeded keeps the types.
LEMMA RefreshTypes ==
    ASSUME Typed, NEW h \in Refreshers,
           \/ LockMutex(h) \/ AcquireRefreshLock(h) \/ Reread(h) \/ Refresh(h)
           \/ SaveCredentials(h) \/ TryRecoverFromRefreshRace(h) \/ ReleaseRefreshLock(h)
    PROVE  Typed'
<1> USE DEF Typed, provider, locks, budget, history, At, Fault
<1>0. h \in Refreshers
  BY DEF Refreshers
<1>1. CASE LockMutex(h)
  <2> USE <1>1 DEF LockMutex
  <2>1. Moves(h)
    BY <1>0, Steps DEF Moves, Agents, Goto, Locations
  <2>2. Accounts'
    BY <1>0 DEF Accounts, Places, Place
  <2>3. Counters'
    BY Bounds DEF Counters
  <2>4. Histories'
    BY DEF Histories
  <2> QED BY <1>0, <2>1, <2>2, <2>3, <2>4, OneMoves DEF Admins
<1>2. CASE AcquireRefreshLock(h)
  <2> USE <1>2 DEF AcquireRefreshLock
  <2>1. Moves(h)
    <3> QED BY <1>0, Ranges, Records
           DEF Moves, Good, Agents, Agent, Locations, Outcomes, Finish, Goto
  <2>2. Accounts'
    BY <1>0 DEF Accounts, LeftBehind
  <2>3. Counters'
    BY Bounds DEF Counters
  <2>4. Histories'
    BY DEF Histories
  <2> QED BY <1>0, <2>1, <2>2, <2>3, <2>4, OneMoves DEF Admins
<1>3. CASE Reread(h)
  <2> USE <1>3 DEF Reread
  <2>1. Moves(h)
    <3> QED BY <1>0, Ranges, Records, Reads
           DEF Moves, Good, Agents, Agent, Locations, Outcomes, Finish
  <2>2. Accounts'
    BY DEF Accounts
  <2>3. Counters'
    BY Bounds DEF Counters
  <2>4. Histories'
    BY DEF Histories
  <2> QED BY <1>0, <2>1, <2>2, <2>3, <2>4, OneMoves DEF Admins
<1>4. CASE Refresh(h)
  <2> USE <1>4 DEF Refresh
  <2>1. Moves(h)
    <3>1. issued < MaxGen => issued + 1 \in Gens
      BY Ranges DEF Accounts
    <3> QED BY <1>0, Ranges, Records, <3>1, SMTT(60)
           DEF Moves, Good, Agents, Agent, Locations, Outcomes, Finish, Goto, Rotate
  <2>2. Accounts'
    BY Bounds DEF Accounts, Gens, Rotate
  <2>3. Counters'
    BY Bounds DEF Counters
  <2>4. Histories'
    BY DEF Histories
  <2> QED BY <1>0, <2>1, <2>2, <2>3, <2>4, OneMoves DEF Admins
<1>5. CASE SaveCredentials(h)
  <2> USE <1>5 DEF SaveCredentials
  <2>1. Moves(h)
    <3> DEFINE w == [agent[h].work EXCEPT !.gen = agent[h].new, !.ver = saves + 1,
                                          !.exp = agent[h].new]
    <3>1. /\ agent[h] \in Agent /\ agent[h].new \in Gens /\ saves + 1 \in Nat
          /\ agent[h].work \in Credentials
      BY <1>0, Ranges DEF Agents, Good, Agent, Counters
    <3>2. w \in Credentials
      BY <3>1, Ranges DEF Credentials
    <3>3. CASE Finish(h, "cancelled") \/ Finish(h, "failed")
      BY <1>0, <3>3, Finishes DEF Outcomes
    <3>4. CASE agent' = [agent EXCEPT ![h].pc = "release", ![h].out = "refreshed", ![h].new = 0,
                           ![h].work = [@ EXCEPT !.gen = agent[h].new, !.ver = saves + 1,
                                                 !.exp = agent[h].new]]
      <4>1. agent' = [agent EXCEPT ![h].pc = "release", ![h].out = "refreshed", ![h].new = 0,
                                   ![h].work = w]
        BY <3>4
      <4> HIDE DEF w
      <4> QED BY <1>0, <3>2, <4>1, Steps DEF Moves, Agents, Locations, Outcomes
    <3> QED BY <3>3, <3>4
  <2>2. Accounts'
    <3>1. agent[h].new \in Gens /\ saves + 1 \in Nat
      BY <1>0, Ranges DEF Agents, Good, Agent, Counters
    <3> QED BY <3>1, Ranges DEF Accounts, Row
  <2>3. Counters'
    BY Bounds, SMTT(60) DEF Counters
  <2>4. Histories'
    BY DEF Histories
  <2> QED BY <1>0, <2>1, <2>2, <2>3, <2>4, OneMoves DEF Admins
<1>6. CASE TryRecoverFromRefreshRace(h)
  <2> USE <1>6 DEF TryRecoverFromRefreshRace
  <2>1. Moves(h)
    <3>1. InHand(h) \in BOOLEAN
      BY DEF InHand
    <3> QED BY <1>0, Ranges, Records, <3>1, Reads
           DEF Moves, Good, Agents, Agent, Locations, Outcomes
  <2>2. Accounts'
    BY DEF Accounts
  <2>3. Counters'
    BY Bounds, SMTT(60) DEF Counters
  <2>4. Histories'
    BY DEF Histories
  <2> QED BY <1>0, <2>1, <2>2, <2>3, <2>4, OneMoves DEF Admins
<1>7. CASE ReleaseRefreshLock(h)
  <2> USE <1>7 DEF ReleaseRefreshLock, Deletes
  <2>1. Agents'
    <3>1. CASE UNCHANGED agent
      BY <3>1 DEF Agents, Good
    <3>2. CASE agent' = [agent EXCEPT ![h] = After(h)]
      <4>1. Moves(h)
        BY <1>0, <3>2, AfterType DEF Moves, Agents
      <4> QED BY <1>0, <4>1, OneMoves
    <3> QED BY <3>1, <3>2
  <2>2. Accounts'
    BY <1>0 DEF Accounts, Places, Place
  <2>3. Counters'
    BY Bounds DEF Counters
  <2>4. Histories'
    BY DEF Histories
  <2> QED BY <1>0, <2>1, <2>2, <2>3, <2>4 DEF Admins
<1> QED BY <1>1, <1>2, <1>3, <1>4, <1>5, <1>6, <1>7

\* So does the background refresh,
LEMMA BackgroundTypes ==
    ASSUME Typed, NEW h \in Refreshers,
           \/ ListCandidate(h) \/ ClearCooldown(h) \/ InvalidateToken(h) \/ Quarantine(h)
           \/ CoolDown(h)
    PROVE  Typed'
<1> USE DEF Typed, provider, locks, budget, history, At, Fault
<1>0. h \in Refreshers
  BY DEF Refreshers
<1>1. CASE ListCandidate(h)
  <2> USE <1>1 DEF ListCandidate
  <2>1. Moves(h)
    <3> QED BY <1>0, Ranges, Records, ZenonT(60)
           DEF Moves, Good, Agents, Agent, Locations, Outcomes
  <2>2. Accounts'
    BY DEF Accounts
  <2>3. Counters'
    BY Bounds DEF Counters
  <2>4. Histories'
    BY DEF Histories
  <2> QED BY <1>0, <2>1, <2>2, <2>3, <2>4, OneMoves DEF Admins
<1>2. CASE ClearCooldown(h)
  <2> USE <1>2 DEF ClearCooldown
  <2>1. Moves(h)
    <3> QED BY <1>0, Ranges, Records
           DEF Moves, Good, Agents, Agent, Locations, Outcomes
  <2>2. Accounts'
    BY DEF Accounts, Row, Cooldowns
  <2>3. Counters'
    BY Bounds DEF Counters
  <2>4. Histories'
    BY DEF Histories
  <2> QED BY <1>0, <2>1, <2>2, <2>3, <2>4, OneMoves DEF Admins
<1>3. CASE InvalidateToken(h)
  <2> USE <1>3 DEF InvalidateToken
  <2>1. Moves(h)
    BY <1>0, Records DEF Moves, Agents, Rest
  <2>2. Accounts'
    BY Ranges DEF Accounts
  <2>3. Counters'
    BY Bounds DEF Counters
  <2>4. Histories'
    BY DEF Histories
  <2> QED BY <1>0, <2>1, <2>2, <2>3, <2>4, OneMoves DEF Admins
<1>4. CASE Quarantine(h)
  <2> USE <1>4 DEF Quarantine
  <2>1. Moves(h)
    <3> QED BY <1>0, Ranges, Records
           DEF Moves, Good, Agents, Agent, Locations, Outcomes
  <2>2. Accounts'
    BY DEF Accounts, Row, Cooldowns
  <2>3. Counters'
    BY Bounds DEF Counters
  <2>4. Histories'
    BY <1>0 DEF Histories, Agents, Good, Agent
  <2> QED BY <1>0, <2>1, <2>2, <2>3, <2>4, OneMoves DEF Admins
<1>5. CASE CoolDown(h)
  <2> USE <1>5 DEF CoolDown, SetCooldown
  <2>1. Moves(h)
    BY <1>0, Records DEF Moves, Agents, Rest
  <2>2. Accounts'
    BY DEF Accounts, Row, Cooldowns
  <2>3. Counters'
    BY Bounds DEF Counters
  <2>4. Histories'
    BY DEF Histories
  <2> QED BY <1>0, <2>1, <2>2, <2>3, <2>4, OneMoves DEF Admins
<1> QED BY <1>1, <1>2, <1>3, <1>4, <1>5

\* a request,
LEMMA RequestTypes ==
    ASSUME Typed, NEW h \in Requests,
           \/ Begin(h) \/ GetCachedToken(h) \/ WaitForCache(h) \/ CheckTokenVersion(h)
           \/ SetAccessToken(h) \/ Use(h) \/ Reject(h) \/ Bench(h)
    PROVE  Typed'
<1> USE DEF Typed, provider, locks, budget, history, At, Fault
<1>0. h \in Refreshers
  BY DEF Refreshers
<1>1. CASE Begin(h)
  <2> USE <1>1 DEF Begin
  <2>1. Moves(h)
    <3> QED BY <1>0, Ranges, Records, Reads, ZenonT(60)
           DEF Moves, Good, Agents, Agent, Locations, Outcomes
  <2>2. Accounts'
    BY DEF Accounts
  <2>3. Counters'
    BY Bounds DEF Counters
  <2>4. Histories'
    BY DEF Histories
  <2> QED BY <1>0, <2>1, <2>2, <2>3, <2>4, OneMoves DEF Admins
<1>2. CASE GetCachedToken(h)
  <2> USE <1>2 DEF GetCachedToken
  <2>1. Moves(h)
    <3>1. CASE Send(h, cache)
      BY <1>0, <3>1, Sends DEF Accounts
    <3>2. ASSUME NEW p \in {"mutex", "check"}, Goto(h, p) PROVE Moves(h)
      BY <1>0, <3>2, Steps DEF Moves, Agents, Goto, Locations
    <3> QED BY <3>1, <3>2
  <2>2. Accounts'
    BY DEF Accounts
  <2>3. Counters'
    BY Bounds DEF Counters, Missed
  <2>4. Histories'
    BY DEF Histories
  <2> QED BY <1>0, <2>1, <2>2, <2>3, <2>4, OneMoves DEF Admins
<1>3. CASE WaitForCache(h)
  <2> USE <1>3 DEF WaitForCache
  <2>1. Moves(h)
    <3>1. CASE Send(h, cache)
      BY <1>0, <3>1, Sends DEF Accounts
    <3>2. CASE Goto(h, "check")
      BY <1>0, <3>2, Steps DEF Moves, Agents, Goto, Locations
    <3> QED BY <3>1, <3>2
  <2>2. Accounts'
    BY DEF Accounts
  <2>3. Counters'
    BY Bounds DEF Counters, Missed
  <2>4. Histories'
    BY DEF Histories
  <2> QED BY <1>0, <2>1, <2>2, <2>3, <2>4, OneMoves DEF Admins
<1>4. CASE CheckTokenVersion(h)
  <2> USE <1>4 DEF CheckTokenVersion
  <2>1. Moves(h)
    <3>1. CASE Send(h, row.gen)
      BY <1>0, <3>1, Sends, Reads
    <3>2. CASE agent' = [agent EXCEPT ![h].pc = "fill", ![h].seen = row.gen, ![h].acct.ver = 0]
      <4>1. agent[h] \in Agent /\ [agent[h].acct EXCEPT !.ver = 0] \in Credentials
        BY <1>0, Ranges DEF Agents, Agent, Credentials
      <4> DEFINE a == [agent[h] EXCEPT !.pc = "fill", !.seen = row.gen, !.acct = [@ EXCEPT !.ver = 0]]
      <4>2. Good(a)
        BY <4>1, Reads DEF Good, Agent, Locations
      <4>3. agent' = [agent EXCEPT ![h] = a]
        BY <3>2
      <4> HIDE DEF a
      <4> QED BY <1>0, <4>2, <4>3 DEF Moves, Agents
    <3>3. CASE Goto(h, "fill")
      BY <1>0, <3>3, Steps DEF Moves, Agents, Goto, Locations
    <3> QED BY <3>1, <3>2, <3>3
  <2>2. Accounts'
    BY DEF Accounts
  <2>3. Counters'
    BY Bounds DEF Counters
  <2>4. Histories'
    BY DEF Histories
  <2> QED BY <1>0, <2>1, <2>2, <2>3, <2>4, OneMoves DEF Admins
<1>5. CASE SetAccessToken(h)
  <2> USE <1>5 DEF SetAccessToken
  <2>1. Moves(h)
    <3> QED BY <1>0, Ranges, Records, ZenonT(60)
           DEF Moves, Good, Agents, Agent, Locations, Outcomes, Send, Credentials
  <2>2. Accounts'
    BY <1>0, Ranges DEF Accounts, Agents, Good, Agent, Credentials
  <2>3. Counters'
    BY Bounds DEF Counters
  <2>4. Histories'
    BY DEF Histories
  <2> QED BY <1>0, <2>1, <2>2, <2>3, <2>4, OneMoves DEF Admins
<1>6. CASE Use(h)
  <2> USE <1>6 DEF Use
  <2>1. Moves(h)
    <3> QED BY <1>0, Ranges, Records
           DEF Moves, Good, Agents, Agent, Locations, Outcomes, Rest
  <2>2. Accounts'
    BY DEF Accounts
  <2>3. Counters'
    BY Bounds DEF Counters
  <2>4. Histories'
    BY DEF Histories
  <2> QED BY <1>0, <2>1, <2>2, <2>3, <2>4, OneMoves DEF Admins
<1>7. CASE Reject(h)
  <2> USE <1>7 DEF Reject
  <2>1. Moves(h)
    BY <1>0, Steps DEF Moves, Agents, Goto, Locations
  <2>2. Accounts'
    BY Ranges DEF Accounts
  <2>3. Counters'
    BY Bounds DEF Counters
  <2>4. Histories'
    BY DEF Histories
  <2> QED BY <1>0, <2>1, <2>2, <2>3, <2>4, OneMoves DEF Admins
<1>8. CASE Bench(h)
  <2> USE <1>8 DEF Bench, SetCooldown
  <2>1. Moves(h)
    BY <1>0, Records DEF Moves, Agents, Rest
  <2>2. Accounts'
    BY DEF Accounts, Row, Cooldowns
  <2>3. Counters'
    BY Bounds DEF Counters
  <2>4. Histories'
    BY DEF Histories
  <2> QED BY <1>0, <2>1, <2>2, <2>3, <2>4, OneMoves DEF Admins
<1> QED BY <1>1, <1>2, <1>3, <1>4, <1>5, <1>6, <1>7, <1>8

LEMMA Begun ==
    ASSUME Typed, NEW k, Begins(k)
    PROVE  k \in AdminKinds /\ admin = NoOp /\ (UNCHANGED saves => Counters')
  BY Bounds DEF Typed, Begins, Counters

LEMMA Formed ==
    ASSUME Typed, NEW ver \in 0..saves, NEW exp \in 0..issued
    PROVE  ver \in Nat /\ exp \in 0..MaxGen
  BY Bounds DEF Typed, Accounts, Counters, Gens

\* the administrator,
LEMMA AdminTypes ==
    ASSUME Typed,
           \/ ReadForRefresh \/ RefreshManually \/ Authorize \/ LoadAccount \/ WriteAccount
           \/ ClearAccountError \/ InvalidateAfterAdmin
    PROVE  Typed'
<1> USE DEF Typed, provider, locks, budget, history, Fault, Begins
<1>1. CASE ReadForRefresh
  <2> USE <1>1 DEF ReadForRefresh
  <2>1. Admins'
    BY Ranges DEF Accounts, Row, Admins, AdminRecords, NoOp
  <2>2. Accounts'
    BY DEF Accounts
  <2>3. Counters'
    BY Bounds DEF Counters
  <2>4. Histories'
    BY DEF Histories
  <2> QED BY <2>1, <2>2, <2>3, <2>4 DEF Agents
<1>2. CASE RefreshManually
  <2> USE <1>2 DEF RefreshManually
  <2>1. Admins'
    <3>1. CASE /\ admin.gen \in live /\ Rotate(admin.gen)
               /\ admin' = [admin EXCEPT !.pc = "load", !.new = issued + 1]
      <4>1. issued + 1 \in 0..MaxGen
        BY <3>1, Ranges DEF Accounts, Rotate
      <4> QED BY <3>1, <4>1 DEF Admins, AdminRecords
    <3>2. CASE AdminEnds
      BY <3>2, NoOps DEF AdminEnds
    <3> QED BY <3>1, <3>2
  <2>2. Accounts'
    BY Bounds DEF Accounts, Gens, Rotate
  <2>3. Counters'
    BY Bounds DEF Counters
  <2>4. Histories'
    BY DEF Histories
  <2> QED BY <2>1, <2>2, <2>3, <2>4 DEF Agents
<1>3. CASE Authorize
  <2> USE <1>3 DEF Authorize
  <2>1. Admins'
    BY Ranges, Bounds DEF Accounts, Gens, Admins, AdminRecords, NoOp
  <2>2. Accounts'
    BY Bounds DEF Accounts, Gens, Rotate
  <2>3. Counters'
    BY Bounds DEF Counters
  <2>4. Histories'
    BY DEF Histories
  <2> QED BY <2>1, <2>2, <2>3, <2>4 DEF Agents
<1>4. CASE LoadAccount
  <2> USE <1>4 DEF LoadAccount
  <2>1. Admins'
    <3>1. CASE admin.pc = "load" /\ admin' = [admin EXCEPT !.pc = "write", !.status = row.status,
                                                !.schedulable = row.schedulable]
      BY <3>1 DEF Accounts, Row, Admins, AdminRecords
    <3>2. ASSUME NEW ver \in 0..saves, NEW exp \in 0..issued, Begins("update"),
                 admin' = [NoOp EXCEPT !.kind = "update", !.pc = "write", !.gen = row.gen,
                             !.ver = ver, !.exp = exp, !.status = row.status,
                             !.schedulable = row.schedulable]
          PROVE  Admins'
      <4>1. "update" \in AdminKinds
        BY <3>2, Begun
      <4>2. ver \in Nat /\ exp \in 0..MaxGen
        BY <3>2, Formed
      <4>3. row.gen \in Gens /\ row.status \in {"active", "error"} /\ row.schedulable \in BOOLEAN
        BY DEF Accounts, Row
      <4>4. admin' \in AdminRecords /\ admin'.new = 0
        BY <3>2, <4>1, <4>2, <4>3, NoOpTypes DEF AdminRecords
      <4> QED BY <4>4 DEF Admins
    <3> QED BY <3>1, <3>2
  <2>2. Accounts'
    BY DEF Accounts
  <2>3. Counters'
    <3>1. CASE UNCHANGED budget
      BY <3>1 DEF Counters
    <3>2. CASE Begins("update")
      BY <3>2, Begun
    <3> QED BY <3>1, <3>2
  <2>4. Histories'
    BY DEF Histories
  <2> QED BY <2>1, <2>2, <2>3, <2>4 DEF Agents
<1>5. CASE WriteAccount
  <2> USE <1>5 DEF WriteAccount
  <2>1. Admins'
    <3>1. admin.kind \in AdminKinds \cup {"none"}
      BY DEF Admins, AdminRecords
    <3>2. \/ admin' = NoOp
          \/ admin' = [NoOp EXCEPT !.kind = admin.kind, !.pc = "invalidate"]
          \/ admin' = [NoOp EXCEPT !.kind = admin.kind, !.pc = "clear"]
      BY DEF AdminEnds
    <3> QED BY <3>1, <3>2, NoOps
  <2>2. Accounts'
    <3>1. /\ admin.gen \in Gens /\ admin.ver \in Nat /\ admin.exp \in 0..MaxGen
          /\ admin.status \in {"active", "error"} /\ admin.schedulable \in BOOLEAN
          /\ admin.new # 0 => admin.new \in Gens /\ admin.new \in 0..MaxGen
      BY Ranges DEF Admins, AdminRecords
    <3>2. row' \in Row
      <4>1. CASE row' = row
        BY <4>1 DEF Accounts
      <4>2. CASE row' = [row EXCEPT
                     !.gen = IF admin.new = 0 THEN admin.gen ELSE admin.new, !.ver = admin.ver,
                     !.exp = IF admin.new = 0 THEN admin.exp ELSE admin.new, !.status = admin.status,
                     !.schedulable = admin.schedulable /\ admin.status = "active"]
        BY <4>2, <3>1 DEF Accounts, Row
      <4> QED BY <4>1, <4>2
    <3> QED BY <3>2 DEF Accounts
  <2>3. Counters'
    BY Bounds DEF Counters
  <2>4. Histories'
    BY DEF Histories
  <2> QED BY <2>1, <2>2, <2>3, <2>4 DEF Agents
<1>6. CASE ClearAccountError
  <2> USE <1>6 DEF ClearAccountError
  <2>1. Admins'
    BY DEF Admins, AdminRecords, AdminAt
  <2>2. Accounts'
    BY DEF Accounts, Row, Cooldowns
  <2>3. Counters'
    BY Bounds DEF Counters
  <2>4. Histories'
    BY DEF Histories
  <2> QED BY <2>1, <2>2, <2>3, <2>4 DEF Agents
<1>7. CASE InvalidateAfterAdmin
  <2> USE <1>7 DEF InvalidateAfterAdmin
  <2>1. Admins'
    BY NoOps DEF AdminEnds
  <2>2. Accounts'
    BY Ranges DEF Accounts
  <2>3. Counters'
    BY Bounds DEF Counters
  <2>4. Histories'
    BY DEF Histories
  <2> QED BY <2>1, <2>2, <2>3, <2>4 DEF Agents
<1> QED BY <1>1, <1>2, <1>3, <1>4, <1>5, <1>6, <1>7

\* time,
LEMMA TimeTypes ==
    ASSUME Typed, Age \/ ExpireCache \/ ExpireCooldown \/ ExpireLock
    PROVE  Typed'
<1> USE DEF Typed, provider, locks, budget, history, Age, ExpireCache, ExpireCooldown, ExpireLock
<1>1. Accounts'
  BY Ranges, Bounds DEF Accounts, Row, Gens, Cooldowns
<1>2. Histories'
  BY DEF Histories
<1> QED BY <1>1, <1>2 DEF Agents, Admins, Counters

\* and a crash.
LEMMA CrashTypes == ASSUME Typed, NEW p \in Places, Crash(p) PROVE Typed'
<1> USE DEF Typed, Crash, Fault, provider
<1>1. Agents'
  BY Records DEF Agents, Good
<1>2. Accounts'
  BY DEF Accounts
<1>3. Admins'
  BY NoOps DEF Admins
<1>4. Counters'
  BY Bounds DEF Counters
<1>5. Histories'
  BY DEF Histories
<1> QED BY <1>1, <1>2, <1>3, <1>4, <1>5

-----------------------------------------------------------------------------
(* TokenSurvives and RefreshTokenIsUsedOnce *)

\* Between taking the lock and giving it back; giving it back may delete it twice.
Inside == {"reread", "call", "save", "recover", "release"}
Owns(h) == agent[h].pc \in Inside \ {"release"}

\* Only there a refresher counts on the lock, and it is the one who has it.
Unlocked == \A h \in Refreshers : agent[h].pc \notin Inside => ~agent[h].locked
Exclusive == ~Overlapping => \A h \in Refreshers : Owns(h) => lock = h
AdminIsOutside == "admin" \notin unguarded => admin.new = 0 /\ admin.kind \in {"none", "update"}
\* A refresh that is alone presents a good token.
CallIsGood ==
    lost \/ Overlapping \/ \A h \in Refreshers : At(h, "call") => agent[h].work.gen \in live

Safe == TokenSurvives /\ Unlocked /\ Exclusive /\ AdminIsOutside /\ CallIsGood

\* What the steps outside of RefreshIfNeeded leave alone.
LEMMA OutsideSteps ==
    ASSUME Typed, Unlocked, NEW h \in Refreshers,
           BackgroundSteps(h) \/ (h \in Requests /\ (Begin(h) \/ RequestSteps(h)))
    PROVE  /\ UNCHANGED <<live, lock, admin, lost, unguarded>> /\ row'.gen = row.gen
           /\ \A k \in Refreshers \ {h} : agent'[k] = agent[k]
           /\ agent[h].pc \notin Inside /\ agent'[h].pc \notin Inside /\ ~agent'[h].locked
<1>a. agent \in [Refreshers -> Agent] /\ h \in DOMAIN agent /\ agent[h] \in Agent
  BY DEF Typed, Agents
<1>b. row \in Row
  BY DEF Typed, Accounts
<1>1. CASE ListCandidate(h)
  <2>1. UNCHANGED <<live, lock, admin, lost, unguarded>> /\ row'.gen = row.gen
    BY <1>b, <1>1 DEF ListCandidate, provider, locks, history, Row
  <2>2. \A k \in Refreshers \ {h} : agent'[k] = agent[k]
    BY <1>a, <1>1 DEF ListCandidate
  <2>3. agent[h].pc \notin Inside /\ agent'[h].pc \notin Inside
    BY <1>a, <1>1 DEF ListCandidate, At, Inside, Agent
  <2>4. agent'[h].locked => agent[h].locked
    BY <1>a, <1>1 DEF ListCandidate, Agent
  <2> QED BY <2>1, <2>2, <2>3, <2>4 DEF Unlocked
<1>2. CASE ClearCooldown(h)
  <2>1. UNCHANGED <<live, lock, admin, lost, unguarded>> /\ row'.gen = row.gen
    BY <1>b, <1>2 DEF ClearCooldown, provider, locks, history, Row
  <2>2. \A k \in Refreshers \ {h} : agent'[k] = agent[k]
    BY <1>a, <1>2 DEF ClearCooldown, Resting
  <2>3. agent[h].pc \notin Inside /\ agent'[h].pc \notin Inside
    BY <1>a, <1>2 DEF ClearCooldown, At, Inside, Agent, Resting
  <2>4. agent'[h].locked => agent[h].locked
    BY <1>a, <1>2 DEF ClearCooldown, Agent, Resting
  <2> QED BY <2>1, <2>2, <2>3, <2>4 DEF Unlocked
<1>3. CASE InvalidateToken(h)
  <2>1. UNCHANGED <<live, lock, admin, lost, unguarded>> /\ row'.gen = row.gen
    BY <1>b, <1>3 DEF InvalidateToken, provider, locks, history, Row
  <2>2. \A k \in Refreshers \ {h} : agent'[k] = agent[k]
    BY <1>a, <1>3 DEF InvalidateToken, Rest, Resting
  <2>3. agent[h].pc \notin Inside /\ agent'[h].pc \notin Inside
    BY <1>a, <1>3 DEF InvalidateToken, At, Inside, Agent, Rest, Resting
  <2>4. agent'[h].locked => agent[h].locked
    BY <1>a, <1>3 DEF InvalidateToken, Agent, Rest, Resting
  <2> QED BY <2>1, <2>2, <2>3, <2>4 DEF Unlocked
<1>4. CASE Quarantine(h)
  <2>1. UNCHANGED <<live, lock, admin, lost, unguarded>> /\ row'.gen = row.gen
    BY <1>b, <1>4 DEF Quarantine, provider, locks, history, Row
  <2>2. \A k \in Refreshers \ {h} : agent'[k] = agent[k]
    BY <1>a, <1>4 DEF Quarantine, Resting
  <2>3. agent[h].pc \notin Inside /\ agent'[h].pc \notin Inside
    BY <1>a, <1>4 DEF Quarantine, At, Inside, Agent, Resting
  <2>4. agent'[h].locked => agent[h].locked
    BY <1>a, <1>4 DEF Quarantine, Agent, Resting
  <2> QED BY <2>1, <2>2, <2>3, <2>4 DEF Unlocked
<1>5. CASE CoolDown(h)
  <2>1. UNCHANGED <<live, lock, admin, lost, unguarded>> /\ row'.gen = row.gen
    BY <1>b, <1>5 DEF CoolDown, SetCooldown, provider, locks, history, Row
  <2>2. \A k \in Refreshers \ {h} : agent'[k] = agent[k]
    BY <1>a, <1>5 DEF CoolDown, Rest, Resting
  <2>3. agent[h].pc \notin Inside /\ agent'[h].pc \notin Inside
    BY <1>a, <1>5 DEF CoolDown, At, Inside, Agent, Rest, Resting
  <2>4. agent'[h].locked => agent[h].locked
    BY <1>a, <1>5 DEF CoolDown, Agent, Rest, Resting
  <2> QED BY <2>1, <2>2, <2>3, <2>4 DEF Unlocked
<1>6. CASE Begin(h)
  <2>1. UNCHANGED <<live, lock, admin, lost, unguarded>> /\ row'.gen = row.gen
    BY <1>b, <1>6 DEF Begin, provider, locks, history, Row
  <2>2. \A k \in Refreshers \ {h} : agent'[k] = agent[k]
    BY <1>a, <1>6 DEF Begin
  <2>3. agent[h].pc \notin Inside /\ agent'[h].pc \notin Inside
    BY <1>a, <1>6 DEF Begin, At, Inside, Agent
  <2>4. agent'[h].locked => agent[h].locked
    BY <1>a, <1>6 DEF Begin, Agent
  <2> QED BY <2>1, <2>2, <2>3, <2>4 DEF Unlocked
<1>7. CASE GetCachedToken(h)
  <2>1. UNCHANGED <<live, lock, admin, lost, unguarded>> /\ row'.gen = row.gen
    BY <1>b, <1>7 DEF GetCachedToken, provider, locks, history, Row
  <2>2. \A k \in Refreshers \ {h} : agent'[k] = agent[k]
    BY <1>a, <1>7 DEF GetCachedToken, Send, Goto, Resting
  <2>3. agent[h].pc \notin Inside /\ agent'[h].pc \notin Inside
    BY <1>a, <1>7, ZenonT(60) DEF GetCachedToken, At, Inside, Agent, Send, Goto, Resting
  <2>4. agent'[h].locked => agent[h].locked
    BY <1>a, <1>7 DEF GetCachedToken, Agent, Send, Goto, Resting
  <2> QED BY <2>1, <2>2, <2>3, <2>4 DEF Unlocked
<1>8. CASE WaitForCache(h)
  <2>1. UNCHANGED <<live, lock, admin, lost, unguarded>> /\ row'.gen = row.gen
    BY <1>b, <1>8 DEF WaitForCache, provider, locks, history, Row
  <2>2. \A k \in Refreshers \ {h} : agent'[k] = agent[k]
    BY <1>a, <1>8 DEF WaitForCache, Send, Goto, Resting
  <2>3. agent[h].pc \notin Inside /\ agent'[h].pc \notin Inside
    BY <1>a, <1>8, ZenonT(60) DEF WaitForCache, At, Inside, Agent, Send, Goto, Resting
  <2>4. agent'[h].locked => agent[h].locked
    BY <1>a, <1>8 DEF WaitForCache, Agent, Send, Goto, Resting
  <2> QED BY <2>1, <2>2, <2>3, <2>4 DEF Unlocked
<1>9. CASE CheckTokenVersion(h)
  <2>1. UNCHANGED <<live, lock, admin, lost, unguarded>> /\ row'.gen = row.gen
    BY <1>b, <1>9 DEF CheckTokenVersion, provider, locks, history, Row
  <2>2. \A k \in Refreshers \ {h} : agent'[k] = agent[k]
    BY <1>a, <1>9 DEF CheckTokenVersion, Send, Goto, Resting
  <2>3. agent[h].pc \notin Inside /\ agent'[h].pc \notin Inside
    <3>1. CASE Send(h, row.gen) \/ Goto(h, "fill")
      BY <1>a, <1>9, <3>1, ZenonT(60) DEF CheckTokenVersion, At, Inside, Agent, Send, Goto, Resting
    <3>2. CASE agent' = [agent EXCEPT ![h].pc = "fill", ![h].seen = row.gen, ![h].acct.ver = 0]
      <4>1. agent'[h].pc = "fill"
        BY <1>a, <3>2 DEF Agent
      <4> QED BY <1>9, <4>1 DEF CheckTokenVersion, At, Inside
    <3> QED BY <1>9, <3>1, <3>2 DEF CheckTokenVersion
  <2>4. agent'[h].locked => agent[h].locked
    BY <1>a, <1>9, ZenonT(60) DEF CheckTokenVersion, Agent, Send, Goto, Resting
  <2> QED BY <2>1, <2>2, <2>3, <2>4 DEF Unlocked
<1>10. CASE SetAccessToken(h)
  <2>1. UNCHANGED <<live, lock, admin, lost, unguarded>> /\ row'.gen = row.gen
    BY <1>b, <1>10 DEF SetAccessToken, provider, locks, history, Row
  <2>2. \A k \in Refreshers \ {h} : agent'[k] = agent[k]
    BY <1>a, <1>10 DEF SetAccessToken, Send, Resting
  <2>3. agent[h].pc \notin Inside /\ agent'[h].pc \notin Inside
    BY <1>a, <1>10 DEF SetAccessToken, At, Inside, Agent, Send, Resting
  <2>4. agent'[h].locked => agent[h].locked
    BY <1>a, <1>10 DEF SetAccessToken, Agent, Send, Resting
  <2> QED BY <2>1, <2>2, <2>3, <2>4 DEF Unlocked
<1>11. CASE Use(h)
  <2>1. UNCHANGED <<live, lock, admin, lost, unguarded>> /\ row'.gen = row.gen
    BY <1>b, <1>11 DEF Use, provider, locks, history, Row
  <2>2. \A k \in Refreshers \ {h} : agent'[k] = agent[k]
    BY <1>a, <1>11 DEF Use, Rest, Resting
  <2>3. agent[h].pc \notin Inside /\ agent'[h].pc \notin Inside
    BY <1>a, <1>11 DEF Use, At, Inside, Agent, Rest, Resting
  <2>4. agent'[h].locked => agent[h].locked
    BY <1>a, <1>11 DEF Use, Agent, Rest, Resting
  <2> QED BY <2>1, <2>2, <2>3, <2>4 DEF Unlocked
<1>12. CASE Reject(h)
  <2>1. UNCHANGED <<live, lock, admin, lost, unguarded>> /\ row'.gen = row.gen
    BY <1>b, <1>12 DEF Reject, provider, locks, history, Row
  <2>2. \A k \in Refreshers \ {h} : agent'[k] = agent[k]
    BY <1>a, <1>12 DEF Reject, Goto
  <2>3. agent[h].pc \notin Inside /\ agent'[h].pc \notin Inside
    BY <1>a, <1>12 DEF Reject, At, Inside, Agent, Goto
  <2>4. agent'[h].locked => agent[h].locked
    BY <1>a, <1>12 DEF Reject, Agent, Goto
  <2> QED BY <2>1, <2>2, <2>3, <2>4 DEF Unlocked
<1>13. CASE Bench(h)
  <2>1. UNCHANGED <<live, lock, admin, lost, unguarded>> /\ row'.gen = row.gen
    BY <1>b, <1>13 DEF Bench, SetCooldown, provider, locks, history, Row
  <2>2. \A k \in Refreshers \ {h} : agent'[k] = agent[k]
    BY <1>a, <1>13 DEF Bench, Rest, Resting
  <2>3. agent[h].pc \notin Inside /\ agent'[h].pc \notin Inside
    BY <1>a, <1>13 DEF Bench, At, Inside, Agent, Rest, Resting
  <2>4. agent'[h].locked => agent[h].locked
    BY <1>a, <1>13 DEF Bench, Agent, Rest, Resting
  <2> QED BY <2>1, <2>2, <2>3, <2>4 DEF Unlocked
<1> QED BY <1>1, <1>2, <1>3, <1>4, <1>5, <1>6, <1>7, <1>8, <1>9, <1>10, <1>11, <1>12, <1>13
       DEF BackgroundSteps, RequestSteps

LEMMA OutsideIsSafe ==
    ASSUME Typed, Safe, NEW h \in Refreshers,
           BackgroundSteps(h) \/ (h \in Requests /\ (Begin(h) \/ RequestSteps(h)))
    PROVE  Safe'
<1>1. /\ UNCHANGED <<live, lock, admin, lost, unguarded>> /\ row'.gen = row.gen
      /\ \A k \in Refreshers \ {h} : agent'[k] = agent[k]
      /\ agent[h].pc \notin Inside /\ agent'[h].pc \notin Inside /\ ~agent'[h].locked
  BY OutsideSteps DEF Safe
<1>2. TokenSurvives'
  BY <1>1 DEF Safe, TokenSurvives, At, Inside
<1>3. Unlocked'
  BY <1>1 DEF Safe, Unlocked
<1>4. Exclusive'
  BY <1>1 DEF Safe, Exclusive, Overlapping, Owns, At, Inside
<1>5. AdminIsOutside' /\ CallIsGood'
  BY <1>1 DEF Safe, AdminIsOutside, CallIsGood, Overlapping, At, Inside
<1> QED BY <1>2, <1>3, <1>4, <1>5 DEF Safe

LEMMA RefreshOthers ==
    ASSUME NEW h \in Refreshers, Typed, RefreshSteps(h)
    PROVE  UNCHANGED admin /\ \A k \in Refreshers \ {h} : agent'[k] = agent[k]
  BY DEF Typed, Agents, RefreshSteps, LockMutex, AcquireRefreshLock, Reread, Refresh, SaveCredentials,
     TryRecoverFromRefreshRace, ReleaseRefreshLock, Goto, Finish

\* A step of RefreshIfNeeded that neither rotates nor saves.
LEMMA CarriesNothing ==
    ASSUME Safe, NEW h \in Refreshers, agent[h].pc # "save",
           UNCHANGED <<live, admin, lost>>, row'.gen = row.gen,
           \A k \in Refreshers \ {h} : agent'[k] = agent[k]
    PROVE  TokenSurvives'
  BY DEF Safe, TokenSurvives, At

LEMMA RefreshIsSafe ==
    ASSUME Typed, Safe, NEW h \in Refreshers, RefreshSteps(h)
    PROVE  Safe'
<1>0. UNCHANGED admin /\ \A k \in Refreshers \ {h} : agent'[k] = agent[k]
  BY RefreshOthers
<1>a. agent \in [Refreshers -> Agent] /\ h \in DOMAIN agent /\ agent[h] \in Agent
  BY DEF Typed, Agents
<1>z. 0 \notin live /\ issued + 1 \notin live
  BY Bounds DEF Typed, Accounts, Gens
<1> USE DEF At
<1>1. CASE LockMutex(h)
  <2>1. UNCHANGED <<row, live, lock, admin, lost, unguarded>> /\ agent[h].pc = "mutex"
        /\ agent'[h].pc = "lease" /\ agent'[h].locked = agent[h].locked
    BY <1>0, <1>1, <1>a DEF LockMutex, Goto, provider, history, Agent
  <2>2. TokenSurvives'
    BY <1>0, <2>1, CarriesNothing
  <2>3. Unlocked' /\ Exclusive' /\ AdminIsOutside' /\ CallIsGood'
    BY <1>0, <2>1 DEF Safe, Unlocked, Exclusive, Overlapping, Owns, AdminIsOutside, CallIsGood, Inside
  <2> QED BY <2>2, <2>3 DEF Safe
<1>2. CASE AcquireRefreshLock(h)
  <2>1. UNCHANGED <<row, live, admin, lost>> /\ agent[h].pc = "lease" /\ ~agent[h].locked
    BY <1>0, <1>2 DEF AcquireRefreshLock, provider, Safe, Unlocked, Inside
  <2>2. \/ lock = None /\ lock' = h /\ unguarded' = unguarded /\ agent'[h].pc = "reread"
        \/ /\ lock' = lock \/ lock = None
           /\ unguarded' = unguarded /\ agent'[h].pc = "release" /\ ~agent'[h].locked
        \/ unguarded' = unguarded \cup {"lock"} /\ agent'[h].pc = "reread"
    BY <1>2, <1>a, <2>1 DEF AcquireRefreshLock, LeftBehind, Finish, Goto, Agent
  <2>3. TokenSurvives'
    BY <1>0, <2>1, CarriesNothing
  <2>4. Unlocked'
    BY <1>0, <2>2 DEF Safe, Unlocked, Inside
  <2>5. Exclusive'
    BY <1>0, <2>1, <2>2, OAuthAssumption DEF Safe, Exclusive, Overlapping, Owns, Inside, Refreshers
  <2>6. AdminIsOutside' /\ CallIsGood'
    BY <1>0, <2>1, <2>2 DEF Safe, AdminIsOutside, CallIsGood, Overlapping
  <2> QED BY <2>3, <2>4, <2>5, <2>6 DEF Safe
<1>3. CASE Reread(h)
  <2>1. UNCHANGED <<row, live, lock, admin, lost, unguarded>> /\ agent[h].pc = "reread"
    BY <1>0, <1>3 DEF Reread, provider, locks, history
  <2>2. /\ agent'[h].pc \in {"call", "release"}
        /\ agent'[h].pc = "call" => agent'[h].work.gen = row.gen
    <3>1. Read(h).gen = row.gen
      BY DEF Read
    <3>2. CASE agent' = [agent EXCEPT ![h].pc = "call", ![h].work = Read(h)]
      BY <1>a, <3>1, <3>2 DEF Agent
    <3>3. CASE agent' = [agent EXCEPT ![h].pc = "release", ![h].out = "same", ![h].work = Read(h)]
      BY <1>a, <3>3 DEF Agent
    <3>4. CASE Finish(h, "gone")
      BY <1>a, <3>4 DEF Agent, Finish
    <3> QED BY <1>3, <3>2, <3>3, <3>4 DEF Reread
  <2>3. TokenSurvives'
    BY <1>0, <2>1, CarriesNothing
  <2>4. Unlocked' /\ Exclusive' /\ AdminIsOutside'
    BY <1>0, <2>1, <2>2 DEF Safe, Unlocked, Exclusive, Overlapping, Owns, AdminIsOutside, Inside
  <2>5. lost \/ Overlapping \/ row.gen \in live
    BY <1>z, <2>1 DEF Safe, TokenSurvives, Exclusive, Overlapping, Owns, AdminIsOutside, Inside
  <2>6. CallIsGood'
    BY <1>0, <2>1, <2>2, <2>5 DEF Safe, CallIsGood, Overlapping
  <2> QED BY <2>3, <2>4, <2>6 DEF Safe
<1>4. CASE Refresh(h)
  <2>1. UNCHANGED <<row, lock, admin, unguarded>> /\ agent[h].pc = "call"
    BY <1>0, <1>4 DEF Refresh, locks
  <2>2. CASE agent'[h].pc = "save" /\ agent'[h].new = issued + 1
             /\ live' = (live \ {agent[h].work.gen}) \cup {issued + 1} /\ lost' = lost
    <3>1. TokenSurvives'
      BY <2>2 DEF TokenSurvives
    <3>2. Unlocked' /\ Exclusive' /\ AdminIsOutside'
      BY <1>0, <2>1, <2>2 DEF Safe, Unlocked, Exclusive, Overlapping, Owns, AdminIsOutside, Inside
    <3>3. CallIsGood'
      BY <1>0, <2>1, <2>2 DEF Safe, Exclusive, Overlapping, CallIsGood, Owns, Inside
    <3> QED BY <3>1, <3>2, <3>3 DEF Safe
  <2>3. CASE agent'[h].pc \in {"recover", "release"} /\ UNCHANGED <<live, lost>>
    <3>1. TokenSurvives'
      BY <1>0, <2>1, <2>3, CarriesNothing
    <3>2. Unlocked' /\ Exclusive' /\ AdminIsOutside' /\ CallIsGood'
      BY <1>0, <2>1, <2>3 DEF Safe, Unlocked, Exclusive, Overlapping, Owns, AdminIsOutside, CallIsGood, Inside
    <3> QED BY <3>1, <3>2 DEF Safe
  <2>4. CASE agent'[h].pc = "release" /\ lost'
    <3>1. TokenSurvives' /\ CallIsGood'
      BY <2>4 DEF TokenSurvives, CallIsGood
    <3>2. Unlocked' /\ Exclusive' /\ AdminIsOutside'
      BY <1>0, <2>1, <2>4 DEF Safe, Unlocked, Exclusive, Overlapping, Owns, AdminIsOutside, Inside
    <3> QED BY <3>1, <3>2 DEF Safe
  <2>5. CASE /\ Rotate(agent[h].work.gen) /\ lost' = lost
             /\ agent' = [agent EXCEPT ![h].pc = "save", ![h].new = issued + 1]
    BY <1>a, <2>2, <2>5 DEF Rotate, Agent
  <2>6. CASE Goto(h, "recover") /\ UNCHANGED <<live, lost>>
    BY <1>a, <2>3, <2>6 DEF Goto, Agent
  <2>7. CASE Finish(h, "failed") /\ UNCHANGED <<live, lost>>
    BY <1>a, <2>3, <2>7 DEF Finish, Agent
  <2>8. CASE Finish(h, "failed") /\ lost' = TRUE
    BY <1>a, <2>4, <2>8 DEF Finish, Agent
  <2> QED BY <1>4, <2>5, <2>6, <2>7, <2>8 DEF Refresh, provider
<1>5. CASE SaveCredentials(h)
  <2>1. UNCHANGED <<live, lock, admin, unguarded>> /\ agent[h].pc = "save"
    BY <1>0, <1>5 DEF SaveCredentials, provider, locks
  <2>2. agent'[h].pc = "release"
    BY <1>5, <1>a DEF SaveCredentials, Finish, Agent
  <2>6. \/ lost'
        \/ row'.gen = agent[h].new /\ lost' = (lost \/ (row.gen \in live /\ agent[h].new \notin live))
    <3>1. CASE lost' = TRUE
      BY <3>1
    <3>2. CASE /\ row' = [row EXCEPT !.gen = agent[h].new, !.ver = saves + 1, !.exp = agent[h].new]
               /\ lost' = (lost \/ (row.gen \in live /\ agent[h].new \notin live))
      <4>1. row'.gen = agent[h].new
        BY <3>2 DEF Typed, Accounts, Row
      <4> QED BY <3>2, <4>1
    <3> QED BY <1>5, <3>1, <3>2 DEF SaveCredentials
  <2>3. TokenSurvives'
    BY <1>0, <2>1, <2>2, <2>6 DEF Safe, TokenSurvives
  <2>4. Unlocked' /\ Exclusive' /\ AdminIsOutside'
    BY <1>0, <2>1, <2>2 DEF Safe, Unlocked, Exclusive, Overlapping, Owns, AdminIsOutside, Inside
  <2>5. CallIsGood'
    BY <1>0, <2>1, <2>2, <2>6 DEF Safe, CallIsGood, Overlapping
  <2> QED BY <2>3, <2>4, <2>5 DEF Safe
<1>6. CASE TryRecoverFromRefreshRace(h)
  <2>1. UNCHANGED <<row, live, lock, admin, lost, unguarded>> /\ agent[h].pc = "recover"
    BY <1>0, <1>6 DEF TryRecoverFromRefreshRace, provider, locks, history
  <2>2. agent'[h].pc = "release"
    BY <1>6, <1>a DEF TryRecoverFromRefreshRace, Agent
  <2>3. TokenSurvives'
    BY <1>0, <2>1, CarriesNothing
  <2>4. Unlocked' /\ Exclusive' /\ AdminIsOutside' /\ CallIsGood'
    BY <1>0, <2>1, <2>2 DEF Safe, Unlocked, Exclusive, Overlapping, Owns, AdminIsOutside, CallIsGood, Inside
  <2> QED BY <2>3, <2>4 DEF Safe
<1>7. CASE ReleaseRefreshLock(h)
  <2>1. UNCHANGED <<row, live, admin, lost>> /\ agent[h].pc = "release"
    BY <1>0, <1>7 DEF ReleaseRefreshLock, provider
  <2>2. \/ agent'[h].pc \notin Inside /\ ~agent'[h].locked
        \/ agent'[h] = agent[h]
    <3>1. CASE agent' = [agent EXCEPT ![h] = After(h)]
      BY <1>a, <3>1 DEF After, AfterBackground, AfterRequest, Resting, Inside, Agent
    <3> QED BY <1>7, <3>1 DEF ReleaseRefreshLock
  <2>3. \/ lock' = lock /\ unguarded' = unguarded
        \/ lock \in {None, Orphan, h} /\ unguarded' = unguarded
        \/ unguarded' = unguarded \cup {"lock"}
    BY <1>7 DEF ReleaseRefreshLock, Deletes
  <2>4. TokenSurvives'
    BY <1>0, <2>1, CarriesNothing
  <2>5. Unlocked' /\ AdminIsOutside' /\ CallIsGood'
    BY <1>0, <2>1, <2>2, <2>3 DEF Safe, Unlocked, Overlapping, AdminIsOutside, CallIsGood, Inside
  <2>6. Exclusive'
    BY <1>0, <2>1, <2>2, <2>3, OAuthAssumption
       DEF Safe, Exclusive, Overlapping, Owns, Inside, Refreshers
  <2> QED BY <2>4, <2>5, <2>6 DEF Safe
<1> QED BY <1>1, <1>2, <1>3, <1>4, <1>5, <1>6, <1>7 DEF RefreshSteps

LEMMA AdminIsSafe == ASSUME Typed, Safe, AdminSteps PROVE Safe'
<1>0. UNCHANGED <<agent, lock>>
  BY DEF AdminSteps, ReadForRefresh, RefreshManually, Authorize, LoadAccount, WriteAccount,
         ClearAccountError, InvalidateAfterAdmin, locks
<1>z. 0 \notin live
  BY DEF Typed, Accounts
<1>1. Unlocked'
  BY <1>0 DEF Safe, Unlocked
<1>2. CASE ReadForRefresh
  BY <1>0, <1>1, <1>2, <1>z DEF ReadForRefresh, Begins, provider, Safe, TokenSurvives, Exclusive,
     Overlapping, AdminIsOutside, CallIsGood, NoOp, At
<1>3. CASE RefreshManually
  <2>1. "admin" \in unguarded /\ "admin" \in unguarded'
    BY <1>3 DEF RefreshManually, AdminAt, Safe, AdminIsOutside, history
  <2>2. TokenSurvives'
    BY <1>0, <1>3, <1>z DEF RefreshManually, AdminAt, Rotate, AdminEnds, provider, history, Safe, TokenSurvives,
       NoOp, At, Typed, Admins, AdminRecords
  <2> QED BY <1>1, <2>1, <2>2 DEF Safe, Exclusive, Overlapping, AdminIsOutside, CallIsGood
<1>4. CASE Authorize
  <2>1. "admin" \in unguarded'
    BY <1>4 DEF Authorize
  <2>2. TokenSurvives'
    BY <1>4 DEF Authorize, TokenSurvives, NoOp
  <2> QED BY <1>1, <2>1, <2>2 DEF Safe, Exclusive, Overlapping, AdminIsOutside, CallIsGood
<1>5. CASE LoadAccount
  <2>1. UNCHANGED <<row, live, lost>> /\ admin'.new = admin.new
        /\ admin'.kind \in {admin.kind, "update"}
        /\ unguarded' \in {unguarded, unguarded \cup {"form"}}
    <3>1. CASE /\ UNCHANGED unguarded
               /\ admin' = [admin EXCEPT !.pc = "write", !.status = row.status,
                              !.schedulable = row.schedulable]
      BY <1>5, <3>1 DEF LoadAccount, provider, Typed, Admins, AdminRecords
    <3>2. ASSUME NEW ver \in 0..saves, NEW exp \in 0..issued, admin = NoOp,
                 admin' = [NoOp EXCEPT !.kind = "update", !.pc = "write", !.gen = row.gen,
                             !.ver = ver, !.exp = exp, !.status = row.status,
                             !.schedulable = row.schedulable],
                 unguarded' = IF ver = row.ver THEN unguarded ELSE unguarded \cup {"form"}
          PROVE  admin'.new = admin.new /\ admin'.kind = "update"
                 /\ unguarded' \in {unguarded, unguarded \cup {"form"}}
      BY <3>2 DEF NoOp
    <3> QED BY <1>5, <3>1, <3>2 DEF LoadAccount, Begins, provider
  <2> QED BY <1>0, <1>1, <2>1 DEF Safe, TokenSurvives, Exclusive, Overlapping, Owns, AdminIsOutside, CallIsGood, At
<1>6. CASE WriteAccount
  <2>0. \/ admin' = NoOp
        \/ admin' = [NoOp EXCEPT !.kind = admin.kind, !.pc = "invalidate"]
        \/ admin' = [NoOp EXCEPT !.kind = admin.kind, !.pc = "clear"]
    BY <1>6 DEF WriteAccount, AdminEnds
  <2>1. UNCHANGED <<live, unguarded>> /\ admin'.new = 0 /\ admin'.kind \in {"none", admin.kind}
    <3>1. UNCHANGED <<live, unguarded>>
      BY <1>6 DEF WriteAccount, provider
    <3>2. NoOp.new = 0 /\ NoOp.kind = "none"
      BY DEF NoOp
    <3>3. ASSUME NEW p, admin' = [NoOp EXCEPT !.kind = admin.kind, !.pc = p]
          PROVE  admin'.new = 0 /\ admin'.kind = admin.kind
      BY <3>3 DEF NoOp
    <3> QED BY <2>0, <3>1, <3>2, <3>3
  <2>2. TokenSurvives'
    BY <1>0, <1>6, <1>z, <2>1 DEF WriteAccount, Safe, TokenSurvives, At, Typed, Accounts, Row,
       Admins, AdminRecords
  <2>3. lost => lost'
    BY <1>6 DEF WriteAccount
  <2> QED BY <1>0, <1>1, <2>1, <2>2, <2>3 DEF Safe, Exclusive, Overlapping, Owns, AdminIsOutside, CallIsGood, At
<1>7. CASE ClearAccountError \/ InvalidateAfterAdmin
  <2>1. UNCHANGED <<live, lost, unguarded>> /\ admin'.new = 0 /\ admin.new = 0 /\ row'.gen = row.gen
        /\ admin'.kind \in {"none", admin.kind}
    <3>1. admin \in AdminRecords /\ row \in Row /\ (admin.pc \notin {"load", "write"} => admin.new = 0)
      BY DEF Typed, Accounts, Admins
    <3>2. CASE ClearAccountError
      BY <3>1, <3>2 DEF ClearAccountError, AdminAt, provider, history, Row, AdminRecords
    <3>3. CASE InvalidateAfterAdmin
      BY <3>1, <3>3 DEF InvalidateAfterAdmin, AdminEnds, provider, history, NoOp
    <3> QED BY <1>7, <3>2, <3>3
  <2> QED BY <1>0, <1>1, <2>1 DEF Safe, TokenSurvives, Exclusive, Overlapping, Owns, AdminIsOutside, CallIsGood, At
<1> QED BY <1>2, <1>3, <1>4, <1>5, <1>6, <1>7 DEF AdminSteps

LEMMA TimeIsSafe ==
    ASSUME Typed, Safe, Age \/ ExpireCache \/ ExpireCooldown \/ ExpireLock
    PROVE  Safe'
<1>1. UNCHANGED <<live, agent, admin, lost>> /\ row'.gen = row.gen
  BY DEF Age, ExpireCache, ExpireCooldown, ExpireLock, provider, history, Typed, Accounts, Row
<1>2. \/ UNCHANGED <<lock, unguarded>>
      \/ lock = Orphan /\ unguarded' = unguarded
      \/ unguarded' = unguarded \cup {"lock"}
  BY DEF Age, ExpireCache, ExpireCooldown, ExpireLock, locks, history
<1>3. TokenSurvives' /\ Unlocked' /\ AdminIsOutside' /\ CallIsGood'
  BY <1>1, <1>2 DEF Safe, TokenSurvives, Unlocked, Overlapping, AdminIsOutside, CallIsGood, At
<1>4. Exclusive'
  BY <1>1, <1>2, OAuthAssumption DEF Safe, Exclusive, Overlapping, Owns, At, Refreshers
<1> QED BY <1>3, <1>4 DEF Safe

LEMMA CrashIsSafe == ASSUME Typed, Safe, NEW p \in Places, Crash(p) PROVE Safe'
<1> DEFINE gone == {h \in Refreshers : Place(h) = p}
<1>1. /\ agent' = [h \in Refreshers |-> IF h \in gone THEN Resting ELSE agent[h]]
      /\ lock' = IF lock \in gone THEN Orphan ELSE lock
      /\ UNCHANGED <<row, live, unguarded>>
      /\ admin' = (IF p = "here" THEN NoOp ELSE admin)
      /\ lost' = (lost \/ (\E h \in gone : At(h, "save") /\ agent[h].new \in live)
                       \/ (p = "here" /\ admin.new \in live))
  BY DEF Crash, provider
<1>2. Resting.pc = "idle" /\ ~Resting.locked /\ NoOp.new = 0 /\ NoOp.kind = "none"
  BY DEF Resting, NoOp
<1> HIDE DEF gone
<1>3. TokenSurvives'
  BY <1>1, <1>2 DEF Safe, TokenSurvives, At
<1>4. Unlocked' /\ AdminIsOutside'
  BY <1>1, <1>2 DEF Safe, Unlocked, AdminIsOutside
<1>5. Exclusive' /\ CallIsGood'
  BY <1>1, <1>2 DEF Safe, Exclusive, Overlapping, Owns, CallIsGood, At, Inside
<1> QED BY <1>3, <1>4, <1>5 DEF Safe

-----------------------------------------------------------------------------
LEMMA InitIsSafe == Init => Typed /\ Safe
<1> SUFFICES ASSUME Init PROVE Typed /\ Safe
  OBVIOUS
<1>a. row \in Row
  BY Ranges DEF Init, Row, Cooldowns
<1>b. /\ issued \in Gens /\ live \subseteq 1..issued /\ due \in 0..issued /\ cache \in 0..MaxGen
      /\ Counters
  BY Bounds DEF Init, Gens, Counters
<1>c. lock \in Refreshers \cup {None, Orphan} /\ mutex \in [Places -> Refreshers \cup {None}]
  BY DEF Init
<1>1. Accounts /\ Counters /\ Histories
  BY <1>a, <1>b, <1>c DEF Init, Accounts, Histories
<1>2. Agents /\ Admins
  BY Records, NoOpTypes DEF Init, Agents, Good, Admins
<1>3. Safe
  BY DEF Init, Safe, TokenSurvives, Unlocked, Exclusive, Overlapping, Owns, AdminIsOutside,
     CallIsGood, At, Inside, Resting, NoOp
<1> QED BY <1>1, <1>2, <1>3 DEF Typed

LEMMA StepIsSafe == Typed /\ Safe /\ [Next]_vars => Typed' /\ Safe'
<1> SUFFICES ASSUME Typed, Safe, [Next]_vars PROVE Typed' /\ Safe'
  OBVIOUS
<1>1. ASSUME NEW h \in Refreshers, RefreshSteps(h) PROVE Typed' /\ Safe'
  BY <1>1, RefreshTypes, RefreshIsSafe DEF RefreshSteps
<1>2. CASE BackgroundSteps(Background)
  BY <1>2, BackgroundTypes, OutsideIsSafe DEF BackgroundSteps, Refreshers
<1>3. ASSUME NEW r \in Requests, Begin(r) \/ RequestSteps(r) PROVE Typed' /\ Safe'
  BY <1>3, RequestTypes, OutsideIsSafe DEF RequestSteps, Refreshers
<1>4. CASE AdminSteps
  BY <1>4, AdminTypes, AdminIsSafe DEF AdminSteps
<1>5. CASE Age \/ ExpireCache \/ ExpireCooldown \/ ExpireLock
  BY <1>5, TimeTypes, TimeIsSafe
<1>6. ASSUME NEW p \in Places, Crash(p) PROVE Typed' /\ Safe'
  BY <1>6, CrashTypes, CrashIsSafe
<1>7. CASE UNCHANGED vars
  BY <1>7 DEF vars, Typed, Accounts, Agents, Admins, Counters, Histories, Safe, TokenSurvives,
     Unlocked, Exclusive, Overlapping, Owns, AdminIsOutside, CallIsGood, At
<1> QED BY <1>1, <1>2, <1>3, <1>4, <1>5, <1>6, <1>7 DEF Next

LEMMA AlwaysSafe == SafetySpec => [](Typed /\ Safe)
<1>1. Init => Typed /\ Safe
  BY InitIsSafe
<1>2. Typed /\ Safe /\ [Next]_vars => (Typed /\ Safe)'
  BY StepIsSafe
<1> QED BY <1>1, <1>2, PTL DEF SafetySpec

\* Every variable has its type in every reachable state.
THEOREM TypesHold == SafetySpec => []TypeOK
<1>1. Typed => TypeOK
  BY DEF Typed, TypeOK, Accounts, Agents, Admins, AdminRecords, Counters, Histories
<1> QED BY <1>1, AlwaysSafe, PTL

\* Unless it was lost in one of the ways the model names, the account's refresh
\* token is good or its successor is about to be saved: no interleaving of
\* refreshes by the lock of service/oauth_refresh_api.go drops it.
THEOREM TokenIsNeverDropped == SafetySpec => []TokenSurvives
<1>1. Safe => TokenSurvives
  BY DEF Safe
<1> QED BY <1>1, AlwaysSafe, PTL

LEMMA OnlyTheCallRefuses ==
    ASSUME Typed, Safe, [Next]_vars, NEW h \in Refreshers, At(h, "call"), agent'[h].pc = "recover"
    PROVE  lost \/ Overlapping
<1>1. CASE RefreshSteps(h)
  <2>1. Refresh(h)
    BY <1>1 DEF RefreshSteps, LockMutex, AcquireRefreshLock, Reread, SaveCredentials,
       TryRecoverFromRefreshRace, ReleaseRefreshLock, At
  <2>2. agent[h].work.gen \notin live
    BY <2>1 DEF Refresh, Finish, Typed, Agents, Agent
  <2> QED BY <2>2 DEF Safe, CallIsGood
<1>2. ASSUME NEW k \in Refreshers \ {h}, RefreshSteps(k) PROVE FALSE
  BY <1>2, RefreshOthers DEF At
<1>3. CASE BackgroundSteps(Background)
  BY <1>3, OutsideSteps DEF Safe, Refreshers, At, Inside
<1>4. ASSUME NEW r \in Requests, Begin(r) \/ RequestSteps(r) PROVE FALSE
  BY <1>4, OutsideSteps DEF Safe, Refreshers, At, Inside
<1>5. CASE AdminSteps \/ Age \/ ExpireCache \/ ExpireCooldown \/ ExpireLock
  BY <1>5 DEF AdminSteps, ReadForRefresh, RefreshManually, Authorize, LoadAccount, WriteAccount,
     ClearAccountError, InvalidateAfterAdmin, Age, ExpireCache, ExpireCooldown, ExpireLock, At
<1>6. ASSUME NEW p \in Places, Crash(p) PROVE FALSE
  BY <1>6 DEF Crash, Resting, At
<1>7. CASE UNCHANGED vars
  BY <1>7 DEF vars, At
<1> QED BY <1>1, <1>2, <1>3, <1>4, <1>5, <1>6, <1>7 DEF Next

\* No refresh presents a consumed refresh token while the lock holds and nobody
\* goes past it: the account is read again under the lock
\* (service/oauth_refresh_api.go:211-254).
THEOREM NoTokenIsSpentTwice == SafetySpec => RefreshTokenIsUsedOnce
<1>1. Typed /\ Safe /\ [Next]_vars =>
          [\A h \in Refreshers :
              At(h, "call") /\ agent'[h].pc = "recover" => lost \/ Overlapping]_vars
  BY OnlyTheCallRefuses
<1> QED BY <1>1, AlwaysSafe, PTL DEF SafetySpec, RefreshTokenIsUsedOnce

-----------------------------------------------------------------------------
(* FillIsNotOlder *)

\* Somewhere there is a copy with generation g and version v.
Knows(g, v) ==
    \/ g = 1 /\ v = 0
    \/ g = row.gen /\ v = row.ver
    \/ g = admin.gen /\ v = admin.ver
    \/ \E h \in Refreshers : g = agent[h].work.gen /\ v = agent[h].work.ver
    \/ \E h \in Refreshers : ~At(h, "fill") /\ g = agent[h].acct.gen /\ v = agent[h].acct.ver

\* Versions follow the generations, and a successor under way is alone and newer
\* than every copy.
Bounded == \A g, v : Knows(g, v) => g <= issued /\ v <= saves
VersionsFollow == \A g, v, k, u : Knows(g, v) /\ Knows(k, u) /\ v <= u => g <= k
OneSuccessor ==
    /\ live \subseteq {issued}
    /\ \A h \in Refreshers : At(h, "save") =>
          agent[h].new = issued /\ \A g, v : Knows(g, v) => g < issued
    /\ \A h, k \in Refreshers : At(h, "save") /\ At(k, "save") => h = k
Ordered == Unversioned \/ (Bounded /\ VersionsFollow /\ OneSuccessor)
Unseen == \A r \in Requests : agent[r].seen # 0 => agent[r].pc \in {"release", "fill"}

Filled == Ordered /\ Unseen /\ FillIsNotOlder

LEMMA KnownTypes == ASSUME Typed, NEW g, NEW v, Knows(g, v) PROVE g \in Gens /\ v \in Nat
<1>1. \A h \in Refreshers : agent[h].work \in Credentials /\ agent[h].acct \in Credentials
  BY DEF Typed, Agents, Agent
<1>2. row.gen \in Gens /\ row.ver \in Nat
  BY Reads DEF Typed
<1>3. admin.gen \in Gens /\ admin.ver \in Nat
  BY DEF Typed, Admins, AdminRecords
<1> QED BY <1>1, <1>2, <1>3, Ranges DEF Knows, Credentials

\* A step that makes no new copy and gets nothing from the provider.
LEMMA NothingNew ==
    ASSUME Ordered, UNCHANGED <<issued, live, saves>>, unguarded \subseteq unguarded',
           \A g, v : Knows(g, v)' => Knows(g, v),
           \A h \in Refreshers : agent'[h].pc = "save" => At(h, "save") /\ agent'[h].new = agent[h].new
    PROVE  Ordered'
<1>1. Bounded /\ VersionsFollow => Bounded' /\ VersionsFollow'
  BY DEF Bounded, VersionsFollow
<1>2. OneSuccessor => OneSuccessor'
  BY DEF OneSuccessor, At
<1> QED BY <1>1, <1>2 DEF Ordered, Unversioned

\* What a step of h copies.
Copies(h) ==
    /\ Knows(agent'[h].work.gen, agent'[h].work.ver)
    /\ agent'[h].pc # "fill" => Knows(agent'[h].acct.gen, agent'[h].acct.ver)
    /\ agent'[h].pc # "save"
Looks(h) ==
    h \in Requests =>
        /\ agent'[h].seen # 0 => agent'[h].pc \in {"release", "fill"}
        /\ agent'[h].pc = "fill" => agent'[h].acct.gen >= agent'[h].seen \/ Unversioned'

LEMMA CopiesOnly ==
    ASSUME Filled, NEW h \in Refreshers, Copies(h), Looks(h),
           UNCHANGED <<issued, live, saves, admin>>, unguarded \subseteq unguarded',
           row'.gen = row.gen, row'.ver = row.ver,
           \A k \in Refreshers \ {h} : agent'[k] = agent[k]
    PROVE  Filled'
<1>1. \A g, v : Knows(g, v)' => Knows(g, v)
  BY DEF Knows, Copies, At
<1>2. Ordered'
  BY <1>1, NothingNew DEF Filled, Copies, At
<1>3. Unseen' /\ FillIsNotOlder'
  BY DEF Filled, Unseen, FillIsNotOlder, Unversioned, Looks, At, Refreshers
<1> QED BY <1>2, <1>3 DEF Filled

LEMMA OwnCopies ==
    ASSUME NEW h \in Refreshers
    PROVE  /\ Knows(Blank.gen, Blank.ver)
           /\ Knows(Read(h).gen, Read(h).ver)
           /\ Knows(agent[h].work.gen, agent[h].work.ver)
           /\ ~At(h, "fill") => Knows(agent[h].acct.gen, agent[h].acct.ver)
  BY DEF Knows, Blank, Read

\* Two ways to copy nothing new: to forget, and to go on inside RefreshIfNeeded.
Clean(h) ==
    /\ agent'[h].work = Blank /\ agent'[h].acct = Blank /\ agent'[h].seen = 0
    /\ agent'[h].pc \notin {"save", "fill"}
Inner(h) ==
    /\ ~At(h, "fill") /\ agent'[h].acct = agent[h].acct
    /\ agent'[h].work \in {agent[h].work, Read(h), Blank}
    /\ agent'[h].pc \notin {"save", "fill"}
    /\ agent'[h].pc = "release" \/ (agent'[h].seen = agent[h].seen /\ ~At(h, "release"))

LEMMA CleanCopies == ASSUME NEW h \in Refreshers, Clean(h) PROVE Copies(h) /\ Looks(h)
  BY OwnCopies DEF Clean, Copies, Looks

LEMMA InnerCopies == ASSUME Filled, NEW h \in Refreshers, Inner(h) PROVE Copies(h) /\ Looks(h)
<1>1. Copies(h)
  BY OwnCopies DEF Inner, Copies
<1>2. Looks(h)
  BY DEF Inner, Looks, Filled, Unseen, At
<1> QED BY <1>1, <1>2

LEMMA OutsideIsFilled ==
    ASSUME Typed, Filled, NEW h \in Refreshers,
           BackgroundSteps(h) \/ (h \in Requests /\ (Begin(h) \/ RequestSteps(h)))
    PROVE  Filled'
<1>a. agent \in [Refreshers -> Agent] /\ h \in DOMAIN agent /\ agent[h] \in Agent
  BY DEF Typed, Agents
<1>b. row \in Row
  BY DEF Typed, Accounts
<1> SUFFICES ASSUME TRUE
             PROVE  /\ UNCHANGED <<issued, live, saves, admin, unguarded>>
                    /\ row'.gen = row.gen /\ row'.ver = row.ver
                    /\ \A k \in Refreshers \ {h} : agent'[k] = agent[k]
                    /\ Copies(h) /\ Looks(h)
  BY CopiesOnly
<1>1. CASE ListCandidate(h)
  <2>1. UNCHANGED <<issued, live, saves, admin, unguarded>> /\ row'.gen = row.gen /\ row'.ver = row.ver
    BY <1>b, <1>1 DEF ListCandidate, provider, history, Row
  <2>2. \A k \in Refreshers \ {h} : agent'[k] = agent[k]
    BY <1>a, <1>1 DEF ListCandidate
  <2>3. Inner(h)
    BY <1>a, <1>1 DEF ListCandidate, Clean, Inner, At, Agent
  <2> QED BY <2>1, <2>2, <2>3, CleanCopies, InnerCopies
<1>2. CASE ClearCooldown(h)
  <2>1. UNCHANGED <<issued, live, saves, admin, unguarded>> /\ row'.gen = row.gen /\ row'.ver = row.ver
    BY <1>b, <1>2 DEF ClearCooldown, provider, history, Row
  <2>2. \A k \in Refreshers \ {h} : agent'[k] = agent[k]
    BY <1>a, <1>2 DEF ClearCooldown, Resting
  <2>3. Clean(h)
    BY <1>a, <1>2 DEF ClearCooldown, Clean, Inner, At, Agent, Resting
  <2> QED BY <2>1, <2>2, <2>3, CleanCopies, InnerCopies
<1>3. CASE InvalidateToken(h)
  <2>1. UNCHANGED <<issued, live, saves, admin, unguarded>> /\ row'.gen = row.gen /\ row'.ver = row.ver
    BY <1>b, <1>3 DEF InvalidateToken, provider, history, Row
  <2>2. \A k \in Refreshers \ {h} : agent'[k] = agent[k]
    BY <1>a, <1>3 DEF InvalidateToken, Rest, Resting
  <2>3. Clean(h)
    BY <1>a, <1>3 DEF InvalidateToken, Clean, Inner, At, Agent, Rest, Resting
  <2> QED BY <2>1, <2>2, <2>3, CleanCopies, InnerCopies
<1>4. CASE Quarantine(h)
  <2>1. UNCHANGED <<issued, live, saves, admin, unguarded>> /\ row'.gen = row.gen /\ row'.ver = row.ver
    BY <1>b, <1>4 DEF Quarantine, provider, history, Row
  <2>2. \A k \in Refreshers \ {h} : agent'[k] = agent[k]
    BY <1>a, <1>4 DEF Quarantine, Resting
  <2>3. Clean(h)
    BY <1>a, <1>4 DEF Quarantine, Clean, Inner, At, Agent, Resting
  <2> QED BY <2>1, <2>2, <2>3, CleanCopies, InnerCopies
<1>5. CASE CoolDown(h)
  <2>1. UNCHANGED <<issued, live, saves, admin, unguarded>> /\ row'.gen = row.gen /\ row'.ver = row.ver
    BY <1>b, <1>5 DEF CoolDown, SetCooldown, provider, history, Row
  <2>2. \A k \in Refreshers \ {h} : agent'[k] = agent[k]
    BY <1>a, <1>5 DEF CoolDown, Rest, Resting
  <2>3. Clean(h)
    BY <1>a, <1>5 DEF CoolDown, Clean, Inner, At, Agent, Rest, Resting
  <2> QED BY <2>1, <2>2, <2>3, CleanCopies, InnerCopies
<1>6. CASE Begin(h)
  <2>1. UNCHANGED <<issued, live, saves, admin, unguarded>> /\ row'.gen = row.gen /\ row'.ver = row.ver
    BY <1>b, <1>6 DEF Begin, provider, history, Row
  <2>2. \A k \in Refreshers \ {h} : agent'[k] = agent[k]
    BY <1>a, <1>6 DEF Begin
  <2>3. /\ agent[h].pc = "idle" /\ agent'[h].pc = "cache" /\ agent'[h].work = agent[h].work
        /\ agent'[h].acct = Read(h) /\ agent'[h].seen = agent[h].seen
    BY <1>a, <1>6 DEF Begin, At, Agent
  <2>4. Copies(h)
    BY <2>3, OwnCopies DEF Copies
  <2>5. Looks(h)
    BY <2>3 DEF Looks, Filled, Unseen
  <2> QED BY <2>1, <2>2, <2>4, <2>5
<1>7. CASE GetCachedToken(h)
  <2>1. UNCHANGED <<issued, live, saves, admin, unguarded>> /\ row'.gen = row.gen /\ row'.ver = row.ver
    BY <1>b, <1>7 DEF GetCachedToken, provider, history, Row
  <2>2. \A k \in Refreshers \ {h} : agent'[k] = agent[k]
    BY <1>a, <1>7 DEF GetCachedToken, Send, Goto, Resting
  <2>3. Clean(h) \/ Inner(h)
    <3>1. CASE Send(h, cache)
      BY <1>a, <3>1 DEF Clean, Send, Resting
    <3>2. ASSUME NEW p \in {"mutex", "check"}, Goto(h, p) PROVE Inner(h)
      BY <1>a, <1>7, <3>2 DEF GetCachedToken, Inner, At, Agent, Goto
    <3> QED BY <1>7, <3>1, <3>2 DEF GetCachedToken
  <2> QED BY <2>1, <2>2, <2>3, CleanCopies, InnerCopies
<1>8. CASE WaitForCache(h)
  <2>1. UNCHANGED <<issued, live, saves, admin, unguarded>> /\ row'.gen = row.gen /\ row'.ver = row.ver
    BY <1>b, <1>8 DEF WaitForCache, provider, history, Row
  <2>2. \A k \in Refreshers \ {h} : agent'[k] = agent[k]
    BY <1>a, <1>8 DEF WaitForCache, Send, Goto, Resting
  <2>3. Clean(h) \/ Inner(h)
    <3>1. CASE Send(h, cache)
      BY <1>a, <3>1 DEF Clean, Send, Resting
    <3>2. ASSUME NEW p \in {"check"}, Goto(h, p) PROVE Inner(h)
      BY <1>a, <1>8, <3>2 DEF WaitForCache, Inner, At, Agent, Goto
    <3> QED BY <1>8, <3>1, <3>2 DEF WaitForCache
  <2> QED BY <2>1, <2>2, <2>3, CleanCopies, InnerCopies
<1>9. CASE CheckTokenVersion(h)
  <2>1. UNCHANGED <<issued, live, saves, admin, unguarded>> /\ row'.gen = row.gen /\ row'.ver = row.ver
    BY <1>b, <1>9 DEF CheckTokenVersion, provider, history, Row
  <2>2. \A k \in Refreshers \ {h} : agent'[k] = agent[k]
    BY <1>a, <1>9 DEF CheckTokenVersion, Send, Goto, Resting
  <2>3. agent[h].pc = "check" /\ h \in Requests
    BY <1>9 DEF CheckTokenVersion, At, BackgroundSteps, ListCandidate, ClearCooldown, InvalidateToken,
       Quarantine, CoolDown
  <2>4. agent[h].seen = 0
    BY <2>3 DEF Filled, Unseen
  <2>5. CASE Send(h, row.gen)
    <3>1. Clean(h)
      BY <1>a, <2>5 DEF Clean, Send, Resting
    <3> QED BY <2>1, <2>2, <3>1, CleanCopies
  <2>6. CASE Goto(h, "fill")
    <3>1. agent'[h].pc = "fill" /\ agent'[h].work = agent[h].work /\ agent'[h].seen = 0
          /\ agent'[h].acct = agent[h].acct
      BY <1>a, <2>4, <2>6 DEF Goto, Agent
    <3>2. Copies(h)
      BY <3>1, OwnCopies DEF Copies
    <3>3. Looks(h)
      BY <1>a, <3>1 DEF Looks, Agent, Credentials, Gens
    <3> QED BY <2>1, <2>2, <3>2, <3>3
  <2>7. CASE /\ ~IsStale(agent[h].acct.ver, row.ver)
             /\ agent' = [agent EXCEPT ![h].pc = "fill", ![h].seen = row.gen, ![h].acct.ver = 0]
    <3>1. agent'[h].pc = "fill" /\ agent'[h].work = agent[h].work /\ agent'[h].seen = row.gen
          /\ agent'[h].acct.gen = agent[h].acct.gen
      BY <1>a, <2>7 DEF Agent, Credentials
    <3>2. Copies(h)
      BY <3>1, OwnCopies DEF Copies
    <3>3. row.ver <= agent[h].acct.ver
      BY <1>a, <1>b, <2>7 DEF IsStale, Row, Agent, Credentials
    <3>4. Knows(agent[h].acct.gen, agent[h].acct.ver) /\ Knows(row.gen, row.ver)
      BY <2>3, OwnCopies DEF At, Knows
    <3>5. Unversioned \/ row.gen <= agent[h].acct.gen
      BY <3>3, <3>4 DEF Filled, Ordered, VersionsFollow
    <3>6. Looks(h)
      BY <1>a, <1>b, <2>1, <3>1, <3>5 DEF Looks, Unversioned, Row, Agent, Credentials, Gens
    <3> QED BY <2>1, <2>2, <3>2, <3>6
  <2> QED BY <1>9, <2>5, <2>6, <2>7 DEF CheckTokenVersion
<1>10. CASE SetAccessToken(h)
  <2>1. UNCHANGED <<issued, live, saves, admin, unguarded>> /\ row'.gen = row.gen /\ row'.ver = row.ver
    BY <1>b, <1>10 DEF SetAccessToken, provider, history, Row
  <2>2. \A k \in Refreshers \ {h} : agent'[k] = agent[k]
    BY <1>a, <1>10 DEF SetAccessToken, Send, Resting
  <2>3. Clean(h)
    BY <1>a, <1>10 DEF SetAccessToken, Clean, Inner, At, Agent, Send, Resting
  <2> QED BY <2>1, <2>2, <2>3, CleanCopies, InnerCopies
<1>11. CASE Use(h)
  <2>1. UNCHANGED <<issued, live, saves, admin, unguarded>> /\ row'.gen = row.gen /\ row'.ver = row.ver
    BY <1>b, <1>11 DEF Use, provider, history, Row
  <2>2. \A k \in Refreshers \ {h} : agent'[k] = agent[k]
    BY <1>a, <1>11 DEF Use, Rest, Resting
  <2>3. Clean(h)
    BY <1>a, <1>11 DEF Use, Clean, Inner, At, Agent, Rest, Resting
  <2> QED BY <2>1, <2>2, <2>3, CleanCopies, InnerCopies
<1>12. CASE Reject(h)
  <2>1. UNCHANGED <<issued, live, saves, admin, unguarded>> /\ row'.gen = row.gen /\ row'.ver = row.ver
    BY <1>b, <1>12 DEF Reject, provider, history, Row
  <2>2. \A k \in Refreshers \ {h} : agent'[k] = agent[k]
    BY <1>a, <1>12 DEF Reject, Goto
  <2>3. Inner(h)
    BY <1>a, <1>12 DEF Reject, Clean, Inner, At, Agent, Goto
  <2> QED BY <2>1, <2>2, <2>3, CleanCopies, InnerCopies
<1>13. CASE Bench(h)
  <2>1. UNCHANGED <<issued, live, saves, admin, unguarded>> /\ row'.gen = row.gen /\ row'.ver = row.ver
    BY <1>b, <1>13 DEF Bench, SetCooldown, provider, history, Row
  <2>2. \A k \in Refreshers \ {h} : agent'[k] = agent[k]
    BY <1>a, <1>13 DEF Bench, Rest, Resting
  <2>3. Clean(h)
    BY <1>a, <1>13 DEF Bench, Clean, Inner, At, Agent, Rest, Resting
  <2> QED BY <2>1, <2>2, <2>3, CleanCopies, InnerCopies
<1> QED BY <1>1, <1>2, <1>3, <1>4, <1>5, <1>6, <1>7, <1>8, <1>9, <1>10, <1>11, <1>12, <1>13
       DEF BackgroundSteps, RequestSteps

LEMMA RefreshIsFilled ==
    ASSUME Typed, Filled, NEW h \in Refreshers, RefreshSteps(h)
    PROVE  Filled'
<1>0. UNCHANGED admin /\ \A k \in Refreshers \ {h} : agent'[k] = agent[k]
  BY RefreshOthers
<1>a. agent \in [Refreshers -> Agent] /\ h \in DOMAIN agent /\ agent[h] \in Agent
  BY DEF Typed, Agents
<1>1. CASE LockMutex(h)
  <2>1. UNCHANGED <<row, issued, live, saves>> /\ unguarded \subseteq unguarded'
    BY <1>1 DEF LockMutex, provider, history
  <2>2. Inner(h)
    BY <1>a, <1>1 DEF LockMutex, Inner, At, Agent, Goto
  <2> QED BY <1>0, <2>1, <2>2, CopiesOnly, InnerCopies
<1>2. CASE AcquireRefreshLock(h)
  <2>1. UNCHANGED <<row, issued, live, saves>> /\ unguarded \subseteq unguarded'
    BY <1>2 DEF AcquireRefreshLock, provider, history
  <2>2. Inner(h)
    BY <1>a, <1>2 DEF AcquireRefreshLock, Inner, At, Agent, Goto, Finish
  <2> QED BY <1>0, <2>1, <2>2, CopiesOnly, InnerCopies
<1>3. CASE Reread(h)
  <2>1. UNCHANGED <<row, issued, live, saves>> /\ unguarded \subseteq unguarded'
    BY <1>3 DEF Reread, provider, history
  <2>2. Inner(h)
    BY <1>a, <1>3 DEF Reread, Inner, At, Agent, Finish
  <2> QED BY <1>0, <2>1, <2>2, CopiesOnly, InnerCopies
<1>4. CASE TryRecoverFromRefreshRace(h)
  <2>1. UNCHANGED <<row, issued, live, saves>> /\ unguarded \subseteq unguarded'
    BY <1>4 DEF TryRecoverFromRefreshRace, provider, history
  <2>2. Inner(h)
    BY <1>a, <1>4 DEF TryRecoverFromRefreshRace, Inner, At, Agent
  <2> QED BY <1>0, <2>1, <2>2, CopiesOnly, InnerCopies
<1>5. CASE ReleaseRefreshLock(h)
  <2>1. UNCHANGED <<row, issued, live, saves>> /\ unguarded \subseteq unguarded'
    BY <1>5 DEF ReleaseRefreshLock, Deletes, provider
  <2>2. CASE UNCHANGED agent
    <3>1. Inner(h)
      BY <1>a, <1>5, <2>2 DEF ReleaseRefreshLock, Inner, At
    <3> QED BY <1>0, <2>1, <3>1, CopiesOnly, InnerCopies
  <2>3. CASE agent' = [agent EXCEPT ![h] = After(h)]
    <3>1. agent[h].pc = "release" /\ agent'[h] = After(h)
      BY <1>a, <1>5, <2>3 DEF ReleaseRefreshLock, At
    <3>2. /\ After(h).work \in {agent[h].work, Blank}
          /\ After(h).acct \in {agent[h].acct, agent[h].work, Blank}
          /\ After(h).pc \notin {"save", "fill"} /\ (h \in Requests => After(h).seen = 0)
      <4>1. CASE h = Background
        BY <1>a, <4>1, OAuthAssumption DEF After, AfterBackground, Resting, Agent
      <4>2. CASE h # Background
        BY <1>a, <4>2 DEF After, AfterRequest, Resting, Agent
      <4> QED BY <4>1, <4>2
    <3>3. Copies(h)
      BY <3>1, <3>2, OwnCopies DEF Copies, At
    <3>4. Looks(h)
      BY <3>1, <3>2 DEF Looks
    <3> QED BY <1>0, <2>1, <3>3, <3>4, CopiesOnly
  <2> QED BY <1>5, <2>2, <2>3 DEF ReleaseRefreshLock
<1>6. CASE Refresh(h)
  <2>1. UNCHANGED <<row, saves, unguarded>> /\ agent[h].pc = "call"
    BY <1>6 DEF Refresh, At
  <2>2. CASE UNCHANGED <<issued, live>> /\ (Goto(h, "recover") \/ Finish(h, "failed"))
    <3>1. Inner(h)
      BY <1>a, <2>1, <2>2 DEF Inner, At, Agent, Goto, Finish
    <3> QED BY <1>0, <2>1, <2>2, <3>1, CopiesOnly, InnerCopies
  <2>3. CASE /\ agent[h].work.gen \in live /\ Rotate(agent[h].work.gen)
             /\ \/ agent' = [agent EXCEPT ![h].pc = "save", ![h].new = issued + 1]
                \/ Finish(h, "failed")
    <3>1. /\ issued' = issued + 1 /\ live' = (live \ {agent[h].work.gen}) \cup {issued + 1}
          /\ issued \in Nat
      BY <2>3, Bounds DEF Rotate, Typed, Accounts, Gens
    <3>2. /\ agent'[h].acct = agent[h].acct /\ agent'[h].work \in {agent[h].work, Blank}
          /\ \/ agent'[h].pc = "save" /\ agent'[h].new = issued + 1 /\ agent'[h].seen = agent[h].seen
             \/ agent'[h].pc = "release"
      <4>1. CASE Finish(h, "failed")
        BY <1>a, <4>1 DEF Finish, Agent
      <4>2. CASE agent' = [agent EXCEPT ![h].pc = "save", ![h].new = issued + 1]
        BY <1>a, <4>2 DEF Agent
      <4> QED BY <2>3, <4>1, <4>2
    <3>3. \A g, v : Knows(g, v)' => Knows(g, v)
      BY <1>0, <2>1, <3>2, OwnCopies DEF Knows, At
    <3>4. ASSUME Bounded, OneSuccessor PROVE \A k \in Refreshers : ~At(k, "save")
      <4>1. Knows(agent[h].work.gen, agent[h].work.ver) /\ agent[h].work.gen = issued
        BY <2>3, <3>4, OwnCopies DEF OneSuccessor
      <4> QED BY <3>4, <4>1, <3>1 DEF OneSuccessor
    <3>5. ASSUME Bounded, VersionsFollow, OneSuccessor PROVE Bounded' /\ VersionsFollow' /\ OneSuccessor'
      <4>1. \A g, v : Knows(g, v)' => g \in Nat /\ v \in Nat /\ g <= issued /\ v <= saves
        BY <3>3, <3>5, KnownTypes DEF Bounded, Gens
      <4>2. Bounded' /\ VersionsFollow'
        BY <2>1, <3>1, <3>3, <3>5, <4>1 DEF Bounded, VersionsFollow
      <4>3. live' = {issued + 1}
        BY <2>3, <3>1, <3>5 DEF OneSuccessor
      <4>4. \A k \in Refreshers : agent'[k].pc = "save" => k = h /\ agent'[k].new = issued + 1
        BY <1>0, <3>2, <3>4, <3>5 DEF At
      <4>5. OneSuccessor'
        BY <3>1, <4>1, <4>3, <4>4 DEF OneSuccessor, At
      <4> QED BY <4>2, <4>5
    <3>6. Ordered'
      BY <2>1, <3>5 DEF Filled, Ordered, Unversioned
    <3>7. Unseen' /\ FillIsNotOlder'
      BY <1>0, <2>1, <3>2 DEF Filled, Unseen, FillIsNotOlder, Unversioned, At, Refreshers
    <3> QED BY <3>6, <3>7 DEF Filled
  <2> QED BY <1>6, <2>2, <2>3 DEF Refresh, provider
<1>7. CASE SaveCredentials(h)
  <2>1. UNCHANGED <<issued, live, unguarded>> /\ agent[h].pc = "save"
    BY <1>7 DEF SaveCredentials, At, provider
  <2>2. CASE UNCHANGED <<row, saves>> /\ (Finish(h, "cancelled") \/ Finish(h, "failed"))
    <3>1. Inner(h)
      BY <1>a, <2>1, <2>2 DEF Inner, At, Agent, Finish
    <3> QED BY <1>0, <2>1, <2>2, <3>1, CopiesOnly, InnerCopies
  <2>3. CASE /\ row' = [row EXCEPT !.gen = agent[h].new, !.ver = saves + 1, !.exp = agent[h].new]
             /\ saves' = saves + 1
             /\ agent' = [agent EXCEPT ![h].pc = "release", ![h].out = "refreshed", ![h].new = 0,
                            ![h].work = [@ EXCEPT !.gen = agent[h].new, !.ver = saves + 1,
                                                  !.exp = agent[h].new]]
    <3>1. row'.gen = agent[h].new /\ row'.ver = saves + 1 /\ saves \in Nat
      BY <2>3 DEF Typed, Accounts, Row, Counters
    <3>2. /\ agent'[h].pc = "release" /\ agent'[h].acct = agent[h].acct
          /\ agent'[h].work.gen = agent[h].new /\ agent'[h].work.ver = saves + 1
      BY <1>a, <2>3 DEF Agent, Credentials
    <3>3. \A g, v : Knows(g, v)' => Knows(g, v) \/ (g = agent[h].new /\ v = saves + 1)
      BY <1>0, <2>1, <3>1, <3>2, OwnCopies DEF Knows, At
    <3>4. ASSUME Bounded, VersionsFollow, OneSuccessor PROVE Bounded' /\ VersionsFollow' /\ OneSuccessor'
      <4>1. agent[h].new = issued /\ issued \in Nat
        BY <2>1, <3>4 DEF OneSuccessor, At, Typed, Accounts, Gens
      <4>2. \A g, v : Knows(g, v) => g \in Nat /\ v \in Nat /\ g <= issued /\ v <= saves
        BY <3>4, KnownTypes DEF Bounded, Gens
      <4>3. Bounded'
        BY <2>1, <2>3, <3>1, <3>3, <4>1, <4>2 DEF Bounded
      <4>4. ASSUME NEW g, NEW v, NEW k, NEW u, Knows(g, v)', Knows(k, u)', v <= u PROVE g <= k
        <5>1. CASE k = issued /\ u = saves + 1
          BY <3>3, <4>1, <4>2, <4>4, <5>1
        <5>2. CASE Knows(k, u) /\ Knows(g, v)
          BY <3>4, <4>4, <5>2 DEF VersionsFollow
        <5>3. CASE Knows(k, u) /\ v = saves + 1
          BY <3>1, <4>2, <4>4, <5>3
        <5> QED BY <3>3, <4>1, <4>4, <5>1, <5>2, <5>3
      <4>5. VersionsFollow'
        BY <4>4 DEF VersionsFollow
      <4>6. \A k \in Refreshers : agent'[k].pc # "save"
        BY <1>0, <2>1, <3>2, <3>4 DEF OneSuccessor, At
      <4>7. OneSuccessor'
        BY <2>1, <3>4, <4>6 DEF OneSuccessor, At
      <4> QED BY <4>3, <4>5, <4>7
    <3>5. Ordered'
      BY <2>1, <3>4 DEF Filled, Ordered, Unversioned
    <3>6. Unseen' /\ FillIsNotOlder'
      BY <1>0, <2>1, <3>2 DEF Filled, Unseen, FillIsNotOlder, Unversioned, At, Refreshers
    <3> QED BY <3>5, <3>6 DEF Filled
  <2> QED BY <1>7, <2>2, <2>3 DEF SaveCredentials
<1> QED BY <1>1, <1>2, <1>3, <1>4, <1>5, <1>6, <1>7 DEF RefreshSteps

LEMMA AdminIsFilled == ASSUME Typed, Safe, Filled, AdminSteps PROVE Filled'
<1>0. UNCHANGED agent
  BY DEF AdminSteps, ReadForRefresh, RefreshManually, Authorize, LoadAccount, WriteAccount,
         ClearAccountError, InvalidateAfterAdmin
<1>1. CASE Unversioned'
  BY <1>0, <1>1 DEF Filled, Ordered, Unseen, FillIsNotOlder, Unversioned, At
<1>2. CASE ~Unversioned'
  <2>1. unguarded' = unguarded /\ (LoadAccount \/ WriteAccount \/ InvalidateAfterAdmin)
    BY <1>2 DEF AdminSteps, ReadForRefresh, RefreshManually, Authorize, LoadAccount, WriteAccount,
       ClearAccountError, InvalidateAfterAdmin, AdminAt, history, Unversioned, Safe, AdminIsOutside
  <2>2. UNCHANGED <<issued, live, saves>>
    BY <2>1 DEF LoadAccount, WriteAccount, InvalidateAfterAdmin, provider
  <2>3. admin \in AdminRecords /\ row \in Row /\ admin.new = 0
    BY <1>2, <2>1 DEF Typed, Accounts, Admins, Unversioned, Safe, AdminIsOutside
  <2>4. Knows(row'.gen, row'.ver) /\ Knows(admin'.gen, admin'.ver)
    <3>1. CASE LoadAccount
      <4>1. /\ row' = row
            /\ \/ admin'.gen = admin.gen /\ admin'.ver = admin.ver
               \/ admin'.gen = row.gen /\ admin'.ver = row.ver
        BY <1>2, <2>3, <3>1 DEF LoadAccount, Unversioned, AdminRecords, NoOp
      <4> QED BY <4>1 DEF Knows
    <3>2. CASE WriteAccount
      <4>1. \/ row'.gen = admin.gen /\ row'.ver = admin.ver
            \/ row' = row
        BY <2>3, <3>2 DEF WriteAccount, Row
      <4>2. admin'.gen = 1 /\ admin'.ver = 0
        <5>1. \/ admin' = NoOp
              \/ \E p : admin' = [NoOp EXCEPT !.kind = admin.kind, !.pc = p]
          BY <3>2 DEF WriteAccount, AdminEnds
        <5>2. NoOp.gen = 1 /\ NoOp.ver = 0
          BY DEF NoOp
        <5>3. ASSUME NEW p, admin' = [NoOp EXCEPT !.kind = admin.kind, !.pc = p]
              PROVE  admin'.gen = 1 /\ admin'.ver = 0
          BY <5>3 DEF NoOp
        <5> QED BY <5>1, <5>2, <5>3
      <4> QED BY <4>1, <4>2 DEF Knows
    <3>3. CASE InvalidateAfterAdmin
      BY <3>3 DEF InvalidateAfterAdmin, AdminEnds, NoOp, Knows
    <3> QED BY <2>1, <3>1, <3>2, <3>3
  <2>5. \A g, v : Knows(g, v)' => Knows(g, v)
    BY <1>0, <2>4 DEF Knows, At
  <2>6. Ordered'
    BY <1>0, <2>1, <2>2, <2>5, NothingNew DEF Filled, At
  <2> QED BY <1>0, <2>1, <2>6 DEF Filled, Unseen, FillIsNotOlder, Unversioned, At
<1> QED BY <1>1, <1>2

LEMMA TimeIsFilled ==
    ASSUME Typed, Filled, Age \/ ExpireCache \/ ExpireCooldown \/ ExpireLock
    PROVE  Filled'
<1>1. /\ UNCHANGED <<issued, live, saves, agent, admin>> /\ unguarded \subseteq unguarded'
      /\ row'.gen = row.gen /\ row'.ver = row.ver
  BY DEF Age, ExpireCache, ExpireCooldown, ExpireLock, provider, history, Typed, Accounts, Row
<1>2. \A g, v : Knows(g, v)' => Knows(g, v)
  BY <1>1 DEF Knows, At
<1>3. Ordered'
  BY <1>1, <1>2, NothingNew DEF Filled, At
<1> QED BY <1>1, <1>3 DEF Filled, Unseen, FillIsNotOlder, Unversioned, At

LEMMA CrashIsFilled == ASSUME Filled, NEW p \in Places, Crash(p) PROVE Filled'
<1>1. /\ \A h \in Refreshers : agent'[h] \in {Resting, agent[h]}
      /\ UNCHANGED <<row, issued, live, saves, unguarded>>
      /\ admin' \in {NoOp, admin}
  BY DEF Crash, provider
<1>2. /\ Resting.pc = "idle" /\ Resting.seen = 0 /\ Resting.work = Blank /\ Resting.acct = Blank
      /\ Blank.gen = 1 /\ Blank.ver = 0 /\ NoOp.gen = 1 /\ NoOp.ver = 0
  BY DEF Resting, Blank, NoOp
<1>3. \A g, v : Knows(g, v)' => Knows(g, v)
  BY <1>1, <1>2 DEF Knows, At
<1>4. \A h \in Refreshers : agent'[h].pc = "save" => At(h, "save") /\ agent'[h].new = agent[h].new
  BY <1>1, <1>2 DEF At
<1>5. Ordered'
  BY <1>1, <1>3, <1>4, NothingNew DEF Filled
<1>6. Unseen' /\ FillIsNotOlder'
  BY <1>1, <1>2 DEF Filled, Unseen, FillIsNotOlder, Unversioned, At, Refreshers
<1> QED BY <1>5, <1>6 DEF Filled

LEMMA InitIsFilled == Init => Filled
<1> SUFFICES ASSUME Init PROVE Filled
  OBVIOUS
<1>1. \A h \in Refreshers : agent[h] = Resting
  BY DEF Init
<1>2. /\ Resting.pc = "idle" /\ Resting.seen = 0 /\ Resting.work = Blank /\ Resting.acct = Blank
      /\ Blank.gen = 1 /\ Blank.ver = 0 /\ NoOp.gen = 1 /\ NoOp.ver = 0
  BY DEF Resting, Blank, NoOp
<1>3. \A g, v : Knows(g, v) => g = 1 /\ v = 0
  BY <1>1, <1>2 DEF Knows, Init
<1>4. Bounded /\ VersionsFollow /\ OneSuccessor
  BY <1>1, <1>2, <1>3 DEF Init, Bounded, VersionsFollow, OneSuccessor, At
<1>5. Unseen /\ FillIsNotOlder
  BY <1>1, <1>2 DEF Unseen, FillIsNotOlder, Unversioned, At, Refreshers
<1> QED BY <1>4, <1>5 DEF Filled, Ordered

LEMMA StepIsFilled == Typed /\ Safe /\ Filled /\ [Next]_vars => Filled'
<1> SUFFICES ASSUME Typed, Safe, Filled, [Next]_vars PROVE Filled'
  OBVIOUS
<1>1. ASSUME NEW h \in Refreshers, RefreshSteps(h) PROVE Filled'
  BY <1>1, RefreshIsFilled
<1>2. CASE BackgroundSteps(Background)
  BY <1>2, OutsideIsFilled DEF Refreshers
<1>3. ASSUME NEW r \in Requests, Begin(r) \/ RequestSteps(r) PROVE Filled'
  BY <1>3, OutsideIsFilled DEF Refreshers
<1>4. CASE AdminSteps
  BY <1>4, AdminIsFilled
<1>5. CASE Age \/ ExpireCache \/ ExpireCooldown \/ ExpireLock
  BY <1>5, TimeIsFilled
<1>6. ASSUME NEW p \in Places, Crash(p) PROVE Filled'
  BY <1>6, CrashIsFilled
<1>7. CASE UNCHANGED vars
  <2>1. /\ UNCHANGED <<issued, live, saves, unguarded, row, admin, agent>>
        /\ \A g, v : Knows(g, v)' => Knows(g, v)
    BY <1>7 DEF vars, Knows, At
  <2>2. Ordered'
    BY <2>1, NothingNew DEF Filled, At
  <2> QED BY <2>1, <2>2 DEF Filled, Unseen, FillIsNotOlder, Unversioned, At
<1> QED BY <1>1, <1>2, <1>3, <1>4, <1>5, <1>6, <1>7 DEF Next

\* No request fills the cache with a token older than the row's when it compared
\* the versions, unless an administrator replaced the credentials or an edit came
\* with a version that is not the row's (service/token_cache_invalidator.go:71-117).
THEOREM CacheIsNotFilledWithOlder == SafetySpec => []FillIsNotOlder
<1>1. Init => Filled
  BY InitIsFilled
<1>2. Typed /\ Safe /\ Filled /\ [Next]_vars => Filled'
  BY StepIsFilled
<1>3. Filled => FillIsNotOlder
  BY DEF Filled
<1> QED BY <1>1, <1>2, <1>3, AlwaysSafe, PTL DEF SafetySpec

-----------------------------------------------------------------------------
(* QuarantineIsDeserved *)

HandPlaces == {"call", "save", "recover"}

\* Nobody has a good token, in hand or about to be exchanged, but a
\* re-authorization, which brings the account back into service.
GoodInHand(h) ==
    \/ At(h, "save") /\ agent[h].new \in live
    \/ At(h, "call") /\ agent[h].work.gen \in live
NoHands ==
    /\ \A h \in Refreshers : ~GoodInHand(h)
    /\ admin.new \in live => admin.kind = "apply"
    /\ admin.pc = "call" => admin.gen \notin live

\* The background refresh will take the account out of service, and its second
\* look at the row has missed nobody.
Sentenced ==
    /\ ~agent[Background].excuse
    /\ \/ At(Background, "quarantine")
       \/ At(Background, "release") /\ agent[Background].out = "denied"
Sentence == agent[Background].seen

AdminShape ==
    /\ admin.pc = "load" => admin.kind \in {"refresh", "apply"}
    /\ admin.pc \in {"load", "write"} => (admin.new = 0 <=> admin.kind = "update")
    /\ admin.kind = "update" => admin.pc = "write"
Issued ==
    /\ row.gen <= issued /\ admin.gen <= issued /\ admin.new <= issued
    /\ \A h \in Refreshers :
          /\ agent[h].pc \in {"call", "recover"} => agent[h].work.gen <= issued
          /\ At(h, "save") => agent[h].new <= issued
    /\ Sentenced => Sentence \in 1..issued

\* A successor in hand has not been in the row, and one hand has it.
Fresh ==
    /\ \A h \in Refreshers : At(h, "save") =>
          /\ agent[h].new \notin {1, row.gen, admin.gen, admin.new}
          /\ Sentenced => agent[h].new # Sentence
          /\ \A k \in Refreshers \ {h} : At(k, "save") => agent[h].new # agent[k].new
    /\ admin.new # row.gen
    /\ Sentenced => admin.new # Sentence
Refused == \A h \in Refreshers : At(h, "recover") => agent[h].work.gen \notin live

\* What was refused stays refused, and nobody can replace it unseen: while the
\* row has it no hand has a good token, and no edit brings it back to the row
\* after one had.
Doomed ==
    Sentenced =>
        /\ Sentence \notin live
        /\ row.gen = Sentence => NoHands
        /\ admin.kind = "update" /\ admin.gen = Sentence => NoHands /\ row.gen \notin live

Condemned ==
    ~excused =>
       /\ row.status = "error" =>
             /\ NoHands
             /\ row.gen \notin live \/ AdminAt("apply", "clear")
       /\ admin.pc = "write" /\ admin.status = "error" =>
             /\ row.status = "error"
             /\ admin.kind = "update" => admin.gen \notin live

Judged == AdminShape /\ Issued /\ Fresh /\ Refused /\ Doomed /\ Condemned

LEMMA Numbers ==
    ASSUME Typed
    PROVE  /\ issued \in Nat /\ issued >= 1 /\ live \subseteq 1..issued /\ issued + 1 \notin live
           /\ row.gen \in Nat /\ row.gen >= 1 /\ admin.gen \in Nat /\ admin.new \in Nat
           /\ Background \in Refreshers
           /\ \A h \in Refreshers :
                 /\ agent[h].new \in Nat /\ agent[h].work.gen \in Nat /\ agent[h].seen \in Nat
                 /\ At(h, "save") => agent[h].new >= 1
<1>1. \A h \in Refreshers : agent[h] \in Agent
  BY DEF Typed, Agents
<1>2. \A h \in Refreshers :
         agent[h].new \in Nat /\ agent[h].work.gen \in Nat /\ agent[h].seen \in Nat
  BY <1>1 DEF Agent, Credentials, Gens
<1>3. row.gen \in Nat /\ row.gen >= 1 /\ admin.gen \in Nat /\ admin.new \in Nat
  BY DEF Typed, Accounts, Row, Admins, AdminRecords, Gens
<1>4. issued \in Nat /\ issued >= 1 /\ live \subseteq 1..issued /\ issued + 1 \notin live
  BY DEF Typed, Accounts, Gens
<1>5. \A h \in Refreshers : At(h, "save") => agent[h].new >= 1
  BY DEF Typed, Agents, Good, Gens, At
<1> QED BY <1>2, <1>3, <1>4, <1>5 DEF Refreshers

\* Somebody lets go of what it had: a step that puts nothing into a hand, into
\* the row or before the administrator.
LEMMA LessIsJudged ==
    ASSUME Typed, Judged,
           UNCHANGED <<live, issued>>, row'.gen = row.gen, row'.status = row.status,
           excused => excused',
           \A k \in Refreshers : agent'[k].pc \in HandPlaces => agent'[k] = agent[k],
           Sentenced' => Sentenced /\ Sentence' = Sentence,
           \/ admin' = admin
           \/ /\ admin'.new = 0 /\ admin'.gen = 1 /\ admin'.kind # "update"
              /\ admin'.pc \notin {"call", "load", "write"}
              /\ AdminAt("apply", "clear") => excused'
    PROVE  Judged'
<1> USE DEF HandPlaces, At
<1>1. NoHands => NoHands'
  BY Numbers DEF NoHands, GoodInHand
<1>2. AdminShape'
  BY DEF Judged, AdminShape
<1>3. Issued'
  BY Numbers DEF Judged, Issued
<1>4. Fresh'
  <2>1. /\ \A k \in Refreshers : At(k, "save") => agent[k].new \notin {0, 1}
        /\ row.gen # 0 /\ (Sentenced => Sentence # 0)
    BY Numbers DEF Judged, Issued, Fresh
  <2>2. \A k \in Refreshers : At(k, "save")' => At(k, "save") /\ agent'[k] = agent[k]
    OBVIOUS
  <2>3. CASE admin' = admin
    BY <2>2, <2>3 DEF Judged, Fresh
  <2>4. CASE admin'.new = 0 /\ admin'.gen = 1
    BY <2>1, <2>2, <2>4 DEF Judged, Fresh
  <2> QED BY <2>3, <2>4
<1>5. Refused'
  BY DEF Judged, Refused
<1>6. Doomed'
  BY <1>1 DEF Judged, Doomed
<1>7. Condemned'
  BY <1>1 DEF Judged, Condemned, AdminAt
<1> QED BY <1>2, <1>3, <1>4, <1>5, <1>6, <1>7 DEF Judged

\* h is about to exchange the token of an account in service.
LEMMA CallIsJudged ==
    ASSUME Typed, Judged, NEW h \in Refreshers,
           UNCHANGED <<live, issued, row, admin, excused>>, row.status = "active",
           \A k \in Refreshers \ {h} : agent'[k] = agent[k],
           agent'[h].pc = "call", agent'[h].work.gen = row.gen
    PROVE  Judged'
<1> USE DEF At
<1>0. Sentenced' => Sentenced /\ Sentence' = Sentence /\ h # Background
  BY Numbers DEF Sentenced, Sentence
<1>1. NoHands /\ row.gen \notin live => NoHands'
  BY DEF NoHands, GoodInHand
<1>2. AdminShape'
  BY DEF Judged, AdminShape
<1>3. Issued'
  BY <1>0 DEF Judged, Issued
<1>4. Fresh'
  BY <1>0 DEF Judged, Fresh
<1>5. Refused'
  BY DEF Judged, Refused
<1>6. Doomed'
  BY <1>0, <1>1 DEF Judged, Doomed
<1>7. Condemned'
  BY DEF Judged, Condemned
<1> QED BY <1>2, <1>3, <1>4, <1>5, <1>6, <1>7 DEF Judged

\* The provider rotates; what it issues is in the hand of h or lost.
LEMMA RotationIsJudged ==
    ASSUME Typed, Judged, NEW h \in Refreshers,
           UNCHANGED <<row, admin, excused>>, issued' = issued + 1,
           At(h, "call"), agent[h].work.gen \in live,
           live' = (live \ {agent[h].work.gen}) \cup {issued + 1},
           \A k \in Refreshers \ {h} : agent'[k] = agent[k],
           \/ agent'[h].pc = "save" /\ agent'[h].new = issued + 1
           \/ agent'[h].pc = "release" /\ agent'[h].out = "failed"
    PROVE  Judged'
<1> USE DEF At
<1>0. Sentenced' => Sentenced /\ Sentence' = Sentence /\ h # Background
  BY Numbers DEF Sentenced, Sentence
<1>1. ~NoHands
  BY DEF NoHands, GoodInHand
<1>2. AdminShape'
  BY DEF Judged, AdminShape
<1>3. Issued'
  BY <1>0, Numbers DEF Judged, Issued, Sentence
<1>4. Fresh'
  <2>1. /\ row.gen # issued + 1 /\ admin.gen # issued + 1 /\ admin.new # issued + 1
        /\ 1 # issued + 1
        /\ Sentenced => Sentence # issued + 1
        /\ \A k \in Refreshers : At(k, "save") => agent[k].new # issued + 1
    BY Numbers DEF Judged, Issued, Sentence
  <2> QED BY <1>0, <2>1 DEF Judged, Fresh
<1>5. Refused'
  <2>1. \A k \in Refreshers : At(k, "recover") => agent[k].work.gen # issued + 1
    BY Numbers DEF Judged, Issued
  <2> QED BY <2>1 DEF Judged, Refused
<1>6. Doomed'
  <2>1. Sentenced => Sentence # issued + 1
    BY Numbers DEF Judged, Issued, Sentence
  <2> QED BY <1>0, <1>1, <2>1 DEF Judged, Doomed
<1>7. Condemned'
  BY <1>1 DEF Judged, Condemned
<1> QED BY <1>2, <1>3, <1>4, <1>5, <1>6, <1>7 DEF Judged

\* The provider refuses the token of h.
LEMMA RefusalIsJudged ==
    ASSUME Typed, Judged, NEW h \in Refreshers,
           UNCHANGED <<live, issued, row, admin, excused>>,
           At(h, "call"), agent[h].work.gen \notin live,
           \A k \in Refreshers \ {h} : agent'[k] = agent[k],
           agent'[h].pc = "recover", agent'[h].work = agent[h].work
    PROVE  Judged'
<1> USE DEF At
<1>0. Sentenced' => Sentenced /\ Sentence' = Sentence /\ h # Background
  BY Numbers DEF Sentenced, Sentence
<1>1. NoHands => NoHands'
  BY DEF NoHands, GoodInHand
<1>2. AdminShape'
  BY DEF Judged, AdminShape
<1>3. Issued'
  BY <1>0 DEF Judged, Issued
<1>4. Fresh'
  BY <1>0 DEF Judged, Fresh
<1>5. Refused'
  BY DEF Judged, Refused
<1>6. Doomed'
  BY <1>0, <1>1 DEF Judged, Doomed
<1>7. Condemned'
  BY <1>1 DEF Judged, Condemned, AdminAt
<1> QED BY <1>2, <1>3, <1>4, <1>5, <1>6, <1>7 DEF Judged

\* The row gets what h has in hand.
LEMMA SaveIsJudged ==
    ASSUME Typed, Judged, NEW h \in Refreshers,
           UNCHANGED <<live, issued, admin, excused>>, row'.status = row.status,
           At(h, "save"), row'.gen = agent[h].new,
           \A k \in Refreshers \ {h} : agent'[k] = agent[k],
           agent'[h].pc = "release", agent'[h].out = "refreshed"
    PROVE  Judged'
<1> USE DEF At
<1>0. Sentenced' => Sentenced /\ Sentence' = Sentence /\ h # Background
  BY Numbers DEF Sentenced, Sentence
<1>1. NoHands => NoHands' /\ agent[h].new \notin live
  BY DEF NoHands, GoodInHand
<1>2. AdminShape'
  BY DEF Judged, AdminShape
<1>3. Issued'
  BY <1>0 DEF Judged, Issued
<1>4. Fresh'
  BY <1>0 DEF Judged, Fresh
<1>5. Refused'
  BY DEF Judged, Refused
<1>6. Doomed'
  BY <1>0, <1>1 DEF Judged, Doomed, Fresh
<1>7. Condemned'
  BY <1>1 DEF Judged, Condemned
<1> QED BY <1>2, <1>3, <1>4, <1>5, <1>6, <1>7 DEF Judged

\* The second look at the row finds the refused token.
LEMMA DenialIsJudged ==
    ASSUME Typed, Judged, NEW h \in Refreshers,
           UNCHANGED <<live, issued, row, admin, excused>>,
           At(h, "recover"), row.gen = agent[h].work.gen,
           \A k \in Refreshers \ {h} : agent'[k] = agent[k],
           agent'[h].pc = "release", agent'[h].seen = row.gen,
           InHand(h) => agent'[h].excuse
    PROVE  Judged'
<1> USE DEF At
<1>0. row.gen \notin live
  BY DEF Judged, Refused
<1>1. NoHands => NoHands'
  BY DEF NoHands, GoodInHand
<1>2. Sentenced' => \/ Sentenced /\ Sentence' = Sentence
                    \/ NoHands /\ Sentence' = row.gen
  <2>1. CASE h # Background
    BY <2>1, Numbers DEF Sentenced, Sentence
  <2>2. CASE h = Background /\ Sentenced'
    <3>1. ~InHand(h)
      BY <2>2 DEF Sentenced
    <3>2. NoHands
      BY <3>1 DEF InHand, NoHands, GoodInHand
    <3> QED BY <2>2, <3>2 DEF Sentence
  <2> QED BY <2>1, <2>2
<1>3. AdminShape'
  BY DEF Judged, AdminShape
<1>4. Issued'
  BY <1>2, Numbers DEF Judged, Issued
<1>5. Fresh'
  BY <1>2 DEF Judged, Fresh
<1>6. Refused'
  BY DEF Judged, Refused
<1>7. Doomed'
  BY <1>0, <1>1, <1>2 DEF Judged, Doomed
<1>8. Condemned'
  BY <1>1 DEF Judged, Condemned, AdminAt
<1> QED BY <1>3, <1>4, <1>5, <1>6, <1>7, <1>8 DEF Judged

\* The account goes out of service.
LEMMA SentenceIsJudged ==
    ASSUME Typed, Judged,
           UNCHANGED <<live, issued, admin>>, row'.gen = row.gen, row'.status = "error",
           At(Background, "quarantine"),
           excused' = (excused \/ agent[Background].excuse \/ row.gen # agent[Background].seen),
           \A k \in Refreshers \ {Background} : agent'[k] = agent[k],
           agent'[Background].pc = "invalidate"
    PROVE  Judged'
<1> USE DEF At
<1>0. ~Sentenced'
  BY DEF Sentenced
<1>1. NoHands => NoHands'
  BY DEF NoHands, GoodInHand
<1>2. ~excused' => ~excused /\ NoHands /\ row.gen \notin live
  BY DEF Judged, Doomed, Sentenced, Sentence
<1>3. AdminShape'
  BY DEF Judged, AdminShape
<1>4. Issued'
  BY <1>0 DEF Judged, Issued
<1>5. Fresh'
  BY <1>0 DEF Judged, Fresh
<1>6. Refused'
  BY DEF Judged, Refused
<1>7. Doomed'
  BY <1>0 DEF Doomed
<1>8. Condemned'
  BY <1>1, <1>2 DEF Judged, Condemned
<1> QED BY <1>3, <1>4, <1>5, <1>6, <1>7, <1>8 DEF Judged
\* A step of the administrator that leaves the refreshers where they are.
LEMMA AdminIsJudged == ASSUME Typed, Judged, AdminSteps PROVE Judged'
<1> USE DEF At
<1>0. UNCHANGED agent
  BY DEF AdminSteps, ReadForRefresh, RefreshManually, Authorize, LoadAccount, WriteAccount,
         ClearAccountError, InvalidateAfterAdmin
<1>s. Sentenced' = Sentenced /\ Sentence' = Sentence
  BY <1>0 DEF Sentenced, Sentence
<1>n. /\ NoOp.new = 0 /\ NoOp.gen = 1 /\ NoOp.kind = "none" /\ NoOp.pc = "idle"
      /\ admin \in AdminRecords /\ (admin.pc \notin {"load", "write"} => admin.new = 0)
  BY DEF NoOp, Typed, Admins
<1>a. ASSUME admin' = NoOp, UNCHANGED <<row, live, issued, excused>>, ~AdminAt("apply", "clear")
      PROVE  Judged'
  BY <1>0, <1>a, <1>s, <1>n, LessIsJudged
<1>1. CASE ReadForRefresh
  <2>1. /\ UNCHANGED <<row, live, issued, excused>> /\ admin = NoOp
        /\ admin'.kind = "refresh" /\ admin'.pc = "call" /\ admin'.gen = row.gen /\ admin'.new = 0
    BY <1>1, <1>n DEF ReadForRefresh, Begins, provider, NoOp
  <2>2. NoHands /\ row.gen \notin live => NoHands'
    BY <1>0, <2>1, Numbers DEF NoHands, GoodInHand
  <2>3. AdminShape' /\ Issued'
    BY <1>0, <1>s, <2>1, Numbers DEF Judged, AdminShape, Issued
  <2>4. Fresh' /\ Refused'
    <3>1. (\A k \in Refreshers : At(k, "save") => agent[k].new # 0)
          /\ row.gen # 0 /\ (Sentenced => Sentence # 0)
      BY Numbers DEF Judged, Issued
    <3> QED BY <1>0, <1>s, <2>1, <3>1 DEF Judged, Fresh, Refused
  <2>5. Doomed'
    BY <1>s, <2>1, <2>2 DEF Judged, Doomed
  <2>6. Condemned'
    BY <2>1, <2>2, <1>n DEF Judged, Condemned, AdminAt
  <2> QED BY <2>3, <2>4, <2>5, <2>6 DEF Judged
<1>2. CASE RefreshManually
  <2>1. CASE admin.gen \notin live /\ AdminEnds /\ UNCHANGED provider
    BY <1>a, <1>2, <2>1 DEF RefreshManually, AdminEnds, provider, history, AdminAt
  <2>2. CASE admin.gen \in live /\ Rotate(admin.gen)
    <3>1. /\ UNCHANGED <<row, excused>> /\ issued' = issued + 1
          /\ live' = (live \ {admin.gen}) \cup {issued + 1}
          /\ admin.kind = "refresh" /\ admin.pc = "call"
      BY <1>2, <2>2 DEF RefreshManually, AdminAt, Rotate, history
    <3>2. admin'.kind = "refresh" /\ admin'.pc = "load" /\ admin'.gen = admin.gen
          /\ admin'.new = issued + 1
      BY <1>2, <1>n, <2>2, <3>1 DEF RefreshManually, AdminRecords
    <3>3. ~NoHands
      BY <2>2, <3>1 DEF NoHands
    <3>4. AdminShape' /\ Issued'
      BY <1>0, <1>s, <3>1, <3>2, Numbers DEF Judged, AdminShape, Issued
    <3>5. /\ row.gen # issued + 1 /\ (Sentenced => Sentence # issued + 1)
          /\ \A k \in Refreshers : /\ At(k, "save") => agent[k].new # issued + 1
                                   /\ At(k, "recover") => agent[k].work.gen # issued + 1
      BY Numbers DEF Judged, Issued
    <3>6. Fresh' /\ Refused'
      BY <1>0, <1>s, <3>1, <3>2, <3>5 DEF Judged, Fresh, Refused
    <3>7. Doomed'
      BY <1>s, <3>1, <3>2, <3>3, <3>5 DEF Judged, Doomed
    <3>8. Condemned'
      BY <3>1, <3>2, <3>3 DEF Judged, Condemned
    <3> QED BY <3>4, <3>6, <3>7, <3>8 DEF Judged
  <2> QED BY <1>2, <2>1, <2>2 DEF RefreshManually
<1>3. CASE Authorize
  <2>1. /\ UNCHANGED <<row, excused>> /\ issued' = issued + 1 /\ admin = NoOp
        /\ live' \subseteq live \cup {issued + 1}
        /\ admin'.kind = "apply" /\ admin'.pc = "load" /\ admin'.gen = 1
        /\ admin'.new = issued + 1
    BY <1>3, <1>n DEF Authorize, Begins, NoOp
  <2>2. /\ row.gen # issued + 1 /\ (Sentenced => Sentence # issued + 1)
        /\ issued + 1 # 0
        /\ \A k \in Refreshers :
              /\ At(k, "save") => agent[k].new # issued + 1
              /\ agent[k].pc \in {"call", "recover"} => agent[k].work.gen # issued + 1
    BY Numbers DEF Judged, Issued
  <2>3. NoHands => NoHands'
    BY <1>0, <2>1, <2>2 DEF NoHands, GoodInHand
  <2>4. AdminShape' /\ Issued'
    BY <1>0, <1>s, <2>1, Numbers DEF Judged, AdminShape, Issued
  <2>5. Fresh' /\ Refused'
    BY <1>0, <1>s, <2>1, <2>2 DEF Judged, Fresh, Refused
  <2>6. Doomed'
    BY <1>s, <2>1, <2>2, <2>3 DEF Judged, Doomed
  <2>7. Condemned'
    BY <1>n, <2>1, <2>2, <2>3 DEF Judged, Condemned, AdminAt
  <2> QED BY <2>4, <2>5, <2>6, <2>7 DEF Judged
<1>4. CASE LoadAccount
  <2>1. UNCHANGED <<row, live, issued, excused>>
    BY <1>4 DEF LoadAccount, provider, history
  <2>2. /\ admin'.pc = "write" /\ admin'.status = row.status
        /\ \/ admin.pc = "load" /\ admin'.kind = admin.kind /\ admin'.gen = admin.gen
              /\ admin'.new = admin.new
           \/ admin = NoOp /\ admin'.kind = "update" /\ admin'.gen = row.gen /\ admin'.new = 0
    BY <1>4, <1>n DEF LoadAccount, Begins, NoOp, AdminRecords
  <2>3. NoHands => NoHands'
    BY <1>0, <2>1, <2>2, Numbers DEF NoHands, GoodInHand
  <2>4. AdminShape' /\ Issued'
    BY <1>0, <1>s, <2>1, <2>2, Numbers DEF Judged, AdminShape, Issued
  <2>5. Fresh' /\ Refused'
    <3>1. (\A k \in Refreshers : At(k, "save") => agent[k].new # 0)
          /\ row.gen # 0 /\ (Sentenced => Sentence # 0)
      BY Numbers DEF Judged, Issued
    <3> QED BY <1>0, <1>s, <2>1, <2>2, <3>1 DEF Judged, Fresh, Refused
  <2>6. Doomed'
    BY <1>s, <2>1, <2>2, <2>3 DEF Judged, Doomed, AdminShape
  <2>7. Condemned'
    BY <1>n, <2>1, <2>2, <2>3 DEF Judged, Condemned, AdminAt, AdminShape
  <2> QED BY <2>4, <2>5, <2>6, <2>7 DEF Judged
<1>5. CASE WriteAccount
  <2>0. admin.pc = "write" /\ UNCHANGED <<live, issued, excused>>
    BY <1>5 DEF WriteAccount, provider
  <2>1. CASE AdminEnds /\ UNCHANGED row
    BY <1>a, <2>0, <2>1 DEF AdminEnds, AdminAt
  <2>2. CASE ~(AdminEnds /\ UNCHANGED row)
    <3>1. /\ row'.gen = (IF admin.new = 0 THEN admin.gen ELSE admin.new)
          /\ row'.status = admin.status
      BY <1>5, <2>2 DEF WriteAccount, Typed, Accounts, Row
    <3>2. \/ admin' = NoOp
          \/ admin' = [NoOp EXCEPT !.kind = "refresh", !.pc = "invalidate"]
          \/ admin' = [NoOp EXCEPT !.kind = "apply", !.pc = "clear"]
      BY <1>5, <2>2 DEF WriteAccount
    <3>3. admin.kind = "apply" => admin' = [NoOp EXCEPT !.kind = "apply", !.pc = "clear"]
      BY <1>5, <2>2 DEF WriteAccount
    <3>4. /\ admin'.new = 0 /\ admin'.gen = 1 /\ admin'.pc \in {"idle", "invalidate", "clear"}
          /\ admin'.kind # "update"
          /\ admin.kind = "apply" => AdminAt("apply", "clear")'
      <4>1. /\ [NoOp EXCEPT !.kind = "refresh", !.pc = "invalidate"].new = 0
            /\ [NoOp EXCEPT !.kind = "refresh", !.pc = "invalidate"].gen = 1
            /\ [NoOp EXCEPT !.kind = "refresh", !.pc = "invalidate"].pc = "invalidate"
            /\ [NoOp EXCEPT !.kind = "refresh", !.pc = "invalidate"].kind = "refresh"
        BY DEF NoOp
      <4>2. /\ [NoOp EXCEPT !.kind = "apply", !.pc = "clear"].new = 0
            /\ [NoOp EXCEPT !.kind = "apply", !.pc = "clear"].gen = 1
            /\ [NoOp EXCEPT !.kind = "apply", !.pc = "clear"].pc = "clear"
            /\ [NoOp EXCEPT !.kind = "apply", !.pc = "clear"].kind = "apply"
        BY DEF NoOp
      <4> QED BY <1>n, <3>2, <3>3, <4>1, <4>2, ZenonT(60) DEF AdminAt
    <3>5. NoHands => NoHands'
      BY <1>0, <2>0, <3>4, Numbers DEF NoHands, GoodInHand
    <3>6. AdminShape' /\ Issued'
      BY <1>0, <1>s, <2>0, <3>1, <3>4, Numbers DEF Judged, AdminShape, Issued
    <3>7. Fresh' /\ Refused'
      <4>1. /\ \A k \in Refreshers : At(k, "save") => agent[k].new # 0
            /\ admin.gen # 0 /\ (Sentenced => Sentence # 0)
        BY <1>n, Numbers DEF Judged, Issued, AdminRecords, Gens
      <4> QED BY <1>0, <1>s, <2>0, <3>1, <3>4, <4>1 DEF Judged, Fresh, Refused
    <3>8. Doomed'
      BY <1>s, <2>0, <3>1, <3>4, <3>5 DEF Judged, Doomed, Fresh, AdminShape
    <3>9. Condemned'
      <4>1. ~excused /\ admin.status = "error" =>
                NoHands /\ (row'.gen \notin live \/ admin.kind = "apply")
        BY <2>0, <3>1 DEF Judged, Condemned, AdminShape, NoHands
      <4> QED BY <2>0, <3>1, <3>4, <3>5, <4>1 DEF Condemned
    <3> QED BY <3>6, <3>7, <3>8, <3>9 DEF Judged
  <2> QED BY <2>1, <2>2
<1>6. CASE ClearAccountError
  <2>1. /\ UNCHANGED <<live, issued>> /\ row'.gen = row.gen
        /\ row'.status = "active" \/ excused'
        /\ admin'.new = admin.new /\ admin'.gen = admin.gen /\ admin'.kind = "apply"
        /\ admin.kind = "apply" /\ admin'.pc = "invalidate"
    <3>1. row \in Row
      BY DEF Typed, Accounts
    <3>2. /\ UNCHANGED <<live, issued>> /\ admin' = [admin EXCEPT !.pc = "invalidate"]
          /\ admin.kind = "apply"
          /\ \/ row' = [row EXCEPT !.status = "active", !.temp = "none"]
             \/ row' = row /\ excused' = TRUE
      BY <1>6 DEF ClearAccountError, AdminAt, provider
    <3>3. row'.gen = row.gen /\ (row'.status = "active" \/ excused')
      BY <3>1, <3>2 DEF Row
    <3> QED BY <1>n, <3>2, <3>3 DEF AdminRecords
  <2>2. NoHands => NoHands'
    BY <1>0, <2>1 DEF NoHands, GoodInHand
  <2>3. AdminShape' /\ Issued'
    BY <1>0, <1>s, <2>1 DEF Judged, AdminShape, Issued
  <2>4. Fresh' /\ Refused'
    BY <1>0, <1>s, <2>1 DEF Judged, Fresh, Refused
  <2>5. Doomed'
    BY <1>s, <2>1, <2>2 DEF Judged, Doomed
  <2>6. Condemned'
    BY <2>1 DEF Condemned
  <2> QED BY <2>3, <2>4, <2>5, <2>6 DEF Judged
<1>7. CASE InvalidateAfterAdmin
  BY <1>a, <1>7 DEF InvalidateAfterAdmin, AdminEnds, provider, history, AdminAt
<1> QED BY <1>1, <1>2, <1>3, <1>4, <1>5, <1>6, <1>7 DEF AdminSteps
LEMMA TimeIsJudged ==
    ASSUME Typed, Judged, Age \/ ExpireCache \/ ExpireCooldown \/ ExpireLock
    PROVE  Judged'
<1>1. /\ UNCHANGED <<live, issued, agent, admin, excused>>
      /\ row'.gen = row.gen /\ row'.status = row.status
  BY DEF Age, ExpireCache, ExpireCooldown, ExpireLock, provider, history, Typed, Accounts, Row
<1>2. Sentenced' = Sentenced /\ Sentence' = Sentence
  BY <1>1 DEF Sentenced, Sentence, At
<1> QED BY <1>1, <1>2, LessIsJudged

LEMMA CrashIsJudged == ASSUME Typed, Judged, NEW p \in Places, Crash(p) PROVE Judged'
<1>1. /\ \A h \in Refreshers : agent'[h] \in {Resting, agent[h]}
      /\ UNCHANGED <<row, issued, live>>
      /\ excused' = (excused \/ (p = "here" /\ AdminAt("apply", "clear")))
      /\ admin' = IF p = "here" THEN NoOp ELSE admin
  BY DEF Crash, provider
<1>2. /\ Resting.pc = "idle" /\ NoOp.new = 0 /\ NoOp.gen = 1 /\ NoOp.kind = "none"
      /\ NoOp.pc = "idle"
  BY DEF Resting, NoOp
<1>3. Sentenced' => Sentenced /\ Sentence' = Sentence
  BY <1>1, <1>2, Numbers DEF Sentenced, Sentence, At
<1> QED BY <1>1, <1>2, <1>3, LessIsJudged DEF HandPlaces

\* What the steps outside of RefreshIfNeeded leave alone besides.
LEMMA OutsideVerdicts ==
    ASSUME Typed, NEW h \in Refreshers,
           BackgroundSteps(h) \/ (h \in Requests /\ (Begin(h) \/ RequestSteps(h)))
    PROVE  /\ UNCHANGED issued /\ agent'[h].pc # "quarantine"
           /\ Quarantine(h) \/ (row'.status = row.status /\ UNCHANGED excused)
<1>a. agent \in [Refreshers -> Agent] /\ h \in DOMAIN agent /\ agent[h] \in Agent
  BY DEF Typed, Agents
<1>b. row \in Row
  BY DEF Typed, Accounts
<1>1. UNCHANGED issued
  BY DEF BackgroundSteps, RequestSteps, ListCandidate, ClearCooldown, InvalidateToken,
     Quarantine, CoolDown, Begin, GetCachedToken, WaitForCache, CheckTokenVersion,
     SetAccessToken, Use, Reject, Bench, provider
<1>2. Quarantine(h) \/ (row'.status = row.status /\ UNCHANGED excused)
  BY <1>b DEF BackgroundSteps, RequestSteps, ListCandidate, ClearCooldown, InvalidateToken,
     CoolDown, SetCooldown, Begin, GetCachedToken, WaitForCache, CheckTokenVersion,
     SetAccessToken, Use, Reject, Bench, history, Row
<1>3. agent'[h].pc # "quarantine"
  <2>1. \A q \in {"mutex", "check", "fill", "bench"} : Goto(h, q) => agent'[h].pc = q
    BY <1>a DEF Goto, Agent
  <2>2. \A g : Send(h, g) => agent'[h].pc = "use"
    BY <1>a DEF Send, Resting
  <2>3. Rest(h) => agent'[h].pc = "idle"
    BY <1>a DEF Rest, Resting
  <2>4. \A q : agent' = [agent EXCEPT ![h] = [Resting EXCEPT !.pc = q]] => agent'[h].pc = q
    BY <1>a DEF Resting
  <2>5. CASE ListCandidate(h)
    BY <1>a, <2>5 DEF ListCandidate, Agent
  <2>6. CASE Begin(h)
    BY <1>a, <2>6 DEF Begin, Agent
  <2>7. CASE CheckTokenVersion(h)
    <3>1. CASE agent' = [agent EXCEPT ![h].pc = "fill", ![h].seen = row.gen, ![h].acct.ver = 0]
      BY <1>a, <3>1 DEF Agent
    <3> QED BY <2>1, <2>2, <2>7, <3>1 DEF CheckTokenVersion
  <2>8. CASE \/ ClearCooldown(h) \/ InvalidateToken(h) \/ Quarantine(h) \/ CoolDown(h)
             \/ GetCachedToken(h) \/ WaitForCache(h) \/ SetAccessToken(h) \/ Use(h)
             \/ Reject(h) \/ Bench(h)
    BY <2>1, <2>2, <2>3, <2>4, <2>8 DEF ClearCooldown, InvalidateToken, Quarantine, CoolDown,
       GetCachedToken, WaitForCache, SetAccessToken, Use, Reject, Bench
  <2> QED BY <2>5, <2>6, <2>7, <2>8 DEF BackgroundSteps, RequestSteps
<1> QED BY <1>1, <1>2, <1>3

LEMMA OutsideIsJudged ==
    ASSUME Typed, Safe, Judged, NEW h \in Refreshers,
           BackgroundSteps(h) \/ (h \in Requests /\ (Begin(h) \/ RequestSteps(h))),
           Quarantine(h) => h = Background
    PROVE  Judged'
<1>1. /\ UNCHANGED <<live, admin>> /\ row'.gen = row.gen
      /\ \A k \in Refreshers \ {h} : agent'[k] = agent[k]
      /\ agent'[h].pc \notin Inside
  BY OutsideSteps DEF Safe
<1>2. UNCHANGED issued /\ agent'[h].pc # "quarantine"
  BY OutsideVerdicts
<1>3. CASE Quarantine(h)
  <2>1. CASE row'.status = row.status /\ UNCHANGED excused
    <3>1. Sentenced' => Sentenced /\ Sentence' = Sentence
      BY <1>1, <1>2, Numbers DEF Sentenced, Sentence, At, Inside
    <3> QED BY <1>1, <1>2, <2>1, <3>1, LessIsJudged DEF HandPlaces, Inside
  <2>2. CASE ~(row'.status = row.status /\ UNCHANGED excused)
    <3>1. /\ row'.status = "error"
          /\ excused' = (excused \/ agent[h].excuse \/ row.gen # agent[h].seen)
      BY <1>3, <2>2 DEF Quarantine, Typed, Accounts, Row
    <3>2. agent'[h].pc = "invalidate" /\ At(h, "quarantine")
      BY <1>3 DEF Quarantine, Resting, Typed, Agents
    <3> QED BY <1>1, <1>2, <1>3, <3>1, <3>2, SentenceIsJudged
  <2> QED BY <2>1, <2>2
<1>4. CASE row'.status = row.status /\ UNCHANGED excused
  <2>1. Sentenced' => Sentenced /\ Sentence' = Sentence
    BY <1>1, <1>2, Numbers DEF Sentenced, Sentence, At, Inside
  <2> QED BY <1>1, <1>2, <1>4, <2>1, LessIsJudged DEF HandPlaces, Inside
<1> QED BY <1>3, <1>4, OutsideVerdicts

\* A step of h inside of RefreshIfNeeded that takes nothing and denies nothing.
LEMMA LetsGo ==
    ASSUME Typed, Judged, NEW h \in Refreshers,
           UNCHANGED <<live, issued, row, admin, excused>>,
           \A k \in Refreshers \ {h} : agent'[k] = agent[k],
           agent'[h].pc \notin HandPlaces \cup {"quarantine"},
           agent'[h].pc = "release" => agent'[h].out # "denied"
    PROVE  Judged'
<1>1. Sentenced' => Sentenced /\ Sentence' = Sentence
  BY Numbers DEF Sentenced, Sentence, At
<1> QED BY <1>1, LessIsJudged

LEMMA RefreshIsJudged ==
    ASSUME Typed, Judged, NEW h \in Refreshers, RefreshSteps(h)
    PROVE  Judged'
<1>0. UNCHANGED admin /\ \A k \in Refreshers \ {h} : agent'[k] = agent[k]
  BY RefreshOthers
<1>a. agent \in [Refreshers -> Agent] /\ h \in DOMAIN agent /\ agent[h] \in Agent
  BY DEF Typed, Agents
<1>b. \A o : Finish(h, o) => agent'[h].pc = "release" /\ agent'[h].out = o
  BY <1>a DEF Finish, Agent
<1>c. \A q : Goto(h, q) => agent'[h].pc = q /\ agent'[h].work = agent[h].work
  BY <1>a DEF Goto, Agent
<1> USE DEF At
<1>1. CASE LockMutex(h)
  BY <1>0, <1>1, <1>c, LetsGo DEF LockMutex, provider, history, HandPlaces
<1>2. CASE AcquireRefreshLock(h)
  <2>1. UNCHANGED <<live, issued, row, excused>>
    BY <1>2 DEF AcquireRefreshLock, provider
  <2>2. agent'[h].pc = "reread" \/ (agent'[h].pc = "release" /\ agent'[h].out = "held")
    <3>1. CASE agent' = [agent EXCEPT ![h].pc = "reread", ![h].locked = TRUE]
      BY <1>a, <3>1 DEF Agent
    <3> QED BY <1>2, <1>b, <1>c, <3>1 DEF AcquireRefreshLock
  <2> QED BY <1>0, <2>1, <2>2, LetsGo DEF HandPlaces
<1>3. CASE Reread(h)
  <2>1. UNCHANGED <<live, issued, row, excused>>
    BY <1>3 DEF Reread, provider, history
  <2>2. CASE /\ row.status = "active"
             /\ agent' = [agent EXCEPT ![h].pc = "call", ![h].work = Read(h)]
    <3>1. agent'[h].pc = "call" /\ agent'[h].work.gen = row.gen
      BY <1>a, <2>2 DEF Agent, Read
    <3> QED BY <1>0, <2>1, <2>2, <3>1, CallIsJudged
  <2>3. CASE agent' = [agent EXCEPT ![h].pc = "release", ![h].out = "same", ![h].work = Read(h)]
    <3>1. agent'[h].pc = "release" /\ agent'[h].out = "same"
      BY <1>a, <2>3 DEF Agent
    <3> QED BY <1>0, <2>1, <3>1, LetsGo DEF HandPlaces
  <2>4. CASE Finish(h, "gone")
    BY <1>0, <1>b, <2>1, <2>4, LetsGo DEF HandPlaces
  <2> QED BY <1>3, <2>2, <2>3, <2>4 DEF Reread
<1>4. CASE Refresh(h)
  <2>1. UNCHANGED <<row, excused>> /\ At(h, "call")
    BY <1>4 DEF Refresh
  <2>2. CASE /\ agent[h].work.gen \in live /\ Rotate(agent[h].work.gen)
             /\ \/ agent' = [agent EXCEPT ![h].pc = "save", ![h].new = issued + 1]
                \/ Finish(h, "failed")
    <3>1. \/ agent'[h].pc = "save" /\ agent'[h].new = issued + 1
          \/ agent'[h].pc = "release" /\ agent'[h].out = "failed"
      <4>1. CASE agent' = [agent EXCEPT ![h].pc = "save", ![h].new = issued + 1]
        BY <1>a, <4>1 DEF Agent
      <4> QED BY <1>b, <2>2, <4>1
    <3>2. /\ issued' = issued + 1
          /\ live' = (live \ {agent[h].work.gen}) \cup {issued + 1}
      BY <2>2 DEF Rotate
    <3> QED BY <1>0, <2>1, <2>2, <3>1, <3>2, RotationIsJudged
  <2>3. CASE agent[h].work.gen \notin live /\ Goto(h, "recover") /\ UNCHANGED provider
    BY <1>0, <1>c, <2>1, <2>3, RefusalIsJudged DEF provider
  <2>4. CASE Finish(h, "failed") /\ UNCHANGED provider
    BY <1>0, <1>b, <2>1, <2>4, LetsGo DEF provider, HandPlaces
  <2> QED BY <1>4, <2>2, <2>3, <2>4 DEF Refresh
<1>5. CASE SaveCredentials(h)
  <2>1. UNCHANGED <<live, issued, excused>> /\ At(h, "save")
    BY <1>5 DEF SaveCredentials, provider
  <2>2. CASE /\ row' = [row EXCEPT !.gen = agent[h].new, !.ver = saves + 1, !.exp = agent[h].new]
             /\ agent' = [agent EXCEPT ![h].pc = "release", ![h].out = "refreshed", ![h].new = 0,
                            ![h].work = [@ EXCEPT !.gen = agent[h].new, !.ver = saves + 1,
                                                  !.exp = agent[h].new]]
    <3>1. row'.gen = agent[h].new /\ row'.status = row.status
      BY <2>2 DEF Typed, Accounts, Row
    <3>2. agent'[h].pc = "release" /\ agent'[h].out = "refreshed"
      BY <1>a, <2>2 DEF Agent
    <3> QED BY <1>0, <2>1, <3>1, <3>2, SaveIsJudged
  <2>3. CASE UNCHANGED row /\ (Finish(h, "cancelled") \/ Finish(h, "failed"))
    BY <1>0, <1>b, <2>1, <2>3, LetsGo DEF HandPlaces
  <2> QED BY <1>5, <2>2, <2>3 DEF SaveCredentials
<1>6. CASE TryRecoverFromRefreshRace(h)
  <2>1. UNCHANGED <<live, issued, row, excused>> /\ At(h, "recover")
    BY <1>6 DEF TryRecoverFromRefreshRace, provider, history
  <2>2. CASE agent' = [agent EXCEPT ![h].pc = "release", ![h].out = "same", ![h].work = Read(h)]
    <3>1. agent'[h].pc = "release" /\ agent'[h].out = "same"
      BY <1>a, <2>2 DEF Agent
    <3> QED BY <1>0, <2>1, <3>1, LetsGo DEF HandPlaces
  <2>3. CASE /\ row.gen = agent[h].work.gen
             /\ agent' = [agent EXCEPT ![h].pc = "release", ![h].out = "denied",
                            ![h].seen = row.gen, ![h].excuse = InHand(h)]
    <3>1. agent'[h].pc = "release" /\ agent'[h].seen = row.gen /\ agent'[h].excuse = InHand(h)
      BY <1>a, <2>3 DEF Agent
    <3> QED BY <1>0, <2>1, <2>3, <3>1, DenialIsJudged
  <2>4. CASE agent' = [agent EXCEPT ![h].pc = "release", ![h].out = "denied",
                         ![h].seen = row.gen, ![h].excuse = TRUE]
    <3>1. agent'[h].pc = "release" /\ agent'[h].excuse
      BY <1>a, <2>4 DEF Agent
    <3>2. Sentenced' => Sentenced /\ Sentence' = Sentence
      BY <1>0, <3>1, Numbers DEF Sentenced, Sentence
    <3> QED BY <1>0, <2>1, <3>1, <3>2, LessIsJudged DEF HandPlaces
  <2> QED BY <1>6, <2>2, <2>3, <2>4 DEF TryRecoverFromRefreshRace
<1>7. CASE ReleaseRefreshLock(h)
  <2>1. UNCHANGED <<live, issued, row, excused>> /\ At(h, "release")
    BY <1>7 DEF ReleaseRefreshLock, provider
  <2>2. CASE UNCHANGED agent
    <3>1. Sentenced' = Sentenced /\ Sentence' = Sentence
      BY <2>2 DEF Sentenced, Sentence
    <3> QED BY <1>0, <2>1, <2>2, <3>1, LessIsJudged
  <2>3. CASE agent' = [agent EXCEPT ![h] = After(h)]
    <3>1. agent'[h] = After(h)
      BY <1>a, <2>3
    <3>2. After(h).pc \notin HandPlaces \cup {"release"}
      BY <1>a DEF After, AfterBackground, AfterRequest, Resting, HandPlaces, Agent
    <3>3. h = Background /\ After(h).pc = "quarantine" =>
              /\ agent[h].out = "denied"
              /\ After(h).seen = agent[h].seen /\ After(h).excuse = agent[h].excuse
      BY <1>a DEF After, AfterBackground, Resting, Agent
    <3>4. Sentenced' => Sentenced /\ Sentence' = Sentence
      BY <1>0, <2>1, <3>1, <3>2, <3>3, Numbers DEF Sentenced, Sentence
    <3> QED BY <1>0, <2>1, <3>1, <3>2, <3>4, LessIsJudged DEF HandPlaces
  <2> QED BY <1>7, <2>2, <2>3 DEF ReleaseRefreshLock
<1> QED BY <1>1, <1>2, <1>3, <1>4, <1>5, <1>6, <1>7 DEF RefreshSteps

LEMMA InitIsJudged == Init => Judged
<1> SUFFICES ASSUME Init PROVE Judged
  OBVIOUS
<1>1. /\ \A h \in Refreshers : agent[h].pc = "idle"
      /\ admin.pc = "idle" /\ admin.kind = "none" /\ admin.new = 0 /\ admin.gen = 1
      /\ row.gen = 1 /\ row.status = "active" /\ issued = 1 /\ live = {1}
  BY DEF Init, Resting, NoOp
<1>2. ~Sentenced
  BY <1>1 DEF Sentenced, At, Refreshers
<1> QED BY <1>1, <1>2 DEF Judged, AdminShape, Issued, Fresh, Refused, Doomed, Condemned, At

LEMMA StepIsJudged == Typed /\ Safe /\ Judged /\ [Next]_vars => Judged'
<1> SUFFICES ASSUME Typed, Safe, Judged, [Next]_vars PROVE Judged'
  OBVIOUS
<1>1. ASSUME NEW h \in Refreshers, RefreshSteps(h) PROVE Judged'
  BY <1>1, RefreshIsJudged
<1>2. CASE BackgroundSteps(Background)
  BY <1>2, OutsideIsJudged, Numbers
<1>3. ASSUME NEW r \in Requests, Begin(r) \/ RequestSteps(r) PROVE Judged'
  <2>1. ~Quarantine(r)
    BY <1>3 DEF Quarantine, Begin, RequestSteps, GetCachedToken, WaitForCache,
       CheckTokenVersion, SetAccessToken, Use, Reject, Bench, At
  <2> QED BY <1>3, <2>1, OutsideIsJudged DEF Refreshers
<1>4. CASE AdminSteps
  BY <1>4, AdminIsJudged
<1>5. CASE Age \/ ExpireCache \/ ExpireCooldown \/ ExpireLock
  BY <1>5, TimeIsJudged
<1>6. ASSUME NEW p \in Places, Crash(p) PROVE Judged'
  BY <1>6, CrashIsJudged
<1>7. CASE UNCHANGED vars
  <2>1. Sentenced' = Sentenced /\ Sentence' = Sentence
    BY <1>7 DEF vars, Sentenced, Sentence, At
  <2> QED BY <1>7, <2>1, LessIsJudged DEF vars
<1> QED BY <1>1, <1>2, <1>3, <1>4, <1>5, <1>6, <1>7 DEF Next

\* An account is in error only when its refresh token is refused, unless the
\* second look at the row could not see the successor or a re-authorization
\* stopped before its last step: no overlap of refreshes and edits by itself takes
\* an account with a good token out of service (service/oauth_refresh_api.go:267,
\* service/token_refresh_service.go:1015).
THEOREM AccountsAreNotLostUnheard == SafetySpec => []QuarantineIsDeserved
<1>1. Init => Judged
  BY InitIsJudged
<1>2. Typed /\ Safe /\ Judged /\ [Next]_vars => Judged'
  BY StepIsJudged
<1>3. Judged => QuarantineIsDeserved
  BY DEF Judged, Condemned, QuarantineIsDeserved
<1> QED BY <1>1, <1>2, <1>3, AlwaysSafe, PTL DEF SafetySpec
=============================================================================
