------------------------ MODULE SessionKeeperProofs -------------------------
(***************************************************************************)
(* Proofs about SessionKeeper, for every set of tools and every interval,  *)
(* request bound, idle timeout and number of failures.                     *)
(***************************************************************************)
EXTENDS SessionKeeper, TLAPS

(* What the interval is chosen for: after the latest moment at which the   *)
(* session can come back without a tickle, a sleep and two requests pass   *)
(* before the next one, and each failure costs another round.              *)
Round == Interval + 2 * RequestBound
SlowestTickle == Interval + 4 * RequestBound
EnoughTime == SlowestTickle + MaxFaults * Round < IdleTimeout

-----------------------------------------------------------------------------
(* The type invariant.                                                     *)

(* The verdict of a cycle has its type, whatever the cycle found.          *)
LEMMA VerdictType ==
  ASSUME TypeOK, NEW c \in Clients, Succeed(c) \/ GiveUp(c)
  PROVE  /\ pc' \in [Clients -> Requests \cup {"sleep", "idle"}]
         /\ left' \in Nat
         /\ alive' \in {"unknown", "up", "down"}
         /\ sinceAlert' \in 0 .. RealertEvery
         /\ alerted' \in BOOLEAN
<1> USE DEF TypeOK, Goto, verdictVars
<1>1. CASE c # Keeper
  BY <1>1 DEF Succeed, GiveUp
<1>2. CASE c = Keeper /\ Succeed(c)
  BY <1>2, TimeAssumption DEF Succeed, MarkUp
<1>3. CASE c = Keeper /\ GiveUp(c)
  <2>1. GiveUp(c) => /\ pc' = [pc EXCEPT ![c] = "sleep"] /\ left' = Interval
                     /\ MarkDown
    BY <1>3 DEF GiveUp
  <2>2. alerted' \in BOOLEAN /\ alive' = "down"
    BY <1>3, <2>1 DEF MarkDown
  <2>3. alerted' <=> alive # "down" \/ sinceAlert >= RealertEvery
    BY <1>3, <2>1 DEF MarkDown
  <2>4. sinceAlert' = IF alerted' THEN 0 ELSE sinceAlert + 1
    BY <1>3, <2>1 DEF MarkDown
  <2>5. sinceAlert' \in 0 .. RealertEvery
    <3>1. CASE alerted'
      BY <2>4, <3>1, TimeAssumption
    <3>2. CASE ~alerted'
      BY <2>3, <2>4, <3>2, TimeAssumption
    <3> QED BY <3>1, <3>2
  <2> QED BY <1>3, <2>1, <2>2, <2>5, TimeAssumption
<1> QED BY <1>1, <1>2, <1>3

(* Sending a request keeps the types.                                      *)
LEMMA SendType ==
  ASSUME TypeOK, NEW c \in Clients, NEW r \in Requests, Send(c, r)
  PROVE  /\ pc' \in [Clients -> Requests \cup {"sleep", "idle"}]
         /\ left' \in Nat
         /\ UNCHANGED verdictVars
BY TimeAssumption DEF TypeOK, Send, Goto

(* The two ways a client goes on: it sends a request or its call is over.  *)
Moves(c) == (\E r \in Requests : Send(c, r)) \/ Succeed(c) \/ GiveUp(c)

LEMMA EnsureMoves ==
  ASSUME NEW c \in Clients, Ensure(c)
  PROVE  Moves(c) /\ UNCHANGED faults
<1> USE DEF Moves, Requests, EnsureRequests
<1>1. CASE EnsureStatus(c)
  BY <1>1 DEF EnsureStatus
<1>2. CASE SsodhInit(c) \/ EnsureTickle(c)
  BY <1>2 DEF SsodhInit, EnsureTickle
<1>3. CASE IsAuthenticated(c) \/ ConfirmAccounts(c)
  BY <1>3 DEF IsAuthenticated, ConfirmAccounts
<1> QED BY <1>1, <1>2, <1>3 DEF Ensure

(* What an answer may do to the gateway's session.                         *)
LEMMA EnsureGateway ==
  ASSUME TypeOK, NEW c \in Clients, Ensure(c) \/ RequestFails(c)
  PROVE  /\ session' \in [auth : BOOLEAN, conn : BOOLEAN]
         /\ seenAuth' \in BOOLEAN
         /\ idle' = idle \/ idle' = 0
         /\ session' = session \/ idle' = 0
<1> USE DEF TypeOK, gatewayVars, Remember
<1>1. CASE EnsureStatus(c) \/ IsAuthenticated(c) \/ ConfirmAccounts(c)
  BY <1>1 DEF EnsureStatus, IsAuthenticated, ConfirmAccounts
<1>2. CASE EnsureTickle(c)
  BY <1>2 DEF EnsureTickle
<1>3. CASE SsodhInit(c)
  BY <1>3 DEF SsodhInit
<1>4. CASE RequestFails(c)
  BY <1>4 DEF RequestFails
<1> QED BY <1>1, <1>2, <1>3, <1>4 DEF Ensure

(* Every state has the types declared for it, and the count of silent      *)
(* cycles never passes realert_every.                                      *)
THEOREM TypeCorrect == Spec => []TypeOK
<1>1. Init => TypeOK
  <2> SUFFICES ASSUME Init PROVE TypeOK
    OBVIOUS
  <2>1. pc \in [Clients -> Requests \cup {"sleep", "idle"}]
    BY DEF Init, Requests, EnsureRequests
  <2>2. session \in [auth : BOOLEAN, conn : BOOLEAN]
    BY DEF Init
  <2>3. /\ idle \in 0 .. IdleTimeout /\ left \in Nat
        /\ sinceAlert \in 0 .. RealertEvery /\ faults \in 0 .. MaxFaults
    BY TimeAssumption DEF Init
  <2>4. alerted \in BOOLEAN /\ seenAuth \in BOOLEAN /\ alive \in {"unknown", "up", "down"}
    BY DEF Init
  <2> QED BY <2>1, <2>2, <2>3, <2>4 DEF TypeOK
<1>2. TypeOK /\ [Next]_vars => TypeOK'
  <2> SUFFICES ASSUME TypeOK, [Next]_vars PROVE TypeOK'
    OBVIOUS
  <2> USE DEF gatewayVars, verdictVars
  <2>1. ASSUME NEW c \in Clients, Ensure(c) \/ RequestFails(c) PROVE TypeOK'
    <3>1. Moves(c) /\ faults' \in 0 .. MaxFaults
      BY <2>1, EnsureMoves, TimeAssumption DEF TypeOK, RequestFails, Moves
    <3>2. /\ pc' \in [Clients -> Requests \cup {"sleep", "idle"}]
          /\ left' \in Nat
          /\ alive' \in {"unknown", "up", "down"}
          /\ sinceAlert' \in 0 .. RealertEvery
          /\ alerted' \in BOOLEAN
      BY <3>1, VerdictType, SendType DEF Moves, TypeOK
    <3>3. /\ session' \in [auth : BOOLEAN, conn : BOOLEAN]
          /\ seenAuth' \in BOOLEAN /\ idle' \in 0 .. IdleTimeout
      BY <2>1, EnsureGateway, TimeAssumption DEF TypeOK
    <3> QED BY <3>1, <3>2, <3>3 DEF TypeOK
  <2>2. CASE Wake
    BY <2>2, TimeAssumption DEF TypeOK, Wake, Goto, Requests, Clients
  <2>3. CASE Status
    <3>1. Keeper \in Clients /\ Moves(Keeper)
      BY <2>3 DEF Status, Reaction, Moves, Clients, Requests, EnsureRequests
    <3>2. /\ pc' \in [Clients -> Requests \cup {"sleep", "idle"}]
          /\ left' \in Nat
          /\ alive' \in {"unknown", "up", "down"}
          /\ sinceAlert' \in 0 .. RealertEvery
          /\ alerted' \in BOOLEAN
      BY <3>1, VerdictType, SendType DEF Moves, TypeOK
    <3> QED BY <2>3, <3>2 DEF TypeOK, Status
  <2>4. CASE Tickle
    <3>1. Keeper \in Clients
      BY DEF Clients
    <3> QED BY <2>4, <3>1, VerdictType, TimeAssumption DEF TypeOK, Tickle
  <2>5. ASSUME NEW t \in Tools, EnsureSession(t) PROVE TypeOK'
    <3>1. t \in Clients /\ "ensure_status" \in Requests
      BY DEF Clients, Requests, EnsureRequests
    <3> QED BY <2>5, <3>1, SendType DEF TypeOK, EnsureSession
  <2>6. CASE Drop \/ Login
    <3>1. session' \in [auth : BOOLEAN, conn : BOOLEAN]
      <4>1. CASE Drop
        BY <4>1 DEF Drop
      <4>2. CASE Login
        BY <4>2 DEF Login
      <4> QED BY <2>6, <4>1, <4>2
    <3>2. idle' \in 0 .. IdleTimeout
      BY <2>6, TimeAssumption DEF TypeOK, Drop, Login
    <3>3. seenAuth' \in BOOLEAN
      <4>1. seenAuth' = (seenAuth \/ (InCycle /\ session'.auth))
        BY <2>6 DEF Drop, Login, Remember
      <4> QED BY <4>1
    <3> QED BY <2>6, <3>1, <3>2, <3>3 DEF TypeOK, Drop, Login
  <2>7. CASE Tick
    BY <2>7, TimeAssumption DEF TypeOK, Tick
  <2>8. CASE UNCHANGED vars
    BY <2>8 DEF TypeOK, vars
  <2> QED
    BY <2>1, <2>2, <2>3, <2>4, <2>5, <2>6, <2>7, <2>8
       DEF Next, KeeperStep, Clients
<1> QED BY <1>1, <1>2, PTL DEF Spec

-----------------------------------------------------------------------------
(* The session is kept warm.                                               *)

Live == session.auth /\ session.conn

(* How long a live session has been idle when the keeper's present sleep   *)
(* or request ends, at most.                                               *)
Deadline(step) ==
  CASE step = "sleep"            -> Interval + 2 * RequestBound + faults * Round
    [] step = "status"           -> Interval + 3 * RequestBound + faults * Round
    [] step = "tickle"           -> Interval + 4 * RequestBound + faults * Round
    [] step = "ensure_tickle"    -> 2 * RequestBound
    [] step = "confirm_accounts" -> 2 * RequestBound
    [] OTHER                     -> RequestBound

WarmInv ==
  /\ pc[Keeper] \in Requests \cup {"sleep"}
  /\ left <= IF pc[Keeper] = "sleep" THEN Interval ELSE RequestBound
  /\ Live => idle + left <= Deadline(pc[Keeper])

(* Every failure adds a round.                                             *)
LEMMA Rounds ==
  ASSUME NEW n \in Nat
  PROVE  /\ Round \in Nat
         /\ n * Round \in Nat
         /\ (n + 1) * Round = n * Round + Round
<1>1. Round \in Nat
  BY TimeAssumption DEF Round
<1>2. \A r \in Nat : n * r \in Nat /\ (n + 1) * r = n * r + r
  OBVIOUS
<1> QED BY <1>1, <1>2

(* What leaves the keeper alone and at most renews the session keeps the   *)
(* deadline.                                                               *)
LEMMA WarmUndisturbed ==
  ASSUME TypeOK, WarmInv, pc'[Keeper] = pc[Keeper], left' = left,
         faults' = faults \/ faults' = faults + 1,
         idle' = 0 \/ (idle' = idle /\ (Live' => Live))
  PROVE  WarmInv'
<1>1. /\ faults \in Nat /\ faults * Round \in Nat /\ faults' * Round \in Nat
      /\ faults * Round <= faults' * Round
  <2>1. faults \in Nat
    BY TimeAssumption DEF TypeOK
  <2>2. Round \in Nat /\ faults * Round \in Nat /\ (faults + 1) * Round = faults * Round + Round
    BY <2>1, Rounds
  <2> QED BY <2>1, <2>2
<1>2. left \in Nat /\ idle \in Nat
  BY TimeAssumption DEF TypeOK
<1>3. Live' => idle' + left' <= Deadline(pc[Keeper])'
  <2>1. Deadline(pc[Keeper]) <= Deadline(pc[Keeper])'
    BY <1>1, TimeAssumption DEF Deadline
  <2>2. left <= Deadline(pc[Keeper])
    BY <1>1, <1>2, TimeAssumption DEF WarmInv, Deadline
  <2>3. Deadline(pc[Keeper]) \in Nat /\ Deadline(pc[Keeper])' \in Nat
    BY <1>1, TimeAssumption DEF Deadline
  <2> QED BY <1>2, <2>1, <2>2, <2>3 DEF WarmInv
<1> QED BY <1>3 DEF WarmInv

(* A request of a cycle that is started when the session is not live.      *)
LEMMA WarmWhenDown ==
  ASSUME TypeOK, pc'[Keeper] \in Requests, left' = RequestBound, ~Live'
  PROVE  WarmInv'
BY TimeAssumption DEF WarmInv, Requests, EnsureRequests

(* Every step of the keeper keeps the deadline.                            *)
LEMMA WarmKeeper ==
  ASSUME TypeOK, WarmInv, KeeperStep
  PROVE  WarmInv'
<1> DEFINE W == faults * Round
<1>0. /\ Interval \in Nat /\ RequestBound \in Nat
      /\ idle \in Nat /\ left \in Nat /\ W \in Nat
      /\ pc \in [Clients -> Requests \cup {"sleep", "idle"}] /\ Keeper \in Clients
  <2>1. faults \in Nat
    BY TimeAssumption DEF TypeOK
  <2> QED BY <2>1, Rounds, TimeAssumption DEF TypeOK, Clients
<1> USE DEF Live, gatewayVars
<1>1. ASSUME NEW step \in Requests, NEW units, Goto(Keeper, step, units)
      PROVE  pc'[Keeper] = step /\ left' = units
  BY <1>0, <1>1 DEF Goto
<1>2. ASSUME Goto(Keeper, "sleep", Interval)
      PROVE  pc'[Keeper] = "sleep" /\ left' = Interval
  BY <1>0, <1>2 DEF Goto
<1>3. ASSUME NEW r \in Requests, Send(Keeper, r)
      PROVE  pc'[Keeper] = r /\ left' = RequestBound
  BY <1>1, <1>3 DEF Send
<1>4. ASSUME Succeed(Keeper) \/ GiveUp(Keeper)
      PROVE  pc'[Keeper] = "sleep" /\ left' = Interval
  BY <1>2, <1>4 DEF Succeed, GiveUp
<1>5. \A step \in {"status", "tickle"} \cup EnsureRequests : step \in Requests
  BY DEF Requests
<1> HIDE DEF W
<1>6. CASE Wake
  <2>1. pc'[Keeper] = "status" /\ left' = RequestBound
    BY <1>1, <1>5, <1>6 DEF Wake
  <2> QED BY <1>0, <1>6, <2>1 DEF Wake, WarmInv, Deadline, W, Requests
<1>7. CASE Status
  <2>1. CASE session.conn /\ session.auth
    <3>1. pc'[Keeper] = "tickle" /\ left' = RequestBound
      BY <1>3, <1>5, <1>7, <2>1 DEF Status, Reaction
    <3> QED BY <1>0, <1>7, <3>1 DEF Status, WarmInv, Deadline, W, Requests
  <2>2. CASE session.conn /\ ~session.auth
    <3>1. pc'[Keeper] = "ensure_status" /\ left' = RequestBound
      BY <1>3, <1>5, <1>7, <2>2 DEF Status, Reaction, EnsureRequests
    <3>2. ~Live'
      BY <1>7, <2>2 DEF Status
    <3> QED BY <1>5, <3>1, <3>2, WarmWhenDown DEF EnsureRequests
  <2>3. CASE ~session.conn
    <3>1. pc'[Keeper] = "sleep" /\ left' = Interval /\ ~Live'
      BY <1>4, <1>7, <2>3 DEF Status, Reaction
    <3> QED BY <1>0, <3>1 DEF WarmInv
  <2> QED BY <2>1, <2>2, <2>3
<1>8. CASE Tickle
  <2>1. pc'[Keeper] = "sleep" /\ left' = Interval /\ idle' = 0 /\ faults' = faults
    BY <1>4, <1>8 DEF Tickle
  <2> QED BY <1>0, <2>1 DEF WarmInv, Deadline, W
<1>9. CASE EnsureStatus(Keeper)
  <2>1. CASE session.auth
    <3>1. pc'[Keeper] = "confirm_accounts" /\ left' = RequestBound
      BY <1>3, <1>5, <1>9, <2>1 DEF EnsureStatus, EnsureRequests
    <3> QED BY <1>0, <1>5, <1>9, <3>1 DEF EnsureStatus, WarmInv, Deadline, EnsureRequests
  <2>2. CASE ~session.auth
    <3>1. ~Live'
      BY <1>9, <2>2 DEF EnsureStatus
    <3>2. \/ pc'[Keeper] \in Requests /\ left' = RequestBound
          \/ pc'[Keeper] = "sleep" /\ left' = Interval
      BY <1>3, <1>4, <1>5, <1>9, <2>2 DEF EnsureStatus, EnsureRequests
    <3> QED BY <1>0, <3>1, <3>2, WarmWhenDown DEF WarmInv
  <2> QED BY <2>1, <2>2
<1>10. CASE SsodhInit(Keeper)
  <2>1. pc'[Keeper] = "ensure_tickle" /\ left' = RequestBound
    BY <1>3, <1>5, <1>10 DEF SsodhInit, EnsureRequests
  <2> QED BY <1>0, <1>5, <1>10, <2>1 DEF SsodhInit, WarmInv, Deadline, EnsureRequests
<1>11. CASE EnsureTickle(Keeper)
  <2>1. pc'[Keeper] = "is_authenticated" /\ left' = RequestBound /\ idle' = 0
    BY <1>3, <1>5, <1>11 DEF EnsureTickle, EnsureRequests
  <2> QED BY <1>0, <1>5, <2>1 DEF WarmInv, Deadline, EnsureRequests
<1>12. CASE IsAuthenticated(Keeper)
  <2>1. CASE session.auth
    <3>1. pc'[Keeper] = "confirm_accounts" /\ left' = RequestBound
      BY <1>3, <1>5, <1>12, <2>1 DEF IsAuthenticated, Reauthenticated, EnsureRequests
    <3> QED BY <1>0, <1>5, <1>12, <3>1 DEF IsAuthenticated, WarmInv, Deadline, EnsureRequests
  <2>2. CASE ~session.auth
    <3>1. pc'[Keeper] = "sleep" /\ left' = Interval /\ ~Live'
      BY <1>4, <1>12, <2>2 DEF IsAuthenticated, Reauthenticated
    <3> QED BY <1>0, <3>1 DEF WarmInv
  <2> QED BY <2>1, <2>2
<1>13. CASE ConfirmAccounts(Keeper)
  <2>1. pc'[Keeper] = "sleep" /\ left' = Interval
    BY <1>4, <1>13 DEF ConfirmAccounts
  <2> QED BY <1>0, <1>13, <2>1 DEF ConfirmAccounts, WarmInv, Deadline, W
<1>14. CASE RequestFails(Keeper)
  <2>1. pc'[Keeper] = "sleep" /\ left' = Interval
    BY <1>4, <1>14 DEF RequestFails
  <2>2. faults' * Round = W + Interval + 2 * RequestBound
    <3>1. faults \in Nat /\ faults' = faults + 1
      BY <1>14, TimeAssumption DEF TypeOK, RequestFails
    <3>2. (faults + 1) * Round = W + Round
      BY <3>1, Rounds DEF W
    <3> QED BY <1>0, <3>1, <3>2 DEF Round
  <2>3. Live' => idle' = 0 \/ (Live /\ idle' = idle)
    BY <1>14 DEF RequestFails
  <2>4. Live => idle + left <= Interval + 4 * RequestBound + W
    BY <1>0 DEF WarmInv, Deadline, W
  <2>5. Deadline("sleep")' = Interval + 2 * RequestBound + faults' * Round
    BY DEF Deadline
  <2>6. Live' => idle' + left' <= Deadline(pc[Keeper])'
    BY <1>0, <2>1, <2>2, <2>3, <2>4, <2>5
  <2> QED BY <1>0, <2>1, <2>6 DEF WarmInv
<1> QED
  BY <1>6, <1>7, <1>8, <1>9, <1>10, <1>11, <1>12, <1>13, <1>14 DEF KeeperStep, Ensure

(* So does every other step.                                               *)
LEMMA WarmInvInductive ==
  ASSUME TypeOK, WarmInv, [Next]_vars
  PROVE  WarmInv'
<1> USE DEF gatewayVars
<1>1. CASE KeeperStep
  BY <1>1, WarmKeeper
<1>2. ASSUME NEW t \in Tools, Ensure(t) \/ RequestFails(t) \/ EnsureSession(t)
      PROVE  WarmInv'
  <2>1. t # Keeper /\ t \in Clients
    BY ClientAssumption DEF Clients
  <2>2. pc'[Keeper] = pc[Keeper] /\ left' = left
    <3>1. \A step, units : Goto(t, step, units) =>
                             pc'[Keeper] = pc[Keeper] /\ left' = left
      BY <2>1 DEF TypeOK, Goto, Clients
    <3>2. \E step, units : Goto(t, step, units)
      <4>1. CASE EnsureSession(t)
        BY <4>1 DEF EnsureSession, Send
      <4>2. CASE Ensure(t) \/ RequestFails(t)
        <5>1. Moves(t)
          BY <2>1, <4>2, EnsureMoves DEF RequestFails, Moves
        <5> QED BY <2>1, <5>1 DEF Moves, Send, Succeed, GiveUp
      <4> QED BY <1>2, <4>1, <4>2
    <3> QED BY <3>1, <3>2
  <2>3. faults' = faults \/ faults' = faults + 1
    BY <1>2, <2>1, EnsureMoves DEF RequestFails, EnsureSession
  <2>4. idle' = 0 \/ (idle' = idle /\ (Live' => Live))
    <3>1. CASE EnsureSession(t)
      BY <3>1 DEF EnsureSession, Live
    <3>2. CASE Ensure(t) \/ RequestFails(t)
      BY <2>1, <3>2, EnsureGateway DEF Live
    <3> QED BY <1>2, <3>1, <3>2
  <2> QED BY <2>2, <2>3, <2>4, WarmUndisturbed
<1>3. CASE Drop \/ Login
  <2>1. idle' = 0 \/ (idle' = idle /\ (Live' => Live))
    BY <1>3 DEF Drop, Login, Live
  <2> QED BY <1>3, <2>1, WarmUndisturbed DEF Drop, Login
<1>4. CASE Tick
  <2>1. /\ left \in Nat /\ idle \in Nat /\ left' = left - 1 /\ left > 0
        /\ idle' \in Nat /\ idle' <= idle + 1
    BY <1>4, TimeAssumption DEF TypeOK, Tick
  <2>2. pc' = pc /\ faults' = faults /\ (Live' => Live)
    BY <1>4 DEF Tick, Live
  <2>3. Deadline(pc[Keeper])' = Deadline(pc[Keeper])
    BY <2>2 DEF Deadline
  <2>4. faults \in Nat /\ faults * Round \in Nat
    BY Rounds, TimeAssumption DEF TypeOK
  <2>5. Deadline(pc[Keeper]) \in Nat
    BY <2>4, TimeAssumption DEF Deadline
  <2> QED BY <2>1, <2>2, <2>3, <2>5, TimeAssumption DEF WarmInv
<1>5. CASE UNCHANGED vars
  BY <1>5, WarmUndisturbed DEF vars, Live
<1> QED BY <1>1, <1>2, <1>3, <1>4, <1>5 DEF Next

(* With an idle timeout longer than the slowest tickle and as many rounds  *)
(* as requests may fail, an authenticated session is never left to expire. *)
THEOREM SessionKeptWarm ==
  ASSUME EnoughTime
  PROVE  Spec => []KeptWarm
<1>1. Init => WarmInv
  <2> SUFFICES ASSUME Init PROVE WarmInv
    OBVIOUS
  <2>1. pc[Keeper] = "sleep" /\ left = 0 /\ idle = 0 /\ faults = 0
    BY DEF Init, Clients
  <2>2. Round \in Nat /\ Interval \in Nat /\ RequestBound \in Nat
    BY Rounds, TimeAssumption
  <2>3. Deadline("sleep") = Interval + 2 * RequestBound + 0
    BY <2>1, <2>2 DEF Deadline
  <2> QED BY <2>1, <2>2, <2>3 DEF WarmInv
<1>2. TypeOK /\ WarmInv /\ [Next]_vars => WarmInv'
  BY WarmInvInductive
<1>3. TypeOK /\ WarmInv => KeptWarm
  <2> SUFFICES ASSUME TypeOK, WarmInv, Live PROVE idle < IdleTimeout
    BY DEF KeptWarm, Live
  <2> DEFINE W == faults * Round
  <2>1. /\ idle \in Nat /\ left \in Nat /\ faults \in Nat /\ faults <= MaxFaults
        /\ Interval \in Nat /\ RequestBound \in Nat /\ MaxFaults \in Nat
        /\ IdleTimeout \in Nat
    BY TimeAssumption DEF TypeOK
  <2>2. W \in Nat /\ W <= MaxFaults * Round
    <3>1. Round \in Nat
      BY <2>1, Rounds
    <3>2. \A m, n, r \in Nat : m <= n => m * r \in Nat /\ m * r <= n * r
      OBVIOUS
    <3> QED BY <2>1, <3>1, <3>2
  <2>3. idle + left <= Deadline(pc[Keeper])
    BY DEF WarmInv
  <2>4. Deadline(pc[Keeper]) <= SlowestTickle + W
    BY <2>1, <2>2 DEF Deadline, SlowestTickle
  <2>5. SlowestTickle + MaxFaults * Round < IdleTimeout
    BY DEF EnoughTime
  <2>6. MaxFaults * Round \in Nat /\ SlowestTickle \in Nat
    BY <2>1, Rounds DEF SlowestTickle
  <2>7. Deadline(pc[Keeper]) \in Nat
    BY <2>1, <2>2 DEF Deadline
  <2> HIDE DEF W
  <2> QED BY <2>1, <2>2, <2>3, <2>4, <2>5, <2>6, <2>7
<1> QED BY <1>1, <1>2, <1>3, TypeCorrect, PTL DEF Spec

-----------------------------------------------------------------------------
(* A session called alive was authenticated.                               *)

AuthInv ==
  /\ pc[Keeper] \in Requests \cup {"sleep"}
  /\ InCycle /\ session.auth => seenAuth
  /\ pc[Keeper] \in {"tickle", "confirm_accounts"} => seenAuth
  /\ AliveWasAuthenticated

(* Whatever changes the session during a cycle is remembered.              *)
LEMMA AuthUndisturbed ==
  ASSUME TypeOK, AuthInv, pc'[Keeper] = pc[Keeper], alive' = alive,
         \/ Remember
         \/ seenAuth' = seenAuth /\ (session'.auth => session.auth)
  PROVE  AuthInv'
<1>1. seenAuth => seenAuth'
  BY DEF Remember
<1>2. InCycle' = InCycle
  BY DEF InCycle
<1>3. InCycle /\ session'.auth => seenAuth'
  BY DEF Remember, AuthInv
<1>4. pc[Keeper] = "sleep" /\ alive = "up" => seenAuth
  BY DEF AuthInv, AliveWasAuthenticated
<1> QED BY <1>1, <1>2, <1>3, <1>4 DEF AuthInv, AliveWasAuthenticated

(* Every step of the keeper keeps it.                                      *)
LEMMA AuthKeeper ==
  ASSUME TypeOK, AuthInv, KeeperStep
  PROVE  AuthInv'
<1> DEFINE Sleeps == pc'[Keeper] = "sleep"
           Sends(r) == pc'[Keeper] = r /\ alive' = alive
<1>0. pc \in [Clients -> Requests \cup {"sleep", "idle"}] /\ Keeper \in Clients
  BY DEF TypeOK, Clients
<1>1. ASSUME NEW r, Send(Keeper, r) PROVE Sends(r)
  BY <1>0, <1>1 DEF Send, Goto, verdictVars
<1>2. ASSUME GiveUp(Keeper) PROVE Sleeps /\ alive' = "down"
  BY <1>0, <1>2 DEF GiveUp, Goto, MarkDown
<1>3. ASSUME Succeed(Keeper) PROVE Sleeps
  BY <1>0, <1>3 DEF Succeed, Goto
<1>4. ASSUME Sleeps, seenAuth' \/ alive' = "down" PROVE AuthInv'
  BY <1>4 DEF AuthInv, InCycle, AliveWasAuthenticated
<1>5. ASSUME NEW r \in Requests, Sends(r), session' = session,
             seenAuth' = seenAuth, InCycle,
             r \in {"tickle", "confirm_accounts"} => session.auth
      PROVE  AuthInv'
  BY <1>5 DEF AuthInv, InCycle, AliveWasAuthenticated, Requests, EnsureRequests
<1> HIDE DEF Sleeps, Sends
<1> USE DEF gatewayVars, InCycle
<1>6. CASE Wake
  <2>1. pc'[Keeper] = "status" /\ seenAuth' = session.auth /\ session' = session
    BY <1>0, <1>6 DEF Wake, Goto
  <2> QED BY <2>1 DEF AuthInv, AliveWasAuthenticated, Requests
<1>7. CASE Status
  <2>1. CASE Reaction(session) = "none"
    BY <1>2, <1>4, <1>7, <2>1 DEF Status
  <2>2. CASE Reaction(session) # "none"
    <3>1. /\ Reaction(session) \in Requests
          /\ Reaction(session) # "confirm_accounts"
          /\ Reaction(session) = "tickle" => session.auth
      BY <2>2 DEF Reaction, Requests, EnsureRequests
    <3>2. Sends(Reaction(session)) /\ session' = session /\ seenAuth' = seenAuth
      BY <1>1, <1>7, <2>2 DEF Status
    <3> QED BY <1>5, <1>7, <3>1, <3>2 DEF Status
  <2> QED BY <2>1, <2>2
<1>8. CASE Tickle
  BY <1>3, <1>4, <1>8 DEF Tickle, AuthInv
<1>9. CASE EnsureStatus(Keeper)
  <2>1. CASE GiveUp(Keeper)
    BY <1>2, <1>4, <2>1
  <2>2. CASE Send(Keeper, "confirm_accounts") /\ session.auth
    BY <1>1, <1>5, <1>9, <2>2 DEF EnsureStatus, Requests, EnsureRequests
  <2>3. CASE Send(Keeper, "ssodh_init")
    BY <1>1, <1>5, <1>9, <2>3 DEF EnsureStatus, Requests, EnsureRequests
  <2> QED BY <1>9, <2>1, <2>2, <2>3 DEF EnsureStatus
<1>10. CASE SsodhInit(Keeper)
  <2>1. Sends("ensure_tickle") /\ Remember
    BY <1>1, <1>10 DEF SsodhInit
  <2>2. InCycle
    BY <1>10 DEF SsodhInit
  <2> QED BY <2>1, <2>2 DEF Sends, Remember, AuthInv, AliveWasAuthenticated, Requests,
                            EnsureRequests
<1>11. CASE EnsureTickle(Keeper)
  BY <1>1, <1>5, <1>11 DEF EnsureTickle, Requests, EnsureRequests
<1>12. CASE IsAuthenticated(Keeper)
  <2>1. CASE GiveUp(Keeper)
    BY <1>2, <1>4, <2>1
  <2>2. CASE Send(Keeper, "confirm_accounts") /\ session.auth
    BY <1>1, <1>5, <1>12, <2>2 DEF IsAuthenticated, Requests, EnsureRequests
  <2> QED BY <1>12, <2>1, <2>2 DEF IsAuthenticated, Reauthenticated
<1>13. CASE ConfirmAccounts(Keeper)
  BY <1>3, <1>4, <1>13 DEF ConfirmAccounts, AuthInv
<1>14. CASE RequestFails(Keeper)
  BY <1>2, <1>4, <1>14 DEF RequestFails
<1> QED
  BY <1>6, <1>7, <1>8, <1>9, <1>10, <1>11, <1>12, <1>13, <1>14 DEF KeeperStep, Ensure

(* A cycle reports the session alive only if it was authenticated at some  *)
(* moment of that cycle, whatever tools, human and gateway do meanwhile.   *)
THEOREM AliveIsEarned == Spec => []AliveWasAuthenticated
<1>1. Init => AuthInv
  BY DEF Init, AuthInv, InCycle, AliveWasAuthenticated, Clients
<1>2. TypeOK /\ AuthInv /\ [Next]_vars => AuthInv'
  <2> SUFFICES ASSUME TypeOK, AuthInv, [Next]_vars PROVE AuthInv'
    OBVIOUS
  <2> USE DEF gatewayVars, verdictVars
  <2>1. CASE KeeperStep
    BY <2>1, AuthKeeper
  <2>2. ASSUME NEW t \in Tools, Ensure(t) \/ RequestFails(t) \/ EnsureSession(t)
        PROVE  AuthInv'
    <3>1. t # Keeper /\ t \in Clients
      BY ClientAssumption DEF Clients
    <3>2. pc'[Keeper] = pc[Keeper] /\ alive' = alive
      <4>1. \A step, units : Goto(t, step, units) => pc'[Keeper] = pc[Keeper]
        BY <3>1 DEF TypeOK, Goto, Clients
      <4>2. \E step, units : Goto(t, step, units) /\ UNCHANGED verdictVars
        <5>1. CASE EnsureSession(t)
          BY <5>1 DEF EnsureSession, Send
        <5>2. CASE Ensure(t) \/ RequestFails(t)
          <6>1. Moves(t)
            BY <3>1, <5>2, EnsureMoves DEF RequestFails, Moves
          <6> QED BY <3>1, <6>1 DEF Moves, Send, Succeed, GiveUp
        <5> QED BY <2>2, <5>1, <5>2
      <4> QED BY <4>1, <4>2
    <3>3. Remember \/ (seenAuth' = seenAuth /\ session' = session)
      BY <2>2 DEF Ensure, EnsureStatus, SsodhInit, EnsureTickle, IsAuthenticated,
                  ConfirmAccounts, RequestFails, EnsureSession
    <3> QED BY <3>2, <3>3, AuthUndisturbed
  <2>3. CASE Drop \/ Login
    BY <2>3, AuthUndisturbed DEF Drop, Login
  <2>4. CASE Tick \/ UNCHANGED vars
    BY <2>4, AuthUndisturbed DEF Tick, vars
  <2> QED BY <2>1, <2>2, <2>3, <2>4 DEF Next
<1>3. AuthInv => AliveWasAuthenticated
  BY DEF AuthInv
<1> QED BY <1>1, <1>2, <1>3, TypeCorrect, PTL DEF Spec
=============================================================================
