---------------------------- MODULE SessionKeeper ---------------------------
(***************************************************************************)
(* ibkr_agent/session/keeper.py, SessionKeeper, on adapters/cpapi/auth.py, *)
(* GatewayAuth: the background task that tickles the gateway's brokerage   *)
(* session and alerts the human when it drops, beside the tools, each of   *)
(* which calls ensure_session before it operates.  They share the session, *)
(* which the gateway may drop and a human may log in to at any moment.     *)
(*                                                                         *)
(* A request is answered at some moment within RequestBound; it acts on    *)
(* the session at that moment.  What the answer says may be stale as soon  *)
(* as it is given.                                                         *)
(***************************************************************************)
EXTENDS Naturals

CONSTANTS
  Keeper,          \* the task of SessionKeeper.run
  Tools,           \* tool calls, which only ensure the session
  Interval,        \* interval_seconds, in clock units
  RequestBound,    \* the longest a request takes, in clock units
  IdleTimeout,     \* an idle session expires after this many clock units
  RealertEvery,    \* realert_every
  MaxFaults        \* bound: how many requests fail

ASSUME ClientAssumption == Keeper \notin Tools
ASSUME TimeAssumption ==
  /\ Interval \in Nat /\ RequestBound \in Nat /\ IdleTimeout \in Nat
  /\ RealertEvery \in Nat \ {0}           \* max(1, realert_every)
  /\ MaxFaults \in Nat

Clients == Tools \cup {Keeper}

VARIABLES
  session,      \* what the gateway's status says: authenticated, connected
  idle,         \* clock units since an authenticated session was last tickled
  pc,           \* the request each client waits for
  left,         \* clock units until the keeper's sleep or request is over
  alive,        \* _alive
  sinceAlert,   \* _cycles_since_alert
  alerted,      \* the keeper's present cycle called on_alert
  seenAuth,     \* history: was the session authenticated during the cycle?
  faults        \* how many requests have failed

verdictVars == <<alive, sinceAlert, alerted>>
gatewayVars == <<session, idle>>
vars == <<gatewayVars, pc, left, verdictVars, seenAuth, faults>>

EnsureRequests ==
  {"ensure_status", "ssodh_init", "ensure_tickle", "is_authenticated", "confirm_accounts"}
Requests == {"status", "tickle"} \cup EnsureRequests

Init ==
  /\ session \in [auth : BOOLEAN, conn : BOOLEAN]
  /\ idle = 0
  /\ pc = [c \in Clients |-> IF c = Keeper THEN "sleep" ELSE "idle"]
  /\ left = 0
  /\ alive = "unknown" /\ sinceAlert = 0 /\ alerted = FALSE
  /\ seenAuth = FALSE
  /\ faults = 0

-----------------------------------------------------------------------------
(* The verdict of a cycle.                                                 *)

(* Mutant of MarkUp: a session that was down stays down.                   *)
StaysDownMutant ==
  /\ alive' = IF alive = "down" THEN "down" ELSE "up"
  /\ sinceAlert' = 0 /\ UNCHANGED alerted
MarkUp ==
  /\ alive' = "up"
  /\ sinceAlert' = 0 /\ UNCHANGED alerted

(* Mutants of MarkDown: cycles are not counted; the count is not reset.    *)
UncountedMutant ==
  /\ alerted' = (alive # "down" \/ sinceAlert >= RealertEvery)
  /\ alive' = "down" /\ UNCHANGED sinceAlert
UnresetMutant ==
  /\ alerted' = (alive # "down" \/ sinceAlert >= RealertEvery)
  /\ alive' = "down" /\ sinceAlert' = sinceAlert + 1
MarkDown ==
  /\ alerted' = (alive # "down" \/ sinceAlert >= RealertEvery)
  /\ sinceAlert' = IF alerted' THEN 0 ELSE sinceAlert + 1
  /\ alive' = "down"

Goto(c, step, units) ==
  /\ pc' = [pc EXCEPT ![c] = step]
  /\ left' = IF c = Keeper THEN units ELSE left

Send(c, request) == Goto(c, request, RequestBound) /\ UNCHANGED verdictVars

(* The cycle is over, or ensure_session returns to its tool or raises.     *)
Succeed(c) ==
  IF c = Keeper THEN Goto(c, "sleep", Interval) /\ MarkUp
  ELSE Goto(c, "idle", 0) /\ UNCHANGED verdictVars

GiveUp(c) ==
  IF c = Keeper THEN Goto(c, "sleep", Interval) /\ MarkDown
  ELSE Goto(c, "idle", 0) /\ UNCHANGED verdictVars

InCycle == pc[Keeper] # "sleep"
Remember == seenAuth' = (seenAuth \/ (InCycle /\ session'.auth))

-----------------------------------------------------------------------------
(* run and run_once.                                                       *)

Wake ==
  /\ pc[Keeper] = "sleep" /\ left = 0
  /\ Goto(Keeper, "status", RequestBound)
  /\ alerted' = FALSE
  /\ seenAuth' = session.auth
  /\ UNCHANGED <<gatewayVars, alive, sinceAlert, faults>>

(* Mutant of Reaction: an authenticated session is ensured, not tickled.   *)
EnsureOnlyMutant(s) == IF s.conn THEN "ensure_status" ELSE "none"

(* What a cycle does about the status it got.                              *)
Reaction(s) ==
  CASE s.conn /\ s.auth  -> "tickle"
    [] s.conn /\ ~s.auth -> "ensure_status"
    [] OTHER             -> "none"

Status ==
  /\ pc[Keeper] = "status"
  /\ IF Reaction(session) = "none" THEN GiveUp(Keeper)
     ELSE Send(Keeper, Reaction(session))
  /\ UNCHANGED <<gatewayVars, seenAuth, faults>>

Tickle ==
  /\ pc[Keeper] = "tickle"
  /\ Succeed(Keeper)
  /\ idle' = 0
  /\ UNCHANGED <<session, seenAuth, faults>>

(* A request raises; it may have reached the gateway all the same, but no  *)
(* request that fails is counted as a tickle.                              *)
RequestFails(c) ==
  /\ pc[c] \in Requests
  /\ faults < MaxFaults /\ faults' = faults + 1
  /\ GiveUp(c)
  /\ \/ UNCHANGED gatewayVars
     \/ /\ pc[c] = "ssodh_init" /\ session.conn /\ ~session.auth
        /\ session' = [session EXCEPT !.auth = TRUE] /\ idle' = 0
  /\ Remember

-----------------------------------------------------------------------------
(* GatewayAuth.ensure_session.                                             *)

EnsureSession(t) ==
  /\ t \in Tools /\ pc[t] = "idle"
  /\ Send(t, "ensure_status")
  /\ UNCHANGED <<gatewayVars, seenAuth, faults>>

EnsureStatus(c) ==
  /\ pc[c] = "ensure_status"
  /\ CASE session.auth                  -> Send(c, "confirm_accounts")
       [] ~session.auth /\ session.conn -> Send(c, "ssodh_init")
       [] OTHER                         -> GiveUp(c)
  /\ UNCHANGED <<gatewayVars, seenAuth, faults>>

(* A connected gateway may bring the brokerage session back, or not.       *)
SsodhInit(c) ==
  /\ pc[c] = "ssodh_init"
  /\ Send(c, "ensure_tickle")
  /\ \/ UNCHANGED gatewayVars
     \/ /\ session.conn /\ ~session.auth
        /\ session' = [session EXCEPT !.auth = TRUE] /\ idle' = 0
  /\ Remember
  /\ UNCHANGED faults

EnsureTickle(c) ==
  /\ pc[c] = "ensure_tickle"
  /\ Send(c, "is_authenticated")
  /\ idle' = 0
  /\ UNCHANGED <<session, seenAuth, faults>>

(* Mutant of Reauthenticated: the outcome of the init is not looked at.    *)
UncheckedMutant == TRUE
Reauthenticated == session.auth

IsAuthenticated(c) ==
  /\ pc[c] = "is_authenticated"
  /\ IF Reauthenticated THEN Send(c, "confirm_accounts") ELSE GiveUp(c)
  /\ UNCHANGED <<gatewayVars, seenAuth, faults>>

ConfirmAccounts(c) ==
  /\ pc[c] = "confirm_accounts"
  /\ Succeed(c)
  /\ UNCHANGED <<gatewayVars, seenAuth, faults>>

Ensure(c) ==
  EnsureStatus(c) \/ SsodhInit(c) \/ EnsureTickle(c) \/ IsAuthenticated(c)
    \/ ConfirmAccounts(c)

-----------------------------------------------------------------------------
(* The gateway, the human and the clock.                                   *)

(* The gateway drops the session, or loses its connection, or both.        *)
Drop ==
  /\ session' \in [auth : BOOLEAN, conn : BOOLEAN]
  /\ session' # session
  /\ session'.auth => session.auth
  /\ session'.conn => session.conn
  /\ Remember
  /\ UNCHANGED <<idle, pc, left, verdictVars, faults>>

Login ==
  /\ session # [auth |-> TRUE, conn |-> TRUE]
  /\ session' = [auth |-> TRUE, conn |-> TRUE]
  /\ idle' = 0
  /\ Remember
  /\ UNCHANGED <<pc, left, verdictVars, faults>>

Tick ==
  /\ left > 0
  /\ left' = left - 1
  /\ idle' = IF session.auth /\ session.conn /\ idle < IdleTimeout THEN idle + 1 ELSE idle
  /\ UNCHANGED <<session, pc, verdictVars, seenAuth, faults>>

KeeperStep ==
  Wake \/ Status \/ Tickle \/ Ensure(Keeper) \/ RequestFails(Keeper)

Next ==
  \/ KeeperStep
  \/ \E t \in Tools : EnsureSession(t) \/ Ensure(t) \/ RequestFails(t)
  \/ Drop \/ Login \/ Tick

(* The event loop runs the keeper when an answer or its timer is there;    *)
(* nothing is assumed of the tools, the gateway or the human.              *)
Spec == Init /\ [][Next]_vars /\ WF_vars(KeeperStep) /\ WF_vars(Tick)

-----------------------------------------------------------------------------
(* Properties.                                                             *)

(* The types of the variables; realert_every bounds the silent cycles.     *)
TypeOK ==
  /\ session \in [auth : BOOLEAN, conn : BOOLEAN]
  /\ idle \in 0 .. IdleTimeout
  /\ pc \in [Clients -> Requests \cup {"sleep", "idle"}]
  /\ left \in Nat
  /\ alive \in {"unknown", "up", "down"}
  /\ sinceAlert \in 0 .. RealertEvery
  /\ alerted \in BOOLEAN /\ seenAuth \in BOOLEAN
  /\ faults \in 0 .. MaxFaults

(* The session never expires for want of a tickle (_lifespan: "so the      *)
(* brokerage session stays warm"), whenever the human logged in.           *)
KeptWarm == session.auth /\ session.conn => idle < IdleTimeout

(* A cycle that calls the session alive has not imagined it: the session   *)
(* was authenticated at some moment of that cycle (run_once,               *)
(* ensure_session's second look at the status).                            *)
AliveWasAuthenticated == pc[Keeper] = "sleep" /\ alive = "up" => seenAuth

(* While the session stays unauthenticated the human is alerted again and  *)
(* again (_mark_down).                                                     *)
AlertedWhileDown == <>[](~session.auth) => []<>alerted

(* The alert "only fires again every realert_every cycles while it stays    *)
(* down" (the docstring): so many silent cycles do not go by.  They do; the *)
(* counter is compared before it counts the cycle at hand.                 *)
RealertsOnTime == sinceAlert < RealertEvery

(* Once the session is back for good, the keeper takes it for alive for    *)
(* good (_mark_up).                                                        *)
Recovers ==
  <>[](session.auth /\ session.conn) => <>[](alive = "up")
=============================================================================
