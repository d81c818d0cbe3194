---------------------------- MODULE ClosePosition ---------------------------
(***************************************************************************)
(* The tool close_position of ibkr_agent/server/app.py (and, with other    *)
(* constants, of crypto_agent/server/app.py) for one contract: it reserves *)
(* the contract in _recent_closes, reads the position and sends the        *)
(* opposite order.  The portfolio lags behind the fills, so the            *)
(* reservation is all that keeps a second close from selling the position  *)
(* twice.                                                                  *)
(*                                                                         *)
(* Times are ages, in clock units, so a run has no end.  Other trades of   *)
(* the contract are left out, and so are restarts: _recent_closes lives    *)
(* in memory.                                                              *)
(***************************************************************************)
EXTENDS Integers

CONSTANTS
  Calls,            \* the concurrent calls of close_position
  Cooldown,         \* _CLOSE_COOLDOWN_SECONDS, in clock units
  ReleaseStatuses,  \* statuses that release the reservation
  FillBound,        \* an order is over so long after it was posted
  Lag,              \* the portfolio shows a fill so long after it, at most
  Positions,        \* positions the account may hold at first, below 0 short
  LooseAcks         \* which of AllLooseAcks the broker may return

(* "inactive" of an order that is parked and lives, "cancelled" of one     *)
(* that is partly filled.                                                  *)
AllLooseAcks == {"parked", "partial_cancel"}

Statuses == {"submitted", "filled", "rejected", "inactive", "cancelled"}

ASSUME TimeAssumption ==
  Cooldown \in Nat \ {0} /\ FillBound \in Nat /\ Lag \in Nat
ASSUME StatusAssumption ==
  ReleaseStatuses \subseteq {"rejected", "inactive", "cancelled"}
ASSUME PositionAssumption == Positions \subseteq Int /\ LooseAcks \subseteq AllLooseAcks

VARIABLES
  pc,          \* where each call stands
  reserved,    \* the age of _recent_closes[conid]
  dryRun,      \* the broker only validates
  qty,         \* what each call's order adds to the position
  order,       \* the venue's state of that order
  left,        \* how much of it is not filled
  age,         \* how long ago it was posted
  actual,      \* the position
  shown,       \* the position the portfolio shows
  unseen       \* how long ago the position last changed

orderVars == <<qty, order, left, age>>
positionVars == <<actual, shown, unseen>>
vars == <<pc, reserved, dryRun, orderVars, positionVars>>

(* No entry is as good as an expired one.  The entry of a close in flight  *)
(* is dated float("inf"): it has not begun to age.                         *)
Free == Cooldown
Inflight == -1

Inside(c) == pc[c] \in {"reading", "guards", "awaiting"}
Live(c) == order[c] \in {"sent", "working"}

(* The parts of a position of a.                                           *)
PartsOf(a) == IF a >= 0 THEN 0 .. a ELSE a .. 0

Init ==
  /\ pc = [c \in Calls |-> "idle"]
  /\ reserved = Free
  /\ dryRun \in BOOLEAN
  /\ qty = [c \in Calls |-> 0] /\ left = [c \in Calls |-> 0]
  /\ order = [c \in Calls |-> "none"] /\ age = [c \in Calls |-> 0]
  /\ actual \in Positions /\ shown = actual
  /\ unseen = 0

-----------------------------------------------------------------------------
(* The tool.                                                               *)

(* Mutant of Reservable: a close in flight is evicted like a finished one. *)
EvictInflightMutant == reserved >= Cooldown \/ reserved = Inflight

(* _evict_stale_closes and the test that follows it.                       *)
Reservable == reserved >= Cooldown

(* The check and the claim, without an await in between.  A finished call  *)
(* stands for a later one once its order is over.                          *)
Reserve(c) ==
  /\ pc[c] = "idle" /\ ~Live(c)
  /\ Reservable
  /\ pc' = [pc EXCEPT ![c] = "reading"]
  /\ reserved' = Inflight
  /\ order' = [order EXCEPT ![c] = "none"]
  /\ UNCHANGED <<dryRun, qty, left, age, positionVars>>

(* A call leaves the reserved section.                                     *)
Leave(c, reservation) ==
  /\ pc' = [pc EXCEPT ![c] = "idle"]
  /\ reserved' = reservation
  /\ UNCHANGED <<dryRun, orderVars, positionVars>>

(* invalidate_positions and get_positions.                                 *)
ReadPosition(c) ==
  /\ pc[c] = "reading"
  /\ shown # 0
  /\ pc' = [pc EXCEPT ![c] = "guards"]
  /\ qty' = [qty EXCEPT ![c] = -shown]
  /\ UNCHANGED <<reserved, dryRun, order, left, age, positionVars>>

NothingToClose(c) == pc[c] = "reading" /\ shown = 0 /\ Leave(c, Free)

(* Mutants of Normalised: the sentinel is released, or left where it is.   *)
ReleaseMutant(attempted) == Free
LeakMutant(attempted) == IF attempted THEN 0 ELSE Inflight

(* The finally clause, for a call that found no end of its own.            *)
Normalised(attempted) == IF attempted THEN 0 ELSE Free

(* An await raises, or the task is cancelled in it: the position cannot be *)
(* read, a guard refuses, the order has no answer.                         *)
Abort(c) == Inside(c) /\ Leave(c, Normalised(pc[c] # "reading"))

DryRun(c) == pc[c] = "guards" /\ dryRun /\ Leave(c, Free)

(* place_order has passed its guards and posts.                            *)
Post(c) ==
  /\ pc[c] = "guards" /\ ~dryRun
  /\ pc' = [pc EXCEPT ![c] = "awaiting"]
  /\ order' = [order EXCEPT ![c] = "sent"]
  /\ left' = [left EXCEPT ![c] = qty[c]]
  /\ age' = [age EXCEPT ![c] = 0]
  /\ UNCHANGED <<reserved, dryRun, qty, positionVars>>

(* What the answer may call the order: its present status, or "submitted", *)
(* which stands for pending and unknown as well.                           *)
MayAnswer(c, st) ==
  \/ st = "submitted" /\ order[c] \notin {"none", "sent"}
  \/ st = "filled" /\ order[c] = "filled"
  \/ st \in {"rejected", "inactive"} /\ order[c] = "rejected"
  \/ st = "inactive" /\ order[c] = "working" /\ "parked" \in LooseAcks
  \/ /\ st = "cancelled" /\ order[c] = "cancelled"
     /\ left[c] = qty[c] \/ "partial_cancel" \in LooseAcks

(* Mutant of AfterAck: the end of the cooldown is stored, not its start.   *)
EndStoredMutant(st) == IF st \in ReleaseStatuses THEN Free ELSE -Cooldown
AfterAck(st) == IF st \in ReleaseStatuses THEN Free ELSE 0

Ack(c) ==
  /\ pc[c] = "awaiting"
  /\ \E st \in Statuses : MayAnswer(c, st) /\ Leave(c, AfterAck(st))

CallStep(c) ==
  ReadPosition(c) \/ NothingToClose(c) \/ Abort(c) \/ DryRun(c) \/ Post(c) \/ Ack(c)

-----------------------------------------------------------------------------
(* The venue, its portfolio and the clock.                                 *)

(* A request gets to the venue; one lost on its way is a rejected one.     *)
Land(c) ==
  /\ order[c] = "sent"
  /\ \E st \in {"working", "rejected"} : order' = [order EXCEPT ![c] = st]
  /\ UNCHANGED <<pc, reserved, dryRun, qty, left, age, positionVars>>

(* One unit is filled; the last one ends the order.                        *)
Fill(c) ==
  LET unit == IF left[c] > 0 THEN 1 ELSE -1 IN
  /\ order[c] = "working"
  /\ left' = [left EXCEPT ![c] = @ - unit]
  /\ order' = IF left[c] = unit THEN [order EXCEPT ![c] = "filled"] ELSE order
  /\ actual' = actual + unit
  /\ unseen' = 0
  /\ UNCHANGED <<pc, reserved, dryRun, qty, age, shown>>

Expire(c) ==
  /\ order[c] = "working"
  /\ order' = [order EXCEPT ![c] = "cancelled"]
  /\ UNCHANGED <<pc, reserved, dryRun, qty, left, age, positionVars>>

VenueStep(c) == Land(c) \/ Fill(c) \/ Expire(c)

Refresh ==
  /\ shown # actual
  /\ shown' = actual
  /\ UNCHANGED <<pc, reserved, dryRun, orderVars, actual, unseen>>

(* Nothing is later than its bound.                                        *)
Tick ==
  /\ \A c \in Calls : Live(c) => age[c] < FillBound
  /\ shown # actual => unseen < Lag
  /\ age' = [c \in Calls |-> IF Live(c) THEN age[c] + 1 ELSE age[c]]
  /\ unseen' = IF unseen < Lag THEN unseen + 1 ELSE unseen
  /\ reserved' = IF reserved \in {Inflight, Cooldown} THEN reserved ELSE reserved + 1
  /\ UNCHANGED <<pc, dryRun, qty, order, left, actual, shown>>

Next ==
  \/ \E c \in Calls : Reserve(c) \/ CallStep(c) \/ VenueStep(c)
  \/ Refresh \/ Tick

(* Every await ends, time passes, and the venue ends its orders in time.   *)
Spec ==
  /\ Init /\ [][Next]_vars
  /\ \A c \in Calls : WF_vars(CallStep(c)) /\ WF_vars(VenueStep(c))
  /\ WF_vars(Refresh) /\ WF_vars(Tick)

-----------------------------------------------------------------------------
(* Properties.                                                             *)

(* The types of the variables.                                             *)
TypeOK ==
  /\ pc \in [Calls -> {"idle", "reading", "guards", "awaiting"}]
  /\ reserved \in {Inflight} \cup 0 .. Cooldown
  /\ dryRun \in BOOLEAN
  /\ qty \in [Calls -> Int] /\ left \in [Calls -> Int]
  /\ order \in [Calls -> {"none", "sent", "working", "filled", "rejected", "cancelled"}]
  /\ age \in [Calls -> 0 .. FillBound]
  /\ actual \in Int /\ shown \in Int
  /\ unseen \in 0 .. Lag

(* The sentinel stands for exactly one close that is under way: no second  *)
(* close slips past it, and no way out leaves it behind (the comment on    *)
(* the finally clause, "so the sentinel can't leak forever").              *)
SentinelIsHeld ==
  /\ reserved = Inflight <=> \E c \in Calls : Inside(c)
  /\ \A c, d \in Calls : Inside(c) /\ Inside(d) => c = d

(* A position is not sold twice ("an unintended short"): of the orders     *)
(* that closes sent at most one can still trade, and it does not trade     *)
(* more than the position is.                                              *)
NeverSoldTwice ==
  \A c \in Calls : Live(c) =>
    /\ -left[c] \in PartsOf(actual)
    /\ \A d \in Calls : Live(d) => d = c

(* An exit is never trapped: again and again the contract can be reserved, *)
(* whatever raises, is cancelled or is refused.                            *)
Reopens == []<>Reservable
=============================================================================
