---------------------------- MODULE CoverAllowance --------------------------
(***************************************************************************)
(* The two guards of trading_core/safety/policy.py that rest on a position *)
(* read from the venue, for one symbol: a BUY that covers a short is not   *)
(* capped (_is_covering_short), a SELL beyond the long position is refused *)
(* (_check_no_naked_short).  The portfolio they read lags behind the       *)
(* fills.  _recent_covers lets one exempt buy pass per cooldown; the sells *)
(* have nothing of the kind.                                               *)
(*                                                                         *)
(* Neither guard asks for the type of the order, so an order may rest as   *)
(* long as it likes, and the portfolio may be as late as it likes.  Times  *)
(* are ages, and prices are one: a value is a number of units.  Restarts,  *)
(* which forget _recent_covers, and trades of other programs are left out. *)
(***************************************************************************)
EXTENDS Integers

CONSTANTS
  Calls,        \* the concurrent calls of place_order
  Requests,     \* what they may ask for: [side, quantity, byValue]
  MaxOrderValue,\* max_order_value
  Cooldown,     \* _COVER_COOLDOWN_SECONDS, in clock units
  Positions,    \* positions the account may hold at first, below 0 short
  ReadsFail,    \* held_quantity may raise or not know the symbol
  NoRead,       \* no position was read
  MinPosition, MaxPosition, MaxMoves    \* bounds of the exploration

Sides == {"BUY", "SELL"}

ASSUME RequestAssumption ==
  /\ Requests # {}
  /\ Requests \subseteq [side : Sides, quantity : Nat \ {0}, byValue : BOOLEAN]
  /\ \A r \in Requests : r.byValue => r.side = "BUY"
ASSUME CooldownAssumption == Cooldown \in Nat \ {0}
ASSUME AmountAssumption ==
  /\ MaxOrderValue \in Nat /\ Positions \subseteq Int
  /\ MinPosition \in Int /\ MaxPosition \in Int /\ MaxMoves \in Nat
  /\ ReadsFail \in BOOLEAN /\ NoRead \notin Int

VARIABLES
  dryRun, allowShort,   \* two switches of the safety layer
  pc,           \* where each call stands
  request,      \* what it asks for
  held,         \* the position it read, until its guard has used it
  onRead,       \* its guard let it pass because of that position
  covered,      \* the age of _recent_covers[symbol]
  order, left,  \* the venue's state of its order, and what is not filled
  age,          \* how long ago an exempt call was checked
  actual,       \* the position
  shown,        \* the position the portfolio shows
  unshown,      \* units that capped buys, and sells, moved unseen by it
  coversShown,  \* it shows all that exempt buys bought
  settled,      \* when the call read, it did, and no exempt buy was left
  against       \* units of other orders of its side that its read missed

switchVars == <<dryRun, allowShort>>
orderVars == <<order, left>>
positionVars == <<actual, shown, unshown, coversShown>>
vars == <<switchVars, pc, request, held, onRead, covered, orderVars, age,
          positionVars, settled, against>>

(* No entry is as good as an expired one.                                  *)
NoCover == Cooldown

(* An age is told apart up to twice the cooldown.                          *)
OldAge == 2 * Cooldown

Live(c) == order[c] \in {"sent", "working"}

(* The call may still trade on what its guard has seen.                    *)
Pending(c) == pc[c] = "checked" \/ Live(c)

(* It was waved past the cap, and it may still trade.                      *)
IsCover(c) == onRead[c] /\ request[c].side = "BUY"
Exempt(c) == IsCover(c) /\ Pending(c)
Backed(c) == onRead[c] /\ request[c].side = "SELL" /\ Pending(c)

(* What the call may still trade.                                          *)
Owed(c) == IF pc[c] = "checked" THEN request[c].quantity ELSE left[c]

Init ==
  /\ dryRun \in BOOLEAN /\ allowShort \in BOOLEAN
  /\ pc = [c \in Calls |-> "idle"]
  /\ request = [c \in Calls |-> CHOOSE r \in Requests : TRUE]
  /\ held = [c \in Calls |-> NoRead] /\ onRead = [c \in Calls |-> FALSE]
  /\ covered = NoCover
  /\ order = [c \in Calls |-> "none"] /\ left = [c \in Calls |-> 0]
  /\ age = [c \in Calls |-> 0]
  /\ actual \in Positions /\ shown = actual
  /\ unshown = [s \in Sides |-> 0] /\ coversShown = TRUE
  /\ settled = [c \in Calls |-> FALSE] /\ against = [c \in Calls |-> 0]

-----------------------------------------------------------------------------
(* A call of place_order, under the lock of its side.                      *)

LockFree(side) == \A c \in Calls : pc[c] # "idle" => request[c].side # side

(* A finished call stands for a later one once its order is over.          *)
Arrive(c) ==
  /\ pc[c] = "idle" /\ ~Live(c)
  /\ \E r \in Requests :
       /\ LockFree(r.side)
       /\ request' = [request EXCEPT ![c] = r]
  /\ pc' = [pc EXCEPT ![c] = "asking"]
  /\ onRead' = [onRead EXCEPT ![c] = FALSE]
  /\ age' = [age EXCEPT ![c] = 0]
  /\ settled' = [settled EXCEPT ![c] = FALSE] /\ against' = [against EXCEPT ![c] = 0]
  /\ UNCHANGED <<switchVars, held, covered, orderVars, positionVars>>

(* A buy by value has no quantity to compare; a sell is asked about only   *)
(* if it must be backed.                                                   *)
Asks(c) == IF request[c].side = "BUY" THEN ~request[c].byValue ELSE ~allowShort

(* The answers of held_quantity: the portfolio of this moment, or none.    *)
Answers(c) ==
  (IF Asks(c) THEN {shown} ELSE {NoRead}) \cup (IF ReadsFail THEN {NoRead} ELSE {})

(* The venue answers; the answer has yet to travel.                        *)
Answer(c) ==
  /\ pc[c] = "asking"
  /\ pc' = [pc EXCEPT ![c] = "answered"]
  /\ \E h \in Answers(c) : held' = [held EXCEPT ![c] = h]
  /\ settled' = [settled EXCEPT ![c] = coversShown /\ \A d \in Calls : ~Exempt(d)]
  /\ against' = [against EXCEPT ![c] = unshown[request[c].side]]
  /\ UNCHANGED <<switchVars, request, onRead, covered, orderVars, age, positionVars>>

(* A buy, sized by quantity, that closes a part of a short or all of it.   *)
Covers(c) == held[c] # NoRead /\ held[c] < 0 /\ request[c].quantity <= -held[c]

(* Mutant of AllowanceFree: the entry is evicted when it is a unit younger. *)
EarlyMutant == covered >= Cooldown - 1
(* Expired entries are evicted, then the symbol is looked up.              *)
AllowanceFree == covered >= Cooldown

(* Mutant of Aged: entries are not evicted.                                *)
UnevictedMutant == covered + 1
(* The entry a unit later; an expired one is as good as none.              *)
Aged == IF covered < Cooldown THEN covered + 1 ELSE covered

(* Mutant of Claimed: the first cover leaves no entry behind.              *)
NoClaimMutant == covered
(* The entry, dated now.  A dry run leaves none.                           *)
Claimed == IF dryRun THEN covered ELSE 0

(* Mutant of AfterRefusal: an attempt within the window starts it anew.    *)
RedatedMutant(c) == IF Covers(c) THEN Claimed ELSE covered
(* The entry after a buy that is not exempt.                               *)
AfterRefusal(c) == covered

(* What the read missed is of no account to a call that does not rest on   *)
(* it.                                                                     *)
KeepRead(c, rests) ==
  /\ settled' = [settled EXCEPT ![c] = @ /\ rests]
  /\ against' = [against EXCEPT ![c] = IF rests THEN @ ELSE 0]

(* A guard has passed: because says that the position read was the reason. *)
Pass(c, because) ==
  /\ pc[c] = "answered"
  /\ pc' = [pc EXCEPT ![c] = "checked"]
  /\ held' = [held EXCEPT ![c] = NoRead]
  /\ onRead' = [onRead EXCEPT ![c] = because]
  /\ KeepRead(c, because)
  /\ UNCHANGED <<switchVars, request, age, orderVars, positionVars>>

(* _is_covering_short returns True: check and claim, without an await.     *)
PassExempt(c) ==
  /\ request[c].side = "BUY"
  /\ Covers(c) /\ AllowanceFree
  /\ covered' = Claimed
  /\ Pass(c, TRUE)

(* It returns False; the buy is valued and is within the limit.            *)
PassCapped(c) ==
  /\ request[c].side = "BUY"
  /\ ~(Covers(c) /\ AllowanceFree)
  /\ request[c].quantity <= MaxOrderValue
  /\ covered' = AfterRefusal(c)
  /\ Pass(c, FALSE)

(* Mutant of HeldLong: a short backs a sell, too.                          *)
AbsoluteMutant(h) == IF h > 0 THEN h ELSE -h
(* The part of a position that can back a sell.                            *)
HeldLong(h) == IF h > 0 THEN h ELSE 0

(* _check_no_naked_short returns: not asked, not answered, or backed.      *)
PassSell(c) ==
  /\ request[c].side = "SELL"
  /\ \/ held[c] = NoRead /\ Pass(c, FALSE)
     \/ held[c] # NoRead /\ request[c].quantity <= HeldLong(held[c]) /\ Pass(c, TRUE)
  /\ UNCHANGED covered

(* The call ends: a guard refuses, an await raises or is cancelled, the    *)
(* answer comes or the wait for it ends.  An allowance stays claimed.      *)
End(c) ==
  /\ pc[c] # "idle"
  /\ pc' = [pc EXCEPT ![c] = "idle"]
  /\ held' = [held EXCEPT ![c] = NoRead]
  /\ KeepRead(c, Live(c))
  /\ UNCHANGED <<switchVars, request, onRead, covered, orderVars, age, positionVars>>

(* All other guards have passed, and the order goes out.                   *)
Post(c) ==
  /\ pc[c] = "checked" /\ ~dryRun
  /\ pc' = [pc EXCEPT ![c] = "awaiting"]
  /\ order' = [order EXCEPT ![c] = "sent"]
  /\ left' = [left EXCEPT ![c] = request[c].quantity]
  /\ UNCHANGED <<switchVars, request, held, onRead, covered, age, positionVars,
                 settled, against>>

CallStep(c) ==
  Answer(c) \/ PassExempt(c) \/ PassCapped(c) \/ PassSell(c) \/ End(c) \/ Post(c)

-----------------------------------------------------------------------------
(* The venue, its portfolio and the clock.                                 *)

(* The order gets to the venue, is refused there, or ends unfilled.        *)
Land(c) ==
  /\ \/ order[c] = "sent" /\ order' = [order EXCEPT ![c] = "working"] /\ UNCHANGED left
     \/ /\ Live(c)
        /\ order' = [order EXCEPT ![c] = "none"] /\ left' = [left EXCEPT ![c] = 0]
  /\ UNCHANGED <<switchVars, pc, request, held, onRead, covered, age, positionVars,
                 settled, against>>

(* The call rests, or is going to, on a read that has been answered.       *)
Reading(c) == pc[c] = "answered" \/ (Pending(c) /\ onRead[c])

(* One unit is filled, of an order that may rest for ever.  What exempt    *)
(* buys buy is put to nobody's account.                                    *)
Fill(c) ==
  LET side == request[c].side
      Noted(d) == ~IsCover(c) /\ d # c /\ Reading(d) /\ request[d].side = side
  IN
  /\ order[c] = "working"
  /\ actual' = IF side = "BUY" THEN actual + 1 ELSE actual - 1
  /\ actual' \in MinPosition .. MaxPosition
  /\ left' = [left EXCEPT ![c] = @ - 1]
  /\ order' = IF left[c] = 1 THEN [order EXCEPT ![c] = "none"] ELSE order
  /\ \/ IsCover(c) /\ coversShown' = FALSE /\ UNCHANGED unshown
     \/ /\ ~IsCover(c) /\ unshown[side] < MaxMoves /\ UNCHANGED coversShown
        /\ unshown' = [unshown EXCEPT ![side] = @ + 1]
  /\ \A d \in Calls : Noted(d) => against[d] < MaxMoves
  /\ against' = [d \in Calls |-> IF Noted(d) THEN against[d] + 1 ELSE against[d]]
  /\ UNCHANGED <<switchVars, pc, request, held, onRead, covered, age, shown, settled>>

VenueStep(c) == Land(c) \/ Fill(c)

(* The portfolio catches up.                                               *)
Refresh ==
  /\ shown' = actual
  /\ unshown' = [s \in Sides |-> 0] /\ coversShown' = TRUE
  /\ UNCHANGED <<switchVars, pc, request, held, onRead, covered, orderVars, age, actual,
                 settled, against>>

Tick ==
  /\ age' = [c \in Calls |-> IF IsCover(c) /\ age[c] < OldAge THEN age[c] + 1 ELSE age[c]]
  /\ covered' = Aged
  /\ UNCHANGED <<switchVars, pc, request, held, onRead, orderVars, positionVars,
                 settled, against>>

Next ==
  \/ \E c \in Calls : Arrive(c) \/ CallStep(c) \/ VenueStep(c)
  \/ Refresh \/ Tick

(* Time passes.                                                            *)
Spec == Init /\ [][Next]_vars /\ WF_vars(Tick)

-----------------------------------------------------------------------------
(* Properties.                                                             *)

(* The types of the variables.                                             *)
TypeOK ==
  /\ dryRun \in BOOLEAN /\ allowShort \in BOOLEAN
  /\ pc \in [Calls -> {"idle", "asking", "answered", "checked", "awaiting"}]
  /\ request \in [Calls -> Requests]
  /\ held \in [Calls -> Int \cup {NoRead}] /\ onRead \in [Calls -> BOOLEAN]
  /\ covered \in 0 .. Cooldown
  /\ order \in [Calls -> {"none", "sent", "working"}]
  /\ left \in [Calls -> Int] /\ age \in [Calls -> 0 .. OldAge]
  /\ actual \in Int /\ shown \in Int
  /\ unshown \in [Sides -> Nat] /\ coversShown \in BOOLEAN
  /\ settled \in [Calls -> BOOLEAN] /\ against \in [Calls -> Nat]

(* "a symbol gets one uncapped cover per this window" (the comment on      *)
(* _COVER_COOLDOWN_SECONDS): of two that were let pass, one was checked a  *)
(* whole window before the other, whatever became of either.  This bounds  *)
(* how fast uncapped buys can add up where nothing else does.              *)
OneCoverPerWindow ==
  ~dryRun =>
    \A c, d \in Calls :
      c # d /\ IsCover(c) /\ IsCover(d) /\ age[c] <= age[d] /\ age[c] < Cooldown
      => age[d] >= age[c] + Cooldown

(* An uncapped cover that read a position on which the earlier ones had    *)
(* settled is an exit for as long as its window lasts: what it may still   *)
(* buy takes the position past zero by no more than capped buys bought     *)
(* behind its read.                                                        *)
CoversOnlyCover ==
  \A c \in Calls : Exempt(c) /\ settled[c] /\ age[c] < Cooldown =>
    actual + Owed(c) <= against[c]

(* A sell that was let pass because of the position sells no more than     *)
(* there is, but for what other sells sold that its read missed.           *)
SellsAreBacked == \A c \in Calls : Backed(c) => Owed(c) <= actual + against[c]

(* An exit is never trapped for good: again and again a cover is exempt,   *)
(* however often it was tried in between.                                  *)
AllowanceReturns == []<>AllowanceFree

(* The comment on _COVER_COOLDOWN_SECONDS denies that a repeated cover may *)
(* build "an arbitrarily large LONG past the cap".  It may: a limit order  *)
(* rests for the day, the window is over in 45 seconds, and a second cover *)
(* then passes beside it.  What the two may still buy goes past zero and   *)
(* past the cap.                                                           *)
NoLongPastCap ==
  \A c, d \in Calls :
    c # d /\ IsCover(c) /\ IsCover(d) /\ order[c] = "working" /\ order[d] = "working"
    => actual + left[c] + left[d] <= MaxOrderValue

(* "a SELL larger than the held position is blocked (it would open a       *)
(* short)" (CHANGELOG.md).  It is not while an earlier sell, filled or at  *)
(* rest, is not in the number the portfolio shows.  Stated for an account  *)
(* that is long at first and for reads that are answered.                  *)
NoNakedShort == ~allowShort => actual >= 0
=============================================================================
