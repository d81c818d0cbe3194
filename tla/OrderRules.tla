----------------------------- MODULE OrderRules -----------------------------
(***************************************************************************)
(* The rules about one order that need no state: which requests can be     *)
(* built (the validators of trading_core/domain/models.py) and which stops *)
(* and bracket exits are let pass at a price (_check_stop_not_inverted and *)
(* _check_bracket_exits of trading_core/safety/policy.py).                 *)
(*                                                                         *)
(* Prices and amounts are positive numbers; Absent is None.                *)
(***************************************************************************)
EXTENDS Integers

Absent == 0

OrderTypes == {"MKT", "LMT", "STP", "STOP_LIMIT", "TRAIL"}

(* An order as place_order takes it.                                       *)
Order == [side : {"BUY", "SELL"}, type : OrderTypes, quantity : Nat, cash : Nat,
          limit : Nat, stop : Nat, trail : Nat]

(* A request: an order, and for a bracket the prices of its two exits.     *)
Request == [order : Order, takeProfit : Nat, stopLoss : Nat]

IsBracket(q) == q.takeProfit # Absent

-----------------------------------------------------------------------------
(* Validation.                                                             *)

(* OrderRequest._validate.                                                 *)
WellFormedOrder(r) ==
  /\ (r.quantity = Absent) # (r.cash = Absent)
  /\ r.cash # Absent => r.side = "BUY" /\ r.type = "MKT"
  /\ r.type \in {"LMT", "STOP_LIMIT"} => r.limit # Absent
  /\ r.type \in {"STP", "STOP_LIMIT"} => r.stop # Absent
  /\ r.type = "TRAIL" => r.trail # Absent

(* BracketRequest._entry_and_exits_consistent, with the entry as the tool  *)
(* bracket_order builds it: a market order, or a limit order.              *)
WellFormedBracket(q) ==
  LET Below(a, b) == IF q.order.side = "BUY" THEN a < b ELSE a > b IN
  /\ q.order.quantity # Absent
  /\ q.order.type = IF q.order.limit # Absent THEN "LMT" ELSE "MKT"
  /\ q.stopLoss # Absent
  /\ Below(q.stopLoss, q.takeProfit)
  /\ q.order.limit # Absent =>
       Below(q.stopLoss, q.order.limit) /\ Below(q.order.limit, q.takeProfit)

WellFormed(q) ==
  WellFormedOrder(q.order) /\ (IsBracket(q) => WellFormedBracket(q))

-----------------------------------------------------------------------------
(* The checks against the market, whose last price may be Absent.          *)

(* Mutant of StopNotInverted: a stop at the price itself is let pass.      *)
StopAtPriceMutant(r, last) ==
  r.type \in {"STP", "STOP_LIMIT"} /\ last # Absent =>
    IF r.side = "SELL" THEN r.stop <= last ELSE r.stop >= last

(* _check_stop_not_inverted.                                               *)
StopNotInverted(r, last) ==
  r.type \in {"STP", "STOP_LIMIT"} /\ last # Absent =>
    IF r.side = "SELL" THEN r.stop < last ELSE r.stop > last

(* Mutant of EntryFill: a limit order always fills at its limit.           *)
AlwaysLimitMutant(r, last) == IF r.limit # Absent THEN r.limit ELSE last

(* The effective fill price of an entry: a limit that the market has not   *)
(* reached, or the market's price.                                         *)
EntryFill(r, last) ==
  LET beyond == IF r.side = "BUY" THEN r.limit < last ELSE r.limit > last IN
  IF r.limit # Absent /\ beyond THEN r.limit ELSE last

(* _check_bracket_exits: both exits are on the far side of that price.     *)
ExitsClear(q, last) ==
  LET fill == EntryFill(q.order, last) IN
  last # Absent =>
    IF q.order.side = "BUY" THEN q.stopLoss < fill /\ fill < q.takeProfit
                            ELSE q.takeProfit < fill /\ fill < q.stopLoss

-----------------------------------------------------------------------------
(* What the rules are for, said of a market whose price moves by single    *)
(* units: an order can trade at some prices and not at others.             *)

(* The prices at which an order with this limit trades.                    *)
Trades(side, limit, p) ==
  limit # Absent => IF side = "BUY" THEN p <= limit ELSE p >= limit

(* The prices at which a stop is triggered.                                *)
Triggers(side, stop, p) == IF side = "BUY" THEN p >= stop ELSE p <= stop

Opposite(side) == IF side = "BUY" THEN "SELL" ELSE "BUY"

(* From a market at last, the entry can fill at p: it trades there, and at *)
(* no price that the market passes on its way.                             *)
FirstFill(r, last, p) ==
  /\ Trades(r.side, r.limit, p)
  /\ \A x \in (last .. p - 1) \cup (p + 1 .. last) : ~Trades(r.side, r.limit, x)

(* An exit that goes when the market is at p.                              *)
ExitGoes(q, p) ==
  LET side == Opposite(q.order.side) IN
  Trades(side, q.takeProfit, p) \/ Triggers(side, q.stopLoss, p)
=============================================================================
