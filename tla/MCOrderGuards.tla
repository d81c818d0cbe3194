---------------------------- MODULE MCOrderGuards ---------------------------
(***************************************************************************)
(* A small instance of OrderGuards for TLC.                                *)
(***************************************************************************)
EXTENDS OrderGuards

Single(s, t, limit, stop) ==
  [order |-> [side |-> s, type |-> t, quantity |-> 1, cash |-> Absent, limit |-> limit,
              stop |-> stop, trail |-> Absent],
   takeProfit |-> Absent, stopLoss |-> Absent]

Bracket(s, limit, tp, sl) ==
  [order |-> [side |-> s, type |-> IF limit = Absent THEN "MKT" ELSE "LMT", quantity |-> 1,
              cash |-> Absent, limit |-> limit, stop |-> Absent, trail |-> Absent],
   takeProfit |-> tp, stopLoss |-> sl]

(* Buys at the market and below it with their exits, a stop, and the       *)
(* mirror images.                                                          *)
AllRequests ==
  {Bracket("BUY", Absent, 4, 2), Bracket("BUY", 3, 4, 2), Single("SELL", "STP", Absent, 2),
   Bracket("SELL", 3, 2, 4)}

FivePrices == 1 .. 5
=============================================================================
