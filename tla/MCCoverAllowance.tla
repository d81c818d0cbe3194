-------------------------- MODULE MCCoverAllowance --------------------------
(***************************************************************************)
(* Small instances of CoverAllowance for TLC.                              *)
(***************************************************************************)
EXTENDS CoverAllowance

Order(s, n) == [side |-> s, quantity |-> n, byValue |-> FALSE]

(* A cover, a buy by value, and a sell.                                    *)
MixedRequests ==
  {Order("BUY", 2), [side |-> "BUY", quantity |-> 1, byValue |-> TRUE],
   Order("SELL", 1)}

(* Only covers above the cap; only sells.                                  *)
LargeBuys == {Order("BUY", 2)}
Sells == {Order("SELL", 1)}

ShortOrLong == {-2, 1}
Short == {-2}
Long == {1}

LeastPosition == -3
=============================================================================
