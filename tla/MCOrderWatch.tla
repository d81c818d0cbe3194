---------------------------- MODULE MCOrderWatch ----------------------------
(***************************************************************************)
(* A small instance of OrderWatch for TLC.                                 *)
(***************************************************************************)
EXTENDS OrderWatch

(* Below zero, not a multiple of the poll interval, and past the maximum.  *)
ThreeTimeouts == {-1, 3, 9}

(* IBKR does not call an order "pending cancel" when it answers a          *)
(* cancellation.                                                           *)
PlainAnswers == (IbkrWords \ {"pendingcancel"}) \cup {Silent}
AnyAnswers == IbkrWords \cup {Silent}
=============================================================================
