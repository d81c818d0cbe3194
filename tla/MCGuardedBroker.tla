--------------------------- MODULE MCGuardedBroker --------------------------
(***************************************************************************)
(* Small instances of GuardedBroker for TLC.                               *)
(***************************************************************************)
EXTENDS GuardedBroker, TLC

(* A buy and the same buy as the entry of a bracket (one fingerprint), a   *)
(* smaller buy of another fingerprint, and a sell.                         *)
buy     == [side |-> "BUY",  fp |-> "A", notional |-> 2, bracket |-> FALSE]
bracket == [side |-> "BUY",  fp |-> "A", notional |-> 2, bracket |-> TRUE]
other   == [side |-> "BUY",  fp |-> "B", notional |-> 1, bracket |-> FALSE]
sell    == [side |-> "SELL", fp |-> "S", notional |-> 0, bracket |-> FALSE]

Buys     == {buy, bracket}
CapBuys  == {bracket, other}
BuySell  == {bracket, sell}
LiveOnly == {FALSE}
DryOrLive == {FALSE, TRUE}
NeverReconcile == {}
NeverForce == {FALSE}
MayForce   == {FALSE, TRUE}

Symmetry == Permutations(Coids)
=============================================================================
