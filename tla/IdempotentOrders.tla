-------------------------- MODULE IdempotentOrders --------------------------
(***************************************************************************)
(* What the persistent idempotency guard promises, whatever the journal    *)
(* looks like (journal.py, has_unresolved_dispatch: an identical intent is *)
(* never resent while the fate of the previous one is unknown).  An order  *)
(* is placed once, is then in doubt, and is settled once; of the orders    *)
(* of one intent at most one is in doubt.                                  *)
(***************************************************************************)
CONSTANT Orders    \* the identities of the orders

VARIABLES
  intent,          \* what each order asks for
  doubt,           \* orders dispatched whose fate is not known
  settled          \* orders whose fate is known

idealVars == <<intent, doubt, settled>>

Init ==
  /\ intent = [c \in Orders |-> intent[c]]
  /\ doubt = {} /\ settled = {}

Place(c) ==
  /\ c \notin doubt \cup settled
  /\ \A d \in doubt : intent[d] # intent[c]
  /\ doubt' = doubt \cup {c}
  /\ UNCHANGED <<intent, settled>>

Settle(c) ==
  /\ c \in doubt
  /\ doubt' = doubt \ {c}
  /\ settled' = settled \cup {c}
  /\ UNCHANGED intent

Next == \E c \in Orders : Place(c) \/ Settle(c)

Spec == Init /\ [][Next]_idealVars
=============================================================================
