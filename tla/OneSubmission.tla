---------------------------- MODULE OneSubmission ---------------------------
(***************************************************************************)
(* What the safety layer takes a post of the inner broker for (policy.py,  *)
(* _place_order_locked): however many requests it is made of, each of its  *)
(* orders comes to live at most once; that may happen while the caller     *)
(* waits or after it was told of a failure, but what the caller is told as *)
(* the outcome is final.                                                   *)
(***************************************************************************)
CONSTANTS
  Orders,      \* the orders submitted together
  Tries        \* the requests that may carry them

VARIABLES
  landings,    \* the tries out of which each order came to live
  told         \* what the caller has been told

Tidings == {"nothing", "outcome", "blocked", "failure"}
submissionVars == <<landings, told>>

Init ==
  /\ landings = [c \in Orders |-> {}]
  /\ told = "nothing"

Land(legs, try) ==
  /\ told \in {"nothing", "failure"}
  /\ \A c \in legs : landings[c] = {}
  /\ landings' = [c \in Orders |-> IF c \in legs THEN {try} ELSE landings[c]]
  /\ UNCHANGED told

Tell(tiding) ==
  /\ told = "nothing"
  /\ tiding = "blocked" => \A c \in Orders : landings[c] = {}
  /\ told' = tiding
  /\ UNCHANGED landings

Next ==
  \/ \E legs \in SUBSET Orders, try \in Tries : Land(legs, try)
  \/ \E tiding \in Tidings : Tell(tiding)

Spec == Init /\ [][Next]_submissionVars
=============================================================================
