----------------------------- MODULE OrderWatch -----------------------------
(***************************************************************************)
(* What is done about an order once it has an id: cancel_order,            *)
(* order_status and wait_for_fill, concurrently, on both venues            *)
(* (ibkr_agent/adapters/cpapi/broker.py with server/app.py, and            *)
(* crypto_agent/adapters/ccxt/broker.py, which must find an order's symbol *)
(* before it can ask about it).                                            *)
(*                                                                         *)
(* An answer tells how the order stood when it was given; the order goes   *)
(* on while the answer is on its way.                                      *)
(***************************************************************************)
EXTENDS Integers

CONSTANTS
  Calls,         \* the concurrent calls of the three tools
  Orders,        \* the orders that have an id
  Venues,        \* "IBKR", "ccxt"
  CancelWords,   \* what IBKR's answer to a cancellation may call the order
  Timeouts,      \* the timeout_seconds of a wait
  MaxTimeout,    \* _WAIT_MAX_TIMEOUT
  Poll,          \* _WAIT_POLL_SECONDS
  Silent         \* an answer that does not say how the order stands

(* What the venues call an order: IBKR, then CCXT's unified words.         *)
IbkrWords == {"presubmitted", "submitted", "pendingcancel", "filled", "cancelled",
              "apicancelled", "inactive"}
CcxtWords == {"open", "closed", "canceled", "rejected", "expired"}

ASSUME WatchAssumption ==
  /\ Venues \subseteq {"IBKR", "ccxt"} /\ Orders # {}
  /\ CancelWords \subseteq IbkrWords \cup {Silent}
  /\ Silent \notin IbkrWords \cup CcxtWords
  /\ Timeouts \subseteq Int /\ MaxTimeout \in Nat /\ Poll \in Nat \ {0}

VARIABLES
  where,      \* the venue
  order,      \* how each order stands there
  known,      \* the orders in _symbol_by_id
  pc,         \* where each call stands
  tool,       \* which tool it is
  named,      \* the order it is about
  heard,      \* what the venue answered, on its way
  listed,     \* the orders in a listing on its way
  result,     \* what the call returned
  deadline,   \* how long a wait may poll
  slept,      \* elapsed: how long it has slept
  nap,        \* how long it sleeps yet
  clock,      \* the time since it began
  inTime,     \* its order was over before the deadline
  stayed      \* CCXT: its order has been open since it began

waitVars == <<deadline, slept, nap, clock, inTime>>
callVars == <<pc, tool, named, heard, listed, result, waitVars>>
vars == <<where, order, known, callVars, stayed>>

Open == {"working", "parked", "cancelling"}
Over == {"filled", "cancelled", "dead"}
Running == {"symbol", "found", "asking", "answered", "sleeping"}

Init ==
  /\ where \in Venues
  /\ order \in [Orders -> {"none", "working"}] /\ known = {}
  /\ pc = [c \in Calls |-> "idle"] /\ tool = [c \in Calls |-> "status"]
  /\ named = [c \in Calls |-> CHOOSE o \in Orders : TRUE]
  /\ heard = [c \in Calls |-> Silent] /\ listed = [c \in Calls |-> {}]
  /\ result = [c \in Calls |-> "none"]
  /\ deadline = [c \in Calls |-> 0] /\ slept = [c \in Calls |-> 0]
  /\ nap = [c \in Calls |-> 0] /\ clock = [c \in Calls |-> 0]
  /\ inTime = [c \in Calls |-> FALSE] /\ stayed = [c \in Calls |-> FALSE]

-----------------------------------------------------------------------------
(* Words.                                                                  *)

(* _STATUS_MAP of either venue; another word, or none, is "unknown".       *)
MapStatus(word) ==
  CASE word \in {"submitted", "open"}                       -> "submitted"
    [] word \in {"presubmitted", "pendingcancel"}           -> "pending"
    [] word \in {"filled", "closed"}                        -> "filled"
    [] word \in {"cancelled", "apicancelled", "canceled"}   -> "cancelled"
    [] word = "rejected"                                    -> "rejected"
    [] word \in {"inactive", "expired"}                     -> "inactive"
    [] OTHER                                                -> "unknown"

(* Mutant of CancelStatus: an acknowledgement is taken for the fact.       *)
AckIsCancelMutant(word) == IF word = Silent THEN "cancelled" ELSE MapStatus(word)

(* cancel_order's reading of the answer: IBKR's is searched for "cancel".  *)
CancelStatus(word) ==
  IF where = "ccxt" THEN MapStatus(word)
  ELSE IF word \in {"cancelled", "apicancelled", "pendingcancel"} THEN "cancelled"
  ELSE IF word = Silent THEN "pending"
  ELSE MapStatus(word)

(* What the venue may call an order (one word for those that are read      *)
(* alike: "presubmitted" is "submitted", "apicancelled" is "cancelled").   *)
WordsFor(state) ==
  IF where = "IBKR"
  THEN CASE state = "working"    -> {"submitted"}
         [] state = "cancelling" -> {"pendingcancel"}
         [] state \in {"filled", "cancelled"} -> {state}
         [] OTHER                -> {"inactive"}
  ELSE CASE state \in Open       -> {"open"}
         [] state = "filled"     -> {"closed"}
         [] state = "cancelled"  -> {"canceled"}
         [] OTHER                -> {"rejected", "expired"}

-----------------------------------------------------------------------------
(* The calls.                                                              *)

Goto(c, where_) == pc' = [pc EXCEPT ![c] = where_]

(* Mutant of Capped: the timeout is taken as it is.                        *)
UncappedMutant(timeout) == timeout
Capped(timeout) ==
  IF timeout < 0 THEN 0 ELSE IF timeout > MaxTimeout THEN MaxTimeout ELSE timeout

(* A tool is called about an order.  IBKR's cancel_order looks its symbol  *)
(* up in a listing, for show; the CCXT broker needs it, and looks in its   *)
(* cache before it asks for a listing.  A finished call stands for later   *)
(* ones.  The crypto server offers no wait_for_fill.                       *)
Begin(c) ==
  /\ pc[c] \in {"idle", "done"}
  /\ \E t \in {"cancel", "status", "wait"}, o \in {x \in Orders : order[x] # "none"} :
       /\ t = "wait" => where = "IBKR"
       /\ tool' = [tool EXCEPT ![c] = t] /\ named' = [named EXCEPT ![c] = o]
       /\ Goto(c, IF IF where = "IBKR" THEN t = "cancel" ELSE o \notin known
                  THEN "symbol" ELSE "asking")
       /\ \E timeout \in Timeouts :
            deadline' = [deadline EXCEPT ![c] = IF t = "wait" THEN Capped(timeout) ELSE 0]
       /\ stayed' = [stayed EXCEPT ![c] = where = "ccxt" /\ order[o] \in Open]
  /\ result' = [result EXCEPT ![c] = "none"]
  /\ inTime' = [inTime EXCEPT ![c] = FALSE]
  /\ UNCHANGED <<where, order, known, heard, listed, slept, nap, clock>>

(* The call returns or raises; its variables are gone.                     *)
Return(c, verdict) ==
  /\ Goto(c, "done")
  /\ result' = [result EXCEPT ![c] = verdict]
  /\ heard' = [heard EXCEPT ![c] = Silent] /\ listed' = [listed EXCEPT ![c] = {}]
  /\ deadline' = [deadline EXCEPT ![c] = 0] /\ slept' = [slept EXCEPT ![c] = 0]
  /\ nap' = [nap EXCEPT ![c] = 0] /\ clock' = [clock EXCEPT ![c] = 0]
  /\ UNCHANGED <<where, order, tool, named, inTime, stayed>>

(* Mutant of Found: the cache is looked at but was not filled.             *)
UnfilledMutant(c) == named[c] \in known
(* After get_live_orders the symbol is known if the order was listed.      *)
Found(c) == named[c] \in known'

Learn(orders) == known' = IF where = "ccxt" THEN known \cup orders ELSE known

(* The listing comes in.                                                   *)
HearListing(c) ==
  /\ pc[c] = "found"
  /\ Learn(listed[c])
  /\ IF where = "IBKR" \/ Found(c)
       THEN /\ Goto(c, "asking")
            /\ listed' = [listed EXCEPT ![c] = {}]
            /\ UNCHANGED <<where, order, tool, named, heard, result, waitVars, stayed>>
       ELSE Return(c, "unknown order")

(* IBKR's cancel_order goes on when its listing fails.                     *)
ListingFails(c) ==
  /\ pc[c] \in {"symbol", "found"} /\ where = "IBKR"
  /\ Goto(c, "asking")
  /\ listed' = [listed EXCEPT ![c] = {}]
  /\ UNCHANGED <<where, order, known, tool, named, heard, result, waitVars, stayed>>

(* The statuses wait_for_fill stops at.                                    *)
TerminalStatuses == {"filled", "cancelled", "rejected", "inactive"}

(* Mutant of MayPoll: the last poll is given up for want of time.          *)
HurriedMutant(c) == slept[c] + Poll < deadline[c]
MayPoll(c) == slept[c] < deadline[c]

(* The answer comes in, and the CCXT broker learns the order's symbol from *)
(* it.  A wait sleeps and asks again, or says how the order stood.         *)
HearAnswer(c) ==
  LET status == IF tool[c] = "cancel" THEN CancelStatus(heard[c]) ELSE MapStatus(heard[c])
  IN
  /\ pc[c] = "answered"
  /\ Learn({named[c]})
  /\ IF tool[c] = "wait" /\ status \notin TerminalStatuses /\ MayPoll(c)
       THEN /\ Goto(c, "sleeping")
            /\ nap' = [nap EXCEPT ![c] = Poll]
            /\ heard' = [heard EXCEPT ![c] = Silent]
            /\ UNCHANGED <<where, order, tool, named, listed, result, deadline, slept, clock,
                           inTime, stayed>>
       ELSE Return(c, status)

(* Mutant of Slept: the sleeps are not counted.                            *)
UncountedMutant(c) == slept
Slept(c) == [slept EXCEPT ![c] = @ + Poll]

Wake(c) ==
  /\ pc[c] = "sleeping" /\ nap[c] = 0
  /\ Goto(c, "asking")
  /\ slept' = Slept(c)
  /\ UNCHANGED <<where, order, known, tool, named, heard, listed, result, deadline, nap,
                 clock, inTime, stayed>>

(* A request fails or times out, or the task is cancelled: no verdict.     *)
Raise(c) ==
  /\ pc[c] \in Running
  /\ Return(c, "error")
  /\ UNCHANGED known

CallStep(c) ==
  HearListing(c) \/ ListingFails(c) \/ HearAnswer(c) \/ Wake(c) \/ Raise(c)

(* place_order and open_orders teach the CCXT broker symbols as well.      *)
Place ==
  /\ \E orders \in SUBSET {o \in Orders : order[o] \in Open} : Learn(orders)
  /\ UNCHANGED <<where, order, callVars, stayed>>

(* The server is started again and has forgotten the symbols.              *)
Restart ==
  /\ known' = {}
  /\ pc' = [c \in Calls |-> "idle"] /\ result' = [c \in Calls |-> "none"]
  /\ heard' = [c \in Calls |-> Silent] /\ listed' = [c \in Calls |-> {}]
  /\ deadline' = [c \in Calls |-> 0] /\ slept' = [c \in Calls |-> 0]
  /\ nap' = [c \in Calls |-> 0] /\ clock' = [c \in Calls |-> 0]
  /\ inTime' = [c \in Calls |-> FALSE] /\ stayed' = [c \in Calls |-> FALSE]
  /\ UNCHANGED <<where, order, tool, named>>

-----------------------------------------------------------------------------
(* The venue and the clock.                                                *)

(* Order o goes on to one of the states.                                   *)
Becomes(o, states) ==
  /\ \E s \in states : order' = [order EXCEPT ![o] = s]
  /\ stayed' = [c \in Calls |-> stayed[c] /\ (named[c] = o => order'[o] \in Open)]

(* A request to list the open orders is served: all of them.               *)
ServeListing(c) ==
  /\ pc[c] = "symbol"
  /\ Goto(c, "found")
  /\ listed' = [listed EXCEPT ![c] = {o \in Orders : order[o] \in Open}]
  /\ UNCHANGED <<where, order, known, tool, named, heard, result, waitVars, stayed>>

(* A request about an order is served.  The order, if open, is cancelled,  *)
(* or will be, or is left alone.                                           *)
ServeRequest(c) ==
  /\ pc[c] = "asking"
  /\ Goto(c, "answered")
  /\ IF tool[c] = "cancel" /\ order[named[c]] \in Open
       THEN Becomes(named[c], {order[named[c]], "cancelling", "cancelled"})
       ELSE UNCHANGED <<order, stayed>>
  /\ \E word \in WordsFor(order'[named[c]]) \cup {Silent} :
       /\ tool[c] = "cancel" /\ where = "IBKR" => word \in CancelWords
       /\ heard' = [heard EXCEPT ![c] = word]
  /\ UNCHANGED <<where, known, tool, named, listed, result, waitVars>>

Serve(c) == ServeListing(c) \/ ServeRequest(c)

(* An order is placed, waits for the market, fills, or is over.  One that  *)
(* is being cancelled may fill, or survive.                                *)
Move(o) ==
  /\ \/ order[o] = "none" /\ Becomes(o, {"working", "parked", "dead"})
     \/ order[o] = "parked" /\ Becomes(o, {"working", "cancelled", "dead"})
     \/ order[o] = "working" /\ Becomes(o, {"filled", "cancelled", "dead"})
     \/ order[o] = "cancelling" /\ Becomes(o, {"working", "filled", "cancelled"})
  /\ UNCHANGED <<where, known, callVars>>

(* A sleep may last longer than asked for.                                 *)
Tick ==
  /\ nap' = [c \in Calls |-> IF nap[c] > 0 THEN nap[c] - 1 ELSE 0]
  /\ clock' = [c \in Calls |-> IF pc[c] \in Running /\ clock[c] < deadline[c]
                               THEN clock[c] + 1 ELSE clock[c]]
  /\ inTime' = [c \in Calls |-> \/ inTime[c]
                                \/ /\ pc[c] \in Running /\ clock[c] < deadline[c]
                                   /\ order[named[c]] \in Over]
  /\ UNCHANGED <<where, order, known, pc, tool, named, heard, listed, result, deadline, slept,
                 stayed>>

Next ==
  \/ \E c \in Calls : Begin(c) \/ CallStep(c) \/ Serve(c)
  \/ \E o \in Orders : Move(o)
  \/ Place \/ Restart \/ Tick

(* The client gives every request a time-out, and time passes.             *)
Spec ==
  /\ Init /\ [][Next]_vars
  /\ \A c \in Calls : WF_vars(CallStep(c))
  /\ WF_vars(Tick)

-----------------------------------------------------------------------------
(* Properties.                                                             *)

(* The types of the variables.                                             *)
TypeOK ==
  /\ where \in Venues
  /\ order \in [Orders -> {"none"} \cup Open \cup Over] /\ known \subseteq Orders
  /\ pc \in [Calls -> {"idle", "done"} \cup Running]
  /\ tool \in [Calls -> {"cancel", "status", "wait"}] /\ named \in [Calls -> Orders]
  /\ heard \in [Calls -> IbkrWords \cup CcxtWords \cup {Silent}]
  /\ listed \in [Calls -> SUBSET Orders]
  /\ result \in [Calls -> {"none", "unknown order", "error", "submitted", "pending",
                           "filled", "cancelled", "rejected", "inactive", "unknown"}]
  /\ deadline \in [Calls -> 0 .. MaxTimeout]
  /\ slept \in [Calls -> 0 .. MaxTimeout + Poll] /\ nap \in [Calls -> 0 .. Poll]
  /\ clock \in [Calls -> 0 .. MaxTimeout] /\ inTime \in [Calls -> BOOLEAN]
  /\ stayed \in [Calls -> BOOLEAN]

(* "Never claim a false cancel" (the comment in cancel_order), nor a false *)
(* fill or rejection: what was reported for good is true, however long the *)
(* answer took and whatever other calls did meanwhile.                     *)
VerdictsHold ==
  \A c \in Calls : pc[c] = "done" =>
    /\ result[c] \in {"filled", "cancelled"} => order[named[c]] = result[c]
    /\ result[c] = "rejected" => order[named[c]] = "dead"

(* An order whose cancellation, or status, is refused as unknown was not   *)
(* open all the while, even just after a restart: a stop can be pulled     *)
(* (_symbol_for repopulates the cache).                                    *)
OpenIsKnown == \A c \in Calls : result[c] = "unknown order" => ~stayed[c]

(* A wait that says it timed out did not miss an order that was over       *)
(* before its deadline, unless its last answer said nothing.               *)
SeenInTime ==
  \A c \in Calls :
    /\ pc[c] = "done" /\ tool[c] = "wait"
    /\ result[c] \in {"submitted", "pending"}
    => ~inTime[c]

(* Every call ends, a wait too whose order never does.                     *)
CallsEnd == \A c \in Calls : pc[c] \in Running ~> pc[c] \notin Running
=============================================================================
