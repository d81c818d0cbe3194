------------------------- MODULE OrderWatchProofs ---------------------------
(***************************************************************************)
(* OrderWatch, for any calls, orders, time-outs and poll interval: what is *)
(* reported for good is true, an order that stayed open is known, and a    *)
(* wait that timed out did not miss an end before its deadline.            *)
(***************************************************************************)
EXTENDS OrderWatch, TLAPS

Verdicts == {"submitted", "pending", "filled", "cancelled", "rejected", "inactive", "unknown"}
States == {"none"} \cup Open \cup Over

(* A call sleeps only if it may poll again.                                *)
SleepInv == \A c \in Calls : pc[c] = "sleeping" => slept[c] < deadline[c]

TypeInv == TypeOK /\ SleepInv

(* The words name a status.                                                *)
LEMMA StatusType ==
  ASSUME NEW word
  PROVE  MapStatus(word) \in Verdicts /\ CancelStatus(word) \in Verdicts
<1>1. MapStatus(word) \in Verdicts
  BY DEF MapStatus, Verdicts
<1> QED BY <1>1 DEF CancelStatus, Verdicts

(* What each venue calls an order.                                         *)
LEMMA WordsType ==
  ASSUME NEW state
  PROVE  WordsFor(state) \subseteq IbkrWords \cup CcxtWords
<1>1. CASE where = "IBKR"
  BY <1>1 DEF WordsFor, IbkrWords, Over
<1>2. CASE where # "IBKR"
  BY <1>2 DEF WordsFor, CcxtWords
<1> QED BY <1>1, <1>2

LEMMA CappedType ==
  ASSUME NEW timeout \in Int
  PROVE  Capped(timeout) \in 0 .. MaxTimeout
BY WatchAssumption DEF Capped

(* The ranges of the numbers.                                              *)
LEMMA Ranges ==
  /\ 0 \in 0 .. MaxTimeout /\ 0 \in 0 .. MaxTimeout + Poll /\ 0 \in 0 .. Poll
  /\ Poll \in 0 .. Poll
  /\ \A n \in 0 .. Poll : n > 0 => n - 1 \in 0 .. Poll
  /\ \A d \in 0 .. MaxTimeout, n \in 0 .. MaxTimeout + Poll :
       n < d => n + Poll \in 0 .. MaxTimeout + Poll
  /\ \A d \in 0 .. MaxTimeout, n \in 0 .. MaxTimeout : n < d => n + 1 \in 0 .. MaxTimeout
BY WatchAssumption

LEMMA ReturnType ==
  ASSUME TypeInv, NEW c \in Calls, NEW verdict \in Verdicts \cup {"unknown order", "error"},
         Return(c, verdict), known' \subseteq Orders
  PROVE  TypeInv'
<1> USE DEF TypeInv, TypeOK, Return
<1>1. /\ deadline' \in [Calls -> 0 .. MaxTimeout] /\ slept' \in [Calls -> 0 .. MaxTimeout + Poll]
      /\ nap' \in [Calls -> 0 .. Poll] /\ clock' \in [Calls -> 0 .. MaxTimeout]
  BY Ranges
<1>2. pc' = [pc EXCEPT ![c] = "done"] /\ pc' \in [Calls -> {"idle", "done"} \cup Running]
  BY DEF Goto
<1>3. /\ result' \in [Calls -> {"none", "unknown order", "error"} \cup Verdicts]
      /\ UNCHANGED <<where, order, tool, named, inTime, stayed>>
  BY DEF Verdicts
<1>4. /\ heard' \in [Calls -> IbkrWords \cup CcxtWords \cup {Silent}]
      /\ listed' \in [Calls -> SUBSET Orders]
  OBVIOUS
<1>5. TypeOK'
  BY <1>1, <1>2, <1>3, <1>4 DEF Verdicts
<1>6. SleepInv'
  BY <1>2 DEF SleepInv
<1> QED BY <1>5, <1>6

LEMMA BecomesType ==
  ASSUME TypeInv, NEW o \in Orders, NEW states \in SUBSET States, Becomes(o, states)
  PROVE  order' \in [Orders -> States] /\ stayed' \in [Calls -> BOOLEAN]
<1>1. order' \in [Orders -> States]
  BY DEF Becomes, TypeInv, TypeOK, States
<1>2. \A c \in Calls : (stayed[c] /\ (named[c] = o => order'[o] \in Open)) \in BOOLEAN
  OBVIOUS
<1>3. stayed' = [c \in Calls |-> stayed[c] /\ (named[c] = o => order'[o] \in Open)]
  BY DEF Becomes
<1> QED BY <1>1, <1>2, <1>3

LEMMA StepType ==
  ASSUME TypeInv, [Next]_vars
  PROVE  TypeInv'
<1> USE DEF TypeInv
<1>1. ASSUME NEW c \in Calls, Begin(c) PROVE TypeInv'
  <2>1. PICK t \in {"cancel", "status", "wait"}, o \in Orders, timeout \in Timeouts :
          /\ tool' = [tool EXCEPT ![c] = t] /\ named' = [named EXCEPT ![c] = o]
          /\ Goto(c, IF IF where = "IBKR" THEN t = "cancel" ELSE o \notin known
                     THEN "symbol" ELSE "asking")
          /\ deadline' = [deadline EXCEPT ![c] = IF t = "wait" THEN Capped(timeout) ELSE 0]
          /\ stayed' = [stayed EXCEPT ![c] = where = "ccxt" /\ order[o] \in Open]
    BY <1>1 DEF Begin
  <2>2. (IF t = "wait" THEN Capped(timeout) ELSE 0) \in 0 .. MaxTimeout
    BY CappedType, WatchAssumption
  <2>3. (where = "ccxt" /\ order[o] \in Open) \in BOOLEAN
    OBVIOUS
  <2>4. pc' \in [Calls -> {"idle", "done"} \cup Running] /\ pc'[c] # "sleeping"
    BY <2>1 DEF TypeOK, Goto, Running
  <2>5. stayed' \in [Calls -> BOOLEAN]
    BY <2>1, <2>3 DEF TypeOK
  <2>6. TypeOK'
    BY <1>1, <2>1, <2>2, <2>4, <2>5 DEF TypeOK, Begin
  <2>7. SleepInv'
    BY <1>1, <2>1, <2>4 DEF TypeOK, SleepInv, Begin, Goto
  <2> QED BY <2>6, <2>7
<1>2. ASSUME NEW c \in Calls, HearListing(c) PROVE TypeInv'
  <2>1. known' \subseteq Orders
    BY <1>2 DEF HearListing, Learn, TypeOK
  <2>2. CASE where = "IBKR" \/ Found(c)
    BY <1>2, <2>1, <2>2 DEF HearListing, TypeOK, SleepInv, Goto, Running, waitVars
  <2> QED BY <1>2, <2>1, <2>2, ReturnType DEF HearListing
<1>3. ASSUME NEW c \in Calls, ListingFails(c) PROVE TypeInv'
  BY <1>3 DEF ListingFails, TypeOK, SleepInv, Goto, Running, waitVars
<1>4. ASSUME NEW c \in Calls, HearAnswer(c) PROVE TypeInv'
  <2> DEFINE status == IF tool[c] = "cancel" THEN CancelStatus(heard[c])
                       ELSE MapStatus(heard[c])
             again == tool[c] = "wait" /\ status \notin TerminalStatuses /\ MayPoll(c)
  <2>1. known' \subseteq Orders
    BY <1>4 DEF HearAnswer, Learn, TypeOK
  <2>2. CASE again
    <3>1. slept[c] < deadline[c]
      BY <2>2 DEF MayPoll
    <3>2. nap' \in [Calls -> 0 .. Poll]
      BY <1>4, <2>2, Ranges DEF HearAnswer, TypeOK
    <3> QED BY <1>4, <2>1, <2>2, <3>1, <3>2 DEF HearAnswer, TypeOK, SleepInv, Goto, Running
  <2>3. CASE ~again
    BY <1>4, <2>1, <2>3, StatusType, ReturnType DEF HearAnswer
  <2> QED BY <2>2, <2>3
<1>5. ASSUME NEW c \in Calls, Wake(c) PROVE TypeInv'
  <2>1. slept[c] + Poll \in 0 .. MaxTimeout + Poll
    BY <1>5, Ranges DEF Wake, TypeOK, SleepInv
  <2>2. slept' \in [Calls -> 0 .. MaxTimeout + Poll]
    BY <1>5, <2>1 DEF Wake, Slept, TypeOK
  <2> QED BY <1>5, <2>2 DEF Wake, Slept, TypeOK, SleepInv, Goto, Running
<1>6. ASSUME NEW c \in Calls, Raise(c) PROVE TypeInv'
  BY <1>6, ReturnType DEF Raise, TypeOK
<1>7. ASSUME NEW c \in Calls, ServeListing(c) PROVE TypeInv'
  BY <1>7 DEF ServeListing, TypeOK, SleepInv, Goto, Running, waitVars
<1>8. ASSUME NEW c \in Calls, ServeRequest(c) PROVE TypeInv'
  <2>1. order' \in [Orders -> States] /\ stayed' \in [Calls -> BOOLEAN]
    <3>1. CASE tool[c] = "cancel" /\ order[named[c]] \in Open
      <4>1. {order[named[c]], "cancelling", "cancelled"} \in SUBSET States
        BY <3>1 DEF States, Open, Over
      <4>2. named[c] \in Orders
        BY DEF TypeOK
      <4> QED BY <1>8, <3>1, <4>1, <4>2, BecomesType DEF ServeRequest
    <3>2. CASE ~(tool[c] = "cancel" /\ order[named[c]] \in Open)
      BY <1>8, <3>2 DEF ServeRequest, TypeOK, States
    <3> QED BY <3>1, <3>2
  <2>2. PICK word \in WordsFor(order'[named[c]]) \cup {Silent} :
          heard' = [heard EXCEPT ![c] = word]
    BY <1>8 DEF ServeRequest
  <2>3. word \in IbkrWords \cup CcxtWords \cup {Silent}
    BY WordsType
  <2> QED BY <1>8, <2>1, <2>2, <2>3
       DEF ServeRequest, TypeOK, SleepInv, Goto, Running, States, waitVars
<1>9. ASSUME NEW o \in Orders, Move(o) PROVE TypeInv'
  <2>1. \E states \in SUBSET States : Becomes(o, states)
    BY <1>9 DEF Move, States, Open, Over
  <2>2. order' \in [Orders -> States] /\ stayed' \in [Calls -> BOOLEAN]
    BY <2>1, BecomesType
  <2> QED BY <1>9, <2>2 DEF Move, TypeOK, SleepInv, States, callVars, waitVars
<1>10. CASE Place
  BY <1>10 DEF Place, Learn, TypeOK, SleepInv, callVars, waitVars
<1>11. CASE Restart
  BY <1>11, Ranges DEF Restart, TypeOK, SleepInv
<1>12. CASE Tick
  <2>1. \A c \in Calls : inTime'[c] \in BOOLEAN
    BY <1>12 DEF Tick
  <2>2. inTime' \in [Calls -> BOOLEAN]
    BY <1>12, <2>1 DEF Tick
  <2>3. nap' \in [Calls -> 0 .. Poll]
    BY <1>12, Ranges DEF Tick, TypeOK
  <2>4. \A c \in Calls : clock[c] < deadline[c] => clock[c] + 1 \in 0 .. MaxTimeout
    BY Ranges DEF TypeOK
  <2>5. clock' \in [Calls -> 0 .. MaxTimeout]
    BY <1>12, <2>4 DEF Tick, TypeOK
  <2> QED BY <1>12, <2>2, <2>3, <2>5 DEF Tick, TypeOK, SleepInv
<1>13. CASE UNCHANGED vars
  BY <1>13 DEF vars, callVars, waitVars, TypeOK, SleepInv
<1> QED BY <1>1, <1>2, <1>3, <1>4, <1>5, <1>6, <1>7, <1>8, <1>9, <1>10, <1>11, <1>12, <1>13
     DEF Next, CallStep, Serve

LEMMA InitType == Init => TypeInv
<1>1. (CHOOSE o \in Orders : TRUE) \in Orders
  BY WatchAssumption
<1> QED BY <1>1, WatchAssumption
     DEF Init, TypeInv, TypeOK, SleepInv, Open, Over, IbkrWords, CcxtWords

(* The variables of OrderWatch keep their types; a wait is counted up to   *)
(* one poll past _WAIT_MAX_TIMEOUT and no further.                         *)
THEOREM TypeCorrect == Spec => []TypeOK
<1>1. TypeInv => TypeOK
  BY DEF TypeInv
<1> QED BY <1>1, InitType, StepType, PTL DEF Spec

-----------------------------------------------------------------------------
(* What a step leaves alone.                                               *)

Same(c) ==
  /\ pc'[c] = pc[c] /\ tool'[c] = tool[c] /\ named'[c] = named[c] /\ heard'[c] = heard[c]
  /\ listed'[c] = listed[c] /\ result'[c] = result[c]
  /\ deadline'[c] = deadline[c] /\ slept'[c] = slept[c]

Still(c) == clock'[c] = clock[c] /\ nap'[c] = nap[c] /\ inTime'[c] = inTime[c]

(* What a call knows changes by its own steps and by a restart.            *)
LEMMA CallFrame ==
  ASSUME TypeInv, [Next]_vars, NEW c \in Calls
  PROVE  \/ Begin(c) \/ CallStep(c) \/ Serve(c) \/ Restart
         \/ Same(c) /\ (Tick \/ Still(c))
<1> USE DEF TypeInv, TypeOK, Same, Still
<1>1. ASSUME NEW d \in Calls, d # c, Begin(d) PROVE Same(c) /\ Still(c)
  BY <1>1 DEF Begin, Goto
<1>2. ASSUME NEW d \in Calls, d # c, NEW verdict, Return(d, verdict) PROVE Same(c) /\ Still(c)
  BY <1>2 DEF Return, Goto
<1>3. ASSUME NEW d \in Calls, d # c, CallStep(d) PROVE Same(c) /\ Still(c)
  <2>1. CASE HearListing(d)
    BY <2>1, <1>2, <1>3 DEF HearListing, Goto, waitVars
  <2>2. CASE HearAnswer(d)
    <3> DEFINE status == IF tool[d] = "cancel" THEN CancelStatus(heard[d])
                         ELSE MapStatus(heard[d])
               again == tool[d] = "wait" /\ status \notin TerminalStatuses /\ MayPoll(d)
    <3>1. CASE again
      BY <2>2, <1>3, <3>1 DEF HearAnswer, Goto
    <3>2. CASE ~again
      BY <2>2, <1>2, <1>3, <3>2 DEF HearAnswer
    <3> QED BY <3>1, <3>2
  <2>3. CASE ListingFails(d) \/ Wake(d)
    BY <2>3, <1>3 DEF ListingFails, Wake, Slept, Goto, waitVars
  <2>4. CASE Raise(d)
    BY <2>4, <1>2, <1>3 DEF Raise
  <2> QED BY <1>3, <2>1, <2>2, <2>3, <2>4 DEF CallStep
<1>4. ASSUME NEW d \in Calls, d # c, Serve(d) PROVE Same(c) /\ Still(c)
  BY <1>4 DEF Serve, ServeListing, ServeRequest, Goto, waitVars
<1>5. ASSUME NEW o \in Orders, Move(o) PROVE Same(c) /\ Still(c)
  BY <1>5 DEF Move, callVars, waitVars
<1>6. CASE Tick
  BY <1>6 DEF Tick
<1>7. CASE Place \/ UNCHANGED vars
  BY <1>7 DEF Place, vars, callVars, waitVars
<1> HIDE DEF Same, Still, TypeInv, TypeOK
<1>8. ASSUME NEW d \in Calls, Begin(d) \/ CallStep(d) \/ Serve(d)
      PROVE  Begin(c) \/ CallStep(c) \/ Serve(c) \/ (Same(c) /\ Still(c))
  <2>1. CASE d = c
    BY <1>8, <2>1
  <2>2. CASE d # c
    BY <1>1, <1>3, <1>4, <1>8, <2>2
  <2> QED BY <2>1, <2>2
<1> QED BY <1>5, <1>6, <1>7, <1>8 DEF Next

(* An order goes on only while it is open; one that is over stays as it is.*)
Onward(o) ==
  /\ order[o] \in Over => order'[o] = order[o]
  /\ order[o] # "none" => order'[o] # "none"

LEMMA OrderFrame ==
  ASSUME TypeInv, [Next]_vars, NEW o \in Orders
  PROVE  Onward(o) /\ where' = where
<1> USE DEF TypeInv, TypeOK, Onward
<1>1. ASSUME NEW p \in Orders, Move(p) PROVE Onward(o) /\ where' = where
  BY <1>1 DEF Move, Becomes, Over, Open
<1>2. ASSUME NEW c \in Calls, ServeRequest(c) PROVE Onward(o) /\ where' = where
  <2>1. CASE tool[c] = "cancel" /\ order[named[c]] \in Open
    BY <1>2, <2>1 DEF ServeRequest, Becomes, Over, Open
  <2> QED BY <1>2, <2>1 DEF ServeRequest
<1>3. ASSUME NEW c \in Calls, Begin(c) \/ CallStep(c) \/ ServeListing(c)
      PROVE  Onward(o) /\ where' = where
  <2>1. UNCHANGED <<where, order>>
    BY <1>3 DEF Begin, CallStep, HearListing, ListingFails, HearAnswer, Wake, Raise, Return,
                ServeListing
  <2> QED BY <2>1
<1>4. CASE Place \/ Restart \/ Tick \/ UNCHANGED vars
  BY <1>4 DEF Place, Restart, Tick, vars
<1> QED BY <1>1, <1>2, <1>3, <1>4 DEF Next, Serve

-----------------------------------------------------------------------------
(* No false verdict.                                                       *)

(* The answer to a cancellation never says that it is pending.             *)
PlainCancels == "pendingcancel" \notin CancelWords

(* A call is about an order that was placed.                               *)
NamedInv == \A c \in Calls : pc[c] \in Running => order[named[c]] # "none"

(* The verdict that a status gives on an order.                            *)
TrueOf(status, state) ==
  /\ status \in {"filled", "cancelled"} => state = status
  /\ status = "rejected" => state = "dead"

(* An answer on its way is still true where it is a verdict.               *)
HeardInv ==
  \A c \in Calls : pc[c] = "answered" =>
    /\ TrueOf(MapStatus(heard[c]), order[named[c]])
    /\ tool[c] = "cancel" => TrueOf(CancelStatus(heard[c]), order[named[c]])

VerdictInv == NamedInv /\ HeardInv /\ VerdictsHold

(* A venue's word for a state gives a true verdict on it.                  *)
LEMMA WordsAreTrue ==
  ASSUME TypeInv, NEW state \in Open \cup Over, NEW word \in WordsFor(state) \cup {Silent}
  PROVE  /\ TrueOf(MapStatus(word), state)
         /\ word # "pendingcancel" => TrueOf(CancelStatus(word), state)
<1>1. CASE word = Silent
  <2>1. Silent \notin IbkrWords \cup CcxtWords
    BY WatchAssumption
  <2>2. MapStatus(word) = "unknown" /\ CancelStatus(word) \in {"pending", "unknown"}
    BY <1>1, <2>1 DEF MapStatus, CancelStatus, IbkrWords, CcxtWords
  <2> QED BY <2>2 DEF TrueOf
<1>2. CASE word \in WordsFor(state) /\ where = "IBKR"
  BY <1>2 DEF WordsFor, MapStatus, CancelStatus, TrueOf, Open, Over
<1>3. CASE word \in WordsFor(state) /\ where # "IBKR"
  BY <1>3, WatchAssumption
     DEF WordsFor, MapStatus, CancelStatus, TrueOf, Open, Over, TypeInv, TypeOK
<1> QED BY <1>1, <1>2, <1>3

(* What a call says when it is through.                                    *)
VerdictOf(c) == IF tool[c] = "cancel" THEN CancelStatus(heard[c]) ELSE MapStatus(heard[c])

LEMMA HearAnswerEnds ==
  ASSUME TypeInv, NEW c \in Calls, HearAnswer(c)
  PROVE  \/ pc'[c] = "sleeping" /\ named'[c] = named[c]
         \/ pc'[c] = "done" /\ named'[c] = named[c] /\ result'[c] = VerdictOf(c)
<1> DEFINE again == tool[c] = "wait" /\ VerdictOf(c) \notin TerminalStatuses /\ MayPoll(c)
<1>1. CASE again
  BY <1>1 DEF HearAnswer, VerdictOf, Goto, TypeInv, TypeOK
<1>2. CASE ~again
  <2>1. Return(c, VerdictOf(c))
    BY <1>2 DEF HearAnswer, VerdictOf
  <2> QED BY <2>1 DEF Return, Goto, TypeInv, TypeOK
<1> QED BY <1>1, <1>2

LEMMA VerdictStep ==
  ASSUME PlainCancels, TypeInv, TypeInv', VerdictInv, [Next]_vars
  PROVE  VerdictInv'
<1> DEFINE Good(c) == /\ pc[c] \in Running => order[named[c]] # "none"
                      /\ pc[c] = "answered" =>
                           /\ TrueOf(MapStatus(heard[c]), order[named[c]])
                           /\ tool[c] = "cancel" => TrueOf(CancelStatus(heard[c]), order[named[c]])
                      /\ pc[c] = "done" => TrueOf(result[c], order[named[c]])
<1>1. (\A c \in Calls : Good(c)) => VerdictInv
  BY DEF VerdictInv, NamedInv, HeardInv, VerdictsHold, TrueOf
<1>2. VerdictInv => \A c \in Calls : Good(c)
  BY DEF VerdictInv, NamedInv, HeardInv, VerdictsHold, TrueOf
<1>3. SUFFICES ASSUME NEW c \in Calls PROVE Good(c)'
  <2>1. (\A c \in Calls : Good(c)') => VerdictInv'
    BY DEF VerdictInv, NamedInv, HeardInv, VerdictsHold, TrueOf
  <2> QED BY <2>1
<1>4. Good(c) /\ named[c] \in Orders /\ named'[c] \in Orders
  BY <1>2 DEF TypeInv, TypeOK
<1>5. \A o \in Orders : Onward(o) /\ where' = where
  BY OrderFrame
<1>6. \A status : TrueOf(status, order[named[c]]) => TrueOf(status, order'[named[c]])
  BY <1>4, <1>5 DEF TrueOf, Onward, Over
<1>7. CASE Begin(c)
  <2>1. PICK o \in Orders :
          /\ order[o] # "none" /\ named' = [named EXCEPT ![c] = o]
          /\ pc'[c] \in {"symbol", "asking"}
    BY <1>7 DEF Begin, Goto, TypeInv, TypeOK
  <2> QED BY <2>1, <1>7, <1>5 DEF Begin, Onward, TypeInv, TypeOK
<1>8. CASE HearListing(c) \/ ListingFails(c) \/ Wake(c) \/ Raise(c)
  <2>1. /\ pc[c] \in Running /\ named'[c] = named[c]
        /\ \/ pc'[c] \in {"asking"}
           \/ pc'[c] = "done" /\ result'[c] \in {"unknown order", "error"}
    <3>1. CASE ListingFails(c) \/ Wake(c)
      BY <3>1 DEF ListingFails, Wake, Goto, Running, TypeInv, TypeOK
    <3>2. CASE Raise(c)
      BY <3>2 DEF Raise, Return, Goto, TypeInv, TypeOK
    <3>3. CASE HearListing(c)
      <4>1. CASE where = "IBKR" \/ Found(c)
        BY <3>3, <4>1 DEF HearListing, Goto, Running, TypeInv, TypeOK
      <4>2. CASE ~(where = "IBKR" \/ Found(c))
        <5>1. Return(c, "unknown order")
          BY <3>3, <4>2 DEF HearListing
        <5>2. pc[c] \in Running
          BY <3>3 DEF HearListing, Running
        <5> QED BY <5>1, <5>2 DEF Return, Goto, TypeInv, TypeOK
      <4> QED BY <4>1, <4>2
    <3> QED BY <1>8, <3>1, <3>2, <3>3
  <2> QED BY <2>1, <1>4, <1>5 DEF TrueOf, Onward, Running
<1>9. CASE HearAnswer(c)
  <2>1. TrueOf(VerdictOf(c), order[named[c]])
    BY <1>9, <1>4 DEF HearAnswer, VerdictOf
  <2>2. pc[c] \in Running
    BY <1>9 DEF HearAnswer, Running
  <2>3. CASE pc'[c] = "sleeping" /\ named'[c] = named[c]
    BY <2>2, <2>3, <1>4, <1>5 DEF Onward
  <2>4. CASE pc'[c] = "done" /\ named'[c] = named[c] /\ result'[c] = VerdictOf(c)
    BY <2>1, <2>4, <1>6 DEF Running
  <2> QED BY <1>9, <2>3, <2>4, HearAnswerEnds
<1>10. CASE ServeListing(c)
  BY <1>10, <1>4, <1>5 DEF ServeListing, Goto, Running, Onward, TypeInv, TypeOK
<1>11. CASE ServeRequest(c)
  <2>1. pc[c] = "asking" /\ pc'[c] = "answered" /\ UNCHANGED <<named, tool, where>>
    BY <1>11 DEF ServeRequest, Goto, TypeInv, TypeOK
  <2>2. order'[named[c]] \in Open \cup Over
    BY <2>1, <1>4, <1>5 DEF Onward, Running, TypeInv, TypeOK
  <2>3. PICK word \in WordsFor(order'[named[c]]) \cup {Silent} :
          /\ tool[c] = "cancel" /\ where = "IBKR" => word \in CancelWords
          /\ heard' = [heard EXCEPT ![c] = word]
    BY <1>11 DEF ServeRequest
  <2>4. /\ TrueOf(MapStatus(word), order'[named[c]])
        /\ word # "pendingcancel" => TrueOf(CancelStatus(word), order'[named[c]])
    BY <2>2, WordsAreTrue
  <2>5. heard'[c] = word
    BY <2>3 DEF TypeInv, TypeOK
  <2>6. tool[c] = "cancel" => word # "pendingcancel"
    <3>1. CASE where = "IBKR"
      BY <2>3, <3>1 DEF PlainCancels
    <3>2. CASE where # "IBKR"
      <4>1. word \in CcxtWords \cup {Silent}
        BY <2>3, <3>2 DEF WordsFor, CcxtWords
      <4> QED BY <4>1, WatchAssumption DEF CcxtWords, IbkrWords
    <3> QED BY <3>1, <3>2
  <2>7. CancelStatus(heard[c])' = CancelStatus(word)
    BY <2>1, <2>5 DEF CancelStatus
  <2> QED BY <2>1, <2>2, <2>4, <2>5, <2>6, <2>7 DEF Open, Over
<1>12. CASE Restart
  BY <1>12 DEF Restart, Running
<1>13. CASE Same(c)
  <2>1. CancelStatus(heard[c])' = CancelStatus(heard[c])
    BY <1>13, <1>5, <1>4 DEF CancelStatus, Same
  <2> QED BY <2>1, <1>13, <1>4, <1>5, <1>6 DEF Same, Onward
<1> QED BY <1>7, <1>8, <1>9, <1>10, <1>11, <1>12, <1>13, CallFrame DEF CallStep, Serve

(* If IBKR never answers a cancellation with "pending cancel", what a tool *)
(* reports for good (filled, cancelled, rejected) is true of the order.    *)
THEOREM NoFalseVerdict == PlainCancels => (Spec => []VerdictsHold)
<1>1. Init => VerdictInv
  BY DEF Init, VerdictInv, NamedInv, HeardInv, VerdictsHold, Running
<1>2. VerdictInv => VerdictsHold
  BY DEF VerdictInv
<1>3. PlainCancels /\ TypeInv /\ TypeInv' /\ VerdictInv /\ [Next]_vars => VerdictInv'
  BY VerdictStep
<1>4. ASSUME PlainCancels PROVE Spec => []VerdictsHold
  <2>1. TypeInv /\ TypeInv' /\ VerdictInv /\ [Next]_vars => VerdictInv'
    BY <1>3, <1>4
  <2> QED BY <1>1, <1>2, <2>1, InitType, StepType, PTL DEF Spec
<1> QED BY <1>4

-----------------------------------------------------------------------------
(* An order that stayed open is known.                                     *)

(* It is open on the CCXT venue, and in any listing made for the call.     *)
StayInv ==
  \A c \in Calls : stayed[c] =>
    /\ where = "ccxt" /\ order[named[c]] \in Open
    /\ pc[c] = "found" => named[c] \in listed[c]

KnownInv == StayInv /\ OpenIsKnown

(* No step but the call's own beginning says that its order stayed open.   *)
LEMMA StayFrame ==
  ASSUME TypeInv, [Next]_vars, NEW c \in Calls, ~Begin(c), stayed'[c]
  PROVE  /\ stayed[c] /\ named'[c] = named[c]
         /\ order[named[c]] \in Open => order'[named[c]] \in Open
<1>1. ASSUME NEW o \in Orders, NEW states, Becomes(o, states)
      PROVE  stayed[c] /\ (order[named[c]] \in Open => order'[named[c]] \in Open)
  <2>1. stayed'[c] = (stayed[c] /\ (named[c] = o => order'[o] \in Open))
    BY <1>1 DEF Becomes
  <2>2. named[c] # o => order'[named[c]] = order[named[c]]
    BY <1>1 DEF Becomes, TypeInv, TypeOK
  <2> QED BY <2>1, <2>2
<1>2. ASSUME NEW o \in Orders, Move(o)
      PROVE  stayed[c] /\ (order[named[c]] \in Open => order'[named[c]] \in Open) /\ named' = named
  <2>1. \E states : Becomes(o, states)
    BY <1>2 DEF Move
  <2> QED BY <2>1, <1>1, <1>2 DEF Move, callVars
<1>3. ASSUME NEW d \in Calls, ServeRequest(d)
      PROVE  stayed[c] /\ (order[named[c]] \in Open => order'[named[c]] \in Open) /\ named' = named
  <2>1. UNCHANGED named /\ named[d] \in Orders
    BY <1>3 DEF ServeRequest, TypeInv, TypeOK
  <2>2. CASE tool[d] = "cancel" /\ order[named[d]] \in Open
    BY <2>1, <2>2, <1>1, <1>3 DEF ServeRequest
  <2>3. CASE ~(tool[d] = "cancel" /\ order[named[d]] \in Open)
    BY <2>1, <2>3, <1>3 DEF ServeRequest
  <2> QED BY <2>2, <2>3
<1>4. ASSUME NEW d \in Calls, d # c, Begin(d)
      PROVE  stayed[c] /\ order' = order /\ named'[c] = named[c]
  <2>1. PICK o \in Orders, b \in BOOLEAN :
          stayed' = [stayed EXCEPT ![d] = b] /\ named' = [named EXCEPT ![d] = o]
    BY <1>4 DEF Begin
  <2> QED BY <1>4, <2>1 DEF Begin, TypeInv, TypeOK
<1>5. ASSUME NEW d \in Calls, CallStep(d) \/ ServeListing(d)
      PROVE  UNCHANGED <<order, named, stayed>>
  BY <1>5 DEF CallStep, HearListing, ListingFails, HearAnswer, Wake, Raise, Return, ServeListing
<1>6. CASE Place \/ Tick \/ UNCHANGED vars
  BY <1>6 DEF Place, Tick, vars, callVars
<1>7. CASE Restart
  BY <1>7 DEF Restart
<1> QED BY <1>2, <1>3, <1>4, <1>5, <1>6, <1>7 DEF Next, Serve

LEMMA KnownStep ==
  ASSUME TypeInv, TypeInv', KnownInv, [Next]_vars
  PROVE  KnownInv'
<1> SUFFICES ASSUME NEW c \in Calls, stayed'[c]
             PROVE  /\ (where = "ccxt" /\ order[named[c]] \in Open)'
                    /\ (pc[c] = "found" => named[c] \in listed[c])'
                    /\ result'[c] # "unknown order"
  BY DEF KnownInv, StayInv, OpenIsKnown
<1>1. CASE Begin(c)
  <2>1. PICK o \in Orders :
          /\ named' = [named EXCEPT ![c] = o] /\ pc'[c] \in {"symbol", "asking"}
          /\ stayed' = [stayed EXCEPT ![c] = where = "ccxt" /\ order[o] \in Open]
    BY <1>1 DEF Begin, Goto, TypeInv, TypeOK
  <2>2. stayed'[c] = (where = "ccxt" /\ order[o] \in Open) /\ named'[c] = o
    BY <2>1 DEF TypeInv, TypeOK
  <2> QED BY <1>1, <2>1, <2>2 DEF Begin, TypeInv, TypeOK
<1>2. CASE ~Begin(c)
  <2>1. /\ stayed[c] /\ named'[c] = named[c] /\ where' = where
        /\ order[named[c]] \in Open => order'[named[c]] \in Open
    BY <1>2, StayFrame, OrderFrame DEF TypeInv, TypeOK
  <2>2. where = "ccxt" /\ order[named[c]] \in Open /\ result[c] # "unknown order"
    BY <2>1 DEF KnownInv, StayInv, OpenIsKnown
  <2>3. pc[c] = "found" => named[c] \in listed[c]
    BY <2>1 DEF KnownInv, StayInv
  <2>4. CASE HearListing(c)
    <3>1. named[c] \in known'
      BY <2>2, <2>3, <2>4 DEF HearListing, Learn
    <3> QED BY <2>1, <2>2, <2>4, <3>1 DEF HearListing, Found, Goto, TypeInv, TypeOK
  <2>5. CASE ListingFails(c) \/ Wake(c)
    BY <2>1, <2>2, <2>5 DEF ListingFails, Wake, Goto, TypeInv, TypeOK
  <2>6. CASE Raise(c)
    BY <2>1, <2>2, <2>6 DEF Raise, Return, Goto, TypeInv, TypeOK
  <2>7. CASE HearAnswer(c)
    <3>1. VerdictOf(c) # "unknown order"
      BY StatusType DEF VerdictOf, Verdicts
    <3>2. pc'[c] = "sleeping" => result' = result
      BY <2>7 DEF HearAnswer, Return, Goto, TypeInv, TypeOK
    <3> QED BY <2>1, <2>2, <2>7, <3>1, <3>2, HearAnswerEnds
  <2>8. CASE ServeListing(c)
    BY <2>1, <2>2, <2>8 DEF ServeListing, Goto, TypeInv, TypeOK
  <2>9. CASE ServeRequest(c)
    BY <2>1, <2>2, <2>9 DEF ServeRequest, Goto, TypeInv, TypeOK
  <2>10. CASE Restart
    BY <2>1, <2>10 DEF Restart
  <2>11. CASE Same(c)
    BY <2>1, <2>2, <2>3, <2>11 DEF Same
  <2> QED BY <1>2, <2>4, <2>5, <2>6, <2>7, <2>8, <2>9, <2>10, <2>11, CallFrame
       DEF CallStep, Serve
<1> QED BY <1>1, <1>2

(* Whatever was forgotten, an order that stays open is not refused as      *)
(* unknown: a stop can be pulled.                                          *)
THEOREM OpenOrdersAreKnown == Spec => []OpenIsKnown
<1>1. Init => KnownInv
  BY DEF Init, KnownInv, StayInv, OpenIsKnown
<1>2. KnownInv => OpenIsKnown
  BY DEF KnownInv
<1> QED BY <1>1, <1>2, InitType, StepType, KnownStep, PTL DEF Spec

-----------------------------------------------------------------------------
(* A wait sees an end before its deadline.                                 *)

(* The clock runs at least as fast as the sleeps are counted, up to the    *)
(* deadline.                                                               *)
ClockInv ==
  \A c \in Calls :
    /\ pc[c] \notin Running => slept[c] = 0
    /\ pc[c] \in Running =>
         \/ clock[c] >= deadline[c]
         \/ clock[c] >= slept[c] + (IF pc[c] = "sleeping" THEN Poll - nap[c] ELSE 0)

(* What was over is over.                                                  *)
EndedInv == \A c \in Calls : inTime[c] => order[named[c]] \in Over

(* The last answer, if it says that the order goes on, is right about the  *)
(* whole of the time before the deadline.                                  *)
Ongoing == {"submitted", "pending"}
LastInv ==
  \A c \in Calls :
    pc[c] = "answered" /\ tool[c] = "wait" /\ MapStatus(heard[c]) \in Ongoing /\ ~MayPoll(c)
    => ~inTime[c]

TimeInv == ClockInv /\ EndedInv /\ LastInv /\ SeenInTime

(* Only an open order is said to go on.                                    *)
LEMMA OngoingIsOpen ==
  ASSUME TypeInv, NEW state, NEW word \in WordsFor(state) \cup {Silent},
         MapStatus(word) \in Ongoing
  PROVE  state \notin Over
<1>1. word # Silent
  BY WatchAssumption DEF MapStatus, Ongoing, IbkrWords, CcxtWords
<1>2. CASE where = "IBKR"
  BY <1>1, <1>2 DEF WordsFor, MapStatus, Ongoing, Over
<1>3. CASE where # "IBKR"
  BY <1>1, <1>3 DEF WordsFor, MapStatus, Ongoing, Over, Open
<1> QED BY <1>2, <1>3

(* The numbers of a call.                                                  *)
LEMMA Numbers ==
  ASSUME TypeOK, NEW c \in Calls
  PROVE  /\ clock[c] \in Nat /\ slept[c] \in Nat /\ nap[c] \in 0 .. Poll /\ deadline[c] \in Nat
         /\ Poll \in Nat \ {0}
<1>1. /\ clock \in [Calls -> 0 .. MaxTimeout] /\ slept \in [Calls -> 0 .. MaxTimeout + Poll]
      /\ nap \in [Calls -> 0 .. Poll] /\ deadline \in [Calls -> 0 .. MaxTimeout]
  BY DEF TypeOK
<1>2. MaxTimeout \in Nat /\ Poll \in Nat \ {0}
  BY WatchAssumption
<1> QED BY <1>1, <1>2

LEMMA NumbersNext ==
  ASSUME TypeOK', NEW c \in Calls
  PROVE  /\ clock'[c] \in Nat /\ slept'[c] \in Nat /\ nap'[c] \in 0 .. Poll
         /\ deadline'[c] \in Nat
<1>1. /\ clock' \in [Calls -> 0 .. MaxTimeout] /\ slept' \in [Calls -> 0 .. MaxTimeout + Poll]
      /\ nap' \in [Calls -> 0 .. Poll] /\ deadline' \in [Calls -> 0 .. MaxTimeout]
  BY DEF TypeOK
<1>2. MaxTimeout \in Nat /\ Poll \in Nat \ {0}
  BY WatchAssumption
<1> QED BY <1>1, <1>2

LEMMA ClockStep ==
  ASSUME TypeInv, TypeInv', ClockInv, [Next]_vars
  PROVE  ClockInv'
<1> SUFFICES ASSUME NEW c \in Calls
             PROVE  /\ pc'[c] \notin Running => slept'[c] = 0
                    /\ pc'[c] \in Running =>
                         \/ clock'[c] >= deadline'[c]
                         \/ clock'[c] >= slept'[c]
                              + (IF pc'[c] = "sleeping" THEN Poll - nap'[c] ELSE 0)
  BY DEF ClockInv
<1>1. /\ clock[c] \in Nat /\ slept[c] \in Nat /\ nap[c] \in Nat /\ deadline[c] \in Nat
      /\ clock'[c] \in Nat /\ nap'[c] \in 0 .. Poll /\ deadline'[c] \in Nat
      /\ Poll \in Nat \ {0}
  BY Numbers, NumbersNext DEF TypeInv
<1>2. CASE Begin(c)
  <2>1. pc[c] \notin Running /\ pc'[c] \in {"symbol", "asking"} /\ UNCHANGED <<slept, clock>>
    BY <1>2 DEF Begin, Goto, Running, TypeInv, TypeOK
  <2> QED BY <2>1, <1>1 DEF ClockInv, Running
<1>3. ASSUME NEW verdict, Return(c, verdict) PROVE pc'[c] \notin Running /\ slept'[c] = 0
  <2>1. DOMAIN pc = Calls /\ DOMAIN slept = Calls
    BY DEF TypeInv, TypeOK
  <2>2. pc' = [pc EXCEPT ![c] = "done"] /\ slept' = [slept EXCEPT ![c] = 0]
    BY <1>3 DEF Return, Goto
  <2> QED BY <2>1, <2>2 DEF Running
<1>4. CASE HearListing(c)
  <2>1. CASE where = "IBKR" \/ Found(c)
    <3>1. /\ pc[c] = "found" /\ pc'[c] = "asking" /\ UNCHANGED <<slept, clock, deadline>>
      BY <1>4, <2>1 DEF HearListing, Goto, waitVars, TypeInv, TypeOK
    <3> QED BY <3>1, <1>1 DEF ClockInv, Running
  <2> QED BY <1>3, <1>4, <2>1 DEF HearListing
<1>5. CASE ListingFails(c) \/ Serve(c)
  <2>1. /\ pc[c] \in Running \ {"sleeping"} /\ pc'[c] \in Running \ {"sleeping"}
        /\ UNCHANGED <<slept, clock, deadline>>
    BY <1>5 DEF ListingFails, Serve, ServeListing, ServeRequest, Goto, waitVars, Running,
                TypeInv, TypeOK
  <2> QED BY <2>1, <1>1 DEF ClockInv
<1>6. CASE HearAnswer(c)
  <2> DEFINE again == tool[c] = "wait" /\ VerdictOf(c) \notin TerminalStatuses /\ MayPoll(c)
  <2>1. CASE again
    <3>1. /\ pc[c] = "answered" /\ pc'[c] = "sleeping" /\ nap'[c] = Poll
          /\ UNCHANGED <<slept, clock, deadline>>
      BY <1>6, <2>1 DEF HearAnswer, VerdictOf, Goto, TypeInv, TypeOK
    <3> QED BY <3>1, <1>1 DEF ClockInv, Running
  <2>2. CASE ~again
    BY <1>3, <1>6, <2>2 DEF HearAnswer, VerdictOf
  <2> QED BY <2>1, <2>2
<1>7. CASE Wake(c)
  <2>1. /\ pc[c] = "sleeping" /\ pc'[c] = "asking" /\ nap[c] = 0 /\ slept'[c] = slept[c] + Poll
        /\ UNCHANGED <<clock, deadline>>
    BY <1>7 DEF Wake, Slept, Goto, TypeInv, TypeOK
  <2> QED BY <2>1, <1>1 DEF ClockInv, Running
<1>8. CASE Raise(c)
  BY <1>3, <1>8 DEF Raise
<1>9. CASE Restart
  BY <1>9 DEF Restart, Running
<1>10. CASE Same(c) /\ Tick
  <2>1. /\ nap'[c] = IF nap[c] > 0 THEN nap[c] - 1 ELSE 0
        /\ clock'[c] = IF pc[c] \in Running /\ clock[c] < deadline[c]
                       THEN clock[c] + 1 ELSE clock[c]
    BY <1>10 DEF Tick
  <2> QED BY <1>10, <2>1, <1>1 DEF ClockInv, Same
<1>11. CASE Same(c) /\ Still(c)
  BY <1>11 DEF ClockInv, Same, Still
<1> QED BY <1>2, <1>4, <1>5, <1>6, <1>7, <1>8, <1>9, <1>10, <1>11, CallFrame DEF CallStep

LEMMA TimeStep ==
  ASSUME TypeInv, TypeInv', TimeInv, [Next]_vars
  PROVE  TimeInv'
<1>1. ClockInv'
  BY ClockStep DEF TimeInv
<1> DEFINE Good(c) ==
      /\ inTime[c] => order[named[c]] \in Over
      /\ pc[c] = "answered" /\ tool[c] = "wait" /\ MapStatus(heard[c]) \in Ongoing
           /\ slept[c] >= deadline[c] => ~inTime[c]
      /\ pc[c] = "done" /\ tool[c] = "wait" /\ result[c] \in Ongoing => ~inTime[c]
<1>2. (\A c \in Calls : slept[c] \in Int /\ deadline[c] \in Int)
      /\ (\A c \in Calls : slept'[c] \in Int /\ deadline'[c] \in Int)
  BY Numbers, NumbersNext DEF TypeInv
<1>3. \A c \in Calls : Good(c)
  BY <1>2 DEF TimeInv, EndedInv, LastInv, SeenInTime, Ongoing, MayPoll
<1>4. SUFFICES ASSUME NEW c \in Calls PROVE Good(c)'
  <2>1. (\A c \in Calls : Good(c)') => (EndedInv /\ LastInv /\ SeenInTime)'
    BY <1>2 DEF EndedInv, LastInv, SeenInTime, Ongoing, MayPoll
  <2> QED BY <1>1, <2>1 DEF TimeInv
<1>5. named[c] \in Orders /\ Good(c)
  BY <1>3 DEF TypeInv, TypeOK
<1>6. order[named[c]] \in Over => order'[named[c]] \in Over
  BY <1>5, OrderFrame DEF Onward
<1>7. CASE Begin(c)
  BY <1>7 DEF Begin, TypeInv, TypeOK
<1>8. CASE HearListing(c) \/ ListingFails(c) \/ Wake(c) \/ Raise(c) \/ ServeListing(c)
  <2>1. ASSUME NEW verdict \in {"unknown order", "error"}, Return(c, verdict) PROVE Good(c)'
    BY <2>1, <1>5, <1>6 DEF Return, Goto, Ongoing, TypeInv, TypeOK
  <2>2. CASE ListingFails(c) \/ Wake(c) \/ ServeListing(c)
    BY <2>2, <1>5, <1>6 DEF ListingFails, Wake, ServeListing, Goto, waitVars, TypeInv, TypeOK
  <2>3. CASE HearListing(c)
    <3>1. CASE where = "IBKR" \/ Found(c)
      BY <2>3, <3>1, <1>5, <1>6 DEF HearListing, Goto, waitVars, TypeInv, TypeOK
    <3> QED BY <2>1, <2>3, <3>1 DEF HearListing
  <2> QED BY <1>8, <2>1, <2>2, <2>3 DEF Raise
<1>9. CASE HearAnswer(c)
  <2>1. UNCHANGED <<order, named, tool, inTime>>
    BY <1>9 DEF HearAnswer, Return
  <2>2. CASE pc'[c] = "sleeping"
    BY <2>1, <2>2, <1>5, <1>6
  <2>3. CASE pc'[c] = "done" /\ result'[c] = VerdictOf(c)
    <3>1. SUFFICES ASSUME tool[c] = "wait", MapStatus(heard[c]) \in Ongoing
                   PROVE  ~inTime[c]
      BY <2>1, <2>3, <1>5, <1>6 DEF VerdictOf
    <3>2. VerdictOf(c) \notin TerminalStatuses
      BY <3>1 DEF VerdictOf, Ongoing, TerminalStatuses
    <3>3. ~MayPoll(c)
      BY <1>9, <2>3, <3>1, <3>2 DEF HearAnswer, VerdictOf, Goto, TypeInv, TypeOK
    <3>4. slept[c] >= deadline[c]
      BY <3>3, <1>2 DEF MayPoll
    <3> QED BY <1>9, <3>1, <3>4, <1>5 DEF HearAnswer
  <2> QED BY <1>9, <2>2, <2>3, HearAnswerEnds
<1>10. CASE ServeRequest(c)
  <2>1. pc'[c] = "answered" /\ UNCHANGED <<named, tool, inTime, slept, deadline>>
    BY <1>10 DEF ServeRequest, Goto, waitVars, TypeInv, TypeOK
  <2>2. PICK word \in WordsFor(order'[named[c]]) \cup {Silent} : heard' = [heard EXCEPT ![c] = word]
    BY <1>10 DEF ServeRequest
  <2>3. heard'[c] = word
    BY <2>2 DEF TypeInv, TypeOK
  <2>4. MapStatus(word) \in Ongoing => order'[named[c]] \notin Over
    BY OngoingIsOpen
  <2> QED BY <2>1, <2>3, <2>4, <1>5, <1>6
<1>11. CASE Restart
  BY <1>11 DEF Restart
<1>12. CASE Same(c) /\ Tick
  <2>1. /\ inTime'[c] = (inTime[c] \/ /\ pc[c] \in Running /\ clock[c] < deadline[c]
                                      /\ order[named[c]] \in Over)
        /\ order' = order
    BY <1>12 DEF Tick
  <2>2. inTime'[c] => order[named[c]] \in Over
    BY <2>1, <1>5
  <2>3. CASE pc[c] = "answered" /\ slept[c] >= deadline[c]
    <3>1. ~(clock[c] < deadline[c])
      <4>1. clock[c] \in Int
        BY Numbers DEF TypeInv
      <4>2. clock[c] >= deadline[c] \/ clock[c] >= slept[c] + 0
        BY <2>3 DEF TimeInv, ClockInv, Running
      <4> QED BY <4>1, <4>2, <2>3, <1>2
    <3>2. inTime'[c] => inTime[c]
      BY <2>1, <3>1
    <3> QED BY <1>12, <2>1, <2>2, <2>3, <3>2, <1>5 DEF Same
  <2>4. CASE pc[c] # "answered" \/ ~(slept[c] >= deadline[c])
    <3>1. pc[c] = "done" => (inTime'[c] => inTime[c])
      BY <2>1 DEF Running
    <3> QED BY <1>12, <2>1, <2>2, <2>4, <3>1, <1>5 DEF Same
  <2> QED BY <2>3, <2>4
<1>13. CASE Same(c) /\ Still(c)
  BY <1>13, <1>5, <1>6 DEF Same, Still
<1> QED BY <1>7, <1>8, <1>9, <1>10, <1>11, <1>12, <1>13, CallFrame DEF CallStep, Serve

(* A wait that reports its order as still going on did not miss an end     *)
(* before the deadline, for any poll interval and any time-out.            *)
THEOREM NoEndIsMissed == Spec => []SeenInTime
<1>1. Init => TimeInv
  <2>1. Init => ClockInv
    BY DEF Init, ClockInv, Running
  <2> QED BY <2>1 DEF Init, TimeInv, EndedInv, LastInv, SeenInTime
<1>2. TimeInv => SeenInTime
  BY DEF TimeInv
<1> QED BY <1>1, <1>2, InitType, StepType, TimeStep, PTL DEF Spec
=============================================================================
