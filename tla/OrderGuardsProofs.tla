------------------------- MODULE OrderGuardsProofs --------------------------
(***************************************************************************)
(* The guards of OrderGuards, for any calls, requests, prices, accounts    *)
(* and settings: no order rests on a look at an account that the user did  *)
(* not allow, the fallback never refuses, and no exit goes with its entry. *)
(***************************************************************************)
EXTENDS OrderGuards, TLAPS

(* A call that passed the money-lock.                                      *)
Past == {"identified", "exits", "ready", "sent"}

(* What an answer says is well-typed.                                      *)
LEMMA AnswerType ==
  ASSUME TypeOK, NEW a \in Answers
  PROVE  a \in Identity
<1>1. CASE settings.venue = "IBKR"
  <2>1. PICK id \in {login, None}, field \in {(login \in PaperAccounts), None} :
          a = [id |-> id, paper |-> PaperVerdict(field, id),
               verified |-> PaperVerdict(field, id) # None]
    BY <1>1 DEF Answers, IbkrAnswers
  <2>2. PaperVerdict(field, id) \in BOOLEAN \cup {None}
    <3>1. (login \in PaperAccounts) \in BOOLEAN
      OBVIOUS
    <3>2. field \in BOOLEAN \cup {None}
      BY <3>1
    <3> QED BY <3>2, Zenon DEF PaperVerdict
  <2>3. id \in Accounts \cup {None}
    BY DEF TypeOK
  <2> QED BY <2>1, <2>2, <2>3 DEF Identity
<1>2. CASE settings.venue # "IBKR"
  <2>1. (settings.mode = "paper") \in BOOLEAN
    OBVIOUS
  <2>2. a = [id |-> None, paper |-> settings.mode = "paper", verified |-> FALSE]
    BY <1>2 DEF Answers, CryptoAnswers
  <2> QED BY <2>1, <2>2 DEF Identity
<1> QED BY <1>1, <1>2

LEMMA StepType ==
  ASSUME TypeOK, [Next]_vars
  PROVE  TypeOK'
<1>1. ASSUME NEW c \in Calls, Arrive(c) PROVE TypeOK'
  BY <1>1 DEF TypeOK, Arrive, memoryVars
<1>2. ASSUME NEW c \in Calls, Answer(c) PROVE TypeOK'
  <2>1. PICK a \in Answers \cup {Raised} :
          /\ info' = [info EXCEPT ![c] = a]
          /\ trusted' = [trusted EXCEPT ![c] = IF a = Raised THEN None ELSE login]
    BY <1>2 DEF Answer
  <2>2. a \in Identity \cup {None, Raised}
    BY AnswerType
  <2> QED BY <1>2, <2>1, <2>2 DEF TypeOK, Answer, memoryVars
<1>3. ASSUME NEW c \in Calls, Judge(c) PROVE TypeOK'
  BY <1>3 DEF TypeOK, Judge, Remember
<1>4. ASSUME NEW c \in Calls, CheckStop(c) PROVE TypeOK'
  BY <1>4 DEF TypeOK, CheckStop, memoryVars
<1>5. ASSUME NEW c \in Calls, CheckExits(c) PROVE TypeOK'
  BY <1>5 DEF TypeOK, CheckExits, memoryVars
<1>6. ASSUME NEW c \in Calls, Dispatch(c) \/ End(c) PROVE TypeOK'
  BY <1>6 DEF TypeOK, Dispatch, End, memoryVars
<1>7. CASE Relogin \/ UNCHANGED vars
  BY <1>7 DEF TypeOK, Relogin, vars, memoryVars, callVars
<1> QED BY <1>1, <1>2, <1>3, <1>4, <1>5, <1>6, <1>7 DEF Next, CallStep

(* The guards' variables keep their types.                                 *)
THEOREM TypeCorrect == Spec => []TypeOK
<1>1. Init => TypeOK
  <2>1. (CHOOSE q \in Requests : TRUE) \in Requests
    BY GuardAssumption
  <2> QED BY <2>1 DEF Init, TypeOK
<1> QED BY <1>1, StepType, PTL DEF Spec

-----------------------------------------------------------------------------
(* The money-lock.                                                         *)

(* Nothing is sent in a dry run, so what it rests on does not matter.      *)
Sound(a) == a \in Accounts /\ (settings.dryRun \/ Allowed(a))

(* No account is configured for a crypto exchange.                         *)
VenueInv == settings.venue = "crypto" => settings.configured = None

(* An answer that would pass was given by a login that may trade; what is  *)
(* remembered passed, and so did what the calls past the lock rest on.     *)
TrustInv ==
  /\ remembered # None => Passes(remembered) /\ Sound(origin)
  /\ \A c \in Calls :
       /\ info[c] \notin {None, Raised} /\ Passes(info[c]) => Sound(trusted[c])
       /\ pc[c] \in Past => Sound(trusted[c])
       /\ pc[c] = "sent" => ~settings.dryRun

(* The heart of the matter: an account that was read and passes is one the *)
(* user allowed.                                                           *)
LEMMA PassingIsAllowed ==
  ASSUME TypeOK, VenueInv, NEW a \in Answers, Passes(a)
  PROVE  Sound(login)
<1>1. CASE settings.venue = "IBKR"
  <2>1. PICK id \in {login, None}, field \in {(login \in PaperAccounts), None} :
          a = [id |-> id, paper |-> PaperVerdict(field, id),
               verified |-> PaperVerdict(field, id) # None]
    BY <1>1 DEF Answers, IbkrAnswers
  <2>2. settings.configured # None => login = settings.configured
    BY <2>1 DEF Passes, MatchesConfigured
  <2>3. ASSUME login \notin PaperAccounts
        PROVE  settings.allowLive /\ settings.mode = "live"
    <3>1. id \notin DuAccounts
      BY <2>3, GuardAssumption
    <3>2. a.paper # None /\ a.paper = (IF field # None THEN field ELSE None)
      BY <2>1, <3>1 DEF PaperVerdict, Passes
    <3>3. a.paper = field /\ field # None
      BY <3>2
    <3>4. field = (login \in PaperAccounts)
      BY <3>3
    <3>5. a.paper = FALSE
      <4>1. (login \in PaperAccounts) = FALSE
        BY <2>3
      <4> QED BY <3>3, <3>4, <4>1, Zenon
    <3> QED BY <3>5 DEF Passes, LabelAgrees, TypeOK, Settings
  <2> QED BY <2>2, <2>3 DEF Sound, Allowed, TypeOK
<1>2. CASE settings.venue = "crypto"
  <2>1. a = [id |-> None, paper |-> settings.mode = "paper", verified |-> FALSE]
    BY <1>2 DEF Answers, CryptoAnswers
  <2>2. settings.dryRun \/ settings.allowLive
    BY <2>1 DEF Passes, Acknowledged
  <2> QED BY <1>2, <2>2 DEF Sound, Allowed, VenueInv, TypeOK
<1> QED BY <1>1, <1>2, GuardAssumption DEF TypeOK, Settings

(* Both depend on the settings only, and they do not change.               *)
LEMMA SettingsStay ==
  ASSUME [Next]_vars
  PROVE  settings' = settings
BY DEF Next, CallStep, Arrive, Answer, Judge, CheckStop, CheckExits, Dispatch, End, Relogin, vars

LEMMA VenueInvHolds == Spec => []VenueInv
<1>1. Init => VenueInv
  BY DEF Init, VenueInv
<1>2. VenueInv /\ [Next]_vars => VenueInv'
  BY SettingsStay DEF VenueInv
<1> QED BY <1>1, <1>2, PTL DEF Spec

LEMMA TrustInvInductive ==
  ASSUME TypeOK, VenueInv, TrustInv, [Next]_vars
  PROVE  TrustInv'
<1>0. settings' = settings
  BY SettingsStay
<1>a. ASSUME UNCHANGED memoryVars PROVE remembered' # None => Passes(remembered)' /\ Sound(origin)'
  BY <1>0, <1>a DEF TrustInv, memoryVars, Passes, MatchesConfigured, LabelAgrees, Acknowledged,
     Sound, Allowed
<1>b. ASSUME UNCHANGED memoryVars,
             \A c \in Calls :
               /\ info'[c] \notin {None, Raised} /\ Passes(info'[c]) => Sound(trusted'[c])
               /\ pc'[c] \in Past => Sound(trusted'[c])
               /\ pc'[c] = "sent" => ~settings.dryRun
      PROVE  TrustInv'
  BY <1>0, <1>a, <1>b DEF TrustInv, Passes, MatchesConfigured, LabelAgrees, Acknowledged,
     Sound, Allowed
<1>1. ASSUME NEW c \in Calls, Arrive(c) PROVE TrustInv'
  BY <1>1, <1>b DEF Arrive, TrustInv, TypeOK, Past
<1>2. ASSUME NEW c \in Calls, Answer(c) PROVE TrustInv'
  <2>1. PICK a \in Answers \cup {Raised} :
          /\ info' = [info EXCEPT ![c] = a]
          /\ trusted' = [trusted EXCEPT ![c] = IF a = Raised THEN None ELSE login]
    BY <1>2 DEF Answer
  <2>2. a # Raised /\ Passes(a) => Sound(login)
    BY PassingIsAllowed
  <2> QED BY <1>2, <2>1, <2>2, <1>b DEF Answer, TrustInv, TypeOK, Past
<1>3. ASSUME NEW c \in Calls, Judge(c) PROVE TrustInv'
  <2> DEFINE fellBack == info[c] = Raised
             i == IF fellBack THEN remembered ELSE info[c]
             from == IF fellBack THEN origin ELSE trusted[c]
             ok == i # None /\ Passes(i)
  <2>1. ok => Sound(from)
    BY DEF TrustInv
  <2>2. /\ pc[c] = "answered"
        /\ pc' = [pc EXCEPT ![c] = IF ok THEN "identified" ELSE "idle"]
        /\ remembered' = IF ok THEN i ELSE remembered
        /\ origin' = IF ok THEN from ELSE origin
        /\ trusted' = [trusted EXCEPT ![c] = IF ok THEN from ELSE None]
        /\ info' = [info EXCEPT ![c] = None]
    BY <1>3 DEF Judge, Remember
  <2> HIDE DEF fellBack, from, i
  <2>3. remembered' # None => Passes(remembered') /\ Sound(origin')
    BY <2>1, <2>2 DEF TrustInv
  <2>4. \A d \in Calls :
          /\ info'[d] \notin {None, Raised} /\ Passes(info'[d]) => Sound(trusted'[d])
          /\ pc'[d] \in Past => Sound(trusted'[d])
          /\ pc'[d] = "sent" => ~settings.dryRun
    BY <2>1, <2>2 DEF TrustInv, TypeOK, Past
  <2> QED BY <1>0, <2>3, <2>4 DEF TrustInv, Passes, MatchesConfigured, LabelAgrees,
          Acknowledged, Sound, Allowed
<1>4. ASSUME NEW c \in Calls, CheckStop(c) \/ CheckExits(c) \/ Dispatch(c) \/ End(c)
      PROVE  TrustInv'
  BY <1>4, <1>b DEF CheckStop, CheckExits, Dispatch, End, TrustInv, TypeOK, Past
<1>5. CASE Relogin \/ UNCHANGED vars
  BY <1>5, <1>b DEF Relogin, vars, callVars, TrustInv
<1> QED BY <1>1, <1>2, <1>3, <1>4, <1>5 DEF Next, CallStep

LEMMA TrustInvHolds == Spec => []TrustInv
<1>1. Init => TrustInv
  BY DEF Init, TrustInv, Past
<1> QED BY <1>1, TrustInvInductive, VenueInvHolds, TypeCorrect, PTL DEF Spec

(* Real money moves only in an account the user allowed, unless the login  *)
(* changes between the look and the order.                                 *)
THEOREM RealMoneyIsLocked == Spec => []MoneyLock
<1>1. TrustInv => MoneyLock
  BY DEF TrustInv, MoneyLock, Sound, Past
<1> QED BY <1>1, TrustInvHolds, PTL

(* A failed read of the account never stops an exit once one has passed.   *)
THEOREM FallbackNeverRefuses == Spec => []FallbackPasses
<1>1. TrustInv => FallbackPasses
  BY DEF TrustInv, FallbackPasses
<1> QED BY <1>1, TrustInvHolds, PTL

-----------------------------------------------------------------------------
(* The prices.                                                             *)

(* An entry that can trade first fills where EntryFill says.               *)
LEMMA FillsAsComputed ==
  ASSUME NEW r \in Order, NEW last \in Int, NEW p \in Int, FirstFill(r, last, p)
  PROVE  p = EntryFill(r, last)
<1>0. r.limit \in Int /\ r.side \in {"BUY", "SELL"}
  BY DEF Order
<1>1. \A x \in Int : last <= x /\ x < p => ~Trades(r.side, r.limit, x)
  BY DEF FirstFill
<1>2. \A x \in Int : p < x /\ x <= last => ~Trades(r.side, r.limit, x)
  BY DEF FirstFill
<1>3. Trades(r.side, r.limit, p)
  BY DEF FirstFill
<1>4. CASE r.limit = Absent
  BY <1>1, <1>2, <1>4 DEF Trades, EntryFill
<1>5. CASE r.limit # Absent /\ r.side = "BUY"
  <2>1. CASE r.limit < last
    BY <1>0, <1>2, <1>3, <1>5, <2>1 DEF Trades, EntryFill
  <2>2. CASE last <= r.limit
    BY <1>0, <1>1, <1>2, <1>5, <2>2 DEF Trades, EntryFill
  <2> QED BY <1>0, <2>1, <2>2
<1>6. CASE r.limit # Absent /\ r.side = "SELL"
  <2>1. CASE r.limit > last
    BY <1>0, <1>1, <1>3, <1>6, <2>1 DEF Trades, EntryFill
  <2>2. CASE last >= r.limit
    BY <1>0, <1>1, <1>2, <1>6, <2>2 DEF Trades, EntryFill
  <2> QED BY <1>0, <2>1, <2>2
<1> QED BY <1>0, <1>4, <1>5, <1>6

(* Where a clear bracket's entry fills, neither of its exits goes.         *)
LEMMA ClearExitsWait ==
  ASSUME NEW q \in Request, IsBracket(q), WellFormed(q), NEW last \in Int, last # Absent,
         ExitsClear(q, last), NEW p \in Int, FirstFill(q.order, last, p)
  PROVE  ~ExitGoes(q, p)
<1>0. /\ q.order \in Order /\ q.order.side \in {"BUY", "SELL"}
      /\ q.takeProfit \in Int /\ q.stopLoss \in Int
  BY DEF Request, Order
<1>1. p = EntryFill(q.order, last)
  BY <1>0, FillsAsComputed
<1>2. q.takeProfit # Absent
  BY DEF IsBracket
<1> HIDE DEF EntryFill
<1> QED BY <1>0, <1>1, <1>2 DEF ExitsClear, ExitGoes, Opposite, Trades, Triggers

(* The price an order leaves with is one its guard accepted.               *)
PriceInv ==
  \A c \in Calls :
    /\ pc[c] = "exits" => IsBracket(request[c])
    /\ pc[c] \in {"ready", "sent"} =>
         IF IsBracket(request[c])
         THEN ExitsClear(request[c], seen[c])
         ELSE StopNotInverted(request[c].order, seen[c])

LEMMA PriceInvInductive ==
  ASSUME TypeOK, PriceInv, [Next]_vars
  PROVE  PriceInv'
<1>1. ASSUME NEW c \in Calls, Arrive(c) \/ Answer(c) \/ Judge(c) \/ Dispatch(c) \/ End(c)
      PROVE  PriceInv'
  BY <1>1 DEF Arrive, Answer, Judge, Dispatch, End, PriceInv, TypeOK
<1>2. ASSUME NEW c \in Calls, CheckStop(c) PROVE PriceInv'
  BY <1>2 DEF CheckStop, PriceInv, TypeOK
<1>3. ASSUME NEW c \in Calls, CheckExits(c) PROVE PriceInv'
  BY <1>3 DEF CheckExits, PriceInv, TypeOK
<1>4. CASE Relogin \/ UNCHANGED vars
  BY <1>4 DEF Relogin, vars, callVars, PriceInv
<1> QED BY <1>1, <1>2, <1>3, <1>4 DEF Next, CallStep

LEMMA PriceInvHolds == Spec => []PriceInv
<1>1. Init => PriceInv
  BY DEF Init, PriceInv
<1> QED BY <1>1, PriceInvInductive, TypeCorrect, PTL DEF Spec

(* No exit of an order that leaves goes at once.                           *)
THEOREM ExitsDoNotGoAtOnce == Spec => []NoInstantExit
<1>1. TypeOK /\ PriceInv => NoInstantExit
  <2> SUFFICES ASSUME TypeOK, PriceInv, NEW c \in Calls,
                      pc[c] \in {"ready", "sent"}, seen[c] # Absent
               PROVE  IF IsBracket(request[c])
                      THEN \A p \in Prices : FirstFill(request[c].order, seen[c], p)
                                               => ~ExitGoes(request[c], p)
                      ELSE request[c].order.type \in {"STP", "STOP_LIMIT"}
                             => ~Triggers(request[c].order.side, request[c].order.stop, seen[c])
    BY DEF NoInstantExit
  <2>0. request[c] \in Requests
    BY DEF TypeOK
  <2>1. /\ request[c] \in Request /\ WellFormed(request[c])
        /\ seen[c] \in Int /\ Prices \subseteq Int
    <3>1. Requests \subseteq {q \in Request : WellFormed(q)}
      BY GuardAssumption
    <3>2. Prices \subseteq Nat \ {Absent}
      BY GuardAssumption
    <3> HIDE DEF WellFormed, Request
    <3>3. request[c] \in Request /\ WellFormed(request[c])
      BY <2>0, <3>1
    <3>4. seen[c] \in Prices \cup {Absent}
      BY DEF TypeOK
    <3>5. Prices \subseteq Int
      BY <3>2
    <3>6. seen[c] \in Int
      BY <3>4, <3>5
    <3> QED BY <3>3, <3>5, <3>6
  <2>2. CASE IsBracket(request[c])
    <3>1. ExitsClear(request[c], seen[c])
      BY <2>2 DEF PriceInv
    <3> QED BY <2>1, <2>2, <3>1, ClearExitsWait
  <2>3. CASE ~IsBracket(request[c])
    <3>1. StopNotInverted(request[c].order, seen[c])
      BY <2>3 DEF PriceInv
    <3>2. request[c].order.side \in {"BUY", "SELL"} /\ request[c].order.stop \in Int
      BY <2>1 DEF Request, Order
    <3> QED BY <2>1, <2>3, <3>1, <3>2 DEF StopNotInverted, Triggers, Absent
  <2> QED BY <2>2, <2>3
<1> QED BY <1>1, PriceInvHolds, TypeCorrect, PTL
=============================================================================
