----------------------------- MODULE OrderGuards ----------------------------
(***************************************************************************)
(* The guards of trading_core/safety/policy.py that ask the venue who is   *)
(* logged in and what the price is, in the order of _run_guards and        *)
(* _check_bracket_exits, for concurrent calls under the locks of the two   *)
(* sides: the real-money lock (_verify_account) with its memory of the     *)
(* last account that passed, then the checks of OrderRules.                *)
(*                                                                         *)
(* The venue is IBKR, which says whether an account is a paper account     *)
(* (GatewayAuth.account_info), or a crypto exchange, which does not        *)
(* (_probe_account_info).  The guards that need neither, or the position   *)
(* or the journal, may refuse at any moment.                               *)
(***************************************************************************)
EXTENDS OrderRules

CONSTANTS
  Calls,          \* the concurrent calls of place_order and place_bracket
  Requests,       \* what they may ask for
  Prices,         \* the last prices a quote may have
  Accounts,       \* the accounts one may log in to
  PaperAccounts,  \* those without real money
  DuAccounts,     \* those whose id begins with IBKR's paper prefix
  Venues,         \* "IBKR", "crypto"
  None, Raised    \* no value; the answer of a read that raises

ASSUME GuardAssumption ==
  /\ Requests \subseteq {q \in Request : WellFormed(q)}
  /\ Requests # {}
  /\ Prices \subseteq Nat \ {Absent}
  /\ Venues \subseteq {"IBKR", "crypto"}
  /\ DuAccounts \subseteq PaperAccounts /\ PaperAccounts \subseteq Accounts
  /\ None \notin Accounts \cup BOOLEAN
ASSUME RaisedAssumption ==
  \A id \in Accounts \cup {None}, paper \in BOOLEAN \cup {None}, v \in BOOLEAN :
    [id |-> id, paper |-> paper, verified |-> v] \notin {None, Raised}

VARIABLES
  settings,   \* venue, mode, allowLive, dryRun, configured account
  login,      \* the account the venue is logged in to
  remembered, \* _verified_identity
  origin,     \* the login it was read from
  pc,         \* where each call stands
  request,    \* what it asks for
  info,       \* what its read of the account returned
  trusted,    \* the login of the moment it rests on
  seen,       \* the price its exits were checked at
  went        \* the login its order went to

callVars == <<request, info, trusted, seen, went>>
memoryVars == <<remembered, origin>>
vars == <<settings, login, memoryVars, pc, callVars>>

Settings == [venue : Venues, mode : {"paper", "live"}, allowLive : BOOLEAN,
             dryRun : BOOLEAN, configured : Accounts \cup {None}]

Identity == [id : Accounts \cup {None}, paper : BOOLEAN \cup {None}, verified : BOOLEAN]

Init ==
  /\ settings \in {s \in Settings : s.venue = "crypto" => s.configured = None}
  /\ login \in Accounts
  /\ remembered = None /\ origin = None
  /\ pc = [c \in Calls |-> "idle"]
  /\ request = [c \in Calls |-> CHOOSE q \in Requests : TRUE]
  /\ info = [c \in Calls |-> None] /\ trusted = [c \in Calls |-> None]
  /\ seen = [c \in Calls |-> Absent] /\ went = [c \in Calls |-> None]

-----------------------------------------------------------------------------
(* What the venue answers.                                                 *)

(* Mutant of PaperVerdict: what cannot be told is taken for paper.         *)
GuessPaperMutant(field, id) == IF field # None THEN field ELSE TRUE

(* account_info's is_paper, from the field isPaper as _coerce_paper reads  *)
(* it (None: missing or of no known form) and from the account's prefix.   *)
PaperVerdict(field, id) ==
  IF field # None THEN field ELSE IF id \in DuAccounts THEN TRUE ELSE None

(* The answers of GatewayAuth.account_info: any field may be missing.      *)
IbkrAnswers ==
  {[id |-> id, paper |-> PaperVerdict(field, id),
    verified |-> PaperVerdict(field, id) # None] :
     id \in {login, None}, field \in {(login \in PaperAccounts), None}}

(* The answer of _probe_account_info: a label, whatever the keys are.  The *)
(* exchange is the account, and no account is configured to compare.       *)
CryptoAnswers == {[id |-> None, paper |-> settings.mode = "paper", verified |-> FALSE]}

Answers == IF settings.venue = "IBKR" THEN IbkrAnswers ELSE CryptoAnswers

-----------------------------------------------------------------------------
(* A call, under the lock of its side.                                     *)

LockFree(side) == \A c \in Calls : pc[c] # "idle" => request[c].order.side # side

Arrive(c) ==
  /\ pc[c] = "idle"
  /\ \E q \in Requests :
       /\ LockFree(q.order.side)
       /\ request' = [request EXCEPT ![c] = q]
  /\ pc' = [pc EXCEPT ![c] = "asking"]
  /\ UNCHANGED <<settings, login, memoryVars, info, trusted, seen, went>>

(* The venue answers account_info, or the read raises.                     *)
Answer(c) ==
  /\ pc[c] = "asking"
  /\ pc' = [pc EXCEPT ![c] = "answered"]
  /\ \E a \in Answers \cup {Raised} :
       /\ info' = [info EXCEPT ![c] = a]
       /\ trusted' = [trusted EXCEPT ![c] = IF a = Raised THEN None ELSE login]
  /\ UNCHANGED <<settings, login, memoryVars, request, seen, went>>

(* Mutant of MatchesConfigured: an account without an id matches.          *)
NoIdMutant(i) == settings.configured # None => i.id \in {settings.configured, None}

(* The account is the configured one, if there is one.                     *)
MatchesConfigured(i) == settings.configured # None => i.id = settings.configured

(* Mutant of LabelAgrees: a real account under a paper label is let pass.  *)
LabelMutant(i) == i.paper => settings.mode = "paper"

(* The mode says what the account is.                                      *)
LabelAgrees(i) == i.paper <=> settings.mode = "paper"

(* A verdict that the venue did not confirm takes the acknowledgement.     *)
Acknowledged(i) == i.verified \/ settings.dryRun \/ settings.allowLive

(* Every check of _verify_account, and the lock on the label after it.     *)
Passes(i) ==
  /\ MatchesConfigured(i)
  /\ i.paper # None
  /\ ~i.paper => settings.allowLive
  /\ LabelAgrees(i)
  /\ Acknowledged(i)
  /\ settings.mode = "live" => settings.allowLive

(* Mutants of Remember: the identity is kept before it is checked; what    *)
(* failed is kept, too.                                                    *)
HastyMutant(i, ok) == i
KeepsErrorMutant(i, ok) == IF ok THEN i ELSE Raised
(* What is remembered after identity i was checked.                        *)
Remember(i, ok) == IF ok THEN i ELSE remembered

(* The checks that follow the answer, without an await.  A read that       *)
(* raised is replaced by the identity that passed last, if there is one.   *)
Judge(c) ==
  LET fellBack == info[c] = Raised
      i == IF fellBack THEN remembered ELSE info[c]
      from == IF fellBack THEN origin ELSE trusted[c]
      ok == i # None /\ Passes(i)
  IN
  /\ pc[c] = "answered"
  /\ pc' = [pc EXCEPT ![c] = IF ok THEN "identified" ELSE "idle"]
  /\ remembered' = Remember(i, ok)
  /\ origin' = IF ok THEN from ELSE origin
  /\ trusted' = [trusted EXCEPT ![c] = IF ok THEN from ELSE None]
  /\ info' = [info EXCEPT ![c] = None]
  /\ UNCHANGED <<settings, login, request, seen, went>>

(* _check_stop_not_inverted; without a quote there is nothing to compare.  *)
CheckStop(c) ==
  /\ pc[c] = "identified"
  /\ \E last \in Prices \cup {Absent} :
       /\ StopNotInverted(request[c].order, last)
       /\ seen' = [seen EXCEPT ![c] = last]
  /\ pc' = [pc EXCEPT ![c] = IF IsBracket(request[c]) THEN "exits" ELSE "ready"]
  /\ UNCHANGED <<settings, login, memoryVars, request, info, trusted, went>>

(* _check_bracket_exits, with a quote of its own.                          *)
CheckExits(c) ==
  /\ pc[c] = "exits"
  /\ \E last \in Prices \cup {Absent} :
       /\ ExitsClear(request[c], last)
       /\ seen' = [seen EXCEPT ![c] = last]
  /\ pc' = [pc EXCEPT ![c] = "ready"]
  /\ UNCHANGED <<settings, login, memoryVars, request, info, trusted, went>>

(* The inner broker sends the order, to whoever is logged in by now.       *)
Dispatch(c) ==
  /\ pc[c] = "ready" /\ ~settings.dryRun
  /\ pc' = [pc EXCEPT ![c] = "sent"]
  /\ went' = [went EXCEPT ![c] = login]
  /\ UNCHANGED <<settings, login, memoryVars, request, info, trusted, seen>>

(* The call ends: a guard refuses, an await raises or is cancelled, it was *)
(* a dry run, or the order is answered.                                    *)
End(c) ==
  /\ pc[c] # "idle"
  /\ pc' = [pc EXCEPT ![c] = "idle"]
  /\ info' = [info EXCEPT ![c] = None] /\ trusted' = [trusted EXCEPT ![c] = None]
  /\ seen' = [seen EXCEPT ![c] = Absent] /\ went' = [went EXCEPT ![c] = None]
  /\ UNCHANGED <<settings, login, memoryVars, request>>

(* Somebody logs in to another account.  The keys of an exchange stay.     *)
Relogin ==
  /\ settings.venue = "IBKR"
  /\ login' \in Accounts \ {login}
  /\ UNCHANGED <<settings, memoryVars, pc, callVars>>

CallStep(c) ==
  Arrive(c) \/ Answer(c) \/ Judge(c) \/ CheckStop(c) \/ CheckExits(c) \/ Dispatch(c) \/ End(c)

Next == Relogin \/ \E c \in Calls : CallStep(c)

Spec == Init /\ [][Next]_vars

-----------------------------------------------------------------------------
(* Properties.                                                             *)

(* The types of the variables.                                             *)
TypeOK ==
  /\ settings \in Settings /\ login \in Accounts
  /\ remembered \in Identity \cup {None} /\ origin \in Accounts \cup {None}
  /\ pc \in [Calls -> {"idle", "asking", "answered", "identified", "exits", "ready", "sent"}]
  /\ request \in [Calls -> Requests]
  /\ info \in [Calls -> Identity \cup {None, Raised}]
  /\ trusted \in [Calls -> Accounts \cup {None}]
  /\ seen \in [Calls -> Prices \cup {Absent}]
  /\ went \in [Calls -> Accounts \cup {None}]

(* The user allowed orders to this account: it is the configured one, and  *)
(* if it holds real money that was armed, on IBKR under a live label.      *)
Allowed(a) ==
  /\ settings.configured # None => a = settings.configured
  /\ a \notin PaperAccounts =>
       settings.allowLive /\ (settings.venue = "IBKR" => settings.mode = "live")

(* The money-lock: an order goes to an account the user did not allow only *)
(* if the login changed after the look its call rests on, be it another    *)
(* call's (README.md, "bound to the real account, not the label").         *)
MoneyLock ==
  \A c \in Calls : pc[c] = "sent" /\ went[c] = trusted[c] => Allowed(went[c])

(* A failure to read the account traps no exit once an account passed      *)
(* (CHANGELOG.md): what is remembered would pass again, so the fallback    *)
(* never refuses.                                                          *)
FallbackPasses == remembered # None => Passes(remembered)

(* Neither exit of a bracket that leaves goes at once when its entry fills, *)
(* nor does a stop that leaves, given the price the guard saw.             *)
NoInstantExit ==
  \A c \in Calls : pc[c] \in {"ready", "sent"} /\ seen[c] # Absent =>
    LET r == request[c].order IN
    IF IsBracket(request[c])
    THEN \A p \in Prices : FirstFill(r, seen[c], p) => ~ExitGoes(request[c], p)
    ELSE r.type \in {"STP", "STOP_LIMIT"} => ~Triggers(r.side, r.stop, seen[c])
=============================================================================
