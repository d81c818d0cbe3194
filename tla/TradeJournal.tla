---------------------------- MODULE TradeJournal ----------------------------
(***************************************************************************)
(* The append-only trade journal of trading_core/journal.py, as operators  *)
(* on a sequence of lines: the lines TradeJournal.read() gives back, torn  *)
(* and unparseable ones already skipped.                                   *)
(*                                                                         *)
(* A line keeps what the queries look at.  A request is a record           *)
(*   [side, fp, notional, bracket]                                         *)
(* where fp stands for the fingerprint (symbol, side, type, size) and      *)
(* notional is the estimate the guards computed, 0 when they computed none *)
(* (sells and covering buys).  Timestamps count clock units, DayLength of  *)
(* which make a day of the market's time zone.                             *)
(***************************************************************************)
EXTENDS Integers, Sequences, FiniteSetsExt

CONSTANTS
  Coids,            \* client order ids (cOIDs), one per dispatch attempt
  NoCoid,           \* the id of a line written before an id was assigned
  Requests,         \* the order requests the server can be asked for
  NoRequest,        \* what a resolution line carries for a request
  DuplicateWindow,  \* duplicate_window_seconds, in clock units
  ReadLimit,        \* lines has_recent_duplicate looks back (200 in the code)
  DayLength         \* clock units in a day

ASSUME CoidAssumption == NoCoid \notin Coids
ASSUME RequestAssumption ==
  /\ NoRequest \notin Requests
  /\ \A r \in Requests : /\ r.side \in {"BUY", "SELL"}
                          /\ r.notional \in Nat
                          /\ r.bracket \in BOOLEAN
  /\ \A r, s \in Requests : r.fp = s.fp => r.side = s.side
ASSUME JournalBounds ==
  DuplicateWindow \in Nat /\ ReadLimit \in Nat \ {0} /\ DayLength \in Nat \ {0}

Kinds == {"intent", "outcome", "resolution"}
TerminalStatuses == {"filled", "cancelled", "rejected", "inactive", "submitted"}
NoMoneyStatuses == {"rejected", "cancelled"}
Statuses == TerminalStatuses \cup {"pending", "error", "unknown"}

Line == [kind    : Kinds,
         coid    : Coids \cup {NoCoid},
         request : Requests \cup {NoRequest},
         dry     : BOOLEAN,
         sent    : BOOLEAN,      \* dispatched: it may have filled
         oid     : BOOLEAN,      \* the venue's order id came back
         status  : Statuses,
         time    : Nat]

-----------------------------------------------------------------------------
(* The lines the code writes.                                              *)

(* Mutant of IntentLine: the intent does not say it is being sent.         *)
UnsentIntentMutant(c, r, t) ==
  [kind |-> "intent", coid |-> c, request |-> r, dry |-> FALSE,
   sent |-> FALSE, oid |-> FALSE, status |-> "pending", time |-> t]

IntentLine(c, r, t) ==
  [kind |-> "intent", coid |-> c, request |-> r, dry |-> FALSE,
   sent |-> TRUE, oid |-> FALSE, status |-> "pending", time |-> t]

(* Mutants of OutcomeLine: an error leaves no status; only an answer       *)
(* counts as sent.                                                         *)
NoErrorStatusMutant(c, r, isDry, wasSent, hasOid, st, t) ==
  [kind |-> "outcome", coid |-> c, request |-> r, dry |-> isDry,
   sent |-> (wasSent \/ hasOid), oid |-> hasOid,
   status |-> IF st = "error" THEN "none" ELSE st, time |-> t]
AckedIsSentMutant(c, r, isDry, wasSent, hasOid, st, t) ==
  [kind |-> "outcome", coid |-> c, request |-> r, dry |-> isDry,
   sent |-> hasOid, oid |-> hasOid, status |-> st, time |-> t]

OutcomeLine(c, r, isDry, wasSent, hasOid, st, t) ==
  [kind |-> "outcome", coid |-> c, request |-> r, dry |-> isDry,
   sent |-> (wasSent \/ hasOid), oid |-> hasOid, status |-> st, time |-> t]

ResolutionLine(c, hasOid, st, t) ==
  [kind |-> "resolution", coid |-> c, request |-> NoRequest, dry |-> FALSE,
   sent |-> FALSE, oid |-> hasOid, status |-> st, time |-> t]

-----------------------------------------------------------------------------
(* The queries.                                                            *)

LinesOf(j, c) == {i \in DOMAIN j : j[i].coid = c}

(* read(limit=200): the duplicate guard sees only the last lines.          *)
RecentLines(j) == {i \in DOMAIN j : i > Len(j) - ReadLimit}

IsSent(j, c) == \E i \in LinesOf(j, c) : j[i].sent

Settles(line) ==
  line.kind = "resolution" \/ line.oid \/ line.status \in TerminalStatuses

IsResolved(j, c) == \E i \in LinesOf(j, c) : Settles(j[i])

UnresolvedDispatches(j) ==
  {c \in Coids : /\ IsSent(j, c)
                 /\ \A i \in LinesOf(j, c) : ~j[i].dry
                 /\ ~IsResolved(j, c)}

(* Mutant of HasUnresolvedDispatch: only a recorded failure blocks.        *)
OutcomeOnlyMutant(j, r) ==
  \E c \in UnresolvedDispatches(j) : \E i \in LinesOf(j, c) :
     j[i].kind = "outcome" /\ j[i].sent /\ j[i].request.fp = r.fp

HasUnresolvedDispatch(j, r) ==
  \E c \in UnresolvedDispatches(j) : \E i \in LinesOf(j, c) :
     j[i].sent /\ j[i].request.fp = r.fp

(* The last status other than an intent's is the fate of a cOID.           *)
FateIsNoMoney(j, c) ==
  LET fates == {i \in RecentLines(j) \cap LinesOf(j, c) : j[i].kind # "intent"}
  IN  c # NoCoid /\ fates # {} /\ j[Max(fates)].status \in NoMoneyStatuses

(* Mutant of HasRecentDuplicate: the edge of the window is left out.       *)
OpenWindowMutant(j, r, t) ==
  \E i \in RecentLines(j) :
     /\ j[i].sent /\ j[i].status \notin NoMoneyStatuses
     /\ ~FateIsNoMoney(j, j[i].coid)
     /\ j[i].request.fp = r.fp
     /\ j[i].time > t - DuplicateWindow

HasRecentDuplicate(j, r, t) ==
  /\ DuplicateWindow > 0
  /\ \E i \in RecentLines(j) :
        /\ j[i].kind # "resolution"
        /\ j[i].sent
        /\ j[i].status \notin NoMoneyStatuses
        /\ ~FateIsNoMoney(j, j[i].coid)
        /\ j[i].request.fp = r.fp
        /\ j[i].time >= t - DuplicateWindow

Day(t) == t \div DayLength

(* Lines of a BUY with a notional, written on the day asked for.           *)
BuyLines(j, c, day) ==
  {i \in LinesOf(j, c) : /\ j[i].kind # "resolution"
                         /\ j[i].request.side = "BUY"
                         /\ j[i].request.notional > 0
                         /\ Day(j[i].time) = day}

ResolvedAsNoMoney(j, c) ==
  LET marks == {i \in LinesOf(j, c) : j[i].kind = "resolution"}
  IN  marks # {} /\ j[Max(marks)].status \in NoMoneyStatuses

(* Mutant of CountedBuys: only acknowledged buys are counted.              *)
AckedBuysMutant(j, day) ==
  {c \in Coids : /\ \E i \in BuyLines(j, c, day) : j[i].oid
                 /\ ~ResolvedAsNoMoney(j, c)}

(* One entry per cOID: an intent and its outcome are counted once.         *)
CountedBuys(j, day) ==
  {c \in Coids : /\ \E i \in BuyLines(j, c, day) : j[i].sent
                 /\ \A i \in BuyLines(j, c, day) : j[i].status \notin NoMoneyStatuses
                 /\ ~ResolvedAsNoMoney(j, c)}

SpentOn(j, day) ==
  SumFunction([c \in CountedBuys(j, day) |->
                 j[Min(BuyLines(j, c, day))].request.notional])
=============================================================================
