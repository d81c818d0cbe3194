---------------------------- MODULE GuardedBroker ---------------------------
(***************************************************************************)
(* trading_core/safety/policy.py, GuardedBroker, with the two things it    *)
(* lives between: the trade journal on disk and the venue.  Calls of       *)
(* place_order and place_bracket run as asyncio tasks of one process: they *)
(* queue on the lock of their side, await the guards, check the journal,   *)
(* write the intent, await the broker and write the outcome.  Beside them  *)
(* run reconcile.py's reconcile_pending, the clock and the venue, which    *)
(* may take an order long after the caller stopped waiting for the answer. *)
(*                                                                         *)
(* A call is named by the cOID it dispatches with (id_factory gives every  *)
(* attempt a fresh one).  What is awaited inside _run_guards before the    *)
(* journal is read (account, lists, hours, price, position) is one await   *)
(* that passes or blocks.                                                  *)
(***************************************************************************)
EXTENDS TradeJournal

CONSTANTS
  NoCall,                 \* "nobody holds the lock"
  MaxDailyValue,          \* max_daily_value
  MaxTime,                \* bound: the clock stops here
  FaultKinds,             \* which of AllFaults the run allows
  MaxFaults,              \* bound: how many of them
  LooseAcks,              \* which of AllLooseAcks the broker may return
  ResolveMissing,         \* values reconcile_pending's resolve_missing may have
  DryRunModes             \* values the process may be started with for dry_run

AllFaults == {"crash", "tear", "cancel", "lost_write", "short_write"}

(* Answers that leave money out of account: "cancelled" of an order partly *)
(* filled, "rejected" for a body in which _parse_ack finds no order id.    *)
AllLooseAcks == {"partial_cancel", "unreadable"}

ASSUME CallAssumption == NoCall \notin Coids
ASSUME LimitAssumption == MaxDailyValue \in Nat /\ MaxTime \in Nat /\ MaxFaults \in Nat
ASSUME SwitchAssumption ==
  /\ FaultKinds \subseteq AllFaults
  /\ LooseAcks \subseteq AllLooseAcks
  /\ ResolveMissing \subseteq BOOLEAN
  /\ DryRunModes \subseteq BOOLEAN

VARIABLES
  pc,        \* where each call stands
  req,       \* the request each call carries
  queue,     \* per side, the calls waiting for the lock, oldest first
  holder,    \* per side, the call in the critical section
  dryRun,    \* the running process's dry_run
  journal,   \* the readable lines of the journal file
  torn,      \* the file ends in a fragment without a newline
  now,       \* the clock
  rec,       \* the running reconcile_pending
  wire,      \* cOIDs whose request may still reach the venue
  venue,     \* the venue's state of each order
  executed,  \* has any quantity of the order been filled?
  faults     \* how many faults have happened

callVars == <<pc, queue, holder>>
fileVars == <<journal, torn>>
venueVars == <<wire, venue, executed>>
vars == <<callVars, req, dryRun, fileVars, now, rec, venueVars, faults>>

Sides == {"BUY", "SELL"}
Critical == {"guards", "exits", "sending", "awaiting"}
Finished == {"done", "lost"}
PCs == {"idle", "waiting"} \cup Critical \cup Finished
Seen == {"absent", "submitted", "filled", "cancelled", "rejected"}
ReconcileStates ==
  [pc : {"idle", "asked", "listed", "marking"}, todo : SUBSET Coids,
   seen : [Coids -> Seen], force : BOOLEAN]
IdleReconcile ==
  [pc |-> "idle", todo |-> {}, seen |-> [c \in Coids |-> "absent"], force |-> FALSE]

(* Mutants of LockOf: one lock for all, and one lock per kind of call.     *)
OneLockMutant(r) == "BUY"
LockPerKindMutant(r) == IF r.bracket THEN "SELL" ELSE "BUY"
LockOf(r) == r.side
SameIntent(c, d) == req[c].fp = req[d].fp

Init ==
  /\ pc = [c \in Coids |-> "idle"]
  /\ req \in [Coids -> Requests]
  /\ queue = [s \in Sides |-> <<>>]
  /\ holder = [s \in Sides |-> NoCall]
  /\ dryRun \in DryRunModes
  /\ journal = <<>> /\ torn = FALSE
  /\ now = 0
  /\ rec = IdleReconcile
  /\ wire = {}
  /\ venue = [c \in Coids |-> "none"]
  /\ executed = [c \in Coids |-> FALSE]
  /\ faults = 0

-----------------------------------------------------------------------------
(* Writing to the file.                                                    *)

Fault(kind) ==
  kind \in FaultKinds /\ faults < MaxFaults /\ faults' = faults + 1

(* A line appended after a fragment joins it on one unparseable line.      *)
AppendLine(line) ==
  /\ journal' = IF torn THEN journal ELSE Append(journal, line)
  /\ torn' = FALSE

(* An append that raises: nothing, or only a beginning, reached the file.  *)
AppendRaises ==
  \/ Fault("lost_write") /\ UNCHANGED fileVars
  \/ Fault("short_write") /\ torn' = TRUE /\ UNCHANGED journal

(* _record and _record_intent log a failed append and go on.               *)
Write(line) ==
  \/ AppendLine(line) /\ UNCHANGED faults
  \/ AppendRaises

-----------------------------------------------------------------------------
(* Calls.  No task runs while reconcile_pending is in its marking loop,    *)
(* which has no await.                                                     *)

LoopFree == rec.pc # "marking"

Goto(c, label) == pc' = [pc EXCEPT ![c] = label]

Release(c) == holder' = [holder EXCEPT ![LockOf(req[c])] = NoCall]

Submit(c) ==
  LET s == LockOf(req[c]) IN
  /\ LoopFree /\ pc[c] = "idle"
  /\ Goto(c, "waiting")
  /\ queue' = [queue EXCEPT ![s] = Append(@, c)]
  /\ UNCHANGED <<holder, req, dryRun, fileVars, now, rec, venueVars, faults>>

Acquire(c) ==
  LET s == LockOf(req[c]) IN
  /\ LoopFree /\ pc[c] = "waiting"
  /\ holder[s] = NoCall
  /\ queue[s] # <<>> /\ Head(queue[s]) = c
  /\ Goto(c, "guards")
  /\ holder' = [holder EXCEPT ![s] = c]
  /\ queue' = [queue EXCEPT ![s] = Tail(@)]
  /\ UNCHANGED <<req, dryRun, fileVars, now, rec, venueVars, faults>>

(* _check_daily_limit: only a BUY with a notional is held to the cap.      *)
WithinDailyLimit(r) ==
  r.side = "BUY" /\ r.notional > 0 =>
    SpentOn(journal, Day(now)) + r.notional <= MaxDailyValue

JournalPermits(r) ==
  /\ ~HasRecentDuplicate(journal, r, now)
  /\ ~HasUnresolvedDispatch(journal, r)
  /\ WithinDailyLimit(r)

(* The outcome is journaled and the call returns or raises.                *)
Finish(c, line) ==
  /\ LoopFree
  /\ Write(line)
  /\ Goto(c, "done")
  /\ Release(c)
  /\ UNCHANGED <<queue, req, dryRun, now, rec, venueVars>>

(* A guard raised: the journal's, or any other.                            *)
Block(c) ==
  /\ pc[c] \in {"guards", "exits"}
  /\ Finish(c, OutcomeLine(NoCoid, req[c], dryRun, FALSE, FALSE, "error", now))

(* place_bracket awaits _check_bracket_exits after the journal guards.     *)
CheckExits(c) ==
  /\ LoopFree /\ pc[c] = "guards"
  /\ req[c].bracket
  /\ JournalPermits(req[c])
  /\ Goto(c, "exits")
  /\ UNCHANGED <<queue, holder, req, dryRun, fileVars, now, rec, venueVars, faults>>

GuardsPassed(c) ==
  \/ pc[c] = "guards" /\ ~req[c].bracket /\ JournalPermits(req[c])
  \/ pc[c] = "exits"

DryRun(c) ==
  /\ GuardsPassed(c)
  /\ dryRun
  /\ Finish(c, OutcomeLine(NoCoid, req[c], TRUE, FALSE, FALSE, "pending", now))

(* _record_intent, in the same synchronous step as the last guard.         *)
Intend(c) ==
  /\ LoopFree
  /\ GuardsPassed(c)
  /\ ~dryRun
  /\ Write(IntentLine(c, req[c], now))
  /\ Goto(c, "sending")
  /\ UNCHANGED <<queue, holder, req, dryRun, now, rec, venueVars>>

(* The inner broker has resolved the contract and posts the order.         *)
Post(c) ==
  /\ LoopFree /\ pc[c] = "sending"
  /\ Goto(c, "awaiting")
  /\ wire' = wire \cup {c}
  /\ UNCHANGED <<queue, holder, req, dryRun, fileVars, now, rec, venue, executed, faults>>

(* What the venue calls an order.  Beside an order id the journal takes    *)
(* pending, unknown and inactive no differently from "submitted", which    *)
(* stands for them all; a dead order may be called inactive.               *)
VenueStatuses(c) ==
  CASE venue[c] = "none"     -> {}
    [] venue[c] = "working"  -> {"submitted"}
    [] venue[c] = "rejected" -> {"rejected", "submitted"}
    [] OTHER                 -> {venue[c]}

(* What the answer may report: the present status or the one the order was *)
(* taken with.                                                             *)
AckStatuses(c) ==
  LET honest == VenueStatuses(c) \cup
                (IF venue[c] \in {"filled", "cancelled"} THEN {"submitted"} ELSE {})
  IN  {st \in honest :
         st = "cancelled" /\ executed[c] => "partial_cancel" \in LooseAcks}
      \cup (IF "unreadable" \in LooseAcks THEN {"rejected"} ELSE {})

(* The broker returns a result; a rejection may come without an order id.  *)
Ack(c) ==
  /\ pc[c] = "awaiting"
  /\ \E st \in AckStatuses(c), hasOid \in BOOLEAN :
        /\ st # "rejected" => hasOid
        /\ Finish(c, OutcomeLine(c, req[c], FALSE, TRUE, hasOid, st, now))

(* The broker raises: before posting, on a time-out, or on an error        *)
(* answer.  The order may be live all the same.                            *)
NoAnswer(c) ==
  /\ pc[c] \in {"sending", "awaiting"}
  /\ Finish(c, OutcomeLine(c, req[c], FALSE, TRUE, FALSE, "error", now))

(* The task is cancelled: CancelledError is no Exception, so the lock is   *)
(* released and nothing is recorded.                                       *)
Cancel(c) ==
  /\ LoopFree
  /\ Fault("cancel")
  /\ Goto(c, "lost")
  /\ \/ /\ pc[c] \in Critical
        /\ Release(c) /\ UNCHANGED queue
     \/ /\ pc[c] = "waiting"
        /\ \E i \in DOMAIN queue[LockOf(req[c])] :
              /\ queue[LockOf(req[c])][i] = c
              /\ queue' = [queue EXCEPT ![LockOf(req[c])] =
                             SubSeq(@, 1, i - 1) \o SubSeq(@, i + 1, Len(@))]
        /\ UNCHANGED holder
  /\ UNCHANGED <<req, dryRun, fileVars, now, rec, venueVars>>

CallStep(c) ==
  Acquire(c) \/ Block(c) \/ CheckExits(c) \/ DryRun(c) \/ Intend(c)
    \/ Post(c) \/ Ack(c) \/ NoAnswer(c)

-----------------------------------------------------------------------------
(* reconcile_pending.  It takes no lock.                                   *)

ReconcileStart(force) ==
  /\ rec.pc = "idle"
  /\ UnresolvedDispatches(journal) # {}
  /\ rec' = [IdleReconcile EXCEPT !.pc = "asked", !.force = force,
                                  !.todo = UnresolvedDispatches(journal)]
  /\ UNCHANGED <<callVars, req, dryRun, fileVars, now, venueVars, faults>>

(* Mutant of ResolutionStatus: the aggregate status is taken as it is.     *)
AggregateStatusMutant(status, anyFill) == status

(* An order with any fill resolves as filled, whatever the venue calls it. *)
ResolutionStatus(status, anyFill) == IF anyFill THEN "filled" ELSE status

(* get_live_orders: every working order, and any of the finished ones.     *)
Listings ==
  {f \in [Coids -> Seen] : \A c \in Coids :
     \/ /\ c \in rec.todo
        /\ \E st \in VenueStatuses(c) : f[c] = ResolutionStatus(st, executed[c])
     \/ (c \notin rec.todo \/ venue[c] # "working") /\ f[c] = "absent"}

ReconcileList ==
  /\ rec.pc = "asked"
  /\ \E f \in Listings : rec' = [rec EXCEPT !.pc = "listed", !.seen = f]
  /\ UNCHANGED <<callVars, req, dryRun, fileVars, now, venueVars, faults>>

(* The venue cannot be read, or the task is cancelled: nothing is marked.  *)
ReconcileFail ==
  /\ rec.pc \in {"asked", "listed"}
  /\ rec' = IdleReconcile
  /\ UNCHANGED <<callVars, req, dryRun, fileVars, now, venueVars, faults>>

MarkLine(c) ==
  IF rec.seen[c] # "absent"
  THEN ResolutionLine(c, TRUE, rec.seen[c], now)
  ELSE ResolutionLine(c, FALSE, "unknown", now)

(* One turn of the marking loop.  mark_resolved does not catch a failed    *)
(* append: the rest of the loop is then skipped.                           *)
Mark(c) ==
  /\ rec.pc \in {"listed", "marking"} /\ c \in rec.todo
  /\ \/ /\ IF rec.seen[c] # "absent" \/ rec.force
           THEN AppendLine(MarkLine(c))
           ELSE UNCHANGED fileVars
        /\ rec' = IF rec.todo = {c} THEN IdleReconcile
                  ELSE [rec EXCEPT !.pc = "marking", !.todo = @ \ {c}]
        /\ UNCHANGED faults
     \/ /\ rec.seen[c] # "absent" \/ rec.force
        /\ AppendRaises
        /\ rec' = IdleReconcile
  /\ UNCHANGED <<callVars, req, dryRun, now, venueVars>>

-----------------------------------------------------------------------------
(* The process dies and is started again, possibly with another dry_run.   *)
(* A line being written when it dies is left without its end.              *)
Crash ==
  /\ \/ Fault("crash") /\ UNCHANGED torn
     \/ /\ Fault("tear")
        /\ (\E c \in Coids : pc[c] \in Critical) \/ rec.pc \in {"listed", "marking"}
        /\ torn' = TRUE
  /\ pc' = [c \in Coids |-> IF pc[c] \in {"waiting"} \cup Critical THEN "lost" ELSE pc[c]]
  /\ queue' = [s \in Sides |-> <<>>]
  /\ holder' = [s \in Sides |-> NoCall]
  /\ rec' = IdleReconcile
  /\ dryRun' \in DryRunModes
  /\ UNCHANGED <<req, journal, now, venueVars>>

Tick ==
  /\ now < MaxTime
  /\ now' = now + 1
  /\ UNCHANGED <<callVars, req, dryRun, fileVars, rec, venueVars, faults>>

(* The venue.                                                              *)
Land(c) ==
  /\ c \in wire
  /\ wire' = wire \ {c}
  /\ \E st \in {"working", "rejected"} : venue' = [venue EXCEPT ![c] = st]
  /\ UNCHANGED <<callVars, req, dryRun, fileVars, now, rec, executed, faults>>

Execute(c) ==
  /\ venue[c] = "working"
  /\ \/ venue' = [venue EXCEPT ![c] = "filled"]
     \/ ~executed[c] /\ UNCHANGED venue
  /\ executed' = [executed EXCEPT ![c] = TRUE]
  /\ UNCHANGED <<callVars, req, dryRun, fileVars, now, rec, wire, faults>>

Expire(c) ==
  /\ venue[c] = "working"
  /\ venue' = [venue EXCEPT ![c] = "cancelled"]
  /\ UNCHANGED <<callVars, req, dryRun, fileVars, now, rec, wire, executed, faults>>

-----------------------------------------------------------------------------
Reconcile ==
  (\E force \in ResolveMissing : ReconcileStart(force))
    \/ ReconcileList \/ ReconcileFail \/ (\E c \in Coids : Mark(c))

VenueStep(c) == Land(c) \/ Execute(c) \/ Expire(c)

Next ==
  \/ \E c \in Coids : Submit(c) \/ CallStep(c) \/ Cancel(c) \/ VenueStep(c)
  \/ Reconcile
  \/ Crash
  \/ Tick

Spec == Init /\ [][Next]_vars

(* Every await of a call ends (the HTTP clients bound each request) and    *)
(* the event loop runs every task that is ready, however often another     *)
(* task runs before it; a loop without an await comes to its end.          *)
LoopFairness == WF_vars(\E c \in Coids : rec.pc = "marking" /\ Mark(c))

(* No fairness for the buys: the venue never answers them.                 *)
SellsFairSpec ==
  Spec /\ LoopFairness /\ \A c \in Coids : SF_vars(req[c].side = "SELL" /\ CallStep(c))

-----------------------------------------------------------------------------
(* Properties.                                                             *)

(* The types of the variables.                                             *)
TypeOK ==
  /\ pc \in [Coids -> PCs]
  /\ req \in [Coids -> Requests]
  /\ queue \in [Sides -> Seq(Coids)]
  /\ holder \in [Sides -> Coids \cup {NoCall}]
  /\ dryRun \in BOOLEAN
  /\ journal \in Seq(Line)
  /\ torn \in BOOLEAN
  /\ now \in Nat
  /\ rec \in ReconcileStates
  /\ wire \subseteq Coids
  /\ venue \in [Coids -> {"none", "working", "filled", "cancelled", "rejected"}]
  /\ executed \in [Coids -> BOOLEAN]
  /\ faults \in Nat

(* The venue has the order, or its request may still get there.            *)
Dispatched(c) == c \in wire \/ venue[c] # "none"

(* Money has moved for the order, or can still move.                       *)
MayMoveMoney(c) == c \in wire \/ venue[c] \in {"working", "filled"} \/ executed[c]

(* A crash between the dispatch and the outcome can't hide a live order    *)
(* (journal.py, record_intent): whatever has left for the venue has a      *)
(* readable line that says it was sent.                                    *)
NoHiddenOrder == \A c \in Coids : Dispatched(c) => IsSent(journal, c)

(* The same of every order whose call is over: it is what a write that     *)
(* failed or was torn leaves of NoHiddenOrder.                             *)
NoHiddenOrderAtRest ==
  \A c \in Coids :
    Dispatched(c) /\ pc[c] \notin {"sending", "awaiting"} => IsSent(journal, c)

(* An identical intent is not resent while the previous dispatch is        *)
(* unconfirmed (has_unresolved_dispatch), not even across a restart: when  *)
(* a request leaves, every other order of the same intent that may be at   *)
(* the venue has been acknowledged or found there.                         *)
NoBlindResend ==
  [][\A c, d \in Coids :
       /\ c \notin wire /\ c \in wire'
       /\ d # c /\ SameIntent(c, d) /\ Dispatched(d)
       => IsResolved(journal, d)]_vars

(* At most one order of an intent is in doubt.                             *)
OneInDoubtPerIntent ==
  \A c, d \in UnresolvedDispatches(journal) : SameIntent(c, d) => c = d

(* The guard implements its abstract promise.                              *)
Ideal == INSTANCE IdempotentOrders WITH
  Orders  <- Coids,
  intent  <- [c \in Coids |-> req[c].fp],
  doubt   <- UnresolvedDispatches(journal),
  settled <- {c \in Coids : IsSent(journal, c) /\ IsResolved(journal, c)}

Idempotent == Ideal!Spec

(* Rejected and cancelled orders "moved no money" (journal.py): an order   *)
(* the journal calls so has no fill and will have none, so the budget it   *)
(* gives back and the retry it allows are safe.                            *)
FreedMeansNoMoney ==
  \A i \in DOMAIN journal :
    journal[i].status \in NoMoneyStatuses => ~MayMoveMoney(journal[i].coid)

(* When the journal first says that the order was sent.                    *)
PlacedAt(c) ==
  journal[Min({i \in LinesOf(journal, c) : journal[i].sent})].time

(* The buys journaled on one day, with whatever they can still spend, stay *)
(* within max_daily_value, over crashes, cancelled calls, midnight and     *)
(* reconciliation (_check_daily_limit, spent_today).                       *)
ExposureWithinDailyCap ==
  \A day \in 0 .. Day(MaxTime) :
    SumFunctionOnSet([c \in Coids |-> req[c].notional],
                     {c \in Coids : /\ MayMoveMoney(c) /\ IsSent(journal, c)
                                    /\ req[c].side = "BUY"
                                    /\ Day(PlacedAt(c)) = day}) <= MaxDailyValue

(* Of two identical requests placed within duplicate_window_seconds at     *)
(* most one can move money (has_recent_duplicate).                         *)
NoDoubleOrderInWindow ==
  \A c, d \in Coids :
    /\ c # d /\ SameIntent(c, d)
    /\ MayMoveMoney(c) /\ MayMoveMoney(d)
    => PlacedAt(c) - PlacedAt(d) \notin -DuplicateWindow .. DuplicateWindow

(* An exit does not wait for an entry (one lock per side): sells end even  *)
(* if the venue never answers a buy.                                       *)
SellsEnd ==
  \A c \in Coids : pc[c] = "waiting" /\ req[c].side = "SELL" ~> pc[c] \in Finished
=============================================================================
