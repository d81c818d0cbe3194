------------------------- MODULE GuardedBrokerProofs ------------------------
(***************************************************************************)
(* Proofs about GuardedBroker, for every set of calls and requests and     *)
(* every value of the other constants.                                     *)
(***************************************************************************)
EXTENDS GuardedBroker, TradeJournalProofs

-----------------------------------------------------------------------------
(* Writing to the file.                                                    *)

(* A write that keeps to lines keeps the file a sequence of lines.         *)
LEMMA WriteType ==
  ASSUME TypeOK, NEW line \in Line, Write(line)
  PROVE  journal' \in Seq(Line) /\ torn' \in BOOLEAN /\ faults' \in Nat
<1>1. AppendLine(line) => journal' \in Seq(Line) /\ torn' \in BOOLEAN
  <2>1. ASSUME AppendLine(line), torn PROVE journal' \in Seq(Line)
    BY <2>1 DEF TypeOK, AppendLine
  <2>2. ASSUME AppendLine(line), ~torn PROVE journal' \in Seq(Line)
    <3>1. journal \in Seq(Line)
      BY DEF TypeOK
    <3>2. journal' = Append(journal, line)
      BY <2>2 DEF AppendLine
    <3> QED BY <3>1, <3>2
  <2>3. AppendLine(line) => torn' \in BOOLEAN
    BY DEF AppendLine
  <2> QED BY <2>1, <2>2, <2>3
<1>2. AppendRaises => journal' \in Seq(Line) /\ torn' \in BOOLEAN /\ faults' \in Nat
  <2>1. CASE Fault("lost_write") /\ UNCHANGED fileVars
    BY <2>1 DEF TypeOK, Fault, fileVars
  <2>2. CASE Fault("short_write") /\ torn' = TRUE /\ UNCHANGED journal
    BY <2>2 DEF TypeOK, Fault
  <2> QED BY <2>1, <2>2 DEF AppendRaises
<1> QED BY <1>1, <1>2 DEF Write, TypeOK

(* A reconciliation that does not run has its type.                        *)
LEMMA IdleType == IdleReconcile \in ReconcileStates
BY DEF IdleReconcile, ReconcileStates, Seen

-----------------------------------------------------------------------------
(* The type invariant.                                                     *)

(* The initial states have their types.                                    *)
LEMMA InitType == Init => TypeOK
<1> SUFFICES ASSUME Init PROVE TypeOK
  OBVIOUS
<1>1. dryRun \in BOOLEAN /\ req \in [Coids -> Requests]
  BY SwitchAssumption DEF Init
<1>2. queue \in [Sides -> Seq(Coids)] /\ holder \in [Sides -> Coids \cup {NoCall}]
  BY DEF Init
<1>3. journal \in Seq(Line)
  BY DEF Init
<1>4. torn \in BOOLEAN /\ now \in Nat /\ faults \in Nat
  BY DEF Init
<1>5. rec \in ReconcileStates
  BY IdleType DEF Init
<1> QED BY <1>1, <1>2, <1>3, <1>4, <1>5 DEF Init, TypeOK, PCs

(* A call that ends keeps the types.                                       *)
LEMMA FinishType ==
  ASSUME TypeOK, NEW c \in Coids, NEW line \in Line, Finish(c, line)
  PROVE  TypeOK'
<1>1. journal' \in Seq(Line) /\ torn' \in BOOLEAN /\ faults' \in Nat
  BY WriteType DEF Finish
<1>2. pc' \in [Coids -> PCs]
  BY DEF TypeOK, Finish, Goto, PCs, Finished
<1>3. holder' \in [Sides -> Coids \cup {NoCall}]
  BY DEF TypeOK, Finish, Release
<1> QED
  BY <1>1, <1>2, <1>3 DEF TypeOK, Finish, venueVars

(* What the venue may call an order, and what an answer may.               *)
LEMMA VenueStatusType ==
  ASSUME TypeOK, NEW c \in Coids
  PROVE  /\ VenueStatuses(c) \subseteq Seen
         /\ "rejected" \in VenueStatuses(c) => venue[c] = "rejected"
         /\ "cancelled" \in VenueStatuses(c) => venue[c] = "cancelled"
<1>1. venue[c] \in {"none", "working", "filled", "cancelled", "rejected"}
  BY DEF TypeOK
<1>2. CASE venue[c] = "none"
  BY <1>2 DEF VenueStatuses
<1>3. CASE venue[c] = "working"
  BY <1>3 DEF VenueStatuses, Seen
<1>4. CASE venue[c] = "rejected"
  BY <1>4 DEF VenueStatuses, Seen
<1>5. CASE venue[c] \in {"filled", "cancelled"}
  <2>1. VenueStatuses(c) = {venue[c]}
    BY <1>5 DEF VenueStatuses
  <2> QED BY <1>5, <2>1 DEF Seen
<1> QED BY <1>1, <1>2, <1>3, <1>4, <1>5

(* An answer reports one of the statuses the journal can hold.             *)
LEMMA AckStatusType ==
  ASSUME TypeOK, NEW c \in Coids, NEW st \in AckStatuses(c)
  PROVE  /\ st \in Statuses
         /\ st = "rejected" => venue[c] = "rejected" \/ "unreadable" \in LooseAcks
         /\ st = "cancelled" =>
              venue[c] = "cancelled" /\ (executed[c] => "partial_cancel" \in LooseAcks)
<1>1. \/ st \in VenueStatuses(c)
      \/ st = "submitted"
      \/ st = "rejected" /\ "unreadable" \in LooseAcks
  BY DEF AckStatuses
<1>2. st = "cancelled" /\ executed[c] => "partial_cancel" \in LooseAcks
  BY DEF AckStatuses
<1>3. Seen \ {"absent"} \subseteq Statuses
  BY DEF Seen, Statuses, TerminalStatuses
<1>4. st # "absent"
  BY DEF AckStatuses, VenueStatuses, TypeOK
<1> QED BY <1>1, <1>2, <1>3, <1>4, VenueStatusType DEF Seen, Statuses, TerminalStatuses

(* Every step of a call keeps the types.                                   *)
LEMMA CallType ==
  ASSUME TypeOK, NEW c \in Coids, Submit(c) \/ CallStep(c) \/ Cancel(c)
  PROVE  TypeOK'
<1> USE RequestAssumption
<1>0. LockOf(req[c]) \in Sides /\ req[c] \in Requests
  BY DEF TypeOK, LockOf, Sides
<1>1. CASE Submit(c)
  BY <1>0, <1>1 DEF TypeOK, Submit, Goto, PCs, fileVars, venueVars
<1>2. CASE Acquire(c)
  BY <1>0, <1>2 DEF TypeOK, Acquire, Goto, PCs, Critical, fileVars, venueVars
<1>3. CASE Block(c)
  <2>1. OutcomeLine(NoCoid, req[c], dryRun, FALSE, FALSE, "error", now) \in Line
    BY <1>0, OutcomeLineType DEF TypeOK, Statuses
  <2> QED BY <1>3, <2>1, FinishType DEF Block
<1>4. CASE CheckExits(c)
  BY <1>4 DEF TypeOK, CheckExits, Goto, PCs, Critical, fileVars, venueVars
<1>5. CASE DryRun(c)
  <2>1. OutcomeLine(NoCoid, req[c], TRUE, FALSE, FALSE, "pending", now) \in Line
    BY <1>0, OutcomeLineType DEF TypeOK, Statuses
  <2> QED BY <1>5, <2>1, FinishType DEF DryRun
<1>6. CASE Intend(c)
  <2>1. IntentLine(c, req[c], now) \in Line
    BY <1>0, IntentLineType DEF TypeOK
  <2>2. journal' \in Seq(Line) /\ torn' \in BOOLEAN /\ faults' \in Nat
    BY <1>6, <2>1, WriteType DEF Intend
  <2> QED
    BY <1>6, <2>2 DEF TypeOK, Intend, Goto, PCs, Critical, venueVars
<1>7. CASE Post(c)
  BY <1>7 DEF TypeOK, Post, Goto, PCs, Critical, fileVars
<1>8. CASE Ack(c)
  <2>1. PICK st \in AckStatuses(c), hasOid \in BOOLEAN :
          Finish(c, OutcomeLine(c, req[c], FALSE, TRUE, hasOid, st, now))
    BY <1>8 DEF Ack
  <2>2. st \in Statuses
    BY <2>1, AckStatusType
  <2>3. OutcomeLine(c, req[c], FALSE, TRUE, hasOid, st, now) \in Line
    BY <1>0, <2>2, OutcomeLineType DEF TypeOK
  <2> QED BY <2>1, <2>3, FinishType
<1>9. CASE NoAnswer(c)
  <2>1. OutcomeLine(c, req[c], FALSE, TRUE, FALSE, "error", now) \in Line
    BY <1>0, OutcomeLineType DEF TypeOK, Statuses
  <2> QED BY <1>9, <2>1, FinishType DEF NoAnswer
<1>10. CASE Cancel(c)
  <2>1. faults' \in Nat /\ pc' \in [Coids -> PCs]
    BY <1>10 DEF TypeOK, Cancel, Fault, Goto, PCs, Finished
  <2>2. queue' \in [Sides -> Seq(Coids)] /\ holder' \in [Sides -> Coids \cup {NoCall}]
    <3>1. CASE Release(c) /\ UNCHANGED queue
      BY <3>1 DEF TypeOK, Release
    <3>2. CASE UNCHANGED holder /\ \E i \in DOMAIN queue[LockOf(req[c])] :
                 queue' = [queue EXCEPT ![LockOf(req[c])] =
                             SubSeq(@, 1, i - 1) \o SubSeq(@, i + 1, Len(@))]
      <4> DEFINE q == queue[LockOf(req[c])]
      <4>1. PICK i \in DOMAIN q :
              queue' = [queue EXCEPT ![LockOf(req[c])] =
                          SubSeq(q, 1, i - 1) \o SubSeq(q, i + 1, Len(q))]
        BY <3>2
      <4>2. q \in Seq(Coids) /\ i \in 1 .. Len(q)
        BY <1>0, <4>1 DEF TypeOK
      <4>3. SubSeq(q, 1, i - 1) \in Seq(Coids)
        BY <4>2
      <4>4. SubSeq(q, i + 1, Len(q)) \in Seq(Coids)
        BY <4>2
      <4>5. SubSeq(q, 1, i - 1) \o SubSeq(q, i + 1, Len(q)) \in Seq(Coids)
        BY <4>3, <4>4
      <4> QED BY <3>2, <4>1, <4>5 DEF TypeOK
    <3> QED BY <1>10, <3>1, <3>2 DEF Cancel
  <2> QED
    BY <1>10, <2>1, <2>2 DEF TypeOK, Cancel, fileVars, venueVars
<1> QED
  BY <1>1, <1>2, <1>3, <1>4, <1>5, <1>6, <1>7, <1>8, <1>9, <1>10 DEF CallStep

(* So does every step of the reconciliation.                               *)
LEMMA ReconcileType ==
  ASSUME TypeOK, Reconcile
  PROVE  TypeOK'
<1> USE SwitchAssumption
<1>1. CASE \E force \in ResolveMissing : ReconcileStart(force)
  <2>1. PICK force \in ResolveMissing : ReconcileStart(force)
    BY <1>1
  <2>2. rec' \in ReconcileStates
    BY <2>1 DEF ReconcileStart, IdleReconcile, ReconcileStates, Seen, UnresolvedDispatches
  <2> QED BY <2>1, <2>2 DEF TypeOK, ReconcileStart, callVars, fileVars, venueVars
<1>2. CASE ReconcileList
  BY <1>2 DEF TypeOK, ReconcileList, ReconcileStates, Listings, callVars, fileVars, venueVars
<1>3. CASE ReconcileFail
  BY <1>3, IdleType DEF TypeOK, ReconcileFail, callVars, fileVars, venueVars
<1>4. ASSUME NEW c \in Coids, Mark(c) PROVE TypeOK'
  <2>1. MarkLine(c) \in Line
    <3>1. rec.seen[c] # "absent" => rec.seen[c] \in Statuses
      BY DEF TypeOK, ReconcileStates, Seen, Statuses, TerminalStatuses
    <3> QED
      BY <3>1, ResolutionLineType DEF MarkLine, TypeOK, Statuses
  <2>2. journal' \in Seq(Line) /\ torn' \in BOOLEAN /\ faults' \in Nat
    <3>1. CASE Write(MarkLine(c))
      BY <2>1, <3>1, WriteType
    <3>2. CASE UNCHANGED <<fileVars, faults>>
      BY <3>2 DEF TypeOK, fileVars
    <3> QED BY <1>4, <3>1, <3>2 DEF Mark, Write
  <2>3. rec' \in ReconcileStates
    <3>1. [rec EXCEPT !.pc = "marking", !.todo = @ \ {c}] \in ReconcileStates
      BY DEF TypeOK, ReconcileStates
    <3> QED BY <1>4, <3>1, IdleType DEF Mark
  <2> QED
    BY <1>4, <2>2, <2>3 DEF TypeOK, Mark, callVars, venueVars
<1> QED BY <1>1, <1>2, <1>3, <1>4 DEF Reconcile

(* The state of every run of the broker has the types declared for it.     *)
THEOREM TypeCorrect == Spec => []TypeOK
<1>1. TypeOK /\ [Next]_vars => TypeOK'
  <2> SUFFICES ASSUME TypeOK, [Next]_vars PROVE TypeOK'
    OBVIOUS
  <2>1. ASSUME NEW c \in Coids, Submit(c) \/ CallStep(c) \/ Cancel(c) PROVE TypeOK'
    BY <2>1, CallType
  <2>2. ASSUME NEW c \in Coids, VenueStep(c) PROVE TypeOK'
    BY <2>2 DEF TypeOK, VenueStep, Land, Execute, Expire, callVars, fileVars
  <2>3. CASE Reconcile
    BY <2>3, ReconcileType
  <2>4. CASE Crash
    <3>1. torn' \in BOOLEAN
      BY <2>4 DEF TypeOK, Crash
    <3>2. faults' \in Nat
      BY <2>4 DEF TypeOK, Crash, Fault
    <3>3. dryRun' \in BOOLEAN
      BY <2>4, SwitchAssumption DEF Crash
    <3>4. pc' \in [Coids -> PCs]
      BY <2>4 DEF TypeOK, Crash, PCs, Critical, Finished
    <3>5. queue' \in [Sides -> Seq(Coids)] /\ holder' \in [Sides -> Coids \cup {NoCall}]
      BY <2>4 DEF Crash
    <3> QED BY <2>4, <3>1, <3>2, <3>3, <3>4, <3>5, IdleType DEF TypeOK, Crash, venueVars
  <2>5. CASE Tick
    BY <2>5 DEF TypeOK, Tick, callVars, fileVars, venueVars
  <2>6. CASE UNCHANGED vars
    BY <2>6 DEF TypeOK, vars, callVars, fileVars, venueVars
  <2> QED BY <2>1, <2>2, <2>3, <2>4, <2>5, <2>6 DEF Next
<1> QED BY InitType, <1>1, PTL DEF Spec

-----------------------------------------------------------------------------
(* A write appends the line or leaves the readable lines alone.            *)
LEMMA WriteAppends ==
  ASSUME NEW line, Write(line)
  PROVE  journal' = journal \/ journal' = Append(journal, line)
<1>1. AppendLine(line) => journal' = journal \/ journal' = Append(journal, line)
  BY DEF AppendLine
<1>2. AppendRaises => journal' = journal
  BY DEF AppendRaises, fileVars
<1> QED BY <1>1, <1>2 DEF Write

-----------------------------------------------------------------------------
(* Where an order can be.                                                  *)

Unsent == {"idle", "waiting", "guards", "exits", "sending"}

VenueInv ==
  /\ \A c \in Coids : pc[c] \in Unsent => c \notin wire /\ venue[c] = "none"
  /\ \A c \in wire : venue[c] = "none"
  /\ \A c \in Coids : executed[c] => venue[c] \in {"working", "filled", "cancelled"}

(* A call that posts nothing leaves the venue alone and never goes back.   *)
LEMMA OnlyPostReaches ==
  ASSUME TypeOK, NEW c \in Coids, Submit(c) \/ CallStep(c) \/ Cancel(c), ~Post(c)
  PROVE  /\ UNCHANGED venueVars
         /\ \A d \in Coids : pc'[d] \in Unsent => pc[d] \in Unsent
<1> USE DEF TypeOK, Unsent, Goto
<1>1. CASE Submit(c)
  BY <1>1 DEF Submit
<1>2. CASE Acquire(c)
  BY <1>2 DEF Acquire
<1>3. CASE CheckExits(c)
  BY <1>3 DEF CheckExits
<1>4. CASE Intend(c)
  BY <1>4 DEF Intend, GuardsPassed
<1>5. ASSUME NEW line, Finish(c, line)
      PROVE  /\ UNCHANGED venueVars
             /\ \A d \in Coids : pc'[d] \in Unsent => pc[d] \in Unsent
  BY <1>5 DEF Finish
<1>6. CASE Cancel(c)
  BY <1>6 DEF Cancel
<1> QED
  BY <1>1, <1>2, <1>3, <1>4, <1>5, <1>6 DEF CallStep, Block, DryRun, Ack, NoAnswer

(* Every step keeps what relates the wire to the venue.                    *)
LEMMA VenueInvInductive ==
  ASSUME TypeOK, VenueInv, [Next]_vars
  PROVE  VenueInv'
<1>1. ASSUME NEW c \in Coids, Submit(c) \/ CallStep(c) \/ Cancel(c) PROVE VenueInv'
  <2>1. CASE Post(c)
    BY <2>1 DEF TypeOK, VenueInv, Post, Goto, Unsent
  <2>2. CASE ~Post(c)
    BY <1>1, <2>2, OnlyPostReaches DEF VenueInv, venueVars
  <2> QED BY <2>1, <2>2
<1>2. ASSUME NEW c \in Coids, Land(c) PROVE VenueInv'
  BY <1>2 DEF TypeOK, VenueInv, Land, callVars
<1>3. ASSUME NEW c \in Coids, Execute(c) PROVE VenueInv'
  BY <1>3 DEF TypeOK, VenueInv, Execute, callVars
<1>4. ASSUME NEW c \in Coids, Expire(c) PROVE VenueInv'
  BY <1>4 DEF TypeOK, VenueInv, Expire, callVars
<1>5. CASE Crash
  BY <1>5 DEF TypeOK, VenueInv, Crash, venueVars, Unsent, Critical
<1>6. CASE Reconcile \/ Tick \/ UNCHANGED vars
  <2>1. UNCHANGED <<pc, wire, venue, executed>>
    BY <1>6 DEF Reconcile, ReconcileStart, ReconcileList, ReconcileFail, Mark, Tick,
                vars, callVars, venueVars
  <2> QED BY <2>1 DEF VenueInv
<1> QED
  BY <1>1, <1>2, <1>3, <1>4, <1>5, <1>6 DEF Next, VenueStep

(* In every run an order not sent yet is unknown to the venue, an order    *)
(* still on the wire has not arrived, and only one that was working there  *)
(* has fills.                                                              *)
THEOREM VenueInvariant == Spec => []VenueInv
<1>1. Init => VenueInv
  BY DEF Init, VenueInv
<1>2. TypeOK /\ VenueInv /\ [Next]_vars => VenueInv'
  BY VenueInvInductive
<1> QED BY <1>1, <1>2, TypeCorrect, PTL DEF Spec

-----------------------------------------------------------------------------
(* Orders that moved no money.                                             *)

(* The order has ended at the venue without a fill.                        *)
Over(c) == c \notin wire /\ venue[c] \in {"rejected", "cancelled"} /\ ~executed[c]

Truthful(line) ==
  line.status \in NoMoneyStatuses => line.coid \in Coids /\ Over(line.coid)

FreedInv ==
  /\ \A i \in DOMAIN journal : Truthful(journal[i])
  /\ \A c \in Coids : rec.seen[c] \in NoMoneyStatuses => Over(c)

(* An order that is over at the venue stays over.                          *)
LEMMA OverStays ==
  ASSUME TypeOK, VenueInv, [Next]_vars, NEW c \in Coids, Over(c)
  PROVE  Over(c)'
<1>1. ASSUME NEW d \in Coids, Submit(d) \/ CallStep(d) \/ Cancel(d) PROVE Over(c)'
  <2>1. CASE Post(d)
    BY <2>1 DEF VenueInv, Over, Post, Unsent
  <2>2. CASE ~Post(d)
    BY <1>1, <2>2, OnlyPostReaches DEF Over, venueVars
  <2> QED BY <2>1, <2>2
<1>2. ASSUME NEW d \in Coids, VenueStep(d) PROVE Over(c)'
  BY <1>2 DEF TypeOK, Over, VenueStep, Land, Execute, Expire
<1>3. CASE Reconcile \/ Crash \/ Tick \/ UNCHANGED vars
  <2>1. UNCHANGED venueVars
    BY <1>3 DEF Reconcile, ReconcileStart, ReconcileList, ReconcileFail, Mark, Tick,
                Crash, vars
  <2> QED BY <2>1 DEF Over, venueVars
<1> QED BY <1>1, <1>2, <1>3 DEF Next

(* Every line a step writes tells the truth about its order.               *)
LEMMA TruthfulCalls ==
  ASSUME TypeOK, VenueInv, LooseAcks = {},
         NEW c \in Coids, Submit(c) \/ CallStep(c) \/ Cancel(c)
  PROVE  \/ journal' = journal
         \/ \E line \in Line : Truthful(line) /\ journal' = Append(journal, line)
<1> DEFINE Goal == \/ journal' = journal
                   \/ \E line \in Line : Truthful(line) /\ journal' = Append(journal, line)
<1> USE DEF NoMoneyStatuses
<1>0. req[c] \in Requests /\ dryRun \in BOOLEAN /\ now \in Nat
  BY DEF TypeOK
<1>1. ASSUME NEW line \in Line, Truthful(line), Write(line) PROVE Goal
  BY <1>1, WriteAppends
<1>2. CASE Submit(c) \/ Acquire(c) \/ CheckExits(c) \/ Post(c) \/ Cancel(c)
  BY <1>2 DEF Submit, Acquire, CheckExits, Post, Cancel, fileVars
<1>3. CASE Block(c)
  <2> DEFINE line == OutcomeLine(NoCoid, req[c], dryRun, FALSE, FALSE, "error", now)
  <2>1. line \in Line
    BY <1>0, OutcomeLineType DEF Statuses
  <2>2. Truthful(line)
    BY DEF Truthful, OutcomeLine
  <2> QED BY <1>1, <1>3, <2>1, <2>2 DEF Block, Finish
<1>4. CASE DryRun(c)
  <2> DEFINE line == OutcomeLine(NoCoid, req[c], TRUE, FALSE, FALSE, "pending", now)
  <2>1. line \in Line
    BY <1>0, OutcomeLineType DEF Statuses
  <2>2. Truthful(line)
    BY DEF Truthful, OutcomeLine
  <2> QED BY <1>1, <1>4, <2>1, <2>2 DEF DryRun, Finish
<1>5. CASE Intend(c)
  <2> DEFINE line == IntentLine(c, req[c], now)
  <2>1. line \in Line
    BY <1>0, IntentLineType
  <2>2. Truthful(line)
    BY DEF Truthful, IntentLine
  <2> QED BY <1>1, <1>5, <2>1, <2>2 DEF Intend
<1>6. CASE NoAnswer(c)
  <2> DEFINE line == OutcomeLine(c, req[c], FALSE, TRUE, FALSE, "error", now)
  <2>1. line \in Line
    BY <1>0, OutcomeLineType DEF Statuses
  <2>2. Truthful(line)
    BY DEF Truthful, OutcomeLine
  <2> QED BY <1>1, <1>6, <2>1, <2>2 DEF NoAnswer, Finish
<1>7. CASE Ack(c)
  <2>1. PICK st \in AckStatuses(c), hasOid \in BOOLEAN :
          Finish(c, OutcomeLine(c, req[c], FALSE, TRUE, hasOid, st, now))
    BY <1>7 DEF Ack
  <2> DEFINE line == OutcomeLine(c, req[c], FALSE, TRUE, hasOid, st, now)
  <2>2. line \in Line
    <3>1. st \in Statuses
      BY <2>1, AckStatusType
    <3> QED BY <1>0, <3>1, OutcomeLineType
  <2>3. st \in NoMoneyStatuses => Over(c)
    BY <2>1, AckStatusType DEF NoMoneyStatuses, Over, VenueInv
  <2>4. Truthful(line)
    BY <2>3 DEF Truthful, OutcomeLine
  <2> QED BY <1>1, <2>1, <2>2, <2>4 DEF Finish
<1> QED BY <1>2, <1>3, <1>4, <1>5, <1>6, <1>7 DEF CallStep

(* A resolution calls an order rejected or cancelled only when it is over. *)
LEMMA TruthfulMark ==
  ASSUME TypeOK, FreedInv, NEW c \in Coids, Mark(c)
  PROVE  \/ journal' = journal
         \/ \E line \in Line : Truthful(line) /\ journal' = Append(journal, line)
<1>1. MarkLine(c) \in Line /\ Truthful(MarkLine(c))
  <2>1. CASE rec.seen[c] # "absent"
    <3>1. rec.seen[c] \in Statuses
      BY <2>1 DEF TypeOK, ReconcileStates, Seen, Statuses, TerminalStatuses
    <3>2. MarkLine(c) = ResolutionLine(c, TRUE, rec.seen[c], now)
      BY <2>1 DEF MarkLine
    <3>3. MarkLine(c) \in Line
      BY <3>1, <3>2, ResolutionLineType DEF TypeOK
    <3>4. Truthful(MarkLine(c))
      BY <3>2 DEF Truthful, ResolutionLine, FreedInv
    <3> QED BY <3>3, <3>4
  <2>2. CASE rec.seen[c] = "absent"
    <3>1. MarkLine(c) = ResolutionLine(c, FALSE, "unknown", now)
      BY <2>2 DEF MarkLine
    <3>2. MarkLine(c) \in Line
      <4>1. "unknown" \in Statuses /\ now \in Nat
        BY DEF TypeOK, Statuses
      <4> QED BY <3>1, <4>1, ResolutionLineType
    <3>3. Truthful(MarkLine(c))
      BY <3>1 DEF Truthful, ResolutionLine, NoMoneyStatuses
    <3> QED BY <3>2, <3>3
  <2> QED BY <2>1, <2>2
<1>2. Write(MarkLine(c)) \/ journal' = journal
  BY DEF Mark, Write, fileVars
<1> QED BY <1>1, <1>2, WriteAppends

(* Every step keeps the freed orders without a fill.                       *)
LEMMA FreedInvInductive ==
  ASSUME TypeOK, VenueInv, FreedInv, LooseAcks = {}, [Next]_vars
  PROVE  FreedInv'
<1>1. \/ journal' = journal
      \/ \E line \in Line : Truthful(line) /\ journal' = Append(journal, line)
  <2>1. ASSUME NEW c \in Coids, VenueStep(c) PROVE journal' = journal
    BY <2>1 DEF VenueStep, Land, Execute, Expire, fileVars
  <2>2. CASE Reconcile /\ ~\E c \in Coids : Mark(c)
    BY <2>2 DEF Reconcile, ReconcileStart, ReconcileList, ReconcileFail, fileVars
  <2>3. CASE Crash \/ Tick \/ UNCHANGED vars
    BY <2>3 DEF Crash, Tick, vars, fileVars
  <2> QED BY <2>1, <2>2, <2>3, TruthfulCalls, TruthfulMark DEF Next
<1>2. \A i \in DOMAIN journal' : Truthful(journal'[i])
  <2>1. CASE journal' = journal
    BY <2>1 DEF FreedInv
  <2>2. ASSUME NEW line \in Line, Truthful(line), journal' = Append(journal, line)
        PROVE  \A i \in DOMAIN journal' : Truthful(journal'[i])
    <3>1. \A i \in DOMAIN journal' :
             \/ i \in DOMAIN journal /\ journal'[i] = journal[i]
             \/ journal'[i] = line
      BY <2>2, Appended DEF TypeOK
    <3> QED BY <2>2, <3>1 DEF FreedInv
  <2> QED BY <1>1, <2>1, <2>2
<1>3. \A i \in DOMAIN journal' : Truthful(journal[i])'
  BY <1>2, OverStays DEF Truthful
<1>4. \A c \in Coids : rec'.seen[c] \in NoMoneyStatuses => Over(c)
  <2>1. ASSUME rec'.seen = IdleReconcile.seen \/ rec'.seen = rec.seen
        PROVE  \A c \in Coids : rec'.seen[c] \in NoMoneyStatuses => Over(c)
    BY <2>1 DEF FreedInv, IdleReconcile, NoMoneyStatuses
  <2>2. CASE ReconcileList
    <3>1. PICK f \in Listings : rec' = [rec EXCEPT !.pc = "listed", !.seen = f]
      BY <2>2 DEF ReconcileList
    <3>2. rec'.seen = f
      BY <3>1 DEF TypeOK, ReconcileStates
    <3>3. \A c \in Coids : f[c] \in NoMoneyStatuses => Over(c)
      <4> SUFFICES ASSUME NEW c \in Coids, f[c] \in NoMoneyStatuses PROVE Over(c)
        OBVIOUS
      <4>1. PICK st \in VenueStatuses(c) : f[c] = ResolutionStatus(st, executed[c])
        BY <3>1 DEF Listings, NoMoneyStatuses
      <4>2. ~executed[c] /\ st \in NoMoneyStatuses
        BY <4>1 DEF ResolutionStatus, NoMoneyStatuses
      <4> QED BY <4>1, <4>2, VenueStatusType DEF NoMoneyStatuses, Over, VenueInv
    <3> QED BY <3>2, <3>3
  <2>3. ASSUME NEW c \in Coids,
               Submit(c) \/ CallStep(c) \/ Cancel(c) \/ VenueStep(c)
        PROVE  rec' = rec
    BY <2>3 DEF CallStep, Submit, Acquire, Block, CheckExits, DryRun, Intend, Post, Ack,
                NoAnswer, Finish, Cancel, VenueStep, Land, Execute, Expire
  <2>4. CASE \E force \in ResolveMissing : ReconcileStart(force)
    <3>1. rec'.seen = IdleReconcile.seen
      BY <2>4 DEF ReconcileStart, IdleReconcile
    <3> QED BY <2>1, <3>1
  <2>5. ASSUME NEW c \in Coids, Mark(c)
        PROVE  rec' = IdleReconcile \/ rec'.seen = rec.seen
    BY <2>5 DEF Mark, TypeOK, ReconcileStates
  <2>6. CASE ReconcileFail \/ Crash \/ Tick \/ UNCHANGED vars
    <3>1. rec' = IdleReconcile \/ rec' = rec
      BY <2>6 DEF ReconcileFail, Crash, Tick, vars
    <3> QED BY <2>1, <3>1
  <2>7. rec' = rec => rec'.seen = rec.seen
    OBVIOUS
  <2>8. CASE Next
    <3>1. CASE \E c \in Coids : Submit(c) \/ CallStep(c) \/ Cancel(c) \/ VenueStep(c)
      BY <2>1, <2>3, <2>7, <3>1
    <3>2. CASE Reconcile
      BY <2>1, <2>2, <2>4, <2>5, <2>6, <3>2 DEF Reconcile
    <3> QED BY <2>6, <2>8, <3>1, <3>2 DEF Next
  <2> QED BY <2>6, <2>8
<1> QED BY <1>3, <1>4, OverStays DEF FreedInv

(* Where no acknowledgement is loose, an order the journal calls rejected  *)
(* or cancelled has neither moved money nor will, whatever fails or        *)
(* crashes.                                                                *)
THEOREM FreedOrdersMovedNothing ==
  ASSUME LooseAcks = {}
  PROVE  Spec => []FreedMeansNoMoney
<1>1. Init => FreedInv
  BY DEF Init, FreedInv, IdleReconcile, NoMoneyStatuses
<1>2. TypeOK /\ VenueInv /\ FreedInv /\ [Next]_vars => FreedInv'
  BY FreedInvInductive
<1>3. FreedInv => FreedMeansNoMoney
  BY DEF FreedInv, FreedMeansNoMoney, Truthful, Over, MayMoveMoney
<1> QED BY <1>1, <1>2, <1>3, TypeCorrect, VenueInvariant, PTL DEF Spec

-----------------------------------------------------------------------------
(* The lock of a side.                                                     *)

LockInv == \A c \in Coids : pc[c] \in Critical => holder[LockOf(req[c])] = c

(* Every step keeps each lock with one owner, the call inside.             *)
LEMMA LockInvInductive ==
  ASSUME TypeOK, LockInv, [Next]_vars
  PROVE  LockInv'
<1> USE RequestAssumption, CallAssumption
<1>0. \A c \in Coids : LockOf(req[c]) \in Sides /\ req[c] \in Requests
  BY DEF TypeOK, LockOf, Sides
<1>1. req' = req
  BY DEF Next, CallStep, Submit, Acquire, Block, CheckExits, DryRun, Intend, Post, Ack,
         NoAnswer, Finish, Cancel, VenueStep, Land, Execute, Expire, Crash, Tick,
         Reconcile, ReconcileStart, ReconcileList, ReconcileFail, Mark, vars
<1>2. \A c \in Coids : LockOf(req[c])' = LockOf(req[c])
  BY <1>1 DEF LockOf
<1>3. ASSUME UNCHANGED holder,
             \A d \in Coids : pc'[d] \in Critical => pc[d] \in Critical
      PROVE  LockInv'
  BY <1>2, <1>3 DEF LockInv
<1>4. ASSUME NEW c \in Coids, pc[c] \in Critical, Release(c),
             Goto(c, "done") \/ Goto(c, "lost")
      PROVE  LockInv'
  BY <1>0, <1>2, <1>4 DEF TypeOK, LockInv, Release, Goto, Critical
<1>5. ASSUME NEW c \in Coids, Submit(c) \/ CallStep(c) \/ Cancel(c) PROVE LockInv'
  <2> USE DEF Critical
  <2>1. CASE Submit(c)
    BY <1>3, <2>1 DEF TypeOK, Submit, Goto
  <2>2. CASE Acquire(c)
    BY <1>0, <1>2, <2>2 DEF TypeOK, LockInv, Acquire, Goto
  <2>3. CASE CheckExits(c)
    BY <1>3, <2>3 DEF TypeOK, CheckExits, Goto
  <2>4. CASE Intend(c)
    BY <1>3, <2>4 DEF TypeOK, Intend, Goto, GuardsPassed
  <2>5. CASE Post(c)
    BY <1>3, <2>5 DEF TypeOK, Post, Goto
  <2>6. CASE Block(c) \/ DryRun(c) \/ Ack(c) \/ NoAnswer(c)
    BY <1>4, <2>6 DEF Block, DryRun, Ack, NoAnswer, Finish, GuardsPassed
  <2>7. CASE Cancel(c) /\ pc[c] \in Critical
    BY <1>4, <2>7 DEF Cancel
  <2>8. CASE Cancel(c) /\ pc[c] \notin Critical
    BY <1>3, <2>8 DEF TypeOK, Cancel, Goto
  <2> QED
    BY <1>5, <2>1, <2>2, <2>3, <2>4, <2>5, <2>6, <2>7, <2>8 DEF CallStep
<1>6. CASE Crash
  BY <1>6 DEF LockInv, Crash, TypeOK, Critical
<1>7. ASSUME UNCHANGED callVars PROVE LockInv'
  BY <1>2, <1>7 DEF LockInv, callVars
<1>8. ASSUME NEW c \in Coids, VenueStep(c) PROVE UNCHANGED callVars
  BY <1>8 DEF VenueStep, Land, Execute, Expire
<1>9. CASE Reconcile \/ Tick \/ UNCHANGED vars
  BY <1>7, <1>9 DEF Reconcile, ReconcileStart, ReconcileList, ReconcileFail, Mark, Tick, vars
<1> QED
  BY <1>5, <1>6, <1>7, <1>8, <1>9 DEF Next

(* Two calls of one side are never in the critical section together.       *)
LEMMA OneCallPerSide ==
  ASSUME LockInv, NEW c \in Coids, NEW d \in Coids,
         pc[c] \in Critical, pc[d] \in Critical, LockOf(req[c]) = LockOf(req[d])
  PROVE  c = d
BY DEF LockInv

-----------------------------------------------------------------------------
(* Orders in doubt, when no append is lost or torn.                        *)

DurableWrites == FaultKinds \subseteq {"crash", "cancel"}

Early == {"idle", "waiting", "guards", "exits"}
Dispatching == {"sending", "awaiting"}

SentInv == \A c \in Coids : pc[c] \in Dispatching \/ Dispatched(c) => IsSent(journal, c)
FreshInv == \A c \in Coids : pc[c] \in Early => LinesOf(journal, c) = {}
RealInv == \A c \in Coids : AllReal(journal, c)
RequestInv ==
  \A i \in DOMAIN journal :
    journal[i].sent => journal[i].coid \in Coids /\ journal[i].request = req[journal[i].coid]
TodoInv == \A c \in rec.todo : IsSent(journal, c)
GuardInv ==
  \A c \in Coids : pc[c] \in {"exits", "sending"} =>
    \A d \in UnresolvedDispatches(journal) : SameIntent(c, d) => d = c

DoubtInv ==
  /\ torn = FALSE
  /\ SentInv /\ FreshInv /\ RealInv /\ RequestInv /\ TodoInv
  /\ GuardInv /\ OneInDoubtPerIntent

(* A write that does not fail appends its line.                            *)
LEMMA DurableWrite ==
  ASSUME DurableWrites, torn = FALSE, NEW line, Write(line)
  PROVE  journal' = Append(journal, line) /\ torn' = FALSE
<1>1. ~AppendRaises
  BY DEF DurableWrites, AppendRaises, Fault
<1> QED BY <1>1 DEF Write, AppendLine

(* A line the journal guards let pass meets no doubt about its intent.     *)
LEMMA PermittedIsFree ==
  ASSUME RequestInv, NEW c \in Coids, JournalPermits(req[c]),
         NEW d \in UnresolvedDispatches(journal)
  PROVE  ~SameIntent(c, d)
<1>1. PICK i \in LinesOf(journal, d) : journal[i].sent
  BY DEF UnresolvedDispatches, IsSent
<1>2. journal[i].request = req[d]
  BY <1>1 DEF RequestInv, LinesOf
<1>3. ~(journal[i].request.fp = req[c].fp)
  BY <1>1 DEF JournalPermits, HasUnresolvedDispatch
<1> QED BY <1>2, <1>3 DEF SameIntent

(* A call that journals its intent has no line yet, and no order of the    *)
(* same intent is in doubt.                                                *)
LEMMA IntendIsSafe ==
  ASSUME DoubtInv, NEW c \in Coids, Intend(c)
  PROVE  /\ LinesOf(journal, c) = {}
         /\ \A d \in UnresolvedDispatches(journal) : ~SameIntent(c, d)
<1>1. pc[c] \in {"guards", "exits"}
  BY DEF Intend, GuardsPassed
<1>2. LinesOf(journal, c) = {}
  BY <1>1 DEF DoubtInv, FreshInv, Early
<1>3. CASE pc[c] = "guards"
  BY <1>2, <1>3, PermittedIsFree DEF Intend, GuardsPassed, DoubtInv
<1>4. CASE pc[c] = "exits"
  <2>1. c \notin UnresolvedDispatches(journal)
    BY <1>2 DEF UnresolvedDispatches, IsSent
  <2> QED BY <1>2, <1>4, <2>1 DEF DoubtInv, GuardInv
<1> QED BY <1>1, <1>3, <1>4

-----------------------------------------------------------------------------
(* The ways in which a step can touch the journal.                         *)

AnonymousStep ==
  \E line \in Line :
    line.coid = NoCoid /\ ~line.sent /\ journal' = Append(journal, line)

LaterStep ==
  \E c \in Coids, line \in Line :
    /\ line.coid = c /\ ~line.dry /\ (line.sent => line.request = req[c])
    /\ IsSent(journal, c)
    /\ journal' = Append(journal, line)

IntentStep ==
  \E c \in Coids : Intend(c) /\ journal' = Append(journal, IntentLine(c, req[c], now))

JournalStep == journal' = journal \/ AnonymousStep \/ LaterStep \/ IntentStep

(* What a step of a call does to the journal.                              *)
LEMMA CallJournalStep ==
  ASSUME DurableWrites, TypeOK, DoubtInv,
         NEW c \in Coids, Submit(c) \/ CallStep(c) \/ Cancel(c)
  PROVE  JournalStep /\ torn' = FALSE
<1>0. req[c] \in Requests /\ dryRun \in BOOLEAN /\ now \in Nat /\ torn = FALSE
  BY DEF TypeOK, DoubtInv
<1>1. CASE Submit(c) \/ Acquire(c) \/ CheckExits(c) \/ Post(c) \/ Cancel(c)
  BY <1>0, <1>1 DEF Submit, Acquire, CheckExits, Post, Cancel, fileVars, JournalStep
<1>2. CASE Block(c)
  <2> DEFINE line == OutcomeLine(NoCoid, req[c], dryRun, FALSE, FALSE, "error", now)
  <2>1. line \in Line
    BY <1>0, OutcomeLineType DEF Statuses
  <2>2. line.coid = NoCoid /\ ~line.sent
    BY DEF OutcomeLine
  <2>3. journal' = Append(journal, line) /\ torn' = FALSE
    BY <1>0, <1>2, DurableWrite DEF Block, Finish
  <2> QED BY <2>1, <2>2, <2>3 DEF JournalStep, AnonymousStep
<1>3. CASE DryRun(c)
  <2> DEFINE line == OutcomeLine(NoCoid, req[c], TRUE, FALSE, FALSE, "pending", now)
  <2>1. line \in Line
    BY <1>0, OutcomeLineType DEF Statuses
  <2>2. line.coid = NoCoid /\ ~line.sent
    BY DEF OutcomeLine
  <2>3. journal' = Append(journal, line) /\ torn' = FALSE
    BY <1>0, <1>3, DurableWrite DEF DryRun, Finish
  <2> QED BY <2>1, <2>2, <2>3 DEF JournalStep, AnonymousStep
<1>4. CASE Intend(c)
  <2>1. Write(IntentLine(c, req[c], now))
    BY <1>4 DEF Intend
  <2>2. journal' = Append(journal, IntentLine(c, req[c], now)) /\ torn' = FALSE
    BY <1>0, <2>1, DurableWrite
  <2> QED BY <1>4, <2>2 DEF JournalStep, IntentStep
<1>5. ASSUME NEW hasOid \in BOOLEAN, NEW st \in Statuses, pc[c] \in Dispatching,
             Finish(c, OutcomeLine(c, req[c], FALSE, TRUE, hasOid, st, now))
      PROVE  JournalStep /\ torn' = FALSE
  <2> DEFINE line == OutcomeLine(c, req[c], FALSE, TRUE, hasOid, st, now)
  <2>1. line \in Line
    BY <1>0, OutcomeLineType
  <2>2. line.coid = c /\ ~line.dry /\ line.request = req[c]
    BY DEF OutcomeLine
  <2>3. journal' = Append(journal, line) /\ torn' = FALSE
    BY <1>0, <1>5, DurableWrite DEF Finish
  <2>4. IsSent(journal, c)
    BY <1>5 DEF DoubtInv, SentInv
  <2> HIDE DEF line
  <2> QED BY <2>1, <2>2, <2>3, <2>4 DEF JournalStep, LaterStep
<1>6. CASE Ack(c)
  <2>1. AckStatuses(c) \subseteq Statuses
    BY AckStatusType
  <2> QED BY <1>5, <1>6, <2>1 DEF Ack, Dispatching
<1>7. CASE NoAnswer(c)
  <2>1. "error" \in Statuses /\ FALSE \in BOOLEAN
    BY DEF Statuses
  <2> QED BY <1>5, <1>7, <2>1 DEF NoAnswer, Dispatching
<1> QED BY <1>1, <1>2, <1>3, <1>4, <1>6, <1>7 DEF CallStep

(* What a turn of the marking loop does to the journal.                    *)
LEMMA MarkJournalStep ==
  ASSUME DurableWrites, TypeOK, DoubtInv, NEW c \in Coids, Mark(c)
  PROVE  JournalStep /\ torn' = FALSE
<1>1. ~AppendRaises
  BY DEF DurableWrites, AppendRaises, Fault
<1>2. CASE UNCHANGED fileVars
  BY <1>2 DEF fileVars, JournalStep, DoubtInv
<1>3. CASE AppendLine(MarkLine(c))
  <2>1. journal' = Append(journal, MarkLine(c)) /\ torn' = FALSE
    BY <1>3 DEF AppendLine, DoubtInv
  <2>2. \E hasOid \in BOOLEAN, st \in Statuses : MarkLine(c) = ResolutionLine(c, hasOid, st, now)
    <3>1. rec.seen[c] # "absent" => rec.seen[c] \in Statuses
      BY DEF TypeOK, ReconcileStates, Seen, Statuses, TerminalStatuses
    <3>2. "unknown" \in Statuses
      BY DEF Statuses
    <3> QED BY <3>1, <3>2 DEF MarkLine
  <2>3. PICK hasOid \in BOOLEAN, st \in Statuses : MarkLine(c) = ResolutionLine(c, hasOid, st, now)
    BY <2>2
  <2>4. MarkLine(c) \in Line
    BY <2>3, ResolutionLineType DEF TypeOK
  <2>5. MarkLine(c).coid = c /\ ~MarkLine(c).dry /\ ~MarkLine(c).sent
    BY <2>3 DEF ResolutionLine
  <2>6. IsSent(journal, c)
    BY DEF Mark, DoubtInv, TodoInv
  <2> QED BY <2>1, <2>4, <2>5, <2>6 DEF JournalStep, LaterStep
<1> QED BY <1>1, <1>2, <1>3 DEF Mark

(* What any step does to the journal.                                      *)
LEMMA EveryJournalStep ==
  ASSUME DurableWrites, TypeOK, DoubtInv, [Next]_vars
  PROVE  JournalStep /\ torn' = FALSE
<1>0. torn = FALSE
  BY DEF DoubtInv
<1>1. ASSUME NEW c \in Coids, VenueStep(c) PROVE UNCHANGED fileVars
  BY <1>1 DEF VenueStep, Land, Execute, Expire
<1>2. CASE Tick \/ UNCHANGED vars
  BY <1>0, <1>2 DEF Tick, vars, fileVars, JournalStep
<1>3. CASE Crash
  BY <1>0, <1>3 DEF Crash, Fault, DurableWrites, JournalStep
<1>4. CASE Reconcile
  <2>1. CASE \E c \in Coids : Mark(c)
    BY <2>1, MarkJournalStep
  <2>2. CASE ~\E c \in Coids : Mark(c)
    BY <1>0, <1>4, <2>2 DEF Reconcile, ReconcileStart, ReconcileList, ReconcileFail,
                            fileVars, JournalStep
  <2> QED BY <2>1, <2>2
<1>5. UNCHANGED fileVars => JournalStep /\ torn' = FALSE
  BY <1>0 DEF fileVars, JournalStep
<1> QED BY <1>1, <1>2, <1>3, <1>4, <1>5, CallJournalStep DEF Next

(* What the step leaves of the orders in doubt.                            *)
LEMMA DoubtStep ==
  ASSUME TypeOK, DoubtInv, JournalStep
  PROVE  \/ /\ UnresolvedDispatches(journal') = UnresolvedDispatches(journal)
            /\ SettledDispatches(journal') = SettledDispatches(journal)
         \/ \E c \in UnresolvedDispatches(journal) :
              /\ UnresolvedDispatches(journal') = UnresolvedDispatches(journal) \ {c}
              /\ SettledDispatches(journal') = SettledDispatches(journal) \cup {c}
         \/ \E c \in Coids :
              /\ Intend(c)
              /\ UnresolvedDispatches(journal') = UnresolvedDispatches(journal) \cup {c}
              /\ SettledDispatches(journal') = SettledDispatches(journal)
<1>0. journal \in Seq(Line)
  BY DEF TypeOK
<1>1. CASE journal' = journal
  BY <1>1
<1>2. CASE AnonymousStep
  BY <1>0, <1>2, AppendAnonymous DEF AnonymousStep
<1>3. CASE LaterStep
  <2>1. PICK c \in Coids, line \in Line :
          line.coid = c /\ ~line.dry /\ IsSent(journal, c) /\ journal' = Append(journal, line)
    BY <1>3 DEF LaterStep
  <2>2. AllReal(journal, c)
    BY DEF DoubtInv, RealInv
  <2> QED BY <1>0, <2>1, <2>2, AppendLater
<1>4. CASE IntentStep
  <2>1. PICK c \in Coids :
          Intend(c) /\ journal' = Append(journal, IntentLine(c, req[c], now))
    BY <1>4 DEF IntentStep
  <2> DEFINE line == IntentLine(c, req[c], now)
  <2>2. line \in Line
    BY IntentLineType DEF TypeOK
  <2>3. line.coid = c /\ line.sent /\ ~line.dry /\ ~Settles(line)
    BY DEF IntentLine, Settles, TerminalStatuses
  <2>4. LinesOf(journal, c) = {}
    BY <2>1, IntendIsSafe
  <2> HIDE DEF line
  <2>5. /\ UnresolvedDispatches(Append(journal, line)) = UnresolvedDispatches(journal) \cup {c}
        /\ SettledDispatches(Append(journal, line)) = SettledDispatches(journal)
    BY <1>0, <2>2, <2>3, <2>4, AppendIntent
  <2> QED BY <2>1, <2>5 DEF line
<1> QED BY <1>1, <1>2, <1>3, <1>4 DEF JournalStep

-----------------------------------------------------------------------------
(* Where the calls can go in one step.                                     *)

(* How any step moves a call from one part of its course to the next.      *)
LEMMA CallMoves ==
  ASSUME TypeOK, [Next]_vars
  PROVE  /\ req' = req
         /\ \A c \in Coids : pc'[c] \in Early => pc[c] \in Early /\ ~Intend(c)
         /\ \A c \in Coids : pc'[c] \in Dispatching => pc[c] \in Dispatching \/ Intend(c)
         /\ \A c \in Coids : pc'[c] \in {"exits", "sending"} =>
              pc[c] \in {"exits", "sending"} \/ CheckExits(c) \/ Intend(c)
         /\ \A c \in Coids : Dispatched(c)' => Dispatched(c) \/ pc[c] \in Dispatching
<1> DEFINE Goal(c) == /\ pc'[c] \in Early => pc[c] \in Early /\ ~Intend(c)
                      /\ pc'[c] \in Dispatching => pc[c] \in Dispatching \/ Intend(c)
                      /\ pc'[c] \in {"exits", "sending"} =>
                           pc[c] \in {"exits", "sending"} \/ CheckExits(c) \/ Intend(c)
                      /\ Dispatched(c)' => Dispatched(c) \/ pc[c] \in Dispatching
<1>0. req' = req
  BY DEF Next, CallStep, Submit, Acquire, Block, CheckExits, DryRun, Intend, Post, Ack,
         NoAnswer, Finish, Cancel, VenueStep, Land, Execute, Expire, Crash, Tick,
         Reconcile, ReconcileStart, ReconcileList, ReconcileFail, Mark, vars
<1>1. ASSUME NEW d \in Coids PROVE Intend(d) => pc'[d] = "sending"
  BY DEF Intend, Goto, TypeOK
<1> USE DEF Early, Dispatching, Dispatched
<1>2. ASSUME UNCHANGED <<pc, wire, venue>>, NEW c \in Coids PROVE Goal(c)
  BY <1>1, <1>2
<1>3. ASSUME NEW d \in Coids, Submit(d) \/ CallStep(d) \/ Cancel(d), NEW c \in Coids
      PROVE  Goal(c)
  <2> USE DEF Goto, TypeOK
  <2>1. CASE Submit(d)
    BY <1>1, <2>1 DEF Submit, venueVars
  <2>2. CASE Acquire(d)
    BY <1>1, <2>2 DEF Acquire, venueVars
  <2>3. CASE CheckExits(d)
    BY <1>1, <2>3 DEF CheckExits, venueVars
  <2>4. CASE Intend(d)
    BY <1>1, <2>4 DEF Intend, venueVars
  <2>5. CASE Post(d)
    BY <1>1, <2>5 DEF Post
  <2>6. ASSUME NEW line, Finish(d, line) PROVE Goal(c)
    BY <1>1, <2>6 DEF Finish, venueVars
  <2>7. CASE Cancel(d)
    BY <1>1, <2>7 DEF Cancel, venueVars
  <2> QED
    BY <1>3, <2>1, <2>2, <2>3, <2>4, <2>5, <2>6, <2>7 DEF CallStep, Block, DryRun, Ack, NoAnswer
<1>4. ASSUME NEW d \in Coids, VenueStep(d), NEW c \in Coids PROVE Goal(c)
  BY <1>1, <1>4 DEF VenueStep, Land, Execute, Expire, TypeOK, callVars
<1>5. ASSUME Crash, NEW c \in Coids PROVE Goal(c)
  BY <1>1, <1>5 DEF Crash, TypeOK, Critical, venueVars
<1>6. ASSUME Reconcile \/ Tick \/ UNCHANGED vars, NEW c \in Coids PROVE Goal(c)
  <2>1. UNCHANGED <<pc, wire, venue>>
    BY <1>6 DEF Reconcile, ReconcileStart, ReconcileList, ReconcileFail, Mark, Tick,
                vars, callVars, venueVars
  <2> QED BY <1>2, <2>1
<1>7. ASSUME NEW c \in Coids PROVE Goal(c)
  BY <1>3, <1>4, <1>5, <1>6 DEF Next
<1> QED BY <1>0, <1>7

(* An order that has a line keeps one.                                     *)
LEMMA LinesStay ==
  ASSUME TypeOK, DoubtInv, JournalStep, NEW c \in Coids
  PROVE  /\ IsSent(journal, c) => IsSent(journal', c)
         /\ IsResolved(journal, c) => IsResolved(journal', c)
         /\ AllReal(journal, c) => AllReal(journal', c)
         /\ LinesOf(journal, c) = {} /\ ~Intend(c) => LinesOf(journal', c) = {}
<1>0. journal \in Seq(Line)
  BY DEF TypeOK
<1>1. ASSUME NEW line \in Line, journal' = Append(journal, line), line.coid # c
      PROVE  /\ IsSent(journal', c) <=> IsSent(journal, c)
             /\ IsResolved(journal', c) <=> IsResolved(journal, c)
             /\ AllReal(journal', c) <=> AllReal(journal, c)
             /\ LinesOf(journal', c) = LinesOf(journal, c)
  BY <1>0, <1>1, AppendedOther, AppendedLinesOf
<1>2. ASSUME NEW line \in Line, journal' = Append(journal, line), line.coid = c, ~line.dry
      PROVE  /\ IsSent(journal', c) <=> IsSent(journal, c) \/ line.sent
             /\ IsResolved(journal, c) => IsResolved(journal', c)
             /\ AllReal(journal', c) <=> AllReal(journal, c)
  BY <1>0, <1>2, AppendedOwn
<1>3. CASE journal' = journal
  BY <1>3
<1>4. CASE AnonymousStep
  <2>1. PICK line \in Line : line.coid = NoCoid /\ journal' = Append(journal, line)
    BY <1>4 DEF AnonymousStep
  <2>2. line.coid # c
    BY <2>1, CoidAssumption
  <2> QED BY <1>1, <2>1, <2>2
<1>5. CASE LaterStep
  <2>1. PICK d \in Coids, line \in Line :
          /\ line.coid = d /\ ~line.dry /\ IsSent(journal, d)
          /\ journal' = Append(journal, line)
    BY <1>5 DEF LaterStep
  <2>2. LinesOf(journal, d) # {}
    BY <2>1 DEF IsSent
  <2> QED BY <1>1, <1>2, <2>1, <2>2
<1>6. CASE IntentStep
  <2>1. PICK d \in Coids :
          Intend(d) /\ journal' = Append(journal, IntentLine(d, req[d], now))
    BY <1>6 DEF IntentStep
  <2> DEFINE line == IntentLine(d, req[d], now)
  <2>2. line \in Line
    BY IntentLineType DEF TypeOK
  <2>3. line.coid = d /\ line.sent /\ ~line.dry
    BY DEF IntentLine
  <2> HIDE DEF line
  <2>4. journal' = Append(journal, line)
    BY <2>1 DEF line
  <2> QED BY <1>1, <1>2, <2>1, <2>2, <2>3, <2>4
<1> QED BY <1>3, <1>4, <1>5, <1>6 DEF JournalStep

(* A call that starts sending has just journaled its intent.               *)
LEMMA IntendJournals ==
  ASSUME DurableWrites, TypeOK, DoubtInv, NEW c \in Coids, Intend(c)
  PROVE  IsSent(journal', c)
<1> DEFINE line == IntentLine(c, req[c], now)
<1>1. line \in Line
  BY IntentLineType DEF TypeOK
<1>2. line.coid = c /\ line.sent
  BY DEF IntentLine
<1>3. journal' = Append(journal, line)
  BY DurableWrite DEF Intend, DoubtInv
<1> HIDE DEF line
<1> QED BY <1>1, <1>2, <1>3, AppendedOwn DEF TypeOK

(* A line that says an order was sent carries that order's request.        *)
LEMMA RequestsStay ==
  ASSUME TypeOK, DoubtInv, JournalStep, req' = req
  PROVE  RequestInv'
<1>0. journal \in Seq(Line)
  BY DEF TypeOK
<1>1. CASE journal' = journal
  BY <1>1 DEF DoubtInv, RequestInv
<1>2. ASSUME NEW line \in Line, journal' = Append(journal, line),
             line.sent => line.coid \in Coids /\ line.request = req[line.coid]
      PROVE  RequestInv'
  <2>1. \A i \in DOMAIN journal' :
           \/ i \in DOMAIN journal /\ journal'[i] = journal[i]
           \/ journal'[i] = line
    BY <1>0, <1>2, Appended
  <2> QED BY <1>2, <2>1 DEF DoubtInv, RequestInv
<1>3. CASE AnonymousStep
  BY <1>2, <1>3 DEF AnonymousStep
<1>4. CASE LaterStep
  BY <1>2, <1>4 DEF LaterStep
<1>5. CASE IntentStep
  <2>1. PICK c \in Coids : journal' = Append(journal, IntentLine(c, req[c], now))
    BY <1>5 DEF IntentStep
  <2>2. IntentLine(c, req[c], now) \in Line
    BY IntentLineType DEF TypeOK
  <2>3. IntentLine(c, req[c], now).coid = c /\ IntentLine(c, req[c], now).request = req[c]
    BY DEF IntentLine
  <2> QED BY <1>2, <2>1, <2>2, <2>3
<1> QED BY <1>1, <1>3, <1>4, <1>5 DEF JournalStep

(* What reconciliation has to look at was dispatched.                      *)
LEMMA TodoStays ==
  ASSUME TypeOK, DoubtInv, JournalStep, [Next]_vars
  PROVE  TodoInv'
<1>1. \A c \in rec'.todo : c \in Coids /\ IsSent(journal, c)
  <2>1. ASSUME rec'.todo \subseteq rec.todo \/ rec'.todo \subseteq UnresolvedDispatches(journal)
        PROVE  \A c \in rec'.todo : c \in Coids /\ IsSent(journal, c)
    <3>1. rec.todo \subseteq Coids
      BY DEF TypeOK, ReconcileStates
    <3> QED BY <2>1, <3>1 DEF DoubtInv, TodoInv, UnresolvedDispatches
  <2>2. ASSUME rec' = rec \/ rec' = IdleReconcile PROVE rec'.todo \subseteq rec.todo
    BY <2>2 DEF IdleReconcile
  <2>3. ASSUME NEW c \in Coids, Submit(c) \/ CallStep(c) \/ Cancel(c) \/ VenueStep(c)
        PROVE  rec' = rec
    BY <2>3 DEF CallStep, Submit, Acquire, Block, CheckExits, DryRun, Intend, Post, Ack,
                NoAnswer, Finish, Cancel, VenueStep, Land, Execute, Expire
  <2>4. ASSUME NEW force \in ResolveMissing, ReconcileStart(force)
        PROVE  rec'.todo \subseteq UnresolvedDispatches(journal)
    BY <2>4 DEF ReconcileStart, IdleReconcile
  <2>5. CASE ReconcileList
    BY <2>1, <2>5 DEF ReconcileList, TypeOK, ReconcileStates
  <2>6. ASSUME NEW c \in Coids, Mark(c) PROVE rec'.todo \subseteq rec.todo
    <3>1. [rec EXCEPT !.pc = "marking", !.todo = @ \ {c}].todo \subseteq rec.todo
      BY DEF TypeOK, ReconcileStates
    <3> QED BY <2>2, <2>6, <3>1 DEF Mark
  <2>7. CASE ReconcileFail \/ Crash \/ Tick \/ UNCHANGED vars
    <3>1. rec' = rec \/ rec' = IdleReconcile
      BY <2>7 DEF ReconcileFail, Crash, Tick, vars
    <3> QED BY <2>1, <2>2, <3>1
  <2>8. CASE Reconcile
    BY <2>1, <2>4, <2>5, <2>6, <2>7, <2>8 DEF Reconcile
  <2>9. CASE \E c \in Coids : Submit(c) \/ CallStep(c) \/ Cancel(c) \/ VenueStep(c)
    BY <2>1, <2>2, <2>3, <2>9
  <2> QED BY <2>7, <2>8, <2>9 DEF Next
<1> QED BY <1>1, LinesStay DEF TodoInv

(* Nobody else of its intent is in doubt while a call is past the journal. *)
LEMMA GuardStays ==
  ASSUME DurableWrites, TypeOK, LockInv, DoubtInv, JournalStep, [Next]_vars
  PROVE  GuardInv' /\ OneInDoubtPerIntent'
<1>1. req' = req
  BY CallMoves
<1>2. \/ UnresolvedDispatches(journal') \subseteq UnresolvedDispatches(journal)
      \/ \E e \in Coids : /\ Intend(e)
                          /\ UnresolvedDispatches(journal') =
                               UnresolvedDispatches(journal) \cup {e}
  BY DoubtStep
<1>3. UnresolvedDispatches(journal) \subseteq Coids
  BY DEF UnresolvedDispatches
<1>4. ASSUME NEW c \in Coids, pc'[c] \in {"exits", "sending"},
             NEW d \in UnresolvedDispatches(journal), SameIntent(c, d)
      PROVE  d = c
  <2>1. CASE pc[c] \in {"exits", "sending"}
    BY <1>4, <2>1 DEF DoubtInv, GuardInv
  <2>2. CASE CheckExits(c)
    BY <1>4, <2>2, PermittedIsFree DEF CheckExits, DoubtInv
  <2>3. CASE Intend(c)
    BY <1>4, <2>3, IntendIsSafe
  <2> QED BY <1>4, <2>1, <2>2, <2>3, CallMoves
<1>5. ASSUME NEW c \in Coids, pc'[c] \in {"exits", "sending"},
             NEW e \in Coids, Intend(e), SameIntent(c, e)
      PROVE  e = c
  <2>1. pc[e] \in Critical
    BY <1>5 DEF Intend, GuardsPassed, Critical
  <2>2. pc[c] \in Critical
    <3>1. pc[c] \in {"exits", "sending"} \/ CheckExits(c) \/ Intend(c)
      BY <1>5, CallMoves
    <3> QED BY <3>1 DEF CheckExits, Intend, GuardsPassed, Critical
  <2>3. LockOf(req[c]) = LockOf(req[e])
    BY <1>5, RequestAssumption DEF SameIntent, LockOf, TypeOK
  <2> QED BY <2>1, <2>2, <2>3, OneCallPerSide
<1>6. \A c, d \in Coids : SameIntent(c, d)' <=> SameIntent(c, d)
  BY <1>1 DEF SameIntent
<1>7. GuardInv'
  BY <1>2, <1>3, <1>4, <1>5, <1>6 DEF GuardInv
<1>8. OneInDoubtPerIntent'
  <2>1. CASE UnresolvedDispatches(journal') \subseteq UnresolvedDispatches(journal)
    BY <1>3, <1>6, <2>1 DEF DoubtInv, OneInDoubtPerIntent
  <2>2. ASSUME NEW e \in Coids, Intend(e),
               UnresolvedDispatches(journal') = UnresolvedDispatches(journal) \cup {e}
        PROVE  OneInDoubtPerIntent'
    <3>1. \A d \in UnresolvedDispatches(journal) : ~SameIntent(e, d) /\ ~SameIntent(d, e)
      BY <2>2, IntendIsSafe DEF SameIntent
    <3> QED BY <1>3, <1>6, <2>2, <3>1 DEF DoubtInv, OneInDoubtPerIntent
  <2> QED BY <1>2, <2>1, <2>2
<1> QED BY <1>7, <1>8

(* Every step keeps the inductive invariant.                               *)
LEMMA DoubtInvInductive ==
  ASSUME DurableWrites, TypeOK, LockInv, DoubtInv, [Next]_vars
  PROVE  DoubtInv'
<1>1. JournalStep /\ torn' = FALSE
  BY EveryJournalStep
<1>2. SentInv'
  <2>1. ASSUME NEW c \in Coids, pc'[c] \in Dispatching \/ Dispatched(c)'
        PROVE  IsSent(journal', c)
    <3>1. pc[c] \in Dispatching \/ Dispatched(c) \/ Intend(c)
      BY <2>1, CallMoves
    <3>2. CASE pc[c] \in Dispatching \/ Dispatched(c)
      BY <1>1, <3>2, LinesStay DEF DoubtInv, SentInv
    <3>3. CASE Intend(c)
      BY <3>3, IntendJournals
    <3> QED BY <3>1, <3>2, <3>3
  <2> QED BY <2>1 DEF SentInv
<1>3. FreshInv'
  <2>1. ASSUME NEW c \in Coids, pc'[c] \in Early PROVE LinesOf(journal', c) = {}
    <3>1. pc[c] \in Early /\ ~Intend(c)
      BY <2>1, CallMoves
    <3> QED BY <1>1, <3>1, LinesStay DEF DoubtInv, FreshInv
  <2> QED BY <2>1 DEF FreshInv
<1>4. RealInv'
  BY <1>1, LinesStay DEF DoubtInv, RealInv
<1>5. RequestInv' /\ TodoInv'
  BY <1>1, RequestsStay, TodoStays, CallMoves
<1>6. GuardInv' /\ OneInDoubtPerIntent'
  BY <1>1, GuardStays
<1> QED BY <1>1, <1>2, <1>3, <1>4, <1>5, <1>6 DEF DoubtInv

(* The inductive invariant holds at the start.                             *)
LEMMA DoubtInit == Init => LockInv /\ DoubtInv
<1> SUFFICES ASSUME Init PROVE LockInv /\ DoubtInv
  OBVIOUS
<1>1. LockInv
  BY DEF Init, LockInv, Critical
<1>2. \A c : LinesOf(journal, c) = {}
  BY DEF Init, LinesOf
<1>3. SentInv /\ FreshInv /\ RealInv
  BY <1>2 DEF Init, SentInv, FreshInv, RealInv, AllReal, Dispatching, Dispatched
<1>4. RequestInv /\ TodoInv
  BY DEF Init, RequestInv, TodoInv, IdleReconcile
<1>5. UnresolvedDispatches(journal) = {}
  BY <1>2 DEF UnresolvedDispatches, IsSent
<1>6. GuardInv /\ OneInDoubtPerIntent
  BY <1>5 DEF GuardInv, OneInDoubtPerIntent
<1> QED BY <1>1, <1>3, <1>4, <1>6 DEF Init, DoubtInv

(* The inductive invariant behind the theorems that follow.                *)
THEOREM DoubtInvariant ==
  ASSUME DurableWrites
  PROVE  Spec => [](LockInv /\ DoubtInv)
<1>1. TypeOK /\ LockInv /\ DoubtInv /\ [Next]_vars => (LockInv /\ DoubtInv)'
  BY LockInvInductive, DoubtInvInductive
<1> QED BY <1>1, DoubtInit, TypeCorrect, PTL DEF Spec

(* While appends reach the disk whole, no crash and no cancelled task      *)
(* hides an order that left for the venue.                                 *)
THEOREM NoOrderIsHidden ==
  ASSUME DurableWrites
  PROVE  Spec => []NoHiddenOrder
<1>1. DoubtInv => NoHiddenOrder
  BY DEF DoubtInv, SentInv, NoHiddenOrder
<1> QED BY <1>1, DoubtInvariant, PTL

(* At most one order of an intent is in doubt.                             *)
THEOREM OneDoubtfulOrder ==
  ASSUME DurableWrites
  PROVE  Spec => []OneInDoubtPerIntent
<1>1. DoubtInv => OneInDoubtPerIntent
  BY DEF DoubtInv
<1> QED BY <1>1, DoubtInvariant, PTL

(* A request leaves for the venue only when every other order of the same  *)
(* intent that may be there has been accounted for.                        *)
THEOREM NeverResentBlindly ==
  ASSUME DurableWrites
  PROVE  Spec => NoBlindResend
<1> DEFINE Step == \A c, d \in Coids :
                     /\ c \notin wire /\ c \in wire'
                     /\ d # c /\ SameIntent(c, d) /\ Dispatched(d)
                     => IsResolved(journal, d)
<1>1. TypeOK /\ DoubtInv /\ [Next]_vars => [Step]_vars
  <2> SUFFICES ASSUME TypeOK, DoubtInv, [Next]_vars,
                      NEW c \in Coids, NEW d \in Coids, c \notin wire, c \in wire',
                      d # c, SameIntent(c, d), Dispatched(d)
               PROVE  IsResolved(journal, d)
    OBVIOUS
  <2>1. pc[c] = "sending"
    <3>1. ASSUME NEW e \in Coids, Submit(e) \/ CallStep(e) \/ Cancel(e), ~Post(e) PROVE FALSE
      BY <3>1, OnlyPostReaches DEF venueVars
    <3>2. ASSUME NEW e \in Coids, Post(e) PROVE pc[c] = "sending"
      BY <3>2 DEF Post
    <3>3. ASSUME NEW e \in Coids, VenueStep(e) PROVE FALSE
      BY <3>3 DEF VenueStep, Land, Execute, Expire
    <3>4. CASE Reconcile \/ Crash \/ Tick \/ UNCHANGED vars
      <4>1. wire' = wire
        BY <3>4 DEF Reconcile, ReconcileStart, ReconcileList, ReconcileFail, Mark, Crash,
                    Tick, vars, venueVars
      <4> QED BY <4>1
    <3> QED BY <3>1, <3>2, <3>3, <3>4 DEF Next
  <2>2. d \notin UnresolvedDispatches(journal)
    BY <2>1 DEF DoubtInv, GuardInv
  <2>3. IsSent(journal, d) /\ AllReal(journal, d)
    BY DEF DoubtInv, SentInv, RealInv
  <2> QED BY <2>2, <2>3 DEF UnresolvedDispatches, AllReal
<1> QED BY <1>1, DoubtInvariant, TypeCorrect, PTL DEF Spec, NoBlindResend

(* The guard implements IdempotentOrders.                                  *)
THEOREM ImplementsIdeal ==
  ASSUME DurableWrites
  PROVE  Spec => Idempotent
<1>1. Init => Ideal!Init
  <2> SUFFICES ASSUME Init PROVE Ideal!Init
    OBVIOUS
  <2>1. \A c : ~IsSent(journal, c)
    BY DEF Init, IsSent, LinesOf
  <2> QED BY <2>1 DEF Ideal!Init, UnresolvedDispatches
<1>2. TypeOK /\ LockInv /\ DoubtInv /\ [Next]_vars => [Ideal!Next]_(Ideal!idealVars)
  <2> SUFFICES ASSUME TypeOK, LockInv, DoubtInv, [Next]_vars
               PROVE  [Ideal!Next]_(Ideal!idealVars)
    OBVIOUS
  <2> USE DEF SettledDispatches
  <2>1. JournalStep /\ req' = req
    BY EveryJournalStep, CallMoves
  <2>2. CASE /\ UnresolvedDispatches(journal') = UnresolvedDispatches(journal)
             /\ SettledDispatches(journal') = SettledDispatches(journal)
    BY <2>1, <2>2 DEF Ideal!idealVars
  <2>3. ASSUME NEW c \in UnresolvedDispatches(journal),
               UnresolvedDispatches(journal') = UnresolvedDispatches(journal) \ {c},
               SettledDispatches(journal') = SettledDispatches(journal) \cup {c}
        PROVE  Ideal!Next
    <3>1. c \in Coids
      BY DEF UnresolvedDispatches
    <3>2. Ideal!Settle(c)
      BY <2>1, <2>3 DEF Ideal!Settle
    <3> QED BY <3>1, <3>2 DEF Ideal!Next
  <2>4. ASSUME NEW c \in Coids, Intend(c),
               UnresolvedDispatches(journal') = UnresolvedDispatches(journal) \cup {c},
               SettledDispatches(journal') = SettledDispatches(journal)
        PROVE  Ideal!Next
    <3>1. ~IsSent(journal, c)
      BY <2>4, IntendIsSafe DEF IsSent
    <3>2. \A d \in UnresolvedDispatches(journal) : d \in Coids /\ req[d].fp # req[c].fp
      BY <2>4, IntendIsSafe DEF SameIntent, UnresolvedDispatches
    <3>3. Ideal!Place(c)
      BY <2>1, <2>4, <3>1, <3>2 DEF Ideal!Place, UnresolvedDispatches
    <3> QED BY <3>3 DEF Ideal!Next
  <2> QED BY <2>1, <2>2, <2>3, <2>4, DoubtStep
<1> QED BY <1>1, <1>2, DoubtInvariant, TypeCorrect, PTL DEF Spec, Idempotent, Ideal!Spec

-----------------------------------------------------------------------------
(* The journal whatever fails: appends may be lost or torn from here on.   *)

(* A line as a step may write it: stamped with the time, with its order's  *)
(* request, and sent only for a call that is dispatching.                  *)
Written(line) ==
  /\ line.time = now
  /\ line.coid \in Coids /\ line.kind # "resolution" => line.request = req[line.coid]
  /\ line.sent => /\ line.coid \in Coids /\ line.kind # "resolution"
                  /\ Intend(line.coid) \/ pc[line.coid] \in Dispatching

(* What any step of a call does to the journal.                            *)
LEMMA CallWrites ==
  ASSUME TypeOK, NEW c \in Coids, Submit(c) \/ CallStep(c) \/ Cancel(c)
  PROVE  \/ journal' = journal
         \/ \E line \in Line : Written(line) /\ journal' = Append(journal, line)
<1> DEFINE Goal == \/ journal' = journal
                   \/ \E line \in Line : Written(line) /\ journal' = Append(journal, line)
<1>0. req[c] \in Requests /\ dryRun \in BOOLEAN /\ now \in Nat
  BY DEF TypeOK
<1>1. ASSUME NEW line \in Line, Written(line), Write(line) PROVE Goal
  BY <1>1, WriteAppends
<1>2. CASE Submit(c) \/ Acquire(c) \/ CheckExits(c) \/ Post(c) \/ Cancel(c)
  BY <1>2 DEF Submit, Acquire, CheckExits, Post, Cancel, fileVars
<1>3. CASE Block(c)
  <2> DEFINE line == OutcomeLine(NoCoid, req[c], dryRun, FALSE, FALSE, "error", now)
  <2>1. line \in Line
    BY <1>0, OutcomeLineType DEF Statuses
  <2>2. Written(line)
    BY CoidAssumption DEF Written, OutcomeLine
  <2> QED BY <1>1, <1>3, <2>1, <2>2 DEF Block, Finish
<1>4. CASE DryRun(c)
  <2> DEFINE line == OutcomeLine(NoCoid, req[c], TRUE, FALSE, FALSE, "pending", now)
  <2>1. line \in Line
    BY <1>0, OutcomeLineType DEF Statuses
  <2>2. Written(line)
    BY CoidAssumption DEF Written, OutcomeLine
  <2> QED BY <1>1, <1>4, <2>1, <2>2 DEF DryRun, Finish
<1>5. CASE Intend(c)
  <2> DEFINE line == IntentLine(c, req[c], now)
  <2>1. line \in Line
    BY <1>0, IntentLineType
  <2>2. Written(line)
    BY <1>5 DEF Written, IntentLine
  <2> QED BY <1>1, <1>5, <2>1, <2>2 DEF Intend
<1>6. ASSUME NEW hasOid \in BOOLEAN, NEW st \in Statuses, pc[c] \in Dispatching,
             Finish(c, OutcomeLine(c, req[c], FALSE, TRUE, hasOid, st, now))
      PROVE  Goal
  <2> DEFINE line == OutcomeLine(c, req[c], FALSE, TRUE, hasOid, st, now)
  <2>1. line \in Line
    BY <1>0, OutcomeLineType
  <2>2. Written(line)
    BY <1>6 DEF Written, OutcomeLine
  <2> QED BY <1>1, <1>6, <2>1, <2>2 DEF Finish
<1>7. CASE Ack(c)
  <2>1. AckStatuses(c) \subseteq Statuses
    BY AckStatusType
  <2> QED BY <1>6, <1>7, <2>1 DEF Ack, Dispatching
<1>8. CASE NoAnswer(c)
  <2>1. "error" \in Statuses /\ FALSE \in BOOLEAN
    BY DEF Statuses
  <2> QED BY <1>6, <1>8, <2>1 DEF NoAnswer, Dispatching
<1> QED BY <1>2, <1>3, <1>4, <1>5, <1>7, <1>8 DEF CallStep

(* What a turn of the marking loop does to the journal.                    *)
LEMMA MarkWrites ==
  ASSUME TypeOK, NEW c \in Coids, Mark(c)
  PROVE  \/ journal' = journal
         \/ \E line \in Line : Written(line) /\ journal' = Append(journal, line)
<1>1. \E hasOid \in BOOLEAN, st \in Statuses : MarkLine(c) = ResolutionLine(c, hasOid, st, now)
  <2>1. rec.seen[c] # "absent" => rec.seen[c] \in Statuses
    BY DEF TypeOK, ReconcileStates, Seen, Statuses, TerminalStatuses
  <2>2. "unknown" \in Statuses
    BY DEF Statuses
  <2> QED BY <2>1, <2>2 DEF MarkLine
<1>2. PICK hasOid \in BOOLEAN, st \in Statuses : MarkLine(c) = ResolutionLine(c, hasOid, st, now)
  BY <1>1
<1>3. MarkLine(c) \in Line
  BY <1>2, ResolutionLineType DEF TypeOK
<1>4. Written(MarkLine(c))
  BY <1>2 DEF Written, ResolutionLine
<1>5. Write(MarkLine(c)) \/ journal' = journal
  BY DEF Mark, Write, fileVars
<1> QED BY <1>3, <1>4, <1>5, WriteAppends

(* What any step does to the journal and to the clock.                     *)
LEMMA EveryStepWrites ==
  ASSUME TypeOK, [Next]_vars
  PROVE  \/ /\ now' = now
            /\ \/ journal' = journal
               \/ \E line \in Line : Written(line) /\ journal' = Append(journal, line)
         \/ Tick
<1>1. ASSUME NEW c \in Coids, Submit(c) \/ CallStep(c) \/ Cancel(c) PROVE now' = now
  BY <1>1 DEF CallStep, Submit, Acquire, Block, CheckExits, DryRun, Intend, Post, Ack,
              NoAnswer, Finish, Cancel
<1>2. ASSUME NEW c \in Coids, VenueStep(c) PROVE now' = now /\ journal' = journal
  BY <1>2 DEF VenueStep, Land, Execute, Expire, fileVars
<1>3. CASE Crash \/ UNCHANGED vars
  BY <1>3 DEF Crash, vars, fileVars
<1>4. ASSUME NEW c \in Coids, Mark(c) PROVE now' = now
  BY <1>4 DEF Mark
<1>5. CASE Reconcile /\ ~\E c \in Coids : Mark(c)
  BY <1>5 DEF Reconcile, ReconcileStart, ReconcileList, ReconcileFail, fileVars
<1>6. CASE Tick
  BY <1>6
<1> QED BY <1>1, <1>2, <1>3, <1>4, <1>5, <1>6, CallWrites, MarkWrites DEF Next
BookInv ==
  /\ CarriesRequests(journal, req)
  /\ \A i \in DOMAIN journal : journal[i].time <= now

(* The call has passed the journal guards, and the file does not say yet   *)
(* that its order was sent.                                                *)
Pending(c) ==
  pc[c] = "exits" \/ (pc[c] \in Dispatching /\ ~IsSent(journal, c))

(* Its next step may be the one that has the file say so.                  *)
Cleared(c) == Pending(c) \/ (pc[c] = "guards" /\ JournalPermits(req[c]))

(* Every step keeps the lines true to their requests and to the clock.     *)
LEMMA BookInvInductive ==
  ASSUME TypeOK, BookInv, [Next]_vars
  PROVE  BookInv'
<1>1. req' = req
  BY CallMoves
<1>2. CASE Tick
  <2>1. journal' = journal /\ now' = now + 1
    BY <1>2 DEF Tick, fileVars
  <2>2. \A i \in DOMAIN journal : journal[i].time \in Nat
    <3>1. \A i \in DOMAIN journal : journal[i] \in Line
      BY DEF TypeOK
    <3> QED BY <3>1 DEF Line
  <2> QED BY <1>1, <2>1, <2>2 DEF BookInv, TypeOK
<1>3. CASE now' = now /\ journal' = journal
  BY <1>1, <1>3 DEF BookInv
<1>4. ASSUME NEW line \in Line, Written(line), journal' = Append(journal, line), now' = now
      PROVE  BookInv'
  <2>1. \A i \in DOMAIN journal' :
           \/ i \in DOMAIN journal /\ journal'[i] = journal[i]
           \/ journal'[i] = line
    BY <1>4, Appended DEF TypeOK
  <2>2. line.time <= now
    BY <1>4 DEF Written, TypeOK
  <2>3. CarriesRequests(journal', req)
    BY <1>4, <2>1 DEF BookInv, CarriesRequests, Written
  <2> QED BY <1>1, <1>4, <2>1, <2>2, <2>3 DEF BookInv
<1> QED BY <1>2, <1>3, <1>4, EveryStepWrites

(* A call past the journal guards got there by passing them.               *)
LEMMA PendingWasCleared ==
  ASSUME TypeOK, [Next]_vars, NEW c \in Coids, Pending(c)'
  PROVE  /\ Cleared(c)
         /\ IsSent(journal', c) => pc[c] \in Early /\ ~Intend(c)
<1>1. \/ journal' = journal
      \/ \E line \in Line : journal' = Append(journal, line)
  BY EveryStepWrites DEF Tick, fileVars
<1>2. IsSent(journal, c) => IsSent(journal', c)
  BY <1>1, FirstSentStays DEF TypeOK
<1>3. pc'[c] = "exits" \/ (pc'[c] \in Dispatching /\ ~IsSent(journal', c))
  BY DEF Pending
<1>4. ASSUME Intend(c) PROVE Cleared(c)
  BY <1>4 DEF Intend, GuardsPassed, Cleared, Pending
<1>5. CASE pc'[c] = "exits"
  <2>1. pc[c] \in Early /\ ~Intend(c)
    BY <1>5, CallMoves DEF Early
  <2>2. pc[c] \in {"exits", "sending"} \/ CheckExits(c)
    BY <1>5, <2>1, CallMoves
  <2>3. Cleared(c)
    BY <2>1, <2>2 DEF Early, CheckExits, Cleared, Pending
  <2> QED BY <2>1, <2>3
<1>6. CASE pc'[c] \in Dispatching /\ ~IsSent(journal', c)
  <2>1. pc[c] \in Dispatching \/ Intend(c)
    BY <1>6, CallMoves
  <2> QED BY <1>2, <1>4, <1>6, <2>1 DEF Cleared, Pending
<1> QED BY <1>3, <1>5, <1>6

(* An order the file says was sent stays so, from the same line on.        *)
LEMMA SentForGood ==
  ASSUME TypeOK, [Next]_vars, NEW c \in Coids
  PROVE  /\ IsSent(journal, c) =>
              IsSent(journal', c) /\ FirstSent(journal', c) = FirstSent(journal, c)
         /\ IsFreed(journal, c) => IsFreed(journal', c)
<1>1. \/ journal' = journal
      \/ \E line \in Line : journal' = Append(journal, line)
  BY EveryStepWrites DEF Tick, fileVars
<1> QED BY <1>1, FirstSentStays, FreedStays DEF TypeOK

(* The line that first says an order was sent is of the present and of a   *)
(* call that the guards have let pass.                                     *)
LEMMA FirstSaid ==
  ASSUME TypeOK, [Next]_vars, NEW c \in Coids, ~IsSent(journal, c), IsSent(journal', c)
  PROVE  /\ Cleared(c) /\ ~Pending(c)'
         /\ now' = now /\ FirstSent(journal', c).time = now
<1>1. journal' # journal
  OBVIOUS
<1>2. now' = now
  BY <1>1, EveryStepWrites DEF Tick, fileVars
<1>3. PICK line \in Line : Written(line) /\ journal' = Append(journal, line)
  BY <1>1, EveryStepWrites DEF Tick, fileVars
<1>4. line.coid = c /\ line.sent
  BY <1>3, UnsentAppended DEF TypeOK
<1>5. FirstSent(journal', c) = line
  BY <1>3, <1>4, FirstSentAppended DEF TypeOK
<1>6. Intend(c) \/ pc[c] \in Dispatching
  BY <1>3, <1>4 DEF Written
<1>7. Cleared(c)
  BY <1>6 DEF Cleared, Pending, Intend, GuardsPassed
<1>8. ~(pc[c] \in Early /\ ~Intend(c))
  BY <1>6 DEF Early, Dispatching
<1> QED BY <1>2, <1>3, <1>5, <1>7, <1>8, PendingWasCleared DEF Written

(* The lock lets one call of a side at a time be past the guards.          *)
LEMMA OneCleared ==
  ASSUME LockInv, NEW c \in Coids, NEW d \in Coids, Cleared(c), Cleared(d),
         LockOf(req[c]) = LockOf(req[d])
  PROVE  c = d
<1>1. pc[c] \in Critical /\ pc[d] \in Critical
  BY DEF Cleared, Pending, Dispatching, Critical
<1> QED BY <1>1, OneCallPerSide
-----------------------------------------------------------------------------
(* The daily cap.                                                          *)

(* What the buys that a journal first names on a day can still spend.      *)
Spend(j, day) == SumFunctionOnSet(Notionals(req), Committed(j, req, day))

HasRoom(c) ==
  req[c].side = "BUY" /\ req[c].notional > 0 =>
    Spend(journal, Day(now)) + req[c].notional <= MaxDailyValue

BudgetInv ==
  /\ \A day \in Nat : Spend(journal, day) <= MaxDailyValue
  /\ \A c \in Coids : Pending(c) => HasRoom(c)

(* The buys of a day are finitely many and their sum is a natural number.  *)
LEMMA SpendType ==
  ASSUME TypeOK, NEW day
  PROVE  /\ IsFiniteSet(Committed(journal, req, day))
         /\ \A c \in Coids : Notionals(req)[c] = req[c].notional /\ req[c].notional \in Nat
         /\ Committed(journal, req, day) \subseteq Coids
         /\ Spend(journal, day) \in Nat
<1>1. Committed(journal, req, day) \subseteq Coids
  BY DEF Committed
<1>2. IsFiniteSet(Committed(journal, req, day))
  <2>1. \A c \in Committed(journal, req, day) : LinesOf(journal, c) # {}
    BY DEF Committed, IsSent
  <2> QED BY <1>1, <2>1, OrdersAreFinite DEF TypeOK
<1>3. \A c \in Coids : Notionals(req)[c] = req[c].notional /\ req[c].notional \in Nat
  BY RequestAssumption DEF Notionals, TypeOK
<1>4. Spend(journal, day) \in Nat
  BY <1>1, <1>2, <1>3, SumType DEF Spend
<1> QED BY <1>1, <1>2, <1>3, <1>4

(* The guard leaves room for the buy it lets pass.                         *)
LEMMA ClearedHasRoom ==
  ASSUME TypeOK, BookInv, BudgetInv, NEW c \in Coids, Cleared(c)
  PROVE  HasRoom(c)
<1>1. CASE Pending(c)
  BY <1>1 DEF BudgetInv
<1>2. CASE JournalPermits(req[c])
  <2> SUFFICES ASSUME req[c].side = "BUY", req[c].notional > 0
               PROVE  Spend(journal, Day(now)) + req[c].notional <= MaxDailyValue
    BY DEF HasRoom
  <2>1. SpentOn(journal, Day(now)) + req[c].notional <= MaxDailyValue
    BY <1>2 DEF JournalPermits, WithinDailyLimit
  <2>2. Spend(journal, Day(now)) <= SpentOn(journal, Day(now))
    BY CommittedIsSpent DEF Spend, BookInv, TypeOK
  <2>3. Spend(journal, Day(now)) \in Nat /\ req[c].notional \in Nat /\ MaxDailyValue \in Nat
    BY SpendType, LimitAssumption
  <2>4. SpentOn(journal, Day(now)) \in Nat
    BY CommittedIsSpent DEF BookInv, TypeOK
  <2> QED BY <2>1, <2>2, <2>3, <2>4
<1> QED BY <1>1, <1>2 DEF Cleared


(* A day's charge grows by the orders that a step has the file first name. *)
LEMMA CommittedStep ==
  ASSUME TypeOK, [Next]_vars
  PROVE  \A day : \A c \in Committed(journal', req, day) :
           \/ c \in Committed(journal, req, day)
           \/ /\ ~IsSent(journal, c) /\ IsSent(journal', c)
              /\ req[c].side = "BUY" /\ day = Day(now)
<1> SUFFICES ASSUME NEW day, NEW c \in Committed(journal', req, day)
             PROVE  \/ c \in Committed(journal, req, day)
                    \/ /\ ~IsSent(journal, c) /\ IsSent(journal', c)
                       /\ req[c].side = "BUY" /\ day = Day(now)
  OBVIOUS
<1>1. /\ c \in Coids /\ IsSent(journal', c) /\ ~IsFreed(journal', c)
      /\ req[c].side = "BUY" /\ Day(FirstSent(journal', c).time) = day
  BY DEF Committed
<1>2. CASE IsSent(journal, c)
  BY <1>1, <1>2, SentForGood DEF Committed
<1>3. CASE ~IsSent(journal, c)
  BY <1>1, <1>3, FirstSaid
<1> QED BY <1>2, <1>3

(* A day on which no further buy is named is charged no more.              *)
LEMMA NothingSpent ==
  ASSUME TypeOK, NEW j, NEW day, Committed(j, req, day) \subseteq Committed(journal, req, day)
  PROVE  Spend(j, day) \in Nat /\ Spend(j, day) <= Spend(journal, day)
<1> DEFINE S == Committed(journal, req, day)
           T == Committed(j, req, day)
           f == Notionals(req)
<1>1. T \subseteq S
  OBVIOUS
<1>2. IsFiniteSet(S) /\ \A x \in S : f[x] \in Nat
  BY SpendType
<1> HIDE DEF S, T, f
<1>3. IsFiniteSet(T) /\ \A x \in T : f[x] \in Nat
  BY <1>1, <1>2, FS_Subset
<1>4. SumFunctionOnSet(f, T) <= SumFunctionOnSet(f, S)
  BY <1>1, <1>2, <1>3, SumBound
<1>5. SumFunctionOnSet(f, T) \in Nat
  BY <1>3, SumType
<1> QED BY <1>4, <1>5 DEF Spend, S, T, f

(* A day on which one more is named is charged its notional more.          *)
LEMMA OneBuySpent ==
  ASSUME TypeOK, NEW j, NEW day, NEW c \in Coids,
         Committed(j, req, day) \subseteq Committed(journal, req, day) \cup {c}
  PROVE  /\ Spend(j, day) \in Nat
         /\ Spend(j, day) <= req[c].notional + Spend(journal, day)
<1> DEFINE S == Committed(journal, req, day)
           T == Committed(j, req, day)
           f == Notionals(req)
<1>1. T \subseteq S \cup {c}
  OBVIOUS
<1>2. IsFiniteSet(S) /\ \A x \in S \cup {c} : f[x] \in Nat
  BY SpendType
<1>3. f[c] = req[c].notional
  BY SpendType
<1> HIDE DEF S, T, f
<1>4. IsFiniteSet(S \cup {c})
  BY <1>2, FS_AddElement
<1>5. IsFiniteSet(T) /\ \A x \in T : f[x] \in Nat
  BY <1>1, <1>2, <1>4, FS_Subset
<1>6. SumFunctionOnSet(f, T) <= SumFunctionOnSet(f, S \cup {c})
  BY <1>1, <1>2, <1>4, <1>5, SumBound
<1>7. SumFunctionOnSet(f, S \cup {c}) <= f[c] + SumFunctionOnSet(f, S)
  BY <1>2, SumGrows
<1>8. /\ SumFunctionOnSet(f, T) \in Nat /\ SumFunctionOnSet(f, S) \in Nat
      /\ SumFunctionOnSet(f, S \cup {c}) \in Nat /\ f[c] \in Nat
  BY <1>2, <1>4, <1>5, SumType
<1> QED BY <1>3, <1>6, <1>7, <1>8 DEF Spend, S, T, f
(* A new day starts with nothing charged to it.                            *)
LEMMA NewDayIsFree ==
  ASSUME TypeOK, BookInv, NEW day \in Nat, day > Day(now)
  PROVE  Spend(journal, day) = 0
<1>1. ASSUME NEW c \in Committed(journal, req, day) PROVE FALSE
  <2>1. c \in Coids /\ IsSent(journal, c) /\ Day(FirstSent(journal, c).time) = day
    BY DEF Committed
  <2> DEFINE m == Min(SentLines(journal, c))
  <2>2. m \in DOMAIN journal
    BY <2>1, FirstSentIsThere DEF TypeOK
  <2>3. journal[m].time <= now
    BY <2>2 DEF BookInv
  <2>4. journal[m].time \in Nat
    <3>1. journal[m] \in Line
      BY <2>2 DEF TypeOK
    <3> QED BY <3>1 DEF Line
  <2>5. Day(journal[m].time) = day
    BY <2>1 DEF FirstSent
  <2> HIDE DEF m
  <2>6. /\ now \in Nat
        /\ Day(journal[m].time) <= Day(now) /\ Day(journal[m].time) \in Nat /\ Day(now) \in Nat
    BY <2>3, <2>4, DaysPass DEF TypeOK
  <2> QED BY <2>5, <2>6
<1>2. Committed(journal, req, day) = {}
  BY <1>1
<1>3. SumFunctionOnSet(Notionals(req), {}) = 0
  BY SumUnfolds, FS_EmptySet
<1> QED BY <1>2, <1>3 DEF Spend

(* Every step keeps each day within the cap and leaves room for the buys   *)
(* that the guard has let pass.                                            *)
LEMMA BudgetInvInductive ==
  ASSUME TypeOK, LockInv, BookInv, BudgetInv, [Next]_vars
  PROVE  BudgetInv'
<1> DEFINE Room(d) == req[d].side = "BUY" /\ req[d].notional > 0 =>
                        Spend(journal', Day(now')) + req[d].notional <= MaxDailyValue
           Bought(d) == ~IsSent(journal, d) /\ IsSent(journal', d) /\ req[d].side = "BUY"
<1>0. MaxDailyValue \in Nat /\ now \in Nat
  BY LimitAssumption DEF TypeOK
<1>1. req' = req
  BY CallMoves
<1>2. ASSUME \A day \in Nat : Spend(journal', day) <= MaxDailyValue,
             \A d \in Coids : Pending(d)' => Room(d)
      PROVE  BudgetInv'
  BY <1>1, <1>2 DEF BudgetInv, HasRoom, Spend
<1>3. CASE Tick
  <2>1. journal' = journal /\ pc' = pc /\ now' = now + 1
    BY <1>3 DEF Tick, fileVars, callVars
  <2>2. Day(now) \in Nat /\ Day(now') \in Nat /\ Day(now) <= Day(now')
    BY <1>0, <2>1, DaysPass
  <2>3. ASSUME NEW d \in Coids, Pending(d)' PROVE Room(d)
    <3> SUFFICES ASSUME req[d].side = "BUY", req[d].notional > 0
                 PROVE  Spend(journal', Day(now')) + req[d].notional <= MaxDailyValue
      OBVIOUS
    <3>1. Pending(d)
      BY <2>1, <2>3 DEF Pending
    <3>2. Spend(journal, Day(now)) + req[d].notional <= MaxDailyValue
      BY <3>1 DEF BudgetInv, HasRoom
    <3>3. Spend(journal, Day(now)) \in Nat /\ req[d].notional \in Nat
      BY SpendType
    <3>4. CASE Day(now') = Day(now)
      BY <2>1, <3>2, <3>4
    <3>5. CASE Day(now') # Day(now)
      <4>1. Spend(journal, Day(now')) = 0
        BY <2>2, <3>5, NewDayIsFree
      <4> QED BY <1>0, <2>1, <3>2, <3>3, <4>1
    <3> QED BY <3>4, <3>5
  <2>4. \A day \in Nat : Spend(journal', day) <= MaxDailyValue
    BY <2>1 DEF BudgetInv
  <2> QED BY <1>2, <2>3, <2>4
<1>4. ASSUME now' = now, NEW c \in Coids, Bought(c) PROVE BudgetInv'
  <2>1. Cleared(c) /\ ~Pending(c)'
    BY <1>4, FirstSaid
  <2>2. ASSUME NEW d \in Coids, Cleared(d), req[d].side = "BUY" PROVE d = c
    BY <1>4, <2>1, <2>2, OneCleared DEF LockOf
  <2>3. ASSUME NEW d \in Coids, Bought(d) PROVE d = c
    BY <2>2, <2>3, FirstSaid
  <2>4. ASSUME NEW day \in Nat PROVE Spend(journal', day) <= MaxDailyValue
    <3>0. Spend(journal, day) <= MaxDailyValue /\ Spend(journal, day) \in Nat
      BY SpendType DEF BudgetInv
    <3>1. CASE day # Day(now)
      <4>1. Committed(journal', req, day) \subseteq Committed(journal, req, day)
        BY <3>1, CommittedStep
      <4> QED BY <1>0, <3>0, <4>1, NothingSpent
    <3>2. CASE day = Day(now)
      <4>1. Committed(journal', req, day) \subseteq Committed(journal, req, day) \cup {c}
        BY <2>3, CommittedStep DEF Committed
      <4>2. /\ Spend(journal', day) \in Nat
            /\ Spend(journal', day) <= req[c].notional + Spend(journal, day)
        BY <4>1, OneBuySpent
      <4>3. HasRoom(c)
        BY <2>1, ClearedHasRoom
      <4>4. req[c].notional \in Nat
        BY SpendType
      <4>5. req[c].notional + Spend(journal, day) <= MaxDailyValue
        BY <1>4, <3>0, <3>2, <4>3, <4>4 DEF HasRoom
      <4> QED BY <1>0, <3>0, <4>2, <4>4, <4>5
    <3> QED BY <3>1, <3>2
  <2>5. ASSUME NEW d \in Coids, Pending(d)' PROVE Room(d)
    <3>1. Cleared(d)
      BY <2>5, PendingWasCleared
    <3>2. d # c
      BY <2>1, <2>5
    <3> QED BY <2>2, <3>1, <3>2
  <2> HIDE DEF Room
  <2> QED BY <1>2, <2>4, <2>5
<1>5. ASSUME now' = now, \A c \in Coids : ~Bought(c) PROVE BudgetInv'
  <2>1. ASSUME NEW day \in Nat
        PROVE  /\ Spend(journal', day) \in Nat /\ Spend(journal, day) \in Nat
               /\ Spend(journal', day) <= Spend(journal, day)
    <3>1. Committed(journal', req, day) \subseteq Committed(journal, req, day)
      BY <1>5, CommittedStep DEF Committed
    <3> QED BY <3>1, NothingSpent, SpendType
  <2>2. ASSUME NEW day \in Nat PROVE Spend(journal', day) <= MaxDailyValue
    BY <1>0, <2>1 DEF BudgetInv
  <2>3. ASSUME NEW d \in Coids, Pending(d)' PROVE Room(d)
    <3> SUFFICES ASSUME req[d].side = "BUY", req[d].notional > 0
                 PROVE  Spend(journal', Day(now)) + req[d].notional <= MaxDailyValue
      BY <1>5
    <3>1. Spend(journal, Day(now)) + req[d].notional <= MaxDailyValue
      BY <2>3, PendingWasCleared, ClearedHasRoom DEF HasRoom
    <3>2. Day(now) \in Nat /\ req[d].notional \in Nat
      BY <1>0, DaysPass, SpendType
    <3>3. /\ Spend(journal', Day(now)) \in Nat /\ Spend(journal, Day(now)) \in Nat
          /\ Spend(journal', Day(now)) <= Spend(journal, Day(now))
      BY <2>1, <3>2
    <3> QED BY <1>0, <3>1, <3>2, <3>3
  <2> HIDE DEF Room
  <2> QED BY <1>2, <2>2, <2>3
<1> HIDE DEF Bought
<1> QED BY <1>3, <1>4, <1>5, EveryStepWrites

(* The buys that may still be executed are among those charged to the day. *)
LEMMA ExposedIsCommitted ==
  ASSUME FreedMeansNoMoney, NEW c \in Coids, MayMoveMoney(c), IsSent(journal, c)
  PROVE  ~IsFreed(journal, c) /\ PlacedAt(c) = FirstSent(journal, c).time
<1>1. ~IsFreed(journal, c)
  BY DEF FreedMeansNoMoney, IsFreed, LinesOf
<1>2. PlacedAt(c) = FirstSent(journal, c).time
  BY DEF PlacedAt, FirstSent, SentLines
<1> QED BY <1>1, <1>2

(* Where no acknowledgement is loose, the buys journaled on a day, with    *)
(* whatever they can still spend, stay within max_daily_value: whatever    *)
(* crashes, is cancelled, lost or torn, and however days pass.             *)
THEOREM ExposureIsCapped ==
  ASSUME LooseAcks = {}
  PROVE  Spec => []ExposureWithinDailyCap
<1>1. Init => LockInv /\ BookInv /\ BudgetInv
  <2> SUFFICES ASSUME Init PROVE BookInv /\ BudgetInv
    BY DoubtInit
  <2>1. journal = <<>> /\ \A c \in Coids : ~Pending(c)
    BY DEF Init, Pending, Dispatching
  <2>2. BookInv
    BY <2>1 DEF BookInv, CarriesRequests
  <2>3. ASSUME NEW day \in Nat PROVE Spend(journal, day) <= MaxDailyValue
    <3>1. Committed(journal, req, day) = {}
      BY <2>1 DEF Committed, IsSent, LinesOf
    <3>2. SumFunctionOnSet(Notionals(req), {}) = 0
      BY SumUnfolds, FS_EmptySet
    <3> QED BY <3>1, <3>2, LimitAssumption DEF Spend
  <2> QED BY <2>1, <2>2, <2>3 DEF BudgetInv
<1>2. TypeOK /\ LockInv /\ BookInv /\ BudgetInv /\ [Next]_vars
        => (LockInv /\ BookInv /\ BudgetInv)'
  BY LockInvInductive, BookInvInductive, BudgetInvInductive
<1>3. TypeOK /\ BudgetInv /\ FreedMeansNoMoney => ExposureWithinDailyCap
  <2> SUFFICES ASSUME TypeOK, BudgetInv, FreedMeansNoMoney, NEW day \in 0 .. Day(MaxTime)
               PROVE  SumFunctionOnSet(Notionals(req),
                                       {c \in Coids : /\ MayMoveMoney(c) /\ IsSent(journal, c)
                                                      /\ req[c].side = "BUY"
                                                      /\ Day(PlacedAt(c)) = day})
                        <= MaxDailyValue
    BY DEF ExposureWithinDailyCap, Notionals
  <2> DEFINE E == {c \in Coids : /\ MayMoveMoney(c) /\ IsSent(journal, c)
                                 /\ req[c].side = "BUY" /\ Day(PlacedAt(c)) = day}
             C == Committed(journal, req, day)
             f == Notionals(req)
  <2>1. day \in Nat
    OBVIOUS
  <2>2. E \subseteq C
    BY ExposedIsCommitted DEF Committed
  <2>3. IsFiniteSet(C) /\ \A c \in C : f[c] \in Nat
    BY SpendType
  <2>4. SumFunctionOnSet(f, C) <= MaxDailyValue
    BY <2>1 DEF BudgetInv, Spend
  <2> HIDE DEF E, C, f
  <2>5. IsFiniteSet(E) /\ \A c \in E : f[c] \in Nat
    BY <2>2, <2>3, FS_Subset
  <2>6. SumFunctionOnSet(f, E) <= SumFunctionOnSet(f, C)
    BY <2>2, <2>3, <2>5, SumBound
  <2>7. SumFunctionOnSet(f, E) \in Nat /\ SumFunctionOnSet(f, C) \in Nat /\ MaxDailyValue \in Nat
    BY <2>3, <2>5, SumType, LimitAssumption
  <2> QED BY <2>4, <2>6, <2>7 DEF E, f
<1> QED
  BY <1>1, <1>2, <1>3, TypeCorrect, FreedOrdersMovedNothing, PTL DEF Spec
-----------------------------------------------------------------------------
(* The duplicate window.                                                   *)

(* What the lookback of 200 lines takes for granted: lines further back    *)
(* are older than the window.                                              *)
WindowIsRead ==
  \A i \in DOMAIN journal \ RecentLines(journal) :
    journal[i].time < now - DuplicateWindow

(* The file says that the order was sent and not that it moved no money.   *)
Standing(j, c) == IsSent(j, c) /\ ~IsFreed(j, c)

(* The orders of its intent that stand are from before the window.         *)
Alone(c) ==
  \A d \in Coids :
    d # c /\ SameIntent(c, d) /\ Standing(journal, d)
    => FirstSent(journal, d).time < now - DuplicateWindow

WindowInv ==
  /\ \A c, d \in Coids :
       /\ c # d /\ SameIntent(c, d)
       /\ Standing(journal, c) /\ Standing(journal, d)
       => FirstSent(journal, c).time - FirstSent(journal, d).time
            \notin -DuplicateWindow .. DuplicateWindow
  /\ \A c \in Coids : Pending(c) => Alone(c)

(* The first line of an order that was sent is a line of its request.      *)
LEMMA FirstSentLine ==
  ASSUME TypeOK, BookInv, NEW c \in Coids, IsSent(journal, c)
  PROVE  \E i \in LinesOf(journal, c) :
           /\ i \in DOMAIN journal /\ FirstSent(journal, c) = journal[i]
           /\ journal[i].sent /\ journal[i].kind # "resolution"
           /\ journal[i].request = req[c]
           /\ journal[i].time \in Nat /\ journal[i].time <= now
<1> DEFINE m == Min(SentLines(journal, c))
<1>1. m \in SentLines(journal, c)
  BY FirstSentIsThere DEF TypeOK
<1>2. m \in LinesOf(journal, c) /\ m \in DOMAIN journal /\ journal[m].sent /\ journal[m].coid = c
  BY <1>1 DEF SentLines, LinesOf
<1>3. journal[m] \in Line
  BY <1>2 DEF TypeOK
<1>4. FirstSent(journal, c) = journal[m]
  BY DEF FirstSent
<1>5. journal[m].time \in Nat
  BY <1>3 DEF Line
<1>6. /\ journal[m].kind # "resolution" /\ journal[m].request = req[c]
      /\ journal[m].time <= now
  BY <1>2 DEF BookInv, CarriesRequests
<1> HIDE DEF m
<1> QED BY <1>2, <1>4, <1>5, <1>6

(* A call the guard lets pass has no standing order of its intent within   *)
(* the window.                                                             *)
LEMMA ClearedIsAlone ==
  ASSUME DuplicateWindow > 0, TypeOK, BookInv, WindowInv, WindowIsRead,
         NEW c \in Coids, Cleared(c)
  PROVE  Alone(c)
<1>1. CASE Pending(c)
  BY <1>1 DEF WindowInv
<1>2. CASE JournalPermits(req[c])
  <2> SUFFICES ASSUME NEW d \in Coids, d # c, SameIntent(c, d), Standing(journal, d)
               PROVE  FirstSent(journal, d).time < now - DuplicateWindow
    BY DEF Alone
  <2>1. PICK i \in LinesOf(journal, d) :
          /\ i \in DOMAIN journal /\ FirstSent(journal, d) = journal[i]
          /\ journal[i].sent /\ journal[i].kind # "resolution"
          /\ journal[i].request = req[d]
          /\ journal[i].time \in Nat /\ journal[i].time <= now
    BY FirstSentLine DEF Standing
  <2>2. journal[i].coid = d /\ journal[i].request.fp = req[c].fp
    BY <2>1 DEF LinesOf, SameIntent
  <2>3. journal[i].status \notin NoMoneyStatuses
    BY <2>1 DEF Standing, IsFreed
  <2>4. ~FateIsNoMoney(journal, journal[i].coid)
    BY <2>2, FateIsFreed DEF Standing, TypeOK
  <2>5. ~HasRecentDuplicate(journal, req[c], now)
    BY <1>2 DEF JournalPermits
  <2>6. ~(i \in RecentLines(journal) /\ journal[i].time >= now - DuplicateWindow)
    BY <2>1, <2>2, <2>3, <2>4, <2>5 DEF HasRecentDuplicate
  <2>7. i \notin RecentLines(journal) => journal[i].time < now - DuplicateWindow
    BY <2>1 DEF WindowIsRead
  <2>8. now \in Nat /\ DuplicateWindow \in Nat
    BY JournalBounds DEF TypeOK
  <2> QED BY <2>1, <2>6, <2>7, <2>8
<1> QED BY <1>1, <1>2 DEF Cleared

(* An order that stands after a step stood before it or is a new one.      *)
LEMMA StandingStep ==
  ASSUME TypeOK, [Next]_vars, NEW c \in Coids, Standing(journal', c)
  PROVE  \/ /\ Standing(journal, c)
            /\ FirstSent(journal', c) = FirstSent(journal, c)
         \/ /\ Cleared(c) /\ ~Pending(c)'
            /\ now' = now /\ FirstSent(journal', c).time = now
<1>1. IsSent(journal', c) /\ ~IsFreed(journal', c)
  BY DEF Standing
<1>2. CASE IsSent(journal, c)
  BY <1>1, <1>2, SentForGood DEF Standing
<1>3. CASE ~IsSent(journal, c)
  BY <1>1, <1>3, FirstSaid
<1> QED BY <1>2, <1>3

(* Every step keeps the standing orders of an intent more than the window  *)
(* apart.                                                                  *)
LEMMA WindowInvInductive ==
  ASSUME DuplicateWindow > 0, TypeOK, LockInv, BookInv, WindowInv, WindowIsRead, [Next]_vars
  PROVE  WindowInv'
<1>0. now \in Nat /\ now' \in Nat /\ now <= now' /\ DuplicateWindow \in Nat
  BY EveryStepWrites, JournalBounds DEF TypeOK, Tick
<1>1. \A c, d \in Coids : SameIntent(c, d)' <=> SameIntent(c, d)
  BY CallMoves DEF SameIntent
<1>2. ASSUME NEW c \in Coids, NEW d \in Coids, SameIntent(c, d), Cleared(c), Cleared(d)
      PROVE  c = d
  <2>1. LockOf(req[c]) = LockOf(req[d])
    BY <1>2, RequestAssumption DEF SameIntent, LockOf, TypeOK
  <2> QED BY <1>2, <2>1, OneCleared
<1>3. \A c \in Coids : Standing(journal, c) =>
         FirstSent(journal, c).time \in Nat /\ FirstSent(journal, c).time <= now
  BY FirstSentLine DEF Standing
<1> DEFINE old(c) == FirstSent(journal, c).time
           new(c) == FirstSent(journal', c).time
<1>4. ASSUME NEW c \in Coids, NEW d \in Coids, c # d, SameIntent(c, d),
             Standing(journal', c), Standing(journal', d)
      PROVE  new(c) - new(d) \notin -DuplicateWindow .. DuplicateWindow
  <2>1. SameIntent(d, c)
    BY <1>4 DEF SameIntent
  <2>2. CASE /\ Standing(journal, c) /\ new(c) = old(c)
             /\ Standing(journal, d) /\ new(d) = old(d)
    BY <1>4, <2>2 DEF WindowInv
  <2>3. CASE Standing(journal, c) /\ new(c) = old(c) /\ Cleared(d) /\ new(d) = now
    <3>1. old(c) < now - DuplicateWindow /\ old(c) \in Nat
      BY <1>3, <1>4, <2>1, <2>3, ClearedIsAlone DEF Alone
    <3> QED BY <1>0, <2>3, <3>1
  <2>4. CASE Cleared(c) /\ new(c) = now /\ Standing(journal, d) /\ new(d) = old(d)
    <3>1. old(d) < now - DuplicateWindow /\ old(d) \in Nat
      BY <1>3, <1>4, <2>4, ClearedIsAlone DEF Alone
    <3> QED BY <1>0, <2>4, <3>1
  <2>5. CASE Cleared(c) /\ Cleared(d)
    BY <1>2, <1>4, <2>5
  <2> QED BY <1>4, <2>2, <2>3, <2>4, <2>5, StandingStep
<1>5. ASSUME NEW c \in Coids, Pending(c)',
             NEW d \in Coids, d # c, SameIntent(c, d), Standing(journal', d)
      PROVE  new(d) < now' - DuplicateWindow
  <2>1. Cleared(c) /\ Alone(c)
    BY <1>5, PendingWasCleared, ClearedIsAlone
  <2>2. CASE Standing(journal, d) /\ new(d) = old(d)
    <3>1. old(d) < now - DuplicateWindow /\ old(d) \in Nat
      BY <1>3, <1>5, <2>1, <2>2 DEF Alone
    <3> QED BY <1>0, <2>2, <3>1
  <2>3. CASE Cleared(d)
    BY <1>2, <1>5, <2>1, <2>3
  <2> QED BY <1>5, <2>2, <2>3, StandingStep
<1>6. \A c \in Coids : Pending(c)' => Alone(c)'
  BY <1>1, <1>5 DEF Alone
<1> QED BY <1>1, <1>4, <1>6 DEF WindowInv

(* While appends reach the disk whole, no acknowledgement is loose and the *)
(* lines has_recent_duplicate reads cover the window, of two identical     *)
(* requests placed within it at most one can move money.                   *)
THEOREM NoDoubleOrder ==
  ASSUME DurableWrites, LooseAcks = {}, DuplicateWindow > 0
  PROVE  Spec /\ []WindowIsRead => []NoDoubleOrderInWindow
<1>1. Init => LockInv /\ BookInv /\ WindowInv
  <2> SUFFICES ASSUME Init PROVE BookInv /\ WindowInv
    BY DoubtInit
  <2>1. journal = <<>> /\ \A c \in Coids : ~Pending(c)
    BY DEF Init, Pending, Dispatching
  <2>2. BookInv
    BY <2>1 DEF BookInv, CarriesRequests
  <2>3. \A c : ~Standing(journal, c)
    BY <2>1 DEF Standing, IsSent, LinesOf
  <2> QED BY <2>1, <2>2, <2>3 DEF WindowInv
<1>2. TypeOK /\ LockInv /\ BookInv /\ WindowInv /\ WindowIsRead /\ [Next]_vars
        => (LockInv /\ BookInv /\ WindowInv)'
  BY LockInvInductive, BookInvInductive, WindowInvInductive
<1>3. WindowInv /\ VenueInv /\ NoHiddenOrder /\ FreedMeansNoMoney => NoDoubleOrderInWindow
  <2> SUFFICES ASSUME WindowInv, VenueInv, NoHiddenOrder, FreedMeansNoMoney,
                      NEW c \in Coids, NEW d \in Coids, c # d, SameIntent(c, d),
                      MayMoveMoney(c), MayMoveMoney(d)
               PROVE  PlacedAt(c) - PlacedAt(d) \notin -DuplicateWindow .. DuplicateWindow
    BY DEF NoDoubleOrderInWindow
  <2>1. \A e \in Coids : MayMoveMoney(e) => IsSent(journal, e)
    BY DEF MayMoveMoney, VenueInv, NoHiddenOrder, Dispatched
  <2>2. \A e \in Coids : MayMoveMoney(e) =>
           Standing(journal, e) /\ PlacedAt(e) = FirstSent(journal, e).time
    BY <2>1, ExposedIsCommitted DEF Standing
  <2> QED BY <2>2 DEF WindowInv
<1> QED
  BY <1>1, <1>2, <1>3, TypeCorrect, VenueInvariant, NoOrderIsHidden, FreedOrdersMovedNothing,
     PTL DEF Spec
-----------------------------------------------------------------------------
(* One failed append.                                                      *)

(* What one fault, and no half-written line of a living process, leaves of *)
(* SentInv: a call whose intent was lost will write its outcome.           *)
LostInv ==
  /\ torn => faults >= 1
  /\ \A c \in Coids : pc[c] \in Dispatching \/ Dispatched(c) =>
       \/ IsSent(journal, c)
       \/ pc[c] \in Dispatching /\ faults >= 1 /\ ~torn

(* A step without a fault tears no line.                                   *)
LEMMA FaultsTear ==
  ASSUME [Next]_vars
  PROVE  (faults' = faults /\ (torn' => torn)) \/ \E kind : Fault(kind)
<1> DEFINE Goal == (faults' = faults /\ (torn' => torn)) \/ \E kind : Fault(kind)
<1>1. ASSUME NEW line, Write(line) PROVE Goal
  BY <1>1 DEF Write, AppendLine, AppendRaises
<1>2. ASSUME NEW c \in Coids, Submit(c) \/ CallStep(c) \/ Cancel(c) PROVE Goal
  <2>1. CASE Submit(c) \/ Acquire(c) \/ CheckExits(c) \/ Post(c)
    BY <2>1 DEF Submit, Acquire, CheckExits, Post, fileVars
  <2>2. CASE Intend(c)
    BY <1>1, <2>2 DEF Intend
  <2>3. ASSUME NEW line, Finish(c, line) PROVE Goal
    BY <1>1, <2>3 DEF Finish
  <2>4. CASE Cancel(c)
    BY <2>4 DEF Cancel
  <2> QED BY <1>2, <2>1, <2>2, <2>3, <2>4 DEF CallStep, Block, DryRun, Ack, NoAnswer
<1>3. ASSUME NEW c \in Coids, VenueStep(c) PROVE Goal
  BY <1>3 DEF VenueStep, Land, Execute, Expire, fileVars
<1>4. ASSUME NEW c \in Coids, Mark(c) PROVE Goal
  <2>1. Write(MarkLine(c)) \/ UNCHANGED <<fileVars, faults>>
    BY <1>4 DEF Mark, Write
  <2> QED BY <1>1, <2>1 DEF fileVars
<1>5. CASE Reconcile /\ ~\E c \in Coids : Mark(c)
  BY <1>5 DEF Reconcile, ReconcileStart, ReconcileList, ReconcileFail, fileVars
<1>6. CASE Crash
  BY <1>6 DEF Crash
<1>7. CASE Tick \/ UNCHANGED vars
  BY <1>7 DEF Tick, vars, fileVars
<1> QED BY <1>2, <1>3, <1>4, <1>5, <1>6, <1>7 DEF Next

(* A dispatching call ends with its outcome, or by a fault.                *)
LEMMA DispatchEnds ==
  ASSUME TypeOK, [Next]_vars, NEW c \in Coids, pc[c] \in Dispatching, pc'[c] \notin Dispatching
  PROVE  Ack(c) \/ NoAnswer(c) \/ \E kind : Fault(kind)
<1> USE DEF Dispatching
<1>1. ASSUME NEW d \in Coids, Submit(d) \/ CallStep(d) \/ Cancel(d)
      PROVE  Ack(c) \/ NoAnswer(c) \/ Cancel(d)
  <2> USE DEF TypeOK, Goto
  <2>1. CASE Submit(d) \/ Acquire(d) \/ CheckExits(d) \/ Post(d)
    BY <2>1 DEF Submit, Acquire, CheckExits, Post
  <2>2. CASE Intend(d)
    BY <2>2 DEF Intend
  <2>3. CASE Block(d) \/ DryRun(d)
    BY <2>3 DEF Block, DryRun, GuardsPassed, Finish
  <2>4. CASE Ack(d) \/ NoAnswer(d)
    <3>1. pc' = [pc EXCEPT ![d] = "done"]
      BY <2>4 DEF Ack, NoAnswer, Finish
    <3>2. c = d
      BY <3>1
    <3> QED BY <2>4, <3>2
  <2> QED BY <1>1, <2>1, <2>2, <2>3, <2>4 DEF CallStep
<1>2. ASSUME NEW d \in Coids, VenueStep(d) PROVE FALSE
  BY <1>2 DEF VenueStep, Land, Execute, Expire, callVars
<1>3. CASE Reconcile \/ Tick \/ UNCHANGED vars
  <2>1. UNCHANGED pc
    BY <1>3 DEF Reconcile, ReconcileStart, ReconcileList, ReconcileFail, Mark, Tick,
                vars, callVars
  <2> QED BY <2>1
<1>4. CASE Crash
  BY <1>4 DEF Crash
<1> QED BY <1>1, <1>2, <1>3, <1>4 DEF Next, Cancel

(* Every step keeps it, when one fault is all there is.                    *)
LEMMA LostInvInductive ==
  ASSUME MaxFaults <= 1, "short_write" \notin FaultKinds, TypeOK, LostInv, [Next]_vars
  PROVE  LostInv'
<1>0. faults \in Nat /\ MaxFaults \in Nat
  BY LimitAssumption DEF TypeOK
<1>1. \A kind : Fault(kind) => faults = 0 /\ faults' = 1
  BY <1>0 DEF Fault
<1>2. (torn => faults >= 1)'
  BY <1>0, <1>1, FaultsTear DEF LostInv
<1>3. ASSUME NEW c \in Coids, pc'[c] \in Dispatching \/ Dispatched(c)'
      PROVE  \/ IsSent(journal', c)
             \/ pc'[c] \in Dispatching /\ faults' >= 1 /\ ~torn'
  <2>1. CASE IsSent(journal, c)
    BY <2>1, SentForGood
  <2>2. CASE Intend(c)
    <3> DEFINE line == IntentLine(c, req[c], now)
    <3>1. pc'[c] \in Dispatching
      BY <2>2 DEF Intend, Goto, TypeOK, Dispatching
    <3>2. line \in Line /\ line.coid = c /\ line.sent
      BY IntentLineType DEF TypeOK, IntentLine
    <3>3. Write(line)
      BY <2>2 DEF Intend
    <3> HIDE DEF line
    <3>4. CASE torn /\ AppendLine(line) /\ UNCHANGED faults
      BY <3>1, <3>4 DEF AppendLine, LostInv
    <3>5. CASE ~torn /\ AppendLine(line)
      <4>1. journal' = Append(journal, line)
        BY <3>5 DEF AppendLine
      <4> QED BY <3>2, <4>1, AppendedOwn DEF TypeOK
    <3>6. CASE AppendRaises
      <4>1. Fault("lost_write") /\ torn' = torn
        BY <3>6 DEF AppendRaises, Fault, fileVars
      <4>2. faults = 0 /\ faults' = 1
        BY <1>1, <4>1
      <4> QED BY <3>1, <4>1, <4>2 DEF LostInv
    <3> QED BY <3>3, <3>4, <3>5, <3>6 DEF Write
  <2>3. CASE pc[c] \in Dispatching /\ faults >= 1 /\ ~torn
    <3>1. \A kind : ~Fault(kind)
      BY <1>1, <2>3
    <3>2. faults' >= 1 /\ ~torn'
      BY <2>3, <3>1, FaultsTear
    <3>3. CASE pc'[c] \notin Dispatching
      <4>1. Ack(c) \/ NoAnswer(c)
        BY <2>3, <3>1, <3>3, DispatchEnds
      <4>2. \E hasOid \in BOOLEAN, st \in Statuses :
              Finish(c, OutcomeLine(c, req[c], FALSE, TRUE, hasOid, st, now))
        <5>1. AckStatuses(c) \subseteq Statuses /\ "error" \in Statuses
          BY AckStatusType DEF Statuses
        <5> QED BY <4>1, <5>1 DEF Ack, NoAnswer
      <4>3. PICK hasOid \in BOOLEAN, st \in Statuses :
              Finish(c, OutcomeLine(c, req[c], FALSE, TRUE, hasOid, st, now))
        BY <4>2
      <4> DEFINE line == OutcomeLine(c, req[c], FALSE, TRUE, hasOid, st, now)
      <4>4. line \in Line
        BY OutcomeLineType DEF TypeOK
      <4>5. line.coid = c /\ line.sent
        BY DEF OutcomeLine
      <4>6. Write(line)
        BY <4>3 DEF Finish
      <4> HIDE DEF line
      <4>7. AppendLine(line)
        BY <3>1, <4>6 DEF Write, AppendRaises
      <4>8. journal' = Append(journal, line)
        BY <2>3, <4>7 DEF AppendLine
      <4> QED BY <4>4, <4>5, <4>8, AppendedOwn DEF TypeOK
    <3> QED BY <3>2, <3>3
  <2>4. pc[c] \in Dispatching \/ Dispatched(c) \/ Intend(c)
    BY <1>3, CallMoves
  <2> QED BY <2>1, <2>2, <2>3, <2>4 DEF LostInv
<1> QED BY <1>2, <1>3 DEF LostInv

(* One fault alone, a crash that tears a line and an append that is lost   *)
(* among them, hides no order for good: once its call is over, what has    *)
(* left for the venue has a readable line that says so.                    *)
THEOREM OneFaultHidesNothing ==
  ASSUME MaxFaults <= 1, "short_write" \notin FaultKinds
  PROVE  Spec => []NoHiddenOrderAtRest
<1>1. Init => LostInv
  BY DEF Init, LostInv, Dispatching, Dispatched
<1>2. TypeOK /\ LostInv /\ [Next]_vars => LostInv'
  BY LostInvInductive
<1>3. LostInv => NoHiddenOrderAtRest
  BY DEF LostInv, NoHiddenOrderAtRest, Dispatching
<1> QED BY <1>1, <1>2, <1>3, TypeCorrect, PTL DEF Spec
=============================================================================
