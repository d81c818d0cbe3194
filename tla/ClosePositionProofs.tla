------------------------- MODULE ClosePositionProofs ------------------------
(***************************************************************************)
(* close_position, for any number of calls and any position.  That nothing *)
(* is sold twice needs two things: no answer is loose, and an order and    *)
(* the portfolio behind it are done before the cooldown is.                *)
(***************************************************************************)
EXTENDS ClosePosition, TLAPS

(* How long an order can be alive, or its fills unseen, after the answer.  *)
EnoughTime == FillBound + Lag < Cooldown

USE DEF Free, Inflight

(* Whatever ends a call leaves a reservation of the right type.            *)
LEMMA ReservationType ==
  /\ \A attempted \in BOOLEAN : Normalised(attempted) \in {Inflight} \cup 0 .. Cooldown
  /\ \A st : AfterAck(st) \in {Inflight} \cup 0 .. Cooldown
BY TimeAssumption DEF Normalised, AfterAck

(* The steps of a call keep the types.                                     *)
LEMMA CallType ==
  ASSUME TypeOK, NEW c \in Calls, Reserve(c) \/ CallStep(c)
  PROVE  TypeOK'
<1>1. CASE Reserve(c)
  BY <1>1, TimeAssumption DEF TypeOK, Reserve, positionVars
<1>2. CASE ReadPosition(c)
  BY <1>2 DEF TypeOK, ReadPosition, positionVars
<1>3. ASSUME NEW reservation \in {Inflight} \cup 0 .. Cooldown, Leave(c, reservation)
      PROVE  TypeOK'
  BY <1>3 DEF TypeOK, Leave, orderVars, positionVars
<1>4. CASE NothingToClose(c) \/ DryRun(c)
  BY <1>3, <1>4, TimeAssumption DEF NothingToClose, DryRun
<1>5. CASE Abort(c)
  BY <1>3, <1>5, ReservationType DEF Abort
<1>6. CASE Post(c)
  BY <1>6, TimeAssumption DEF TypeOK, Post, positionVars
<1>7. CASE Ack(c)
  BY <1>3, <1>7, ReservationType DEF Ack
<1> QED BY <1>1, <1>2, <1>4, <1>5, <1>6, <1>7 DEF CallStep

(* The venue, the portfolio and the clock keep the types.                  *)
LEMMA WorldType ==
  ASSUME TypeOK, (\E c \in Calls : VenueStep(c)) \/ Refresh \/ Tick
  PROVE  TypeOK'
<1>1. ASSUME NEW c \in Calls, Land(c) PROVE TypeOK'
  BY <1>1 DEF TypeOK, Land, positionVars
<1>2. ASSUME NEW c \in Calls, Expire(c) PROVE TypeOK'
  BY <1>2 DEF TypeOK, Expire, positionVars
<1>3. ASSUME NEW c \in Calls, Fill(c) PROVE TypeOK'
  BY <1>3, TimeAssumption DEF TypeOK, Fill
<1>4. CASE Refresh
  BY <1>4 DEF TypeOK, Refresh, orderVars
<1>5. CASE Tick
  <2>1. age' \in [Calls -> 0 .. FillBound]
    BY <1>5, TimeAssumption DEF TypeOK, Tick
  <2>2. unseen' \in 0 .. Lag
    BY <1>5, TimeAssumption DEF TypeOK, Tick
  <2>3. reserved' \in {Inflight} \cup 0 .. Cooldown
    BY <1>5, TimeAssumption DEF TypeOK, Tick
  <2> QED BY <1>5, <2>1, <2>2, <2>3 DEF TypeOK, Tick
<1> QED BY <1>1, <1>2, <1>3, <1>4, <1>5 DEF VenueStep

(* The tool's variables keep their types.                                  *)
THEOREM TypeCorrect == Spec => []TypeOK
<1>1. Init => TypeOK
  BY TimeAssumption, PositionAssumption DEF Init, TypeOK
<1>2. TypeOK /\ [Next]_vars => TypeOK'
  <2> SUFFICES ASSUME TypeOK, [Next]_vars PROVE TypeOK'
    OBVIOUS
  <2>1. CASE Next
    BY <2>1, CallType, WorldType DEF Next
  <2>2. CASE UNCHANGED vars
    BY <2>2 DEF TypeOK, vars, orderVars, positionVars
  <2> QED BY <2>1, <2>2
<1> QED BY <1>1, <1>2, PTL DEF Spec

-----------------------------------------------------------------------------
(* The sentinel.                                                           *)

(* No way out of the reserved section leaves the sentinel behind.          *)
LEMMA LeavesNoSentinel ==
  /\ \A attempted : Normalised(attempted) # Inflight
  /\ \A st : AfterAck(st) # Inflight
BY TimeAssumption DEF Normalised, AfterAck

(* Who is inside changes only by entering a contract that is free and by   *)
(* leaving it.                                                             *)
LEMMA SentinelInductive ==
  ASSUME TypeOK, SentinelIsHeld, [Next]_vars
  PROVE  SentinelIsHeld'
<1>1. ASSUME NEW c \in Calls, Reserve(c) PROVE SentinelIsHeld'
  <2>1. \A d \in Calls : ~Inside(d)
    BY <1>1, TimeAssumption DEF Reserve, Reservable, SentinelIsHeld
  <2>2. \A d \in Calls : Inside(d)' <=> d = c
    BY <1>1, <2>1 DEF Reserve, TypeOK, Inside
  <2> QED BY <1>1, <2>2 DEF Reserve, SentinelIsHeld
<1>2. ASSUME NEW c \in Calls, Inside(c), NEW r, r # Inflight, Leave(c, r)
      PROVE  SentinelIsHeld'
  <2>1. \A d \in Calls : ~Inside(d)'
    BY <1>2 DEF Leave, TypeOK, Inside, SentinelIsHeld
  <2> QED BY <1>2, <2>1 DEF Leave, SentinelIsHeld
<1>3. ASSUME NEW c \in Calls, ReadPosition(c) \/ Post(c) PROVE SentinelIsHeld'
  <2>1. \A d \in Calls : Inside(d)' <=> Inside(d)
    BY <1>3 DEF ReadPosition, Post, TypeOK, Inside
  <2> QED BY <1>3, <2>1 DEF ReadPosition, Post, SentinelIsHeld
<1>4. ASSUME NEW c \in Calls, NothingToClose(c) \/ Abort(c) \/ DryRun(c) \/ Ack(c)
      PROVE  SentinelIsHeld'
  BY <1>2, <1>4, LeavesNoSentinel, TimeAssumption
     DEF NothingToClose, Abort, DryRun, Ack, Inside
<1>5. CASE Tick
  <2>1. reserved' = Inflight <=> reserved = Inflight
    BY <1>5, TimeAssumption DEF Tick, TypeOK
  <2> QED BY <1>5, <2>1 DEF Tick, SentinelIsHeld, Inside
<1>6. CASE (\E c \in Calls : VenueStep(c)) \/ Refresh \/ UNCHANGED vars
  BY <1>6 DEF VenueStep, Land, Fill, Expire, Refresh, vars, SentinelIsHeld, Inside
<1> QED BY <1>1, <1>3, <1>4, <1>5, <1>6 DEF Next, CallStep

(* However many closes run, raise or are cancelled, the sentinel stands    *)
(* for exactly one that is under way.                                      *)
THEOREM SentinelHeld == Spec => []SentinelIsHeld
<1>1. Init => SentinelIsHeld
  BY TimeAssumption DEF Init, SentinelIsHeld, Inside
<1> QED BY <1>1, SentinelInductive, TypeCorrect, PTL DEF Spec

-----------------------------------------------------------------------------
(* Nothing is sold twice.                                                  *)

(* What an order has left is a part of what it was sent for and of the     *)
(* position; nothing is filled of one just sent or rejected.               *)
SizeInv ==
  \A c \in Calls :
    /\ Live(c) \/ pc[c] = "awaiting" => qty[c] # 0 /\ left[c] \in PartsOf(qty[c])
    /\ Live(c) => left[c] # 0 /\ -left[c] \in PartsOf(actual)
    /\ pc[c] = "awaiting" /\ order[c] \in {"sent", "rejected"} => left[c] = qty[c]

(* An order that outlives its call is younger than it: the reservation is  *)
(* no older than the order.                                                *)
LiveInv ==
  \A c \in Calls : Live(c) =>
    pc[c] = "awaiting" \/ (pc[c] = "idle" /\ reserved \in 0 .. age[c])

OneLive == \A c, d \in Calls : Live(c) /\ Live(d) => c = d

(* The portfolio is only behind while a close is partly filled or the      *)
(* reservation it left is young.                                           *)
SeenInv ==
  shown # actual =>
    \/ \E c \in Calls : pc[c] = "awaiting" /\ left[c] # qty[c]
    \/ reserved \in 0 .. FillBound + unseen

(* A close about to be posted has read the position as it is shown.        *)
ReadInv == \A c \in Calls : pc[c] = "guards" => qty[c] = -shown /\ shown # 0

CloseInv == SizeInv /\ LiveInv /\ OneLive /\ SeenInv /\ ReadInv

(* Before a close posts, nothing is alive and the portfolio is right.      *)
LEMMA QuietInside ==
  ASSUME TypeOK, SentinelIsHeld, CloseInv,
         NEW c \in Calls, pc[c] \in {"reading", "guards"}
  PROVE  /\ shown = actual /\ reserved = Inflight
         /\ \A d \in Calls : ~Live(d) /\ pc[d] # "awaiting"
         /\ \A d \in Calls : d # c => pc[d] = "idle"
<1>1. reserved = Inflight /\ \A d \in Calls : d # c => pc[d] = "idle"
  BY DEF SentinelIsHeld, Inside, TypeOK
<1>2. \A d \in Calls : pc[d] # "awaiting"
  BY <1>1
<1>3. ASSUME NEW d \in Calls PROVE reserved \notin 0 .. age[d]
  <2>1. age[d] \in Int
    BY TimeAssumption DEF TypeOK
  <2> QED BY <1>1, <2>1
<1>4. reserved \notin 0 .. FillBound + unseen
  BY <1>1, TimeAssumption DEF TypeOK
<1> QED BY <1>1, <1>2, <1>3, <1>4 DEF CloseInv, LiveInv, SeenInv

(* The same of a contract that can be reserved.                            *)
LEMMA QuietReservable ==
  ASSUME EnoughTime, TypeOK, SentinelIsHeld, CloseInv, Reservable
  PROVE  /\ shown = actual
         /\ \A d \in Calls : ~Live(d) /\ pc[d] = "idle"
<1>1. \A d \in Calls : pc[d] = "idle"
  BY TimeAssumption DEF Reservable, SentinelIsHeld, Inside, TypeOK
<1>2. \A d \in Calls : reserved \notin 0 .. age[d]
  BY TimeAssumption DEF Reservable, EnoughTime, TypeOK
<1>3. reserved \notin 0 .. FillBound + unseen
  BY TimeAssumption DEF Reservable, EnoughTime, TypeOK
<1> QED BY <1>1, <1>2, <1>3 DEF CloseInv, LiveInv, SeenInv

(* It holds at first.                                                      *)
LEMMA CloseInit == Init => CloseInv
<1> SUFFICES ASSUME Init PROVE CloseInv
  OBVIOUS
<1> QED
  BY DEF Init, CloseInv, SizeInv, LiveInv, OneLive, SeenInv, ReadInv, Live

(* A close reserves, reads the position and posts.                         *)
LEMMA CloseProceeds ==
  ASSUME EnoughTime, TypeOK, SentinelIsHeld, CloseInv,
         NEW c \in Calls, Reserve(c) \/ ReadPosition(c) \/ Post(c)
  PROVE  CloseInv'
<1>1. CASE Reserve(c)
  <2>1. shown = actual /\ \A d \in Calls : ~Live(d) /\ pc[d] = "idle"
    BY <1>1, QuietReservable DEF Reserve
  <2>2. \A d \in Calls : ~Live(d)' /\ pc'[d] \notin {"awaiting", "guards"}
    BY <1>1, <2>1 DEF Reserve, TypeOK, Live
  <2> QED
    BY <1>1, <2>1, <2>2
       DEF Reserve, positionVars, CloseInv, SizeInv, LiveInv, OneLive, SeenInv, ReadInv
<1>2. CASE ReadPosition(c)
  <2>1. shown = actual /\ \A d \in Calls : ~Live(d) /\ pc[d] # "awaiting"
    BY <1>2, QuietInside DEF ReadPosition
  <2>2. \A d \in Calls : ~Live(d)' /\ pc'[d] # "awaiting"
    BY <1>2, <2>1 DEF ReadPosition, TypeOK, Live
  <2>3. \A d \in Calls : pc'[d] = "guards" => qty'[d] = -shown /\ shown # 0
    BY <1>2 DEF ReadPosition, TypeOK, CloseInv, ReadInv
  <2> QED
    BY <1>2, <2>1, <2>2, <2>3
       DEF ReadPosition, positionVars, CloseInv, SizeInv, LiveInv, OneLive, SeenInv, ReadInv
<1>3. CASE Post(c)
  <2>1. /\ shown = actual
        /\ \A d \in Calls : ~Live(d) /\ (d # c => pc[d] = "idle")
    BY <1>3, QuietInside DEF Post
  <2>2. /\ \A d \in Calls : Live(d)' <=> d = c
        /\ \A d \in Calls : pc'[d] = IF d = c THEN "awaiting" ELSE "idle"
    BY <1>3, <2>1 DEF Post, TypeOK, Live
  <2>3. qty'[c] = -actual /\ actual # 0 /\ left'[c] = qty'[c] /\ actual' = actual
    BY <1>3, <2>1 DEF Post, TypeOK, CloseInv, ReadInv, positionVars
  <2>4. qty'[c] # 0 /\ left'[c] \in PartsOf(qty'[c]) /\ -left'[c] \in PartsOf(actual')
    BY <1>3, <2>3 DEF PartsOf, TypeOK
  <2>5. SizeInv'
    BY <2>2, <2>3, <2>4 DEF SizeInv
  <2>6. LiveInv' /\ OneLive' /\ SeenInv' /\ ReadInv'
    BY <1>3, <2>1, <2>2 DEF Post, positionVars, LiveInv, OneLive, SeenInv, ReadInv
  <2> QED BY <2>5, <2>6 DEF CloseInv
<1> QED BY <1>1, <1>2, <1>3

(* A call leaves before it has posted.                                     *)
LEMMA CloseBacksOut ==
  ASSUME TypeOK, SentinelIsHeld, CloseInv,
         NEW c \in Calls, pc[c] \in {"reading", "guards"}, NEW r, Leave(c, r)
  PROVE  CloseInv'
<1>1. shown = actual /\ \A d \in Calls : ~Live(d) /\ (d # c => pc[d] = "idle")
  BY QuietInside
<1>2. \A d \in Calls : ~Live(d)' /\ pc'[d] = "idle"
  BY <1>1 DEF Leave, TypeOK, Live, orderVars
<1> QED
  BY <1>1, <1>2
     DEF Leave, orderVars, positionVars, CloseInv, SizeInv, LiveInv, OneLive, SeenInv, ReadInv

(* A call leaves after it has posted.  Its reservation starts to age, or   *)
(* is released because the order is over and nothing of it was filled.     *)
LEMMA CloseAnswered ==
  ASSUME TypeOK, SentinelIsHeld, CloseInv,
         NEW c \in Calls, pc[c] = "awaiting", NEW r, Leave(c, r),
         r = 0 \/ (~Live(c) /\ left[c] = qty[c])
  PROVE  CloseInv'
<1>1. reserved = Inflight /\ \A d \in Calls : d # c => pc[d] = "idle"
  BY DEF SentinelIsHeld, Inside, TypeOK
<1>2. \A d \in Calls : Live(d) => d = c
  BY <1>1 DEF CloseInv, LiveInv
<1>3. \A d \in Calls : pc'[d] = "idle" /\ (Live(d)' <=> Live(d))
  BY <1>1 DEF Leave, TypeOK, Live, orderVars
<1>4. SizeInv' /\ OneLive' /\ ReadInv'
  BY <1>3 DEF Leave, orderVars, positionVars, CloseInv, SizeInv, OneLive, ReadInv
<1>5. LiveInv'
  <2>1. \A d \in Calls : 0 \in 0 .. age[d]
    BY TimeAssumption DEF TypeOK
  <2> QED BY <1>2, <1>3, <2>1 DEF Leave, orderVars, LiveInv
<1>6. SeenInv'
  <2>1. CASE r = 0
    BY <2>1, TimeAssumption DEF Leave, positionVars, TypeOK, SeenInv
  <2>2. CASE left[c] = qty[c]
    <3>1. reserved \notin 0 .. FillBound + unseen
      BY <1>1
    <3>2. shown = actual
      BY <1>1, <2>2, <3>1 DEF CloseInv, SeenInv
    <3> QED BY <3>2 DEF Leave, positionVars, SeenInv
  <2> QED BY <2>1, <2>2
<1> QED BY <1>4, <1>5, <1>6 DEF CloseInv

(* A status that releases the reservation is one of a dead order, unfilled.*)
LEMMA ReleasedIsDead ==
  ASSUME LooseAcks = {}, TypeOK, CloseInv,
         NEW c \in Calls, pc[c] = "awaiting",
         NEW st \in ReleaseStatuses, MayAnswer(c, st)
  PROVE  ~Live(c) /\ left[c] = qty[c]
<1>1. st \in {"rejected", "inactive", "cancelled"}
  BY StatusAssumption
<1>2. order[c] = "rejected" \/ (order[c] = "cancelled" /\ left[c] = qty[c])
  BY <1>1 DEF MayAnswer
<1> QED BY <1>2 DEF CloseInv, SizeInv, Live

(* The venue lets an order arrive or expire.                               *)
LEMMA CloseMoves ==
  ASSUME TypeOK, CloseInv, NEW c \in Calls, Land(c) \/ Expire(c)
  PROVE  CloseInv'
<1>1. /\ \A d \in Calls : Live(d)' => Live(d)
      /\ \A d \in Calls : order'[d] \in {"sent", "rejected"} => order[d] \in {"sent", "rejected"}
  BY DEF Land, Expire, TypeOK, Live
<1> QED
  BY <1>1 DEF Land, Expire, positionVars,
              CloseInv, SizeInv, LiveInv, OneLive, SeenInv, ReadInv

(* A fill takes its unit from the order and from the position.             *)
LEMMA CloseFills ==
  ASSUME TypeOK, SentinelIsHeld, CloseInv, NEW c \in Calls, Fill(c)
  PROVE  CloseInv'
<1> DEFINE unit == IF left[c] > 0 THEN 1 ELSE -1
<1>1. Live(c) /\ \A d \in Calls : Live(d) => d = c
  BY DEF Fill, Live, CloseInv, OneLive
<1>2. /\ left[c] \in Int /\ qty[c] \in Int /\ actual \in Int
      /\ left[c] # 0 /\ qty[c] # 0
      /\ left[c] \in PartsOf(qty[c]) /\ -left[c] \in PartsOf(actual)
  BY <1>1 DEF TypeOK, CloseInv, SizeInv
<1>3. left'[c] = left[c] - unit /\ actual' = actual + unit /\ qty' = qty /\ pc' = pc
  BY DEF Fill, TypeOK
<1>4. /\ left'[c] \in PartsOf(qty[c]) /\ -left'[c] \in PartsOf(actual')
      /\ left'[c] # qty[c]
  BY <1>2, <1>3 DEF PartsOf
<1>5. /\ \A d \in Calls : Live(d)' => d = c
      /\ Live(c)' => left'[c] # 0
      /\ order'[c] \in {"working", "filled"}
  BY <1>1, <1>2, <1>3 DEF Fill, TypeOK, Live
<1>6. \A d \in Calls : d # c => left'[d] = left[d] /\ order'[d] = order[d]
  BY DEF Fill, TypeOK
<1>7. SizeInv'
  <2> SUFFICES ASSUME NEW d \in Calls
               PROVE  /\ Live(d)' \/ pc'[d] = "awaiting" =>
                           qty'[d] # 0 /\ left'[d] \in PartsOf(qty'[d])
                      /\ Live(d)' => left'[d] # 0 /\ -left'[d] \in PartsOf(actual')
                      /\ pc'[d] = "awaiting" /\ order'[d] \in {"sent", "rejected"} =>
                           left'[d] = qty'[d]
    BY DEF SizeInv
  <2>1. CASE d = c
    BY <1>2, <1>3, <1>4, <1>5, <2>1
  <2>2. CASE d # c
    BY <1>3, <1>5, <1>6, <2>2 DEF CloseInv, SizeInv
  <2> QED BY <2>1, <2>2
<1>8. LiveInv' /\ OneLive' /\ ReadInv'
  BY <1>1, <1>3, <1>5 DEF Fill, CloseInv, LiveInv, OneLive, ReadInv
<1>9. SeenInv'
  <2>1. CASE pc[c] = "awaiting"
    BY <1>3, <1>4, <2>1 DEF SeenInv
  <2>2. CASE reserved \in 0 .. age[c]
    BY <2>2, TimeAssumption DEF Fill, TypeOK, SeenInv
  <2> QED BY <1>1, <2>1, <2>2 DEF CloseInv, LiveInv
<1> QED BY <1>7, <1>8, <1>9 DEF CloseInv

(* Time passes: orders and the reservation age together.                   *)
LEMMA CloseAges ==
  ASSUME TypeOK, CloseInv, EnoughTime, Tick
  PROVE  CloseInv'
<1>1. \A d \in Calls : Live(d)' <=> Live(d)
  BY DEF Tick, Live
<1>2. SizeInv' /\ OneLive' /\ ReadInv'
  BY <1>1 DEF Tick, CloseInv, SizeInv, OneLive, ReadInv
<1>3. LiveInv'
  <2> SUFFICES ASSUME NEW c \in Calls, Live(c), pc[c] # "awaiting"
               PROVE  pc[c] = "idle" /\ reserved' \in 0 .. age'[c]
    BY <1>1 DEF LiveInv, Tick
  <2>1. pc[c] = "idle" /\ reserved \in 0 .. age[c] /\ age[c] \in Nat /\ age[c] < FillBound
    BY TimeAssumption DEF CloseInv, LiveInv, Tick, TypeOK
  <2>2. age'[c] = age[c] + 1
    BY DEF Tick
  <2>3. reserved' = reserved + 1
    BY <2>1, TimeAssumption DEF Tick, EnoughTime
  <2> QED BY <2>1, <2>2, <2>3
<1>4. SeenInv'
  <2> SUFFICES ASSUME shown # actual, reserved \in 0 .. FillBound + unseen
               PROVE  reserved' \in 0 .. FillBound + unseen'
    BY DEF CloseInv, SeenInv, Tick
  <2>1. unseen \in Nat /\ unseen < Lag /\ unseen' = unseen + 1
    BY TimeAssumption DEF Tick, TypeOK
  <2>2. reserved' = reserved + 1
    BY <2>1, TimeAssumption DEF Tick, EnoughTime
  <2> QED BY <2>1, <2>2, TimeAssumption
<1> QED BY <1>2, <1>3, <1>4 DEF CloseInv

(* CloseInv is inductive beside the types and the sentinel.                *)
LEMMA CloseInductive ==
  ASSUME EnoughTime, LooseAcks = {}, TypeOK, SentinelIsHeld, CloseInv, [Next]_vars
  PROVE  CloseInv'
<1>1. ASSUME NEW c \in Calls, NothingToClose(c) \/ DryRun(c) PROVE CloseInv'
  BY <1>1, CloseBacksOut DEF NothingToClose, DryRun
<1>2. ASSUME NEW c \in Calls, Abort(c) PROVE CloseInv'
  <2>1. CASE pc[c] \in {"reading", "guards"}
    BY <1>2, <2>1, CloseBacksOut DEF Abort
  <2>2. CASE pc[c] = "awaiting"
    BY <1>2, <2>2, CloseAnswered DEF Abort, Normalised
  <2> QED BY <1>2, <2>1, <2>2 DEF Abort, Inside
<1>3. ASSUME NEW c \in Calls, Ack(c) PROVE CloseInv'
  <2>1. PICK st \in Statuses : MayAnswer(c, st) /\ Leave(c, AfterAck(st))
    BY <1>3 DEF Ack
  <2>2. CASE st \in ReleaseStatuses
    BY <1>3, <2>1, <2>2, CloseAnswered, ReleasedIsDead DEF Ack
  <2>3. CASE st \notin ReleaseStatuses
    BY <1>3, <2>1, <2>3, CloseAnswered DEF Ack, AfterAck
  <2> QED BY <2>2, <2>3
<1>4. CASE Refresh
  BY <1>4, QuietInside
     DEF Refresh, orderVars, CloseInv, SizeInv, LiveInv, OneLive, SeenInv, ReadInv, Live
<1>5. CASE UNCHANGED vars
  BY <1>5 DEF vars, orderVars, positionVars,
              CloseInv, SizeInv, LiveInv, OneLive, SeenInv, ReadInv, Live
<1> QED
  BY <1>1, <1>2, <1>3, <1>4, <1>5, CloseProceeds, CloseMoves, CloseFills, CloseAges
     DEF Next, CallStep, VenueStep

(* Where fills and portfolio are done before the cooldown and no answer is *)
(* loose, a position is not sold twice, however many closes are asked for, *)
(* raise, are cancelled or are never answered.                             *)
THEOREM NothingSoldTwice ==
  ASSUME EnoughTime, LooseAcks = {}
  PROVE  Spec => []NeverSoldTwice
<1>1. CloseInv => NeverSoldTwice
  BY DEF CloseInv, SizeInv, OneLive, NeverSoldTwice
<1>2. TypeOK /\ SentinelIsHeld /\ CloseInv /\ [Next]_vars => CloseInv'
  BY CloseInductive
<1> QED BY <1>1, <1>2, CloseInit, TypeCorrect, SentinelHeld, PTL DEF Spec
=============================================================================
