------------------------ MODULE CoverAllowanceProofs ------------------------
(***************************************************************************)
(* The guards that rest on a lagging position, for any calls, requests and *)
(* positions.  Orders may rest and the portfolio may be late for any time: *)
(* nothing is assumed of either.                                           *)
(***************************************************************************)
EXTENDS CoverAllowance, TLAPS

USE DEF NoCover, OldAge, Sides

(* The types of the steps of one call and of the venue.                    *)
LEMMA CallType ==
  ASSUME TypeOK, NEW c \in Calls, Arrive(c) \/ CallStep(c)
  PROVE  TypeOK'
<1>0. request[c].side \in Sides /\ request[c].quantity \in Int
  BY RequestAssumption DEF TypeOK
<1>1. CASE Arrive(c)
  BY <1>1, CooldownAssumption DEF TypeOK, Arrive, switchVars, orderVars, positionVars
<1>2. CASE Answer(c)
  <2>1. held' \in [Calls -> Int \cup {NoRead}]
    BY <1>2 DEF TypeOK, Answer, Answers
  <2>2. against' \in [Calls -> Nat] /\ settled' \in [Calls -> BOOLEAN]
    BY <1>0, <1>2 DEF TypeOK, Answer
  <2> QED BY <1>2, <2>1, <2>2 DEF TypeOK, Answer, switchVars, orderVars, positionVars
<1>3. ASSUME NEW b \in BOOLEAN, Pass(c, b), covered' \in 0 .. Cooldown PROVE TypeOK'
  <2>1. settled' \in [Calls -> BOOLEAN] /\ against' \in [Calls -> Nat]
    BY <1>3 DEF TypeOK, Pass, KeepRead
  <2> QED BY <1>3, <2>1 DEF TypeOK, Pass, switchVars, orderVars, positionVars
<1>4. CASE PassExempt(c)
  <2>1. covered' \in 0 .. Cooldown
    BY <1>4, CooldownAssumption DEF PassExempt, Claimed, TypeOK
  <2> QED BY <1>3, <1>4, <2>1 DEF PassExempt
<1>5. CASE PassCapped(c)
  BY <1>3, <1>5 DEF PassCapped, AfterRefusal, TypeOK
<1>6. CASE PassSell(c)
  BY <1>3, <1>6 DEF PassSell, TypeOK
<1>7. CASE End(c)
  <2>1. settled' \in [Calls -> BOOLEAN] /\ against' \in [Calls -> Nat]
    BY <1>7 DEF TypeOK, End, KeepRead
  <2> QED BY <1>7, <2>1 DEF TypeOK, End, switchVars, orderVars, positionVars
<1>8. CASE Post(c)
  BY <1>0, <1>8 DEF TypeOK, Post, switchVars, positionVars
<1> QED BY <1>1, <1>2, <1>4, <1>5, <1>6, <1>7, <1>8 DEF CallStep

LEMMA WorldType ==
  ASSUME TypeOK, (\E c \in Calls : VenueStep(c)) \/ Refresh \/ Tick
  PROVE  TypeOK'
<1>1. ASSUME NEW c \in Calls, Land(c) PROVE TypeOK'
  BY <1>1 DEF TypeOK, Land, switchVars, positionVars
<1>2. ASSUME NEW c \in Calls, Fill(c) PROVE TypeOK'
  <2>1. request[c].side \in Sides
    BY RequestAssumption DEF TypeOK
  <2>2. actual' \in Int /\ left' \in [Calls -> Int]
    BY <1>2, <2>1 DEF TypeOK, Fill
  <2>5. coversShown' \in BOOLEAN
    BY <1>2 DEF TypeOK, Fill
  <2>3. unshown' \in [Sides -> Nat]
    BY <1>2, <2>1 DEF TypeOK, Fill
  <2>4. against' \in [Calls -> Nat]
    BY <1>2 DEF TypeOK, Fill
  <2> QED BY <1>2, <2>2, <2>3, <2>4, <2>5 DEF TypeOK, Fill, switchVars
<1>3. CASE Refresh
  BY <1>3 DEF TypeOK, Refresh, switchVars, orderVars
<1>4. CASE Tick
  <2>1. age' \in [Calls -> 0 .. 2 * Cooldown]
    BY <1>4, CooldownAssumption DEF TypeOK, Tick
  <2>2. covered' \in 0 .. Cooldown
    BY <1>4, CooldownAssumption DEF TypeOK, Tick, Aged
  <2> QED BY <1>4, <2>1, <2>2 DEF TypeOK, Tick, switchVars, orderVars, positionVars
<1> QED BY <1>1, <1>2, <1>3, <1>4 DEF VenueStep

LEMMA TypeKept ==
  ASSUME TypeOK, [Next]_vars
  PROVE  TypeOK'
<1>1. CASE Next
  BY <1>1, CallType, WorldType DEF Next
<1>2. CASE UNCHANGED vars
  BY <1>2 DEF TypeOK, vars, switchVars, orderVars, positionVars
<1> QED BY <1>1, <1>2

(* The guards' variables keep their types.                                 *)
THEOREM TypeCorrect == Spec => []TypeOK
<1>1. Init => TypeOK
  BY CooldownAssumption, AmountAssumption, RequestAssumption DEF Init, TypeOK
<1> QED BY <1>1, TypeKept, PTL DEF Spec

-----------------------------------------------------------------------------
(* Calls and their orders.                                                 *)

(* A call has no order before it posts, and none at all in a dry run; it   *)
(* rests on no read before its guard; one call of a side is under way.     *)
CallInv ==
  /\ \A c \in Calls : pc[c] \in {"asking", "answered", "checked"} => ~Live(c)
  /\ \A c \in Calls : pc[c] \in {"asking", "answered"} => ~onRead[c]
  /\ dryRun => \A c \in Calls : ~Live(c)
  /\ \A c, d \in Calls :
       /\ pc[c] # "idle" /\ pc[d] # "idle"
       /\ request[c].side = request[d].side
       => c = d

LEMMA CallInvInductive ==
  ASSUME TypeOK, CallInv, [Next]_vars
  PROVE  CallInv'
<1>1. ASSUME NEW c \in Calls, Arrive(c) PROVE CallInv'
  BY <1>1 DEF CallInv, Arrive, LockFree, TypeOK, Live, switchVars, orderVars
<1>2. ASSUME NEW c \in Calls, Answer(c) PROVE CallInv'
  BY <1>2 DEF CallInv, Answer, TypeOK, Live, switchVars, orderVars
<1>3. ASSUME NEW c \in Calls, NEW b, Pass(c, b) PROVE CallInv'
  BY <1>3 DEF CallInv, Pass, TypeOK, Live, switchVars, orderVars
<1>4. ASSUME NEW c \in Calls, PassExempt(c) \/ PassCapped(c) \/ PassSell(c)
      PROVE  CallInv'
  BY <1>3, <1>4 DEF PassExempt, PassCapped, PassSell
<1>5. ASSUME NEW c \in Calls, End(c) PROVE CallInv'
  BY <1>5 DEF CallInv, End, TypeOK, Live, switchVars, orderVars
<1>6. ASSUME NEW c \in Calls, Post(c) PROVE CallInv'
  BY <1>6 DEF CallInv, Post, TypeOK, Live, switchVars
<1>7. ASSUME NEW c \in Calls, Land(c) \/ Fill(c) PROVE CallInv'
  <2>1. \A d \in Calls : Live(d)' => Live(d)
    BY <1>7 DEF Land, Fill, TypeOK, Live
  <2> QED BY <1>7, <2>1 DEF CallInv, Land, Fill, switchVars
<1>8. CASE Refresh \/ Tick \/ UNCHANGED vars
  BY <1>8 DEF Refresh, Tick, vars, CallInv, Live, switchVars, orderVars
<1> QED BY <1>1, <1>2, <1>4, <1>5, <1>6, <1>7, <1>8 DEF Next, CallStep, VenueStep

LEMMA CallInvHolds == Spec => []CallInv
<1>1. Init => CallInv
  BY DEF Init, CallInv, Live
<1> QED BY <1>1, CallInvInductive, TypeCorrect, PTL DEF Spec

(* A step that makes no cover of a call leaves only what was one.          *)
LEMMA CoverOnlyByPass ==
  ASSUME TypeOK, [Next]_vars, NEW c \in Calls, IsCover(c)', ~PassExempt(c)
  PROVE  IsCover(c) /\ age[c] <= age[c]' /\ (Exempt(c)' => Exempt(c))
<1>1. ASSUME NEW d \in Calls, Arrive(d)
      PROVE  IsCover(c) /\ age[c] <= age[c]' /\ (Exempt(c)' => Exempt(c))
  <2>1. c # d
    BY <1>1 DEF Arrive, IsCover, TypeOK
  <2> QED BY <1>1, <2>1 DEF Arrive, IsCover, Exempt, Pending, Live, TypeOK, orderVars
<1>2. ASSUME NEW d \in Calls, NEW b \in BOOLEAN, Pass(d, b), c # d
      PROVE  IsCover(c) /\ age[c] <= age[c]' /\ (Exempt(c)' => Exempt(c))
  BY <1>2 DEF Pass, IsCover, Exempt, Pending, Live, TypeOK, orderVars
<1>3. ASSUME NEW d \in Calls, PassExempt(d) \/ PassCapped(d) \/ PassSell(d)
      PROVE  IsCover(c) /\ age[c] <= age[c]' /\ (Exempt(c)' => Exempt(c))
  <2>1. c # d
    BY <1>3 DEF PassExempt, PassCapped, PassSell, Pass, IsCover, TypeOK
  <2> QED BY <1>2, <1>3, <2>1 DEF PassExempt, PassCapped, PassSell
<1>4. ASSUME NEW d \in Calls, Answer(d) \/ End(d) \/ Post(d) \/ Land(d) \/ Fill(d)
      PROVE  IsCover(c) /\ age[c] <= age[c]' /\ (Exempt(c)' => Exempt(c))
  BY <1>4 DEF Answer, End, Post, Land, Fill, IsCover, Exempt, Pending, Live, TypeOK,
     orderVars
<1>5. CASE Tick
  BY <1>5 DEF Tick, IsCover, Exempt, Pending, Live, TypeOK, orderVars
<1>6. CASE Refresh \/ UNCHANGED vars
  BY <1>6 DEF Refresh, vars, IsCover, Exempt, Pending, Live, TypeOK, orderVars
<1> QED BY <1>1, <1>3, <1>4, <1>5, <1>6 DEF Next, CallStep, VenueStep

-----------------------------------------------------------------------------
(* One cover per window.                                                   *)

(* A cover is as old as the entry it left, or older; what is none is new.  *)
AgeInv ==
  /\ ~dryRun => \A c \in Calls : IsCover(c) => covered <= age[c]
  /\ \A c \in Calls : ~IsCover(c) => age[c] = 0

LEMMA AgeInvInductive ==
  ASSUME TypeOK, CallInv, AgeInv, OneCoverPerWindow, [Next]_vars
  PROVE  AgeInv' /\ OneCoverPerWindow'
<1>1. ASSUME NEW c \in Calls, Arrive(c) PROVE AgeInv' /\ OneCoverPerWindow'
  <2>1. ~IsCover(c)' /\ age[c]' = 0 /\ dryRun' = dryRun /\ covered' = covered
    BY <1>1 DEF Arrive, IsCover, TypeOK, switchVars
  <2>2. ASSUME NEW d \in Calls, d # c PROVE IsCover(d)' = IsCover(d) /\ age[d]' = age[d]
    BY <1>1, <2>2 DEF Arrive, IsCover, TypeOK
  <2> QED BY <2>1, <2>2 DEF AgeInv, OneCoverPerWindow
<1>2. ASSUME NEW c \in Calls, PassExempt(c) PROVE AgeInv' /\ OneCoverPerWindow'
  <2>1. IsCover(c)' /\ dryRun' = dryRun /\ age' = age /\ covered' = Claimed
    BY <1>2 DEF PassExempt, Pass, IsCover, TypeOK, switchVars
  <2>2. ASSUME NEW d \in Calls, d # c PROVE IsCover(d)' = IsCover(d)
    BY <1>2, <2>2 DEF PassExempt, Pass, IsCover, TypeOK
  <2>3. CASE dryRun
    BY <2>1, <2>2, <2>3 DEF AgeInv, OneCoverPerWindow
  <2>4. CASE ~dryRun
    <3>1. covered >= Cooldown /\ covered' = 0
      BY <1>2, <2>1, <2>4 DEF PassExempt, AllowanceFree, Claimed
    <3> QED BY <2>1, <2>2, <2>4, <3>1, CooldownAssumption
            DEF AgeInv, OneCoverPerWindow, TypeOK
  <2> QED BY <2>3, <2>4
<1>3. ASSUME NEW c \in Calls, PassCapped(c) \/ PassSell(c)
      PROVE  AgeInv' /\ OneCoverPerWindow'
  <2>1. ~IsCover(c)' /\ dryRun' = dryRun /\ age' = age /\ covered' = covered
    BY <1>3 DEF PassCapped, PassSell, Pass, AfterRefusal, IsCover, TypeOK, switchVars
  <2>2. ASSUME NEW d \in Calls, d # c PROVE IsCover(d)' = IsCover(d)
    BY <1>3, <2>2 DEF PassCapped, PassSell, Pass, IsCover, TypeOK
  <2>3. age[c] = 0
    BY <1>3 DEF PassCapped, PassSell, Pass, CallInv, AgeInv, IsCover
  <2> QED BY <2>1, <2>2, <2>3 DEF AgeInv, OneCoverPerWindow
<1>4. CASE Tick
  <2>1. dryRun' = dryRun /\ \A c \in Calls : IsCover(c)' = IsCover(c)
    BY <1>4 DEF Tick, IsCover, switchVars
  <2>2. covered' = IF covered < Cooldown THEN covered + 1 ELSE covered
    BY <1>4 DEF Tick, Aged
  <2>3. \A c \in Calls : age[c]' = IF IsCover(c) /\ age[c] < 2 * Cooldown THEN age[c] + 1
                                                                          ELSE age[c]
    BY <1>4 DEF Tick, TypeOK
  <2>4. AgeInv'
    BY <2>1, <2>2, <2>3, CooldownAssumption DEF AgeInv, TypeOK
  <2>5. ASSUME ~dryRun, NEW c \in Calls, NEW d \in Calls, c # d, IsCover(c), IsCover(d),
               age[c]' <= age[d]', age[c]' < Cooldown
        PROVE  age[d]' >= age[c]' + Cooldown
    <3>1. age[c] \in 0 .. 2 * Cooldown /\ age[d] \in 0 .. 2 * Cooldown
      BY DEF TypeOK
    <3>2. age[c] < Cooldown /\ age[c] <= age[d]
      BY <2>3, <2>5, <3>1, CooldownAssumption
    <3>3. age[d] >= age[c] + Cooldown
      BY <2>5, <3>2 DEF OneCoverPerWindow
    <3> QED BY <2>3, <2>5, <3>1, <3>2, <3>3, CooldownAssumption
  <2> QED BY <2>1, <2>4, <2>5 DEF OneCoverPerWindow
<1>5. CASE (\E c \in Calls : Answer(c) \/ End(c) \/ Post(c) \/ Land(c) \/ Fill(c))
           \/ Refresh \/ UNCHANGED vars
  BY <1>5 DEF Answer, End, Post, Land, Fill, Refresh, vars, AgeInv, OneCoverPerWindow,
     IsCover, switchVars
<1> QED BY <1>1, <1>2, <1>3, <1>4, <1>5 DEF Next, CallStep, VenueStep

(* Of two uncapped covers one is a whole window older, however long orders *)
(* rest, answers travel and the portfolio lags.                            *)
THEOREM OneCoverEachWindow == Spec => [](AgeInv /\ OneCoverPerWindow)
<1>1. Init => AgeInv /\ OneCoverPerWindow
  BY DEF Init, AgeInv, OneCoverPerWindow, IsCover
<1> QED BY <1>1, AgeInvInductive, CallInvHolds, TypeCorrect, PTL DEF Spec

-----------------------------------------------------------------------------
(* What a read hides.                                                      *)

(* A buy that reads, or rests on a read within its window, is alone among  *)
(* the covers if it was when the venue answered.                           *)
AloneInv ==
  \A c, d \in Calls :
    /\ c # d /\ request[c].side = "BUY" /\ settled[c]
    /\ pc[c] = "answered" \/ (Exempt(c) /\ age[c] < Cooldown)
    => ~Exempt(d)

(* The portfolio hides no more than what is put to its account.            *)
HiddenInv ==
  /\ coversShown => actual <= shown + unshown["BUY"]
  /\ shown <= actual + unshown["SELL"]

(* So does an answer on its way.                                           *)
ReadInv ==
  \A c \in Calls : pc[c] = "answered" /\ held[c] # NoRead =>
    /\ request[c].side = "BUY" /\ settled[c] => actual <= held[c] + against[c]
    /\ request[c].side = "SELL" => held[c] <= actual + against[c]

LEMMA AloneInvInductive ==
  ASSUME TypeOK, CallInv, AgeInv, AloneInv, [Next]_vars
  PROVE  AloneInv'
<1>1. SUFFICES ASSUME NEW c \in Calls, NEW d \in Calls, c # d,
                      request[c].side' = "BUY", settled[c]', Exempt(d)',
                      pc[c]' = "answered" \/ (Exempt(c)' /\ age[c]' < Cooldown)
               PROVE  FALSE
  BY DEF AloneInv
<1>2. CASE Answer(c)
  <2>1. ~Exempt(d)
    BY <1>1, <1>2 DEF Answer, TypeOK
  <2> QED BY <1>1, <1>2, <2>1 DEF Answer, Exempt, IsCover, Pending, Live, TypeOK, orderVars
<1>3. CASE PassExempt(d)
  <2>1. request[d].side = "BUY" /\ pc[d] = "answered" /\ covered >= Cooldown
    BY <1>3 DEF PassExempt, Pass, AllowanceFree
  <2>2. pc[c]' = pc[c] /\ request' = request /\ age' = age /\ dryRun' = dryRun /\ order' = order
        /\ onRead[c]' = onRead[c]
    BY <1>1, <1>3 DEF PassExempt, Pass, TypeOK, switchVars, orderVars
  <2>3. pc[c] \in {"answered", "checked"} => FALSE
    BY <1>1, <2>1, <2>2 DEF CallInv
  <2>4. Exempt(c) /\ age[c] < Cooldown /\ Live(c)
    BY <1>1, <2>2, <2>3 DEF Exempt, IsCover, Pending, Live
  <2>5. covered <= age[c]
    BY <2>4 DEF AgeInv, CallInv, Exempt
  <2> QED BY <2>1, <2>4, <2>5, CooldownAssumption DEF TypeOK
<1>4. CASE ~Answer(c) /\ ~PassExempt(d)
  <2>1. Exempt(d)
    BY <1>1, <1>4, CoverOnlyByPass DEF Exempt
  <2>2. request[c].side = "BUY" /\ settled[c]
        /\ (pc[c] = "answered" \/ (Exempt(c) /\ age[c] < Cooldown))
    <3>1. CASE PassExempt(c)
      BY <1>1, <3>1 DEF PassExempt, Pass, KeepRead, TypeOK
    <3>2. CASE ~PassExempt(c)
      <4> DEFINE Held == /\ request[c]' = request[c] /\ (settled[c]' => settled[c])
                         /\ (pc[c]' = "answered" => pc[c] = "answered")
      <4>1. Held
        <5>1. ASSUME NEW e \in Calls, Arrive(e) \/ Answer(e) PROVE c # e
          BY <1>1, <1>4, <5>1 DEF Arrive, Answer, TypeOK
        <5>2. ASSUME NEW e \in Calls, Arrive(e) \/ Answer(e) PROVE Held
          BY <5>1, <5>2 DEF Arrive, Answer, TypeOK
        <5>3. ASSUME NEW e \in Calls, CallStep(e) \/ VenueStep(e), ~Answer(e) PROVE Held
          BY <5>3 DEF CallStep, VenueStep, PassExempt, PassCapped, PassSell, Pass, KeepRead,
             End, Post, Land, Fill, TypeOK
        <5>4. CASE Refresh \/ Tick \/ UNCHANGED vars
          BY <5>4 DEF Refresh, Tick, vars
        <5> QED BY <5>2, <5>3, <5>4 DEF Next
      <4>2. Exempt(c)' => Exempt(c) /\ age[c] <= age[c]'
        BY <3>2, CoverOnlyByPass DEF Exempt
      <4>3. age[c] \in Int /\ age[c]' \in Int
        BY TypeKept DEF TypeOK
      <4> QED BY <1>1, <4>1, <4>2, <4>3, CooldownAssumption
    <3> QED BY <3>1, <3>2
  <2> QED BY <1>1, <2>1, <2>2 DEF AloneInv
<1> QED BY <1>2, <1>3, <1>4

LEMMA HiddenInvInductive ==
  ASSUME TypeOK, HiddenInv, [Next]_vars
  PROVE  HiddenInv'
<1>1. ASSUME NEW c \in Calls, Fill(c) PROVE HiddenInv'
  <2>1. request[c].side \in Sides
    BY RequestAssumption DEF TypeOK
  <2>2. shown' = shown
    BY <1>1 DEF Fill
  <2>3. CASE request[c].side = "BUY"
    BY <1>1, <2>2, <2>3 DEF Fill, HiddenInv, TypeOK
  <2>4. CASE request[c].side = "SELL"
    BY <1>1, <2>2, <2>4 DEF Fill, IsCover, HiddenInv, TypeOK
  <2> QED BY <2>1, <2>3, <2>4
<1>2. CASE Refresh
  BY <1>2 DEF Refresh, HiddenInv, TypeOK
<1>3. ASSUME NEW c \in Calls, Arrive(c) \/ CallStep(c) \/ Land(c) PROVE HiddenInv'
  <2>1. UNCHANGED positionVars
    BY <1>3 DEF Arrive, CallStep, Answer, PassExempt, PassCapped, PassSell, Pass, End,
       Post, Land
  <2> QED BY <2>1 DEF HiddenInv, positionVars
<1>4. CASE Tick \/ UNCHANGED vars
  BY <1>4 DEF Tick, vars, HiddenInv, positionVars
<1> QED BY <1>1, <1>2, <1>3, <1>4 DEF Next, VenueStep

LEMMA ReadInvInductive ==
  ASSUME TypeOK, CallInv, AloneInv, HiddenInv, ReadInv, [Next]_vars
  PROVE  ReadInv'
<1> DEFINE Accounted(c) ==
      /\ request[c].side = "BUY" /\ settled[c] => actual <= held[c] + against[c]
      /\ request[c].side = "SELL" => held[c] <= actual + against[c]
<1>1. SUFFICES ASSUME NEW c \in Calls, pc[c]' = "answered", held[c]' # NoRead
               PROVE  Accounted(c)'
  BY DEF ReadInv
<1>2. CASE Answer(c)
  <2>1. held[c]' = shown /\ against[c]' = unshown[request[c].side]
        /\ request' = request /\ actual' = actual /\ (settled[c]' => coversShown)
    BY <1>1, <1>2 DEF Answer, Answers, TypeOK, positionVars
  <2> QED BY <2>1 DEF HiddenInv, TypeOK
<1>3. CASE ~Answer(c)
  <2> DEFINE Same == /\ pc[c] = "answered" /\ request[c]' = request[c]
                     /\ held[c]' = held[c] /\ settled[c]' = settled[c]
  <2>1. Same
    <3>1. ASSUME NEW e \in Calls,
                 \/ Arrive(e) \/ Answer(e) \/ PassExempt(e) \/ PassCapped(e)
                 \/ PassSell(e) \/ End(e) \/ Post(e)
          PROVE  c # e
      BY <1>1, <1>3, <3>1 DEF Arrive, PassExempt, PassCapped, PassSell, Pass, End, Post, TypeOK
    <3>2. ASSUME NEW e \in Calls, Arrive(e) \/ CallStep(e) \/ VenueStep(e) PROVE Same
      BY <1>1, <3>1, <3>2 DEF Arrive, CallStep, VenueStep, Answer, PassExempt, PassCapped,
         PassSell, Pass, KeepRead, End, Post, Land, Fill, TypeOK
    <3>3. CASE Refresh \/ Tick \/ UNCHANGED vars
      BY <1>1, <3>3 DEF Refresh, Tick, vars
    <3> QED BY <3>2, <3>3 DEF Next
  <2>2. Accounted(c)
    BY <1>1, <2>1 DEF ReadInv
  <2>3. held[c] \in Int
    BY <1>1, <2>1 DEF TypeOK
  <2>4. ASSUME NEW d \in Calls, Fill(d) PROVE Accounted(c)'
    <3>1. c # d /\ Live(d) /\ request[d].side \in Sides
      BY <2>1, <2>4, RequestAssumption DEF Fill, CallInv, Live, TypeOK
    <3>2. CASE request[d].side = "BUY"
      <4>1. request[c].side = "BUY" /\ settled[c] => ~IsCover(d)
        BY <2>1, <3>1 DEF AloneInv, Exempt, Pending
      <4> QED BY <2>1, <2>2, <2>3, <2>4, <3>1, <3>2, <4>1 DEF Fill, Reading, TypeOK
    <3>3. CASE request[d].side = "SELL"
      BY <2>1, <2>2, <2>3, <2>4, <3>1, <3>3 DEF Fill, Reading, IsCover, TypeOK
    <3> QED BY <3>1, <3>2, <3>3
  <2>5. CASE ~ \E d \in Calls : Fill(d)
    <3> DEFINE Unmoved == actual' = actual /\ against[c]' = against[c]
    <3>1. Unmoved
      <4>1. ASSUME NEW e \in Calls, Arrive(e) \/ CallStep(e) \/ Land(e) PROVE Unmoved
        BY <1>1, <1>3, <4>1, <2>1 DEF Arrive, CallStep, Answer, PassExempt, PassCapped,
           PassSell, Pass, KeepRead, End, Post, Land, TypeOK, positionVars
      <4>2. CASE Refresh \/ Tick \/ UNCHANGED vars
        BY <4>2 DEF Refresh, Tick, vars, positionVars
      <4> QED BY <2>5, <4>1, <4>2 DEF Next, VenueStep
    <3> QED BY <2>1, <2>2, <3>1
  <2> QED BY <2>4, <2>5
<1> QED BY <1>2, <1>3

(* A call that reads, and what it may miss.                                *)
MissInv == AloneInv /\ HiddenInv /\ ReadInv

LEMMA MissInvHolds == Spec => []MissInv
<1>1. Init => MissInv
  BY AmountAssumption
     DEF Init, MissInv, AloneInv, HiddenInv, ReadInv, Exempt, IsCover
<1>2. TypeOK /\ CallInv /\ AgeInv /\ MissInv /\ [Next]_vars => MissInv'
  BY AloneInvInductive, HiddenInvInductive, ReadInvInductive DEF MissInv
<1> QED BY <1>1, <1>2, OneCoverEachWindow, CallInvHolds, TypeCorrect, PTL DEF Spec

-----------------------------------------------------------------------------
(* The covers and the sells.                                               *)

(* A cover that was alone and well informed when it read only covers.      *)
LEMMA CoversInductive ==
  ASSUME TypeOK, CallInv, MissInv, CoversOnlyCover, [Next]_vars
  PROVE  CoversOnlyCover'
<1>1. SUFFICES ASSUME NEW c \in Calls, Exempt(c)', settled[c]', age[c]' < Cooldown
               PROVE  actual' + Owed(c)' <= against[c]'
  BY DEF CoversOnlyCover
<1>2. CASE PassExempt(c)
  <2>1. /\ pc[c] = "answered" /\ request[c].side = "BUY" /\ Covers(c) /\ settled[c]
        /\ pc[c]' = "checked" /\ request' = request /\ actual' = actual
        /\ against[c]' = against[c]
    BY <1>1, <1>2 DEF PassExempt, Pass, KeepRead, TypeOK, positionVars
  <2>2. actual <= held[c] + against[c] /\ held[c] \in Int
    BY <2>1 DEF MissInv, ReadInv, Covers, TypeOK
  <2>3. request[c].quantity \in Int
    BY RequestAssumption DEF TypeOK
  <2> QED BY <2>1, <2>2, <2>3 DEF Covers, Owed, TypeOK
<1>3. CASE ~PassExempt(c)
  <2>1. Exempt(c) /\ age[c] < Cooldown
    <3>1. Exempt(c) /\ age[c] <= age[c]'
      BY <1>1, <1>3, CoverOnlyByPass DEF Exempt
    <3>2. age[c] \in Int /\ age[c]' \in Int
      BY TypeKept DEF TypeOK
    <3> QED BY <1>1, <3>1, <3>2, CooldownAssumption
  <2> DEFINE Same == /\ Owed(c)' = Owed(c) /\ actual' = actual
                     /\ settled[c]' = settled[c] /\ against[c]' = against[c]
  <2>2. ASSUME NEW d \in Calls, Arrive(d) \/ Answer(d) PROVE Same
    <3>1. c # d
      BY <1>1, <2>1, <2>2 DEF Arrive, Answer, Exempt, IsCover, Pending, Live, CallInv, TypeOK
    <3> QED BY <2>2, <3>1 DEF Arrive, Answer, Owed, TypeOK, orderVars, positionVars
  <2>3. ASSUME NEW d \in Calls, PassExempt(d) \/ PassCapped(d) \/ PassSell(d) PROVE Same
    <3>1. c # d
      BY <2>1, <2>3
         DEF PassExempt, PassCapped, PassSell, Pass, Exempt, Pending, CallInv
    <3> QED BY <2>3, <3>1
            DEF PassExempt, PassCapped, PassSell, Pass, KeepRead, Owed, TypeOK, orderVars,
            positionVars
  <2>4. ASSUME NEW d \in Calls, End(d) \/ Post(d) \/ Land(d) PROVE Same
    <3>1. CASE Post(d)
      BY <2>1, <3>1 DEF Post, Owed, TypeOK, positionVars
    <3>2. CASE Land(d)
      BY <1>1, <2>1, <3>2
         DEF Land, Owed, Exempt, Pending, Live, CallInv, TypeOK, positionVars
    <3>3. CASE End(d) /\ d # c
      BY <3>3 DEF End, KeepRead, Owed, TypeOK, orderVars, positionVars
    <3>4. CASE End(c)
      <4>1. Live(c) /\ pc[c] # "checked"
        BY <1>1, <2>1, <3>4
           DEF End, Exempt, Pending, Live, CallInv, TypeOK, orderVars
      <4> QED BY <3>4, <4>1 DEF End, KeepRead, Owed, TypeOK, orderVars, positionVars
    <3> QED BY <2>4, <3>1, <3>2, <3>3, <3>4
  <2>5. ASSUME Refresh \/ Tick \/ UNCHANGED vars PROVE Same
    BY <2>5 DEF Refresh, Tick, vars, Owed, orderVars, positionVars
  <2>6. ASSUME Same PROVE actual' + Owed(c)' <= against[c]'
    <3>1. settled[c]
      BY <1>1, <2>6
    <3>2. actual + Owed(c) <= against[c]
      BY <2>1, <3>1 DEF CoversOnlyCover
    <3> QED BY <2>6, <3>2
  <2>7. ASSUME NEW d \in Calls, Fill(d) PROVE actual' + Owed(c)' <= against[c]'
    <3>0. settled[c] /\ Live(d) /\ pc[d] # "checked" /\ request[d].side \in Sides
      BY <1>1, <2>7, RequestAssumption DEF Fill, CallInv, Live, TypeOK
    <3>1. actual + Owed(c) <= against[c] /\ Owed(c) \in Int
      BY <2>1, <3>0, RequestAssumption DEF CoversOnlyCover, Owed, TypeOK
    <3>2. CASE d = c
      BY <2>1, <2>7, <3>0, <3>1, <3>2 DEF Fill, Owed, Exempt, IsCover, TypeOK
    <3>3. CASE d # c /\ request[d].side = "BUY"
      <4>1. ~IsCover(d)
        BY <2>1, <3>0, <3>3 DEF MissInv, AloneInv, Exempt, IsCover, Pending
      <4>2. against[c]' = against[c] + 1 /\ actual' = actual + 1 /\ Owed(c)' = Owed(c)
        BY <2>1, <2>7, <3>3, <4>1
           DEF Fill, Reading, Owed, Exempt, IsCover, TypeOK
      <4> QED BY <3>1, <4>2 DEF TypeOK
    <3>4. CASE d # c /\ request[d].side = "SELL"
      <4>1. against[c]' = against[c] /\ actual' = actual - 1 /\ Owed(c)' = Owed(c)
        BY <2>1, <2>7, <3>4 DEF Fill, Owed, Exempt, IsCover, TypeOK
      <4> QED BY <3>1, <4>1 DEF TypeOK
    <3> QED BY <3>0, <3>2, <3>3, <3>4
  <2> HIDE DEF Same
  <2> QED BY <1>3, <2>2, <2>3, <2>4, <2>5, <2>6, <2>7 DEF Next, CallStep, VenueStep
<1> QED BY <1>2, <1>3

(* Whatever rests and whatever the portfolio hides, a cover whose read had *)
(* no earlier one to miss is an exit while its window lasts.               *)
THEOREM SettledCoversOnlyCover == Spec => []CoversOnlyCover
<1>1. Init => CoversOnlyCover
  BY DEF Init, CoversOnlyCover, Exempt, IsCover
<1> QED BY <1>1, CoversInductive, MissInvHolds, CallInvHolds, TypeCorrect, PTL DEF Spec

LEMMA SellsInductive ==
  ASSUME TypeOK, CallInv, MissInv, SellsAreBacked, [Next]_vars
  PROVE  SellsAreBacked'
<1>1. SUFFICES ASSUME NEW c \in Calls, Backed(c)'
               PROVE  Owed(c)' <= actual' + against[c]'
  BY DEF SellsAreBacked
<1>0. request[c].quantity \in Int /\ request[c].quantity > 0
  BY RequestAssumption DEF TypeOK
<1>2. CASE PassSell(c)
  <2>1. /\ pc[c] = "answered" /\ request[c].side = "SELL" /\ held[c] # NoRead
        /\ request[c].quantity <= HeldLong(held[c]) /\ Pass(c, TRUE)
    BY <1>1, <1>2 DEF PassSell, Pass, Backed, TypeOK
  <2>2. /\ pc[c]' = "checked" /\ request' = request /\ actual' = actual
        /\ against[c]' = against[c]
    BY <2>1 DEF Pass, KeepRead, TypeOK, positionVars
  <2>3. held[c] <= actual + against[c] /\ held[c] \in Int
    BY <2>1 DEF MissInv, ReadInv, TypeOK
  <2> QED BY <1>0, <2>1, <2>2, <2>3 DEF HeldLong, Owed, TypeOK
<1>3. CASE ~PassSell(c)
  <2> DEFINE Same == /\ Backed(c) /\ Owed(c)' = Owed(c) /\ actual' = actual
                     /\ against[c]' = against[c]
  <2>2. ASSUME NEW d \in Calls, Arrive(d) \/ Answer(d) PROVE Same
    <3>1. c # d
      BY <1>1, <2>2 DEF Arrive, Answer, Backed, Pending, Live, CallInv, TypeOK, orderVars
    <3> QED BY <1>1, <2>2, <3>1
            DEF Arrive, Answer, Owed, Backed, Pending, Live, TypeOK, orderVars, positionVars
  <2>3. ASSUME NEW d \in Calls, PassExempt(d) \/ PassCapped(d) \/ PassSell(d) PROVE Same
    <3>1. c # d
      BY <1>1, <1>3, <2>3 DEF PassExempt, PassCapped, Pass, Backed, TypeOK
    <3> QED BY <1>1, <2>3, <3>1
            DEF PassExempt, PassCapped, PassSell, Pass, KeepRead, Owed, Backed, Pending,
            Live, TypeOK, orderVars, positionVars
  <2>4. ASSUME NEW d \in Calls, End(d) \/ Post(d) \/ Land(d) PROVE Same
    BY <1>1, <2>4
       DEF End, Post, Land, KeepRead, Owed, Backed, Pending, Live, CallInv, TypeOK,
       orderVars, positionVars
  <2>5. ASSUME Refresh \/ Tick \/ UNCHANGED vars PROVE Same
    BY <1>1, <2>5
       DEF Refresh, Tick, vars, Owed, Backed, Pending, Live, orderVars, positionVars
  <2>6. ASSUME Same PROVE Owed(c)' <= actual' + against[c]'
    <3>1. Owed(c) <= actual + against[c]
      BY <2>6 DEF SellsAreBacked
    <3> QED BY <2>6, <3>1
  <2>7. ASSUME NEW d \in Calls, Fill(d) PROVE Owed(c)' <= actual' + against[c]'
    <3>0. pc[d] # "checked" /\ request[d].side \in Sides /\ Backed(c)
      BY <1>1, <2>7, RequestAssumption
         DEF Fill, CallInv, Live, Backed, Pending, TypeOK
    <3>1. Owed(c) <= actual + against[c] /\ Owed(c) \in Int
      BY <1>0, <3>0 DEF SellsAreBacked, Owed, TypeOK
    <3>2. CASE d = c
      BY <2>7, <3>0, <3>1, <3>2 DEF Fill, Owed, Backed, TypeOK
    <3>3. CASE d # c /\ request[d].side = "SELL"
      <4>1. against[c]' = against[c] + 1 /\ actual' = actual - 1 /\ Owed(c)' = Owed(c)
        BY <2>7, <3>0, <3>3 DEF Fill, Reading, IsCover, Owed, Backed, TypeOK
      <4> QED BY <3>1, <4>1 DEF TypeOK
    <3>4. CASE d # c /\ request[d].side = "BUY"
      <4>1. against[c]' = against[c] /\ actual' = actual + 1 /\ Owed(c)' = Owed(c)
        BY <2>7, <3>0, <3>4 DEF Fill, Owed, Backed, TypeOK
      <4> QED BY <3>1, <4>1 DEF TypeOK
    <3> QED BY <3>0, <3>2, <3>3, <3>4
  <2> HIDE DEF Same
  <2> QED BY <2>2, <2>3, <2>4, <2>5, <2>6, <2>7 DEF Next, CallStep, VenueStep
<1> QED BY <1>2, <1>3

(* However late the portfolio is, a sell is backed but for what the other  *)
(* sells sold that its read missed.                                        *)
THEOREM BackedSells == Spec => []SellsAreBacked
<1>1. Init => SellsAreBacked
  BY DEF Init, SellsAreBacked, Backed
<1> QED BY <1>1, SellsInductive, MissInvHolds, CallInvHolds, TypeCorrect, PTL DEF Spec
=============================================================================
