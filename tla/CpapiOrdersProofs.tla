-------------------------- MODULE CpapiOrdersProofs -------------------------
(***************************************************************************)
(* CpapiOrders for any payload, any number of retries and rounds and any   *)
(* warnings.  Only LandsOnce needs the gateway to be safe.                 *)
(***************************************************************************)
EXTENDS CpapiOrders, TLAPS

USE RoundsAssumption DEF Attempts

(* A retry or a round beyond the last one does not happen.                 *)
LoopInv ==
  /\ pc = "replying" => rounds < MaxReplyRounds
  /\ pc = "lookup" => attempt < Retries

(* The gateway's decision keeps its own types.                             *)
LEMMA DecideType ==
  ASSUME TypeOK, NEW a \in Attempts, Decide(a)
  PROVE  /\ payload' \in [Attempts -> {"none", "flying", "lost", "asked", "placed", "refused", "declined"}]
         /\ placed' \in [Attempts -> SUBSET Legs]
         /\ ids' \in [Attempts -> SUBSET MessageIds]
         /\ warned' \in [Attempts -> SUBSET SUBSET MessageIds]
BY DEF TypeOK, Decide

(* One turn of the reply loop keeps the types.                             *)
LEMMA HearType ==
  ASSUME TypeOK, NEW n \in 0 .. MaxReplyRounds, Hear(n)
  PROVE  TypeOK' /\ LoopInv'
<1>1. TypeOK'
  BY DEF TypeOK, Hear, Refusal, Done, gatewayVars
<1>2. LoopInv'
  BY DEF Hear, Confirmable, Refusal, Done, LoopInv
<1> QED BY <1>1, <1>2

(* Every step keeps the types and the bounds of both loops.                *)
LEMMA TypeInductive ==
  ASSUME TypeOK, LoopInv, [Next]_vars
  PROVE  TypeOK' /\ LoopInv'
<1>1. CASE Post
  BY <1>1 DEF Post, TypeOK, LoopInv
<1>2. CASE PostAnswered
  BY <1>2, HearType DEF PostAnswered
<1>3. CASE ReplyAnswered
  <2>1. Hear(rounds + 1) /\ rounds + 1 \in 0 .. MaxReplyRounds
    BY <1>3 DEF ReplyAnswered, LoopInv, TypeOK
  <2> QED BY <2>1, HearType
<1>4. CASE PostFails \/ LookupFails \/ Interrupt
  BY <1>4 DEF PostFails, LookupFails, Interrupt, Done, TypeOK, LoopInv, gatewayVars
<1>5. CASE Lookup
  BY <1>5 DEF Lookup, Done, TypeOK, LoopInv, gatewayVars
<1>6. CASE ReplyFails \/ DeclineEnds
  BY <1>6 DEF ReplyFails, DeclineEnds, StillFlying, Done, TypeOK, LoopInv, gatewayVars
<1>7. CASE GatewayStep
  BY <1>7, DecideType DEF GatewayStep, TakeReply, Receive, Lose, TypeOK, LoopInv
<1>8. CASE Finished \/ UNCHANGED vars
  BY <1>8 DEF Finished, vars, gatewayVars, TypeOK, LoopInv
<1> QED BY <1>1, <1>2, <1>3, <1>4, <1>5, <1>6, <1>7, <1>8 DEF Next, CallStep

(* They hold at first.                                                     *)
LEMMA TypeInit == Init => TypeOK /\ LoopInv
<1> SUFFICES ASSUME Init PROVE TypeOK /\ LoopInv
  OBVIOUS
<1>1. 0 \in Attempts /\ 0 \in 0 .. MaxReplyRounds
  OBVIOUS
<1>2. warned \in [Attempts -> SUBSET SUBSET MessageIds]
  BY DEF Init
<1>3. placed \in [Attempts -> SUBSET Legs] /\ ids \in [Attempts -> SUBSET MessageIds]
  BY DEF Init
<1> QED BY <1>1, <1>2, <1>3 DEF Init, TypeOK, LoopInv

(* The broker's variables keep their types.                                *)
THEOREM TypeCorrect == Spec => []TypeOK
<1> QED BY TypeInit, TypeInductive, PTL DEF Spec

-----------------------------------------------------------------------------
(* Attempts follow one another.                                            *)

(* Later attempts have not begun; what landed is "placed"; a reply on its  *)
(* way answers the question the present attempt waits with.                *)
AttemptInv ==
  /\ \A a \in Attempts : placed[a] # {} => payload[a] = "placed"
  /\ \A a \in Attempts : a > attempt \/ (a = attempt /\ pc = "ready") => payload[a] = "none"
  /\ reply \in {"confirm", "decline"} => payload[attempt] = "asked"
  /\ pc \in {"ready", "posting", "lookup"} => reply = "none"
  /\ pc = "replying" => payload[attempt] # "flying"

(* Every step keeps the attempts in order.                                 *)
LEMMA AttemptInductive ==
  ASSUME TypeOK, AttemptInv, [Next]_vars
  PROVE  AttemptInv'
<1>1. CASE Post
  BY <1>1 DEF Post, TypeOK, AttemptInv
<1>2. ASSUME NEW n, payload[attempt] # "flying", Hear(n) PROVE AttemptInv'
  BY <1>2 DEF Hear, Refusal, Done, TypeOK, AttemptInv, gatewayVars
<1>3. CASE PostAnswered \/ ReplyAnswered
  BY <1>2, <1>3 DEF PostAnswered, ReplyAnswered, AttemptInv
<1>4. CASE PostFails \/ LookupFails \/ Interrupt
  BY <1>4 DEF PostFails, LookupFails, Interrupt, Done, TypeOK, AttemptInv, gatewayVars
<1>5. CASE Lookup
  BY <1>5 DEF Lookup, Done, TypeOK, AttemptInv, gatewayVars
<1>6. CASE ReplyFails \/ DeclineEnds
  BY <1>6 DEF ReplyFails, DeclineEnds, StillFlying, Done, TypeOK, AttemptInv, gatewayVars
<1>7. CASE TakeReply
  BY <1>7 DEF TakeReply, Decide, TypeOK, AttemptInv
<1>8. ASSUME NEW a \in Attempts, Receive(a) PROVE AttemptInv'
  BY <1>8 DEF Receive, Decide, TypeOK, AttemptInv
<1>9. ASSUME NEW a \in Attempts, Lose(a) PROVE AttemptInv'
  BY <1>9 DEF Lose, TypeOK, AttemptInv
<1>10. CASE Finished \/ UNCHANGED vars
  BY <1>10 DEF Finished, vars, gatewayVars, AttemptInv
<1> QED BY <1>1, <1>3, <1>4, <1>5, <1>6, <1>7, <1>8, <1>9, <1>10
        DEF Next, CallStep, GatewayStep

(* Only the present attempt can still land.                                *)
LEMMA OnlyPresentDecides ==
  ASSUME TypeOK, AttemptInv, NEW a \in Attempts, payload[a] = "flying"
  PROVE  a <= attempt
BY DEF AttemptInv, TypeOK

-----------------------------------------------------------------------------
(* No attempt lands after another.                                         *)

(* With a gateway that lists what landed and has nothing on its way after  *)
(* a failure, attempts are given up only when they came to nothing.        *)
GivenUpInv ==
  gateway.lists /\ gateway.prompt =>
    /\ \A a \in Attempts : a < attempt => placed[a] = {} /\ payload[a] # "flying"
    /\ pc = "lookup" => payload[attempt] # "flying"

(* Every step keeps that.                                                  *)
LEMMA GivenUpInductive ==
  ASSUME TypeOK, AttemptInv, GivenUpInv, [Next]_vars
  PROVE  GivenUpInv'
<1>1. CASE Post
  BY <1>1 DEF Post, TypeOK, GivenUpInv
<1>2. CASE PostAnswered \/ ReplyAnswered
  BY <1>2 DEF PostAnswered, ReplyAnswered, Hear, Refusal, Done, GivenUpInv, gatewayVars
<1>3. CASE PostFails \/ LookupFails \/ Interrupt \/ ReplyFails \/ DeclineEnds
  BY <1>3 DEF PostFails, LookupFails, Interrupt, ReplyFails, DeclineEnds, Done,
              GivenUpInv, gatewayVars
<1>4. CASE Lookup
  <2> SUFFICES ASSUME gateway.lists, gateway.prompt, attempt' = attempt + 1, Landed = {}
               PROVE  GivenUpInv'
    BY <1>4 DEF Lookup, Done, Listings, Absent, GivenUpInv, gatewayVars
  <2>1. \A a \in Attempts : placed[a] = {}
    BY DEF Landed
  <2>2. \A a \in Attempts : a < attempt' => payload[a] # "flying"
    BY <1>4 DEF Lookup, GivenUpInv, TypeOK
  <2> QED BY <1>4, <2>1, <2>2 DEF Lookup, Done, GivenUpInv, gatewayVars, TypeOK
<1>5. CASE TakeReply
  BY <1>5 DEF TakeReply, Decide, TypeOK, AttemptInv, GivenUpInv
<1>6. ASSUME NEW a \in Attempts, Receive(a) PROVE GivenUpInv'
  BY <1>6, OnlyPresentDecides DEF Receive, Decide, TypeOK, GivenUpInv
<1>7. ASSUME NEW a \in Attempts, Lose(a) PROVE GivenUpInv'
  BY <1>7 DEF Lose, TypeOK, GivenUpInv
<1>8. CASE Finished \/ UNCHANGED vars
  BY <1>8 DEF Finished, vars, gatewayVars, GivenUpInv
<1> QED BY <1>1, <1>2, <1>3, <1>4, <1>5, <1>6, <1>7, <1>8
        DEF Next, CallStep, GatewayStep

(* A payload that comes to a decision now meets no leg that landed before. *)
LEMMA DecideLandsOnce ==
  ASSUME Gateways \subseteq SafeGateways, TypeOK, AttemptInv, GivenUpInv, LandsOnce,
         NEW a \in Attempts, Decide(a),
         payload[a] = "flying" \/ (a = attempt /\ payload[a] = "asked")
  PROVE  LandsOnce'
<1>1. CASE placed' = placed
  BY <1>1 DEF LandsOnce
<1>2. ASSUME NEW legs \in SUBSET Legs, gateway.dedupes => legs \cap Landed = {},
             placed' = [placed EXCEPT ![a] = legs]
      PROVE  LandsOnce'
  <2>1. \A b \in Attempts : b # a => legs \cap placed[b] = {}
    <3>1. CASE gateway.dedupes
      BY <1>2, <3>1 DEF Landed
    <3>2. CASE ~gateway.dedupes
      <4>1. gateway.lists /\ gateway.prompt
        BY <3>2 DEF TypeOK, SafeGateways
      <4>2. a = attempt
        BY <4>1, OnlyPresentDecides DEF GivenUpInv, TypeOK
      <4> QED BY <4>1, <4>2 DEF GivenUpInv, AttemptInv, TypeOK
    <3> QED BY <3>1, <3>2
  <2> QED BY <1>2, <2>1 DEF LandsOnce, TypeOK
<1> QED BY <1>1, <1>2 DEF Decide

(* Whatever is answered, lost or late, no leg lands twice, if the gateway  *)
(* either knows a cOID again or is prompt and lists what landed.           *)
THEOREM NeverLandsTwice ==
  ASSUME Gateways \subseteq SafeGateways
  PROVE  Spec => []LandsOnce
<1>1. Init => TypeOK /\ LoopInv /\ AttemptInv /\ GivenUpInv /\ LandsOnce
  BY TypeInit DEF Init, AttemptInv, GivenUpInv, LandsOnce
<1>2. ASSUME TypeOK, AttemptInv, GivenUpInv, LandsOnce, [Next]_vars PROVE LandsOnce'
  <2>1. CASE TakeReply
    <3>1. CASE reply = "confirm" /\ Decide(attempt)
      BY <1>2, <3>1, DecideLandsOnce DEF AttemptInv, TypeOK
    <3>2. CASE placed' = placed
      BY <1>2, <3>2 DEF LandsOnce
    <3> QED BY <2>1, <3>1, <3>2 DEF TakeReply
  <2>2. ASSUME NEW a \in Attempts, Receive(a) PROVE LandsOnce'
    BY <1>2, <2>2, DecideLandsOnce DEF Receive
  <2>3. CASE placed' = placed
    BY <1>2, <2>3 DEF LandsOnce
  <2> QED
    BY <1>2, <2>1, <2>2, <2>3
       DEF Next, CallStep, GatewayStep, Post, PostAnswered, PostFails, Lookup, LookupFails,
           ReplyAnswered, ReplyFails, DeclineEnds, Interrupt, Hear, Lose, Finished, vars,
           gatewayVars
<1> QED BY <1>1, <1>2, TypeInductive, AttemptInductive, GivenUpInductive, PTL DEF Spec

-----------------------------------------------------------------------------
(* Questions.                                                              *)

IsApproved(question) == question # {} /\ question \subseteq Accepted

(* Of all the questions asked about a payload that was not declined only   *)
(* the one it waits with may be unapproved, and only an approved one is    *)
(* being confirmed.                                                        *)
ApprovedInv ==
  /\ \A a \in Attempts : \A question \in warned[a] :
       \/ IsApproved(question)
       \/ payload[a] = "asked" /\ question = ids[a]
       \/ payload[a] = "declined"
  /\ \A a \in Attempts : payload[a] \in {"none", "flying"} => warned[a] = {}
  /\ reply = "confirm" => IsApproved(ids[attempt])

(* A payload that comes to a decision now has only approved questions      *)
(* behind it.                                                              *)
LEMMA DecideApproved ==
  ASSUME TypeOK, ApprovedInv, NEW a \in Attempts, Decide(a), reply' # "confirm",
         \/ payload[a] = "flying"
         \/ payload[a] = "asked" /\ IsApproved(ids[a])
  PROVE  ApprovedInv'
<1>1. \A question \in warned[a] : IsApproved(question)
  BY DEF ApprovedInv
<1>2. \A b \in Attempts : b # a =>
        payload'[b] = payload[b] /\ ids'[b] = ids[b] /\ warned'[b] = warned[b]
  BY DEF Decide, TypeOK
<1>3. \/ /\ payload'[a] = "asked"
         /\ warned'[a] = warned[a] \cup {ids'[a]}
      \/ payload'[a] \in {"placed", "refused"} /\ warned'[a] = warned[a]
  BY DEF Decide, TypeOK
<1> QED BY <1>1, <1>2, <1>3 DEF ApprovedInv, IsApproved

(* Every step keeps ApprovedInv.                                           *)
LEMMA ApprovedInductive ==
  ASSUME TypeOK, AttemptInv, ApprovedInv, [Next]_vars
  PROVE  ApprovedInv'
<1>1. CASE Post
  BY <1>1 DEF Post, TypeOK, AttemptInv, ApprovedInv, IsApproved
<1>2. CASE PostAnswered \/ ReplyAnswered
  BY <1>2 DEF PostAnswered, ReplyAnswered, Hear, Confirmable, Refusal, Done,
              ApprovedInv, IsApproved, gatewayVars
<1>3. CASE PostFails \/ LookupFails \/ Interrupt
  BY <1>3 DEF PostFails, LookupFails, Interrupt, Done, ApprovedInv, IsApproved, gatewayVars
<1>4. CASE ReplyFails \/ DeclineEnds
  BY <1>4 DEF ReplyFails, DeclineEnds, StillFlying, Done, ApprovedInv, IsApproved, gatewayVars
<1>5. CASE Lookup
  BY <1>5 DEF Lookup, Done, AttemptInv, ApprovedInv, IsApproved, gatewayVars
<1>6. CASE TakeReply
  <2>1. CASE reply = "confirm" /\ Decide(attempt)
    BY <1>6, <2>1, DecideApproved DEF TakeReply, TypeOK, AttemptInv, ApprovedInv
  <2>2. CASE reply = "decline" /\ UNCHANGED <<placed, ids, warned>>
             /\ payload' = [payload EXCEPT ![attempt] = "declined"]
    BY <1>6, <2>2 DEF TakeReply, TypeOK, ApprovedInv, IsApproved
  <2> QED BY <1>6, <2>1, <2>2 DEF TakeReply
<1>7. ASSUME NEW a \in Attempts, Receive(a) PROVE ApprovedInv'
  <2>1. CASE reply = "confirm"
    <3>1. a # attempt
      BY <1>7, <2>1 DEF Receive, AttemptInv
    <3>2. ids'[attempt] = ids[attempt] /\ UNCHANGED <<reply, attempt>>
      BY <1>7, <3>1 DEF Receive, Decide, TypeOK
    <3>3. \A question \in warned[a] : IsApproved(question)
      BY <1>7 DEF Receive, ApprovedInv
    <3>4. \A b \in Attempts : b # a =>
            payload'[b] = payload[b] /\ ids'[b] = ids[b] /\ warned'[b] = warned[b]
      BY <1>7 DEF Receive, Decide, TypeOK
    <3>5. \/ /\ payload'[a] = "asked"
             /\ warned'[a] = warned[a] \cup {ids'[a]}
          \/ payload'[a] \in {"placed", "refused"} /\ warned'[a] = warned[a]
      BY <1>7 DEF Receive, Decide, TypeOK
    <3> QED BY <2>1, <3>2, <3>3, <3>4, <3>5 DEF ApprovedInv, IsApproved
  <2>2. CASE reply # "confirm"
    BY <1>7, <2>2, DecideApproved DEF Receive
  <2> QED BY <2>1, <2>2
<1>8. ASSUME NEW a \in Attempts, Lose(a) PROVE ApprovedInv'
  BY <1>8 DEF Lose, TypeOK, ApprovedInv, IsApproved
<1>9. CASE Finished \/ UNCHANGED vars
  BY <1>9 DEF Finished, vars, gatewayVars, ApprovedInv, IsApproved
<1> QED BY <1>1, <1>2, <1>3, <1>4, <1>5, <1>6, <1>7, <1>8, <1>9
        DEF Next, CallStep, GatewayStep

(* Nothing lands with an unknown warning confirmed, on any gateway.        *)
THEOREM OnlyApprovedLands == Spec => []NothingLandsUnapproved
<1>1. Init => AttemptInv /\ ApprovedInv
  BY DEF Init, AttemptInv, ApprovedInv
<1>2. AttemptInv /\ ApprovedInv => NothingLandsUnapproved
  BY DEF AttemptInv, ApprovedInv, IsApproved, NothingLandsUnapproved
<1> QED BY <1>1, <1>2, TypeInit, TypeInductive, AttemptInductive, ApprovedInductive, PTL
        DEF Spec

-----------------------------------------------------------------------------
(* How a call ends.                                                        *)

(* A call that declines declines what it waits for; one that was answered  *)
(* throughout is at its first attempt and leaves nothing behind.           *)
EndInv ==
  /\ pc = "declining" \/ (gateway.prompt /\ end = "blocked") =>
       payload[attempt] \in {"asked", "declined"} /\ reply # "confirm"
  /\ pc # "done" => end = "none"
  /\ ~failed =>
       /\ attempt = 0 /\ pc # "lookup"
       /\ reply = "taken" /\ pc = "declining" => payload[attempt] = "declined"
       /\ pc = "done" => payload[attempt] \notin {"asked", "flying"} /\ reply \in {"none", "taken"}

(* Every step keeps EndInv.                                                *)
LEMMA EndInductive ==
  ASSUME TypeOK, AttemptInv, EndInv, [Next]_vars
  PROVE  EndInv'
<1>1. CASE Post
  BY <1>1 DEF Post, TypeOK, EndInv
<1>2. CASE PostAnswered \/ ReplyAnswered
  BY <1>2 DEF PostAnswered, ReplyAnswered, Hear, Refusal, Done, TypeOK, AttemptInv, EndInv,
              gatewayVars
<1>3. CASE PostFails \/ LookupFails \/ Interrupt
  BY <1>3 DEF PostFails, LookupFails, Interrupt, Done, TypeOK, EndInv, gatewayVars
<1>4. CASE ReplyFails \/ DeclineEnds
  BY <1>4 DEF ReplyFails, DeclineEnds, StillFlying, Done, TypeOK, AttemptInv, EndInv,
              gatewayVars
<1>5. CASE Lookup
  BY <1>5 DEF Lookup, Done, TypeOK, EndInv, gatewayVars
<1>6. CASE TakeReply
  BY <1>6 DEF TakeReply, Decide, TypeOK, AttemptInv, EndInv
<1>7. ASSUME NEW a \in Attempts, Receive(a) PROVE EndInv'
  BY <1>7 DEF Receive, Decide, TypeOK, AttemptInv, EndInv
<1>8. ASSUME NEW a \in Attempts, Lose(a) PROVE EndInv'
  BY <1>8 DEF Lose, TypeOK, EndInv
<1>9. CASE Finished \/ UNCHANGED vars
  BY <1>9 DEF Finished, vars, gatewayVars, EndInv
<1> QED BY <1>1, <1>2, <1>3, <1>4, <1>5, <1>6, <1>7, <1>8, <1>9
        DEF Next, CallStep, GatewayStep

(* A call whose requests were all answered leaves no question open,        *)
(* however many were asked.                                                *)
THEOREM NothingHalfConfirmed == Spec => []NoQuestionLeftOpen
<1>1. Init => AttemptInv /\ EndInv
  BY DEF Init, AttemptInv, EndInv
<1>2. TypeOK /\ AttemptInv /\ EndInv => NoQuestionLeftOpen
  BY DEF TypeOK, AttemptInv, EndInv, NoQuestionLeftOpen
<1> QED BY <1>1, <1>2, TypeInit, TypeInductive, AttemptInductive, EndInductive, PTL DEF Spec

(* With a gateway that is prompt and lists what landed, a call that says   *)
(* it was blocked has left nothing alive and nothing on its way.           *)
THEOREM BlockedOrdersAreNot == Spec => []BlockedIsBlocked
<1>1. Init => AttemptInv /\ GivenUpInv /\ EndInv
  BY DEF Init, TypeOK, AttemptInv, GivenUpInv, EndInv
<1>2. ASSUME TypeOK, AttemptInv, GivenUpInv, EndInv,
             gateway.prompt, gateway.lists, end = "blocked"
      PROVE  Landed = {} /\ reply # "confirm" /\ \A a \in Attempts : payload[a] # "flying"
  <2>1. payload[attempt] \in {"asked", "declined"} /\ reply # "confirm"
    BY <1>2 DEF EndInv
  <2>2. ASSUME NEW a \in Attempts PROVE placed[a] = {} /\ payload[a] # "flying"
    <3>1. CASE a < attempt
      BY <1>2, <3>1 DEF GivenUpInv
    <3>2. CASE a = attempt
      BY <1>2, <2>1, <3>2 DEF AttemptInv
    <3>3. CASE a > attempt
      BY <1>2, <3>3 DEF AttemptInv
    <3> QED BY <1>2, <3>1, <3>2, <3>3 DEF TypeOK
  <2> QED BY <2>1, <2>2 DEF Landed
<1>3. TypeOK /\ AttemptInv /\ GivenUpInv /\ EndInv => BlockedIsBlocked
  BY <1>2 DEF BlockedIsBlocked
<1> QED BY <1>1, <1>3, TypeInit, TypeInductive, AttemptInductive, GivenUpInductive,
           EndInductive, PTL DEF Spec
-----------------------------------------------------------------------------
(* One submission.                                                         *)

(* Nothing can land behind an outcome that is one.                         *)
FinalInv ==
  gateway.prompt /\ gateway.lists /\ end \in {"returned", "blocked"} =>
    reply # "confirm" /\ \A a \in Attempts : payload[a] # "flying"

(* Under a gateway that is prompt and lists what landed, a call whose      *)
(* present attempt is decided has nothing on its way.                      *)
LEMMA NothingFlies ==
  ASSUME TypeOK, AttemptInv, GivenUpInv, gateway.prompt, gateway.lists,
         payload[attempt] # "flying"
  PROVE  \A a \in Attempts : payload[a] # "flying"
<1> SUFFICES ASSUME NEW a \in Attempts PROVE payload[a] # "flying"
  OBVIOUS
<1>1. CASE a < attempt
  BY <1>1 DEF GivenUpInv
<1>2. CASE a = attempt
  BY <1>2
<1>3. CASE a > attempt
  BY <1>3 DEF AttemptInv
<1> QED BY <1>1, <1>2, <1>3 DEF TypeOK

(* Every step keeps FinalInv.                                              *)
LEMMA FinalInductive ==
  ASSUME TypeOK, AttemptInv, GivenUpInv, EndInv, FinalInv, [Next]_vars
  PROVE  FinalInv'
<1>1. CASE Post
  BY <1>1 DEF Post, EndInv, FinalInv
<1>2. ASSUME NEW n, payload[attempt] # "flying", pc # "done", Hear(n) PROVE FinalInv'
  BY <1>2, NothingFlies DEF Hear, Refusal, Done, EndInv, FinalInv, gatewayVars
<1>3. CASE PostAnswered \/ ReplyAnswered
  BY <1>2, <1>3 DEF PostAnswered, ReplyAnswered, AttemptInv
<1>4. CASE PostFails \/ LookupFails \/ Interrupt \/ ReplyFails
  BY <1>4 DEF PostFails, LookupFails, Interrupt, ReplyFails, Done, EndInv, FinalInv, gatewayVars
<1>5. CASE DeclineEnds
  <2>1. payload[attempt] # "flying" /\ reply # "confirm"
    BY <1>5 DEF DeclineEnds, EndInv
  <2> QED
    BY <1>5, <2>1, NothingFlies DEF DeclineEnds, StillFlying, Done, FinalInv, gatewayVars
<1>6. CASE Lookup
  <2>1. gateway.lists /\ gateway.prompt => payload[attempt] # "flying" /\ reply # "confirm"
    BY <1>6 DEF Lookup, GivenUpInv, AttemptInv
  <2> QED
    BY <1>6, <2>1, NothingFlies DEF Lookup, Done, EndInv, FinalInv, gatewayVars
<1>7. CASE TakeReply
  BY <1>7 DEF TakeReply, Decide, TypeOK, FinalInv
<1>8. ASSUME NEW a \in Attempts, Receive(a) PROVE FinalInv'
  BY <1>8 DEF Receive, FinalInv
<1>9. ASSUME NEW a \in Attempts, Lose(a) PROVE FinalInv'
  BY <1>9 DEF Lose, FinalInv
<1>10. CASE Finished \/ UNCHANGED vars
  BY <1>10 DEF Finished, vars, gatewayVars, FinalInv
<1> QED BY <1>1, <1>3, <1>4, <1>5, <1>6, <1>7, <1>8, <1>9, <1>10
        DEF Next, CallStep, GatewayStep

(* The landings of a leg, as the submission counts them.                   *)
LandingsOf(c) == {a \in Attempts : c \in placed[a]}

(* A step of the call is the caller's being told, or nothing.              *)
LEMMA CallTells ==
  ASSUME EndInv, BlockedIsBlocked', CallStep
  PROVE  [Submission!Next]_Submission!submissionVars
<1>1. placed' = placed
  BY DEF CallStep, Post, PostAnswered, PostFails, Lookup, LookupFails, ReplyAnswered,
         ReplyFails, DeclineEnds, Interrupt, Hear, gatewayVars
<1>2. pc # "done"
  BY DEF CallStep, Post, PostAnswered, PostFails, Lookup, LookupFails, ReplyAnswered,
         ReplyFails, DeclineEnds, Interrupt
<1>3. Told = "nothing"
  BY <1>2 DEF Told, EndInv
<1>4. Told' \in Submission!Tidings
  BY DEF Told, Submission!Tidings
<1>5. ASSUME Told' = "blocked", NEW c \in Legs PROVE LandingsOf(c) = {}
  <2>1. Landed' = {}
    BY <1>5 DEF Told, BlockedIsBlocked
  <2>2. \A a \in Attempts : placed[a] = {}
    BY <1>1, <2>1 DEF Landed
  <2> QED BY <2>2 DEF LandingsOf
<1>6. Submission!Tell(Told')
  BY <1>1, <1>3, <1>5 DEF Submission!Tell, LandingsOf
<1> QED BY <1>4, <1>6 DEF Submission!Next

(* What the gateway decides is a landing, or nothing.                      *)
LEMMA DecideLands ==
  ASSUME TypeOK, AttemptInv, FinalInv, LandsOnce', UNCHANGED Told,
         NEW a \in Attempts, Decide(a),
         payload[a] = "flying" \/ (a = attempt /\ reply = "confirm")
  PROVE  [Submission!Next]_Submission!submissionVars
<1>1. CASE placed' = placed
  BY <1>1 DEF Submission!submissionVars
<1>2. ASSUME NEW legs \in SUBSET Legs, placed' = [placed EXCEPT ![a] = legs]
      PROVE  Submission!Land(legs, a)
  <2>1. placed[a] = {} /\ placed'[a] = legs
    BY <1>2 DEF AttemptInv, TypeOK
  <2>2. \A b \in Attempts : b # a => placed'[b] = placed[b] /\ placed[b] \cap legs = {}
    BY <1>2, <2>1 DEF LandsOnce, TypeOK
  <2>3. \A c \in legs : LandingsOf(c) = {}
    BY <2>1, <2>2 DEF LandingsOf
  <2>4. \A c \in Legs : LandingsOf(c)' = IF c \in legs THEN {a} ELSE LandingsOf(c)
    <3> SUFFICES ASSUME NEW c \in Legs
                 PROVE  LandingsOf(c)' = IF c \in legs THEN {a} ELSE LandingsOf(c)
      OBVIOUS
    <3>1. CASE c \in legs
      BY <2>1, <2>2, <3>1 DEF LandingsOf
    <3>2. CASE c \notin legs
      BY <2>1, <2>2, <3>2 DEF LandingsOf
    <3> QED BY <3>1, <3>2
  <2>5. Told \in {"nothing", "failure"}
    BY DEF Told, FinalInv
  <2> QED BY <2>3, <2>4, <2>5 DEF Submission!Land, LandingsOf
<1> QED BY <1>1, <1>2 DEF Decide, Submission!Next

(* Every step of the broker and its gateway is a step of the submission,   *)
(* or none: each leg lands once, and nothing lands behind an outcome.      *)
THEOREM ImplementsSubmission ==
  ASSUME Gateways \subseteq SafeGateways
  PROVE  Spec => SubmitsOnce
<1>1. Init => AttemptInv /\ GivenUpInv /\ EndInv /\ FinalInv /\ Submission!Init
  <2> SUFFICES ASSUME Init
               PROVE  AttemptInv /\ GivenUpInv /\ EndInv /\ FinalInv /\ Submission!Init
    OBVIOUS
  <2>1. AttemptInv /\ GivenUpInv /\ EndInv /\ FinalInv
    BY DEF Init, AttemptInv, GivenUpInv, EndInv, FinalInv
  <2>2. Submission!Init
    BY DEF Init, Submission!Init, Told
  <2> QED BY <2>1, <2>2
<1>2. ASSUME TypeOK, AttemptInv, EndInv, FinalInv, LandsOnce', BlockedIsBlocked', [Next]_vars
      PROVE  [Submission!Next]_Submission!submissionVars
  <2>1. CASE CallStep
    BY <1>2, <2>1, CallTells
  <2>2. CASE GatewayStep
    <3>1. UNCHANGED Told
      BY <2>2 DEF GatewayStep, TakeReply, Receive, Lose, Told
    <3>2. CASE TakeReply
      <4>1. CASE reply = "confirm" /\ Decide(attempt)
        BY <1>2, <3>1, <4>1, DecideLands DEF TypeOK
      <4>2. CASE placed' = placed
        BY <3>1, <4>2 DEF Submission!submissionVars
      <4> QED BY <3>2, <4>1, <4>2 DEF TakeReply
    <3>3. ASSUME NEW a \in Attempts, Receive(a)
          PROVE  [Submission!Next]_Submission!submissionVars
      BY <1>2, <3>1, <3>3, DecideLands DEF Receive
    <3>4. ASSUME NEW a \in Attempts, Lose(a)
          PROVE  [Submission!Next]_Submission!submissionVars
      BY <3>1, <3>4 DEF Lose, Submission!submissionVars
    <3> QED BY <2>2, <3>2, <3>3, <3>4 DEF GatewayStep
  <2>3. CASE Finished \/ UNCHANGED vars
    BY <2>3 DEF Finished, vars, gatewayVars, Told, Submission!submissionVars
  <2> QED BY <1>2, <2>1, <2>2, <2>3 DEF Next
<1>3. Spec => []LandsOnce /\ []BlockedIsBlocked
  BY NeverLandsTwice, BlockedOrdersAreNot
<1> QED
  BY <1>1, <1>2, <1>3, TypeInit, TypeInductive, AttemptInductive, GivenUpInductive,
     EndInductive, FinalInductive, PTL DEF Spec, SubmitsOnce, Submission!Spec
=============================================================================
