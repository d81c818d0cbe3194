----------------------------- MODULE CpapiOrders ----------------------------
(***************************************************************************)
(* CpapiBroker.place_order and place_bracket against the Client Portal     *)
(* Gateway (ibkr_agent/adapters/cpapi/broker.py): one payload of orders is *)
(* posted; after a 503 it is looked up by cOID and posted again if absent; *)
(* the gateway's confirmation questions are answered in rounds.            *)
(*                                                                         *)
(* GuardedBroker takes all of this for one post.  What it relies on is     *)
(* that the post, however often it is repeated, lands once.                *)
(***************************************************************************)
EXTENDS Integers

CONSTANTS
  Legs,            \* the cOIDs of the payload: one order, or three of a bracket
  Retries,         \* _ORDER_POST_RETRIES
  MaxReplyRounds,  \* _MAX_REPLY_ROUNDS
  MessageIds,      \* the ids of the gateway's warnings
  Accepted,        \* accepted_message_ids
  Gateways         \* the gateways the broker may meet

ASSUME RoundsAssumption == Retries \in Nat /\ MaxReplyRounds \in Nat \ {0}
ASSUME AcceptedAssumption == Accepted \subseteq MessageIds

(* What a gateway may promise: a landed order is in the next listing; a    *)
(* cOID it knows is not taken again; a request has had its effect, if any, *)
(* when it is answered or has timed out.                                   *)
Promises == [lists : BOOLEAN, dedupes : BOOLEAN, prompt : BOOLEAN]
ASSUME GatewayAssumption == Gateways \subseteq Promises

(* The gateways a resend is safe with.  The comment in _post_orders relies *)
(* on listing and on recognising cOIDs; the second suffices alone, the     *)
(* first only if nothing lands after its time-out.                         *)
SafeGateways == {g \in Promises : g.dedupes \/ (g.lists /\ g.prompt)}

VARIABLES
  gateway,    \* the gateway met
  payload,    \* the gateway's state of the payload of each attempt
  placed,     \* the legs that came to live out of it
  ids,        \* the messageIds of the question it waits for
  warned,     \* all the questions asked about it
  pc,         \* where the call stands
  attempt,    \* the attempt it is at
  rounds,     \* the questions it has confirmed
  reply,      \* its reply to a question, until the gateway takes it
  end,        \* how it ended
  failed      \* a request of it was left without an answer

gatewayVars == <<gateway, payload, placed, ids, warned>>
vars == <<gatewayVars, pc, attempt, rounds, reply, end, failed>>

Attempts == 0 .. Retries
Landed == UNION {placed[a] : a \in Attempts}

Init ==
  /\ gateway \in Gateways
  /\ payload = [a \in Attempts |-> "none"]
  /\ placed = [a \in Attempts |-> {}]
  /\ ids = [a \in Attempts |-> {}] /\ warned = [a \in Attempts |-> {}]
  /\ pc = "ready" /\ attempt = 0 /\ rounds = 0
  /\ reply = "none" /\ end = "none" /\ failed = FALSE

-----------------------------------------------------------------------------
(* The call.                                                               *)

Post ==
  /\ pc = "ready"
  /\ pc' = "posting"
  /\ payload' = [payload EXCEPT ![attempt] = "flying"]
  /\ UNCHANGED <<gateway, placed, ids, warned, attempt, rounds, reply, end, failed>>

Done(how) == pc' = "done" /\ end' = how

(* Mutants of Confirmable: one accepted warning is enough, or the last     *)
(* round does not count.                                                   *)
AnyAcceptedMutant(n) == n < MaxReplyRounds /\ ids[attempt] \cap Accepted # {}
UnboundedMutant(n) == ids[attempt] # {} /\ ids[attempt] \subseteq Accepted

(* The question after n confirmed ones may be confirmed.                   *)
Confirmable(n) ==
  /\ n < MaxReplyRounds
  /\ ids[attempt] # {} /\ ids[attempt] \subseteq Accepted

(* Mutant of Refusal: only unaccepted warnings are declined, not the       *)
(* question left after the last round.                                     *)
NoLeftoverMutant(n) ==
  IF n < MaxReplyRounds
    THEN pc' = "declining" /\ reply' = "decline" /\ UNCHANGED end
    ELSE Done("aborted") /\ UNCHANGED reply

Refusal(n) == pc' = "declining" /\ reply' = "decline" /\ UNCHANGED end

(* The loop of _resolve_replies after n confirmations, and what follows it *)
(* when all of its rounds are used.                                        *)
Hear(n) ==
  /\ rounds' = n
  /\ \/ /\ payload[attempt] = "asked" /\ Confirmable(n)
        /\ pc' = "replying" /\ reply' = "confirm" /\ UNCHANGED end
     \/ payload[attempt] = "asked" /\ ~Confirmable(n) /\ Refusal(n)
     \/ /\ payload[attempt] # "asked"
        /\ Done(IF n < MaxReplyRounds THEN "returned" ELSE "aborted")
        /\ reply' = "none"
  /\ UNCHANGED <<gatewayVars, attempt, failed>>

PostAnswered ==
  /\ pc = "posting" /\ payload[attempt] \in {"asked", "placed", "refused"}
  /\ Hear(0)

(* Mutant of PostFails: a 503 is posted again without a lookup.            *)
BlindRetryMutant ==
  /\ pc = "posting" /\ (gateway.prompt => payload[attempt] # "flying")
  /\ \/ attempt < Retries /\ pc' = "ready" /\ attempt' = attempt + 1 /\ UNCHANGED end
     \/ Done("raised") /\ UNCHANGED attempt
  /\ failed' = TRUE
  /\ UNCHANGED <<gatewayVars, rounds, reply>>

(* A request that has not had its effect when it fails may still have it,  *)
(* unless the gateway is prompt.                                           *)
PostFails ==
  /\ pc = "posting" /\ (gateway.prompt => payload[attempt] # "flying")
  /\ \/ attempt < Retries /\ pc' = "lookup" /\ UNCHANGED end
     \/ Done("raised")
  /\ failed' = TRUE
  /\ UNCHANGED <<gatewayVars, attempt, rounds, reply>>

(* The legs a listing may show.                                            *)
Listings == IF gateway.lists THEN {Landed} ELSE SUBSET Landed

(* Mutant of Absent: a bracket is there only if all of it is.              *)
SomeAbsentMutant(found) == found # Legs
Absent(found) == found = {}

Lookup ==
  /\ pc = "lookup"
  /\ \E found \in Listings :
       IF Absent(found)
         THEN pc' = "ready" /\ attempt' = attempt + 1 /\ UNCHANGED end
         ELSE Done("returned") /\ UNCHANGED attempt
  /\ UNCHANGED <<gatewayVars, rounds, reply, failed>>

(* Mutant of LookupFails: a lookup that failed counts as absent.           *)
ResendMutant ==
  /\ pc = "lookup"
  /\ pc' = "ready" /\ attempt' = attempt + 1
  /\ UNCHANGED <<gatewayVars, rounds, reply, end, failed>>

LookupFails ==
  /\ pc = "lookup"
  /\ Done("unknown")
  /\ UNCHANGED <<gatewayVars, attempt, rounds, reply, failed>>

(* Mutant of ReplyAnswered: a confirmation is not counted.                 *)
UncountedMutant == pc = "replying" /\ reply = "taken" /\ Hear(rounds)
ReplyAnswered == pc = "replying" /\ reply = "taken" /\ Hear(rounds + 1)

(* What a failed reply leaves on its way.                                  *)
StillFlying == IF gateway.prompt THEN {"none"} ELSE {"none", reply}

ReplyFails ==
  /\ pc = "replying"
  /\ Done("raised") /\ reply' \in StillFlying
  /\ failed' = TRUE
  /\ UNCHANGED <<gatewayVars, attempt, rounds>>

(* _decline: whether it fails or not, the call raises.                     *)
DeclineEnds ==
  /\ pc = "declining"
  /\ Done(IF rounds < MaxReplyRounds THEN "blocked" ELSE "aborted")
  /\ reply' \in StillFlying
  /\ failed' = (failed \/ reply # "taken")
  /\ UNCHANGED <<gatewayVars, attempt, rounds>>

(* The task is cancelled in an await, the first of which resolves the      *)
(* conid (which may also fail).                                            *)
Interrupt ==
  /\ pc # "done" /\ (pc = "ready" => attempt = 0)
  /\ Done("raised")
  /\ failed' = TRUE
  /\ UNCHANGED <<gatewayVars, attempt, rounds, reply>>

CallStep ==
  \/ Post \/ PostAnswered \/ PostFails \/ Lookup \/ LookupFails
  \/ ReplyAnswered \/ ReplyFails \/ DeclineEnds \/ Interrupt

-----------------------------------------------------------------------------
(* The gateway.                                                            *)

(* The payload of attempt a raises a question, lands or is refused.  Of a  *)
(* bracket only some legs may land.                                        *)
Decide(a) ==
  \/ \E question \in SUBSET MessageIds :
       /\ payload' = [payload EXCEPT ![a] = "asked"]
       /\ ids' = [ids EXCEPT ![a] = question]
       /\ warned' = [warned EXCEPT ![a] = @ \cup {question}]
       /\ UNCHANGED placed
  \/ \E legs \in SUBSET Legs \ {{}} :
       /\ gateway.dedupes => legs \cap Landed = {}
       /\ payload' = [payload EXCEPT ![a] = "placed"]
       /\ placed' = [placed EXCEPT ![a] = legs]
       /\ UNCHANGED <<ids, warned>>
  \/ /\ payload' = [payload EXCEPT ![a] = "refused"]
     /\ UNCHANGED <<placed, ids, warned>>

Receive(a) ==
  /\ payload[a] = "flying" /\ Decide(a)
  /\ UNCHANGED <<gateway, pc, attempt, rounds, reply, end, failed>>

Lose(a) ==
  /\ payload[a] = "flying"
  /\ payload' = [payload EXCEPT ![a] = "lost"]
  /\ UNCHANGED <<gateway, placed, ids, warned, pc, attempt, rounds, reply, end, failed>>

TakeReply ==
  /\ \/ reply = "confirm" /\ Decide(attempt)
     \/ /\ reply = "decline"
        /\ payload' = [payload EXCEPT ![attempt] = "declined"]
        /\ UNCHANGED <<placed, ids, warned>>
  /\ reply' = "taken"
  /\ UNCHANGED <<gateway, pc, attempt, rounds, end, failed>>

GatewayStep == TakeReply \/ \E a \in Attempts : Receive(a) \/ Lose(a)

(* A call that is done may leave the gateway nothing to do.                *)
Finished == pc = "done" /\ UNCHANGED vars

Next == CallStep \/ GatewayStep \/ Finished

(* The client gives every request a time-out.                              *)
Spec == Init /\ [][Next]_vars /\ WF_vars(CallStep) /\ WF_vars(GatewayStep)

-----------------------------------------------------------------------------
(* Properties.                                                             *)

(* The types of the variables.                                             *)
TypeOK ==
  /\ gateway \in Gateways
  /\ payload \in [Attempts -> {"none", "flying", "lost", "asked", "placed", "refused", "declined"}]
  /\ placed \in [Attempts -> SUBSET Legs]
  /\ ids \in [Attempts -> SUBSET MessageIds]
  /\ warned \in [Attempts -> SUBSET SUBSET MessageIds]
  /\ pc \in {"ready", "posting", "lookup", "replying", "declining", "done"}
  /\ attempt \in Attempts /\ rounds \in 0 .. MaxReplyRounds
  /\ reply \in {"none", "confirm", "decline", "taken"}
  /\ end \in {"none", "returned", "blocked", "aborted", "unknown", "raised"}
  /\ failed \in BOOLEAN

(* "surviving a transient 503 without double-submitting": no leg lands out *)
(* of two attempts.                                                        *)
LandsOnce == \A a, b \in Attempts : a # b => placed[a] \cap placed[b] = {}

(* Nothing lands unless every question about it was answered knowingly:    *)
(* all of its warnings have ids, and all of them are on the allow-list.    *)
NothingLandsUnapproved ==
  \A a \in Attempts : placed[a] # {} =>
    \A question \in warned[a] : question # {} /\ question \subseteq Accepted

(* "so we don't leave an order half-confirmed": a call whose requests were *)
(* all answered leaves no question open.                                   *)
NoQuestionLeftOpen ==
  pc = "done" /\ ~failed => \A a \in Attempts : payload[a] # "asked"

(* A call that says its order was blocked by a warning is right: nothing   *)
(* has landed, and nothing that could land is on its way.                  *)
BlockedIsBlocked ==
  gateway.prompt /\ gateway.lists /\ end = "blocked" =>
    /\ Landed = {} /\ reply # "confirm"
    /\ \A a \in Attempts : payload[a] # "flying"

(* The same of one that says "order aborted" after too many rounds, which  *)
(* the code does not keep: the last confirmation may have been the last    *)
(* one needed.                                                             *)
AbortedIsAborted == end = "aborted" /\ ~failed => Landed = {}

(* What the caller is told.  An outcome is only one if no earlier attempt  *)
(* can land behind it, which takes a gateway that is prompt and lists what *)
(* landed; from any other gateway it is as good as a failure.              *)
Told ==
  CASE pc # "done" -> "nothing"
    [] end = "returned" /\ gateway.prompt /\ gateway.lists -> "outcome"
    [] end = "blocked" /\ gateway.prompt /\ gateway.lists -> "blocked"
    [] OTHER -> "failure"

(* The broker implements the submission that GuardedBroker takes it for:   *)
(* through resends, questions and lost answers each leg lands once, and    *)
(* nothing lands behind an outcome, so that what is journaled of it holds. *)
Submission == INSTANCE OneSubmission WITH
  Orders   <- Legs,
  Tries    <- Attempts,
  landings <- [c \in Legs |-> {a \in Attempts : c \in placed[a]}],
  told     <- Told

SubmitsOnce == Submission!Spec

(* Retries and rounds come to an end.                                      *)
CallEnds == <>(pc = "done")
=============================================================================
