# A verification of mcp-ibkr-agent

TLA+ specifications of the parts of mcp-ibkr-agent that decide whether an order
is sent, to which account, whether it is sent once, what the trade journal says
about it afterwards, how it is watched and cancelled, and how the brokerage
session is kept alive; TLC runs that check them on small instances; TLAPS proofs
for every value of the constants.

File names refer to `src/src/`; `journal.py`, `policy.py` and `reconcile.py` are
those of `trading_core/`, `broker.py`, `client.py` and `auth.py` those of
`ibkr_agent/adapters/cpapi/`, `app.py` that of `ibkr_agent/server/`.
`PROJECT.json` maps every definition to the lines it models.

## 1. The system

An MCP server gives a language-model agent tools to trade. Two servers share one
core: `ibkr_agent` talks HTTP to IBKR's Client Portal Gateway, `crypto_agent`
talks to an exchange through ccxt. Each is one process with one asyncio event
loop; a tool call is a task; an `await` is the only place where another task can
run, and the place where a task can be cancelled.

| component | state it keeps | operations | what makes it correct |
|---|---|---|---|
| **Trade journal** (`journal.py`) | an append-only JSONL file, one line per intent, outcome or resolution; may end in a torn line | `record_intent`, `record`, `mark_resolved`; queries `has_recent_duplicate`, `has_unresolved_dispatch`, `unresolved_dispatches`, `spent_today`, `read` | every order that left is visible, counted once, and freed only if it moved no money |
| **GuardedBroker** (`policy.py`) | one lock per side; the last verified identity; the recent covers | `place_order`, `place_bracket`, pass-through reads and cancels | no identical intent is resent while in doubt; the caps hold; no order goes to an account the user did not allow; exits are never trapped |
| **reconcile_pending** (`reconcile.py`) | none | list live orders, mark each unresolved dispatch | never marks an order as harmless that moved money |
| **CpapiBroker** (`broker.py`) | none between calls | place, preview, bracket, status, cancel, live orders; the 503 retry; confirmation questions | an order lands at most once; nothing is confirmed blindly or left half confirmed; no false verdict on an order |
| **CpapiClient** (`client.py`) | an HTTP connection pool | `get`, `post`, `delete` | every request ends, with an answer or a `CpapiError` |
| **GatewayAuth** (`auth.py`) | none | `status`, `tickle`, `ensure_session`, `account_info` | an `ensure_session` that returns saw an authenticated session; nothing unknown is called paper |
| **SessionKeeper** (`ibkr_agent/session/keeper.py`) | `_alive`, `_cycles_since_alert` | one cycle per interval: tickle, recover, or alert | the session does not idle out; the human is alerted while it is down |
| **close_position** (both `server/app.py`) | `_recent_closes`, a reservation per contract | reserve, read the position, send the opposite order, normalise the reservation | a position is not sold twice; a reservation never leaks |
| **wait_for_fill, order_status, cancel_order** (both `server/app.py`) | none between calls | poll until a terminal status or a deadline; one look; one cancellation | what is reported for good is true; a wait ends and does not miss an end |
| **CpapiMarketData** | cached conids and contracts | quotes, positions, lists | reads only; positions lag behind fills |
| **CcxtBroker and its market data** | loaded markets; a cache from order ids to symbols | place, status, cancel, live orders; refuses brackets and previews | an open order can always be asked about and cancelled |
| **Domain models, ports** | none | validators of requests and brackets | no malformed request reaches a broker |
| **Market hours, posture, capabilities** | none | pure functions | right for every date and setting |
| **Configuration, health checks, composition, keep-alive command** | none after start | read the environment, build the objects | - |

How they interact: a tool handler first awaits `ensure_session`, then calls
`GuardedBroker`. That reads market data and the journal, appends an intent to
the journal, calls the inner broker (`CpapiBroker`, which makes several
requests), and appends the outcome. `reconcile_pending` reads the journal and
the broker and appends to the journal; it takes no lock. The keeper and every
tool share the gateway session through `GatewayAuth`. `close_position` wraps a
call of `GuardedBroker` in a reservation of its own.

What is hard here: a crash, a cancelled task or a time-out between sending an
order and recording what became of it; an order that lands after its sender
stopped waiting; a file whose last line is torn; a reconciliation that acts on a
journal it read before two awaits; two calls of one intent at once; a portfolio
that still shows a position already sold, or a short already covered; an account
that changes after it was looked at; an order that fills while its cancellation
is acknowledged; a resend after a 503 that was not a failure;
questions that arrive in rounds; a session that drops between the look and the
act. `PROJECT.json` lists each as a hazard at its line, with the properties that
watch it, or the reason none does.

## 2. The modules

| module | what it is | extends |
|---|---|---|
| `TradeJournal` | the journal's lines and its queries, as operators over a sequence | - |
| `IdempotentOrders` | the abstract promise of the idempotency guard | - |
| `GuardedBroker` | calls, locks, journal file, reconcile, crash, clock and venue | `TradeJournal`; instance of `IdempotentOrders` |
| `MCGuardedBroker` | requests and switches for TLC | `GuardedBroker` |
| `TradeJournalProofs` | lemmas about journals and sums | `TradeJournal` |
| `GuardedBrokerProofs` | theorems | `GuardedBroker`, `TradeJournalProofs` |
| `OneSubmission` | the abstract promise of one post of orders | - |
| `CpapiOrders` | one payload against the gateway | instance of `OneSubmission` |
| `CpapiOrdersProofs` | theorems | `CpapiOrders` |
| `ClosePosition` | concurrent closes of one contract | - |
| `MCClosePosition`, `ClosePositionProofs` | instance, theorems | `ClosePosition` |
| `SessionKeeper` | keeper, tools, gateway session, clock | - |
| `SessionKeeperProofs` | theorems | `SessionKeeper` |
| `CoverAllowance` | buys and sells of one symbol against a lagging portfolio | - |
| `MCCoverAllowance`, `CoverAllowanceProofs` | instance, theorems | `CoverAllowance` |
| `OrderRules` | the rules about one order that need no state, and what they are for | - |
| `OrderGuards` | calls of both sides against a venue whose login changes | `OrderRules` |
| `MCOrderGuards`, `OrderGuardsProofs` | instance, theorems | `OrderGuards` |
| `OrderWatch` | cancel, status and wait for orders that have an id, on both venues | - |
| `MCOrderWatch`, `OrderWatchProofs` | instance, theorems | `OrderWatch` |

They stack: a call of `ClosePosition` awaits one call of `GuardedBroker`, whose
post and answer are one run of `CpapiOrders`. Each module takes the one below
for its promise: `GuardedBroker` sees the awaits of `_run_guards` as one that
passes or blocks, which `OrderGuards` (account, stops, exits) and
`CoverAllowance` (covers, value cap, naked shorts) take apart; it lets a request land at most once and
the answer be lost in any way, and takes an answer for final, which is what
`OneSubmission` promises and `CpapiOrders` implements; `ClosePosition`
lets the guards refuse at will. Reads of the outside are chosen
nondeterministically at the moment the answer is given.

### TradeJournal and GuardedBroker

A *line* is a record `[kind, coid, request, dry, sent, oid, status, time]`: the fields
of the JSON line that some query reads. `RecentLines` is `read(limit)`,
`UnresolvedDispatches` is `_unresolved_dispatches`, `HasRecentDuplicate` and
`SpentOn` are the two queries of the guard, midnight included (`Day`).

A call is named by the cOID it dispatches with. `pc` follows
`_place_order_locked` and `_place_bracket_locked`: `idle`, `waiting` for the lock
of its side (`queue`, `holder`), `guards`, for a bracket also `exits`, `sending`,
`awaiting`, `done`; `lost` is a task that was cancelled or whose process died.
The three journal queries and the append of the intent are one step, as no
`await` lies between them; for a bracket the await of `_check_bracket_exits`
does, so it is two. `Write` is `_record`, which logs a failed append and goes
on; `Mark` is one turn of reconcile's loop, which does not catch it. While the
loop runs no call can (`LoopFree`). `journal` holds the readable lines and
`torn` says that the file ends in a fragment: the next append joins it and both
are lost, as `read` skips lines it cannot parse. `wire` holds requests that may
still reach the venue, whoever stopped waiting for them.

Faults are chosen per run: a crash, a crash in the middle of an append, a
cancelled task, an append that writes nothing, one that writes a part. So are
the answers that leave money out of account (`LooseAcks`).

### CpapiOrders

One payload - an order or the legs of a bracket - goes out by attempts. `payload`
is the gateway's state of each attempt (`flying`, `lost`, `asked`, `placed`,
`refused`, `declined`), `placed` the legs that came to live out of it. `Hear`
is the head of the loop of `_resolve_replies` after n confirmations together
with what follows the loop; `PostFails` is a 503 or any other failure;
`Lookup` is `_orders_by_coids`. A question is its set of `messageIds`, possibly
empty. A gateway is described by three promises, of which the comment in
`_post_orders` names two: it lists landed orders at once, it recognises a cOID,
and a request it has not dealt with when the time-out strikes is dealt with
never. Resending is safe with a gateway that recognises cOIDs, and with one that
keeps both other promises (`SafeGateways`); the checks cover all five of these,
and with any other `LandsOnce` fails, which is the residual risk that comment
admits.

`OneSubmission` is what a layer above may take all this for: each order comes to
live at most once (`Land`), while the caller waits or after it was told of a
failure, but not after it was told an outcome (`Tell`), and not at all if that
was "blocked". `Submission` maps the state: `landings` are the attempts a leg
landed out of, `Told` what the caller knows. Every resend, lookup, question and
loss is hidden from the abstract state.

### ClosePosition

`reserved` is the age of `_recent_closes[conid]`: -1 for the in-flight sentinel,
`Cooldown` for no entry or one that will be evicted. A call reads the portfolio
(`shown`), passes the guards or not, posts, and leaves by one of the code's ways
out: no position, dry run, an answer, or an exception or cancellation
(`Normalised`, the `finally` clause). The venue fills an order unit by unit, and
`shown` catches up with `actual` within `Lag`. A call that has ended stands for
a later one, so a run has no end.

### SessionKeeper

`pc` names the request each client waits for; an answer reports the session of
that moment, and what the client does next may come too late for it. `left` is
the time until the keeper's sleep or request ends, `idle` how long an
authenticated session has gone without a tickle. The gateway may drop the
session and the human may log in at any moment; up to `MaxFaults` requests fail.

### CoverAllowance

`covered` is the age of the symbol's entry in `_recent_covers`, `Cooldown` for
none or one that will be evicted (`AllowanceFree`). `Answer` is the venue's
answer to `held_quantity`; the fills, a refresh and the clock may come between
it and the step that uses it. That step compares and claims without an await. A
buy passes because it covers and the entry was free (`PassExempt`, which claims
it unless it is a dry run), or because it is within the value cap
(`PassCapped`); a sell because the position read backs it, or because it was not
asked or not answered (`PassSell`). `onRead` says that the call passed because of
the position read. The guards never ask for the type of an order, so an order
may rest, or fill unit by unit, for as long as it likes, after its call has
ended too, and `shown` catches up with `actual` whenever it likes (`Refresh`).
The rest is for the properties: `age` of a cover since its check; `unshown` and
`coversShown`, what the portfolio does not show yet; `settled`, that a buy's read
missed no exempt buy, neither at rest nor filled; `against`, what other orders of
its side traded that its read missed. A crypto balance is the case without
shorts and without a lag.

### OrderRules and OrderGuards

`OrderRules` has the validators (`WellFormed`), the two checks against a price
(`StopNotInverted`, `ExitsClear` with `EntryFill`), and, to say what these are
for, a market whose price moves unit by unit: `FirstFill` is a price at which an
entry can fill first, `ExitGoes` an exit that trades at once there.
`OrderGuards` is the order of the checks: `Answer` is the await of
`account_info` (any field may be missing, or the read raises), `Judge`
everything in `_verify_account` after it, `CheckStop` and `CheckExits` with a
quote each, `Dispatch` to whatever account is logged in by then. `remembered` is
`_verified_identity`; `origin` and `trusted` say which login an identity was
read from. Calls of the two sides interleave, under a lock per side. `settings`
are chosen once: label, `allow_live`, dry run, configured account, venue. On a
crypto exchange the answer is a label and the keys do not change.

### OrderWatch

`order` is how an order stands at the venue; `ServeRequest` answers with a word
for it, or without one (`Silent`), and the order goes on while the answer
travels. `MapStatus` is the status map of each venue, `CancelStatus` the reading
of a cancellation's answer. `Begin` starts a tool's call: IBKR's cancel looks
the symbol up for show (`ListingFails` is the `except` there), the CCXT broker
must find it in `known`, its cache, or in a listing (`Found`). `slept` is the
`elapsed` of `wait_for_fill`, `clock` the real time, which requests and long
sleeps also take. `Restart` empties the cache.

## 3. What is checked

| run | question | states | result |
|---|---|---|---|
| `intent` | Two calls of one intent, one a bracket, with a crash or a cancelled task, late landings and a reconcile: is an order hidden, resent in doubt, freed wrongly, doubled in the window? Does the guard implement `IdempotentOrders`? | 1.6 million | holds |
| `cap` | Two buys of two intents over a midnight, one fault of any of four kinds, a forced reconcile: can they spend more than the cap? Is an order at rest hidden? | 3.2 million | holds |
| `exits` | Do sells end when the venue never answers a buy, with any fault? | 53 thousand | holds |
| `torn` | As `cap`, with two faults: is an order at rest hidden? | - | violated |
| `cpapi` | Does a payload land twice, land with an unknown warning confirmed, leave a question open, say blocked of a live order? Does the call end? Does it implement `OneSubmission`? | 56 thousand | holds |
| `close` | Can three closes sell a position twice? Is the sentinel held by exactly one? Can the contract always be closed again? | 142 thousand | holds |
| `keeper` | Does the session idle out? Are alive verdicts earned, alerts repeated, recoveries noticed? | 115 thousand | holds |
| `cover` | Do two uncapped buys pass within a window? Does one that read a settled position build one? Is a sell backed? Does the allowance come back? | 1.7 million | holds |
| `longcover` | Can two uncapped covers together go long past the cap? | - | violated |
| `guards` | Can an order rest on a look at an account the user did not allow? Does the fallback ever refuse? Can an exit go with its entry? | 1.2 million | holds |
| `watch` | Is a reported end true? Can an open order be unknown, an end before the deadline be missed, a call go on for ever? | 214 thousand | holds |
| `falsecancel` | The first of these if IBKR answers a cancellation with PendingCancel. | - | violated |

The violated runs are findings, each with the sentence of the repository it
contradicts; `PROJECT.json` quotes them. In short:

- *torn*: `_append` never ends a torn last line, so the first line written after
  it is lost with it; after a second crash the order of a lost intent is in no
  readable line.
- *falsecancel*: `cancel_order` takes any status with "cancel" in it for a
  cancellation, PendingCancel too, which the status map of the same file calls
  pending and after which the order may still fill.
- *longcover*: the exemption of a cover asks neither for the type of the order
  nor for orders at rest (`policy.py:373`), and its memory lasts 45 s. A limit
  cover rests for the day; after the window a second cover passes uncapped beside
  it, and the two can end long past the cap. The comment at `policy.py:41-45`
  denies this. What does hold is `OneCoverPerWindow` and, within the window,
  `CoversOnlyCover`.

### Known limits

Met while modelling, and not among the runs. Five are properties that the code
breaks, each with a configuration that TLC refutes in seconds:

| configuration | property | what happens |
|---|---|---|
| `GuardedBroker_partial.cfg` | `FreedMeansNoMoney` | An answer that says `cancelled` frees the order in the journal (`journal.py:232`), whatever it filled. Reconciliation looks at fills (`reconcile.py:22-35`, ADR-016); the answer to the order itself, and to the lookup after a 503, is taken as it is. |
| `CoverAllowance_short.cfg` | `NoNakedShort` | Each sell is compared alone with the position shown (`policy.py:411`): two that each fit open a short with shorting off, which `CHANGELOG.md:147-148` says is blocked. Nothing remembers the first sell as `_recent_covers` does a cover. |
| `ClosePosition_parked.cfg` | `NeverSoldTwice` | `inactive` releases the reservation (`app.py:79`), although `journal.py:223-225` says IBKR also uses it for an order parked until the open; the second close sells the position again. |
| `CpapiOrders_rounds.cfg` | `AbortedIsAborted` | After the last allowed confirmation an acknowledgement is dropped and "order aborted" is raised for a live order (`broker.py:320`). The journal keeps it as in doubt, so it is not resent; the message is what is wrong. |
| `SessionKeeper_realert.cfg` | `RealertsOnTime` | `realert_every` silent cycles pass between two alerts, one more than the docstring says (`keeper.py:109`, `keeper.py:41-42`). |

The others:

- With `LooseAcks = {"unreadable"}`, `FreedMeansNoMoney` fails: an answer in
  which no order id was found is taken for a rejection (`broker.py:344`), and the
  journal gives back the budget, and allows the retry, of an order that may be
  live. No sentence of the repository speaks of such an answer.
- On a gateway that only recognises cOIDs an outcome is not final: if an attempt
  whose post timed out is still on its way when a later one is answered, it can
  land legs that were refused or missing in that answer (`broker.py:163`). `Told`
  therefore calls an outcome one only where the gateway is prompt and lists what
  landed; without that condition `SubmitsOnce` fails.
- After a read that refused the account logged in, a read that fails falls back
  on an identity remembered from before (`policy.py:284`). `MoneyLock` is
  therefore about the look a call rests on, and not about the last look; nor is
  it about the account that is logged in when the order leaves, which nothing
  looks at again after `policy.py:146`.

### Bounds, and why they are enough

- *GuardedBroker*: two calls, because every hazard is between an order and
  another of its intent, or its side, or the cap; a bracket and a plain order of
  one fingerprint differ in the await between guard and intent. One fault in the
  passing runs, the smallest number (two) where it takes two. `MaxTime` lets the
  clock cross the duplicate window and a midnight; `Tick` is possible at every
  await. The cap of 2 admits the larger buy alone or the smaller twice.
  `ReadLimit` is the code's 200 and never reached, so hiding a duplicate behind
  200 lines is outside the runs.
- *CpapiOrders*: the code's two retries; two rounds of questions instead of
  twelve, the least with a first, a last and a left-over one; two legs, the
  least of which one can land alone; one accepted and one unknown warning, so
  questions can be accepted, mixed, unknown and without ids.
- *ClosePosition*: three calls: one whose order still lives, one under way, one
  that arrives. Units of 15 s make the 45 s of IBKR three; fills take one unit
  and the portfolio one more. The bound is tight: with a cooldown of two, or
  fills that take two units, `NeverSoldTwice` fails.
- *SessionKeeper*: units of 15 s: an interval of 4 (60 s), one unit per request
  (the client's time-out), an idle time-out of 24 (IBKR's six minutes) and two
  failed requests. Without a failure the longest idle time is 8 units, with each
  failure at most 6 more, so two failures fit and a third would reach the 24.

- *CoverAllowance*: a cooldown of two units, the least with an age between new
  and expired; orders at rest and the portfolio have no bound in time. Two calls:
  a cover and one that comes too soon, or later, or behind its back. Covers of
  two with a cap of two, so that a cover may pass either way, a buy by value and
  a sell of one; from a short of two or a long of one. `MaxMoves` of one: one
  unit of another order that a read missed. `longcover` has a cap of one, covers
  of two only, and reads that are answered.
- *OrderGuards*: two calls, one per side, as calls of a side exclude each other;
  a paper account known by its prefix, one that is not, and a real one; prices
  1 to 5 around exits at 2 and 4, so that a price lies beyond, at and between
  them.
- *OrderWatch*: one order, which both calls are about (calls share nothing else
  but the cache); waits of none, of one that is no multiple of the poll, and of
  one past the cap. `falsecancel` has one call.

### Fairness

`exits`: `SellsFairSpec` asks strong fairness of each sell's steps (a request
ends by the HTTP client's time-out; a lock is handed over first come first
served; the event loop runs every ready task) and that a marking loop comes to
its end. It asks nothing of buys. `cpapi`: weak fairness of the call and of the
gateway, again the time-out of each request. `close`: weak fairness of each
call, of the venue, which ends a market order, of the portfolio and of the
clock; faults and cancellations are allowed at every await. `keeper`: weak
fairness of the keeper's steps and of the clock; nothing of the tools, the
gateway or the human. `cover`: weak fairness of the clock alone. `watch`: weak fairness of each call's steps, since
the client gives every request a time-out and a call may raise, and of the
clock; nothing of the venues. All other runs check safety and assume nothing.

Deadlock is checked in `keeper`, `close`, `cover`, `guards`, `watch` and `cpapi` (where a call that is done
may stutter). `GuardedBroker` ends when its calls have ended and its clock has
stopped, so its runs turn the check off.

## 4. What is proved

The proofs hold for any number of calls, any requests, bounds, durations,
retries, rounds, warnings, and, but for `OneFaultHidesNothing`, any number of
faults. Requests have a notional in `Nat`: an estimate is a product of positive
numbers, and 0 stands for none.

| theorem | states | assuming |
|---|---|---|
| `GuardedBrokerProofs!TypeCorrect` | `TypeOK` | - |
| `NoOrderIsHidden` | `NoHiddenOrder` | appends do not fail or tear (`DurableWrites`) |
| `OneDoubtfulOrder` | of the orders of one intent at most one is in doubt | `DurableWrites` |
| `NeverResentBlindly` | `NoBlindResend` | `DurableWrites` |
| `ImplementsIdeal` | `Ideal!Spec` | `DurableWrites` |
| `FreedOrdersMovedNothing` | `FreedMeansNoMoney` | no loose answers |
| `ExposureIsCapped` | `ExposureWithinDailyCap` | no loose answers |
| `NoDoubleOrder` | `NoDoubleOrderInWindow` | `DurableWrites`, no loose answers, a window above 0, `[]WindowIsRead` |
| `OneFaultHidesNothing` | `NoHiddenOrderAtRest` | at most one fault, which is no `short_write` |
| `CpapiOrdersProofs!TypeCorrect` | `TypeOK` | - |
| `NeverLandsTwice` | `LandsOnce` | every gateway is one of `SafeGateways` |
| `OnlyApprovedLands` | `NothingLandsUnapproved` | - |
| `NothingHalfConfirmed` | `NoQuestionLeftOpen` | - |
| `BlockedOrdersAreNot` | `BlockedIsBlocked` | - |
| `ImplementsSubmission` | `SubmitsOnce` | every gateway is one of `SafeGateways` |
| `ClosePositionProofs!TypeCorrect` | `TypeOK` | - |
| `SentinelHeld` | `SentinelIsHeld` | - |
| `NothingSoldTwice` | `NeverSoldTwice` | `FillBound + Lag < Cooldown`, no loose answers |
| `SessionKeeperProofs!TypeCorrect` | `TypeOK` | - |
| `SessionKeptWarm` | `KeptWarm` | `IdleTimeout > Interval + 4 RequestBound + MaxFaults (Interval + 2 RequestBound)` |
| `AliveIsEarned` | `AliveWasAuthenticated` | - |
| `CoverAllowanceProofs!TypeCorrect` | `TypeOK` | - |
| `OneCoverEachWindow` | `OneCoverPerWindow` | - |
| `SettledCoversOnlyCover` | `CoversOnlyCover` | - |
| `BackedSells` | `SellsAreBacked` | - |
| `OrderGuardsProofs!TypeCorrect` | `TypeOK` | - |
| `RealMoneyIsLocked` | `MoneyLock` | - |
| `FallbackNeverRefuses` | `FallbackPasses` | - |
| `ExitsDoNotGoAtOnce` | `NoInstantExit` | - |
| `OrderWatchProofs!TypeCorrect` | `TypeOK` | - |
| `NoFalseVerdict` | `VerdictsHold` | no cancellation is answered PendingCancel (`PlainCancels`) |
| `OpenOrdersAreKnown` | `OpenIsKnown` | - |
| `NoEndIsMissed` | `SeenInTime` | - |

The arguments:

- *In doubt at most once.* That a call found no unresolved order of its intent
  must survive until its intent is written. `DoubtInv` therefore says what the
  journal says of each call at each place (nothing before the intent, "sent"
  after it), that reconcile only ever marks orders already sent, and, for a
  bracket between guard and intent, that no other order of its intent is in
  doubt. It needs `LockInv` (a call in the critical section holds the lock of
  its side): the only other writer of an intent of this fingerprint is a call of
  the same side. `ImplementsIdeal` reads the steps off the same invariant.
- *Freed orders moved nothing.* `FreedInv` says it of every line and of what
  reconcile has seen but not yet written; `VenueInv` says an order that is over
  stays over.
- *Exposure is capped.* `BudgetInv` says two things: what the buys that the
  journal first names on a day can still spend is at most the cap, on every day;
  and a buy that has passed the guards (`Pending`) but is not in the file yet
  still finds its notional free on the present day. The second is what makes the
  first inductive, and it survives the awaits because the lock of the side leaves
  room for one such buy (`OneCleared`), a midnight only makes room, and a line
  that names an order again never moves it to another day (`Written` and
  `BookInv` list what any step can do to the file, failed and torn appends
  included). `CommittedIsSpent` says that the journal's own sum counts at least
  what is committed. A lost intent that is only named by its outcome is counted
  then; one that is named nowhere is not exposure "journaled on a day", and
  `NoHiddenOrder` is about it.
- *No double order.* `WindowInv` has the same shape: two orders of one intent
  that the file does not call harmless are first named further apart than the
  window, and one that has passed the guards finds none within the window
  (`Alone`). The guard looks at the last `ReadLimit` lines only, so
  `WindowIsRead`, that lines further back are older than the window, is a
  hypothesis about the behaviour and not a fact about the code: 200 lines within
  the window, a hundred orders with their outcomes, break it.
- *One fault hides nothing.* `LostInv`: an order that left and is named by no
  line belongs to a call that is still running, which will append its outcome to
  a file that ends in a whole line. A tear ends the process and so spends the one
  fault without an order in between; a second fault, or a half-written intent of
  a process that goes on, refutes it (`torn`).
- *Never lands twice.* `AttemptInv` puts the attempts in order, so that only the
  present one can still be decided on; `GivenUpInv` says that with a prompt
  gateway that lists what landed, an attempt is given up only when it came to
  nothing; a gateway that recognises cOIDs needs neither.
- *One submission.* A step of the call changes nothing that landed and tells at
  most one thing (`CallTells`), "blocked" only if nothing landed, which is
  `BlockedIsBlocked`; a decision of the gateway lands new legs (`DecideLands`),
  by `LandsOnce`. That it comes before the outcome needs `FinalInv`: behind an
  outcome nothing is on its way, neither a payload nor a confirmation.
- *Nothing sold twice.* `CloseInv`: the reservation left by a call is no older
  than the order it left, so when the contract can be
  reserved again no order lives and the portfolio is right; hence what is read
  and sent is the whole position and nothing else trades it.
- *Kept warm.* `WarmInv` bounds `idle` by a deadline that depends on the request
  the keeper waits for and on the failures left.

- *One cover each window.* `AgeInv`: outside a dry run, a cover is as old as the
  entry or older. The entry is dated anew only when it is free, and then every
  earlier cover is a window old.
- *Covers only cover.* A buy that was settled at its read meets no other cover
  while its window lasts (`AloneInv`): from the read to the check the lock of the
  buys keeps others out, after the check the entry does. What it may still buy is
  within what it read; `HiddenInv` and `ReadInv` put the difference between what
  was read and what is down to capped buys, all counted in `against`. Once the
  window is over the claim ends, and `longcover` shows why.
- *Sells are backed.* The same two say of a sell that other sells account for
  all the position has lost since its read.
- *Money-lock.* `TrustInv`: whatever passed the checks was said of a login that
  is allowed (an id that matches, a verdict that is true whenever it is given),
  and so is what is remembered, of `origin`. A call that fell back is trusted as
  far as `origin` is. `FallbackPasses` holds since settings do not change and
  only what passed is kept.
- *No instant exit.* `FillsAsComputed`: the only price at which the entry can
  fill first from the quote is the one `EntryFill` computes; `ClearExitsWait`:
  exits on its far sides do not go there.
- *No false verdict, no missed end.* An order that is over stays over
  (`OrderFrame`), so a verdict that was true when given is true when it arrives.
  For a wait, `ClockInv` says that time is at least what it slept, up to the
  deadline: the last poll is asked after the deadline, and if it finds the order
  open no earlier moment found it over.

Sums and recursion: `SpentOn` and `ExposureWithinDailyCap` fold over a set, and
the library's induction theorems take an operator, which no installed prover
instantiates. `TradeJournalProofs` proves the induction it needs about sets
instead: `LeastSubset` gives a smallest set for which a claim fails, and
`TableExists` a table of partial sums from which `SumUnfolds` follows.

What stays with TLC is liveness: `SellsEnd`, `CallEnds`, `CallsEnd`, `Reopens`,
`AllowanceReturns`, `AlertedWhileDown`, `Recovers`. Every invariant and every
refinement of a passing run has its theorem.

## 5. What the models leave out

- In `GuardedBroker` the awaits of `_run_guards` before the journal is read are
  one await that passes or blocks. In `OrderGuards` and `CoverAllowance` the
  deny and allow lists, market hours and the journal's guards are a call that
  may end there (`End`). A torn line that lacks only its newline is not
  distinguished. `unknown` and empty order ids of a bracket's answer count as no
  answer. Only one `reconcile_pending` runs at a time. The journal has one
  writer process (ADR-016).
- Prices, quantities, messages and formatting are values or absent.
- `ClosePosition`: other trades of the contract, and restarts, which forget
  `_recent_closes`. A request lost on its way counts as rejected.
- `CpapiOrders`: the order in which acknowledgements come back, of which
  `GuardedBroker` takes the first for the entry; two calls at once, which share
  nothing at the gateway but the session.
- `CoverAllowance`: one symbol; restarts, which forget `_recent_covers`. A
  refresh shows everything traded so far.
- `OrderGuards`: an exchange's keys do not change while the server runs.
- `OrderWatch`: a listing holds all open orders, and ids are unique; on an
  exchange where an id is unique only within a market the cache may hold
  another order's symbol. A cancellation answered by a question is `Silent`.
- Not modelled at all: market-data parsing, order payloads and sizes, ccxt's
  client, posture and capabilities, configuration and composition (no state
  that changes), market hours (a pure function of the date).

## 6. Plan

Done, in this order, because the first question about this program is whether
money can move twice or unseen: `TradeJournal`, `GuardedBroker` with its
abstract specification and proofs; `SessionKeeper`; `ClosePosition`;
`CpapiOrders`; `CoverAllowance`, `OrderRules` with `OrderGuards`, and
`OrderWatch`, each with its proofs.

`TradeJournalProofs` and `OneSubmission` came last: every invariant that a passing
run checks is now proved.

To come:

1. `GuardedBroker` with its post replaced by `OneSubmission`, one instance for
   each call: it already allows all that `OneSubmission` does (`Post`, `Land`,
   `Ack`, `NoAnswer`), by inspection and not by proof.
2. `watch` with two orders: the safety properties fit the time of a run, the
   liveness property does not.
3. Market hours and holidays as operators over dates, checked against a
   reference definition.
