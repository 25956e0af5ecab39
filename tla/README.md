# A TLA+ model of the SignalOS backend

SignalOS turns market analysis into trade proposals, lets a user review one and
confirm it, places it as one Bybit order and keeps its database in step with
what Bybit then does. This directory holds TLA+ modules of the backend
(`src/backend/src/signalos_backend`; paths below are relative to it), the TLC
configurations that check them on small instances, and proofs checked by TLAPS
that hold for every size.

Most of SignalOS is thin request handling around a handful of protocols between
processes that share one Postgres database: API handlers, a market-analysis
worker, an execution worker that polls the broker every five seconds, and a
notification worker. Each runs in a container of its own and is restarted when
it stops (`backend/compose.yaml`). The protocols are what is modelled.

## The system

| Part | State it keeps | Operations | Talks to |
|---|---|---|---|
| Execution (`execution/`) | `execution_reviews`, `broker_orders`, `broker_executions`, `broker_positions`, `execution_action_reviews`, `execution_actions` | review, submit; review and confirm a cancel, a close, a protection; a reconciliation cycle | Bybit; proposals (archives them); brokers (the active account) |
| Proposals (`proposals/`) | `trade_proposals` | create, reject, `has_active`, feedback | brokers, drawdown gate, notifications |
| Broker accounts (`brokers/`) | `broker_connections`, `broker_credentials`, `broker_contexts`, balances and equity | connect, verify, synchronise, switch, revoke | Bybit; proposals (invalidates them) |
| Market analysis (`market/`, `investment/pipeline.py`) | `market_analysis_requests`, scans, reviews, instruments, tickers | request, claim, scan, analyse, finish | models, sizing, proposals |
| Sizing (`investment/sizing.py`) | none | `size_opportunity` | called by the pipeline |
| Notifications (`notifications/`) | `push_devices`, `notification_deliveries` | register, remove, notify, retry, collect receipts | Expo |
| Drawdown gate and allocation policy (`portfolio/`) | none (reads equity) | `state`, `require_new_risk_allowed`, `evaluate_proposal` | asked on creation and submission |
| Governance (`intelligence/registries.py`, `promotion.py`, `laboratory.py`) | a registry in each process, one durable table | register, transition, promote, restore, assess | pipeline (approved strategies) |
| Research runs (`intelligence/service.py`, `temporal/`) | runs, events, reports; the workflow's attempts | ask, dispatch, execute (again) | models, Temporal |
| Users (`users/`) | profiles, policies, memories | save, derive a mandate, generate a policy, learn from feedback | models; asked by proposals, execution and the drawdown gate |
| Bybit client (`providers/bybit/`) | none | signed reads and writes, market data | Bybit; called by execution, brokers, market |
| Macro calendar, identity, encryption, wiring | none | | |
| Mobile application (`src/mobile`) | a client's cache | calls of the API | the API |

What makes it hard, and what the properties are about:

- A confirmation is retried, doubled, and answered late or never, and the broker
  may act long after its client gave up. One confirmation must be one order.
- API handlers and the reconciler write the same order, position and action
  rows, from answers fetched before somebody else's write. The rows must still
  end at the broker's state.
- Every handler is several transactions with awaits between them; whatever was
  read may have been rejected, expired, switched away from or revoked since.
- Processes stop anywhere, and are restarted without memory.
- A lease on an analysis request has no fence, a check for an active proposal
  is not in the creating transaction, and two processes send and mark the same
  push deliveries.
- Each process keeps the strategies in a memory of its own, saved after it changed;
  evidence for a strategy is named by a hash of that strategy.
- The sizing meets many ceilings, a step and two minimums in one number, and a
  replay meets stop, target, gap and the end of the series in one bar.
- An investor edits the profile, and switches accounts, while an order is being
  checked against what they were.
- A model call takes minutes. Temporal repeats what it takes for lost, feedback
  overlaps, and what was loaded before the call is written after it.

`PROJECT.json` lists each hazard at its line with the properties that cover it,
and for those without one the reason.

## The modules

| Module | Models |
|---|---|
| `OrderStates` | `BrokerOrderState`, Bybit's statuses and the map between them, and how an order may move at the broker |
| `OrderExecution` | a proposal's reviews, submission, the place call, the order and position rows, reconciliation and archival |
| `ProposalPromise` | the abstract promise of that write path: withdrawn or committed, never both; placed at most once |
| `ExecutionActions` | cancel, close and protect: review, confirmation, broker call, completion by the reconciler |
| `BrokerConnections` | connections, credentials and the active account, with the creation of proposals that relies on them |
| `OpportunitySizing` | `size_opportunity` as an operator, over exact rationals |
| `MarketAnalysis` | analysis requests, claims and leases, the worker's cycle, offers |
| `Notifications` | devices, deliveries, pushes, tickets, receipts, retries |
| `StrategyGovernance` | a strategy's versions: registries, table, evaluations, transitions, the analysis that trades on them |
| `InvestorMandate` | the mandate derived from a profile, the drawdown gate, and the checks of creating and confirming an offer while profile, account and equity change |
| `Laboratory` | the bar-by-bar execution replay a strategy is evaluated by, and the levels of a signal |
| `ResearchRuns` | a research question, its executions and the workflow that repeats them |
| `LearnedPreferences` | the feedback on proposals, the memory of it and what is learned from it |
| `MCLimits` | `OpportunitySizing`, `InvestorMandate` and `Laboratory` side by side, one per behaviour |
| `MCModelCalls` | `ResearchRuns` and `LearnedPreferences` side by side, one per behaviour |
| other `MC...` | the instances TLC checks of the module they are named for |
| `...Proofs` | the theorems of the module they are named for; `LimitsProofs` and `ModelCallsProofs` those of the modules that `MCLimits` and `MCModelCalls` put side by side |

`PROJECT.json` maps each definition to the lines it stands for. The conventions
are the same throughout:

- An action is one transaction or one stretch of a handler between two awaits of
  another party. A handler's position is a `pc`, `at` or `stage` field, and what
  it read and will use later is kept in its record (`held`, `row`, `todo`): that
  is how stale reads get into the model. A row that a transaction reads without
  a lock and writes later takes two steps (`LoadConnection`/`SaveSnapshot`,
  `Load`/`Commit`); one it locks takes one.
- An exception, a refusal that changes nothing and the death of a process before
  its first write look alike to everybody else and are one action (`Refuse`,
  `Abandon`, `Drop`).
- External parties are as free as the code's handling allows: Bybit may accept,
  refuse or lose a call, answer it late, fill and cancel at will, but does not
  reopen a finished order; Expo may give any answer to any push.
- Clients may make every call at any time, with any key, review or target.
- The Bybit client is the operators between a handler and the broker: `Outcomes`
  (a posted call is acknowledged, refused, or failed whatever became of it),
  `PlaceOrder`, `CallBroker`, `OrderSnapshot`, `OpenPositions`, `SignedGet`. A
  failure after the broker acted is possible at every one of them.

### OrderExecution

Requests are `submit_order` calls; a request that commits names the order row it
inserts, so `order[r]`, `broker[r]`, `sent[r]` are its row, the broker's order
and the place calls made for it. `review` and `proposal` are their tables;
`position` is the row of the proposals' symbol, `exposure` the broker's
position. `Submit` to `BeginSubmission` are the preflight and the commit
(`execution/service.py:147-171`), `SendOrder` and `Mark...` the call and its
four endings, `ListAccounts` to `ApplyPositions` one cycle of
`ReconciliationService`. `SetState` and `ReconcileOrder` write without looking
at the state they overwrite, as the code does. Several proposals share the one
symbol; one account may be switched away from and revoked. The clock counts to
`MaxTime` and only expires reviews and proposals.

### ExecutionActions

One working order and one position; the calls are `cancel_order`,
`close_position` and `update_position_protection`. A close and a protection
compete for the position's lock, a cancellation has the order's to itself, so
that `Scopes` says which kinds are taken together: the kinds of two targets
share nothing but the database, and TLC need not multiply them.

### BrokerConnections

`Calls` are concurrent `verify` and `sync` calls, `Proposals` concurrent
creations. `MarkVerified` is one step although `mark_verified` commits twice: the second
transaction only stamps the credential, which nothing reads, and a stop or a missing
credential before it leaves what the first has committed.
The object-relational session writes only the columns it changed, and only if
they differ from what it loaded: `Flushed` models that, and the outcome of a
synchronisation that races a revocation depends on it.

### OpportunitySizing

The state is one chosen input; everything is in `Sizing`, the function's
branches in the code's order over its named ceilings. Fractions are whole
numbers over common units (`Unit`, `LossUnit`, `CostUnit`); what is left out is
the rounding of 28-digit decimals and fractional leverage.

### MarketAnalysis

Requests, workers with their claims, and the accounts and symbols a cycle walks
over. `covers` holds the requests made before the market data was fetched, which
is how freshness is stated. The refusals of `_personalize` are one choice.
`LeaseExpires` may happen to any running request, dead worker or slow one.

### Notifications

Two processes, the market worker that notifies and the notification worker that
retries and collects. `push` is what Expo knows: for each delivery the sequence
of pushes it was sent and what became of each. A cycle retries at most `RetryLimit`
failed proposals, any of them, whether or not they have a device to send to
(`failed_proposals`). The thousand tickets of a cycle, the oldest first, are not
bounded in the model: `ListTicketed` takes all.

### StrategyGovernance

`registry` is the memory of the API process, `table` the durable strategies,
`handler` the operator's requests, each split where it awaits the database:
`AskAdmission` and `ReadEvaluation` before `Admit`, `LoadRow` before `CommitRow`.
The market worker's own registry needs no variable: it is the seeds with the table
merged over them at the start of each analysis (`Restored`), of which an analysis
keeps what `approved()` returned (`trading`). Evaluations are named by digests that
stand for `reproducibility_hash`. Whether a replay passes, and whether
`assess_promotion` is content, is a choice. `lost` and `crossed` are history: the
versions of which a save failed, or two overlapped.

### InvestorMandate

`AdaptiveMandate` is the precedence of `derive_adaptive_mandate`; `DrawdownStatus`
the gate's state over a snapshot. `draft` is a `ProposalService.create` in
progress, `call` an `ExecutionService.submit`: each of the checks they share
(`CheckProfile` to `CheckContext`) is a step, since each is a read of its own, and
the handler keeps the profile it read first (`profile`) apart from the one its
gate read (`gate`). The gate measures the account that is active when it looks.
`SaveProfile`, `Switch`, `Revoke`, `Sync` and `TimePasses` fall between any two.
`seen` is history: the profiles in force since the submission began, the limits
that its account's equity has kept, and whether there was no active account.
Whether the equity that Bybit answers differs from the stored one is a choice.

### Laboratory

`Replay` is the body of `_replay`'s loop, written once for both sides: `Against`
and `Further` turn a comparison by the side. Prices are whole numbers; a trade
keeps the price moves, charges and fundings booked to it rather than the
percentages made of them. Whether the sizing answers, and what the signal says, are
choices; levels are rounded as `_rounded_levels` does.

### ResearchRuns

`asking` is the question's route, `flow` the Temporal workflow, `work` the
executions: each is at a stage of `IntelligenceService.execute` and carries what it
was told. `Save` writes the copy of the run an execution has carried since it
loaded it, without looking at the row. `append_event` is two steps, since it looks
for the sequence and inserts in one transaction that locks nothing: the unique
index refuses the second insert (`LookUpEvent`, `InsertEvent`). `Retry` is an
attempt that failed, or whose client gave up after 120 seconds: the handler goes on,
and that is how two executions overlap. `overlapped` is history.

### LearnedPreferences

`observed` counts the remembered observations by family and reason, `learned` the
learned rows. A feedback handler remembers, lists and infers, resets, and saves, each a
transaction (`Remember` to `SaveLearned`). `undisturbed` and `alone` are history:
whether anyone else touched the memory while a handler worked.

## What TLC checks

| Run | Instance | Shows |
|---|---|---|
| `submission_races` | 2 requests, 2 proposals, 2 keys, 2 reviews, 1 reconciler | safety of submission under every interleaving with rejection, switching, revocation, expiry, crashes and archival; implements `ProposalPromise` |
| `convergence` | 1 request, 1 reconciler, 1 other refresher, fair | rows end at the broker's state, terminal rows tell the truth, archival has evidence |
| `action_races` | 2 calls, 2 reviews, 2 keys | one action per target, sent as confirmed, cancellations true |
| `actions_converge` | 1 call, 1 reconciler, fair | what the broker has done completes the action; stale states are corrected |
| `account_races` | 2 connections, 2 calls, 1 creation | an unlocked account has a live verified key, no offer for an account that was not active |
| `sizing_limits` | 82,944 opportunities; every answer of the questionnaire; 3 profiles, 2 accounts, 2 equities, 2 terms, one offer; 5 bars of 7 kinds, 2 signals | a size respects every limit, is the largest that does, and no cautious input enlarges it; a more careful answer raises no limit; an order fits one profile then in force, and an equity that kept its drawdown limit; a replayed trade is one that could have been had, and each move and cost is counted once |
| `deliveries` | 2 devices, 2 attempts, 1 event; 1 proposal, or a second after an earlier one that failed, of which a cycle takes 1; fair | statuses follow Expo's word, pushes are bounded, what has a ticket settles, and what failed is sent again unless proposals that can not be sent fill every cycle |
| `governance` | 1 version, 2 operator requests, 1 digest | admitted versions have a passing replay, offers an approval; memory and table agree when quiet; nothing is admitted while saves succeed |
| `model_calls` | 2 executions, 2 attempts of the workflow; 2 feedback handlers, 2 families, 2 reasons | what a run tells has no gap and, unless executions overlapped, is true; a settled run stays; a dispatched one ends (fair); an undisturbed feedback leaves exactly what the memory teaches |
| `analysis_claims` | 2 requests, 2 workers, 1 account and symbol, 1 crash, fair | a request is answered once, by fresh data, and ends |

Why these bounds: every race the properties are about is between two actors over
one row (two confirmations of one proposal, a call and a reconciler, two
workers and one request, two processes and one delivery), so each instance has
two of what competes and one of what is competed for, or two where crossing
over is the mistake (keys, reviews, connections, devices). Runs with liveness
take one call because late writes by that call and one refresher already
give every overwriting order of a row. Each property was seen to fail when the
definition it depends on is changed as a plausible bug would change it
(`PROJECT.json`, mutants): no bound hides it. Bounds on counters are named
constants: `MaxTime`, `MaxSequence`, `MaxCrashes`, `MaxEvents`, `MaxAge`,
`MaxAttempts`, `MaxRows`, `Length`. Symmetry is used only in runs without liveness.
Deadlock is not an error anywhere: clients may stop calling.

`MaxAge` is 0: a snapshot is fresh until the first tick, as one is for five minutes
in the code. Two equities give a peak, a value at it and one below it by exactly the 6
percent of the careful mandate. Two attempts of the eight are one retry, which is
what overlaps; the proofs have no such bound. A series of five bars after a warm-up of
one holds a signal, its fill, a mark, an exit and, after the shortest cooldown,
the end; its seven bars touch only the stop, only the target, both, neither, and gap
over either. In `deliveries` a second proposal
is pushed only where an earlier one already failed on a disabled device, in states that
the specification reaches (`Earlier`), and the only event is then that the device comes
back while it keeps the second one out; with any event for one proposal alone, these are
the behaviours in which the limit matters, and all interleavings of two whole proposals
would not fit a run. The two devices are alike, so that events of one are enough. The
parts of `MCLimits` and of `MCModelCalls` share no variable, so a
behaviour is one of them and their product is not explored.

Type invariants are not in the runs: each is proved, for every size, as a part of its
module's inductive invariant.

### Disagreements with the code

Two runs show the code doing otherwise than the repository says; each has its
finding in `PROJECT.json`.

- `stuck_setup`: after a stop between the commit and the place call, or a fill
  whose position closes between two polls, a proposal stays submitted for ever
  and `has_active` keeps answering that a proposal or order exists.
- `revoked_returns`: a synchronisation overtaken by a revocation makes the
  revoked connection healthy again.

Others are visible in the models without a run of their own:

- Admission asks that a version refer to its exact evaluation, but an evaluation hashes
  the references of the version it replays. While every save succeeds nothing can be
  admitted (`AdmissionNeedsLostSave`); after a lost save and a restart a version is
  admitted on the replay of a content it no longer has.
- The closing of a symbol's position archives also the proposals of that symbol whose
  order still works (`ReplaceOpenPositions`), so that the setup is offered again next
  to it.
- A close whose effect is reconciled before its own call has marked it is acknowledged
  afterwards and never completes; `EffectsComplete` promises nothing to it.
- A retried execution that overlaps the first takes a published run back to
  researching, or rejects it (`Save` after `Load`); `ToldIsTrue` and
  `DispatchedRunsEnd` except overlapped runs. A fast question is executed once, and an
  error leaves its run where it stood.
- Feedback that overlaps restores the learned rows of the slower handler, or saves them
  twice; one that fails after its reset leaves none; a deleted observation leaves the
  row it taught. `LearnedIsCurrent` says that the next undisturbed feedback repairs it.
- A retry cycle takes a hundred failed proposals, in no order, before it looks at
  their devices (`notifications/store.py:236`). If that many have failed on devices that
  are disabled since, they may fill every cycle, and a push that failed on an active
  device is never sent again. Behaviours of `deliveries` do so, with a limit of one;
  `FailedIsRetried` excepts just them (`KeptOut`). A push that was prepared and never
  marked, and one that lost its ticket to a stale mark, are not picked up either.
- An offer inserted just after a switch stays available. If then the active account is
  revoked in the middle of that offer's confirmation and the offer's account becomes
  the active one by a synchronisation, the drawdown gate has measured the other
  account: `BreachStopsRisk` excepts confirmations during which no account was active.

### Fairness

Stated only for loops that run for ever under `restart: unless-stopped` and
catch the errors of one cycle: the steps of the reconciler (`SF` of the steps
behind a provider call, since not every cycle fails), of the market workers,
of the notification worker, the steps of a research execution and the workflow's
posting of what is due, and the passing of a lease. `FetchAll` adds that
Expo is not out of reach, or short of receipts, each time it is asked. Which failed
proposals a cycle takes is left to the worst choice. For `ResearchRuns`, `SF` of `Post` says
that the worker which Temporal gives an attempt to is up often enough, `WF` of
`Complete \/ Retry` that an activity ends or times out; an execution may fail at any
stage or never be posted by hand. Nothing is assumed of users, requests, the broker or the market worker's notifications. The
convergence properties hold while the account stays the active one, since only the
active account is reconciled (`brokers/store.py:337`).

## What is proved

The theorems hold for every number of requests, proposals, connections, calls,
workers and inputs. Their assumptions are those named in the modules
(`ConstantsAssumption` and the like): bounds are natural numbers, `None` is
nobody's name, `Workers` is finite where it is counted, the reasons that teach are
reasons, and a bar is one that `validate_bar` accepts. Each `...Proofs`
module defines an inductive invariant, `IndInv` unless it has a name below (the one of
OrderExecution is made of parts its module states), shows that `Init` implies it and
that every action keeps it (`Invariance`), and reads the properties off it.

**OrderExecutionProofs.** `IndInv` is `TypeOK /\ SubmissionInv /\ BrokerInv`.
That no proposal is placed twice does not follow from itself: one has to know
that a request past its commit owns a row, that this row belongs to its own
proposal and review, that the proposal is then no longer available and the review
consumed, and that a row was sent only by the request that inserted it
(`SubmissionInv`). `PlacedAtMostOnce`, `WithdrawnStaysHome`, `ConfirmedOnce` and
`ReplaysTheirOwn` rest on that. `TerminalIsTrue` needs `BrokerInv`: a snapshot a
reconciler still holds may be old, but an end it saw is the end, because the
broker does not reopen an order; so that a stale write may leave a row behind the
broker but never ends it falsely. `ProposalsMoveForward` and `ArchivalHasEvidence`
are action properties over the same invariant. `ImplementsPromise` shows that
`OrderExecution` implements `ProposalPromise`: a step changes at most the phase of
a proposal or the number of placements the way a step of the promise does, or
stutters.

**BrokerConnectionsProofs.** `IndInv` adds to the types that a handler works on a
stored connection (`Named`), that a revoked connection has no credential
(`KeysLive`), and that what synchronises or is healthy was verified, also in the
handlers that hold a row they loaded earlier (`VerifiedFirst`). `LiveKeyUnlocks`
holds although `revoked_returns` shows a revoked connection turn healthy: its
credential is gone, so that it does not unlock the studio. `ActiveHeld` is an action
property: what takes the active account away is a switch or a revocation, never
the late write of another handler.

**LimitsProofs.** For the sizing the state holds one input, so the work is in the
lemmas: about products of naturals, about the largest whole number of steps that
fits under a bound (`StepsFit`), and about each ceiling of the function.
`SizedWithinLimits`, `SizedIsLargest` and `CautionReduces` follow for every
mandate, price, step, cost and correlation, where TLC checks 82,944 inputs. That a more
careful answer raises no limit (`CautiousAnswers`) goes by the question it answers
(`StepOfCare`): it is as protective, no more eligible, and takes selective growth away.

For the mandate, `OrdersFit` and `BreachStops` speak of an order that was sent, and
nothing of them is true of the state the order is sent in: profile, account and
equity may all have changed since they were read. `MandateInv` therefore says of each
step of a confirmation what was checked before it, against what was in force then:
`InForceSeen`, that the history misses no profile, kept limit or missing account since
the confirmation began; `ChecksHeld`, that the profile first read and the one the gate
read are both in that history, and that the terms fit the former from the check of the
context on; `GateHeld`, that the limit the gate read is among those the equity has kept,
or the offer is invalidated or its account not the active one, in which case
`BeginSubmission` refuses it. The last alternative is what the property needs its exception
for: with no active account in between, the gate may have measured another one.

For the replay, `LabInv` says what a trade satisfies in terms of the bars it was held
through (`Attained`, `Counted`, `Placed`), so that a later bar does not disturb it; the
open position is the last trade's, with its levels, marked to the last close
(`PositionIsLast`); and a signal waits only while flat, warmed up and cooled down
(`SignalsWait`, `Apart`). The sum of the moves needs no induction over the series: it
telescopes, since each bar moves the reference to its close. The lemmas about one bar are
stated for both sides, and decide which of gap, stop, target and close is the exit.
`ReplayAttainable` and `MovesOnce` are read off it for every series, strategy, tick and
cooldown. `MachinesApart` says that the run's behaviours are behaviours of these
specifications. TLC checked both invariants in the instance of `sizing_limits` before
they were proved.

**MarketAnalysisProofs.** `Claims` and `Scanned` carry what a claim implies through
a cycle whose lease may expire at any step: the requests a worker claimed never
return to the queue, and its market data is newer than they are. So `CompletedFresh`
holds without a fence on the lease. `OffersBounded` counts: `Room` says that the
offers of a setup and the workers that have looked, found none and may still make
one are together at most as many as the workers.

**StrategyGovernanceProofs.** `Bounded` carries the argument: while no save of a
version was lost, the copy in memory, the one in the table, those being saved, the one
traded on and those that evaluations were made of all have the same references
(`Copies`, `Bound`), and memory will be restored to them after a restart. With `Hashed`,
that no content refers to its own hash, `NoAdmissionUnlessLost` follows: an admitted
version would refer to an evaluation of its own references. `QuietIsSaved` needs `Alone`:
a save that overlaps no other writes what memory holds. `AdmittedOnReplay` and
`OffersApproved` hold of every copy, whatever was lost or overlapped.

**ExecutionActionsProofs.** That a target has one action in flight and that a review
backs one action is decided under the locks of `begin_action`; the proof carries what
holds of a call between its steps (`Progress`): before the commit it has no action,
until it has sent, its action is submitting, and whatever is on the wire has one.
`ConfirmedOnce` rests on that. `CancellationIsTrue` needs `Snapshots`: a snapshot in
anybody's hands that shows a cancelled order may be old, but the order is cancelled
still. `Lifecycle` is the action property over the same invariant.

**NotificationsProofs.** `DeliveryIsTrue` needs to know that a ticket, wherever it is
kept, is of a push that this very delivery was sent: in the row, among those a process
asks receipts for, and in the marks it is about to write (`TicketsTrue`), although the
row may have been marked, reset for a retry or removed since. What was pushed is never
taken back, so that a stale mark is late but not false.

`PushesAreBounded` keeps an account of every push of a delivery. Two processes read the
row's attempts, send, and write what they read plus one, each without the other's lock,
so that a count may be undone. `CountInv` adds up what a process is about to post or has
still to count (`Pushes`, `Due`), what of it is sure to be counted (`Sure`: the worker
gives up its whole cycle when one of its rows has gone, so a `Doomed` batch counts
nothing, and the removal that doomed it is an event), and the attempts in the row. While the
market worker sends, it is the first to notify its proposal (`First`), its own send is the
only one uncounted and the row it has loaded is at most behind (`BothSend`); once it is
done, its write has undone at most `MaxAttempts` counts, and no other send of it comes
(`OneSends`). `Untouched` says that a row that is not there was never sent, unless
its device is gone, and `Shaped` that the marks of a batch are of different deliveries, so
that each is counted once. TLC checked `CountInv` with two devices and two events, and with
two proposals, before it was proved.

**ModelCallsProofs.** `Past` says, for each stage of an execution, which events and
which report are stored before it may be reached; nothing is ever taken away, so it
holds for any number of overlapping executions, and `GaplessRecord` follows.
`OneAtATime` is the part without overlap: one execution at most is between its first look
and its end, what it is about to tell is in the row, and once it is told nobody works;
`OutcomeIsTrue` is read off it. `RetriesChangeNothing` is an action property: where
nobody is past the first look at an ended run, the only step of an execution is to end.
`AloneIsCurrent` with `Undisturbed` gives `PreferencesCurrent`: what an undisturbed
handler inferred is what the memory still teaches, and it clears before it saves.

## What is only model-checked

Every invariant and every action property of the runs is proved. What is left to TLC:

- Liveness under fairness: `OrdersConverge`, `PositionConverges`,
  `CancellingResolves`, `EffectsComplete`, `FailedIsRetried`, `ReceiptSettles`,
  `RequestsEnd` and `DispatchedRunsEnd`. The proof system does not reach it.
- The two disagreements above, which are counterexamples.

## What is not modelled

- The allocation policy (`portfolio/policy.py`), which no other code of the backend
  calls, and the comparisons of the promotion assessment: pure functions.
- Scanner, sessions and indicators: arithmetic over candles without state. Of a signal
  only its levels are modelled.
- The agents and the checks of what they answer, and the gathering of evidence: a
  choice, or a failure.
- Generated policies (`users/personalization.py`): they change wording and ranking, and
  no limit. Two generations that overlap may leave the policy of the older profile.
- Skills and the curriculum: stateful, and next in the plan.
- Of the Bybit client the signatures, the shapes of payloads, the executions and
  the public market data; the macro calendar, identity, encryption, routes and
  wiring. They keep nothing. What Bybit and Expo may answer is the environment of
  the modules that call them.
- Migrations and the mobile application. The constraints that migrations create
  are guards where they matter; the application's taps are calls that may come at
  any time.

`PROJECT.json` says for each modelled component what of it is left out.

## Plan

1. A clock in `MarketAnalysis`, for the age of the positions an offer is made
   against (`investment/pipeline.py:393`), and the sizing of two offers in turn
   against one balance (`investment/pipeline.py:600`).
2. The history of which reading completed an action in `ExecutionActions`, so that
   the closing of one position cannot complete the close of the next unnoticed
   (`execution/store.py:828`).
3. `OrderExecution` composed with `BrokerConnections`: an account that is left and
   returned to while its orders work (`brokers/store.py:337`).
4. Skills in `StrategyGovernance`, and several versions at a time, where a newer
   candidate hides the approved version before it from `approved()`.
5. Tokens in `Notifications`, for the receipt of an old token
   (`notifications/store.py:229`).
6. Proofs: the safety side of the liveness properties, that whoever waits has a
   process whose step would serve it, for any number of requests and workers.
