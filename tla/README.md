# SorobanPay: TLA+ models, runs and proofs

SorobanPay collects recurring payments on Stellar. Subscribers sign up with a
Soroban contract, merchants collect from them when a payment is due, and a
Node.js backend watches the contract, triggers collections and notifies
merchants. This directory holds TLA+ models of the parts that carry its
correctness, the TLC configurations that check them, TLAPS proofs of the results
that matter most, and `PROJECT.json`, which ties every definition to the lines
it models.

Paths below are relative to `src/`: `lib.rs` is
`contracts/subscription/src/lib.rs`, backend files are under `backend/src/`, and
those of section 2.9 under `frontend/src/`.

## 1. The system

### 1.1 Components

| Component | State | Operations | Modelled by |
|---|---|---|---|
| Subscription contract (`lib.rs`, `storage.rs`) | subscription records, merchant index and roster, admin configuration, protocol fee, execution markers | initialise, migrate, configure; subscribe, update, pause, resume, cancel, transfer; collect one payment or a batch | `SubscriptionProtocol` |
| Payment execution (`services/executePaymentHelper.ts`, `services/idempotencyService.ts`) | table `PaymentIdempotency`, calls in flight | check the key, simulate, send, poll, record the outcome | `PaymentExecution` |
| Webhook worker (`workers/webhook.ts`) | table `webhook_deliveries`, a timer per process | start, stop, poll, enqueue, attempt | `WebhookWorker` |
| Webhook queue (`services/webhookQueue.ts`) | jobs, dead letters | enqueue, deliver, replay | `WebhookQueue` |
| Event indexer, outbox relay (`services/eventIndexer.ts`, `services/indexerStateService.ts`, `services/subscriptionStateService.ts`, `lib/subscriptionStateMachine.ts`) | cursor and ledger, tables `Event`, `OutboxEvent`, `Subscription`, `Payment` | poll, fetch a batch, store an event, apply the state machine, relay side effects | `EventIndexer` |
| Indexer service (`services/indexer.ts`) | cursor, tables `subscriptions`, `payments`, a timer | start, stop, poll page by page | `IndexerService` |
| Retry queue (`services/retryQueue.ts`) | table `payment_retries`, BullMQ jobs | schedule, cancel, run | `RetryQueue` |
| RPC pool (`rpc/rpcPool.ts`) | circuit of each endpoint, round-robin pointer | request with fail-over, health report | `RpcPool` |
| Wallet session, subscription form (`context/WalletContext.tsx`, `lib/wallet_manager.ts`, `components/SubscriptionForm.tsx`, `lib/transaction_builder.ts`) | connected key, cached key, calls and submissions in flight | connect, disconnect, restore; submit, abort | `WalletSession` |
| Payment scheduler, retry scheduler, reconciler, notifier, authentication, notifications, reports, audit, HTTP and GraphQL interface, rest of the frontend, example contract | - | - | not modelled, see section 6 |

### 1.2 How they interact

The contract is the only place where money moves; every transaction is atomic
and they run one after the other. The backend reaches it through an RPC server:
`submitExecutePayment` simulates, sends and polls, and the three may be separated
by other callers' transactions. The payment scheduler and the retry scheduler
both call it. Two indexers, independent of each other, read the contract's events
into the database; the relay of one of them is to run side effects and hand failed
payments to the retry queue, and merchants are notified by the webhook
components. The page builds a subscriber's transactions and has the Freighter
extension sign them. Nothing in backend or page can make the contract charge; they
can only ask.

### 1.3 What is hard about it

- **Schedule.** `next_payment` is written by five entry points from three
  different bases (now, now at resumption, the old value). A single collection
  and a batch share it but check different things.
- **Rollback.** A trap in the middle of a batch undoes collections already made;
  an error returned by `execute_payment` undoes writes made before it.
- **Index.** The merchant index is a vector with possible duplicates that three
  entry points keep in step with the records.
- **Unreliable network.** A send may succeed with its answer lost, a transaction
  may land after the helper gave up, and a retry may overlap with all that.
- **Check, then act.** Idempotency keys, delivery rows and queue jobs are read,
  something is awaited, and they are written back without a condition.
- **Crashes.** The webhook worker dies between INSERT, POST and UPDATE, an indexer
  inside a page, the relay between side effect and mark, and whoever schedules or
  cancels a retry between the table and the queue.
- **Overlap.** Polls, relay passes, requests and calls to the extension are not
  waited for by whoever starts the next one, and late answers arrive after the
  state they belong to is gone.
- **Progress.** A delivery must be settled once its endpoint is up; a call must
  return although its transaction never confirms; every event must be stored
  although a request returns a limited number; a circuit must close again.

`PROJECT.json` lists these as hazards, line by line, with the properties that
cover each one.

## 2. Modules

| Module | Content |
|---|---|
| `SubscriptionProtocol` | the contract, its properties, its inductive invariant |
| `RecurringPayment` | the abstract specification of what the contract promises |
| `MCSubscriptionProtocol` | model values, signer sets and symmetry for its runs |
| `SubscriptionProtocolProofs` | its theorems, and that it implements `RecurringPayment` |
| `PaymentExecution`, `PaymentExecutionProofs` | the helper and the idempotency table, with network and contract as environment |
| `WebhookWorker` | the replicated worker over one table |
| `WebhookQueue` | the in-process queue with dead letters |
| `WebhookProofs` | the theorems of both webhook components |
| `EventMirror` | the abstract specification of what an indexer promises |
| `EventIndexer`, `EventIndexerProofs` | indexing tasks, the state machine and the outbox relay over one database, and that they implement `EventMirror` |
| `IndexerService`, `IndexerServiceProofs` | the second indexer, with overlapping polls, and that it implements `EventMirror` |
| `RetryQueue`, `MCRetryQueue`, `RetryQueueProofs` | retries in table and queue; symmetry of its run |
| `RpcPool`, `RpcPoolProofs` | round robin and circuit breaker under overlapping requests |
| `WalletSession`, `WalletSessionProofs` | the page's session and submissions |

A definition whose name extends that of another (`resume_unchecked`,
`index_remove_first`, `not_confirmed_polls_on`, ...) is a faulty version of
it. No specification uses one; each shows that some property would notice that
bug.

### 2.1 SubscriptionProtocol

One action per entry point that changes storage. An error or a trap rolls a
Soroban transaction back, so failing calls are stuttering steps and an action is
enabled exactly when its entry point returns `Ok`. `subscribe_error` and
`execute_payment_error` spell the early returns out, in the code's order.

`batch_execute_payment` is a loop whose late trap undoes earlier iterations. It
is `batch_begin`, then one of `batch_skip`, `batch_overdue`, `batch_collect` and
`batch_abort` per iteration, with the storage of its start kept in `batch`.
Nothing else runs meanwhile (`Idle`).

Data are abstracted as follows. The sha-256 key of a pair is the pair. The index
is a multiset of keys: only membership and removal of all copies depend on it.
The roster is a set, because `roster_add` looks for duplicates. `now`, nonces and
balances keep their widths as `U64_MAX`, `U32_MAX` and `I128_MAX`; the release
profile traps on overflow (`contracts/subscription/Cargo.toml:27`). `grace_period`
is stored and never read. Events, time-to-live extensions and queries are left out.

The environment is the ledger clock, the token (approvals and any other movement
of funds), the expiry of temporary storage, and the set of addresses that sign a
transaction. `token.transfer(subscriber, ...)` traps unless the subscriber signed
as well (`.kiro/specs/soroban-pay/design.md:1184`), which is one way a batch aborts.

`Init` is a fresh deployment or one upgraded from the previous schema, as
`test_upgrade.rs:108` sets it up.

At this commit the crate does not compile: `execute_payment` lacks its closing
lines, `update_subscription` builds its key in another shape (`lib.rs:613`), and
`has_execution_marker`, `write_execution_marker`, `ProtocolFeeConfig`,
`AdminConfig`, the roster key and the field `payment_nonce` are used and not
declared. The model follows the code as written and takes the undeclared helpers
from how they are used; those definitions are marked external in the map.

### 2.2 PaymentExecution

A call goes through `check`, `account`, `simulate`, `send`, `poll`, `record` and
`done`: its awaits, in the code's order. The pause before each poll is part of
that poll. `settle` ends in `record` when the call has a key; `record_outcome`
is the awaited upsert, whose failure is ignored.

The network holds a transaction as submitted, successful or failed. A send may fail
with the transaction submitted; a poll may not see a transaction that is already in a
ledger; one that is never included stays submitted. `include` is the contract as the
helper meets it: whatever the simulation said, it may collect or refuse by the time the
transaction lands. Which of the two is the contract's decision and the subject of
`SubscriptionProtocol`, so nothing here claims that a payment is made once only. The
helper passes two arguments where the contract takes three and needs the merchant's
authorisation; the model follows what the helper is written for. `overlaps` is history:
with which calls of the same key a call was under way together.

The status `pending` of a key is declared and never written, so it is left out.

### 2.3 WebhookWorker

An activation is one asynchronous run of `processQueue` or `enqueue`; the SELECT,
the POST and the UPDATE of an activation are separate steps. A delay is a state
of the row (waiting, then due) and not a number. `crash` removes a process's
activations and leaves the table. `index.ts` starts no `WebhookWorker`; the model
is of the class as it is meant to be deployed, once per process.

### 2.4 WebhookQueue

`deliver` ends at its await with a copy of the job in `calls`; `deliver_succeeds`
and `deliver_fails` store that copy over whatever the job is by then. `enqueue` of
the source is `enqueue_job`, and the parts of the specification are `QueueInit`,
`QueueNext`, `QueueSpec` and `QueueTypeOK`: no name is one of `WebhookWorker`'s, so
that one proof module can speak of both. `posts` counts the requests since a job was enqueued
or last replayed; `late` and `disturbed` are history: the calls from before a replay, and the
jobs over which such a call has stored its copy.

### 2.5 RecurringPayment

Per pair of subscriber and merchant there is at most one mandate: terms, due time
and the number of payments made. It can be agreed on, amended, postponed, revoked,
moved to another merchant, and collected. A collection is one atomic step over any
set of due mandates of one merchant, and makes each due an interval later.
Signatures, funds, fees, pauses and errors are not part of the promise, so the
specification is far smaller than the contract.

`SubscriptionProtocol` implements it under this mapping: the clock is `now`, and
the mandates are those of the *committed* records, which while a batch runs are
the ones of its start. A batch is therefore invisible until its last iteration
commits all of its collections at once, and an aborted one never happened.

### 2.6 EventIndexer

A task is a polling loop (`startPolling`) or one call of `fetchAndStoreEvents`,
which cron makes without waiting for the last one. Each await is a step: cursor,
ledger, request, `findFirst`, the transaction of event and outbox entry, the two
statements of `applyEvent`, the payment row, `saveState`. `withBackoff` repeats a
batch with the cursor it has read. An error inside `processEvent` is swallowed and
the event recorded in the history variable `skipped`. The `return` inside the
span of `findFirst` does not leave `processEvent` (`eventIndexer.ts:320`), so a
duplicate still goes through the state machine.

`stopPolling` knows only the timer that was set last; an older loop's timer
("loose") fires and stops only if the indexer is still stopped by then. The relay
has the same shape. Only `subscribe` and `executed` events get outbox entries
(`eventIndexer.ts:40`), so the relay's other branches are unreachable and left out.

Checkpoints, `clearState` and the cache of processed ids of
`indexerStateService.ts` are not modelled: the indexer does not use them.

### 2.7 IndexerService

One object can have several polls in flight, because `stop()` does not wait. A
page is its first and last position; events are persisted one transaction each,
and the cursor is stored after the page. `overlapped` is history: whether a
`start()` found a poll in flight.

`EventMirror` is what both indexers promise: a log, the set of its events whose
traces are in the tables, and a cursor. Events are handled in any order and any number
of times, what is handled stays so, and the cursor is stored, ahead or back, only where
every event behind it is handled. `IndexerService` implements it with `RecordedEvents`
and its cursor, `EventIndexer` with `HandledEvents` and `state.cursor`; an event whose
error `processEvent` swallowed counts as handled there, because the code gives it up.

### 2.8 RetryQueue and RpcPool

`RetryQueue` has a row per retry and at most one BullMQ job per row. Scheduling is
INSERT, `queue.add`, UPDATE of the job id; cancelling is a loop of remove and
UPDATE over rows read before. `processRetryJob` contains the same loop. A delayed
job may start at any time. A crash makes BullMQ run an active job again, once.
`unlinked` and `lost` are history variables: rows cancelled without removing
their job, and rows a fault separated from theirs.

`RpcPool` keeps the age of the last failure instead of a time. A request is
suspended in `sendRequest` and answered by an endpoint that was up when it was
sent or is up now, so late successes and late failures both occur. `steady` is
history: the endpoints that have been healthy ever since the request began.

### 2.9 WalletSession

A step lies between two awaits, together with the effects React then runs
(`session_effect`, `wallet_changed`). `connect` is detection, access and address;
`buildSignAndSubmitSubscribe` is account, simulation, signature and send, with the
abort signal checked between them. The extension may vanish or switch accounts at
any time, and the page may be reloaded, which keeps `sessionStorage`. The counter
`sessionActionRef` is represented by the call that set it. Form fields, the
allowance check, the cancellation dialogue and the poller's own loop are left out;
the poller is its callbacks (`confirmed`).

## 3. Runs

| Run | Question | Properties | Result |
|---|---|---|---|
| `collection` | Is a subscription ever due, or charged, too early or for another amount? | `TypeOK`, `ScheduledAfterAnchor`, `ChargeSpacing`, `DebitIsAmount` | never, over every order of operations on one pair, with fees, roundings and equal parties |
| `index` | Do index and records agree, is every change of terms signed, and is it what a mandate allows? | `IndexMatchesSubscriptions`, `SubscriberConsent`, `KeepsPromise` | yes, with re-subscriptions, transfers and collections, and a subscriber that tries to subscribe to itself |
| `batch` | Do the invariants and the promise survive a batch and its rollback, and whose tokens does it take? | `IndInv`, `KeepsPromise`, `SubscriberConsent` | yes, and only those of the subscribers it charges, with duplicates, missing funds and aborts |
| `execution` | What can a retried, overlapping, unconfirmed call cause? | `TypeOK`, `ReportedPaymentsHappened`, `SuccessIsRemembered`, `EveryCallReturns` | a reported payment was made, for the caller's pair unless calls overlapped; a recorded success is answered from the table; every call returns |
| `worker_replicas` | Is every delivery settled? | `DeliveredMeansAccepted`, `EventuallySettled` | yes, once the endpoints stay up, although a page is too short for all |
| `queue` | What do overlapping calls do to a job? | `NotGivenUpEarly`, `DeadLettersAreReplayable`, `DeliveredLeftOnlyByLateAnswers` | a job is given up only after a full fresh set of requests, unless a call from before its replay interferes; dead letters stay replayable |
| `indexer_service` | Is an event lost, and does the mirror settle? | `RecordedBehindCursor`, `CaughtUpMirrors`, `ImplementsMirror`, `MirrorsTheContract` | none is lost; caught up means mirrored, and it settles, unless two polls overlapped |
| `event_indexer` | What do crashes, errors and overlapping tasks do to the tables? | `HandledBehindCursor`, `DuplicatesBounded`, `ImplementsMirror`, `EventuallyHandled` | only swallowed errors lose an event; duplicates need overlap; a loop that stays up handles everything |
| `outbox` | Is an entry published without its side effects, or stuck? | `PublishedWasDispatched`, `OutboxDrains` | neither, while a relay stays up; one whose dispatch failed ends as failed and is not tried again |
| `retries` | Do table and queue stay in step? | `PendingBounded`, `CancelledJobsAreGone`, `PendingIsDriven` | yes, up to the named exceptions |
| `rpc_pool` | Does fail-over find a healthy endpoint, and do circuits close? | `BreakerMatchesCount`, `NoneOverlooked`, `EventuallyHealthy` | yes, under overlapping requests and late answers |
| `wallet` | Can a late answer undo what the user did? | `DisconnectSticks`, `SpinnersHaveWork`, `LiveSubmissionIsCurrent`, `SendsForTheSession`, `FailedConnectIsShown` | no |

All runs pass. The type invariants of all modules but the contract's and the payment
execution's are proved and need no run. Statements of the repository that its code does not satisfy are
listed in section 5, with what the properties leave out because of them.

### 3.1 Bounds, and why they are enough

- `collection`: one pair, a clock of 5 values, intervals 1 and 2 with the invalid 0
  and 3 beside them. A collection at time t needs t + interval within the clock,
  so it admits a subscription, a pause, a resumption and two collections, and
  reaches the overflow of each sum. The pair's state does not depend on other
  pairs, except in batches. Amounts 19 and 40 at 500 of 10,000 basis points: the
  fee is rounded to 0, and is exact; a rate of 501 is refused. The collector ranges
  over every address.
- `index`: one subscriber, two merchants and the subscriber itself as a third, up to two
  copies of a key, a clock of 4 values and funds for one payment at a time: a collection
  can precede or follow a transfer. A third copy adds nothing to "all copies are removed".
- `batch`: two subscribers, lists of up to two entries and the invalid ones of
  none and three. The same subscriber twice, a collection followed by an abort,
  and two collections are all reached. The subscribers are symmetric there: no
  liveness is checked.
- `execution`: three requests, one key, two payloads, one poll. Three calls are what it
  takes for a call to be answered from a row that two overlapping others have written,
  with the pair of one and the transaction of the other. Late inclusion, lost answers and
  calls without a key all happen. Its safety results are proved for every number of
  requests, keys, payloads and polls.
- `worker_replicas`: two replicas, three rows, pages of two, one crash, stop or query error
  and one outage or lost answer. A row is left out of a page while older ones fail.
- `queue`: one job, three overlapping calls, three attempts, any number of requests and
  replays: enough for a dead letter, a replay, and calls left over from before it. Jobs do
  not share state; the results are proved for every number of jobs, calls and attempts.
- `indexer_service`: a log of three events of any type, pages of two, two polls,
  two faults: a full page, a short page, a replay after a crash, and an old cursor
  stored over a newer one all happen. Its safety results are proved for every
  number of polls and every page size.
- `event_indexer`: two tasks, two events that may be equal, batches of one, one
  retry, one fault. `outbox`: one task, two relays, two entries, one fault. The
  two runs share a module; together they would multiply. Their safety results are
  proved for every number of tasks, relays, events, retries and faults.
- `retries`: two overlapping callers (symmetric, no liveness), one cancellation,
  two attempts, three rows, one job at a time, one fault. Three rows admit one full set and the
  beginning of a second, which is all an overlap needs. All its results are proved
  for every number of callers, cancellations, attempts, rows and faults.
- `rpc_pool`: two endpoints, two requests, threshold and timeout 2. The safety
  results are proved for every size.
- `wallet`: two accounts, two connects, two submissions; unbounded otherwise. All
  its results are proved for every number.

`MAX_COPIES`, `MAX_CRASHES` and `MAX_OUTAGES` are bounds of the models and have no
counterpart in the code, and so are `MAX_EVENTS`, `MAX_FAULTS` and `MAX_ROWS`.
`execution`, `queue` and `retries` may
stop: their requests, or rows, are used up.

### 3.2 Fairness

- `PaymentExecution`: weak fairness of each call's next step. Every await there
  is a request to the RPC server or the database, or a timer, and settles. Nothing is assumed of the network: a
  transaction may stay submitted for ever.
- `WebhookWorker`: weak fairness of each activation (pending promises, timers;
  `httpPost` has a timeout), of each retry time, and of starting a dead process
  again (`restart: unless-stopped`, `docker-compose.yml:30`). Nothing is assumed
  of endpoints beyond the property's own premise that one stays up.
- `IndexerService`, `EventIndexer`: weak fairness of every poll, task and relay in
  flight: its awaits settle and its timers fire. Nothing forces a start, a restart
  or an event; the properties are about a service that is left running.
- `RpcPool`: time passes, and an HTTP request is answered or times out
  (`requestTimeoutMs`). That calls keep coming is a premise of the property.
- The contract, the webhook queue, the retry queue and the page act only when
  called: no fairness, no liveness.

## 4. Proofs

All theorems hold for every value of the constants that satisfies the named
assumptions: limits are naturals in the order the code has them (`0 <
MAX_AMOUNT <= I128_MAX`, `MAX_FEE_BPS <= 10000`, `MIN_INTERVAL > 0`), inputs have
their declared types, and `None` is none of the values it is an alternative to.

**SubscriptionProtocolProofs.** `TypeCorrect` is inductive alone: every checked
sum and the trap on overflow keep amounts, due times, nonces and balances within
their widths. `Invariance` proves `IndInv`:

- `IndexMatchesSubscriptions`: the index holds a pair's key exactly when the
  record exists. `index_remove` must drop all copies; with one copy only, a
  re-subscription followed by a cancellation breaks it.
- `ScheduledAfterAnchor`: `next_payment` is at least `MIN_INTERVAL` after the last
  subscription, resumption or charge (`anchor`, a history variable).
- `BatchSnapshot`: what an abort would put back satisfies the same two facts.
  Without it `batch_abort` could restore anything, and neither is inductive.

`IndexCorrect` and `ScheduleCorrect` follow. `ChargeSpacingHolds` is an action
property: only `execute_payment` and `batch_collect` increment a nonce
(`ChargedIsDue`; a rollback never does, by the nonces in `BatchSnapshot`), both
require the payment to be due, and `ScheduledAfterAnchor` turns that into the
minimum spacing. `ConsentHolds` has two parts. What was agreed (existence, token, amount,
interval, and a hold that has not run out) changes only in entry points that require the
subscriber's authorisation. And `pay` lowers no balance but the payer's
(`PayLowersOnlyPayer`), in a step that counts the payment on a record of that payer
(`CollectionCounts`). It does not say who has to sign a collection: see section 5.

`DebitHolds` follows a charge to the balances. `ChargedIsDue` also says that a charge is
paid by the two transfers of `pay`; `PayMoves` says what these leave in the accounts of
payer, merchant and collector, whichever of them coincide; `FeeIsBounded` that the
quotient, rounded down, is at most `MAX_FEE_BPS` of the amount. It needs one more
invariant, `NotToSelf`: nobody is subscribed to itself, not even in the snapshot of a
batch. Without the two checks behind it (`lib.rs:513` and `:1146`) such a payer would be
debited the fee only, and the split would not hold.

*The promise.* `Refinement`: `Spec => KeepsPromise`, the abstract
specification under the mapping of 2.5. Every entry point is one abstract step or
a stutter. A batch needs an invariant of its own, `BatchProgress`: in the middle of
a batch each pair has either the mandate of the batch's start, or was due then,
belongs to the batch's merchant and has been collected exactly once. That makes the
last iteration one atomic collection over the set of pairs that were paid, and a
second visit of the same pair a skip, because a paid record is not due.

**PaymentExecutionProofs.** One invariant for `ReportsCorrect` and `SuccessRemembered`.
`CallsConsistent`: a call has nothing on the network before it sends, and an outcome when
it records. `RowsExplained`: a row with a
transaction names a successful one of a call with that key, and the row's pair is that
call's or of a call that overlapped with it. `RowsMeetCalls`: a call past its check that
finds a success recorded under its key overlapped with the call that succeeded, because
its check came before the record; and the row's pair is its own or that of a call it
overlapped with. `OverlapsKnown`: two calls with one key that are under way have met. The
exceptions the two properties name are therefore calls between whose check and record
another one's record can fall.

**WebhookProofs.** For the queue, `NotGivenUpEarlyHolds` needs that the count of a job, unless
a late call has disturbed it (`JobsCountPosts`), and of a copy held across an await, unless
it is from before a replay (`CopiesCountPosts`), is at most the number of requests sent since
the job was enqueued or last replayed; then storing the copy is harmless for the count.
`ReplayableHolds` needs in addition that no step ever
removes a dead letter. `LateAnswersHold` is about a single step: the only writes that
can take a job out of `delivered` are those of a call in flight, which ends with it.

For the worker, `TypeCorrect` and `DeliveredHolds`, for every number of
replicas, rows and attempts. The invariant adds `Answered`: an activation that holds
a 2xx answer holds it for a row whose endpoint accepted a request.

**WalletSessionProofs.** One invariant with two halves. `SubmitInv`: only the latest
submission can be unaborted, it belongs to the connected key, and a spinner of the
form stands for it. `SessionInv`: a spinner of the connection stands for the last
connect, which is under way; after a disconnect the last action is no connect, so
every call still under way counts as overtaken. `DisconnectHolds`, `SpinnersHold` and
`LiveSubmissionHolds` follow, and `SendsHold` for the step that sends. `FailedConnectHolds`
adds that an error which the last connect has set is left alone by every write of an
overtaken call, of the restoration and of the effect, which clears it only with a key.

**RpcPoolProofs.** `BreakerHolds` is a fact about each endpoint that
`recordSuccess`, `recordFailure` and the recovery preserve. `NoneOverlookedHolds`
needs two more: the endpoints a request has seen healthy throughout (`steady`) are
healthy now, and the loop of a waiting request has tried every one of them among
the offsets it has passed (`LoopOK`). When the loop ends it has passed all
offsets, and these reach every endpoint (`Visits`, from arithmetic modulo the size
of the pool). That the next offset tried exists is `LeastExists`, by well-foundedness
of the naturals.

**EventIndexerProofs.** `HandledBehindCursorHolds` is the point, and the
cursor alone is not inductive: a task that stores its cursor last may be the one that
read first. `TasksOK` says of every task that everything up to the cursor it has read,
and everything of its batch before the event in hand, is handled, and which of the
writes for that event are done; `StateOK` says so of the stored cursor, and of the
stored ledger that it is the ledger of an event up to which all is handled
(`LedgerOK`), which is what makes a restart by ledger safe; `ChainOK` that ledgers
never go back. Nothing that is handled is taken back (`Grows`), so these facts
survive the steps of all others. `DuplicatesBoundedHolds` counts, with the copies of an
event, the tasks that have not found it and are about to store it (`CopiesOK`).
`PublishedWasDispatchedHolds` needs that a relay about to publish has dispatched.
`MirrorRefinement` puts these together: every step is one of `EventMirror`'s or
stutters. `Grows` is its `Handle`, `TasksOK` for a task about to store its cursor the
guard of its `Acknowledge`. A new event may be handled from the start, when one of the
same contents was stored before or its type is not stored at all.

**IndexerServiceProofs.** `RecordedBehindCursorHolds` needs that every poll in flight has
recorded what lies behind its cursor and its place in the page (`PollOK`); then the order
in which overlapping polls store their cursors does not matter, and `MirrorRefinement`
follows as above.

`CaughtUpMirrorsHolds` is about statuses, and the cursor says nothing of those while pages
are replayed: an old event is applied to a row that is newer. `MirrorInv` states what
replaying preserves. `Alone`: unless polls overlapped, at most one poll is at work.
`InStep`: its page begins at the stored cursor. `StatusOK`, at the cursor and at the poll's place in its page: a row has the status that
some prefix of the log at least as long gives it, or a `subscribe` event of its pair, which
decides it alone, is still to be applied again. At the end of the log neither a longer
prefix nor another event is left, and the status is that of the whole log. Without
overlap no second poll can apply an older event behind the first one's back, which is the
one way this fails.

**RetryQueueProofs.** One invariant for four theorems. `CallsOK`: a call adds the job of a
row that is its own alone and has no job id yet. `LoopsOK`: a loop about to mark a row
cancelled has removed its job, or found it run, or has put the row into `unlinked`; the job
ids it read are still there. `JobsOK`: a running job that has begun to cancel the others is
no longer pending itself. `CancelledJobsHold` follows from `CancelledOK`: the job of a
cancelled row outside `unlinked` was added and is gone. `PendingDrivenHolds` is inductive
with these: whoever takes the job from a pending row is the activity that will mark the
row, or a fault that puts it into `lost`. `PendingBoundedHolds` is not, because a call
passes its check once and inserts later: `Counted` adds to the pending rows of an attempt
the calls that have yet to insert it, and a call enters the count only where no row is
pending.

Only model-checked: liveness (`EveryCallReturns`, `EventuallySettled`,
`MirrorsTheContract`, `EventuallyHandled`, `OutboxDrains`, `EventuallyHealthy`), which
is out of the prover's reach, as is `ENABLED`. Every other property of a run is also a
theorem. No module declares a RECURSIVE operator, and no result rests on induction over
data.

## 5. Observations made while modelling

Statements of the repository that the code does not satisfy. Each can be read off the
modelled actions. Where a property is about the same case it is stated so that it holds of
the code, and the exception is named here.

- "While paused ... the subscriber is not charged" (`lib.rs:669`): a batch looks at
  `next_payment` and not at `is_paused` (`lib.rs:986`), so it charges a paused
  subscription. No property is about that.
- "the next call to `execute_payment` at or after this time automatically clears the
  pause" (`lib.rs:674`): that call moves `next_payment` ahead of now (`lib.rs:843`), is
  then refused as not due, and the error undoes the clearing. The pause stays. The tests
  say the opposite: "execute_payment must succeed after passing paused_until"
  (`contracts/subscription/src/pause_resume_tests.rs:186`), "subscriber balance must
  decrease after auto-resumed payment" (`:192`) and "is_paused must be false after
  auto-resume" (`:216`). By the code as written all three fail; the crate does not compile
  at this commit, so they cannot have run. No property claims either behaviour.
- "The subscriber does not need to be online to approve each individual collection" and
  the allowance is the subscriber's authorisation (`docs/security.md:121`): the contract
  calls `token.transfer` from the subscriber and not `transfer_from` (`lib.rs:897`), which
  needs the subscriber's own authorisation in every collection. The model has that as a
  reason for the transfer to trap; `SubscriberConsent` does not claim a signature at
  collection, and says only that tokens leave by charging.
- The execution marker is to stop duplicates in one ledger (`lib.rs:859`). It is
  written under the nonce the next payment will have (`lib.rs:922`), so it refuses the
  next period's payment until it expires.
- "Retry with same key & parameters: returns cached txHash"
  (`executePaymentHelper.ts:54`): after a send whose answer was lost, or a timeout, the
  key is recorded as failed (`executePaymentHelper.ts:174`) and the retry executes again.
- "return cached result if (subscriber, merchant, token, amount) match"
  (`idempotencyService.ts:11`): not when calls with one key overlap. Call 1 for pair A and
  call 2 for pair B both find no row; 1 fails and writes the row with pair A; 2 succeeds, and
  its upsert keeps pair A and stores its own hash (`idempotencyService.ts:230`). A third
  call for A is told of a payment that A never made. `ReportedPaymentsHappened` names this
  exception: the cached transaction is of a call for the caller's pair, or of one that
  overlapped with such a call.
- A failure recorded after the success of an overlapping call with the same key turns the
  row to failed (`idempotencyService.ts:290`), and the next retry pays again.
  `SuccessIsRemembered` excepts calls that overlapped.
- "3 attempts at delays 1s / 10s / 60s" (`workers/webhook.ts:11`): the poll passes the
  stored attempt on unchanged (`workers/webhook.ts:141`), so it stays 1, no row becomes
  `dead`, and a delivery is retried for ever. `EventuallySettled` would accept either, and
  is about endpoints that are up.
- "The job's attempt counter is reset to 0 so it gets a full fresh set of MAX_ATTEMPTS
  retries" (`webhookQueue.ts:380`): a call in flight while the job is dead-lettered and
  replayed stores its old copy over the replayed job (`webhookQueue.ts:328`), which may
  dead-letter it again without a fresh request. `NotGivenUpEarly` excepts that job.
- "True when the active wallet session is no longer valid because Freighter is unavailable"
  (`WalletContext.tsx:69`): a second `connect()` clears `sessionInvalid` and the error
  (`:156`); if it finds the extension still missing, key and detection are unchanged, the
  effect (`:92`) does not run again, and `sessionInvalid` stays false with a key and no
  extension. The error it sets is not shown either, because the page renders it only
  without a key (`app/page.tsx:127`). `FailedConnectIsShown` is about the page without one.

Other behaviours seen in the contract and the payment and webhook components:

- A failed single collection writes `overdue_since` (`lib.rs:881`) and returns an
  error, which undoes the write; only a batch can mark a record overdue.
- `update_subscription` checks the amount against the compiled-in limit and not
  the admin's (`lib.rs:620`).
- A re-subscription adds a second copy of the key to the index (`lib.rs:99`).
- A transfer moves the index entry but leaves both rosters alone (`lib.rs:1176`).
- The nonce restarts at 0 on re-subscription (`lib.rs:556`), while `events.rs:202`
  calls it unique for an execution.
- A resumption keeps `overdue_since` (`lib.rs:773`).
- Rows that keep failing fill the page of 50 and starve younger ones for as long as their
  endpoint is down (`workers/webhook.ts:133`).
- `replayCount` starts at 0 with every new dead letter (`webhookQueue.ts:334`).

In the indexers, retries, pool and page:

- Only `subscribe` and `executed` events are stored (`eventIndexer.ts:40`). The
  relay's branches for `cancel` and `payment_transfer_failure`, and with them the only
  call of `enqueueRetries` in the relay, never run, and the indexer's
  `Subscription.status` never leaves `ACTIVE`.
- `index.ts:146` and `:211` call `fetchAndStoreEvents`, which passes no cursor and so
  sees the first 100 events at every call; `startPolling` and `startRelay` have no
  caller there. `EventuallyHandled` and `OutboxDrains` are about the loops.
- An error inside `processEvent` is swallowed and loses the event
  (`eventIndexer.ts:398`), and a failed outbox entry is never taken up again (`:531`).
- Two overlapping polls of `IndexerService` can leave a stale status for good: the
  slower one writes an older event after the faster one has moved the cursor on.
- `processRetryJob` does not look at the row's status (`retryQueue.ts:230`): a job that
  runs while its retries are cancelled marks its row succeeded.
- `retryScheduler.ts:19` imports names `retryQueue.ts` does not export.
- No other code uses `RpcConnectionPool`.
- `signTx` can check the signing account (`wallet_manager.ts:141`), but no caller
  passes it; after an account switch in the extension the old account's transaction
  is offered for signature. An abort after the send does not stop the transaction.
- A failed connect clears the key in memory and leaves the cached one
  (`WalletContext.tsx:182`), which the next reload restores. A timeout of the
  confirmation leaves `isConfirming` set (`SubscriptionForm.tsx:1545`).

## 6. Not modelled

- Read-only or reporting parts: reconciler, analytics, reports, metrics, audit.
- Input and output to outside services: e-mail, SMS, push, KYC, webhook signatures.
- Sequential request handling: routes, GraphQL resolvers, authentication.
- Most of the user interface: forms, wizards, lists and dialogues hold no state that
  outlives a call, apart from the session and submissions of `WalletSession`.
- Generated code (`backend/src/generated`), deployment and start-up code, the example
  operator contract.
- The payment scheduler: a loop over `submitExecutePayment`, which is modelled; which
  pairs it picks is a heuristic over stored events. The retry scheduler: it depends on
  names that do not exist. Event deduplication and the checkpoints of
  `indexerStateService.ts`: nothing modelled uses them.
- Within the contract: events, storage time-to-live and archival, queries. Within the
  retry queue: the length of the delays, and closing the worker.

The parts above are most of the repository's lines and little of its state: the map
therefore covers a small share of the implementation.

## 7. Plan

Done: the contract and the mandate it implements, payment execution, the two webhook
components, both indexers and the mirror they implement, the outbox relay, the retry
queue, the RPC pool and the wallet session; theorems for the safety of all of them. Left, in order of importance:

1. Composition of `PaymentExecution` with `SubscriptionProtocol` in place of its
   abstraction `include`.
2. The payment scheduler, once the pairs it picks are specified, and the cancellation
   and allowance parts of the form.
