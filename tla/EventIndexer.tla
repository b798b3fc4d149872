--------------------------- MODULE EventIndexer ---------------------------
(***************************************************************************)
(* backend/src/services/eventIndexer.ts with indexerStateService.ts,       *)
(* subscriptionStateService.ts and lib/backoff.ts: contract events are     *)
(* copied into the Event, OutboxEvent, Subscription and Payment tables,    *)
(* and a relay dispatches the side effects of the outbox.                  *)
(*                                                                         *)
(* Every await is a step.  A task is one asynchronous activity: a polling  *)
(* loop (startPolling) or one call of fetchAndStoreEvents, which cron      *)
(* makes every five minutes without waiting for the last one.  Tasks       *)
(* overlap, and share nothing but the tables.  An event is its position in *)
(* the contract's log, which is also its id and its cursor; two events     *)
(* with equal contents (type, addresses, amount, ledger) are equal         *)
(* records.  Decoding, spans and the audit log are left out.               *)
(***************************************************************************)
EXTENDS Naturals, Sequences, FiniteSets

CONSTANTS
    Pairs,          \* (subscriber, merchant)
    Emitted,        \* the types of the events that the contract emits
    Tasks, Relays,  \* the indexing tasks and relay loops that may overlap
    None,
    LIMIT,          \* events per request, 100 in the code
    MAX_RETRIES,    \* withBackoff, 5 in the code
    MAX_EVENTS,     \* bound: length of the contract's log
    MAX_FAULTS      \* bound: errors and crashes

EventType == {"subscribe", "executed", "payment_transfer_failure", "cancel", "other"}
STORED_EVENT_TYPES == {"subscribe", "executed"}
SubscriptionState == {"ACTIVE", "PAUSED", "OVERDUE", "CANCELLED", "EXPIRED"}

ASSUME BoundsAssumption ==
    /\ LIMIT \in Nat \ {0} /\ MAX_RETRIES \in Nat
    /\ MAX_EVENTS \in Nat /\ MAX_FAULTS \in Nat

ASSUME SetsAssumption ==
    /\ Emitted \subseteq EventType
    /\ IsFiniteSet(Tasks)
    /\ None \notin SubscriptionState \cup {"pending", "published", "failed"}

Ledger == 1..MAX_EVENTS
Event == [type : EventType, pair : Pairs, ledger : Ledger]
Id == 1..MAX_EVENTS

VARIABLES
    chain,       \* the contract's events, oldest first
    state,       \* IndexerState: cursor (0 for null) and ledger
    copies,      \* how many Event rows were created for an event
    outbox,      \* OutboxEvent: status per deduplication key, or None
    status,      \* Subscription.status per pair, or None
    payments,    \* Payment rows by txHash, which is the event id
    stopped,     \* EventIndexer._stopped
    task,        \* the indexing tasks
    relayStopped, relay,
    skipped,     \* history: events an error of processEvent made a task pass
    dispatched,  \* history: outbox entries whose side effects were run
    faults

table_vars == <<state, copies, outbox, status, payments>>
task_vars == <<stopped, task>>
relay_vars == <<relayStopped, relay>>
vars == <<chain, table_vars, task_vars, relay_vars, skipped, dispatched, faults>>

\* A task: where it is ("timer" is the timer that was set last, the only one
\* stopPolling knows, "loose" an older one of another loop), its kind, the
\* cursor and ledger it has read, the retries of withBackoff, the event it
\* handles, the last one of its batch, and the subscription state it has read.
Task == [pc : {"off", "timer", "loose", "cursor", "ledger", "fetch", "check", "store",
               "read", "write", "pay", "save"},
         polling : BOOLEAN, cursor : 0..MAX_EVENTS, ledger : 0..MAX_EVENTS,
         attempt : 0..MAX_RETRIES, event : 0..MAX_EVENTS, last : 0..MAX_EVENTS,
         seen : SubscriptionState \cup {None}]

Idle == [pc |-> "off", polling |-> FALSE, cursor |-> 0, ledger |-> 0,
         attempt |-> 0, event |-> 0, last |-> 0, seen |-> None]

\* A relay loop: the pending entries it has found and not yet handled.  The
\* first of them is the entry in hand.
Relay == [pc : {"off", "timer", "loose", "find", "dispatch", "publish", "fail"},
          todo : SUBSET Id, entry : 0..MAX_EVENTS]

Resting == [pc |-> "off", todo |-> {}, entry |-> 0]

\* Cursor, rows and tasks keep their types: no task works outside its batch
\* and the stored cursor is the position of an event.
TypeOK ==
    /\ chain \in Seq(Event) /\ Len(chain) <= MAX_EVENTS
    /\ state \in [cursor : 0..Len(chain), ledger : 0..MAX_EVENTS]
    /\ copies \in [Id -> Nat]
    /\ outbox \in [Id -> {"pending", "published", "failed", None}]
    /\ status \in [Pairs -> SubscriptionState \cup {None}]
    /\ payments \subseteq Id
    /\ stopped \in BOOLEAN /\ relayStopped \in BOOLEAN
    /\ task \in [Tasks -> Task]
    /\ \A t \in Tasks : task[t].pc \in {"check", "store", "read", "write", "pay"}
                          => task[t].event \in 1..task[t].last
    /\ \A t \in Tasks : task[t].cursor <= Len(chain) /\ task[t].last <= Len(chain)
    /\ relay \in [Relays -> Relay]
    /\ skipped \subseteq Id /\ dispatched \subseteq Id
    /\ faults \in 0..MAX_FAULTS

Init ==
    /\ chain = << >> /\ state = [cursor |-> 0, ledger |-> 0]
    /\ copies = [i \in Id |-> 0] /\ outbox = [i \in Id |-> None]
    /\ status = [p \in Pairs |-> None] /\ payments = {}
    /\ stopped = FALSE /\ task = [t \in Tasks |-> Idle]
    /\ relayStopped = FALSE /\ relay = [r \in Relays |-> Resting]
    /\ skipped = {} /\ dispatched = {} /\ faults = 0

-----------------------------------------------------------------------------
(* The contract, crashes, and the start and end of a task.                 *)

\* The next event is of the last one's ledger or of the next.
emit ==
    /\ Len(chain) < MAX_EVENTS
    /\ \E y \in Emitted, p \in Pairs,
          d \in (IF chain = << >> THEN {1} ELSE {0, 1}) :
         LET l == IF chain = << >> THEN 0 ELSE chain[Len(chain)].ledger
         IN  chain' = Append(chain, [type |-> y, pair |-> p, ledger |-> l + d])
    /\ UNCHANGED <<table_vars, task_vars, relay_vars, skipped, dispatched, faults>>

crash ==
    /\ faults < MAX_FAULTS
    /\ faults' = faults + 1
    /\ stopped' = FALSE /\ task' = [t \in Tasks |-> Idle]
    /\ relayStopped' = FALSE /\ relay' = [r \in Relays |-> Resting]
    /\ UNCHANGED <<chain, table_vars, skipped, dispatched>>

startPolling(t) ==
    /\ task[t].pc = "off"
    /\ stopped' = FALSE
    /\ task' = [task EXCEPT ![t] = [Idle EXCEPT !.pc = "cursor", !.polling = TRUE]]
    /\ UNCHANGED <<chain, table_vars, relay_vars, skipped, dispatched, faults>>

\* The timer set last is cleared; a tick in flight is not waited for.
stopPolling ==
    /\ ~stopped
    /\ stopped' = TRUE
    /\ task' = [t \in Tasks |-> IF task[t].pc = "timer" THEN Idle ELSE task[t]]
    /\ UNCHANGED <<chain, table_vars, relay_vars, skipped, dispatched, faults>>

fetchAndStoreEvents(t) ==
    /\ task[t].pc = "off"
    /\ task' = [task EXCEPT ![t].pc = "fetch"]
    /\ UNCHANGED <<chain, table_vars, stopped, relay_vars, skipped, dispatched, faults>>

\* The end of a tick of the polling loop, or of a call of
\* fetchAndStoreEvents.
ended(t) ==
    IF task[t].polling /\ ~stopped
      THEN [u \in Tasks |->
             IF u = t THEN [Idle EXCEPT !.pc = "timer", !.polling = TRUE]
             ELSE IF task[u].pc = "timer" THEN [task[u] EXCEPT !.pc = "loose"]
             ELSE task[u]]
      ELSE [task EXCEPT ![t] = Idle]

tick(t) ==
    /\ task[t].pc \in {"timer", "loose"}
    /\ task' = IF stopped THEN [task EXCEPT ![t] = Idle]
               ELSE [task EXCEPT ![t].pc = "cursor"]
    /\ UNCHANGED <<chain, table_vars, stopped, relay_vars, skipped, dispatched, faults>>

-----------------------------------------------------------------------------
(* fetchAndStoreEventsWithCursor, _fetchBatch and fetchAndStoreEvents.     *)

getLastCursor(t) ==
    /\ task[t].pc = "cursor"
    /\ task' = [task EXCEPT ![t].pc = "ledger", ![t].cursor = state.cursor]
    /\ UNCHANGED <<chain, table_vars, stopped, relay_vars, skipped, dispatched, faults>>

getLastProcessedLedger(t) ==
    /\ task[t].pc = "ledger"
    /\ task' = [task EXCEPT ![t].pc = "fetch", ![t].ledger = state.ledger]
    /\ UNCHANGED <<chain, table_vars, stopped, relay_vars, skipped, dispatched, faults>>

\* A faulty version: the stored cursor is not used.
requested_after_start(t) ==
    Cardinality({i \in 1..Len(chain) : chain[i].ledger < task[t].ledger})

\* The events before the first one of a request: those up to the cursor, or
\* those of the ledgers before startLedger (1, or the ledger read above).
requested_after(t) ==
    IF task[t].cursor # 0 THEN task[t].cursor
    ELSE Cardinality({i \in 1..Len(chain) : chain[i].ledger < task[t].ledger})

getEvents(t) ==
    LET from == requested_after(t)
        n == Len(chain) - from
    IN
    /\ task[t].pc = "fetch"
    /\ task' = IF n = 0 THEN ended(t)
               ELSE [task EXCEPT ![t].pc = "check", ![t].event = from + 1,
                                 ![t].last = from + (IF n < LIMIT THEN n ELSE LIMIT)]
    /\ UNCHANGED <<chain, table_vars, stopped, relay_vars, skipped, dispatched, faults>>

\* The loop over the batch goes on with the next event.
next_event(t) ==
    IF task[t].event < task[t].last
      THEN [task EXCEPT ![t].pc = "check", ![t].event = @ + 1, ![t].seen = None]
    ELSE IF task[t].polling
      THEN [task EXCEPT ![t].pc = "save", ![t].seen = None]
    ELSE ended(t)

\* saveState(newCursor, newLedger).
saveState(t) ==
    LET l == chain[task[t].last].ledger IN
    /\ task[t].pc = "save"
    /\ state' = [cursor |-> task[t].last,
                 ledger |-> IF l > task[t].ledger THEN l ELSE task[t].ledger]
    /\ task' = ended(t)
    /\ UNCHANGED <<chain, copies, outbox, status, payments, stopped, relay_vars,
                   skipped, dispatched, faults>>

\* An error of the request or of saveState: withBackoff tries the batch again
\* with the cursor it has, or gives up.  Without a polling loop there is no
\* withBackoff.
batch_error(t) ==
    /\ task[t].pc \in {"cursor", "ledger", "fetch", "save"}
    /\ faults < MAX_FAULTS
    /\ faults' = faults + 1
    /\ \/ task' = ended(t)
       \/ /\ task[t].polling /\ task[t].pc \in {"fetch", "save"}
          /\ task[t].attempt < MAX_RETRIES
          /\ task' = [task EXCEPT ![t].pc = "fetch", ![t].attempt = @ + 1]
    /\ UNCHANGED <<chain, table_vars, stopped, relay_vars, skipped, dispatched>>

-----------------------------------------------------------------------------
(* processEvent                                                            *)

exists(e) == \E i \in 1..Len(chain) : copies[i] > 0 /\ chain[i] = e

\* A faulty version: no look at what is stored already.
findFirst_unchecked(t) ==
    /\ task[t].pc = "check"
    /\ task' = IF chain[task[t].event].type \notin STORED_EVENT_TYPES THEN next_event(t)
               ELSE [task EXCEPT ![t].pc = "store"]
    /\ UNCHANGED <<chain, table_vars, stopped, relay_vars, skipped, dispatched, faults>>

\* A faulty version: a duplicate is not handled any further, as if the return
\* inside withSpan's callback left processEvent.
findFirst_returns(t) ==
    LET e == chain[task[t].event] IN
    /\ task[t].pc = "check"
    /\ task' = IF e.type \notin STORED_EVENT_TYPES \/ exists(e) THEN next_event(t)
               ELSE [task EXCEPT ![t].pc = "store"]
    /\ UNCHANGED <<chain, table_vars, stopped, relay_vars, skipped, dispatched, faults>>

\* The filters of processEvent, and findFirst for an event with the same
\* contents.  The return inside withSpan's callback does not leave
\* processEvent, so a duplicate goes on with the state machine.
findFirst(t) ==
    LET e == chain[task[t].event] IN
    /\ task[t].pc = "check"
    /\ task' = IF e.type \notin STORED_EVENT_TYPES THEN next_event(t)
               ELSE [task EXCEPT ![t].pc = IF exists(e) THEN "read" ELSE "store"]
    /\ UNCHANGED <<chain, table_vars, stopped, relay_vars, skipped, dispatched, faults>>

\* A faulty version: the outbox entry is written on its own, later or never.
create_no_outbox(t) ==
    /\ task[t].pc = "store"
    /\ copies' = [copies EXCEPT ![task[t].event] = @ + 1]
    /\ task' = [task EXCEPT ![t].pc = "read"]
    /\ UNCHANGED <<chain, state, outbox, status, payments, stopped, relay_vars,
                   skipped, dispatched, faults>>

\* The transaction: the Event row, and the outbox entry unless its key is
\* there.
create(t) ==
    LET i == task[t].event IN
    /\ task[t].pc = "store"
    /\ copies' = [copies EXCEPT ![i] = @ + 1]
    /\ outbox' = [outbox EXCEPT ![i] = IF @ = None THEN "pending" ELSE @]
    /\ task' = [task EXCEPT ![t].pc = "read"]
    /\ UNCHANGED <<chain, state, status, payments, stopped, relay_vars, skipped,
                   dispatched, faults>>

\* TRANSITIONS of lib/subscriptionStateMachine.ts; None is an invalid
\* transition.  Only subscribe leaves a terminal state.
transition(s, type) ==
    IF type = "subscribe" THEN "ACTIVE"
    ELSE IF s \in {"CANCELLED", "EXPIRED"} THEN None
    ELSE CASE type = "executed" -> "ACTIVE"
           [] type = "payment_transfer_failure" -> "OVERDUE"
           [] type = "cancel" -> "CANCELLED"
           [] OTHER -> None

\* After applyEvent: executed payments get a row of their own.
applied(t) ==
    IF chain[task[t].event].type = "executed" THEN [task EXCEPT ![t].pc = "pay"]
    ELSE next_event(t)

\* applyEvent reads the subscription row ...
applyEvent(t) ==
    LET e == chain[task[t].event]
        s == IF status[e.pair] = None THEN "ACTIVE" ELSE status[e.pair]
    IN
    /\ task[t].pc = "read"
    /\ task' = IF transition(s, e.type) = None THEN applied(t)
               ELSE [task EXCEPT ![t].pc = "write", ![t].seen = s]
    /\ UNCHANGED <<chain, table_vars, stopped, relay_vars, skipped, dispatched, faults>>

\* ... and writes the state that follows from the one it has read.
applyEvent_upsert(t) ==
    LET e == chain[task[t].event] IN
    /\ task[t].pc = "write"
    /\ status' = [status EXCEPT ![e.pair] = transition(task[t].seen, e.type)]
    /\ task' = applied(t)
    /\ UNCHANGED <<chain, state, copies, outbox, payments, stopped, relay_vars,
                   skipped, dispatched, faults>>

payment_upsert(t) ==
    /\ task[t].pc = "pay"
    /\ payments' = payments \cup {task[t].event}
    /\ task' = next_event(t)
    /\ UNCHANGED <<chain, state, copies, outbox, status, stopped, relay_vars,
                   skipped, dispatched, faults>>

\* Any statement of processEvent may throw.  The error is logged and the
\* batch goes on, so the cursor will pass the event.
processEvent_error(t) ==
    /\ task[t].pc \in {"check", "store", "read", "write", "pay"}
    /\ faults < MAX_FAULTS
    /\ faults' = faults + 1
    /\ skipped' = skipped \cup {task[t].event}
    /\ task' = next_event(t)
    /\ UNCHANGED <<chain, table_vars, stopped, relay_vars, dispatched>>

-----------------------------------------------------------------------------
(* OutboxRelay.  Only events of STORED_EVENT_TYPES have outbox entries, so *)
(* the relay's branches for failed transfers and cancellations, with their *)
(* mails and enqueueRetries, are never taken.                              *)

startRelay(r) ==
    /\ relay[r].pc = "off"
    /\ relayStopped' = FALSE
    /\ relay' = [relay EXCEPT ![r].pc = "find"]
    /\ UNCHANGED <<chain, table_vars, task_vars, skipped, dispatched, faults>>

stopRelay ==
    /\ ~relayStopped
    /\ relayStopped' = TRUE
    /\ relay' = [r \in Relays |-> IF relay[r].pc = "timer" THEN Resting ELSE relay[r]]
    /\ UNCHANGED <<chain, table_vars, task_vars, skipped, dispatched, faults>>

relay_tick(r) ==
    /\ relay[r].pc \in {"timer", "loose"}
    /\ relay' = [relay EXCEPT ![r].pc = IF relayStopped THEN "off" ELSE "find"]
    /\ UNCHANGED <<chain, table_vars, task_vars, relayStopped, skipped, dispatched, faults>>

\* The next entry of a pass, or its end.
proceed(r, todo) ==
    \/ /\ todo = {}
       /\ relay' = IF relayStopped THEN [relay EXCEPT ![r] = Resting]
                   ELSE [q \in Relays |->
                          IF q = r THEN [Resting EXCEPT !.pc = "timer"]
                          ELSE IF relay[q].pc = "timer" THEN [relay[q] EXCEPT !.pc = "loose"]
                          ELSE relay[q]]
    \/ \E i \in todo :
         relay' = [relay EXCEPT ![r] = [pc |-> "dispatch", todo |-> todo \ {i}, entry |-> i]]

\* A faulty version: entries whose side effects were run are not picked again.
processPendingEvents_unsent(r) ==
    /\ relay[r].pc = "find"
    /\ proceed(r, {i \in Id : outbox[i] = "pending"} \ dispatched)
    /\ UNCHANGED <<chain, table_vars, task_vars, relayStopped, skipped, dispatched, faults>>

\* findMany of the pending entries; in which order they were created, and
\* so are handled, is left open.
processPendingEvents(r) ==
    /\ relay[r].pc = "find"
    /\ proceed(r, {i \in Id : outbox[i] = "pending"})
    /\ UNCHANGED <<chain, table_vars, task_vars, relayStopped, skipped, dispatched, faults>>

\* A faulty version: the entry is marked before its side effects are run.
dispatch_after_publish(r) ==
    /\ relay[r].pc = "dispatch"
    /\ outbox' = [outbox EXCEPT ![relay[r].entry] = "published"]
    /\ relay' = [relay EXCEPT ![r].pc = "publish"]
    /\ UNCHANGED <<chain, state, copies, status, payments, task_vars, relayStopped,
                   skipped, dispatched, faults>>

\* The side effects of one entry.
dispatchOutboxEvent(r) ==
    /\ relay[r].pc = "dispatch"
    /\ dispatched' = dispatched \cup {relay[r].entry}
    /\ relay' = [relay EXCEPT ![r].pc = "publish"]
    /\ UNCHANGED <<chain, table_vars, task_vars, relayStopped, skipped, faults>>

mark_published(r) ==
    /\ relay[r].pc = "publish"
    /\ outbox' = [outbox EXCEPT ![relay[r].entry] = "published"]
    /\ proceed(r, relay[r].todo)
    /\ UNCHANGED <<chain, state, copies, status, payments, task_vars, relayStopped,
                   skipped, dispatched, faults>>

mark_failed(r) ==
    /\ relay[r].pc = "fail"
    /\ outbox' = [outbox EXCEPT ![relay[r].entry] = "failed"]
    /\ proceed(r, relay[r].todo)
    /\ UNCHANGED <<chain, state, copies, status, payments, task_vars, relayStopped,
                   skipped, dispatched, faults>>

\* A side effect or the mark throws: the entry is to be marked failed; a
\* second error, or one of findMany, ends the pass.
relay_error(r) ==
    /\ relay[r].pc \in {"find", "dispatch", "publish", "fail"}
    /\ faults < MAX_FAULTS
    /\ faults' = faults + 1
    /\ IF relay[r].pc \in {"dispatch", "publish"}
         THEN relay' = [relay EXCEPT ![r].pc = "fail"]
         ELSE proceed(r, {})
    /\ UNCHANGED <<chain, table_vars, task_vars, relayStopped, skipped, dispatched>>

-----------------------------------------------------------------------------
task_step(t) ==
    \/ tick(t) \/ getLastCursor(t) \/ getLastProcessedLedger(t) \/ getEvents(t)
    \/ findFirst(t) \/ create(t) \/ applyEvent(t) \/ applyEvent_upsert(t)
    \/ payment_upsert(t) \/ saveState(t)

relay_step(r) ==
    \/ relay_tick(r) \/ processPendingEvents(r) \/ dispatchOutboxEvent(r)
    \/ mark_published(r) \/ mark_failed(r)

Next ==
    \/ emit \/ crash \/ stopPolling \/ stopRelay
    \/ \E t \in Tasks : \/ startPolling(t) \/ fetchAndStoreEvents(t) \/ task_step(t)
                        \/ batch_error(t) \/ processEvent_error(t)
    \/ \E r \in Relays : startRelay(r) \/ relay_step(r) \/ relay_error(r)

Spec == Init /\ [][Next]_vars

\* Calls in flight go on and timers fire; nothing forces a start or an event.
FairSpec ==
    /\ Spec
    /\ \A t \in Tasks : WF_vars(task_step(t))
    /\ \A r \in Relays : WF_vars(relay_step(r))

-----------------------------------------------------------------------------
(* Properties.                                                             *)

\* Everything that processEvent does for an event has been done, by this
\* event or by one with the same contents.
Handled(i) ==
    LET e == chain[i] IN
    e.type \in STORED_EVENT_TYPES /\ i \notin skipped =>
      /\ \E j \in 1..Len(chain) : chain[j] = e /\ copies[j] > 0 /\ outbox[j] # None
      /\ status[e.pair] # None
      /\ e.type = "executed" => i \in payments

\* The cursor never passes an event that was not handled, unless an error of
\* processEvent was swallowed: not after a crash inside a batch, not with
\* retries of a batch, and not when overlapping loops, one of which read the
\* cursor before and the ledger after another one saved both, store their
\* cursors in any order.
HandledBehindCursor == \A i \in 1..state.cursor : Handled(i)

HandledEvents == {i \in 1..Len(chain) : Handled(i)}

Mirror ==
    INSTANCE EventMirror WITH log <- Len(chain), done <- HandledEvents, ack <- state.cursor

\* The indexer implements EventMirror: nothing that overlapping tasks, cron
\* calls and relays write takes back what was done for an event, and a task
\* stores its cursor only where all events behind it are done, in whatever
\* order the tasks wrote the rows and read cursor and ledger
\* (eventIndexer.ts and indexerStateService.ts).
ImplementsMirror == Mirror!Spec

\* An event is stored at most once by each of the tasks that overlap, so once
\* where they do not, however often its batch is fetched again.
DuplicatesBounded == \A i \in Id : copies[i] <= Cardinality(Tasks)

\* An outbox entry is not published before its side effects have been run.
PublishedWasDispatched == \A i \in Id : outbox[i] = "published" => i \in dispatched

\* While a polling loop stays up, every event to be stored is handled or
\* skipped sooner or later, whatever the request limit.
EventuallyHandled ==
    <>[](\E t \in Tasks : task[t].polling)
      => \A i \in Id : [](i <= Len(chain) => <>(i <= Len(chain) /\ Handled(i)))

\* While a relay stays up, no outbox entry stays pending.
OutboxDrains ==
    <>[](\E r \in Relays : relay[r].pc # "off")
      => \A i \in Id : [](outbox[i] = "pending" => <>(outbox[i] # "pending"))
====
