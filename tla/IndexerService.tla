-------------------------- MODULE IndexerService --------------------------
(***************************************************************************)
(* backend/src/services/indexer.ts: a service that polls the contract's    *)
(* events page by page from a stored cursor and mirrors them into two      *)
(* tables of a SQL database.                                               *)
(*                                                                         *)
(* A page is handled event by event, each in a transaction of its own, and *)
(* the cursor is stored once the page is done: a crash or an error inside  *)
(* a page makes a later poll handle its first events again.  One service   *)
(* object can have several polls in flight (stop() does not wait for one,  *)
(* and start() begins another), so a poll is a process.  Every await is a  *)
(* step.  An event is its position in the contract's log, which is also    *)
(* the cursor the RPC server understands and, because one transaction of   *)
(* the contract emits at most one event of a type for a pair, stands for   *)
(* the unique key (tx_hash, event_type, subscriber, merchant) of payments. *)
(***************************************************************************)
EXTENDS Naturals, Sequences, FiniteSets

CONSTANTS
    Pairs,                  \* (subscriber, merchant)
    Polls,                  \* the polls that may be in flight at once
    None,                   \* no row, or no timer
    MAX_EVENTS_PER_PAGE,
    MAX_EVENTS,             \* bound: length of the contract's log
    MAX_FAULTS              \* bound: errors and crashes

ASSUME BoundsAssumption ==
    /\ MAX_EVENTS_PER_PAGE \in Nat \ {0}
    /\ MAX_EVENTS \in Nat /\ MAX_FAULTS \in Nat

ASSUME NoneAssumption == None \notin Polls /\ None \notin {"active", "cancelled"}

\* DecodedEvent; "other" stands for every event decodeEvent returns null for.
EventType == {"subscribe", "executed", "cancel", "payment_transfer_failure", "other"}
Event == [type : EventType, pair : Pairs]

\* The types of event that get a row in payments.
PaymentTypes == {"executed", "cancel", "payment_transfer_failure"}

VARIABLES
    chain,       \* the contract's events, oldest first
    cursor,      \* indexer_state.cursor, 0 for ''
    subscriptions, \* status column per pair, or None
    payments,    \* rows of payments, by their unique key
    running, pollTimer,
    poll,        \* the polls in flight
    overlapped,  \* history: start() was called with a poll still in flight
    faults

table_vars == <<cursor, subscriptions, payments>>
vars == <<chain, table_vars, running, pollTimer, poll, overlapped, faults>>

\* A poll in flight: the local variable cursor, the page that follows it as
\* the position of its last event, and the event handled last.
Off == [pc |-> "off", cursor |-> 0, pos |-> 0, last |-> 0]

\* Rows, cursors and pages keep their types; in particular no poll works on
\* an event behind the end of its page or a page longer than the log.
TypeOK ==
    /\ chain \in Seq(Event) /\ Len(chain) <= MAX_EVENTS
    /\ cursor \in 0..Len(chain)
    /\ subscriptions \in [Pairs -> {"active", "cancelled", None}]
    /\ payments \subseteq 1..Len(chain)
    /\ running \in BOOLEAN
    /\ pollTimer \in Polls \cup {None}
    /\ poll \in [Polls -> [pc : {"off", "timer", "load", "fetch", "persist", "save"},
                           cursor : 0..Len(chain), pos : 0..Len(chain), last : 0..Len(chain)]]
    /\ \A q \in Polls : poll[q].pc = "persist" => poll[q].pos < poll[q].last
    /\ overlapped \in BOOLEAN
    /\ faults \in 0..MAX_FAULTS

Init ==
    /\ chain = << >> /\ cursor = 0
    /\ subscriptions = [p \in Pairs |-> None] /\ payments = {}
    /\ running = FALSE /\ pollTimer = None
    /\ poll = [q \in Polls |-> Off]
    /\ overlapped = FALSE /\ faults = 0

-----------------------------------------------------------------------------
(* The contract and the process.                                           *)

emit ==
    /\ Len(chain) < MAX_EVENTS
    /\ \E e \in Event : chain' = Append(chain, e)
    /\ UNCHANGED <<table_vars, running, pollTimer, poll, overlapped, faults>>

start ==
    /\ ~running
    /\ \E q \in Polls : /\ poll[q].pc = "off"
                        /\ poll' = [poll EXCEPT ![q].pc = "load"]
    /\ running' = TRUE
    /\ overlapped' = (overlapped \/ \E q \in Polls : poll[q].pc # "off")
    /\ UNCHANGED <<chain, table_vars, pollTimer, faults>>

\* Only the timer that was set last can be cleared.
stop ==
    /\ running
    /\ running' = FALSE
    /\ pollTimer' = None
    /\ poll' = IF pollTimer # None /\ poll[pollTimer].pc = "timer"
                 THEN [poll EXCEPT ![pollTimer] = Off] ELSE poll
    /\ UNCHANGED <<chain, table_vars, overlapped, faults>>

\* The process dies: what is in memory is lost, the tables stay.
crash ==
    /\ faults < MAX_FAULTS
    /\ faults' = faults + 1
    /\ running' = FALSE /\ pollTimer' = None
    /\ poll' = [q \in Polls |-> Off]
    /\ UNCHANGED <<chain, table_vars, overlapped>>

-----------------------------------------------------------------------------
(* poll()                                                                  *)

\* The finally block.
poll_ends(q) ==
    IF running
      THEN /\ poll' = [poll EXCEPT ![q] = [Off EXCEPT !.pc = "timer"]]
           /\ pollTimer' = q
      ELSE /\ poll' = [poll EXCEPT ![q] = Off]
           /\ UNCHANGED pollTimer

timer_fires(q) ==
    /\ poll[q].pc = "timer"
    /\ poll' = [poll EXCEPT ![q].pc = IF running THEN "load" ELSE "off"]
    /\ UNCHANGED <<chain, table_vars, running, pollTimer, overlapped, faults>>

loadCursor(q) ==
    /\ poll[q].pc = "load"
    /\ poll' = [poll EXCEPT ![q].pc = "fetch", ![q].cursor = cursor]
    /\ UNCHANGED <<chain, table_vars, running, pollTimer, overlapped, faults>>

\* The last event of the page that follows a cursor.
page_end(c) ==
    IF Len(chain) - c > MAX_EVENTS_PER_PAGE THEN c + MAX_EVENTS_PER_PAGE ELSE Len(chain)

fetchEventsPage(q) ==
    LET c == poll[q].cursor IN
    /\ poll[q].pc = "fetch"
    /\ IF c = Len(chain)
         THEN poll_ends(q)
         ELSE /\ poll' = [poll EXCEPT ![q] = [pc |-> "persist", cursor |-> c,
                                              pos |-> c, last |-> page_end(c)]]
              /\ UNCHANGED pollTimer
    /\ UNCHANGED <<chain, table_vars, running, overlapped, faults>>

\* A faulty version: a subscription that was cancelled is not renewed.
updated_status_terminal(e, status) ==
    IF status = "cancelled" THEN status
    ELSE CASE e.type = "subscribe" -> "active"
           [] e.type = "cancel" /\ status # None -> "cancelled"
           [] OTHER -> status

\* A faulty version: a cancellation deletes the row.
updated_status_deletes(e, status) ==
    CASE e.type = "subscribe" -> "active"
      [] e.type = "executed" /\ status # None -> "active"
      [] e.type = "cancel" -> None
      [] OTHER -> status

\* A faulty version: a cancellation inserts the row that it does not find.
updated_status_inserts(e, status) ==
    CASE e.type = "subscribe" -> "active"
      [] e.type = "executed" /\ status # None -> "active"
      [] e.type = "cancel" -> "cancelled"
      [] OTHER -> status

\* upsertSubscription, updateSubscriptionAfterPayment and
\* markSubscriptionCancelled; the last two only find existing rows.
updated_status(e, status) ==
    CASE e.type = "subscribe" -> "active"
      [] e.type = "executed" /\ status # None -> "active"
      [] e.type = "cancel" /\ status # None -> "cancelled"
      [] OTHER -> status

\* recordPayment, with ON CONFLICT DO NOTHING.
recordPayment(i) == IF chain[i].type \in PaymentTypes THEN payments \cup {i} ELSE payments

\* decodeEvent and persistEvent for the next event of the page, in one
\* transaction.
persistEvent(q) ==
    LET e == chain[poll[q].pos + 1] IN
    /\ poll[q].pc = "persist"
    /\ subscriptions' = [subscriptions EXCEPT ![e.pair] = updated_status(e, @)]
    /\ payments' = recordPayment(poll[q].pos + 1)
    /\ poll' = [poll EXCEPT ![q].pos = @ + 1,
                            ![q].pc = IF poll[q].pos + 1 = poll[q].last
                                        THEN "save" ELSE "persist"]
    /\ UNCHANGED <<chain, cursor, running, pollTimer, overlapped, faults>>

\* A faulty version: the cursor is moved to the latest event of the contract.
saveCursor_tip(q) ==
    /\ poll[q].pc = "save"
    /\ cursor' = Len(chain)
    /\ poll_ends(q)
    /\ UNCHANGED <<chain, subscriptions, payments, running, overlapped, faults>>

\* The end of a page; one that is not full was the last.
saveCursor(q) ==
    /\ poll[q].pc = "save"
    /\ cursor' = poll[q].last
    /\ IF poll[q].last - poll[q].cursor < MAX_EVENTS_PER_PAGE
         THEN poll_ends(q)
         ELSE /\ poll' = [poll EXCEPT ![q].pc = "fetch", ![q].cursor = poll[q].last]
              /\ UNCHANGED pollTimer
    /\ UNCHANGED <<chain, subscriptions, payments, running, overlapped, faults>>

\* Any await of poll() may throw: the RPC server, the transaction, which is
\* rolled back, or a statement on the cursor.
poll_error(q) ==
    /\ poll[q].pc \in {"load", "fetch", "persist", "save"}
    /\ faults < MAX_FAULTS
    /\ faults' = faults + 1
    /\ poll_ends(q)
    /\ UNCHANGED <<chain, table_vars, running, overlapped>>

-----------------------------------------------------------------------------
poll_step(q) ==
    \/ timer_fires(q) \/ loadCursor(q) \/ fetchEventsPage(q)
    \/ persistEvent(q) \/ saveCursor(q)

Next ==
    \/ emit \/ start \/ stop \/ crash
    \/ \E q \in Polls : poll_step(q) \/ poll_error(q)

Spec == Init /\ [][Next]_vars

\* A poll in flight goes on and timers fire.  Nothing forces a start() or an
\* event.
FairSpec == Spec /\ \A q \in Polls : WF_vars(poll_step(q))

-----------------------------------------------------------------------------
(* Properties.                                                             *)

Recorded(i) ==
    /\ chain[i].type \in PaymentTypes => i \in payments
    /\ chain[i].type = "subscribe" => subscriptions[chain[i].pair] # None

\* No event is lost: everything the stored cursor has passed is in the
\* tables, whatever pages were cut short by errors and crashes and in
\* whatever order overlapping polls stored their cursors.
RecordedBehindCursor == \A i \in 1..cursor : Recorded(i)

RecordedEvents == {i \in 1..Len(chain) : Recorded(i)}

Mirror == INSTANCE EventMirror WITH log <- Len(chain), done <- RecordedEvents, ack <- cursor

\* The service implements EventMirror: no upsert, payment or cancellation of
\* a page that is handled again takes back what was recorded of an event, and
\* whichever poll stores its cursor, all events behind it are recorded at
\* that moment (indexer.ts:108-156 and 288-430).
ImplementsMirror == Mirror!Spec

\* What the first k events of the log say about a pair's subscription.
Subscribed(p, k) == \E i \in 1..k : chain[i].pair = p /\ chain[i].type = "subscribe"
Cancelled(p, k) ==
    \E i \in 1..k : /\ chain[i].pair = p /\ chain[i].type = "cancel"
                    /\ \A j \in (i + 1)..k :
                          chain[j].pair = p => chain[j].type \notin {"subscribe", "executed"}
StatusAt(p, k) ==
    IF ~Subscribed(p, k) THEN None ELSE IF Cancelled(p, k) THEN "cancelled" ELSE "active"

\* A service that has caught up mirrors the contract: when the stored cursor
\* is at the end of the log, every row has the status of its pair's last
\* event, although pages that errors and crashes cut short were handled
\* again, later events before earlier ones.  Two polls in flight, begun by a
\* stop() and start() during a poll, are the exception (indexer.ts:108-156
\* and 288-410).
CaughtUpMirrors ==
    ~overlapped /\ cursor = Len(chain)
      => \A p \in Pairs : subscriptions[p] = StatusAt(p, Len(chain))

\* A service that is left running mirrors the contract: once no more events
\* come, every row has the status of its last event and stays so, although
\* pages were handled more than once.  Only a second poll in flight, begun
\* by a stop() and start() during a poll, can spoil it.
MirrorsTheContract ==
    (<>[]running /\ []~overlapped)
      => <>[](\A p \in Pairs : subscriptions[p] = StatusAt(p, Len(chain)))
====
