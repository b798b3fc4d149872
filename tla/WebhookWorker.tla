--------------------------- MODULE WebhookWorker ---------------------------
(* The durable webhook worker (backend/src/workers/webhook.ts): replicas   *)
(* of one Node process share the table webhook_deliveries.  The indexer    *)
(* enqueues a delivery, which is attempted at once, and every replica      *)
(* polls the table for pending rows that are due.  The replicas take no    *)
(* lock on a row, so between the SELECT, the POST and the UPDATE of one    *)
(* activation the others may select, post and update the same row.         *)
(*                                                                         *)
(* An activation (a task) is one asynchronous run of processQueue or of    *)
(* enqueue.  Payloads, signatures and response bodies are left out; a      *)
(* delay is a state of the row (waiting, then due), not a number.          *)
EXTENDS Naturals, FiniteSets

CONSTANTS
    Replica,        \* processes running the worker
    Task,           \* activations one process can have at the same time
    Delivery,       \* rows of webhook_deliveries, in the order of created_at
    MAX_ATTEMPTS,   \* RETRY_DELAYS_MS.length
    LIMIT,          \* rows one poll selects (50 in the query)
    None,           \* no row, no timer
    MAX_CRASHES,    \* bound: process deaths, stop() calls and failed queries
    MAX_OUTAGES     \* bound: endpoint changes and lost answers

ASSUME WorkerAssumption ==
    /\ Delivery \subseteq Nat
    /\ {MAX_ATTEMPTS, LIMIT} \subseteq Nat \ {0}
    /\ {MAX_CRASHES, MAX_OUTAGES} \subseteq Nat

VARIABLES
    rows,       \* webhook_deliveries
    running,    \* the flag running of each process
    timer,      \* processTimer: the task whose timer the process remembers
    tasks,      \* the activations
    up,         \* which rows' endpoints answer 2xx at the moment
    accepted,   \* history: rows whose endpoint has answered 2xx
    crashes,    \* bound counter
    outages     \* bound counter

vars == <<rows, running, timer, tasks, up, accepted, crashes, outages>>

Row == [status : {"pending", "delivered", "dead"}, attempt : 1..MAX_ATTEMPTS,
        next_retry_at : {"null", "waiting", "due"}]
Item == [id : Delivery, attempt : 1..MAX_ATTEMPTS]
Activation == [kind : {"none", "timer", "loop", "enqueue"}, batch : SUBSET Item,
               response : {"none", "2xx", "error"}]
Started(kind, batch) == [kind |-> kind, batch |-> batch, response |-> "none"]
Free == Started("none", {})

\* An activation inside attemptDelivery, and the row it is working on: the
\* oldest of its page.
Attempting(w, t) == tasks[w][t].batch # {}
Current(w, t) == CHOOSE i \in tasks[w][t].batch : \A j \in tasks[w][t].batch : i.id <= j.id

(* ---- The table --------------------------------------------------------- *)

\* WHERE status = 'pending' AND (next_retry_at IS NULL OR next_retry_at <= NOW()),
\* and a version without the test for NULL.
retry_time_passed(r) == r.status = "pending" /\ r.next_retry_at = "due"
due(r) == r.status = "pending" /\ r.next_retry_at \in {"null", "due"}

\* ORDER BY created_at ASC LIMIT 50: the oldest due rows with their attempt.
selected ==
    LET ids == {d \in Delivery : rows[d] # None /\ due(rows[d])}
    IN  {[id |-> d, attempt |-> rows[d].attempt] :
            d \in {d \in ids : Cardinality({e \in ids : e < d}) < LIMIT}}

\* createDeliveryRecord.
NewRow == [status |-> "pending", attempt |-> 1, next_retry_at |-> "null"]

\* What attemptDelivery writes with updateDeliveryRecord: the attempt number
\* it was called with, and a retry only when the attempt is not the last;
\* and a version that trusts any answer.
outcome_any_answer(response, attempt) ==
    [status |-> "delivered", attempt |-> attempt, next_retry_at |-> "null"]
outcome(response, attempt) ==
    [status |-> IF response = "2xx" THEN "delivered"
                ELSE IF attempt >= MAX_ATTEMPTS THEN "dead" ELSE "pending",
     attempt |-> attempt,
     next_retry_at |-> IF response = "2xx" \/ attempt >= MAX_ATTEMPTS
                       THEN "null" ELSE "waiting"]

(* ---- The worker -------------------------------------------------------- *)

\* processDueDeliveries up to its loop: the page of due rows, or nothing when
\* the query fails.
processDueDeliveries(w, t) ==
    \/ /\ tasks' = [tasks EXCEPT ![w][t] = Started("loop", selected)]
       /\ UNCHANGED crashes
    \/ /\ crashes < MAX_CRASHES
       /\ crashes' = crashes + 1
       /\ tasks' = [tasks EXCEPT ![w][t] = Started("loop", {})]

\* start(): the flag is set and processQueue runs at once.
start(w, t) ==
    /\ ~running[w]
    /\ tasks[w][t].kind = "none"
    /\ running' = [running EXCEPT ![w] = TRUE]
    /\ processDueDeliveries(w, t)
    /\ UNCHANGED <<rows, timer, up, accepted, outages>>

\* stop(): the flag and the remembered timer are cleared; a pass in progress
\* goes on to its end.
stop(w) ==
    /\ running[w]
    /\ crashes < MAX_CRASHES
    /\ running' = [running EXCEPT ![w] = FALSE]
    /\ timer' = [timer EXCEPT ![w] = None]
    /\ tasks' = [tasks EXCEPT ![w][timer[w]] = IF @.kind = "timer" THEN Free ELSE @]
    /\ crashes' = crashes + 1
    /\ UNCHANGED <<rows, up, accepted, outages>>

\* The timer fires: processQueue returns when the worker is stopped, and
\* otherwise selects the due rows.
processQueue(w, t) ==
    /\ tasks[w][t].kind = "timer"
    /\ IF running[w] THEN processDueDeliveries(w, t)
                     ELSE tasks' = [tasks EXCEPT ![w][t] = Free] /\ UNCHANGED crashes
    /\ UNCHANGED <<rows, running, timer, up, accepted, outages>>

\* enqueue(): the row of a configured merchant is inserted, then attempted.
enqueue(w, t, d) ==
    /\ rows[d] = None
    /\ \A e \in Delivery : e < d => rows[e] # None
    /\ tasks[w][t].kind = "none"
    /\ rows' = [rows EXCEPT ![d] = NewRow]
    /\ tasks' = [tasks EXCEPT ![w][t] = Started("enqueue", {[id |-> d, attempt |-> 1]})]
    /\ UNCHANGED <<running, timer, up, accepted, crashes, outages>>

\* attemptDelivery up to the answer of httpPost: an endpoint that is up
\* answers 2xx, or its answer is lost to the timeout; one that is down fails.
attemptDelivery_post(w, t) ==
    /\ Attempting(w, t) /\ tasks[w][t].response = "none"
    /\ LET d == Current(w, t).id IN
       /\ accepted' = IF d \in up THEN accepted \cup {d} ELSE accepted
       /\ \/ /\ tasks' = [tasks EXCEPT ![w][t].response = IF d \in up THEN "2xx" ELSE "error"]
             /\ UNCHANGED outages
          \/ /\ d \in up /\ outages < MAX_OUTAGES
             /\ outages' = outages + 1
             /\ tasks' = [tasks EXCEPT ![w][t].response = "error"]
    /\ UNCHANGED <<rows, running, timer, up, crashes>>

\* The end of a pass: the loop arms its timer when the worker still runs.
pass_ended(w, t, kind) ==
    IF kind = "loop" /\ running[w]
    THEN /\ tasks' = [tasks EXCEPT ![w][t] = Started("timer", {})]
         /\ timer' = [timer EXCEPT ![w] = t]
    ELSE /\ tasks' = [tasks EXCEPT ![w][t] = Free]
         /\ UNCHANGED timer

\* updateDeliveryRecord, whatever the row holds by then, and the next row.
attemptDelivery_update(w, t) ==
    /\ Attempting(w, t) /\ tasks[w][t].response # "none"
    /\ rows' = [rows EXCEPT ![Current(w, t).id] =
                   outcome(tasks[w][t].response, Current(w, t).attempt)]
    /\ IF tasks[w][t].batch = {Current(w, t)}
       THEN pass_ended(w, t, tasks[w][t].kind)
       ELSE /\ tasks' = [tasks EXCEPT ![w][t] =
                            Started(tasks[w][t].kind, tasks[w][t].batch \ {Current(w, t)})]
            /\ UNCHANGED timer
    /\ UNCHANGED <<running, up, accepted, crashes, outages>>

\* A pass with no row to attempt; and one whose UPDATE failed, which drops
\* the rest of its page.
pass_over(w, t) ==
    /\ tasks[w][t].kind = "loop"
    /\ ~Attempting(w, t)
    /\ pass_ended(w, t, "loop")
    /\ UNCHANGED <<rows, running, up, accepted, crashes, outages>>
query_error(w, t) ==
    /\ Attempting(w, t) /\ tasks[w][t].response # "none"
    /\ crashes < MAX_CRASHES
    /\ crashes' = crashes + 1
    /\ pass_ended(w, t, tasks[w][t].kind)
    /\ UNCHANGED <<rows, running, up, accepted, outages>>

(* ---- The environment --------------------------------------------------- *)

\* The process dies: its activations are gone, the table stays.
crash(w) ==
    /\ crashes < MAX_CRASHES
    /\ \E t \in Task : tasks[w][t] # Free
    /\ crashes' = crashes + 1
    /\ running' = [running EXCEPT ![w] = FALSE]
    /\ timer' = [timer EXCEPT ![w] = None]
    /\ tasks' = [tasks EXCEPT ![w] = [t \in Task |-> Free]]
    /\ UNCHANGED <<rows, up, accepted, outages>>

delay_elapses(d) ==
    /\ rows[d] # None /\ rows[d].next_retry_at = "waiting"
    /\ rows' = [rows EXCEPT ![d].next_retry_at = "due"]
    /\ UNCHANGED <<running, timer, tasks, up, accepted, crashes, outages>>

endpoint_changes(d) ==
    /\ outages < MAX_OUTAGES
    /\ outages' = outages + 1
    /\ up' = IF d \in up THEN up \ {d} ELSE up \cup {d}
    /\ UNCHANGED <<rows, running, timer, tasks, accepted, crashes>>

Init ==
    /\ rows = [d \in Delivery |-> None]
    /\ running = [w \in Replica |-> FALSE]
    /\ timer = [w \in Replica |-> None]
    /\ tasks = [w \in Replica |-> [t \in Task |-> Free]]
    /\ up \in SUBSET Delivery
    /\ accepted = {}
    /\ crashes = 0 /\ outages = 0

TaskStep(w, t) ==
    \/ processQueue(w, t)
    \/ attemptDelivery_post(w, t)
    \/ attemptDelivery_update(w, t)
    \/ pass_over(w, t)

Next ==
    \/ \E w \in Replica, t \in Task :
          TaskStep(w, t) \/ start(w, t) \/ query_error(w, t)
          \/ \E d \in Delivery : enqueue(w, t, d)
    \/ \E w \in Replica : stop(w) \/ crash(w)
    \/ \E d \in Delivery : delay_elapses(d) \/ endpoint_changes(d)

\* A pending promise or timer is eventually resolved by the event loop, a
\* retry time comes, and a dead process is started again (the deployment
\* restarts its containers).
Fairness ==
    /\ \A w \in Replica, t \in Task : WF_vars(TaskStep(w, t))
    /\ \A w \in Replica : WF_vars(\E t \in Task : start(w, t))
    /\ \A d \in Delivery : WF_vars(delay_elapses(d))

Spec == Init /\ [][Next]_vars
FairSpec == Spec /\ Fairness

-----------------------------------------------------------------------------
\* Every variable has the type its declaration and the table's columns say.
TypeOK ==
    /\ rows \in [Delivery -> Row \cup {None}]
    /\ running \in [Replica -> BOOLEAN]
    /\ timer \in [Replica -> Task \cup {None}]
    /\ tasks \in [Replica -> [Task -> Activation]]
    /\ up \subseteq Delivery /\ accepted \subseteq Delivery

\* A row reads delivered only when its merchant's endpoint has answered 2xx,
\* whatever replica wrote the row last and in which order the answers came
\* (attemptDelivery, webhook.ts:216-238).
DeliveredMeansAccepted ==
    \A d \in Delivery : rows[d] # None /\ rows[d].status = "delivered" => d \in accepted

\* Once every endpoint stays up, every row ends up settled, as delivered or dead,
\* and stays so, although a page may be too short for all due rows, replicas
\* may crash between INSERT, POST and UPDATE, a stop or a query error may
\* drop a pass, and a late failure may overwrite a row another replica has
\* delivered (webhook.ts:119-144 and 193-238).  While an endpoint is down its
\* rows may fill every page and the others wait.
settled(r) == r.status \in {"delivered", "dead"}
EventuallySettled ==
    (<>[](up = Delivery)) => <>[](\A d \in Delivery : rows[d] # None => settled(rows[d]))
=============================================================================
