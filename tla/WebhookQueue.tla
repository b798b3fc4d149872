---------------------------- MODULE WebhookQueue ----------------------------
(* The in-process webhook queue with dead letters                          *)
(* (backend/src/services/webhookQueue.ts).  deliver() reads a job, stores  *)
(* it as delivering, awaits the HTTP request, and then stores the copy it  *)
(* made before the request: two overlapping calls of deliver(), or a       *)
(* replay while one is in flight, overwrite each other's result.           *)
(*                                                                         *)
(* URLs, payloads, headers, error texts, timestamps and the alerter are    *)
(* left out; the recommended delay only goes back to the caller.           *)
EXTENDS Naturals, FiniteSets

CONSTANTS
    Job,            \* idempotency keys of jobs
    Caller,         \* overlapping calls of deliver()
    QUEUE_MAX_ATTEMPTS, \* MAX_ATTEMPTS, 5 in the code
    NoEntry         \* no such entry in a Map, no call

VARIABLES
    jobs,           \* InMemoryJobStore.jobs
    deadLetters,    \* InMemoryJobStore.deadLetters
    calls,          \* the calls awaiting the deliverer: their id and updatedJob
    posts,          \* history: requests sent for each job since it was enqueued or replayed
    late,           \* history: calls that began before the last replay of their job
    disturbed       \* history: jobs a late call has stored its copy over since

queue_vars == <<jobs, deadLetters, calls, posts, late, disturbed>>

WebhookJob == [status : {"pending", "delivering", "delivered", "failed", "dead_lettered"},
               attempts : Nat]
DeadLetterEntry == [attempts : Nat, replayCount : Nat]

ASSUME QueueAssumption ==
    /\ QUEUE_MAX_ATTEMPTS \in Nat \ {0}
    /\ NoEntry \notin WebhookJob \cup DeadLetterEntry

NewJob == [status |-> "pending", attempts |-> 0]

\* enqueue(): a no-op when the id exists in any state.
enqueue_job(id) ==
    /\ jobs[id] = NoEntry
    /\ jobs' = [jobs EXCEPT ![id] = NewJob]
    /\ UNCHANGED <<deadLetters, calls, posts, late, disturbed>>

\* deliver() up to its await: delivered and dead-lettered jobs are refused, a
\* job that is being delivered is not.
deliver(c, id) ==
    /\ calls[c] = NoEntry
    /\ jobs[id] # NoEntry /\ jobs[id].status \notin {"delivered", "dead_lettered"}
    /\ LET updatedJob == [status |-> "delivering", attempts |-> jobs[id].attempts + 1]
       IN  /\ jobs' = [jobs EXCEPT ![id] = updatedJob]
           /\ calls' = [calls EXCEPT ![c] = [id |-> id, job |-> updatedJob]]
    /\ posts' = [posts EXCEPT ![id] = @ + 1]
    /\ UNCHANGED <<deadLetters, late, disturbed>>

\* A call has stored its copy and ends.
call_ends(c) ==
    /\ calls' = [calls EXCEPT ![c] = NoEntry]
    /\ late' = late \ {c}
    /\ disturbed' = IF c \in late THEN disturbed \cup {calls[c].id} ELSE disturbed

\* The deliverer answered with success.
deliver_succeeds(c) ==
    /\ calls[c] # NoEntry
    /\ jobs' = [jobs EXCEPT ![calls[c].id] = [calls[c].job EXCEPT !.status = "delivered"]]
    /\ call_ends(c)
    /\ UNCHANGED <<deadLetters, posts>>

\* The deliverer failed: the last attempt dead-letters the job, with a new
\* entry; and a version that dead-letters the job without an entry.
exhausted(job) == job.attempts >= QUEUE_MAX_ATTEMPTS
saveDeadLetter_dropped(id, job) == deadLetters
saveDeadLetter(id, job) ==
    [deadLetters EXCEPT ![id] = [attempts |-> job.attempts, replayCount |-> 0]]
deliver_fails(c) ==
    /\ calls[c] # NoEntry
    /\ LET id == calls[c].id
           job == calls[c].job
       IN  IF exhausted(job)
           THEN /\ jobs' = [jobs EXCEPT ![id] = [job EXCEPT !.status = "dead_lettered"]]
                /\ deadLetters' = saveDeadLetter(id, job)
           ELSE /\ jobs' = [jobs EXCEPT ![id] = [job EXCEPT !.status = "failed"]]
                /\ UNCHANGED deadLetters
    /\ call_ends(c)
    /\ UNCHANGED posts

\* replayDeadLetter(): refused without an entry or while the job is live; and
\* versions without the test for a live job, or without the reset of the
\* attempts.
replayed(id, job) ==
    /\ jobs' = [jobs EXCEPT ![id] = job]
    /\ deadLetters' = [deadLetters EXCEPT ![id].replayCount = @ + 1]
    /\ posts' = [posts EXCEPT ![id] = 0]
    /\ late' = late \cup {c \in Caller : calls[c] # NoEntry /\ calls[c].id = id}
    /\ disturbed' = disturbed \ {id}
    /\ UNCHANGED calls
replayDeadLetter_live(id) ==
    /\ deadLetters[id] # NoEntry
    /\ replayed(id, NewJob)
replayDeadLetter_no_reset(id) ==
    /\ deadLetters[id] # NoEntry
    /\ jobs[id] # NoEntry => jobs[id].status = "dead_lettered"
    /\ replayed(id, [status |-> "pending", attempts |-> deadLetters[id].attempts])
replayDeadLetter(id) ==
    /\ deadLetters[id] # NoEntry
    /\ jobs[id] # NoEntry => jobs[id].status = "dead_lettered"
    /\ replayed(id, NewJob)

QueueInit ==
    /\ jobs = [id \in Job |-> NoEntry]
    /\ deadLetters = [id \in Job |-> NoEntry]
    /\ calls = [c \in Caller |-> NoEntry]
    /\ posts = [id \in Job |-> 0]
    /\ late = {} /\ disturbed = {}

QueueNext ==
    \/ \E id \in Job : enqueue_job(id) \/ replayDeadLetter(id)
    \/ \E c \in Caller, id \in Job : deliver(c, id)
    \/ \E c \in Caller : deliver_succeeds(c) \/ deliver_fails(c)

QueueSpec == QueueInit /\ [][QueueNext]_queue_vars

-----------------------------------------------------------------------------
\* Every variable has its type.
QueueTypeOK ==
    /\ jobs \in [Job -> WebhookJob \cup {NoEntry}]
    /\ deadLetters \in [Job -> DeadLetterEntry \cup {NoEntry}]
    /\ calls \in [Caller -> [id : Job, job : WebhookJob] \cup {NoEntry}]
    /\ posts \in [Job -> Nat]
    /\ late \subseteq Caller /\ disturbed \subseteq Job

\* Every job gets its full set of attempts, and a replayed job a fresh one:
\* it is dead-lettered only after MAX_ATTEMPTS requests since it was enqueued
\* or last replayed, however the calls of deliver() overlap.  Excepted is the
\* job over which a call from before the replay has stored its old copy:
\* that one may be dead-lettered again at once (webhookQueue.ts:274-336,
\* 380-381).
NotGivenUpEarly ==
    \A id \in Job :
        jobs[id] # NoEntry /\ jobs[id].status = "dead_lettered" /\ id \notin disturbed =>
            jobs[id].attempts \in QUEUE_MAX_ATTEMPTS..posts[id]

\* A dead-lettered job always has the entry an operator can replay it from
\* (webhookQueue.ts:321-336 and 386-396).
DeadLettersAreReplayable ==
    \A id \in Job : jobs[id] # NoEntry /\ jobs[id].status = "dead_lettered" =>
        deadLetters[id] # NoEntry

\* A replay never restarts a job whose delivery is settled: a job leaves
\* delivered only through the late answer of a call that began before it
\* was delivered (webhookQueue.ts:259-272 and 392-396).
DeliveredLeftOnlyByLateAnswers ==
    [][\A id \in Job :
          /\ jobs[id] # NoEntry /\ jobs[id].status = "delivered"
          /\ jobs'[id].status # "delivered"
          => \E c \in Caller :
                calls[c] # NoEntry /\ calls[c].id = id /\ calls'[c] = NoEntry]_queue_vars
=============================================================================
