---------------------------- MODULE RetryQueue ----------------------------
(***************************************************************************)
(* backend/src/services/retryQueue.ts: the retries of a failed payment, as *)
(* rows of payment_retries and delayed jobs of a BullMQ queue in Redis.    *)
(*                                                                         *)
(* The database and the queue are two stores that every operation writes   *)
(* one after the other.  Every await is a step, and calls of               *)
(* enqueueRetries and cancelRetries overlap with each other and with the   *)
(* jobs the worker runs.  A row and its job have the same number.  Delays  *)
(* are configurable, so a delayed job may fall due at any time and in any  *)
(* order.  What the webhooks carry is left out.                            *)
(***************************************************************************)
EXTENDS Naturals, Sequences, FiniteSets

CONSTANTS
    Pairs,          \* (subscriber, merchant)
    None,
    Calls,          \* overlapping calls of enqueueRetries
    Cancels,        \* overlapping calls of cancelRetries
    MAX_RETRIES,    \* and no fewer configured delays
    CONCURRENCY,    \* jobs the worker runs at once, 5 in the code
    MAX_ROWS,       \* bound: rows ever created
    MAX_FAULTS      \* bound: errors and crashes

ASSUME BoundsAssumption ==
    /\ MAX_RETRIES \in Nat \ {0} /\ CONCURRENCY \in Nat \ {0}
    /\ MAX_ROWS \in Nat /\ MAX_FAULTS \in Nat
    /\ IsFiniteSet(Calls)

ASSUME PairsAssumption == Pairs # {}

RowId == 1..MAX_ROWS

\* PaymentRetryRecord; jobId is TRUE once the job's id has been stored.
PaymentRetryRecord ==
    [pair : Pairs, attemptNumber : 1..MAX_RETRIES, jobId : BOOLEAN,
     status : {"pending", "succeeded", "failed", "cancelled"}]

\* A row as somebody has read it: its number, and whether it had a job id.
ReadRow == [id : RowId, jobId : BOOLEAN]

ASSUME NoneAssumption == None \notin ReadRow

VARIABLES
    rows,      \* payment_retries, in order of creation
    queue,     \* the jobs in BullMQ
    stalled,   \* jobs that BullMQ has recovered from a dead worker
    call,      \* calls of enqueueRetries
    cancel,    \* calls of cancelRetries
    job,       \* processRetryJob, for each job
    unlinked,  \* history: rows somebody cancelled without removing the job
    lost,      \* history: rows an error or a crash has left without a job
    faults

vars == <<rows, queue, stalled, call, cancel, job, unlinked, lost, faults>>

NoCall == [pc |-> "idle", pair |-> CHOOSE p \in Pairs : TRUE, attempt |-> 1, id |-> 0]

\* A loop over read rows, in cancelRetries and in processRetryJob: the rows to
\* come and the one whose status is about to be written.
Rest == [pc |-> "idle", todo |-> {}, hand |-> None]

pending(p) == {i \in DOMAIN rows : rows[i].pair = p /\ rows[i].status = "pending"}

\* Rows, jobs and calls keep their types: no attempt beyond MAX_RETRIES and
\* no more active jobs than the worker's concurrency.
TypeOK ==
    /\ rows \in Seq(PaymentRetryRecord) /\ Len(rows) <= MAX_ROWS
    /\ queue \in [RowId -> {"none", "delayed", "active", "done"}]
    /\ Cardinality({i \in RowId : queue[i] = "active"}) <= CONCURRENCY
    /\ stalled \subseteq RowId
    /\ call \in [Calls -> [pc : {"idle", "insert", "add", "fill"}, pair : Pairs,
                           attempt : 1..MAX_RETRIES, id : 0..Len(rows)]]
    /\ cancel \in [Cancels -> [pc : {"idle", "remove", "update"},
                               todo : SUBSET ReadRow, hand : ReadRow \cup {None}]]
    /\ job \in [RowId -> [pc : {"idle", "notify", "find", "remove", "update", "fail"},
                          todo : SUBSET ReadRow, hand : ReadRow \cup {None}]]
    /\ unlinked \subseteq RowId /\ lost \subseteq RowId
    /\ faults \in 0..MAX_FAULTS

Init ==
    /\ rows = << >> /\ queue = [i \in RowId |-> "none"] /\ stalled = {}
    /\ call = [c \in Calls |-> NoCall]
    /\ cancel = [k \in Cancels |-> Rest]
    /\ job = [i \in RowId |-> Rest]
    /\ unlinked = {} /\ lost = {} /\ faults = 0

-----------------------------------------------------------------------------
(* enqueueRetries                                                          *)

\* A faulty version: no look at the retries that are pending.
enqueueRetries_unchecked(c, p) ==
    /\ call[c].pc = "idle"
    /\ call' = [call EXCEPT ![c] = [NoCall EXCEPT !.pc = "insert", !.pair = p]]
    /\ UNCHANGED <<rows, queue, stalled, cancel, job, unlinked, lost, faults>>

\* getRawRetries and hasPending.
enqueueRetries(c, p) ==
    /\ call[c].pc = "idle"
    /\ pending(p) = {}
    /\ call' = [call EXCEPT ![c] = [NoCall EXCEPT !.pc = "insert", !.pair = p]]
    /\ UNCHANGED <<rows, queue, stalled, cancel, job, unlinked, lost, faults>>

createRetryRecord(c) ==
    /\ call[c].pc = "insert"
    /\ Len(rows) < MAX_ROWS
    /\ rows' = Append(rows, [pair |-> call[c].pair, attemptNumber |-> call[c].attempt,
                             jobId |-> FALSE, status |-> "pending"])
    /\ call' = [call EXCEPT ![c].pc = "add", ![c].id = Len(rows) + 1]
    /\ UNCHANGED <<queue, stalled, cancel, job, unlinked, lost, faults>>

queue_add(c) ==
    /\ call[c].pc = "add"
    /\ queue' = [queue EXCEPT ![call[c].id] = "delayed"]
    /\ call' = [call EXCEPT ![c].pc = "fill"]
    /\ UNCHANGED <<rows, stalled, cancel, job, unlinked, lost, faults>>

next_attempt(c) ==
    IF call[c].attempt < MAX_RETRIES
      THEN [call EXCEPT ![c].pc = "insert", ![c].attempt = @ + 1]
      ELSE [call EXCEPT ![c] = NoCall]

\* The job's id is stored and the loop goes on.
store_job_id(c) ==
    /\ call[c].pc = "fill"
    /\ rows' = [rows EXCEPT ![call[c].id].jobId = TRUE]
    /\ call' = next_attempt(c)
    /\ UNCHANGED <<queue, stalled, cancel, job, unlinked, lost, faults>>

\* Any statement may throw, which ends the call; the caller only logs it.
call_error(c) ==
    /\ call[c].pc # "idle"
    /\ faults < MAX_FAULTS
    /\ faults' = faults + 1
    /\ lost' = IF call[c].pc = "add" THEN lost \cup {call[c].id} ELSE lost
    /\ call' = [call EXCEPT ![c] = NoCall]
    /\ UNCHANGED <<rows, queue, stalled, cancel, job, unlinked>>

-----------------------------------------------------------------------------
(* cancelRetries, and the same loop of processRetryJob.                    *)

read_rows(S) == {[id |-> i, jobId |-> rows[i].jobId] : i \in S}

\* job.remove() takes a delayed job out of the queue.  It throws for an
\* active one, and there is nothing to remove for a row read without a job
\* id; either way the loop goes on.
removable(r) == r.jobId /\ queue[r.id] # "active"

\* A faulty version: the job stays in the queue.
remove_nothing(r) == queue

remove(r) ==
    IF removable(r) /\ queue[r.id] = "delayed" THEN [queue EXCEPT ![r.id] = "none"] ELSE queue

\* One iteration of the loop of the process w, over rows in the order of their
\* attempts: the removal, which may also fail because of Redis, ...
removal(w, r) ==
    /\ w.pc = "remove"
    /\ r \in w.todo
    /\ \A q \in w.todo : rows[r.id].attemptNumber <= rows[q.id].attemptNumber
    /\ \/ /\ queue' = remove(r)
          /\ unlinked' = IF removable(r) THEN unlinked ELSE unlinked \cup {r.id}
          /\ UNCHANGED faults
       \/ /\ r.jobId /\ faults < MAX_FAULTS
          /\ faults' = faults + 1
          /\ unlinked' = unlinked \cup {r.id}
          /\ UNCHANGED queue

removed(w, r) == [pc |-> "update", todo |-> w.todo \ {r}, hand |-> r]

\* ... and the update of the row.
cancelled(w) == [rows EXCEPT ![w.hand.id].status = "cancelled"]

looped(w) == IF w.todo = {} THEN Rest ELSE [w EXCEPT !.pc = "remove", !.hand = None]

cancelRetries(k, p) ==
    /\ cancel[k].pc = "idle"
    /\ pending(p) # {}
    /\ cancel' = [cancel EXCEPT ![k] = [Rest EXCEPT !.pc = "remove",
                                                    !.todo = read_rows(pending(p))]]
    /\ UNCHANGED <<rows, queue, stalled, call, job, unlinked, lost, faults>>

cancel_remove(k) ==
    /\ \E r \in cancel[k].todo :
         /\ removal(cancel[k], r)
         /\ cancel' = [cancel EXCEPT ![k] = removed(cancel[k], r)]
    /\ UNCHANGED <<rows, stalled, call, job, lost>>

cancel_update(k) ==
    /\ cancel[k].pc = "update"
    /\ rows' = cancelled(cancel[k])
    /\ cancel' = [cancel EXCEPT ![k] = looped(cancel[k])]
    /\ UNCHANGED <<queue, stalled, call, job, unlinked, lost, faults>>

cancel_error(k) ==
    /\ cancel[k].pc = "update"
    /\ faults < MAX_FAULTS
    /\ faults' = faults + 1
    /\ lost' = lost \cup {cancel[k].hand.id}
    /\ cancel' = [cancel EXCEPT ![k] = Rest]
    /\ UNCHANGED <<rows, queue, stalled, call, job, unlinked>>

-----------------------------------------------------------------------------
(* The worker: processRetryJob.  It never looks at the row's status.       *)

at(i, pc) == [job EXCEPT ![i].pc = pc]

\* The promise of the handler settles: BullMQ makes no second attempt.
finish(i) ==
    /\ queue' = [queue EXCEPT ![i] = "done"]
    /\ job' = [job EXCEPT ![i] = Rest]

\* BullMQ hands the job to the handler, which writes attemptedAt and calls
\* notifyWebhooks.
job_start(i) ==
    /\ queue[i] = "delayed"
    /\ Cardinality({j \in RowId : queue[j] = "active"}) < CONCURRENCY
    /\ queue' = [queue EXCEPT ![i] = "active"]
    /\ job' = at(i, "notify")
    /\ UNCHANGED <<rows, stalled, call, cancel, unlinked, lost, faults>>

\* notifyWebhooks has returned.
job_succeed(i) ==
    /\ job[i].pc = "notify"
    /\ rows' = [rows EXCEPT ![i].status = "succeeded"]
    /\ job' = at(i, "find")
    /\ UNCHANGED <<queue, stalled, call, cancel, unlinked, lost, faults>>

\* The retries that are still pending are read, to be cancelled.
job_find(i) ==
    LET rest == pending(rows[i].pair) \ {i} IN
    /\ job[i].pc = "find"
    /\ IF rest = {} THEN finish(i)
       ELSE /\ job' = [job EXCEPT ![i].pc = "remove", ![i].todo = read_rows(rest)]
            /\ UNCHANGED queue
    /\ UNCHANGED <<rows, stalled, call, cancel, unlinked, lost, faults>>

job_remove(i) ==
    /\ \E r \in job[i].todo :
         /\ removal(job[i], r)
         /\ job' = [job EXCEPT ![i] = removed(job[i], r)]
    /\ UNCHANGED <<rows, stalled, call, cancel, lost>>

job_update(i) ==
    /\ job[i].pc = "update"
    /\ rows' = cancelled(job[i])
    /\ IF job[i].todo = {} THEN finish(i)
       ELSE job' = [job EXCEPT ![i] = looped(job[i])] /\ UNCHANGED queue
    /\ UNCHANGED <<stalled, call, cancel, unlinked, lost, faults>>

\* A faulty version: the failure is only logged.
job_fail_unmarked(i) ==
    /\ job[i].pc \in {"notify", "fail"}
    /\ finish(i)
    /\ UNCHANGED <<rows, stalled, call, cancel, unlinked, lost, faults>>

\* notifyWebhooks has thrown, or a later statement has: the catch block.
\* After the last attempt it also sends the escalation, whose errors are
\* swallowed.
job_fail(i) ==
    /\ job[i].pc \in {"notify", "fail"}
    /\ rows' = [rows EXCEPT ![i].status = "failed"]
    /\ finish(i)
    /\ UNCHANGED <<stalled, call, cancel, unlinked, lost, faults>>

\* A statement throws: inside the try block the retry counts as failed, also
\* when it is the cancellation of the others that fails; outside of it (the
\* write of attemptedAt, or of the failure) the handler itself fails.
job_error(i) ==
    /\ job[i].pc \in {"notify", "find", "update", "fail"}
    /\ faults < MAX_FAULTS
    /\ faults' = faults + 1
    /\ \/ /\ job[i].pc \in {"notify", "fail"}
          /\ finish(i)
          /\ lost' = lost \cup {i}
       \/ /\ job[i].pc # "fail"
          /\ job' = [job EXCEPT ![i] = [Rest EXCEPT !.pc = "fail"]]
          /\ lost' = IF job[i].pc = "update" THEN lost \cup {job[i].hand.id} ELSE lost
          /\ UNCHANGED queue
    /\ UNCHANGED <<rows, stalled, call, cancel, unlinked>>

\* The process dies and is restarted.  BullMQ runs a stalled job again, once.
crash ==
    LET active == {i \in RowId : queue[i] = "active"} IN
    /\ faults < MAX_FAULTS
    /\ faults' = faults + 1
    /\ queue' = [i \in RowId |-> IF i \notin active THEN queue[i]
                                 ELSE IF i \in stalled THEN "done" ELSE "delayed"]
    /\ stalled' = stalled \cup active
    /\ lost' = lost \cup (active \cap stalled)
                    \cup {call[c].id : c \in {c \in Calls : call[c].pc = "add"}}
                    \cup {cancel[k].hand.id : k \in {k \in Cancels : cancel[k].pc = "update"}}
                    \cup {job[i].hand.id : i \in {i \in RowId : job[i].pc = "update"}}
    /\ call' = [c \in Calls |-> NoCall]
    /\ cancel' = [k \in Cancels |-> Rest]
    /\ job' = [i \in RowId |-> Rest]
    /\ UNCHANGED <<rows, unlinked>>

-----------------------------------------------------------------------------
call_step(c) == createRetryRecord(c) \/ queue_add(c) \/ store_job_id(c)

cancel_step(k) == cancel_remove(k) \/ cancel_update(k)

job_step(i) ==
    \/ job_start(i) \/ job_succeed(i) \/ job_find(i) \/ job_remove(i)
    \/ job_update(i) \/ job_fail(i)

Next ==
    \/ \E c \in Calls : \/ \E p \in Pairs : enqueueRetries(c, p)
                        \/ call_step(c) \/ call_error(c)
    \/ \E k \in Cancels : \/ \E p \in Pairs : cancelRetries(k, p)
                          \/ cancel_step(k) \/ cancel_error(k)
    \/ \E i \in RowId : job_step(i) \/ job_error(i)
    \/ crash

Spec == Init /\ [][Next]_vars

-----------------------------------------------------------------------------
(* Properties.                                                             *)

\* enqueueRetries promises not to schedule retries while some are pending.
\* Its check and its inserts are apart, so overlapping calls can all pass;
\* but an attempt is never pending more often than there are such calls, and
\* just once where calls do not overlap, whatever is cancelled, run and
\* scheduled again meanwhile.
PendingBounded ==
    \A p \in Pairs, a \in 1..MAX_RETRIES :
        Cardinality({i \in pending(p) : rows[i].attemptNumber = a}) <= Cardinality(Calls)

\* A cancelled retry is not run later, unless the row was read before its job
\* id was stored, the job was running already or Redis refused the removal.
CancelledJobsAreGone ==
    \A i \in DOMAIN rows :
        rows[i].status = "cancelled" /\ queue[i] = "delayed" => i \in unlinked

\* No retry is stranded, which would keep later failures of its pair from
\* being retried: a pending row has a job that is still to be run, a call
\* that is about to add one or a loop that is about to cancel the row, unless
\* an error or a crash between the two stores has separated row and job.
PendingIsDriven ==
    \A i \in DOMAIN rows : rows[i].status = "pending" =>
        \/ queue[i] \in {"delayed", "active"}
        \/ \E c \in Calls : call[c].pc = "add" /\ call[c].id = i
        \/ \E k \in Cancels : cancel[k].pc = "update" /\ cancel[k].hand.id = i
        \/ \E j \in RowId : job[j].pc = "update" /\ job[j].hand.id = i
        \/ i \in lost
====
