--------------------------- MODULE WebhookProofs ---------------------------
(* What holds of the two ways webhooks are delivered: of the durable       *)
(* worker (WebhookWorker), for every number of replicas, activations, rows *)
(* and attempts, and of the in-process queue (WebhookQueue), for every     *)
(* number of jobs, overlapping calls and attempts.                         *)
EXTENDS WebhookWorker, WebhookQueue, WellFoundedInduction, TLAPS

-----------------------------------------------------------------------------
(* The durable worker.                                                     *)

\* Every page of rows has an oldest one (ORDER BY created_at, webhook.ts:131).
LEMMA LeastExists ==
    ASSUME NEW T \in SUBSET Nat, T # {}
    PROVE  \E x \in T : \A y \in T : x <= y
<1> DEFINE R == OpToRel(<, Nat)
<1>1. IsWellFoundedOn(R, Nat)
  BY NatLessThanWellFounded
<1>2. \A x, y \in Nat : ~(<<y, x>> \in R) => x <= y
  BY DEF OpToRel
<1> HIDE DEF R
<1>3. PICK x \in T : \A y \in T : ~(<<y, x>> \in R)
  BY <1>1, WFMin
<1>4. \A y \in T : x \in Nat /\ y \in Nat
  OBVIOUS
<1>5. QED
  BY <1>2, <1>3, <1>4, Zenon

\* The row an activation works on is one of its page.
LEMMA CurrentType ==
    ASSUME TypeOK, NEW w \in Replica, NEW t \in Task, Attempting(w, t)
    PROVE  /\ Current(w, t) \in tasks[w][t].batch
           /\ Current(w, t) \in Item
<1> DEFINE page == tasks[w][t].batch
<1>1. page \subseteq Item /\ page # {}
  BY DEF TypeOK, Activation, Attempting
<1>2. {i.id : i \in page} \in SUBSET Nat /\ {i.id : i \in page} # {}
  BY <1>1, WorkerAssumption DEF Item
<1>3. PICK x \in {i.id : i \in page} : \A y \in {i.id : i \in page} : x <= y
  BY <1>2, LeastExists
<1>4. \E i \in page : \A j \in page : i.id <= j.id
  BY <1>3
<1>5. Current(w, t) \in page
  BY <1>4 DEF Current
<1>6. QED
  BY <1>1, <1>5

\* An activation that holds a 2xx answer has it from the row it works on.
Answered(w, t) ==
    tasks[w][t].response = "2xx" => Attempting(w, t) /\ Current(w, t).id \in accepted

\* The inductive invariant.
IndInv ==
    /\ TypeOK
    /\ DeliveredMeansAccepted
    /\ \A w \in Replica, t \in Task : Answered(w, t)

\* What attemptDelivery writes is a row, delivered only after a 2xx answer.
LEMMA OutcomeType ==
    ASSUME NEW response \in {"2xx", "error"}, NEW attempt \in 1..MAX_ATTEMPTS
    PROVE  /\ outcome(response, attempt) \in Row
           /\ outcome(response, attempt).status = "delivered" => response = "2xx"
<1>1. outcome(response, attempt).status = "delivered" => response = "2xx"
  BY DEF outcome
<1>2. outcome(response, attempt) \in Row
  BY DEF outcome, Row
<1>3. QED
  BY <1>1, <1>2

\* The page that a poll selects holds rows of the table.
LEMMA SelectedType ==
    ASSUME TypeOK PROVE selected \subseteq Item
<1> SUFFICES ASSUME NEW i \in selected PROVE i \in Item
  OBVIOUS
<1>1. PICK d \in Delivery : rows[d] # None /\ i = [id |-> d, attempt |-> rows[d].attempt]
  BY DEF selected
<1>2. rows[d] \in Row
  BY <1>1 DEF TypeOK
<1>3. QED
  BY <1>1, <1>2 DEF Item, Row

\* The activations that do not hold an answer: none, waiting for a timer, or
\* at the start of a page.
LEMMA ActivationTypes ==
    /\ \A b \in SUBSET Item : \A k \in {"none", "timer", "loop", "enqueue"} :
          Started(k, b) \in Activation /\ Started(k, b).response = "none"
    /\ Free \in Activation /\ Free.response = "none"
  BY DEF Started, Free, Activation

-----------------------------------------------------------------------------
\* The first state satisfies the invariant.
LEMMA InvInit == Init => IndInv
<1> SUFFICES ASSUME Init PROVE IndInv
  OBVIOUS
<1>1. TypeOK
  BY ActivationTypes DEF Init, TypeOK
<1>2. DeliveredMeansAccepted
  BY DEF Init, DeliveredMeansAccepted
<1>3. \A w \in Replica, t \in Task : Answered(w, t)
  BY ActivationTypes DEF Init, Answered
<1>4. QED
  BY <1>1, <1>2, <1>3 DEF IndInv

\* A step that gives one activation a state without an answer keeps what the
\* others hold, as no endpoint takes an answer back.
LEMMA OneActivation ==
    ASSUME IndInv, NEW w \in Replica, NEW t \in Task, NEW a \in Activation,
           a.response # "2xx", tasks' = [tasks EXCEPT ![w][t] = a],
           accepted \subseteq accepted'
    PROVE  /\ tasks' \in [Replica -> [Task -> Activation]]
           /\ \A v \in Replica, u \in Task : Answered(v, u)'
<1>1. tasks' \in [Replica -> [Task -> Activation]]
  BY DEF IndInv, TypeOK
<1>2. ASSUME NEW v \in Replica, NEW u \in Task PROVE Answered(v, u)'
  <2>1. CASE v = w /\ u = t
    BY <2>1 DEF IndInv, TypeOK, Answered
  <2>2. CASE ~(v = w /\ u = t)
    <3>1. tasks'[v][u] = tasks[v][u]
      BY <2>2 DEF IndInv, TypeOK
    <3>2. QED
      BY <3>1 DEF IndInv, Answered, Attempting, Current
  <2>3. QED
    BY <2>1, <2>2
<1>3. QED
  BY <1>1, <1>2

\* The end of a pass, with or without a new timer.
LEMMA PassEnded ==
    ASSUME IndInv, NEW w \in Replica, NEW t \in Task, NEW kind, pass_ended(w, t, kind),
           accepted' = accepted
    PROVE  /\ tasks' \in [Replica -> [Task -> Activation]]
           /\ timer' \in [Replica -> Task \cup {None}]
           /\ \A v \in Replica, u \in Task : Answered(v, u)'
<1>1. \E a \in Activation : a.response = "none" /\ tasks' = [tasks EXCEPT ![w][t] = a]
  BY ActivationTypes DEF pass_ended
<1>2. timer' \in [Replica -> Task \cup {None}]
  BY DEF pass_ended, IndInv, TypeOK
<1>3. QED
  BY <1>1, <1>2, OneActivation

\* A step that leaves the rows and the answers alone.
LEMMA TaskOnly ==
    ASSUME IndInv, UNCHANGED <<rows, up, accepted>>,
           running' \in [Replica -> BOOLEAN], timer' \in [Replica -> Task \cup {None}],
           tasks' \in [Replica -> [Task -> Activation]],
           \A v \in Replica, u \in Task : Answered(v, u)'
    PROVE  IndInv'
  BY DEF IndInv, TypeOK, DeliveredMeansAccepted

\* Polls, activations and their ends.
LEMMA InvPoll ==
    ASSUME IndInv, NEW w \in Replica, NEW t \in Task,
           processQueue(w, t) \/ start(w, t) \/ pass_over(w, t) \/ query_error(w, t)
    PROVE  IndInv'
<1>0. TypeOK
  BY DEF IndInv
<1>1. ASSUME processDueDeliveries(w, t), accepted' = accepted
      PROVE  /\ tasks' \in [Replica -> [Task -> Activation]]
             /\ \A v \in Replica, u \in Task : Answered(v, u)'
  <2>1. selected \in SUBSET Item
    BY <1>0, SelectedType
  <2>2. \E a \in Activation : a.response = "none" /\ tasks' = [tasks EXCEPT ![w][t] = a]
    BY <1>1, <2>1, ActivationTypes DEF processDueDeliveries
  <2>3. QED
    BY <1>1, <2>2, OneActivation
<1>2. CASE processQueue(w, t)
  <2>1. UNCHANGED <<rows, running, timer, up, accepted>>
    BY <1>2 DEF processQueue
  <2>2. CASE running[w]
    BY <1>0, <1>1, <1>2, <2>1, <2>2, TaskOnly DEF processQueue, TypeOK
  <2>3. CASE ~running[w]
    <3>1. tasks' = [tasks EXCEPT ![w][t] = Free]
      BY <1>2, <2>3 DEF processQueue
    <3>2. QED
      BY <1>0, <2>1, <3>1, OneActivation, ActivationTypes, TaskOnly DEF TypeOK
  <2>4. QED
    BY <2>2, <2>3
<1>3. CASE start(w, t)
  <2>1. UNCHANGED <<rows, timer, up, accepted>> /\ processDueDeliveries(w, t)
    BY <1>3 DEF start
  <2>2. running' \in [Replica -> BOOLEAN]
    BY <1>0, <1>3 DEF start, TypeOK
  <2>3. QED
    BY <1>0, <1>1, <2>1, <2>2, TaskOnly DEF TypeOK
<1>4. CASE pass_over(w, t) \/ query_error(w, t)
  <2>1. /\ UNCHANGED <<rows, running, up, accepted>>
        /\ \E k : pass_ended(w, t, k)
    BY <1>4 DEF pass_over, query_error
  <2>2. running' \in [Replica -> BOOLEAN]
    BY <1>0, <2>1 DEF TypeOK
  <2>3. QED
    BY <2>1, <2>2, PassEnded, TaskOnly
<1>5. QED
  BY <1>2, <1>3, <1>4

\* A new row, and its first attempt.
LEMMA InvEnqueue ==
    ASSUME IndInv, NEW w \in Replica, NEW t \in Task, NEW d \in Delivery, enqueue(w, t, d)
    PROVE  IndInv'
<1>0. TypeOK /\ DeliveredMeansAccepted
  BY DEF IndInv
<1>1. NewRow \in Row /\ NewRow.status = "pending" /\ [id |-> d, attempt |-> 1] \in Item
  BY WorkerAssumption DEF NewRow, Row, Item
<1>2. rows' \in [Delivery -> Row \cup {None}] /\ DeliveredMeansAccepted'
  BY <1>0, <1>1 DEF enqueue, TypeOK, DeliveredMeansAccepted
<1>3. /\ tasks' \in [Replica -> [Task -> Activation]]
      /\ \A v \in Replica, u \in Task : Answered(v, u)'
  <2>1. {[id |-> d, attempt |-> 1]} \in SUBSET Item
    BY <1>1
  <2>2. \E a \in Activation : a.response = "none" /\ tasks' = [tasks EXCEPT ![w][t] = a]
    BY <2>1, ActivationTypes DEF enqueue
  <2>3. QED
    BY <2>2, OneActivation DEF enqueue
<1>4. QED
  BY <1>0, <1>2, <1>3 DEF enqueue, IndInv, TypeOK

\* The answer of a POST is remembered as accepted before the row is written.
LEMMA InvPost ==
    ASSUME IndInv, NEW w \in Replica, NEW t \in Task, attemptDelivery_post(w, t)
    PROVE  IndInv'
<1>0. TypeOK /\ DeliveredMeansAccepted
  BY DEF IndInv
<1> DEFINE d == Current(w, t).id
<1>1. /\ Attempting(w, t) /\ UNCHANGED <<rows, running, timer, up>>
      /\ accepted' = IF d \in up THEN accepted \cup {d} ELSE accepted
  BY DEF attemptDelivery_post
<1>2. PICK r \in {"2xx", "error"} :
         tasks' = [tasks EXCEPT ![w][t].response = r] /\ (r = "2xx" => d \in up)
  BY DEF attemptDelivery_post
<1>3. accepted' \subseteq Delivery /\ accepted \subseteq accepted' /\ (r = "2xx" => d \in accepted')
  BY <1>0, <1>1, <1>2 DEF TypeOK
<1> HIDE DEF d
<1>4. /\ tasks' \in [Replica -> [Task -> Activation]]
      /\ tasks'[w][t].response = r /\ tasks'[w][t].batch = tasks[w][t].batch
      /\ \A v \in Replica, u \in Task : ~(v = w /\ u = t) => tasks'[v][u] = tasks[v][u]
  <2>1. PICK a \in Activation : a = tasks[w][t]
    BY <1>0 DEF TypeOK
  <2>2. PICK b \in Activation : b = [a EXCEPT !.response = r]
    BY DEF Activation
  <2>3. b.response = r /\ b.batch = a.batch
    BY <2>2 DEF Activation
  <2>4. tasks' = [tasks EXCEPT ![w][t] = b]
    BY <1>2, <2>1, <2>2
  <2>5. QED
    BY <1>0, <2>1, <2>3, <2>4 DEF TypeOK
<1>5. ASSUME NEW v \in Replica, NEW u \in Task PROVE Answered(v, u)'
  <2>1. CASE v = w /\ u = t
    BY <1>1, <1>3, <1>4, <2>1 DEF Answered, Attempting, Current, d
  <2>2. CASE ~(v = w /\ u = t)
    <3>1. tasks'[v][u] = tasks[v][u]
      BY <1>4, <2>2
    <3>2. QED
      BY <1>3, <3>1 DEF IndInv, Answered, Attempting, Current
  <2>3. QED
    BY <2>1, <2>2
<1>6. DeliveredMeansAccepted'
  BY <1>0, <1>1, <1>3 DEF DeliveredMeansAccepted
<1>7. QED
  BY <1>0, <1>1, <1>3, <1>4, <1>5, <1>6 DEF IndInv, TypeOK

\* The row is written with the outcome of the answer, over whatever another
\* replica has written since.
LEMMA InvUpdate ==
    ASSUME IndInv, NEW w \in Replica, NEW t \in Task, attemptDelivery_update(w, t)
    PROVE  IndInv'
<1>0. TypeOK /\ DeliveredMeansAccepted
  BY DEF IndInv
<1> DEFINE i == Current(w, t)
<1> DEFINE r == tasks[w][t].response
<1>1. /\ Attempting(w, t) /\ r # "none" /\ UNCHANGED <<running, up, accepted>>
      /\ rows' = [rows EXCEPT ![i.id] = outcome(r, i.attempt)]
  BY DEF attemptDelivery_update
<1>2. r \in {"2xx", "error"} /\ i \in Item
  BY <1>0, <1>1, CurrentType DEF TypeOK, Activation
<1>3. r = "2xx" => i.id \in accepted
  BY DEF IndInv, Answered
<1>4. i.id \in Delivery /\ i.attempt \in 1..MAX_ATTEMPTS
  BY <1>2 DEF Item
<1> HIDE DEF i, r
<1>5. /\ outcome(r, i.attempt) \in Row
      /\ outcome(r, i.attempt).status = "delivered" => r = "2xx"
  BY <1>2, <1>4, OutcomeType
<1>6. rows' \in [Delivery -> Row \cup {None}] /\ DeliveredMeansAccepted'
  BY <1>0, <1>1, <1>3, <1>4, <1>5 DEF TypeOK, DeliveredMeansAccepted
<1>7. /\ tasks' \in [Replica -> [Task -> Activation]]
      /\ timer' \in [Replica -> Task \cup {None}]
      /\ \A v \in Replica, u \in Task : Answered(v, u)'
  <2>1. CASE tasks[w][t].batch = {i}
    BY <1>1, <2>1, PassEnded DEF attemptDelivery_update, i
  <2>2. CASE tasks[w][t].batch # {i}
    <3>1. /\ tasks' = [tasks EXCEPT ![w][t] = Started(tasks[w][t].kind, tasks[w][t].batch \ {i})]
          /\ timer' = timer
      BY <2>2 DEF attemptDelivery_update, i
    <3>2. /\ Started(tasks[w][t].kind, tasks[w][t].batch \ {i}) \in Activation
          /\ Started(tasks[w][t].kind, tasks[w][t].batch \ {i}).response = "none"
      <4>1. /\ tasks[w][t].kind \in {"none", "timer", "loop", "enqueue"}
            /\ tasks[w][t].batch \ {i} \in SUBSET Item
        BY <1>0 DEF TypeOK, Activation
      <4>2. QED
        BY <4>1, ActivationTypes
    <3>3. QED
      BY <1>0, <1>1, <3>1, <3>2, OneActivation DEF TypeOK
  <2>3. QED
    BY <2>1, <2>2
<1>8. QED
  BY <1>0, <1>1, <1>6, <1>7 DEF IndInv, TypeOK

\* stop(), the death of a process, retry times and endpoints.
LEMMA InvRest ==
    ASSUME IndInv,
           \/ \E w \in Replica : stop(w) \/ crash(w)
           \/ \E d \in Delivery : delay_elapses(d) \/ endpoint_changes(d)
    PROVE  IndInv'
<1>0. TypeOK /\ DeliveredMeansAccepted
  BY DEF IndInv
<1>1. ASSUME NEW w \in Replica, stop(w) \/ crash(w) PROVE IndInv'
  <2>1. /\ UNCHANGED <<rows, up, accepted>>
        /\ running' \in [Replica -> BOOLEAN] /\ timer' \in [Replica -> Task \cup {None}]
    BY <1>0, <1>1 DEF stop, crash, TypeOK
  <2>2. /\ tasks' \in [Replica -> [Task -> Activation]]
        /\ \A v \in Replica, u \in Task : tasks'[v][u] = tasks[v][u] \/ tasks'[v][u] = Free
    <3>1. CASE crash(w)
      BY <1>0, <3>1, ActivationTypes DEF crash, TypeOK
    <3>2. CASE stop(w)
      <4> DEFINE k == timer[w]
      <4> DEFINE a == IF tasks[w][k].kind = "timer" THEN Free ELSE tasks[w][k]
      <4>1. tasks' = [tasks EXCEPT ![w] = [tasks[w] EXCEPT ![k] = a]]
        BY <3>2 DEF stop
      <4>2. tasks[w] \in [Task -> Activation]
        BY <1>0 DEF TypeOK
      <4>3. k \in Task => a \in Activation
        BY <4>2, ActivationTypes
      <4>4. a = Free \/ a = tasks[w][k]
        OBVIOUS
      <4> HIDE DEF a, k
      <4>5. /\ [tasks[w] EXCEPT ![k] = a] \in [Task -> Activation]
            /\ \A u \in Task : [tasks[w] EXCEPT ![k] = a][u] \in {tasks[w][u], Free}
        BY <4>2, <4>3, <4>4
      <4>6. QED
        BY <1>0, <4>1, <4>5 DEF TypeOK
    <3>3. QED
      BY <1>1, <3>1, <3>2
  <2>3. ASSUME NEW v \in Replica, NEW u \in Task PROVE Answered(v, u)'
    <3>1. CASE tasks'[v][u] = tasks[v][u]
      BY <2>1, <3>1 DEF IndInv, Answered, Attempting, Current
    <3>2. CASE tasks'[v][u] = Free
      BY <3>2, ActivationTypes DEF Answered
    <3>3. QED
      BY <2>2, <3>1, <3>2
  <2>4. QED
    BY <2>1, <2>2, <2>3, TaskOnly
<1>2. ASSUME NEW d \in Delivery, delay_elapses(d) PROVE IndInv'
  <2>1. PICK a \in Row : a = rows[d]
    BY <1>0, <1>2 DEF delay_elapses, TypeOK
  <2>2. PICK b \in Row : b = [a EXCEPT !.next_retry_at = "due"]
    BY DEF Row
  <2>3. b.status = a.status
    BY <2>2 DEF Row
  <2>4. rows' = [rows EXCEPT ![d] = b]
    BY <1>2, <2>1, <2>2 DEF delay_elapses
  <2>5. rows' \in [Delivery -> Row \cup {None}] /\ UNCHANGED <<tasks, accepted>>
    BY <1>0, <1>2, <2>4 DEF TypeOK, delay_elapses
  <2>6. DeliveredMeansAccepted'
    <3>1. \A e \in Delivery : rows'[e] = IF e = d THEN b ELSE rows[e]
      BY <1>0, <2>4 DEF TypeOK
    <3>2. rows[d] # None
      BY <1>2 DEF delay_elapses
    <3>3. QED
      BY <1>0, <2>1, <2>3, <2>5, <3>1, <3>2 DEF DeliveredMeansAccepted
  <2>7. \A v \in Replica, u \in Task : Answered(v, u)'
    BY <2>5 DEF IndInv, Answered, Attempting, Current
  <2>8. QED
    BY <1>0, <1>2, <2>5, <2>6, <2>7 DEF IndInv, TypeOK, delay_elapses
<1>3. ASSUME NEW d \in Delivery, endpoint_changes(d) PROVE IndInv'
  <2>1. UNCHANGED <<rows, running, timer, tasks, accepted>> /\ up' \subseteq Delivery
    BY <1>0, <1>3 DEF endpoint_changes, TypeOK
  <2>2. \A v \in Replica, u \in Task : Answered(v, u)'
    BY <2>1 DEF IndInv, Answered, Attempting, Current
  <2>3. QED
    BY <1>0, <2>1, <2>2 DEF IndInv, TypeOK, DeliveredMeansAccepted
<1>4. QED
  BY <1>1, <1>2, <1>3

\* The invariant holds in every reachable state.
THEOREM Invariance == Spec => []IndInv
<1>1. IndInv /\ [Next]_vars => IndInv'
  <2> SUFFICES ASSUME IndInv, [Next]_vars PROVE IndInv'
    OBVIOUS
  <2>1. CASE UNCHANGED vars
    BY <2>1 DEF vars, IndInv, TypeOK, DeliveredMeansAccepted, Answered, Attempting, Current
  <2>2. QED
    BY <2>1, InvPoll, InvEnqueue, InvPost, InvUpdate, InvRest DEF Next, TaskStep
<1>2. QED
  BY <1>1, InvInit, PTL DEF Spec

\* The worker's variables and the columns of the table keep their types.
THEOREM TypeCorrect == Spec => []TypeOK
<1>1. IndInv => TypeOK
  BY DEF IndInv
<1>2. QED
  BY <1>1, Invariance, PTL

\* No replica marks a row delivered that the merchant has not accepted, in any
\* interleaving of polls, posts, updates, stops and crashes.
THEOREM DeliveredHolds == Spec => []DeliveredMeansAccepted
<1>1. IndInv => DeliveredMeansAccepted
  BY DEF IndInv
<1>2. QED
  BY <1>1, Invariance, PTL

-----------------------------------------------------------------------------
(* The in-process queue.                                                   *)

\* Neither a stored job nor the copy a call will store counts an attempt that
\* was not made since the job was enqueued or last replayed, late calls and
\* the jobs they stored over excepted; and a dead-lettered job counts all of
\* its attempts: what makes NotGivenUpEarly inductive.
CopiesCountPosts ==
    \A c \in Caller : calls[c] # NoEntry /\ c \notin late /\ calls[c].id \notin disturbed =>
        calls[c].job.attempts <= posts[calls[c].id]
JobsCountPosts ==
    \A id \in Job : jobs[id] # NoEntry =>
        /\ id \notin disturbed => jobs[id].attempts <= posts[id]
        /\ jobs[id].status = "dead_lettered" => jobs[id].attempts >= QUEUE_MAX_ATTEMPTS

QueueInv == QueueTypeOK /\ CopiesCountPosts /\ JobsCountPosts /\ DeadLettersAreReplayable

\* The empty store satisfies the invariant.
LEMMA QueueInvInit == QueueInit => QueueInv
BY DEF QueueInit, QueueInv, QueueTypeOK, CopiesCountPosts, JobsCountPosts, DeadLettersAreReplayable

\* deliver() up to its await.
LEMMA QueueDeliver ==
    ASSUME QueueInv, NEW c \in Caller, NEW id \in Job, deliver(c, id)
    PROVE  QueueInv'
<1> USE DEF QueueInv
<1>1. /\ jobs[id] \in WebhookJob /\ jobs[id].attempts \in Nat /\ posts[id] \in Nat
      /\ id \notin disturbed => jobs[id].attempts <= posts[id]
    BY DEF QueueTypeOK, deliver, WebhookJob, JobsCountPosts
<1> DEFINE job == [status |-> "delivering", attempts |-> jobs[id].attempts + 1]
<1>2. job \in WebhookJob /\ job.status = "delivering" /\ job.attempts = jobs[id].attempts + 1
    BY <1>1 DEF WebhookJob
<1>3. /\ jobs' = [jobs EXCEPT ![id] = job]
      /\ calls' = [calls EXCEPT ![c] = [id |-> id, job |-> job]]
      /\ posts' = [posts EXCEPT ![id] = @ + 1]
      /\ UNCHANGED <<deadLetters, late, disturbed>>
    BY DEF deliver
<1> HIDE DEF job
<1>4. \A j \in Job : posts[j] \in Nat /\ posts'[j] \in Nat /\ posts[j] <= posts'[j]
    BY <1>3 DEF QueueTypeOK
<1>5. posts'[id] = posts[id] + 1
    BY <1>3 DEF QueueTypeOK
<1>6. [id |-> id, job |-> job] \in [id : Job, job : WebhookJob]
    BY <1>2
<1>7. QueueTypeOK'
    BY <1>2, <1>3, <1>6 DEF QueueTypeOK
<1>8. CopiesCountPosts'
  <2> SUFFICES ASSUME NEW d \in Caller, calls'[d] # NoEntry, d \notin late, calls'[d].id \notin disturbed
               PROVE  calls'[d].job.attempts <= posts'[calls'[d].id]
      BY <1>3 DEF CopiesCountPosts
  <2>1. CASE d = c
      BY <2>1, <1>1, <1>2, <1>3, <1>5 DEF QueueTypeOK
  <2>2. CASE d # c
    <3>1. calls'[d] = calls[d] /\ calls[d] \in [id : Job, job : WebhookJob]
        BY <2>2, <1>3 DEF QueueTypeOK
    <3>2. calls[d].job.attempts <= posts[calls[d].id] /\ calls[d].job.attempts \in Nat
        BY <3>1 DEF CopiesCountPosts, WebhookJob
    <3> QED
        BY <3>1, <3>2, <1>4
  <2> QED
      BY <2>1, <2>2
<1>9. JobsCountPosts'
  <2> SUFFICES ASSUME NEW j \in Job, jobs'[j] # NoEntry
               PROVE  /\ j \notin disturbed => jobs'[j].attempts <= posts'[j]
                      /\ jobs'[j].status = "dead_lettered" => jobs'[j].attempts >= QUEUE_MAX_ATTEMPTS
      BY <1>3 DEF JobsCountPosts
  <2>1. jobs'[j] = IF j = id THEN job ELSE jobs[j]
      BY <1>3 DEF QueueTypeOK
  <2>2. CASE j = id
      BY <2>1, <2>2, <1>1, <1>2, <1>5
  <2>3. CASE j # id
    <3>1. jobs[j] = jobs'[j] /\ jobs[j].attempts \in Nat
        BY <2>1, <2>3 DEF QueueTypeOK, WebhookJob
    <3> QED
        BY <3>1, <1>4 DEF JobsCountPosts
  <2> QED
      BY <2>2, <2>3
<1>10. DeadLettersAreReplayable'
  <2>1. \A j \in Job : jobs'[j] = IF j = id THEN job ELSE jobs[j]
      BY <1>3 DEF QueueTypeOK
  <2> QED
      BY <2>1, <1>2, <1>3 DEF DeadLettersAreReplayable
<1> QED
    BY <1>7, <1>8, <1>9, <1>10

\* The answers: a call stores the copy it made with a new status.
LEMMA QueueAnswer ==
    ASSUME QueueInv, NEW c \in Caller, deliver_succeeds(c) \/ deliver_fails(c)
    PROVE  QueueInv'
<1> USE DEF QueueInv
<1>1. /\ calls[c] # NoEntry /\ calls[c] \in [id : Job, job : WebhookJob]
      /\ c \notin late /\ calls[c].id \notin disturbed => calls[c].job.attempts <= posts[calls[c].id]
    BY DEF deliver_succeeds, deliver_fails, QueueTypeOK, CopiesCountPosts
<1>2. PICK id \in Job, n \in Nat : id = calls[c].id /\ n = calls[c].job.attempts
    BY <1>1 DEF WebhookJob
<1>3. \E st \in {"delivered", "failed", "dead_lettered"} :
         /\ jobs' = [jobs EXCEPT ![id] = [calls[c].job EXCEPT !.status = st]]
         /\ IF st = "dead_lettered"
            THEN n >= QUEUE_MAX_ATTEMPTS
                 /\ deadLetters' = [deadLetters EXCEPT ![id] = [attempts |-> n, replayCount |-> 0]]
            ELSE deadLetters' = deadLetters
  <2>1. CASE deliver_succeeds(c)
      BY <1>2, <2>1 DEF deliver_succeeds
  <2>2. CASE deliver_fails(c) /\ exhausted(calls[c].job)
      BY <1>2, <2>2 DEF deliver_fails, exhausted, saveDeadLetter
  <2>3. CASE deliver_fails(c) /\ ~exhausted(calls[c].job)
      BY <1>2, <2>3 DEF deliver_fails
  <2> QED
      BY <2>1, <2>2, <2>3
<1>4. PICK st \in {"delivered", "failed", "dead_lettered"} :
         /\ jobs' = [jobs EXCEPT ![id] = [calls[c].job EXCEPT !.status = st]]
         /\ IF st = "dead_lettered"
            THEN n >= QUEUE_MAX_ATTEMPTS
                 /\ deadLetters' = [deadLetters EXCEPT ![id] = [attempts |-> n, replayCount |-> 0]]
            ELSE deadLetters' = deadLetters
    BY <1>3
<1>5. PICK old \in WebhookJob : old = calls[c].job
    BY <1>1
<1>6. /\ [old EXCEPT !.status = st] \in WebhookJob
      /\ [old EXCEPT !.status = st].status = st
      /\ [old EXCEPT !.status = st].attempts = old.attempts
    BY DEF WebhookJob
<1>7. PICK job \in WebhookJob : job = [old EXCEPT !.status = st] /\ job.status = st /\ job.attempts = n
    BY <1>2, <1>5, <1>6
<1>8. jobs' = [jobs EXCEPT ![id] = job]
    BY <1>4, <1>5, <1>7
<1>9. /\ calls' = [calls EXCEPT ![c] = NoEntry] /\ UNCHANGED posts
      /\ late' = late \ {c} /\ disturbed' = IF c \in late THEN disturbed \cup {id} ELSE disturbed
    BY <1>2 DEF deliver_succeeds, deliver_fails, call_ends
<1>10. \A j \in Job : jobs'[j] = IF j = id THEN job ELSE jobs[j]
    BY <1>8 DEF QueueTypeOK
<1>11. QueueTypeOK'
  <2>1. [attempts |-> n, replayCount |-> 0] \in DeadLetterEntry
      BY DEF DeadLetterEntry
  <2>2. deadLetters' \in [Job -> DeadLetterEntry \cup {NoEntry}]
      BY <1>4, <2>1 DEF QueueTypeOK
  <2> QED
      BY <1>8, <1>9, <2>2 DEF QueueTypeOK
<1>12. CopiesCountPosts'
    BY <1>9 DEF CopiesCountPosts, QueueTypeOK
<1>13. JobsCountPosts'
  <2> SUFFICES ASSUME NEW j \in Job, jobs'[j] # NoEntry
               PROVE  /\ j \notin disturbed' => jobs'[j].attempts <= posts[j]
                      /\ jobs'[j].status = "dead_lettered" => jobs'[j].attempts >= QUEUE_MAX_ATTEMPTS
      BY <1>9 DEF JobsCountPosts
  <2>1. CASE j = id
    <3>1. jobs'[j].attempts = n /\ jobs'[j].status = st
        BY <2>1, <1>7, <1>10
    <3>2. id \notin disturbed' => n <= posts[id]
        BY <1>1, <1>2, <1>9
    <3>3. st = "dead_lettered" => n >= QUEUE_MAX_ATTEMPTS
        BY <1>4
    <3> QED
        BY <2>1, <3>1, <3>2, <3>3
  <2>2. CASE j # id
      BY <2>2, <1>9, <1>10 DEF JobsCountPosts
  <2> QED
      BY <2>1, <2>2
<1>14. DeadLettersAreReplayable'
  <2> SUFFICES ASSUME NEW j \in Job, jobs'[j] # NoEntry, jobs'[j].status = "dead_lettered"
               PROVE  deadLetters'[j] # NoEntry
      BY DEF DeadLettersAreReplayable
  <2>1. CASE j = id
    <3>1. st = "dead_lettered"
        BY <2>1, <1>7, <1>10
    <3>2. deadLetters'[id] = [attempts |-> n, replayCount |-> 0]
        BY <3>1, <1>4 DEF QueueTypeOK
    <3>3. [attempts |-> n, replayCount |-> 0] \in DeadLetterEntry
        BY DEF DeadLetterEntry
    <3> QED
        BY <2>1, <3>2, <3>3, QueueAssumption
  <2>2. CASE j # id
      BY <2>2, <1>4, <1>10 DEF DeadLettersAreReplayable, QueueTypeOK
  <2> QED
      BY <2>1, <2>2
<1> QED
    BY <1>11, <1>12, <1>13, <1>14

\* enqueue_job and replayDeadLetter store a new job.
LEMMA QueueNewJob ==
    ASSUME QueueInv, NEW id \in Job, enqueue_job(id) \/ replayDeadLetter(id)
    PROVE  QueueInv'
<1> USE DEF QueueInv
<1>1. NewJob \in WebhookJob /\ NewJob.attempts = 0 /\ NewJob.status = "pending"
    BY DEF NewJob, WebhookJob
<1>2. /\ jobs' = [jobs EXCEPT ![id] = NewJob] /\ UNCHANGED calls
      /\ posts' \in [Job -> Nat] /\ \A j \in Job : j # id => posts'[j] = posts[j]
      /\ posts'[id] \in Nat /\ late \subseteq late' /\ late' \subseteq Caller
      /\ disturbed' \subseteq Job /\ \A j \in Job : j # id => (j \in disturbed' <=> j \in disturbed)
      /\ \/ UNCHANGED <<posts, disturbed>>
         \/ \A c \in Caller : calls[c] # NoEntry /\ calls[c].id = id => c \in late'
    BY DEF enqueue_job, replayDeadLetter, replayed, QueueTypeOK
<1>3. \A j \in Job : jobs'[j] = IF j = id THEN NewJob ELSE jobs[j]
    BY <1>2 DEF QueueTypeOK
<1>4. /\ deadLetters' \in [Job -> DeadLetterEntry \cup {NoEntry}]
      /\ \A j \in Job : /\ deadLetters[j] # NoEntry =>
                               /\ deadLetters'[j] # NoEntry
                               /\ deadLetters'[j].attempts = deadLetters[j].attempts
                        /\ deadLetters[j] = NoEntry => deadLetters'[j] = NoEntry
  <2>1. CASE enqueue_job(id)
      BY <2>1 DEF enqueue_job, QueueTypeOK
  <2>2. CASE replayDeadLetter(id)
    <3>1. PICK e \in DeadLetterEntry : e = deadLetters[id]
        BY <2>2 DEF replayDeadLetter, QueueTypeOK
    <3>2. deadLetters' = [deadLetters EXCEPT ![id] = [e EXCEPT !.replayCount = @ + 1]]
        BY <2>2, <3>1 DEF replayDeadLetter, replayed
    <3>3. /\ [e EXCEPT !.replayCount = @ + 1] \in DeadLetterEntry
          /\ [e EXCEPT !.replayCount = @ + 1].attempts = e.attempts
        BY DEF DeadLetterEntry
    <3>4. \A j \in Job : deadLetters'[j] =
             IF j = id THEN [e EXCEPT !.replayCount = @ + 1] ELSE deadLetters[j]
        BY <3>2 DEF QueueTypeOK
    <3>5. deadLetters' \in [Job -> DeadLetterEntry \cup {NoEntry}]
        BY <3>2, <3>3 DEF QueueTypeOK
    <3> QED
        BY <3>1, <3>3, <3>4, <3>5, QueueAssumption
  <2> QED
      BY <2>1, <2>2
<1>5. QueueTypeOK'
    BY <1>1, <1>2, <1>4 DEF QueueTypeOK
<1>6. CopiesCountPosts'
  <2> SUFFICES ASSUME NEW c \in Caller, calls[c] # NoEntry, c \notin late', calls[c].id \notin disturbed'
               PROVE  calls[c].job.attempts <= posts'[calls[c].id]
      BY <1>2 DEF CopiesCountPosts
  <2>1. calls[c].id \in Job /\ c \notin late
      BY <1>2 DEF QueueTypeOK
  <2>2. calls[c].id \notin disturbed /\ posts'[calls[c].id] = posts[calls[c].id]
      BY <1>2, <2>1
  <2> QED
      BY <2>1, <2>2 DEF CopiesCountPosts
<1>7. JobsCountPosts'
    BY <1>1, <1>2, <1>3 DEF JobsCountPosts
<1>8. DeadLettersAreReplayable'
    BY <1>1, <1>3, <1>4 DEF DeadLettersAreReplayable
<1> QED
    BY <1>5, <1>6, <1>7, <1>8

\* The invariant holds in every reachable state.
THEOREM QueueInvariance == QueueSpec => []QueueInv
<1>1. QueueInv /\ [QueueNext]_queue_vars => QueueInv'
  <2> SUFFICES ASSUME QueueInv, [QueueNext]_queue_vars PROVE QueueInv'
      OBVIOUS
  <2>1. CASE UNCHANGED queue_vars
      BY <2>1 DEF queue_vars, QueueInv, QueueTypeOK, CopiesCountPosts, JobsCountPosts,
                  DeadLettersAreReplayable
  <2> QED
      BY <2>1, QueueNewJob, QueueDeliver, QueueAnswer DEF QueueNext
<1> QED
    BY QueueInvInit, <1>1, PTL DEF QueueSpec

\* The queue, its copies in flight and the dead letters keep their types.
THEOREM QueueTypeCorrect == QueueSpec => []QueueTypeOK
<1>1. QueueInv => QueueTypeOK
    BY DEF QueueInv
<1> QED
    BY <1>1, QueueInvariance, PTL

\* No webhook is given up before MAX_ATTEMPTS requests since it was enqueued
\* or last replayed, however calls of deliver() overlap, unless a call from
\* before the replay stores its old copy over it.
THEOREM NotGivenUpEarlyHolds == QueueSpec => []NotGivenUpEarly
<1>1. QueueInv => NotGivenUpEarly
    BY QueueAssumption DEF QueueInv, QueueTypeOK, WebhookJob, JobsCountPosts, NotGivenUpEarly
<1> QED
    BY <1>1, QueueInvariance, PTL

\* Every dead-lettered job can be replayed by an operator.
THEOREM ReplayableHolds == QueueSpec => []DeadLettersAreReplayable
<1>1. QueueInv => DeadLettersAreReplayable
    BY DEF QueueInv
<1> QED
    BY <1>1, QueueInvariance, PTL

\* A job that was delivered is never started again by enqueue(), deliver() or
\* replayDeadLetter(): only the answer of a call that was under way before
\* can overwrite it.
THEOREM LateAnswersHold == QueueSpec => DeliveredLeftOnlyByLateAnswers
<1>1. ASSUME QueueInv, [QueueNext]_queue_vars, NEW id \in Job, jobs[id] # NoEntry,
             jobs[id].status = "delivered", jobs'[id].status # "delivered"
      PROVE  \E c \in Caller : calls[c] # NoEntry /\ calls[c].id = id /\ calls'[c] = NoEntry
  <2>0. /\ jobs \in [Job -> WebhookJob \cup {NoEntry}]
        /\ calls \in [Caller -> [id : Job, job : WebhookJob] \cup {NoEntry}]
      BY <1>1 DEF QueueInv, QueueTypeOK
  <2>1. ASSUME NEW j \in Job, enqueue_job(j) \/ replayDeadLetter(j)
        PROVE  FALSE
    <3>1. j # id
        BY <1>1, <2>1 DEF enqueue_job, replayDeadLetter
    <3>2. jobs'[id] = jobs[id]
        BY <2>0, <2>1, <3>1 DEF enqueue_job, replayDeadLetter, replayed
    <3> QED
        BY <1>1, <3>2
  <2>2. ASSUME NEW c \in Caller, NEW j \in Job, deliver(c, j)
        PROVE  FALSE
    <3>1. j # id
        BY <1>1, <2>2 DEF deliver
    <3>2. jobs'[id] = jobs[id]
        BY <2>0, <2>2, <3>1 DEF deliver
    <3> QED
        BY <1>1, <3>2
  <2>3. ASSUME NEW c \in Caller, deliver_succeeds(c) \/ deliver_fails(c)
        PROVE  calls[c] # NoEntry /\ calls[c].id = id /\ calls'[c] = NoEntry
    <3>1. calls[c] # NoEntry /\ calls'[c] = NoEntry
        BY <2>0, <2>3 DEF deliver_succeeds, deliver_fails, call_ends
    <3>2. ASSUME calls[c].id # id
          PROVE  jobs'[id] = jobs[id]
        BY <2>0, <2>3, <3>2 DEF deliver_succeeds, deliver_fails
    <3> QED
        BY <1>1, <3>1, <3>2
  <2>4. ~UNCHANGED queue_vars
      BY <1>1 DEF queue_vars
  <2> QED
      BY <1>1, <2>1, <2>2, <2>3, <2>4 DEF QueueNext
<1>2. QueueInv /\ [QueueNext]_queue_vars =>
         [\A id \in Job :
            /\ jobs[id] # NoEntry /\ jobs[id].status = "delivered"
            /\ jobs'[id].status # "delivered"
            => \E c \in Caller :
                  calls[c] # NoEntry /\ calls[c].id = id /\ calls'[c] = NoEntry]_queue_vars
    BY <1>1
<1> QED
    BY <1>2, QueueInvariance, PTL DEF QueueSpec, DeliveredLeftOnlyByLateAnswers
=============================================================================
