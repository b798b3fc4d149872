------------------------- MODULE RetryQueueProofs -------------------------
(* What holds of the retry queue for every number of overlapping calls,     *)
(* cancellations, rows and faults, and every concurrency of the worker.     *)
EXTENDS RetryQueue, FiniteSetTheorems, SequenceTheorems, TLAPS

Adding(c) == call[c].pc \in {"add", "fill"}

\* A call works on a row of its own, which has no job id yet, and until the
\* job is added there is none.
CallsOK ==
    /\ \A c \in Calls : Adding(c) =>
          /\ call[c].id \in DOMAIN rows
          /\ ~rows[call[c].id].jobId
          /\ call[c].pc = "add" => queue[call[c].id] = "none"
    /\ \A c, d \in Calls : Adding(c) /\ Adding(d) /\ c # d => call[c].id # call[d].id

\* The job of a row was added, and has been removed or run.
Gone(i) == rows[i].jobId /\ queue[i] \in {"none", "done"}

\* What a cancelling loop knows of the rows it has read, and of the row it is
\* about to mark.
LoopOK(w) ==
    /\ \A r \in w.todo : r.id \in DOMAIN rows /\ (r.jobId => rows[r.id].jobId)
    /\ w.pc = "update" => /\ w.hand \in ReadRow
                          /\ w.hand.id \in DOMAIN rows
                          /\ w.hand.id \in unlinked \/ Gone(w.hand.id)

LoopsOK ==
    /\ \A k \in Cancels : LoopOK(cancel[k])
    /\ \A i \in RowId : LoopOK(job[i])

\* Only jobs of rows are queued, only active ones are run, and a job that has
\* begun to cancel the others has its own row marked.
JobsOK ==
    \A i \in RowId :
        /\ queue[i] # "none" => i \in DOMAIN rows
        /\ job[i].pc # "idle" => queue[i] = "active"
        /\ job[i].pc \in {"find", "remove", "update"} => rows[i].status # "pending"

CancelledOK ==
    \A i \in DOMAIN rows : rows[i].status = "cancelled" => i \in unlinked \/ Gone(i)

\* The calls that are still to insert an attempt for a pair count as if they
\* had done so.
ToInsert(p, a) ==
    {c \in Calls : /\ call[c].pc # "idle" /\ call[c].pair = p
                   /\ IF call[c].pc = "insert" THEN call[c].attempt <= a
                                               ELSE call[c].attempt < a}
PendingAt(p, a) == {i \in pending(p) : rows[i].attemptNumber = a}

Counted ==
    \A p \in Pairs, a \in 1..MAX_RETRIES :
        Cardinality(PendingAt(p, a)) + Cardinality(ToInsert(p, a)) <= Cardinality(Calls)

\* The inductive invariant.
IndInv ==
    /\ TypeOK /\ CallsOK /\ LoopsOK /\ JobsOK /\ CancelledOK /\ PendingIsDriven /\ Counted

-----------------------------------------------------------------------------
(* Rows.                                                                   *)

Finishes == {"succeeded", "failed", "cancelled"}

\* A new row (createRetryRecord).
LEMMA RowAdded ==
    ASSUME TypeOK, NEW r \in PaymentRetryRecord, rows' = Append(rows, r)
    PROVE  /\ rows' \in Seq(PaymentRetryRecord)
           /\ Len(rows) \in Nat /\ Len(rows') = Len(rows) + 1
           /\ DOMAIN rows = 1..Len(rows) /\ DOMAIN rows' = 1..(Len(rows) + 1)
           /\ \A i \in DOMAIN rows : rows'[i] = rows[i]
           /\ rows'[Len(rows) + 1] = r
<1>1. rows \in Seq(PaymentRetryRecord)
  BY DEF TypeOK
<1>2. QED
  BY <1>1, AppendProperties, LenProperties

\* An UPDATE of one row.
LEMMA RowChanged ==
    ASSUME TypeOK, NEW i \in DOMAIN rows, NEW r \in PaymentRetryRecord,
           rows' = [rows EXCEPT ![i] = r]
    PROVE  /\ rows' \in Seq(PaymentRetryRecord)
           /\ Len(rows) \in Nat /\ Len(rows') = Len(rows)
           /\ DOMAIN rows' = DOMAIN rows
           /\ \A j \in DOMAIN rows : rows'[j] = IF j = i THEN r ELSE rows[j]
<1>1. rows \in Seq(PaymentRetryRecord)
  BY DEF TypeOK
<1>2. i \in 1..Len(rows)
  BY <1>1, LenProperties
<1>3. rows' \in Seq(PaymentRetryRecord) /\ Len(rows') = Len(rows)
  BY <1>1, <1>2, ExceptSeq
<1>4. QED
  BY <1>1, <1>3, LenProperties

\* Every row is a record, and has a number.
LEMMA RowType ==
    ASSUME TypeOK, NEW i \in DOMAIN rows
    PROVE  /\ i \in RowId /\ i \in Nat /\ i <= Len(rows) /\ Len(rows) \in Nat
           /\ rows[i] \in PaymentRetryRecord
<1>1. rows \in Seq(PaymentRetryRecord) /\ Len(rows) <= MAX_ROWS
  BY DEF TypeOK
<1>2. Len(rows) \in Nat /\ DOMAIN rows = 1..Len(rows) /\ rows[i] \in PaymentRetryRecord
  BY <1>1, LenProperties, ElementOfSeq
<1>3. QED
  BY <1>1, <1>2, BoundsAssumption DEF RowId

\* The end of a retry: its status is written, and never is pending again.
Marked(i, s) == rows' = [rows EXCEPT ![i].status = s]

LEMMA RowMarked ==
    ASSUME TypeOK, NEW i \in DOMAIN rows, NEW s \in Finishes, Marked(i, s)
    PROVE  /\ rows' \in Seq(PaymentRetryRecord) /\ Len(rows') = Len(rows)
           /\ DOMAIN rows' = DOMAIN rows
           /\ \A j \in DOMAIN rows :
                 /\ rows'[j].pair = rows[j].pair /\ rows'[j].jobId = rows[j].jobId
                 /\ rows'[j].attemptNumber = rows[j].attemptNumber
                 /\ rows'[j].status = IF j = i THEN s ELSE rows[j].status
<1>1. rows[i] \in PaymentRetryRecord
  BY RowType
<1> DEFINE r == [rows[i] EXCEPT !.status = s]
<1>2. r \in PaymentRetryRecord
  BY <1>1 DEF PaymentRetryRecord, Finishes
<1>3. rows' = [rows EXCEPT ![i] = r]
  BY DEF Marked
<1>4. /\ rows' \in Seq(PaymentRetryRecord) /\ Len(rows') = Len(rows)
      /\ DOMAIN rows' = DOMAIN rows
      /\ \A j \in DOMAIN rows : rows'[j] = IF j = i THEN r ELSE rows[j]
  BY <1>2, <1>3, RowChanged
<1>5. /\ r.pair = rows[i].pair /\ r.jobId = rows[i].jobId
      /\ r.attemptNumber = rows[i].attemptNumber /\ r.status = s
  BY <1>1 DEF PaymentRetryRecord
<1>6. QED
  BY <1>4, <1>5

\* The job's id is stored.
LEMMA RowLinked ==
    ASSUME TypeOK, NEW i \in DOMAIN rows, rows' = [rows EXCEPT ![i].jobId = TRUE]
    PROVE  /\ rows' \in Seq(PaymentRetryRecord) /\ Len(rows') = Len(rows)
           /\ DOMAIN rows' = DOMAIN rows
           /\ \A j \in DOMAIN rows :
                 /\ rows'[j].pair = rows[j].pair /\ rows'[j].status = rows[j].status
                 /\ rows'[j].attemptNumber = rows[j].attemptNumber
                 /\ rows'[j].jobId = IF j = i THEN TRUE ELSE rows[j].jobId
<1>1. rows[i] \in PaymentRetryRecord
  BY RowType
<1> DEFINE r == [rows[i] EXCEPT !.jobId = TRUE]
<1>2. r \in PaymentRetryRecord
  BY <1>1 DEF PaymentRetryRecord
<1>3. rows' = [rows EXCEPT ![i] = r]
  OBVIOUS
<1>4. /\ rows' \in Seq(PaymentRetryRecord) /\ Len(rows') = Len(rows)
      /\ DOMAIN rows' = DOMAIN rows
      /\ \A j \in DOMAIN rows : rows'[j] = IF j = i THEN r ELSE rows[j]
  BY <1>2, <1>3, RowChanged
<1>5. /\ r.pair = rows[i].pair /\ r.status = rows[i].status
      /\ r.attemptNumber = rows[i].attemptNumber /\ r.jobId = TRUE
  BY <1>1 DEF PaymentRetryRecord
<1>6. QED
  BY <1>4, <1>5

-----------------------------------------------------------------------------
(* Facts that every step keeps.                                            *)

\* Rows only grow: nothing becomes pending again, and what has left the queue
\* for good stays out.
Grown ==
    /\ DOMAIN rows \subseteq DOMAIN rows'
    /\ \A i \in DOMAIN rows :
          /\ rows'[i].pair = rows[i].pair
          /\ rows'[i].attemptNumber = rows[i].attemptNumber
          /\ rows[i].jobId => rows'[i].jobId
          /\ rows'[i].status = "pending" => rows[i].status = "pending"
          /\ Gone(i) => Gone(i)'
    /\ unlinked \subseteq unlinked'

\* What happens to the jobs in every step but queue_add.
QueueMoves ==
    \A i \in RowId : \/ queue'[i] = queue[i]
                     \/ queue[i] = "delayed" /\ queue'[i] \in {"active", "none"}
                     \/ queue[i] = "active" /\ queue'[i] \in {"done", "delayed"}

\* Steps that leave the rows alone.
LEMMA RowsKept ==
    ASSUME IndInv, UNCHANGED rows, unlinked \subseteq unlinked', QueueMoves
    PROVE  Grown /\ CancelledOK'
<1>1. \A i \in DOMAIN rows : i \in RowId
  BY RowType DEF IndInv
<1>2. \A i \in DOMAIN rows : Gone(i) => Gone(i)'
  BY <1>1 DEF Gone, QueueMoves
<1>3. Grown
  BY <1>2 DEF Grown
<1>4. QED
  BY <1>2, <1>3 DEF CancelledOK, IndInv

\* Steps that mark a row.
LEMMA MarkKeeps ==
    ASSUME IndInv, NEW i \in DOMAIN rows, NEW s \in Finishes, Marked(i, s),
           s = "cancelled" => i \in unlinked \/ Gone(i),
           UNCHANGED unlinked, QueueMoves
    PROVE  Grown /\ CancelledOK'
<1>0. TypeOK
  BY DEF IndInv
<1>1. \A j \in DOMAIN rows : j \in RowId
  BY <1>0, RowType
<1>2. /\ DOMAIN rows' = DOMAIN rows
      /\ \A j \in DOMAIN rows :
            /\ rows'[j].pair = rows[j].pair /\ rows'[j].jobId = rows[j].jobId
            /\ rows'[j].attemptNumber = rows[j].attemptNumber
            /\ rows'[j].status = IF j = i THEN s ELSE rows[j].status
  BY <1>0, RowMarked
<1>3. \A j \in DOMAIN rows : Gone(j) => Gone(j)'
  BY <1>1, <1>2 DEF Gone, QueueMoves
<1>4. s # "pending"
  BY DEF Finishes
<1>5. Grown
  BY <1>2, <1>3, <1>4 DEF Grown
<1>6. CancelledOK'
  <2> SUFFICES ASSUME NEW j \in DOMAIN rows, rows'[j].status = "cancelled"
               PROVE  j \in unlinked \/ Gone(j)'
    BY <1>2 DEF CancelledOK
  <2>1. j \in unlinked \/ Gone(j)
    BY <1>2 DEF CancelledOK, IndInv
  <2>2. QED
    BY <2>1, <1>3
<1>7. QED
  BY <1>5, <1>6

\* Calls that a step does not touch.
LEMMA CallsKept ==
    ASSUME IndInv, UNCHANGED call, QueueMoves, DOMAIN rows' = DOMAIN rows,
           \A i \in DOMAIN rows : rows'[i].jobId = rows[i].jobId
    PROVE  CallsOK'
<1>1. \A i \in DOMAIN rows : i \in RowId
  BY RowType DEF IndInv
<1>2. CallsOK
  BY DEF IndInv
<1>3. QED
  BY <1>1, <1>2 DEF CallsOK, Adding, QueueMoves

\* Loops that a step does not touch.
LEMMA LoopKept ==
    ASSUME Grown
    PROVE  \A w : LoopOK(w) => /\ \A r \in w.todo : r.id \in DOMAIN rows' /\ (r.jobId => rows'[r.id].jobId)
                               /\ w.pc = "update" =>
                                     /\ w.hand \in ReadRow
                                     /\ w.hand.id \in DOMAIN rows'
                                     /\ \/ w.hand.id \in unlinked'
                                        \/ rows'[w.hand.id].jobId /\ queue'[w.hand.id] \in {"none", "done"}
  BY DEF Grown, LoopOK, Gone

LEMMA CancelsKept ==
    ASSUME IndInv, Grown, UNCHANGED cancel
    PROVE  \A k \in Cancels : LoopOK(cancel[k])'
<1>1. \A k \in Cancels : LoopOK(cancel[k])
  BY DEF IndInv, LoopsOK
<1>2. QED
  BY <1>1, LoopKept DEF LoopOK, Gone

LEMMA LoopsKept ==
    ASSUME IndInv, Grown, UNCHANGED <<cancel, job>>
    PROVE  LoopsOK'
<1>1. \A i \in RowId : LoopOK(job[i])
  BY DEF IndInv, LoopsOK
<1>2. \A i \in RowId : LoopOK(job[i])'
  BY <1>1, LoopKept DEF LoopOK, Gone
<1>3. QED
  BY <1>2, CancelsKept DEF LoopsOK

\* What is counted is finite.
LEMMA CountTypes ==
    ASSUME TypeOK, NEW p, NEW a
    PROVE  /\ IsFiniteSet(PendingAt(p, a)) /\ Cardinality(PendingAt(p, a)) \in Nat
           /\ IsFiniteSet(ToInsert(p, a)) /\ Cardinality(ToInsert(p, a)) \in Nat
           /\ Cardinality(ToInsert(p, a)) <= Cardinality(Calls)
           /\ Cardinality(Calls) \in Nat
<1>1. IsFiniteSet(RowId)
  BY FS_Interval, BoundsAssumption DEF RowId
<1>2. PendingAt(p, a) \in SUBSET RowId
  BY RowType DEF PendingAt, pending
<1>3. IsFiniteSet(PendingAt(p, a))
  BY <1>1, <1>2, FS_Subset
<1>4. ToInsert(p, a) \in SUBSET Calls
  BY DEF ToInsert
<1>5. IsFiniteSet(ToInsert(p, a)) /\ Cardinality(ToInsert(p, a)) <= Cardinality(Calls)
  BY <1>4, BoundsAssumption, FS_Subset
<1>6. QED
  BY <1>3, <1>5, BoundsAssumption, FS_CardinalityType

\* Steps that insert no row and begin no call.
LEMMA CountShrinks ==
    ASSUME IndInv, Grown, DOMAIN rows' = DOMAIN rows,
           \A p \in Pairs, a \in 1..MAX_RETRIES : ToInsert(p, a)' \subseteq ToInsert(p, a)
    PROVE  Counted'
<1> SUFFICES ASSUME NEW p \in Pairs, NEW a \in 1..MAX_RETRIES
             PROVE  Cardinality(PendingAt(p, a)') + Cardinality(ToInsert(p, a)')
                      <= Cardinality(Calls)
  BY DEF Counted
<1>0. TypeOK /\ Cardinality(PendingAt(p, a)) + Cardinality(ToInsert(p, a)) <= Cardinality(Calls)
  BY DEF IndInv, Counted
<1>1. PendingAt(p, a)' \subseteq PendingAt(p, a)
  BY DEF Grown, PendingAt, pending
<1>2. Cardinality(PendingAt(p, a)') <= Cardinality(PendingAt(p, a)) /\ Cardinality(PendingAt(p, a)') \in Nat
  BY <1>0, <1>1, CountTypes, FS_Subset, FS_CardinalityType
<1>3. Cardinality(ToInsert(p, a)') <= Cardinality(ToInsert(p, a)) /\ Cardinality(ToInsert(p, a)') \in Nat
  BY <1>0, CountTypes, FS_Subset, FS_CardinalityType
<1>4. QED
  BY <1>0, <1>2, <1>3, CountTypes

\* A step takes nothing from the ones who drive a pending row without
\* marking the row, giving it another driver, or losing it to a fault.
LEMMA DrivenKept ==
    ASSUME IndInv, Grown, DOMAIN rows' = DOMAIN rows, lost \subseteq lost',
           NEW D,
           \A i \in DOMAIN rows : i \in D => 
              \/ rows'[i].status # "pending"
              \/ queue'[i] \in {"delayed", "active"}
              \/ i \in lost'
              \/ \E k \in Cancels : cancel'[k].pc = "update" /\ cancel'[k].hand.id = i
              \/ \E j \in RowId : job'[j].pc = "update" /\ job'[j].hand.id = i,
           \A i \in RowId \ D : queue[i] \in {"delayed", "active"}
                                  => queue'[i] \in {"delayed", "active"},
           \A c \in Calls : call[c].pc = "add" => call'[c] = call[c] \/ call[c].id \in D,
           \A k \in Cancels : cancel[k].pc = "update"
                                => cancel'[k] = cancel[k] \/ cancel[k].hand.id \in D,
           \A j \in RowId : job[j].pc = "update" => job'[j] = job[j] \/ job[j].hand.id \in D
    PROVE  PendingIsDriven'
<1> SUFFICES ASSUME NEW i \in DOMAIN rows, rows'[i].status = "pending"
             PROVE  \/ queue'[i] \in {"delayed", "active"}
                    \/ \E c \in Calls : call'[c].pc = "add" /\ call'[c].id = i
                    \/ \E k \in Cancels : cancel'[k].pc = "update" /\ cancel'[k].hand.id = i
                    \/ \E j \in RowId : job'[j].pc = "update" /\ job'[j].hand.id = i
                    \/ i \in lost'
  BY DEF PendingIsDriven
<1>1. CASE i \in D
  BY <1>1
<1>2. CASE i \notin D
  <2>0. i \in RowId
    BY RowType DEF IndInv
  <2>1. \/ queue[i] \in {"delayed", "active"}
        \/ \E c \in Calls : call[c].pc = "add" /\ call[c].id = i
        \/ \E k \in Cancels : cancel[k].pc = "update" /\ cancel[k].hand.id = i
        \/ \E j \in RowId : job[j].pc = "update" /\ job[j].hand.id = i
        \/ i \in lost
    BY DEF IndInv, PendingIsDriven, Grown
  <2>2. CASE queue[i] \in {"delayed", "active"}
    BY <1>2, <2>0, <2>2
  <2>3. CASE \E c \in Calls : call[c].pc = "add" /\ call[c].id = i
    BY <1>2, <2>3
  <2>4. CASE \E k \in Cancels : cancel[k].pc = "update" /\ cancel[k].hand.id = i
    BY <1>2, <2>4
  <2>5. CASE \E j \in RowId : job[j].pc = "update" /\ job[j].hand.id = i
    BY <1>2, <2>5
  <2>6. QED
    BY <2>1, <2>2, <2>3, <2>4, <2>5
<1>3. QED
  BY <1>1, <1>2

-----------------------------------------------------------------------------
(* enqueueRetries (retryQueue.ts:109-176).                                 *)

Active == {i \in RowId : queue[i] = "active"}

\* A row's number, as a call, a loop or a job has it, is a row's number.
LEMMA IdType ==
    ASSUME IndInv
    PROVE  /\ \A c \in Calls : Adding(c) => call[c].id \in RowId
           /\ DOMAIN rows \subseteq RowId
  BY RowType DEF IndInv, CallsOK

LEMMA NoCallType ==
    ASSUME NEW n \in Nat
    PROVE  NoCall \in [pc : {"idle", "insert", "add", "fill"}, pair : Pairs,
                       attempt : 1..MAX_RETRIES, id : 0..n]
<1>1. (CHOOSE p \in Pairs : TRUE) \in Pairs
  BY PairsAssumption
<1>2. QED
  BY <1>1, BoundsAssumption DEF NoCall

\* The check has found nothing pending.
LEMMA EnqueueStep ==
    ASSUME IndInv, NEW c \in Calls, NEW p \in Pairs, enqueueRetries(c, p)
    PROVE  IndInv'
<1>0. TypeOK /\ CallsOK /\ LoopsOK /\ JobsOK /\ CancelledOK /\ PendingIsDriven /\ Counted
  BY DEF IndInv
<1>1. /\ UNCHANGED <<rows, queue, stalled, cancel, job, unlinked, lost, faults>>
      /\ call[c].pc = "idle" /\ pending(p) = {}
      /\ call' = [call EXCEPT ![c] = [NoCall EXCEPT !.pc = "insert", !.pair = p]]
  BY DEF enqueueRetries
<1>2. /\ call'[c].pc = "insert" /\ call'[c].pair = p
      /\ \A d \in Calls : d # c => call'[d] = call[d]
  BY <1>0, <1>1 DEF NoCall, TypeOK
<1>3. TypeOK'
  <2>1. Len(rows) \in Nat
    BY <1>0, LenProperties DEF TypeOK
  <2>2. [NoCall EXCEPT !.pc = "insert", !.pair = p]
           \in [pc : {"idle", "insert", "add", "fill"}, pair : Pairs,
                attempt : 1..MAX_RETRIES, id : 0..Len(rows)]
    BY <2>1, NoCallType
  <2>3. call' \in [Calls -> [pc : {"idle", "insert", "add", "fill"}, pair : Pairs,
                             attempt : 1..MAX_RETRIES, id : 0..Len(rows)]]
    BY <1>0, <1>1, <2>2 DEF TypeOK
  <2>4. QED
    BY <1>0, <1>1, <2>3 DEF TypeOK
<1>4. CallsOK'
  BY <1>0, <1>1, <1>2 DEF CallsOK, Adding
<1>5. LoopsOK' /\ JobsOK' /\ CancelledOK'
  BY <1>0, <1>1 DEF LoopsOK, LoopOK, Gone, JobsOK, CancelledOK
<1>6. PendingIsDriven'
  BY <1>0, <1>1, <1>2 DEF PendingIsDriven
<1>7. Counted'
  <2> SUFFICES ASSUME NEW q \in Pairs, NEW a \in 1..MAX_RETRIES
               PROVE  Cardinality(PendingAt(q, a)') + Cardinality(ToInsert(q, a)')
                        <= Cardinality(Calls)
    BY DEF Counted
  <2>1. PendingAt(q, a)' = PendingAt(q, a)
    BY <1>1 DEF PendingAt, pending
  <2>2. CASE q # p
    <3>1. ToInsert(q, a)' = ToInsert(q, a)
      BY <1>1, <1>2, <2>2 DEF ToInsert
    <3>2. QED
      BY <1>0, <2>1, <3>1 DEF Counted
  <2>3. CASE q = p
    <3>1. PendingAt(q, a) = {}
      BY <1>1, <2>3 DEF PendingAt
    <3>2. Cardinality(PendingAt(q, a)') = 0
      BY <2>1, <3>1, FS_EmptySet
    <3>3. Cardinality(ToInsert(q, a)') <= Cardinality(Calls) /\ Cardinality(ToInsert(q, a)') \in Nat
      <4>1. ToInsert(q, a)' \in SUBSET Calls
        BY DEF ToInsert
      <4>2. QED
        BY <4>1, BoundsAssumption, FS_Subset, FS_CardinalityType
    <3>4. QED
      BY <3>2, <3>3
  <2>4. QED
    BY <2>2, <2>3
<1>8. QED
  BY <1>3, <1>4, <1>5, <1>6, <1>7 DEF IndInv

\* The INSERT: the new row is counted instead of the call that was to insert it.
LEMMA CreateStep ==
    ASSUME IndInv, NEW c \in Calls, createRetryRecord(c)
    PROVE  IndInv'
<1>0. TypeOK /\ CallsOK /\ LoopsOK /\ JobsOK /\ CancelledOK /\ PendingIsDriven /\ Counted
  BY DEF IndInv
<1> DEFINE n == Len(rows) + 1
           row == [pair |-> call[c].pair, attemptNumber |-> call[c].attempt,
                   jobId |-> FALSE, status |-> "pending"]
<1>1. /\ UNCHANGED <<queue, stalled, cancel, job, unlinked, lost, faults>>
      /\ call[c].pc = "insert" /\ Len(rows) < MAX_ROWS
      /\ rows' = Append(rows, row)
      /\ call' = [call EXCEPT ![c].pc = "add", ![c].id = n]
  BY DEF createRetryRecord
<1>2. row \in PaymentRetryRecord
  BY <1>0 DEF TypeOK, PaymentRetryRecord
<1>3. /\ rows' \in Seq(PaymentRetryRecord)
      /\ Len(rows) \in Nat /\ Len(rows') = n
      /\ DOMAIN rows = 1..Len(rows) /\ DOMAIN rows' = 1..n
      /\ \A i \in DOMAIN rows : rows'[i] = rows[i]
      /\ rows'[n] = row
  BY <1>0, <1>1, <1>2, RowAdded
<1>4. /\ n \in RowId /\ n \notin DOMAIN rows
      /\ DOMAIN rows' = DOMAIN rows \cup {n}
  BY <1>1, <1>3, BoundsAssumption DEF RowId
<1>5. /\ call'[c].pc = "add" /\ call'[c].id = n /\ call'[c].pair = call[c].pair
      /\ call'[c].attempt = call[c].attempt
      /\ \A d \in Calls : d # c => call'[d] = call[d]
  BY <1>0, <1>1 DEF TypeOK
<1>6. queue[n] = "none"
  BY <1>0, <1>4 DEF JobsOK, TypeOK
<1>7. Grown
  BY <1>1, <1>3, <1>4 DEF Grown, Gone
<1>8. TypeOK'
  <2>1. \A d \in Calls : call'[d] \in [pc : {"idle", "insert", "add", "fill"}, pair : Pairs,
                                      attempt : 1..MAX_RETRIES, id : 0..n]
    BY <1>0, <1>1, <1>3 DEF TypeOK
  <2>2. call' \in [Calls -> [pc : {"idle", "insert", "add", "fill"}, pair : Pairs,
                             attempt : 1..MAX_RETRIES, id : 0..n]]
    BY <1>0, <1>1, <2>1 DEF TypeOK
  <2>3. QED
    BY <1>0, <1>1, <1>3, <2>2, BoundsAssumption DEF TypeOK
<1>9. CallsOK'
  <2>1. ASSUME NEW d \in Calls, Adding(d)'
        PROVE  /\ call'[d].id \in DOMAIN rows' /\ ~rows'[call'[d].id].jobId
               /\ call'[d].pc = "add" => queue'[call'[d].id] = "none"
               /\ d # c => call'[d].id # n
    <3>1. CASE d = c
      <4>1. row.jobId = FALSE
        OBVIOUS
      <4>2. QED
        BY <1>1, <1>3, <1>4, <1>5, <1>6, <3>1, <4>1
    <3>2. CASE d # c
      <4>1. call'[d] = call[d] /\ Adding(d)
        BY <1>5, <2>1, <3>2 DEF Adding
      <4>2. /\ call[d].id \in DOMAIN rows /\ ~rows[call[d].id].jobId
            /\ call[d].pc = "add" => queue[call[d].id] = "none"
        BY <1>0, <4>1 DEF CallsOK
      <4>3. rows'[call[d].id] = rows[call[d].id] /\ call[d].id # n
        BY <1>3, <1>4, <4>2
      <4>4. QED
        BY <1>1, <1>4, <4>1, <4>2, <4>3
    <3>3. QED
      BY <3>1, <3>2
  <2>2. QED
    BY <1>0, <1>5, <2>1 DEF CallsOK, Adding
<1>10. LoopsOK'
  BY <1>1, <1>7, LoopsKept
<1>11. JobsOK'
  BY <1>0, <1>1, <1>3, <1>4, <1>6 DEF JobsOK
<1>12. CancelledOK'
  <2>1. row.status = "pending"
    OBVIOUS
  <2>2. QED
    BY <1>0, <1>1, <1>3, <1>4, <2>1 DEF CancelledOK, Gone
<1>13. PendingIsDriven'
  <2> SUFFICES ASSUME NEW i \in DOMAIN rows', rows'[i].status = "pending"
               PROVE  \/ queue'[i] \in {"delayed", "active"}
                      \/ \E d \in Calls : call'[d].pc = "add" /\ call'[d].id = i
                      \/ \E k \in Cancels : cancel'[k].pc = "update" /\ cancel'[k].hand.id = i
                      \/ \E j \in RowId : job'[j].pc = "update" /\ job'[j].hand.id = i
                      \/ i \in lost'
    BY DEF PendingIsDriven
  <2>1. CASE i = n
    BY <1>5, <2>1
  <2>2. CASE i # n
    <3>1. i \in DOMAIN rows /\ rows[i].status = "pending"
      BY <1>3, <1>4, <2>2
    <3>2. \A d \in Calls : call[d].pc = "add" => call'[d] = call[d]
      BY <1>1, <1>5
    <3>3. QED
      BY <1>0, <1>1, <3>1, <3>2 DEF PendingIsDriven
  <2>3. QED
    BY <2>1, <2>2
<1>14. Counted'
  <2> SUFFICES ASSUME NEW q \in Pairs, NEW a \in 1..MAX_RETRIES
               PROVE  Cardinality(PendingAt(q, a)') + Cardinality(ToInsert(q, a)')
                        <= Cardinality(Calls)
    BY DEF Counted
  <2>0. Cardinality(PendingAt(q, a)) + Cardinality(ToInsert(q, a)) <= Cardinality(Calls)
    BY <1>0 DEF Counted
  <2>1. CASE q = call[c].pair /\ a = call[c].attempt
    <3>1. PendingAt(q, a)' = PendingAt(q, a) \cup {n}
      BY <1>3, <1>4, <2>1 DEF PendingAt, pending
    <3>2. n \notin PendingAt(q, a)
      BY <1>4 DEF PendingAt, pending
    <3>3. c \in ToInsert(q, a)
      BY <1>0, <1>1, <2>1 DEF ToInsert, TypeOK
    <3>4. ToInsert(q, a)' = ToInsert(q, a) \ {c}
      BY <1>0, <1>1, <1>5, <2>1 DEF ToInsert, TypeOK
    <3>5. Cardinality(PendingAt(q, a)') = Cardinality(PendingAt(q, a)) + 1
      BY <1>0, <3>1, <3>2, CountTypes, FS_AddElement
    <3>6. Cardinality(ToInsert(q, a)') = Cardinality(ToInsert(q, a)) - 1
      BY <1>0, <3>3, <3>4, CountTypes, FS_RemoveElement
    <3>7. QED
      BY <1>0, <2>0, <3>5, <3>6, CountTypes
  <2>2. CASE ~(q = call[c].pair /\ a = call[c].attempt)
    <3>1. PendingAt(q, a)' = PendingAt(q, a)
      BY <1>3, <1>4, <2>2 DEF PendingAt, pending
    <3>2. ToInsert(q, a)' = ToInsert(q, a)
      BY <1>0, <1>1, <1>5, <2>2 DEF ToInsert, TypeOK
    <3>3. QED
      BY <2>0, <3>1, <3>2
  <2>3. QED
    BY <2>1, <2>2
<1>15. QED
  BY <1>8, <1>9, <1>10, <1>11, <1>12, <1>13, <1>14 DEF IndInv

\* The job is added: only for a row that is still waiting for it.
LEMMA AddStep ==
    ASSUME IndInv, NEW c \in Calls, queue_add(c)
    PROVE  IndInv'
<1>0. TypeOK /\ CallsOK /\ LoopsOK /\ JobsOK /\ CancelledOK /\ PendingIsDriven /\ Counted
  BY DEF IndInv
<1> DEFINE n == call[c].id
<1>1. /\ UNCHANGED <<rows, stalled, cancel, job, unlinked, lost, faults>>
      /\ call[c].pc = "add"
      /\ queue' = [queue EXCEPT ![n] = "delayed"]
      /\ call' = [call EXCEPT ![c].pc = "fill"]
  BY DEF queue_add
<1>2. /\ n \in DOMAIN rows /\ n \in RowId /\ ~rows[n].jobId /\ queue[n] = "none"
      /\ \A d \in Calls : Adding(d) /\ d # c => call[d].id # n
  BY <1>0, <1>1, IdType DEF CallsOK, Adding
<1>3. /\ queue'[n] = "delayed" /\ \A i \in RowId : i # n => queue'[i] = queue[i]
      /\ queue' \in [RowId -> {"none", "delayed", "active", "done"}]
  BY <1>0, <1>1, <1>2 DEF TypeOK
<1>4. /\ call'[c].pc = "fill" /\ call'[c].id = n /\ call'[c].pair = call[c].pair
      /\ call'[c].attempt = call[c].attempt
      /\ \A d \in Calls : d # c => call'[d] = call[d]
  BY <1>0, <1>1 DEF TypeOK
<1>5. \A i \in DOMAIN rows : i \in RowId
  BY IdType
<1>6. Grown
  BY <1>1, <1>2, <1>3, <1>5 DEF Grown, Gone
<1>7. TypeOK'
  <2>1. Active' = Active
    BY <1>2, <1>3 DEF Active
  <2>2. call' \in [Calls -> [pc : {"idle", "insert", "add", "fill"}, pair : Pairs,
                             attempt : 1..MAX_RETRIES, id : 0..Len(rows)]]
    <3>1. \A d \in Calls : call'[d] \in [pc : {"idle", "insert", "add", "fill"}, pair : Pairs,
                                        attempt : 1..MAX_RETRIES, id : 0..Len(rows)]
      BY <1>0, <1>1 DEF TypeOK
    <3>2. QED
      BY <1>0, <1>1, <3>1 DEF TypeOK
  <2>3. QED
    BY <1>0, <1>1, <1>3, <2>1, <2>2 DEF TypeOK, Active
<1>8. CallsOK'
  BY <1>0, <1>1, <1>2, <1>3, <1>4, <1>5 DEF CallsOK, Adding
<1>9. LoopsOK'
  BY <1>1, <1>6, LoopsKept
<1>10. JobsOK'
  BY <1>0, <1>1, <1>2, <1>3 DEF JobsOK
<1>11. CancelledOK'
  BY <1>0, <1>1, <1>2, <1>3, <1>5 DEF CancelledOK, Gone
<1>12. PendingIsDriven'
  <2>1. \A i \in RowId \ {n} : queue[i] \in {"delayed", "active"} => queue'[i] \in {"delayed", "active"}
    BY <1>3
  <2>2. \A d \in Calls : call[d].pc = "add" => call'[d] = call[d] \/ call[d].id \in {n}
    BY <1>4
  <2>3. QED
    BY <1>1, <1>3, <1>6, <2>1, <2>2, DrivenKept
<1>13. Counted'
  <2>1. \A p \in Pairs, a \in 1..MAX_RETRIES : ToInsert(p, a)' \subseteq ToInsert(p, a)
    BY <1>1, <1>4 DEF ToInsert
  <2>2. QED
    BY <1>1, <1>6, <2>1, CountShrinks
<1>14. QED
  BY <1>7, <1>8, <1>9, <1>10, <1>11, <1>12, <1>13 DEF IndInv

\* The job's id is stored and the next attempt is begun.
LEMMA StoreStep ==
    ASSUME IndInv, NEW c \in Calls, store_job_id(c)
    PROVE  IndInv'
<1>0. TypeOK /\ CallsOK /\ LoopsOK /\ JobsOK /\ CancelledOK /\ PendingIsDriven /\ Counted
  BY DEF IndInv
<1> DEFINE n == call[c].id
<1>1. /\ UNCHANGED <<queue, stalled, cancel, job, unlinked, lost, faults>>
      /\ call[c].pc = "fill"
      /\ rows' = [rows EXCEPT ![n].jobId = TRUE]
      /\ call' = next_attempt(c)
  BY DEF store_job_id
<1>2. /\ n \in DOMAIN rows /\ n \in RowId
      /\ \A d \in Calls : Adding(d) /\ d # c => call[d].id # n
  BY <1>0, <1>1, IdType DEF CallsOK, Adding
<1>3. /\ rows' \in Seq(PaymentRetryRecord) /\ Len(rows') = Len(rows)
      /\ DOMAIN rows' = DOMAIN rows
      /\ \A j \in DOMAIN rows :
            /\ rows'[j].pair = rows[j].pair /\ rows'[j].status = rows[j].status
            /\ rows'[j].attemptNumber = rows[j].attemptNumber
            /\ rows'[j].jobId = IF j = n THEN TRUE ELSE rows[j].jobId
  BY <1>0, <1>1, <1>2, RowLinked
<1>4. /\ \/ /\ call[c].attempt < MAX_RETRIES /\ call'[c].pc = "insert"
            /\ call'[c].attempt = call[c].attempt + 1 /\ call'[c].pair = call[c].pair
         \/ call[c].attempt = MAX_RETRIES /\ call'[c].pc = "idle"
      /\ \A d \in Calls : d # c => call'[d] = call[d]
  BY <1>0, <1>1, BoundsAssumption DEF TypeOK, next_attempt, NoCall
<1>5. Grown
  BY <1>1, <1>3 DEF Grown, Gone
<1>6. TypeOK'
  <2>1. Len(rows) \in Nat
    BY <1>0, LenProperties DEF TypeOK
  <2>2. call' \in [Calls -> [pc : {"idle", "insert", "add", "fill"}, pair : Pairs,
                             attempt : 1..MAX_RETRIES, id : 0..Len(rows)]]
    <3>1. CASE call[c].attempt < MAX_RETRIES
      <4>1. call' = [call EXCEPT ![c].pc = "insert", ![c].attempt = call[c].attempt + 1]
        BY <1>1, <3>1 DEF next_attempt
      <4>2. call[c].attempt + 1 \in 1..MAX_RETRIES
        BY <1>0, <3>1, BoundsAssumption DEF TypeOK
      <4>3. \A d \in Calls : call'[d] \in [pc : {"idle", "insert", "add", "fill"}, pair : Pairs,
                                          attempt : 1..MAX_RETRIES, id : 0..Len(rows)]
        BY <1>0, <4>1, <4>2 DEF TypeOK
      <4>4. QED
        BY <1>0, <4>1, <4>3 DEF TypeOK
    <3>2. CASE ~(call[c].attempt < MAX_RETRIES)
      <4>1. call' = [call EXCEPT ![c] = NoCall]
        BY <1>1, <3>2 DEF next_attempt
      <4>2. QED
        BY <1>0, <2>1, <4>1, NoCallType DEF TypeOK
    <3>3. QED
      BY <3>1, <3>2
  <2>3. QED
    BY <1>0, <1>1, <1>3, <2>2 DEF TypeOK
<1>7. CallsOK'
  BY <1>0, <1>1, <1>2, <1>3, <1>4 DEF CallsOK, Adding
<1>8. LoopsOK'
  BY <1>1, <1>5, LoopsKept
<1>9. JobsOK'
  BY <1>0, <1>1, <1>3 DEF JobsOK
<1>10. CancelledOK'
  BY <1>0, <1>1, <1>3 DEF CancelledOK, Gone
<1>11. PendingIsDriven'
  <2>1. \A d \in Calls : call[d].pc = "add" => call'[d] = call[d]
    BY <1>1, <1>4
  <2>2. QED
    BY <1>1, <1>3, <1>5, <2>1, DrivenKept
<1>12. Counted'
  <2>1. \A p \in Pairs, a \in 1..MAX_RETRIES : ToInsert(p, a)' \subseteq ToInsert(p, a)
    <3> SUFFICES ASSUME NEW p \in Pairs, NEW a \in 1..MAX_RETRIES,
                        NEW d \in Calls, d \in ToInsert(p, a)'
                 PROVE  d \in ToInsert(p, a)
      BY DEF ToInsert
    <3>1. CASE d # c
      BY <1>4, <3>1 DEF ToInsert
    <3>2. CASE d = c
      <4>1. /\ call[c].attempt < MAX_RETRIES /\ call'[c].pc = "insert"
            /\ call'[c].attempt = call[c].attempt + 1 /\ call'[c].pair = call[c].pair
        BY <1>4, <3>2 DEF ToInsert
      <4>2. call[c].attempt \in Nat /\ a \in Nat
        BY <1>0, BoundsAssumption DEF TypeOK
      <4>3. call[c].attempt + 1 <= a /\ call[c].pair = p
        BY <3>2, <4>1 DEF ToInsert
      <4>4. QED
        BY <1>1, <3>2, <4>2, <4>3 DEF ToInsert
    <3>3. QED
      BY <3>1, <3>2
  <2>2. QED
    BY <1>3, <1>5, <2>1, CountShrinks
<1>13. QED
  BY <1>6, <1>7, <1>8, <1>9, <1>10, <1>11, <1>12 DEF IndInv

\* An error ends a call; a row that has no job by then is lost.
LEMMA CallErrorStep ==
    ASSUME IndInv, NEW c \in Calls, call_error(c)
    PROVE  IndInv'
<1>0. TypeOK /\ CallsOK /\ LoopsOK /\ JobsOK /\ CancelledOK /\ PendingIsDriven /\ Counted
  BY DEF IndInv
<1>1. /\ UNCHANGED <<rows, queue, stalled, cancel, job, unlinked>>
      /\ faults < MAX_FAULTS /\ faults' = faults + 1
      /\ lost' = IF call[c].pc = "add" THEN lost \cup {call[c].id} ELSE lost
      /\ call' = [call EXCEPT ![c] = NoCall]
  BY DEF call_error
<1>2. call'[c].pc = "idle" /\ \A d \in Calls : d # c => call'[d] = call[d]
  BY <1>0, <1>1 DEF TypeOK, NoCall
<1>3. lost \subseteq lost' /\ lost' \subseteq RowId
  BY <1>0, <1>1, IdType DEF Adding, TypeOK
<1>4. Grown /\ CancelledOK'
  BY <1>1, RowsKept DEF QueueMoves
<1>5. TypeOK'
  <2>1. Len(rows) \in Nat
    BY <1>0, LenProperties DEF TypeOK
  <2>2. call' \in [Calls -> [pc : {"idle", "insert", "add", "fill"}, pair : Pairs,
                             attempt : 1..MAX_RETRIES, id : 0..Len(rows)]]
    BY <1>0, <1>1, <2>1, NoCallType DEF TypeOK
  <2>3. faults' \in 0..MAX_FAULTS
    BY <1>0, <1>1, BoundsAssumption DEF TypeOK
  <2>4. QED
    BY <1>0, <1>1, <1>3, <2>2, <2>3 DEF TypeOK
<1>6. CallsOK'
  BY <1>0, <1>1, <1>2 DEF CallsOK, Adding
<1>7. LoopsOK'
  BY <1>1, <1>4, LoopsKept
<1>8. JobsOK'
  BY <1>0, <1>1 DEF JobsOK
<1>9. PendingIsDriven'
  <2>1. \A d \in Calls : call[d].pc = "add" => call'[d] = call[d] \/ call[d].id \in lost'
    BY <1>1, <1>2
  <2>2. QED
    BY <1>1, <1>3, <1>4, <2>1, DrivenKept
<1>10. Counted'
  <2>1. \A p \in Pairs, a \in 1..MAX_RETRIES : ToInsert(p, a)' \subseteq ToInsert(p, a)
    BY <1>1, <1>2 DEF ToInsert
  <2>2. QED
    BY <1>1, <1>4, <2>1, CountShrinks
<1>11. QED
  BY <1>4, <1>5, <1>6, <1>7, <1>8, <1>9, <1>10 DEF IndInv

-----------------------------------------------------------------------------
(* The loops that cancel (retryQueue.ts:188-207 and 247-268).              *)

Loop(P) == [pc : P, todo : SUBSET ReadRow, hand : ReadRow \cup {None}]

LEMMA RestType ==
    ASSUME NEW P, "idle" \in P
    PROVE  Rest \in Loop(P) /\ Rest.pc = "idle" /\ Rest.todo = {}
  BY DEF Rest, Loop

\* The rows a loop has read.
LEMMA ReadRows ==
    ASSUME TypeOK, NEW S \in SUBSET DOMAIN rows
    PROVE  /\ read_rows(S) \in SUBSET ReadRow
           /\ \A r \in read_rows(S) : r.id \in DOMAIN rows /\ (r.jobId => rows[r.id].jobId)
<1>1. ASSUME NEW i \in S
      PROVE  i \in RowId /\ rows[i].jobId \in BOOLEAN
    BY RowType DEF PaymentRetryRecord
<1>2. QED
  BY <1>1 DEF read_rows, ReadRow

\* The removal of a job, or the failure to remove it.
LEMMA Removal ==
    ASSUME IndInv, NEW w, w.todo \in SUBSET ReadRow, LoopOK(w), NEW r, removal(w, r),
           UNCHANGED rows
    PROVE  /\ r \in ReadRow /\ r \in w.todo /\ r.id \in DOMAIN rows /\ r.id \in RowId
           /\ QueueMoves /\ \A i \in RowId : i # r.id => queue'[i] = queue[i]
           /\ \A i \in RowId : queue[i] = "active" <=> queue'[i] = "active"
           /\ queue' \in [RowId -> {"none", "delayed", "active", "done"}]
           /\ unlinked \subseteq unlinked' /\ unlinked' \subseteq RowId
           /\ r.id \in unlinked' \/ Gone(r.id)'
           /\ faults' \in 0..MAX_FAULTS
<1>0. TypeOK
  BY DEF IndInv
<1>1. /\ r \in w.todo /\ r \in ReadRow
      /\ r.id \in DOMAIN rows /\ (r.jobId => rows[r.id].jobId)
  BY DEF removal, LoopOK
<1>2. r.id \in RowId
  BY <1>0, <1>1, RowType
<1>3. queue \in [RowId -> {"none", "delayed", "active", "done"}] /\ unlinked \subseteq RowId
  BY <1>0 DEF TypeOK
<1>4. CASE /\ queue' = remove(r)
           /\ unlinked' = IF removable(r) THEN unlinked ELSE unlinked \cup {r.id}
           /\ UNCHANGED faults
  <2>1. CASE removable(r) /\ queue[r.id] = "delayed"
    <3>1. queue' = [queue EXCEPT ![r.id] = "none"] /\ unlinked' = unlinked
      BY <1>4, <2>1 DEF remove
    <3>2. rows[r.id].jobId
      BY <1>1, <2>1 DEF removable
    <3>3. QED
      BY <1>0, <1>1, <1>2, <1>3, <1>4, <2>1, <3>1, <3>2 DEF QueueMoves, Gone, TypeOK
  <2>2. CASE removable(r) /\ queue[r.id] # "delayed"
    <3>1. queue' = queue /\ unlinked' = unlinked
      BY <1>4, <2>2 DEF remove
    <3>2. rows[r.id].jobId /\ queue[r.id] \in {"none", "done"}
      BY <1>1, <1>2, <1>3, <2>2 DEF removable
    <3>3. QED
      BY <1>0, <1>1, <1>2, <1>3, <1>4, <3>1, <3>2 DEF QueueMoves, Gone, TypeOK
  <2>3. CASE ~removable(r)
    <3>1. queue' = queue /\ unlinked' = unlinked \cup {r.id}
      BY <1>4, <2>3 DEF remove
    <3>2. QED
      BY <1>0, <1>1, <1>2, <1>3, <1>4, <3>1 DEF QueueMoves, TypeOK
  <2>4. QED
    BY <2>1, <2>2, <2>3
<1>5. CASE /\ r.jobId /\ faults < MAX_FAULTS /\ faults' = faults + 1
           /\ unlinked' = unlinked \cup {r.id} /\ UNCHANGED queue
  <2>1. faults' \in 0..MAX_FAULTS
    BY <1>0, <1>5, BoundsAssumption DEF TypeOK
  <2>2. QED
    BY <1>1, <1>2, <1>3, <1>5, <2>1 DEF QueueMoves
<1>6. QED
  BY <1>4, <1>5 DEF removal

\* A loop after the removal, and after the update that follows.
LEMMA LoopMoves ==
    ASSUME NEW P, {"idle", "remove", "update"} \subseteq P, NEW w \in Loop(P)
    PROVE  /\ \A r \in ReadRow : /\ removed(w, r) \in Loop(P)
                                 /\ removed(w, r).todo \subseteq w.todo
                                 /\ removed(w, r).hand = r
                                 /\ removed(w, r).pc = "update"
           /\ looped(w) \in Loop(P) /\ looped(w).pc # "update"
           /\ looped(w).todo \subseteq w.todo
           /\ looped(w).pc \in {"idle", "remove"}
<1>1. \A r \in ReadRow : /\ removed(w, r) \in Loop(P)
                         /\ removed(w, r).todo \subseteq w.todo
                         /\ removed(w, r).hand = r
                         /\ removed(w, r).pc = "update"
  BY DEF Loop, removed
<1>2. CASE w.todo = {}
  BY <1>1, <1>2, RestType DEF looped
<1>3. CASE w.todo # {}
  <2>1. looped(w) = [w EXCEPT !.pc = "remove", !.hand = None]
    BY <1>3 DEF looped
  <2>2. QED
    BY <1>1, <2>1 DEF Loop
<1>4. QED
  BY <1>2, <1>3

\* No more jobs are active than before.
LEMMA ActiveKept ==
    ASSUME TypeOK, \A i \in RowId : queue'[i] = "active" => queue[i] = "active"
    PROVE  Cardinality({i \in RowId : queue'[i] = "active"}) <= CONCURRENCY
<1> DEFINE S == {i \in RowId : queue[i] = "active"}
           T == {i \in RowId : queue'[i] = "active"}
<1>1. IsFiniteSet(RowId)
  BY FS_Interval, BoundsAssumption DEF RowId
<1>2. S \in SUBSET RowId /\ T \in SUBSET S
  OBVIOUS
<1>3. IsFiniteSet(S)
  BY <1>1, <1>2, FS_Subset
<1>4. Cardinality(T) <= Cardinality(S) /\ IsFiniteSet(T)
  BY <1>2, <1>3, FS_Subset
<1>5. Cardinality(T) \in Nat /\ Cardinality(S) \in Nat
  BY <1>3, <1>4, FS_CardinalityType
<1>6. Cardinality(S) <= CONCURRENCY
  BY DEF TypeOK
<1>7. QED
  BY <1>4, <1>5, <1>6, BoundsAssumption

LEMMA CountKept ==
    ASSUME IndInv, Grown, DOMAIN rows' = DOMAIN rows, UNCHANGED call
    PROVE  Counted'
<1>1. \A p \in Pairs, a \in 1..MAX_RETRIES : ToInsert(p, a)' \subseteq ToInsert(p, a)
  BY DEF ToInsert
<1>2. QED
  BY <1>1, CountShrinks

CancelPcs == {"idle", "remove", "update"}
JobPcs == {"idle", "notify", "find", "remove", "update", "fail"}

LEMMA LoopTypes ==
    ASSUME TypeOK
    PROVE  cancel \in [Cancels -> Loop(CancelPcs)] /\ job \in [RowId -> Loop(JobPcs)]
  BY DEF TypeOK, Loop, CancelPcs, JobPcs

-----------------------------------------------------------------------------
(* cancelRetries (retryQueue.ts:185-207).                                  *)

LEMMA CancelStep ==
    ASSUME IndInv, NEW k \in Cancels, NEW p \in Pairs, cancelRetries(k, p)
    PROVE  IndInv'
<1>0. TypeOK /\ CallsOK /\ LoopsOK /\ JobsOK /\ CancelledOK /\ PendingIsDriven /\ Counted
  BY DEF IndInv
<1> DEFINE w == [Rest EXCEPT !.pc = "remove", !.todo = read_rows(pending(p))]
<1>1. /\ UNCHANGED <<rows, queue, stalled, call, job, unlinked, lost, faults>>
      /\ cancel[k].pc = "idle"
      /\ cancel' = [cancel EXCEPT ![k] = w]
  BY DEF cancelRetries
<1>2. pending(p) \in SUBSET DOMAIN rows
  BY DEF pending
<1>3. /\ read_rows(pending(p)) \in SUBSET ReadRow
      /\ \A r \in read_rows(pending(p)) : r.id \in DOMAIN rows /\ (r.jobId => rows[r.id].jobId)
  BY <1>0, <1>2, ReadRows
<1>4. w \in Loop(CancelPcs) /\ w.pc = "remove" /\ w.todo = read_rows(pending(p))
  BY <1>3 DEF Loop, CancelPcs, Rest
<1>5. /\ cancel' \in [Cancels -> Loop(CancelPcs)] /\ cancel'[k] = w
      /\ \A j \in Cancels : j # k => cancel'[j] = cancel[j]
  BY <1>0, <1>1, <1>4, LoopTypes
<1>6. Grown /\ CancelledOK'
  BY <1>1, RowsKept DEF QueueMoves
<1>7. TypeOK'
  BY <1>0, <1>1, <1>5 DEF TypeOK, Loop, CancelPcs
<1>8. CallsOK' /\ JobsOK'
  BY <1>0, <1>1 DEF CallsOK, Adding, JobsOK
<1>9. LoopsOK'
  BY <1>0, <1>1, <1>3, <1>4, <1>5 DEF LoopsOK, LoopOK, Gone
<1>10. PendingIsDriven'
  <2>1. \A j \in Cancels : cancel[j].pc = "update" => cancel'[j] = cancel[j]
    BY <1>1, <1>5
  <2>2. QED
    BY <1>1, <1>6, <2>1, DrivenKept
<1>11. Counted'
  BY <1>1, <1>6, CountKept
<1>12. QED
  BY <1>6, <1>7, <1>8, <1>9, <1>10, <1>11 DEF IndInv

LEMMA CancelRemoveStep ==
    ASSUME IndInv, NEW k \in Cancels, cancel_remove(k)
    PROVE  IndInv'
<1>0. TypeOK /\ CallsOK /\ LoopsOK /\ JobsOK /\ CancelledOK /\ PendingIsDriven /\ Counted
  BY DEF IndInv
<1>1. UNCHANGED <<rows, stalled, call, job, lost>>
  BY DEF cancel_remove
<1>2. PICK r \in cancel[k].todo : /\ removal(cancel[k], r)
                                  /\ cancel' = [cancel EXCEPT ![k] = removed(cancel[k], r)]
  BY DEF cancel_remove
<1>3. cancel[k] \in Loop(CancelPcs) /\ LoopOK(cancel[k]) /\ cancel[k].pc = "remove"
  BY <1>0, <1>2, LoopTypes DEF LoopsOK, removal
<1>4. cancel[k].todo \in SUBSET ReadRow
  BY <1>3 DEF Loop
<1>5. /\ r \in ReadRow /\ r \in cancel[k].todo /\ r.id \in DOMAIN rows /\ r.id \in RowId
      /\ QueueMoves /\ \A i \in RowId : i # r.id => queue'[i] = queue[i]
      /\ \A i \in RowId : queue[i] = "active" <=> queue'[i] = "active"
      /\ queue' \in [RowId -> {"none", "delayed", "active", "done"}]
      /\ unlinked \subseteq unlinked' /\ unlinked' \subseteq RowId
      /\ r.id \in unlinked' \/ Gone(r.id)'
      /\ faults' \in 0..MAX_FAULTS
  BY <1>1, <1>2, <1>3, <1>4, Removal
<1> DEFINE w == removed(cancel[k], r)
<1>6. /\ w \in Loop(CancelPcs) /\ w.todo \subseteq cancel[k].todo
      /\ w.hand = r /\ w.pc = "update"
  BY <1>3, <1>5, LoopMoves DEF CancelPcs
<1> HIDE DEF w
<1>7. /\ cancel' \in [Cancels -> Loop(CancelPcs)] /\ cancel'[k] = w
      /\ \A j \in Cancels : j # k => cancel'[j] = cancel[j]
  BY <1>0, <1>2, <1>6, LoopTypes DEF w
<1>8. Grown /\ CancelledOK'
  BY <1>1, <1>5, RowsKept
<1>9. TypeOK'
  <2>1. Cardinality({i \in RowId : queue'[i] = "active"}) <= CONCURRENCY
    BY <1>0, <1>5, ActiveKept
  <2>2. QED
    BY <1>0, <1>1, <1>5, <1>7, <2>1 DEF TypeOK, Loop, CancelPcs
<1>10. CallsOK'
  BY <1>1, <1>5, CallsKept
<1>11. JobsOK'
  BY <1>0, <1>1, <1>5 DEF JobsOK, QueueMoves
<1>12. LoopsOK'
  <2>1. ASSUME NEW j \in Cancels
        PROVE  LoopOK(cancel[j])'
    <3>1. CASE j = k
      <4>1. \A q \in w.todo : q.id \in DOMAIN rows' /\ (q.jobId => rows'[q.id].jobId)
        BY <1>1, <1>3, <1>6 DEF LoopOK
      <4>2. cancel'[k].todo = w.todo /\ cancel'[k].hand = r
        BY <1>6, <1>7
      <4>3. QED
        BY <1>1, <1>5, <3>1, <4>1, <4>2 DEF LoopOK
    <3>2. CASE j # k
      <4>1. LoopOK(cancel[j]) /\ cancel'[j] = cancel[j]
        BY <1>0, <1>7, <3>2 DEF LoopsOK
      <4>2. QED
        BY <1>8, <4>1, LoopKept DEF LoopOK, Gone
    <3>3. QED
      BY <3>1, <3>2
  <2>2. \A i \in RowId : LoopOK(job[i])'
    <3>1. \A i \in RowId : LoopOK(job[i])
      BY <1>0 DEF LoopsOK
    <3>2. QED
      BY <1>1, <1>8, <3>1, LoopKept DEF LoopOK, Gone
  <2>3. QED
    BY <2>1, <2>2 DEF LoopsOK
<1>13. PendingIsDriven'
  <2>1. \A j \in Cancels : cancel[j].pc = "update" => cancel'[j] = cancel[j]
    BY <1>3, <1>7
  <2>2. cancel'[k].pc = "update" /\ cancel'[k].hand.id = r.id
    BY <1>6, <1>7
  <2>3. \A i \in DOMAIN rows : i \in {r.id} =>
           \E j \in Cancels : cancel'[j].pc = "update" /\ cancel'[j].hand.id = i
    BY <2>2
  <2>4. \A i \in RowId \ {r.id} : queue[i] \in {"delayed", "active"}
                                     => queue'[i] \in {"delayed", "active"}
    BY <1>5
  <2>5. QED
    BY <1>1, <1>8, <2>1, <2>3, <2>4, DrivenKept
<1>14. Counted'
  BY <1>1, <1>8, CountKept
<1>15. QED
  BY <1>8, <1>9, <1>10, <1>11, <1>12, <1>13, <1>14 DEF IndInv

LEMMA CancelUpdateStep ==
    ASSUME IndInv, NEW k \in Cancels, cancel_update(k)
    PROVE  IndInv'
<1>0. TypeOK /\ CallsOK /\ LoopsOK /\ JobsOK /\ CancelledOK /\ PendingIsDriven /\ Counted
  BY DEF IndInv
<1> DEFINE n == cancel[k].hand.id
           w == looped(cancel[k])
<1>1. /\ UNCHANGED <<queue, stalled, call, job, unlinked, lost, faults>>
      /\ cancel[k].pc = "update" /\ Marked(n, "cancelled")
      /\ cancel' = [cancel EXCEPT ![k] = w]
  BY DEF cancel_update, cancelled, Marked
<1>2. cancel[k] \in Loop(CancelPcs) /\ LoopOK(cancel[k])
  BY <1>0, LoopTypes DEF LoopsOK
<1>3. n \in DOMAIN rows /\ (n \in unlinked \/ Gone(n))
  BY <1>1, <1>2 DEF LoopOK
<1>4. w \in Loop(CancelPcs) /\ w.todo \subseteq cancel[k].todo /\ w.pc # "update"
  BY <1>2, LoopMoves DEF CancelPcs
<1> HIDE DEF w, n
<1>5. /\ cancel' \in [Cancels -> Loop(CancelPcs)] /\ cancel'[k] = w
      /\ \A j \in Cancels : j # k => cancel'[j] = cancel[j]
  BY <1>0, <1>1, <1>4, LoopTypes
<1>6. /\ rows' \in Seq(PaymentRetryRecord) /\ Len(rows') = Len(rows)
      /\ DOMAIN rows' = DOMAIN rows
      /\ \A j \in DOMAIN rows :
            /\ rows'[j].pair = rows[j].pair /\ rows'[j].jobId = rows[j].jobId
            /\ rows'[j].attemptNumber = rows[j].attemptNumber
            /\ rows'[j].status = IF j = n THEN "cancelled" ELSE rows[j].status
  BY <1>0, <1>1, <1>3, RowMarked DEF Finishes
<1>7. QueueMoves
  BY <1>1 DEF QueueMoves
<1>8. Grown /\ CancelledOK'
  BY <1>1, <1>3, <1>7, MarkKeeps DEF Finishes
<1>9. TypeOK'
  BY <1>0, <1>1, <1>5, <1>6 DEF TypeOK, Loop, CancelPcs
<1>10. CallsOK'
  BY <1>1, <1>6, <1>7, CallsKept
<1>11. JobsOK'
  BY <1>0, <1>1, <1>6 DEF JobsOK
<1>12. LoopsOK'
  <2>1. ASSUME NEW j \in Cancels
        PROVE  LoopOK(cancel[j])'
    <3>1. CASE j = k
      BY <1>2, <1>4, <1>5, <1>6, <3>1 DEF LoopOK
    <3>2. CASE j # k
      <4>1. LoopOK(cancel[j]) /\ cancel'[j] = cancel[j]
        BY <1>0, <1>5, <3>2 DEF LoopsOK
      <4>2. QED
        BY <1>8, <4>1, LoopKept DEF LoopOK, Gone
    <3>3. QED
      BY <3>1, <3>2
  <2>2. \A i \in RowId : LoopOK(job[i])'
    <3>1. \A i \in RowId : LoopOK(job[i])
      BY <1>0 DEF LoopsOK
    <3>2. QED
      BY <1>1, <1>8, <3>1, LoopKept DEF LoopOK, Gone
  <2>3. QED
    BY <2>1, <2>2 DEF LoopsOK
<1>13. PendingIsDriven'
  <2>1. \A j \in Cancels : cancel[j].pc = "update"
                              => cancel'[j] = cancel[j] \/ cancel[j].hand.id \in {n}
    BY <1>5 DEF n
  <2>2. \A i \in DOMAIN rows : i \in {n} => rows'[i].status # "pending"
    BY <1>6
  <2>3. QED
    BY <1>1, <1>6, <1>8, <2>1, <2>2, DrivenKept
<1>14. Counted'
  BY <1>1, <1>6, <1>8, CountKept
<1>15. QED
  BY <1>8, <1>9, <1>10, <1>11, <1>12, <1>13, <1>14 DEF IndInv

LEMMA CancelErrorStep ==
    ASSUME IndInv, NEW k \in Cancels, cancel_error(k)
    PROVE  IndInv'
<1>0. TypeOK /\ CallsOK /\ LoopsOK /\ JobsOK /\ CancelledOK /\ PendingIsDriven /\ Counted
  BY DEF IndInv
<1>1. /\ UNCHANGED <<rows, queue, stalled, call, job, unlinked>>
      /\ cancel[k].pc = "update" /\ faults < MAX_FAULTS /\ faults' = faults + 1
      /\ lost' = lost \cup {cancel[k].hand.id}
      /\ cancel' = [cancel EXCEPT ![k] = Rest]
  BY DEF cancel_error
<1>2. cancel[k].hand.id \in DOMAIN rows /\ cancel[k].hand.id \in RowId
  BY <1>0, <1>1, IdType DEF LoopsOK, LoopOK
<1>3. Rest \in Loop(CancelPcs) /\ Rest.pc = "idle" /\ Rest.todo = {}
  BY RestType DEF CancelPcs
<1>4. /\ cancel' \in [Cancels -> Loop(CancelPcs)] /\ cancel'[k] = Rest
      /\ \A j \in Cancels : j # k => cancel'[j] = cancel[j]
  BY <1>0, <1>1, <1>3, LoopTypes
<1>5. Grown /\ CancelledOK'
  BY <1>1, RowsKept DEF QueueMoves
<1>6. TypeOK'
  <2>1. faults' \in 0..MAX_FAULTS
    BY <1>0, <1>1, BoundsAssumption DEF TypeOK
  <2>2. QED
    BY <1>0, <1>1, <1>2, <1>4, <2>1 DEF TypeOK, Loop, CancelPcs
<1>7. CallsOK' /\ JobsOK'
  BY <1>0, <1>1 DEF CallsOK, Adding, JobsOK
<1>8. LoopsOK'
  BY <1>0, <1>1, <1>3, <1>4 DEF LoopsOK, LoopOK, Gone
<1>9. PendingIsDriven'
  <2>1. \A j \in Cancels : cancel[j].pc = "update"
                              => cancel'[j] = cancel[j] \/ cancel[j].hand.id \in lost'
    BY <1>1, <1>4
  <2>2. lost \subseteq lost'
    BY <1>1
  <2>3. QED
    BY <1>1, <1>5, <2>1, <2>2, DrivenKept
<1>10. Counted'
  BY <1>1, <1>5, CountKept
<1>11. QED
  BY <1>5, <1>6, <1>7, <1>8, <1>9, <1>10 DEF IndInv

-----------------------------------------------------------------------------
(* processRetryJob (retryQueue.ts:218-283).                                *)

\* The other loops, when one job moves.
LEMMA JobLoops ==
    ASSUME IndInv, Grown, UNCHANGED cancel, NEW i \in RowId, LoopOK(job[i])',
           \A j \in RowId : j # i => job'[j] = job[j]
    PROVE  LoopsOK'
<1>1. \A j \in RowId : j # i => LoopOK(job[j]) /\ job'[j] = job[j]
  BY DEF IndInv, LoopsOK
<1>2. \A j \in RowId : j # i => LoopOK(job[j])'
  BY <1>1, LoopKept DEF LoopOK, Gone
<1>3. QED
  BY <1>2, CancelsKept DEF LoopsOK

\* A job that is under way is active, and of a row.
LEMMA JobFacts ==
    ASSUME IndInv, NEW i \in RowId
    PROVE  /\ job[i] \in Loop(JobPcs) /\ LoopOK(job[i])
           /\ job[i].pc # "idle" => queue[i] = "active" /\ i \in DOMAIN rows
           /\ queue[i] # "none" => i \in DOMAIN rows
           /\ job[i].pc \in {"find", "remove", "update"} => rows[i].status # "pending"
           /\ job[i].pc = "update" => job[i].hand.id \in DOMAIN rows /\ job[i].hand.id \in RowId
<1>1. TypeOK /\ LoopsOK /\ JobsOK
  BY DEF IndInv
<1>2. /\ job[i].pc # "idle" => queue[i] = "active" /\ i \in DOMAIN rows
      /\ queue[i] # "none" => i \in DOMAIN rows
      /\ job[i].pc \in {"find", "remove", "update"} => rows[i].status # "pending"
  BY <1>1 DEF JobsOK
<1>3. job[i] \in Loop(JobPcs) /\ LoopOK(job[i])
  BY <1>1, LoopTypes DEF LoopsOK
<1>4. QED
  BY <1>2, <1>3, IdType DEF LoopOK

\* The handler returns.
LEMMA Finished ==
    ASSUME IndInv, NEW i \in RowId, queue[i] = "active", finish(i)
    PROVE  /\ QueueMoves
           /\ queue' \in [RowId -> {"none", "delayed", "active", "done"}]
           /\ queue'[i] = "done" /\ \A j \in RowId : j # i => queue'[j] = queue[j]
           /\ job' \in [RowId -> Loop(JobPcs)] /\ job'[i].pc = "idle"
           /\ \A j \in RowId : j # i => job'[j] = job[j]
           /\ LoopOK(job[i])'
<1>0. TypeOK /\ queue \in [RowId -> {"none", "delayed", "active", "done"}]
  BY DEF IndInv, TypeOK
<1>1. queue' = [queue EXCEPT ![i] = "done"] /\ job' = [job EXCEPT ![i] = Rest]
  BY DEF finish
<1>2. Rest \in Loop(JobPcs) /\ Rest.pc = "idle" /\ Rest.todo = {}
  BY RestType DEF JobPcs
<1>3. job \in [RowId -> Loop(JobPcs)]
  BY <1>0, LoopTypes
<1>4. job'[i] = Rest
  BY <1>1, <1>3
<1>5. LoopOK(job[i])'
  BY <1>2, <1>4 DEF LoopOK
<1>6. QED
  BY <1>0, <1>1, <1>2, <1>3, <1>5 DEF QueueMoves

\* The parts of a step of job i that do not depend on what it does.
LEMMA JobStepKeeps ==
    ASSUME IndInv, NEW i \in RowId, Grown, CancelledOK', QueueMoves,
           rows' \in Seq(PaymentRetryRecord), Len(rows') = Len(rows),
           DOMAIN rows' = DOMAIN rows,
           \A j \in DOMAIN rows : rows'[j].jobId = rows[j].jobId,
           queue' \in [RowId -> {"none", "delayed", "active", "done"}],
           Cardinality({j \in RowId : queue'[j] = "active"}) <= CONCURRENCY,
           job' \in [RowId -> Loop(JobPcs)], LoopOK(job[i])',
           \A j \in RowId : j # i => job'[j] = job[j],
           unlinked' \subseteq RowId, lost' \subseteq RowId, faults' \in 0..MAX_FAULTS,
           UNCHANGED <<call, cancel, stalled>>,
           JobsOK', PendingIsDriven'
    PROVE  IndInv'
<1>0. TypeOK
  BY DEF IndInv
<1>1. TypeOK'
  BY <1>0 DEF TypeOK, Loop, JobPcs
<1>2. CallsOK'
  BY CallsKept
<1>3. LoopsOK'
  BY JobLoops
<1>4. Counted'
  BY CountKept
<1>5. QED
  BY <1>1, <1>2, <1>3, <1>4 DEF IndInv

LEMMA JobStartStep ==
    ASSUME IndInv, NEW i \in RowId, job_start(i)
    PROVE  IndInv'
<1>0. TypeOK /\ JobsOK
  BY DEF IndInv
<1>1. /\ UNCHANGED <<rows, stalled, call, cancel, unlinked, lost, faults>>
      /\ queue[i] = "delayed"
      /\ Cardinality({j \in RowId : queue[j] = "active"}) < CONCURRENCY
      /\ queue' = [queue EXCEPT ![i] = "active"]
      /\ job' = [job EXCEPT ![i].pc = "notify"]
  BY DEF job_start, at
<1>2. /\ queue' \in [RowId -> {"none", "delayed", "active", "done"}]
      /\ queue'[i] = "active" /\ \A j \in RowId : j # i => queue'[j] = queue[j]
  BY <1>0, <1>1 DEF TypeOK
<1>3. QueueMoves
  BY <1>1, <1>2 DEF QueueMoves
<1>4. Cardinality({j \in RowId : queue'[j] = "active"}) <= CONCURRENCY
  <2> DEFINE S == {j \in RowId : queue[j] = "active"}
             T == {j \in RowId : queue'[j] = "active"}
  <2>1. IsFiniteSet(RowId)
    BY FS_Interval, BoundsAssumption DEF RowId
  <2>2. S \in SUBSET RowId /\ T = S \cup {i} /\ i \notin S
    BY <1>1, <1>2
  <2>3. IsFiniteSet(S) /\ Cardinality(S) \in Nat
    BY <2>1, <2>2, FS_Subset, FS_CardinalityType
  <2>4. Cardinality(T) = Cardinality(S) + 1
    BY <2>2, <2>3, FS_AddElement
  <2>5. QED
    BY <1>1, <2>3, <2>4, BoundsAssumption
<1>5. Grown /\ CancelledOK'
  BY <1>1, <1>3, RowsKept
<1>6. /\ job[i] \in Loop(JobPcs) /\ LoopOK(job[i]) /\ job \in [RowId -> Loop(JobPcs)]
      /\ job[i].pc = "idle" /\ i \in DOMAIN rows
  BY <1>0, <1>1, JobFacts, LoopTypes
<1>7. /\ job'[i].pc = "notify" /\ job'[i].todo = job[i].todo
      /\ \A j \in RowId : j # i => job'[j] = job[j]
      /\ job' \in [RowId -> Loop(JobPcs)]
  <2>1. [job[i] EXCEPT !.pc = "notify"] \in Loop(JobPcs)
    BY <1>6 DEF Loop, JobPcs
  <2>2. job' = [job EXCEPT ![i] = [job[i] EXCEPT !.pc = "notify"]]
    BY <1>1
  <2>3. QED
    BY <1>6, <2>1, <2>2 DEF Loop
<1>8. LoopOK(job[i])'
  BY <1>1, <1>6, <1>7 DEF LoopOK
<1>9. JobsOK'
  BY <1>0, <1>1, <1>2, <1>6, <1>7 DEF JobsOK
<1>10. PendingIsDriven'
  <2>1. \A j \in RowId : queue[j] \in {"delayed", "active"} => queue'[j] \in {"delayed", "active"}
    BY <1>2
  <2>2. \A j \in RowId : job[j].pc = "update" => job'[j] = job[j]
    BY <1>6, <1>7
  <2>3. QED
    BY <1>1, <1>5, <2>1, <2>2, DrivenKept
<1>11. QED
  BY <1>0, <1>1, <1>2, <1>3, <1>4, <1>5, <1>7, <1>8, <1>9, <1>10, JobStepKeeps DEF TypeOK

\* A job moves without finishing.
LEMMA JobMoves ==
    ASSUME IndInv, NEW i \in RowId, NEW w \in Loop(JobPcs), job' = [job EXCEPT ![i] = w]
    PROVE  /\ job' \in [RowId -> Loop(JobPcs)] /\ job'[i] = w
           /\ \A j \in RowId : j # i => job'[j] = job[j]
<1>1. job \in [RowId -> Loop(JobPcs)]
  BY LoopTypes DEF IndInv
<1>2. QED
  BY <1>1

LEMMA JobSucceedStep ==
    ASSUME IndInv, NEW i \in RowId, job_succeed(i)
    PROVE  IndInv'
<1>0. TypeOK /\ JobsOK
  BY DEF IndInv
<1>1. /\ UNCHANGED <<queue, stalled, call, cancel, unlinked, lost, faults>>
      /\ job[i].pc = "notify" /\ Marked(i, "succeeded")
      /\ job' = [job EXCEPT ![i].pc = "find"]
  BY DEF job_succeed, at, Marked
<1>2. job[i] \in Loop(JobPcs) /\ LoopOK(job[i]) /\ queue[i] = "active" /\ i \in DOMAIN rows
  BY <1>1, JobFacts
<1> DEFINE w == [job[i] EXCEPT !.pc = "find"]
<1>3. w \in Loop(JobPcs) /\ w.pc = "find" /\ w.todo = job[i].todo
  BY <1>2 DEF Loop, JobPcs
<1>4. job' = [job EXCEPT ![i] = w]
  BY <1>1
<1> HIDE DEF w
<1>5. /\ job' \in [RowId -> Loop(JobPcs)] /\ job'[i] = w
      /\ \A j \in RowId : j # i => job'[j] = job[j]
  BY <1>3, <1>4, JobMoves
<1>6. /\ rows' \in Seq(PaymentRetryRecord) /\ Len(rows') = Len(rows)
      /\ DOMAIN rows' = DOMAIN rows
      /\ \A j \in DOMAIN rows :
            /\ rows'[j].pair = rows[j].pair /\ rows'[j].jobId = rows[j].jobId
            /\ rows'[j].attemptNumber = rows[j].attemptNumber
            /\ rows'[j].status = IF j = i THEN "succeeded" ELSE rows[j].status
  BY <1>0, <1>1, <1>2, RowMarked DEF Finishes
<1>7. QueueMoves
  BY <1>1 DEF QueueMoves
<1>8. Grown /\ CancelledOK'
  BY <1>1, <1>2, <1>7, MarkKeeps DEF Finishes
<1>9. LoopOK(job[i])'
  BY <1>2, <1>3, <1>5, <1>6 DEF LoopOK
<1>10. JobsOK'
  <2>1. \A j \in RowId : job[j].pc # "idle" => j \in DOMAIN rows
    BY <1>0 DEF JobsOK
  <2>2. QED
    BY <1>0, <1>1, <1>2, <1>3, <1>5, <1>6, <2>1 DEF JobsOK
<1>11. PendingIsDriven'
  <2>1. \A j \in RowId : job[j].pc = "update" => job'[j] = job[j]
    BY <1>1, <1>5
  <2>2. QED
    BY <1>1, <1>6, <1>8, <2>1, DrivenKept
<1>12. QED
  BY <1>0, <1>1, <1>5, <1>6, <1>7, <1>8, <1>9, <1>10, <1>11, JobStepKeeps DEF TypeOK

\* The handler returns while the row is no longer pending, or is lost.
LEMMA FinishStep ==
    ASSUME IndInv, NEW i \in RowId, queue[i] = "active", finish(i), i \in DOMAIN rows,
           Grown, CancelledOK',
           rows' \in Seq(PaymentRetryRecord), Len(rows') = Len(rows),
           DOMAIN rows' = DOMAIN rows,
           \A j \in DOMAIN rows : rows'[j].jobId = rows[j].jobId,
           rows'[i].status # "pending" \/ i \in lost',
           job[i].pc = "update" => rows'[job[i].hand.id].status # "pending",
           lost \subseteq lost', lost' \subseteq RowId, faults' \in 0..MAX_FAULTS,
           UNCHANGED <<call, cancel, stalled, unlinked>>
    PROVE  IndInv'
<1>0. TypeOK /\ JobsOK
  BY DEF IndInv
<1>1. /\ QueueMoves
      /\ queue' \in [RowId -> {"none", "delayed", "active", "done"}]
      /\ queue'[i] = "done" /\ \A j \in RowId : j # i => queue'[j] = queue[j]
      /\ job' \in [RowId -> Loop(JobPcs)] /\ job'[i].pc = "idle"
      /\ \A j \in RowId : j # i => job'[j] = job[j]
      /\ LoopOK(job[i])'
  BY Finished
<1>2. Cardinality({j \in RowId : queue'[j] = "active"}) <= CONCURRENCY
  <2>1. \A j \in RowId : queue'[j] = "active" => queue[j] = "active"
    BY <1>1
  <2>2. QED
    BY <1>0, <2>1, ActiveKept
<1>3. JobsOK'
  <2>1. \A j \in RowId : job[j].pc # "idle" => j \in DOMAIN rows
    BY <1>0 DEF JobsOK
  <2>2. \A j \in DOMAIN rows : rows'[j].status = "pending" => rows[j].status = "pending"
    BY DEF Grown
  <2>3. QED
    BY <1>0, <1>1, <2>1, <2>2 DEF JobsOK
<1>4. PendingIsDriven'
  <2> DEFINE D == {i} \cup {j \in DOMAIN rows : rows'[j].status # "pending"}
  <2>1. \A j \in DOMAIN rows : j \in D => rows'[j].status # "pending" \/ j \in lost'
    OBVIOUS
  <2>2. \A j \in RowId \ D : queue[j] \in {"delayed", "active"} => queue'[j] \in {"delayed", "active"}
    BY <1>1
  <2>3. \A j \in RowId : job[j].pc = "update" => job'[j] = job[j] \/ job[j].hand.id \in D
    <3>1. job[i].pc = "update" => job[i].hand.id \in DOMAIN rows
      BY JobFacts
    <3>2. QED
      BY <1>1, <3>1
  <2> HIDE DEF D
  <2>4. QED
    BY <2>1, <2>2, <2>3, DrivenKept
<1>5. unlinked' \subseteq RowId
  BY <1>0 DEF TypeOK
<1>6. QED
  BY <1>1, <1>2, <1>3, <1>4, <1>5, JobStepKeeps

LEMMA JobFindStep ==
    ASSUME IndInv, NEW i \in RowId, job_find(i)
    PROVE  IndInv'
<1>0. TypeOK /\ JobsOK
  BY DEF IndInv
<1> DEFINE rest == pending(rows[i].pair) \ {i}
<1>1. /\ UNCHANGED <<rows, stalled, call, cancel, unlinked, lost, faults>>
      /\ job[i].pc = "find"
      /\ \/ finish(i)
         \/ /\ job' = [job EXCEPT ![i].pc = "remove", ![i].todo = read_rows(rest)]
            /\ UNCHANGED queue
  BY DEF job_find
<1>2. /\ job[i] \in Loop(JobPcs) /\ queue[i] = "active" /\ i \in DOMAIN rows
      /\ rows[i].status # "pending"
  BY <1>1, JobFacts
<1>3. /\ rows' \in Seq(PaymentRetryRecord) /\ Len(rows') = Len(rows)
      /\ unlinked' \subseteq RowId /\ lost' \subseteq RowId /\ faults' \in 0..MAX_FAULTS
  BY <1>0, <1>1 DEF TypeOK
<1>4. CASE finish(i)
  <2>1. QueueMoves
    BY <1>2, <1>4, Finished
  <2>2. Grown /\ CancelledOK'
    BY <1>1, <2>1, RowsKept
  <2>3. QED
    BY <1>1, <1>2, <1>3, <1>4, <2>2, FinishStep
<1>5. CASE job' = [job EXCEPT ![i].pc = "remove", ![i].todo = read_rows(rest)] /\ UNCHANGED queue
  <2>1. rest \in SUBSET DOMAIN rows
    BY DEF pending
  <2>2. /\ read_rows(rest) \in SUBSET ReadRow
        /\ \A r \in read_rows(rest) : r.id \in DOMAIN rows /\ (r.jobId => rows[r.id].jobId)
    BY <1>0, <2>1, ReadRows
  <2> DEFINE w == [job[i] EXCEPT !.pc = "remove", !.todo = read_rows(rest)]
  <2> HIDE DEF rest
  <2>3. w \in Loop(JobPcs) /\ w.pc = "remove" /\ w.todo = read_rows(rest)
    BY <1>2, <2>2 DEF Loop, JobPcs
  <2>4. job' = [job EXCEPT ![i] = w]
    BY <1>5
  <2> HIDE DEF w
  <2>5. /\ job' \in [RowId -> Loop(JobPcs)] /\ job'[i] = w
        /\ \A j \in RowId : j # i => job'[j] = job[j]
    BY <2>3, <2>4, JobMoves
  <2>6. Grown /\ CancelledOK' /\ QueueMoves
    BY <1>1, <1>5, RowsKept DEF QueueMoves
  <2>7. LoopOK(job[i])'
    BY <1>1, <2>2, <2>3, <2>5 DEF LoopOK
  <2>8. JobsOK'
    BY <1>0, <1>1, <1>2, <1>5, <2>3, <2>5 DEF JobsOK
  <2>9. PendingIsDriven'
    <3>1. \A j \in RowId : job[j].pc = "update" => job'[j] = job[j]
      BY <1>1, <2>5
    <3>2. QED
      BY <1>1, <1>5, <2>6, <3>1, DrivenKept
  <2>10. /\ queue' \in [RowId -> {"none", "delayed", "active", "done"}]
         /\ Cardinality({j \in RowId : queue'[j] = "active"}) <= CONCURRENCY
    BY <1>0, <1>5 DEF TypeOK
  <2>11. QED
    BY <1>1, <1>3, <2>5, <2>6, <2>7, <2>8, <2>9, <2>10, JobStepKeeps
<1>6. QED
  BY <1>1, <1>4, <1>5

LEMMA JobRemoveStep ==
    ASSUME IndInv, NEW i \in RowId, job_remove(i)
    PROVE  IndInv'
<1>0. TypeOK /\ JobsOK
  BY DEF IndInv
<1>1. UNCHANGED <<rows, stalled, call, cancel, lost>>
  BY DEF job_remove
<1>2. PICK r \in job[i].todo : /\ removal(job[i], r)
                               /\ job' = [job EXCEPT ![i] = removed(job[i], r)]
  BY DEF job_remove
<1>3. job[i] \in Loop(JobPcs) /\ LoopOK(job[i]) /\ job[i].pc = "remove"
  BY <1>2, JobFacts DEF removal
<1>4. queue[i] = "active" /\ i \in DOMAIN rows /\ rows[i].status # "pending"
  BY <1>3, JobFacts
<1>5. job[i].todo \in SUBSET ReadRow
  BY <1>3 DEF Loop
<1>6. /\ r \in ReadRow /\ r \in job[i].todo /\ r.id \in DOMAIN rows /\ r.id \in RowId
      /\ QueueMoves /\ \A j \in RowId : j # r.id => queue'[j] = queue[j]
      /\ \A j \in RowId : queue[j] = "active" <=> queue'[j] = "active"
      /\ queue' \in [RowId -> {"none", "delayed", "active", "done"}]
      /\ unlinked \subseteq unlinked' /\ unlinked' \subseteq RowId
      /\ r.id \in unlinked' \/ Gone(r.id)'
      /\ faults' \in 0..MAX_FAULTS
  BY <1>1, <1>2, <1>3, <1>5, Removal
<1> DEFINE w == removed(job[i], r)
<1>7. w \in Loop(JobPcs) /\ w.todo \subseteq job[i].todo /\ w.hand = r /\ w.pc = "update"
  BY <1>3, <1>6, LoopMoves DEF JobPcs
<1> HIDE DEF w
<1>8. /\ job' \in [RowId -> Loop(JobPcs)] /\ job'[i] = w
      /\ \A j \in RowId : j # i => job'[j] = job[j]
  BY <1>2, <1>7, JobMoves DEF w
<1>9. Grown /\ CancelledOK'
  BY <1>1, <1>6, RowsKept
<1>10. Cardinality({j \in RowId : queue'[j] = "active"}) <= CONCURRENCY
  BY <1>0, <1>6, ActiveKept
<1>11. JobsOK'
  <2>1. \A j \in RowId : /\ queue'[j] # "none" => queue[j] # "none"
                         /\ queue[j] = "active" => queue'[j] = "active"
    BY <1>6 DEF QueueMoves
  <2>2. QED
    BY <1>0, <1>1, <1>4, <1>7, <1>8, <2>1 DEF JobsOK
<1>12. LoopOK(job[i])'
  <2>1. \A q \in w.todo : q.id \in DOMAIN rows' /\ (q.jobId => rows'[q.id].jobId)
    BY <1>1, <1>3, <1>7 DEF LoopOK
  <2>2. job'[i].todo = w.todo /\ job'[i].hand = r
    BY <1>7, <1>8
  <2>3. QED
    BY <1>1, <1>6, <2>1, <2>2 DEF LoopOK
<1>13. PendingIsDriven'
  <2>1. \A j \in RowId : job[j].pc = "update" => job'[j] = job[j]
    BY <1>3, <1>8
  <2>2. job'[i].pc = "update" /\ job'[i].hand.id = r.id
    BY <1>7, <1>8
  <2>3. \A n \in DOMAIN rows : n \in {r.id} =>
           \E j \in RowId : job'[j].pc = "update" /\ job'[j].hand.id = n
    BY <2>2
  <2>4. \A j \in RowId \ {r.id} : queue[j] \in {"delayed", "active"}
                                     => queue'[j] \in {"delayed", "active"}
    BY <1>6
  <2>5. QED
    BY <1>1, <1>9, <2>1, <2>3, <2>4, DrivenKept
<1>14. rows' \in Seq(PaymentRetryRecord) /\ Len(rows') = Len(rows) /\ lost' \subseteq RowId
  BY <1>0, <1>1 DEF TypeOK
<1>15. QED
  BY <1>1, <1>6, <1>8, <1>9, <1>10, <1>11, <1>12, <1>13, <1>14, JobStepKeeps

LEMMA JobUpdateStep ==
    ASSUME IndInv, NEW i \in RowId, job_update(i)
    PROVE  IndInv'
<1>0. TypeOK /\ JobsOK
  BY DEF IndInv
<1> DEFINE n == job[i].hand.id
           w == looped(job[i])
<1>1. /\ UNCHANGED <<stalled, call, cancel, unlinked, lost, faults>>
      /\ job[i].pc = "update" /\ Marked(n, "cancelled")
      /\ finish(i) \/ (job' = [job EXCEPT ![i] = w] /\ UNCHANGED queue)
  BY DEF job_update, cancelled, Marked
<1>2. /\ job[i] \in Loop(JobPcs) /\ LoopOK(job[i]) /\ queue[i] = "active"
      /\ i \in DOMAIN rows /\ rows[i].status # "pending"
  BY <1>1, JobFacts
<1>3. n \in DOMAIN rows /\ (n \in unlinked \/ Gone(n))
  BY <1>1, <1>2 DEF LoopOK
<1>4. w \in Loop(JobPcs) /\ w.todo \subseteq job[i].todo /\ w.pc \in {"idle", "remove"}
  BY <1>2, LoopMoves DEF JobPcs
<1> HIDE DEF w, n
<1>5. /\ rows' \in Seq(PaymentRetryRecord) /\ Len(rows') = Len(rows)
      /\ DOMAIN rows' = DOMAIN rows
      /\ \A j \in DOMAIN rows :
            /\ rows'[j].pair = rows[j].pair /\ rows'[j].jobId = rows[j].jobId
            /\ rows'[j].attemptNumber = rows[j].attemptNumber
            /\ rows'[j].status = IF j = n THEN "cancelled" ELSE rows[j].status
  BY <1>0, <1>1, <1>3, RowMarked DEF Finishes
<1>6. unlinked' \subseteq RowId /\ lost' \subseteq RowId /\ faults' \in 0..MAX_FAULTS
  BY <1>0, <1>1 DEF TypeOK
<1>7. CASE finish(i)
  <2>1. QueueMoves
    BY <1>2, <1>7, Finished
  <2>2. Grown /\ CancelledOK'
    BY <1>1, <1>3, <2>1, MarkKeeps DEF Finishes
  <2>3. rows'[i].status # "pending" /\ rows'[job[i].hand.id].status # "pending"
    BY <1>2, <1>3, <1>5 DEF n
  <2>4. QED
    BY <1>1, <1>2, <1>5, <1>6, <1>7, <2>2, <2>3, FinishStep
<1>8. CASE job' = [job EXCEPT ![i] = w] /\ UNCHANGED queue
  <2>1. /\ job' \in [RowId -> Loop(JobPcs)] /\ job'[i] = w
        /\ \A j \in RowId : j # i => job'[j] = job[j]
    BY <1>4, <1>8, JobMoves
  <2>2. QueueMoves
    BY <1>8 DEF QueueMoves
  <2>3. Grown /\ CancelledOK'
    BY <1>1, <1>3, <2>2, MarkKeeps DEF Finishes
  <2>4. LoopOK(job[i])'
    BY <1>2, <1>4, <1>5, <2>1 DEF LoopOK
  <2>5. JobsOK'
    <3>1. \A j \in RowId : job[j].pc # "idle" => j \in DOMAIN rows
      BY <1>0 DEF JobsOK
    <3>2. QED
      BY <1>0, <1>2, <1>4, <1>5, <1>8, <2>1, <3>1 DEF JobsOK
  <2>6. PendingIsDriven'
    <3>1. \A j \in RowId : job[j].pc = "update" => job'[j] = job[j] \/ job[j].hand.id \in {n}
      BY <2>1 DEF n
    <3>2. \A j \in DOMAIN rows : j \in {n} => rows'[j].status # "pending"
      BY <1>5
    <3>3. QED
      BY <1>1, <1>5, <1>8, <2>3, <3>1, <3>2, DrivenKept
  <2>7. /\ queue' \in [RowId -> {"none", "delayed", "active", "done"}]
        /\ Cardinality({j \in RowId : queue'[j] = "active"}) <= CONCURRENCY
    BY <1>0, <1>8 DEF TypeOK
  <2>8. QED
    BY <1>1, <1>5, <1>6, <2>1, <2>2, <2>3, <2>4, <2>5, <2>6, <2>7, JobStepKeeps
<1>9. QED
  BY <1>1, <1>7, <1>8

LEMMA JobFailStep ==
    ASSUME IndInv, NEW i \in RowId, job_fail(i)
    PROVE  IndInv'
<1>0. TypeOK
  BY DEF IndInv
<1>1. /\ UNCHANGED <<stalled, call, cancel, unlinked, lost, faults>>
      /\ job[i].pc \in {"notify", "fail"} /\ Marked(i, "failed") /\ finish(i)
  BY DEF job_fail, Marked
<1>2. queue[i] = "active" /\ i \in DOMAIN rows
  BY <1>1, JobFacts
<1>3. /\ rows' \in Seq(PaymentRetryRecord) /\ Len(rows') = Len(rows)
      /\ DOMAIN rows' = DOMAIN rows
      /\ \A j \in DOMAIN rows :
            /\ rows'[j].pair = rows[j].pair /\ rows'[j].jobId = rows[j].jobId
            /\ rows'[j].attemptNumber = rows[j].attemptNumber
            /\ rows'[j].status = IF j = i THEN "failed" ELSE rows[j].status
  BY <1>0, <1>1, <1>2, RowMarked DEF Finishes
<1>4. lost' \subseteq RowId /\ faults' \in 0..MAX_FAULTS
  BY <1>0, <1>1 DEF TypeOK
<1>5. QueueMoves
  BY <1>1, <1>2, Finished
<1>6. Grown /\ CancelledOK'
  BY <1>1, <1>2, <1>5, MarkKeeps DEF Finishes
<1>7. rows'[i].status # "pending"
  BY <1>2, <1>3
<1>8. QED
  BY <1>1, <1>2, <1>3, <1>4, <1>6, <1>7, FinishStep

\* An error: inside the try block the job goes on to its catch block.
LEMMA JobErrorStep ==
    ASSUME IndInv, NEW i \in RowId, job_error(i)
    PROVE  IndInv'
<1>0. TypeOK /\ JobsOK
  BY DEF IndInv
<1> DEFINE w == [Rest EXCEPT !.pc = "fail"]
<1>1. /\ UNCHANGED <<rows, stalled, call, cancel, unlinked>>
      /\ job[i].pc \in {"notify", "find", "update", "fail"}
      /\ faults < MAX_FAULTS /\ faults' = faults + 1
      /\ \/ job[i].pc \in {"notify", "fail"} /\ finish(i) /\ lost' = lost \cup {i}
         \/ /\ job' = [job EXCEPT ![i] = w]
            /\ lost' = IF job[i].pc = "update" THEN lost \cup {job[i].hand.id} ELSE lost
            /\ UNCHANGED queue
  BY DEF job_error
<1>2. /\ job[i] \in Loop(JobPcs) /\ LoopOK(job[i]) /\ queue[i] = "active" /\ i \in DOMAIN rows
      /\ job[i].pc = "update" => job[i].hand.id \in RowId
  BY <1>1, JobFacts
<1>3. /\ faults' \in 0..MAX_FAULTS /\ rows' \in Seq(PaymentRetryRecord)
      /\ unlinked' \subseteq RowId /\ lost \subseteq RowId
  BY <1>0, <1>1, BoundsAssumption DEF TypeOK
<1>4. CASE job[i].pc \in {"notify", "fail"} /\ finish(i) /\ lost' = lost \cup {i}
  <2>1. QueueMoves
    BY <1>2, <1>4, Finished
  <2>2. Grown /\ CancelledOK'
    BY <1>1, <2>1, RowsKept
  <2>3. lost' \subseteq RowId /\ lost \subseteq lost' /\ i \in lost'
    BY <1>3, <1>4
  <2>4. QED
    BY <1>1, <1>2, <1>3, <1>4, <2>2, <2>3, FinishStep
<1>5. CASE /\ job' = [job EXCEPT ![i] = w]
           /\ lost' = IF job[i].pc = "update" THEN lost \cup {job[i].hand.id} ELSE lost
           /\ UNCHANGED queue
  <2>1. w \in Loop(JobPcs) /\ w.pc = "fail" /\ w.todo = {}
    BY DEF Rest, Loop, JobPcs
  <2> HIDE DEF w
  <2>2. /\ job' \in [RowId -> Loop(JobPcs)] /\ job'[i] = w
        /\ \A j \in RowId : j # i => job'[j] = job[j]
    BY <1>5, <2>1, JobMoves
  <2>3. QueueMoves
    BY <1>5 DEF QueueMoves
  <2>4. Grown /\ CancelledOK'
    BY <1>1, <2>3, RowsKept
  <2>5. LoopOK(job[i])'
    BY <2>1, <2>2 DEF LoopOK
  <2>6. JobsOK'
    BY <1>0, <1>1, <1>2, <1>5, <2>1, <2>2 DEF JobsOK
  <2>7. lost' \subseteq RowId /\ lost \subseteq lost'
    BY <1>2, <1>3, <1>5
  <2>8. PendingIsDriven'
    <3>1. \A j \in RowId : job[j].pc = "update" => job'[j] = job[j] \/ job[j].hand.id \in lost'
      BY <1>5, <2>2
    <3>2. QED
      BY <1>1, <1>5, <2>4, <2>7, <3>1, DrivenKept
  <2>9. /\ queue' \in [RowId -> {"none", "delayed", "active", "done"}]
        /\ Cardinality({j \in RowId : queue'[j] = "active"}) <= CONCURRENCY
    BY <1>0, <1>5 DEF TypeOK
  <2>10. QED
    BY <1>1, <1>3, <2>2, <2>3, <2>4, <2>5, <2>6, <2>7, <2>8, <2>9, JobStepKeeps
<1>6. QED
  BY <1>1, <1>4, <1>5

-----------------------------------------------------------------------------
(* The process dies, and everything it was about to do is lost.            *)

LEMMA CrashStep ==
    ASSUME IndInv, crash
    PROVE  IndInv'
<1>0. TypeOK /\ CallsOK /\ LoopsOK /\ JobsOK
  BY DEF IndInv
<1>1. /\ UNCHANGED <<rows, unlinked>>
      /\ faults < MAX_FAULTS /\ faults' = faults + 1
      /\ queue' = [i \in RowId |-> IF i \notin Active THEN queue[i]
                                   ELSE IF i \in stalled THEN "done" ELSE "delayed"]
      /\ stalled' = stalled \cup Active
      /\ lost' = lost \cup (Active \cap stalled)
                      \cup {call[c].id : c \in {c \in Calls : call[c].pc = "add"}}
                      \cup {cancel[k].hand.id : k \in {k \in Cancels : cancel[k].pc = "update"}}
                      \cup {job[i].hand.id : i \in {i \in RowId : job[i].pc = "update"}}
      /\ call' = [c \in Calls |-> NoCall]
      /\ cancel' = [k \in Cancels |-> Rest]
      /\ job' = [i \in RowId |-> Rest]
  BY DEF crash, Active
<1>2. queue \in [RowId -> {"none", "delayed", "active", "done"}]
  BY <1>0 DEF TypeOK
<1>3. /\ queue' \in [RowId -> {"none", "delayed", "active", "done"}]
      /\ \A i \in RowId : queue'[i] # "active" /\ (queue[i] = "none" => queue'[i] = "none")
      /\ QueueMoves
  BY <1>1, <1>2 DEF QueueMoves, Active
<1>4. Grown /\ CancelledOK'
  BY <1>1, <1>3, RowsKept
<1>5. /\ \A c \in Calls : call[c].pc = "add" => call[c].id \in RowId
      /\ \A k \in Cancels : cancel[k].pc = "update" => cancel[k].hand.id \in RowId
      /\ \A i \in RowId : job[i].pc = "update" => job[i].hand.id \in RowId
  BY <1>0, IdType DEF Adding, LoopsOK, LoopOK
<1>6. lost \subseteq lost' /\ lost' \subseteq RowId /\ stalled' \subseteq RowId
  BY <1>0, <1>1, <1>5 DEF TypeOK, Active
<1>7. /\ Rest \in Loop(CancelPcs) /\ Rest \in Loop(JobPcs)
      /\ Rest.pc = "idle" /\ Rest.todo = {} /\ NoCall.pc = "idle"
  BY RestType DEF CancelPcs, JobPcs, NoCall
<1>8. TypeOK'
  <2>1. Cardinality({i \in RowId : queue'[i] = "active"}) <= CONCURRENCY
    BY <1>0, <1>3, ActiveKept
  <2>2. call' \in [Calls -> [pc : {"idle", "insert", "add", "fill"}, pair : Pairs,
                             attempt : 1..MAX_RETRIES, id : 0..Len(rows)]]
    <3>1. Len(rows) \in Nat
      BY <1>0, LenProperties DEF TypeOK
    <3>2. QED
      BY <1>0, <1>1, <3>1, NoCallType
  <2>3. faults' \in 0..MAX_FAULTS
    BY <1>0, <1>1, BoundsAssumption DEF TypeOK
  <2>4. cancel' \in [Cancels -> Loop(CancelPcs)] /\ job' \in [RowId -> Loop(JobPcs)]
    BY <1>1, <1>7
  <2>5. QED
    BY <1>0, <1>1, <1>3, <1>6, <2>1, <2>2, <2>3, <2>4 DEF TypeOK, Loop, CancelPcs, JobPcs
<1>9. CallsOK'
  BY <1>1, <1>7 DEF CallsOK, Adding
<1>10. LoopsOK'
  BY <1>1, <1>7 DEF LoopsOK, LoopOK
<1>11. JobsOK'
  BY <1>0, <1>1, <1>3, <1>7 DEF JobsOK
<1>12. PendingIsDriven'
  <2>1. \A i \in RowId \ lost' : queue[i] \in {"delayed", "active"}
                                   => queue'[i] \in {"delayed", "active"}
    BY <1>1 DEF Active
  <2>2. \A c \in Calls : call[c].pc = "add" => call[c].id \in lost'
    BY <1>1
  <2>3. \A k \in Cancels : cancel[k].pc = "update" => cancel[k].hand.id \in lost'
    BY <1>1
  <2>4. \A j \in RowId : job[j].pc = "update" => job[j].hand.id \in lost'
    BY <1>1
  <2>5. QED
    BY <1>1, <1>4, <1>6, <2>1, <2>2, <2>3, <2>4, DrivenKept
<1>13. Counted'
  <2>1. \A p \in Pairs, a \in 1..MAX_RETRIES : ToInsert(p, a)' \subseteq ToInsert(p, a)
    BY <1>1, <1>7 DEF ToInsert
  <2>2. QED
    BY <1>1, <1>4, <2>1, CountShrinks
<1>14. QED
  BY <1>4, <1>8, <1>9, <1>10, <1>11, <1>12, <1>13 DEF IndInv

LEMMA InitInv ==
    ASSUME Init
    PROVE  IndInv
<1>1. /\ rows = << >> /\ queue = [i \in RowId |-> "none"] /\ stalled = {}
      /\ call = [c \in Calls |-> NoCall]
      /\ cancel = [k \in Cancels |-> Rest] /\ job = [i \in RowId |-> Rest]
      /\ unlinked = {} /\ lost = {} /\ faults = 0
  BY DEF Init
<1>2. rows \in Seq(PaymentRetryRecord) /\ Len(rows) = 0 /\ DOMAIN rows = {}
  BY <1>1, EmptySeq
<1>3. /\ Rest \in Loop(CancelPcs) /\ Rest \in Loop(JobPcs)
      /\ Rest.pc = "idle" /\ Rest.todo = {} /\ NoCall.pc = "idle"
  BY RestType DEF CancelPcs, JobPcs, NoCall
<1>4. TypeOK
  <2>1. {i \in RowId : queue[i] = "active"} = {}
    BY <1>1
  <2>2. Cardinality({i \in RowId : queue[i] = "active"}) <= CONCURRENCY
    BY <2>1, FS_EmptySet, BoundsAssumption
  <2>3. call \in [Calls -> [pc : {"idle", "insert", "add", "fill"}, pair : Pairs,
                            attempt : 1..MAX_RETRIES, id : 0..Len(rows)]]
    <3>1. NoCall \in [pc : {"idle", "insert", "add", "fill"}, pair : Pairs,
                      attempt : 1..MAX_RETRIES, id : 0..0]
      BY BoundsAssumption, PairsAssumption DEF NoCall
    <3>2. QED
      BY <1>1, <1>2, <3>1
  <2>4. cancel \in [Cancels -> Loop(CancelPcs)] /\ job \in [RowId -> Loop(JobPcs)]
    BY <1>1, <1>3
  <2>5. Len(rows) <= MAX_ROWS /\ faults \in 0..MAX_FAULTS
    BY <1>1, <1>2, BoundsAssumption
  <2>6. QED
    BY <1>1, <1>2, <2>2, <2>3, <2>4, <2>5 DEF TypeOK, Loop, CancelPcs, JobPcs
<1>5. CallsOK /\ LoopsOK
  BY <1>1, <1>3 DEF CallsOK, Adding, LoopsOK, LoopOK
<1>6. JobsOK /\ CancelledOK /\ PendingIsDriven
  BY <1>1, <1>2, <1>3 DEF JobsOK, CancelledOK, PendingIsDriven
<1>7. Counted
  <2> SUFFICES ASSUME NEW p \in Pairs, NEW a \in 1..MAX_RETRIES
               PROVE  Cardinality(PendingAt(p, a)) + Cardinality(ToInsert(p, a))
                        <= Cardinality(Calls)
    BY DEF Counted
  <2>1. PendingAt(p, a) = {} /\ ToInsert(p, a) = {}
    BY <1>1, <1>2, <1>3 DEF PendingAt, pending, ToInsert
  <2>2. Cardinality(PendingAt(p, a)) = 0 /\ Cardinality(ToInsert(p, a)) = 0
    BY <2>1, FS_EmptySet
  <2>3. QED
    BY <1>4, <2>2, CountTypes
<1>8. QED
  BY <1>4, <1>5, <1>6, <1>7 DEF IndInv

LEMMA StepInv ==
    ASSUME IndInv, [Next]_vars
    PROVE  IndInv'
<1>1. ASSUME NEW c \in Calls, NEW p \in Pairs, enqueueRetries(c, p)
      PROVE  IndInv'
  BY <1>1, EnqueueStep
<1>2. ASSUME NEW c \in Calls, call_step(c) \/ call_error(c)
      PROVE  IndInv'
  BY <1>2, CreateStep, AddStep, StoreStep, CallErrorStep DEF call_step
<1>3. ASSUME NEW k \in Cancels, NEW p \in Pairs, cancelRetries(k, p)
      PROVE  IndInv'
  BY <1>3, CancelStep
<1>4. ASSUME NEW k \in Cancels, cancel_step(k) \/ cancel_error(k)
      PROVE  IndInv'
  BY <1>4, CancelRemoveStep, CancelUpdateStep, CancelErrorStep DEF cancel_step
<1>5. ASSUME NEW i \in RowId, job_step(i) \/ job_error(i)
      PROVE  IndInv'
  BY <1>5, JobStartStep, JobSucceedStep, JobFindStep, JobRemoveStep, JobUpdateStep,
     JobFailStep, JobErrorStep DEF job_step
<1>6. CASE UNCHANGED vars
  <2>1. UNCHANGED <<rows, queue, stalled, call, cancel, job, unlinked, lost, faults>>
    BY <1>6 DEF vars
  <2>2. /\ TypeOK /\ CallsOK /\ LoopsOK /\ JobsOK /\ CancelledOK /\ PendingIsDriven /\ Counted
    BY DEF IndInv
  <2>3. TypeOK'
    BY <2>1, <2>2 DEF TypeOK
  <2>4. CallsOK' /\ JobsOK' /\ CancelledOK'
    BY <2>1, <2>2 DEF CallsOK, Adding, JobsOK, CancelledOK, Gone
  <2>5. LoopsOK'
    BY <2>1, <2>2 DEF LoopsOK, LoopOK, Gone
  <2>6. PendingIsDriven'
    BY <2>1, <2>2 DEF PendingIsDriven
  <2>7. Counted'
    BY <2>1, <2>2 DEF Counted, PendingAt, pending, ToInsert
  <2>8. QED
    BY <2>3, <2>4, <2>5, <2>6, <2>7 DEF IndInv
<1>7. QED
  BY <1>1, <1>2, <1>3, <1>4, <1>5, <1>6, CrashStep DEF Next

-----------------------------------------------------------------------------
(* Theorems.                                                               *)

\* Whatever overlaps, fails and is restarted, the two stores of
\* retryQueue.ts stay related as IndInv says.
THEOREM Invariance == Spec => []IndInv
<1>1. Init => IndInv
  BY InitInv
<1>2. IndInv /\ [Next]_vars => IndInv'
  BY StepInv
<1>3. QED
  BY <1>1, <1>2, PTL DEF Spec

LEMMA InvImplies ==
    ASSUME IndInv
    PROVE  TypeOK /\ PendingBounded /\ CancelledJobsAreGone /\ PendingIsDriven
<1>1. TypeOK /\ CancelledOK /\ PendingIsDriven /\ Counted
  BY DEF IndInv
<1>2. PendingBounded
  <2> SUFFICES ASSUME NEW p \in Pairs, NEW a \in 1..MAX_RETRIES
               PROVE  Cardinality(PendingAt(p, a)) <= Cardinality(Calls)
    BY DEF PendingBounded, PendingAt
  <2>1. Cardinality(PendingAt(p, a)) + Cardinality(ToInsert(p, a)) <= Cardinality(Calls)
    BY <1>1 DEF Counted
  <2>2. QED
    BY <1>1, <2>1, CountTypes
<1>3. CancelledJobsAreGone
  BY <1>1 DEF CancelledJobsAreGone, CancelledOK, Gone
<1>4. QED
  BY <1>1, <1>2, <1>3

\* Rows, jobs and calls keep their types: the loop of enqueueRetries makes no
\* attempt beyond MAX_RETRIES, and BullMQ runs no more jobs at once than the
\* worker's concurrency.
THEOREM TypeCorrect == Spec => []TypeOK
<1>1. IndInv => TypeOK
  BY DEF IndInv
<1>2. QED
  BY <1>1, Invariance, PTL

\* The check of hasPending and the inserts are apart, so overlapping calls of
\* enqueueRetries can all pass: an attempt of a pair is still never pending
\* more often than there are overlapping calls.
THEOREM PendingBoundedHolds == Spec => []PendingBounded
<1>1. IndInv => PendingBounded
  BY InvImplies
<1>2. QED
  BY <1>1, Invariance, PTL

\* A row that cancelRetries or processRetryJob has cancelled has no job left
\* to run, unless the loop could not remove it.
THEOREM CancelledJobsHold == Spec => []CancelledJobsAreGone
<1>1. IndInv => CancelledJobsAreGone
  BY InvImplies
<1>2. QED
  BY <1>1, Invariance, PTL

\* No pending row is stranded: a job, a call or a loop is about to deal with
\* it, or an error or a crash between the database and the queue lost it.
THEOREM PendingDrivenHolds == Spec => []PendingIsDriven
<1>1. IndInv => PendingIsDriven
  BY DEF IndInv
<1>2. QED
  BY <1>1, Invariance, PTL
====
