----------------------- MODULE EventIndexerProofs ------------------------
(* What holds of the event indexer and the outbox relay for every number of *)
(* overlapping tasks and relays, every batch size, and any errors, retries  *)
(* and crashes.                                                             *)
EXTENDS EventIndexer, FiniteSetTheorems, SequenceTheorems, TLAPS

\* Ledgers are numbered at most as fast as events, and never go back.
ChainOK ==
    \A i, j \in 1..Len(chain) : i <= j => chain[i].ledger <= chain[j].ledger
                                          /\ chain[j].ledger <= j

\* The events up to k have been handled.
Covered(k) == \A i \in 1..k : Handled(i)

\* A ledger that was stored is one of an event up to which all is handled.
LedgerOK(l) == l = 0 \/ \E k \in 1..Len(chain) : chain[k].ledger = l /\ Covered(k)

\* The event is stored, by this task or by another one.
Stored(e) == \E j \in 1..Len(chain) : chain[j] = e /\ copies[j] > 0 /\ outbox[j] # None

Working == {"check", "store", "read", "write", "pay"}

\* How far the task w has come: where it was told to begin, the events of its
\* batch that are behind it, and the writes for the event in hand.
TaskOK(w) ==
    /\ w.pc = "off" => w = Idle
    /\ Covered(w.cursor) /\ LedgerOK(w.ledger)
    /\ w.pc \in Working => Covered(w.event - 1)
    /\ w.pc \in {"store", "read", "write", "pay"}
         => chain[w.event].type \in STORED_EVENT_TYPES
    /\ w.pc \in {"read", "write", "pay"} => Stored(chain[w.event])
    /\ w.pc = "write" => transition(w.seen, chain[w.event].type) # None
    /\ w.pc = "pay" => status[chain[w.event].pair] # None
    /\ w.pc = "save" => w.last # 0 /\ Covered(w.last)

TasksOK == \A t \in Tasks : TaskOK(task[t])

StateOK == Covered(state.cursor) /\ LedgerOK(state.ledger)

\* An event and its outbox entry are written together.
RowsOK == \A i \in Id : copies[i] > 0 => outbox[i] # None

\* Tasks that have not found the event, and are to store it.
Storing(i) == {t \in Tasks : task[t].pc = "store" /\ task[t].event = i}

CopiesOK == \A i \in Id : copies[i] + Cardinality(Storing(i)) <= Cardinality(Tasks)

RelaysOK ==
    \A r \in Relays : /\ relay[r].pc \in {"dispatch", "publish", "fail"} => relay[r].entry \in Id
                      /\ relay[r].pc = "publish" => relay[r].entry \in dispatched

\* The inductive invariant.
IndInv ==
    /\ TypeOK /\ ChainOK /\ TasksOK /\ StateOK /\ RowsOK /\ CopiesOK
    /\ RelaysOK /\ PublishedWasDispatched

-----------------------------------------------------------------------------
(* What is handled stays handled.                                          *)

\* No step takes back an event or what was written for it.
Grows ==
    /\ Len(chain) <= Len(chain') /\ \A i \in 1..Len(chain) : chain'[i] = chain[i]
    /\ skipped \subseteq skipped' /\ payments \subseteq payments'
    /\ \A i \in Id : /\ copies[i] > 0 => copies'[i] > 0
                     /\ outbox[i] # None => outbox'[i] # None
    /\ \A p \in Pairs : status[p] # None => status'[p] # None

\* The events of the log have types, pairs and ledgers.
LEMMA ChainType ==
    ASSUME TypeOK
    PROVE  /\ Len(chain) \in Nat /\ DOMAIN chain = 1..Len(chain)
           /\ 1..Len(chain) \subseteq Id
           /\ \A i \in 1..Len(chain) :
                 /\ chain[i] \in Event /\ chain[i].type \in EventType
                 /\ chain[i].pair \in Pairs
                 /\ chain[i].ledger \in Nat /\ chain[i].ledger \in Ledger
<1>1. chain \in Seq(Event) /\ Len(chain) <= MAX_EVENTS
  BY DEF TypeOK
<1>2. Len(chain) \in Nat /\ DOMAIN chain = 1..Len(chain)
  BY <1>1, LenProperties
<1>3. \A i \in 1..Len(chain) : chain[i] \in Event
  BY <1>1, <1>2, ElementOfSeq
<1>4. 1..Len(chain) \subseteq Id
  BY <1>1, <1>2, BoundsAssumption DEF Id
<1>5. QED
  BY <1>2, <1>3, <1>4, BoundsAssumption DEF Event, Ledger

LEMMA StoredKept ==
    ASSUME TypeOK, Grows, Len(chain') \in Nat, NEW e, Stored(e)
    PROVE  Stored(e)'
<1>1. PICK j \in 1..Len(chain) : chain[j] = e /\ copies[j] > 0 /\ outbox[j] # None
  BY DEF Stored
<1>2. j \in Id /\ j \in 1..Len(chain')
  BY ChainType DEF Grows
<1>3. QED
  BY <1>1, <1>2 DEF Stored, Grows

LEMMA HandledKept ==
    ASSUME TypeOK, Grows, Len(chain') \in Nat, NEW i \in 1..Len(chain), Handled(i)
    PROVE  Handled(i)'
<1>1. CASE chain[i].type \in STORED_EVENT_TYPES /\ i \notin skipped
  <2>1. /\ Stored(chain[i]) /\ status[chain[i].pair] # None
        /\ chain[i].type = "executed" => i \in payments
    BY <1>1 DEF Handled, Stored
  <2>2. PICK e : e = chain[i]
    OBVIOUS
  <2>3. Stored(e)'
    BY <2>1, <2>2, StoredKept
  <2>4. chain'[i] = e /\ e.pair \in Pairs
    BY <2>2, ChainType DEF Grows
  <2>5. status'[e.pair] # None /\ (e.type = "executed" => i \in payments')
    BY <2>1, <2>2, <2>4 DEF Grows
  <2>6. QED
    BY <2>3, <2>4, <2>5 DEF Handled, Stored
<1>2. CASE ~(chain[i].type \in STORED_EVENT_TYPES /\ i \notin skipped)
  BY <1>2 DEF Handled, Grows
<1>3. QED
  BY <1>1, <1>2

LEMMA CoveredKept ==
    ASSUME TypeOK, Grows, Len(chain') \in Nat, NEW k \in Nat, k <= Len(chain), Covered(k)
    PROVE  Covered(k)'
<1> SUFFICES ASSUME NEW i \in 1..k
             PROVE  Handled(i)'
  BY DEF Covered
<1>1. i \in 1..Len(chain) /\ Handled(i)
  BY ChainType DEF Covered
<1>2. QED
  BY <1>1, HandledKept

LEMMA LedgerKept ==
    ASSUME TypeOK, Grows, Len(chain') \in Nat, NEW l, LedgerOK(l)
    PROVE  LedgerOK(l)'
<1>1. CASE l = 0
  BY <1>1 DEF LedgerOK
<1>2. CASE l # 0
  <2>1. PICK k \in 1..Len(chain) : chain[k].ledger = l /\ Covered(k)
    BY <1>2 DEF LedgerOK
  <2>2. k \in Nat /\ k <= Len(chain) /\ k \in 1..Len(chain')
    BY ChainType DEF Grows
  <2>3. Covered(k)'
    BY <2>1, <2>2, CoveredKept
  <2>4. chain'[k].ledger = l
    BY <2>1 DEF Grows
  <2>5. QED
    BY <2>2, <2>3, <2>4 DEF LedgerOK
<1>3. QED
  BY <1>1, <1>2

\* What TypeOK says of a single task.
Bounded(w) ==
    /\ w \in Task /\ w.cursor <= Len(chain) /\ w.last <= Len(chain)
    /\ w.pc \in Working => w.event \in 1..w.last

\* A task that a step leaves alone.
LEMMA TaskKept ==
    ASSUME TypeOK, Grows, Len(chain') \in Nat, NEW w, Bounded(w), TaskOK(w)
    PROVE  TaskOK(w)' /\ Bounded(w)'
<1>0. Len(chain) \in Nat /\ Len(chain) <= Len(chain')
  BY ChainType DEF Grows
<1>1. /\ w \in Task /\ w.cursor \in Nat /\ w.last \in Nat /\ w.event \in Nat
      /\ w.cursor <= Len(chain) /\ w.last <= Len(chain)
  BY BoundsAssumption DEF Bounded, Task
<1>2. Bounded(w)'
  BY <1>0, <1>1 DEF Bounded
<1>3. Covered(w.cursor)'
  <2>1. PICK k : k = w.cursor
    OBVIOUS
  <2>2. Covered(k)'
    BY <1>1, <2>1, CoveredKept DEF TaskOK
  <2>3. QED
    BY <2>1, <2>2
<1>4. LedgerOK(w.ledger)'
  BY LedgerKept DEF TaskOK
<1>5. ASSUME w.pc \in Working
      PROVE  /\ Covered(w.event - 1)' /\ w.event \in 1..Len(chain)
             /\ chain'[w.event] = chain[w.event]
  <2>1. w.event \in 1..w.last
    BY <1>5 DEF Bounded
  <2>2. w.event \in 1..Len(chain) /\ w.event - 1 \in Nat /\ w.event - 1 <= Len(chain)
    BY <1>0, <1>1, <2>1
  <2>3. Covered(w.event - 1)'
    BY <1>5, <2>2, CoveredKept DEF TaskOK
  <2>4. QED
    BY <2>2, <2>3 DEF Grows
<1>6. w.pc \in {"read", "write", "pay"} => Stored(chain[w.event])'
  <2>1. SUFFICES ASSUME w.pc \in {"read", "write", "pay"}
                 PROVE  Stored(chain[w.event])'
    OBVIOUS
  <2>2. PICK e : e = chain[w.event]
    OBVIOUS
  <2>3. Stored(e)' /\ chain'[w.event] = e
    BY <1>5, <2>1, <2>2, StoredKept DEF TaskOK, Working
  <2>4. QED
    BY <2>3 DEF Stored
<1>7. w.pc = "pay" => status'[chain'[w.event].pair] # None
  <2>1. SUFFICES ASSUME w.pc = "pay"
                 PROVE  status'[chain'[w.event].pair] # None
    OBVIOUS
  <2>2. status[chain[w.event].pair] # None /\ chain[w.event].pair \in Pairs
        /\ chain'[w.event] = chain[w.event]
    BY <1>5, <2>1, ChainType DEF TaskOK, Working
  <2>3. QED
    BY <2>2 DEF Grows
<1>8. w.pc = "save" => Covered(w.last)'
  BY <1>1, CoveredKept DEF TaskOK
<1>9. w.pc \in {"store", "read", "write", "pay"} =>
         /\ chain'[w.event].type \in STORED_EVENT_TYPES
         /\ w.pc = "write" => transition(w.seen, chain'[w.event].type) # None
  BY <1>5 DEF TaskOK, Working
<1>10. TaskOK(w)'
  BY <1>3, <1>4, <1>5, <1>6, <1>7, <1>8, <1>9 DEF TaskOK
<1>11. QED
  BY <1>2, <1>10

-----------------------------------------------------------------------------
(* Steps of one task.                                                      *)

\* Task t becomes w; a timer that is replaced becomes a loose one.
Moved(t, w) ==
    /\ task' \in [Tasks -> Task] /\ task'[t] = w
    /\ \A u \in Tasks : u # t => \/ task'[u] = task[u]
                                 \/ /\ task[u].pc = "timer"
                                    /\ task'[u] = [task[u] EXCEPT !.pc = "loose"]

LEMMA TaskFacts ==
    ASSUME IndInv, NEW t \in Tasks
    PROVE  /\ TaskOK(task[t]) /\ Bounded(task[t]) /\ task[t] \in Task
           /\ task \in [Tasks -> Task] /\ TypeOK
<1>1. TypeOK /\ TasksOK
  BY DEF IndInv
<1>2. Bounded(task[t])
  BY <1>1 DEF TypeOK, Bounded, Working
<1>3. QED
  BY <1>1, <1>2 DEF TasksOK, Bounded, TypeOK

LEMMA IdleType ==
    ASSUME TypeOK
    PROVE  /\ Idle \in Task /\ Idle.pc = "off" /\ Idle.cursor = 0 /\ Idle.ledger = 0
           /\ Idle.last = 0 /\ Bounded(Idle) /\ TaskOK(Idle)
<1>1. /\ Idle \in Task /\ Idle.pc = "off" /\ Idle.cursor = 0 /\ Idle.ledger = 0
      /\ Idle.last = 0
  BY BoundsAssumption DEF Idle, Task
<1>2. Bounded(Idle)
  BY <1>1, ChainType DEF Bounded, Working
<1>3. TaskOK(Idle)
  BY <1>1 DEF TaskOK, Working, Covered, LedgerOK
<1>4. QED
  BY <1>1, <1>2, <1>3

\* Where a task w has not begun a batch only its cursor and ledger matter.
LEMMA FreshOK ==
    ASSUME NEW w, w.pc \in {"timer", "loose", "cursor", "ledger", "fetch"},
           Covered(w.cursor), LedgerOK(w.ledger)
    PROVE  TaskOK(w)
  BY DEF TaskOK, Working

\* The tasks after a step of task t.
LEMMA TasksMove ==
    ASSUME IndInv, Grows, Len(chain') \in Nat, NEW t \in Tasks, NEW w,
           Moved(t, w), TaskOK(w)', Bounded(w)'
    PROVE  TasksOK' /\ \A u \in Tasks : Bounded(task[u])'
<1>1. ASSUME NEW u \in Tasks
      PROVE  TaskOK(task[u])' /\ Bounded(task[u])'
  <2>1. PICK v : v = task'[u]
    OBVIOUS
  <2>2. TaskOK(v)' /\ Bounded(v)'
    <3>1. CASE u = t
      BY <2>1, <3>1 DEF Moved
    <3>2. CASE u # t /\ task'[u] = task[u]
      <4>1. TypeOK /\ TaskOK(v) /\ Bounded(v)
        BY <2>1, <3>2, TaskFacts
      <4>2. QED
        BY <4>1, TaskKept
    <3>3. CASE /\ u # t /\ task[u].pc = "timer"
               /\ task'[u] = [task[u] EXCEPT !.pc = "loose"]
      <4>1. TypeOK /\ TaskOK(task[u]) /\ Bounded(task[u]) /\ task[u] \in Task
        BY TaskFacts
      <4>2. /\ v.pc = "loose" /\ v.cursor = task[u].cursor /\ v.ledger = task[u].ledger
            /\ v.last = task[u].last /\ v \in Task
        BY <2>1, <3>3, <4>1 DEF Task
      <4>3. TaskOK(v)
        BY <4>1, <4>2, FreshOK DEF TaskOK
      <4>4. Bounded(v)
        BY <4>1, <4>2 DEF Bounded, Working
      <4>5. QED
        BY <4>1, <4>3, <4>4, TaskKept
    <3>4. QED
      BY <3>1, <3>2, <3>3 DEF Moved
  <2>3. TaskOK(task[u])'
    BY <2>1, <2>2 DEF TaskOK, Covered, LedgerOK, Stored
  <2>4. Bounded(task[u])'
    BY <2>1, <2>2 DEF Bounded
  <2>5. QED
    BY <2>3, <2>4
<1>2. QED
  BY <1>1 DEF TasksOK

\* How many tasks are to store an event.
LEMMA StoringType ==
    ASSUME NEW i
    PROVE  /\ IsFiniteSet(Storing(i)) /\ Cardinality(Storing(i)) \in Nat
           /\ Cardinality(Storing(i)) <= Cardinality(Tasks) /\ Cardinality(Tasks) \in Nat
           /\ IsFiniteSet(Storing(i))' /\ Cardinality(Storing(i))' \in Nat
           /\ Cardinality(Storing(i))' <= Cardinality(Tasks)
<1>1. Storing(i) \in SUBSET Tasks /\ Storing(i)' \in SUBSET Tasks
  BY DEF Storing
<1>2. QED
  BY <1>1, SetsAssumption, FS_Subset, FS_CardinalityType

LEMMA CopiesKept ==
    ASSUME IndInv, UNCHANGED copies,
           \A u \in Tasks : task'[u].pc = "store" => task'[u] = task[u]
    PROVE  CopiesOK'
<1> SUFFICES ASSUME NEW i \in Id
             PROVE  copies[i] + Cardinality(Storing(i)') <= Cardinality(Tasks)
  BY DEF CopiesOK
<1>1. copies[i] \in Nat /\ copies[i] + Cardinality(Storing(i)) <= Cardinality(Tasks)
  BY DEF IndInv, CopiesOK, TypeOK
<1>2. Storing(i)' \subseteq Storing(i)
  BY DEF Storing
<1>3. Cardinality(Storing(i)') <= Cardinality(Storing(i)) /\ Cardinality(Storing(i)') \in Nat
  BY <1>2, StoringType, FS_Subset, FS_CardinalityType
<1>4. QED
  BY <1>1, <1>3, StoringType

\* No task goes on to store an event.
LEMMA MoveCopies ==
    ASSUME IndInv, UNCHANGED copies, NEW t \in Tasks, NEW w, Moved(t, w), w.pc # "store"
    PROVE  CopiesOK'
<1>1. \A u \in Tasks : task[u] \in Task
  BY TaskFacts
<1>2. \A u \in Tasks : task'[u].pc = "store" => task'[u] = task[u]
  BY <1>1 DEF Moved, Task
<1>3. QED
  BY <1>2, CopiesKept

LEMMA StateKept ==
    ASSUME IndInv, Grows, Len(chain') \in Nat, UNCHANGED state
    PROVE  StateOK'
<1>1. TypeOK /\ StateOK
  BY DEF IndInv
<1>2. PICK c, l : c = state.cursor /\ l = state.ledger
  OBVIOUS
<1>3. c \in Nat /\ c <= Len(chain) /\ Covered(c) /\ LedgerOK(l)
  BY <1>1, <1>2, ChainType DEF StateOK, TypeOK
<1>4. Covered(c)' /\ LedgerOK(l)'
  BY <1>1, <1>3, CoveredKept, LedgerKept
<1>5. QED
  BY <1>2, <1>4 DEF StateOK, Covered, LedgerOK

\* The parts of a task's step that do not depend on what it writes.
LEMMA TaskStepKeeps ==
    ASSUME IndInv, Grows, UNCHANGED <<chain, relay, relayStopped, dispatched>>,
           NEW t \in Tasks, NEW w, Moved(t, w), TaskOK(w)', Bounded(w)',
           state' \in [cursor : 0..Len(chain), ledger : 0..MAX_EVENTS],
           copies' \in [Id -> Nat],
           outbox' \in [Id -> {"pending", "published", "failed", None}],
           status' \in [Pairs -> SubscriptionState \cup {None}],
           payments' \subseteq Id, skipped' \subseteq Id,
           stopped' \in BOOLEAN, faults' \in 0..MAX_FAULTS,
           StateOK', RowsOK', CopiesOK', PublishedWasDispatched'
    PROVE  IndInv'
<1>1. TypeOK /\ ChainOK /\ RelaysOK
  BY DEF IndInv
<1>2. Len(chain') \in Nat
  BY <1>1, ChainType
<1>3. TasksOK' /\ \A u \in Tasks : Bounded(task[u])'
  BY <1>2, TasksMove
<1>4. TypeOK'
  <2>1. task' \in [Tasks -> Task]
    BY DEF Moved
  <2>2. QED
    BY <1>1, <1>3, <2>1 DEF TypeOK, Bounded, Working
<1>5. ChainOK' /\ RelaysOK'
  BY <1>1 DEF ChainOK, RelaysOK
<1>6. QED
  BY <1>3, <1>4, <1>5 DEF IndInv

\* A step of a task that writes nothing.
LEMMA QuietStep ==
    ASSUME IndInv,
           UNCHANGED <<chain, table_vars, relay_vars, skipped, dispatched>>,
           stopped' \in BOOLEAN, faults' \in 0..MAX_FAULTS,
           NEW t \in Tasks, NEW w, Moved(t, w), w.pc # "store", TaskOK(w), Bounded(w)
    PROVE  IndInv'
<1>1. TypeOK /\ RowsOK /\ PublishedWasDispatched
  BY DEF IndInv
<1>2. UNCHANGED <<chain, state, copies, outbox, status, payments, relay, relayStopped,
                  skipped, dispatched>>
  BY DEF table_vars, relay_vars
<1>3. Len(chain') \in Nat
  BY <1>1, <1>2, ChainType
<1>4. Grows
  BY <1>2, <1>3 DEF Grows
<1>5. TaskOK(w)' /\ Bounded(w)'
  BY <1>1, <1>3, <1>4, TaskKept
<1>6. RowsOK' /\ PublishedWasDispatched'
  BY <1>1, <1>2 DEF RowsOK, PublishedWasDispatched
<1>7. StateOK'
  BY <1>2, <1>3, <1>4, StateKept
<1>8. CopiesOK'
  BY <1>2, MoveCopies
<1>9. /\ state' \in [cursor : 0..Len(chain), ledger : 0..MAX_EVENTS]
      /\ copies' \in [Id -> Nat]
      /\ outbox' \in [Id -> {"pending", "published", "failed", None}]
      /\ status' \in [Pairs -> SubscriptionState \cup {None}]
      /\ payments' \subseteq Id /\ skipped' \subseteq Id
  BY <1>1, <1>2 DEF TypeOK
<1>10. QED
  BY <1>2, <1>4, <1>5, <1>6, <1>7, <1>8, <1>9, TaskStepKeeps

LEMMA SetTask ==
    ASSUME IndInv, NEW t \in Tasks, NEW w \in Task, task' = [task EXCEPT ![t] = w]
    PROVE  Moved(t, w)
<1>1. task \in [Tasks -> Task]
  BY TaskFacts
<1>2. QED
  BY <1>1 DEF Moved

\* The next tick of a loop.
LEMMA TimerOK ==
    ASSUME TypeOK, NEW w, NEW pc \in {"timer", "cursor"},
           w = [Idle EXCEPT !.pc = pc, !.polling = TRUE]
    PROVE  w \in Task /\ w.pc = pc /\ TaskOK(w) /\ Bounded(w)
<1>1. w \in Task /\ w.pc = pc /\ w.cursor = 0 /\ w.ledger = 0 /\ w.last = 0
  BY IdleType DEF Idle, Task
<1>2. Covered(w.cursor) /\ LedgerOK(w.ledger)
  BY <1>1 DEF Covered, LedgerOK
<1>3. TaskOK(w)
  BY <1>1, <1>2 DEF TaskOK, Working
<1>4. Bounded(w)
  BY <1>1, ChainType DEF Bounded, Working
<1>5. QED
  BY <1>1, <1>3, <1>4

\* The end of a tick, or of a call.
LEMMA EndedOK ==
    ASSUME IndInv, NEW t \in Tasks, task' = ended(t)
    PROVE  \E w : Moved(t, w) /\ w.pc # "store" /\ TaskOK(w) /\ Bounded(w)
<1>0. TypeOK /\ task \in [Tasks -> Task]
  BY TaskFacts
<1>1. CASE task[t].polling /\ ~stopped
  <2> DEFINE w == [Idle EXCEPT !.pc = "timer", !.polling = TRUE]
  <2>1. task' = [u \in Tasks |-> IF u = t THEN w
                                 ELSE IF task[u].pc = "timer" THEN [task[u] EXCEPT !.pc = "loose"]
                                 ELSE task[u]]
    BY <1>1 DEF ended
  <2>2. w \in Task /\ w.pc = "timer" /\ TaskOK(w) /\ Bounded(w)
    BY <1>0, TimerOK
  <2> HIDE DEF w
  <2>3. \A u \in Tasks : [task[u] EXCEPT !.pc = "loose"] \in Task
    BY <1>0 DEF Task
  <2>4. Moved(t, w)
    BY <1>0, <2>1, <2>2, <2>3 DEF Moved
  <2>5. QED
    BY <2>2, <2>4
<1>2. CASE ~(task[t].polling /\ ~stopped)
  <2>1. task' = [task EXCEPT ![t] = Idle]
    BY <1>2 DEF ended
  <2>2. Moved(t, Idle)
    BY <1>0, <2>1, IdleType, SetTask
  <2>3. QED
    BY <1>0, <2>2, IdleType
<1>3. QED
  BY <1>1, <1>2

\* The event in hand is handled, and the loop goes on.
LEMMA NextEventOK ==
    ASSUME IndInv, Grows, UNCHANGED chain, NEW t \in Tasks, NEW v, v = task[t],
           v.pc \in Working, task' = next_event(t), Handled(v.event)'
    PROVE  \E w : Moved(t, w) /\ w.pc # "store" /\ TaskOK(w)' /\ Bounded(w)'
<1>0. TypeOK /\ TaskOK(v) /\ Bounded(v) /\ v \in Task /\ Len(chain') \in Nat
  BY TaskFacts, ChainType
<1>1. TaskOK(v)' /\ Bounded(v)'
  BY <1>0, TaskKept
<1>2. /\ v.event \in Nat /\ v.last \in Nat /\ v.event \in 1..v.last
      /\ v.last <= Len(chain) /\ v.last \in 0..MAX_EVENTS /\ Len(chain) \in Nat
      /\ v.cursor <= Len(chain)
  BY <1>0, BoundsAssumption, ChainType DEF Bounded, Task
<1>3. Covered(v.event)'
  <2> SUFFICES ASSUME NEW i \in 1..v.event
               PROVE  Handled(i)'
    BY DEF Covered
  <2>1. \A j \in 1..(v.event - 1) : Handled(j)'
    BY <1>1 DEF TaskOK, Covered
  <2>2. i = v.event \/ i \in 1..(v.event - 1)
    BY <1>2
  <2>3. QED
    BY <2>1, <2>2
<1>4. CASE v.event < v.last
  <2> DEFINE w == [v EXCEPT !.pc = "check", !.event = @ + 1, !.seen = None]
  <2>1. task' = [task EXCEPT ![t] = w]
    BY <1>4 DEF next_event
  <2>2. v.event + 1 \in 0..MAX_EVENTS
    BY <1>2, <1>4, BoundsAssumption
  <2>3. /\ w \in Task /\ w.pc = "check" /\ w.event = v.event + 1 /\ w.last = v.last
        /\ w.cursor = v.cursor /\ w.ledger = v.ledger
    BY <1>0, <2>2 DEF Task
  <2>4. Moved(t, w)
    BY <2>1, <2>3, SetTask
  <2> HIDE DEF w
  <2>5. Bounded(w)'
    BY <1>2, <1>4, <2>3 DEF Bounded
  <2>6. TaskOK(w)'
    <3>1. w.event - 1 = v.event
      BY <1>2, <2>3
    <3>2. Covered(w.cursor)' /\ LedgerOK(w.ledger)' /\ Covered(w.event - 1)'
      BY <1>1, <1>3, <2>3, <3>1 DEF TaskOK
    <3>3. QED
      BY <2>3, <3>2 DEF TaskOK
  <2>7. QED
    BY <2>3, <2>4, <2>5, <2>6
<1>5. CASE ~(v.event < v.last) /\ v.polling
  <2> DEFINE w == [v EXCEPT !.pc = "save", !.seen = None]
  <2>1. task' = [task EXCEPT ![t] = w]
    BY <1>5 DEF next_event
  <2>2. /\ w \in Task /\ w.pc = "save" /\ w.last = v.last
        /\ w.cursor = v.cursor /\ w.ledger = v.ledger
    BY <1>0 DEF Task
  <2>3. Moved(t, w)
    BY <2>1, <2>2, SetTask
  <2> HIDE DEF w
  <2>4. v.event = v.last /\ v.last # 0
    BY <1>2, <1>5
  <2>5. Bounded(w)'
    BY <1>2, <2>2 DEF Bounded, Working
  <2>6. TaskOK(w)'
    <3>1. Covered(w.cursor)' /\ LedgerOK(w.ledger)' /\ Covered(w.last)'
      BY <1>1, <1>3, <2>2, <2>4 DEF TaskOK
    <3>2. QED
      BY <2>2, <2>4, <3>1 DEF TaskOK, Working
  <2>7. QED
    BY <2>2, <2>3, <2>5, <2>6
<1>6. CASE ~(v.event < v.last) /\ ~v.polling
  <2>1. task' = ended(t)
    BY <1>6 DEF next_event
  <2>2. PICK w : Moved(t, w) /\ w.pc # "store" /\ TaskOK(w) /\ Bounded(w)
    BY <2>1, EndedOK
  <2>3. TaskOK(w)' /\ Bounded(w)'
    BY <1>0, <2>2, TaskKept
  <2>4. QED
    BY <2>2, <2>3
<1>7. QED
  BY <1>4, <1>5, <1>6

\* The subscription has a state, and the payment row follows or the event is
\* handled.
LEMMA AppliedOK ==
    ASSUME IndInv, Grows, UNCHANGED chain, NEW t \in Tasks, NEW v, v = task[t],
           v.pc \in {"read", "write"}, task' = applied(t),
           status'[chain[v.event].pair] # None
    PROVE  \E w : Moved(t, w) /\ w.pc # "store" /\ TaskOK(w)' /\ Bounded(w)'
<1>0. TypeOK /\ TaskOK(v) /\ Bounded(v) /\ v \in Task /\ Len(chain') \in Nat
  BY TaskFacts, ChainType
<1>1. TaskOK(v)' /\ Bounded(v)'
  BY <1>0, TaskKept
<1>2. v.pc \in Working /\ chain[v.event].type \in STORED_EVENT_TYPES
  BY <1>0 DEF TaskOK, Working
<1>3. Stored(chain[v.event])'
  BY <1>1 DEF TaskOK
<1>4. CASE chain[v.event].type = "executed"
  <2> DEFINE w == [v EXCEPT !.pc = "pay"]
  <2>1. task' = [task EXCEPT ![t] = w]
    BY <1>4 DEF applied
  <2>2. /\ w \in Task /\ w.pc = "pay" /\ w.last = v.last /\ w.event = v.event
        /\ w.cursor = v.cursor /\ w.ledger = v.ledger
    BY <1>0 DEF Task
  <2>3. Moved(t, w)
    BY <2>1, <2>2, SetTask
  <2> HIDE DEF w
  <2>4. Bounded(w)'
    BY <1>1, <1>2, <2>2 DEF Bounded
  <2>5. TaskOK(w)'
    <3>1. /\ Covered(w.cursor)' /\ LedgerOK(w.ledger)' /\ Covered(w.event - 1)'
          /\ Stored(chain[w.event])'
      BY <1>1, <1>2, <2>2 DEF TaskOK
    <3>2. QED
      BY <1>2, <2>2, <3>1 DEF TaskOK
  <2>6. QED
    BY <2>2, <2>3, <2>4, <2>5
<1>5. CASE chain[v.event].type # "executed"
  <2>1. task' = next_event(t)
    BY <1>5 DEF applied
  <2>2. Handled(v.event)'
    BY <1>3, <1>5 DEF Handled, Stored
  <2>3. QED
    BY <1>2, <2>1, <2>2, NextEventOK
<1>6. QED
  BY <1>4, <1>5

-----------------------------------------------------------------------------
(* The polling loop and its requests (eventIndexer.ts).                    *)

LEMMA StartPollingStep ==
    ASSUME IndInv, NEW t \in Tasks, startPolling(t)
    PROVE  IndInv'
<1>0. TypeOK
  BY DEF IndInv
<1> DEFINE w == [Idle EXCEPT !.pc = "cursor", !.polling = TRUE]
<1>1. w \in Task /\ w.pc = "cursor" /\ TaskOK(w) /\ Bounded(w)
  BY <1>0, TimerOK
<1>2. task' = [task EXCEPT ![t] = w]
  BY DEF startPolling
<1> HIDE DEF w
<1>3. Moved(t, w)
  BY <1>1, <1>2, SetTask
<1>4. /\ UNCHANGED <<chain, table_vars, relay_vars, skipped, dispatched>>
      /\ stopped' \in BOOLEAN /\ faults' \in 0..MAX_FAULTS
  BY <1>0 DEF startPolling, TypeOK
<1>5. QED
  BY <1>1, <1>3, <1>4, QuietStep

\* A task goes on without a batch: only its place, cursor and ledger change.
LEMMA FreshStep ==
    ASSUME IndInv, NEW t \in Tasks, NEW w \in Task, task' = [task EXCEPT ![t] = w],
           w.pc \in {"cursor", "ledger", "fetch"}, w.last = task[t].last,
           w.cursor <= Len(chain), Covered(w.cursor), LedgerOK(w.ledger),
           UNCHANGED <<chain, table_vars, relay_vars, skipped, dispatched>>,
           stopped' \in BOOLEAN, faults' \in 0..MAX_FAULTS
    PROVE  IndInv'
<1>1. Moved(t, w)
  BY SetTask
<1>2. TaskOK(w)
  BY DEF TaskOK, Working
<1>3. Bounded(w)
  BY TaskFacts DEF Bounded, Working
<1>4. QED
  BY <1>1, <1>2, <1>3, QuietStep

LEMMA FetchStep ==
    ASSUME IndInv, NEW t \in Tasks, fetchAndStoreEvents(t)
    PROVE  IndInv'
<1>0. TypeOK /\ TaskOK(task[t])
  BY TaskFacts
<1>1. task[t] = Idle
  BY <1>0 DEF fetchAndStoreEvents, TaskOK
<1> DEFINE w == [Idle EXCEPT !.pc = "fetch"]
<1>2. task' = [task EXCEPT ![t] = w]
  BY <1>1 DEF fetchAndStoreEvents
<1>3. /\ w \in Task /\ w.pc = "fetch" /\ w.cursor = 0 /\ w.ledger = 0
      /\ w.last = task[t].last
  BY <1>0, <1>1, IdleType DEF Idle, Task
<1> HIDE DEF w
<1>4. Covered(w.cursor) /\ LedgerOK(w.ledger) /\ w.cursor <= Len(chain)
  BY <1>0, <1>3, ChainType DEF Covered, LedgerOK
<1>5. /\ UNCHANGED <<chain, table_vars, relay_vars, skipped, dispatched>>
      /\ stopped' \in BOOLEAN /\ faults' \in 0..MAX_FAULTS
  BY <1>0 DEF fetchAndStoreEvents, TypeOK
<1>6. QED
  BY <1>2, <1>3, <1>4, <1>5, FreshStep

LEMMA TickStep ==
    ASSUME IndInv, NEW t \in Tasks, tick(t)
    PROVE  IndInv'
<1>0. TypeOK /\ TaskOK(task[t]) /\ Bounded(task[t]) /\ task[t] \in Task
  BY TaskFacts
<1>1. /\ UNCHANGED <<chain, table_vars, relay_vars, skipped, dispatched>>
      /\ stopped' \in BOOLEAN /\ faults' \in 0..MAX_FAULTS
  BY <1>0 DEF tick, TypeOK
<1>2. CASE stopped
  <2>1. task' = [task EXCEPT ![t] = Idle]
    BY <1>2 DEF tick
  <2>2. Moved(t, Idle)
    BY <1>0, <2>1, IdleType, SetTask
  <2>3. QED
    BY <1>0, <1>1, <2>2, IdleType, QuietStep
<1>3. CASE ~stopped
  <2> DEFINE w == [task[t] EXCEPT !.pc = "cursor"]
  <2>1. task' = [task EXCEPT ![t] = w]
    BY <1>3 DEF tick
  <2>2. /\ w \in Task /\ w.pc = "cursor" /\ w.cursor = task[t].cursor
        /\ w.ledger = task[t].ledger /\ w.last = task[t].last
    BY <1>0 DEF Task
  <2> HIDE DEF w
  <2>3. Covered(w.cursor) /\ LedgerOK(w.ledger) /\ w.cursor <= Len(chain)
    BY <1>0, <2>2 DEF TaskOK, Bounded
  <2>4. QED
    BY <1>1, <2>1, <2>2, <2>3, FreshStep
<1>4. QED
  BY <1>2, <1>3

LEMMA CursorStep ==
    ASSUME IndInv, NEW t \in Tasks, getLastCursor(t)
    PROVE  IndInv'
<1>0. /\ TypeOK /\ StateOK /\ TaskOK(task[t]) /\ task[t] \in Task
      /\ Len(chain) \in Nat /\ Len(chain) <= MAX_EVENTS
  BY TaskFacts, ChainType DEF IndInv, TypeOK
<1>1. /\ UNCHANGED <<chain, table_vars, relay_vars, skipped, dispatched>>
      /\ stopped' \in BOOLEAN /\ faults' \in 0..MAX_FAULTS
  BY <1>0 DEF getLastCursor, TypeOK
<1>2. state.cursor \in 0..MAX_EVENTS /\ state.cursor <= Len(chain)
  BY <1>0, BoundsAssumption DEF TypeOK
<1> DEFINE w == [task[t] EXCEPT !.pc = "ledger", !.cursor = state.cursor]
<1>3. task' = [task EXCEPT ![t] = w]
  BY DEF getLastCursor
<1>4. /\ w \in Task /\ w.pc = "ledger" /\ w.cursor = state.cursor
      /\ w.ledger = task[t].ledger /\ w.last = task[t].last
  BY <1>0, <1>2 DEF Task
<1> HIDE DEF w
<1>5. Covered(w.cursor) /\ LedgerOK(w.ledger) /\ w.cursor <= Len(chain)
  BY <1>0, <1>2, <1>4 DEF TaskOK, StateOK
<1>6. QED
  BY <1>1, <1>3, <1>4, <1>5, FreshStep

LEMMA LedgerStep ==
    ASSUME IndInv, NEW t \in Tasks, getLastProcessedLedger(t)
    PROVE  IndInv'
<1>0. TypeOK /\ StateOK /\ TaskOK(task[t]) /\ task[t] \in Task /\ Bounded(task[t])
  BY TaskFacts DEF IndInv
<1>1. /\ UNCHANGED <<chain, table_vars, relay_vars, skipped, dispatched>>
      /\ stopped' \in BOOLEAN /\ faults' \in 0..MAX_FAULTS
  BY <1>0 DEF getLastProcessedLedger, TypeOK
<1>2. state.ledger \in 0..MAX_EVENTS
  BY <1>0 DEF TypeOK
<1> DEFINE w == [task[t] EXCEPT !.pc = "fetch", !.ledger = state.ledger]
<1>3. task' = [task EXCEPT ![t] = w]
  BY DEF getLastProcessedLedger
<1>4. /\ w \in Task /\ w.pc = "fetch" /\ w.cursor = task[t].cursor
      /\ w.ledger = state.ledger /\ w.last = task[t].last
  BY <1>0, <1>2 DEF Task
<1> HIDE DEF w
<1>5. Covered(w.cursor) /\ LedgerOK(w.ledger) /\ w.cursor <= Len(chain)
  BY <1>0, <1>4 DEF TaskOK, StateOK, Bounded
<1>6. QED
  BY <1>1, <1>3, <1>4, <1>5, FreshStep

\* A set of positions that holds every earlier one too holds the first ones.
LEMMA Prefix ==
    ASSUME NEW n \in Nat, NEW S \in SUBSET (1..n),
           \A j \in S, i \in 1..n : i <= j => i \in S
    PROVE  /\ Cardinality(S) \in Nat /\ Cardinality(S) <= n
           /\ 1..Cardinality(S) \subseteq S
<1>1. IsFiniteSet(1..n) /\ Cardinality(1..n) = n
  BY FS_Interval
<1>2. IsFiniteSet(S) /\ Cardinality(S) <= n /\ Cardinality(S) \in Nat
  BY <1>1, FS_Subset, FS_CardinalityType
<1>3. ASSUME NEW i \in 1..Cardinality(S), i \notin S
      PROVE  FALSE
  <2>1. i - 1 \in Nat /\ i \in 1..n
    BY <1>2
  <2>2. \A j \in S : j \in 1..(i - 1)
    BY <1>3, <2>1
  <2>3. IsFiniteSet(1..(i - 1)) /\ Cardinality(1..(i - 1)) = i - 1
    BY <2>1, FS_Interval
  <2>4. S \in SUBSET (1..(i - 1))
    BY <2>2
  <2>5. Cardinality(S) <= Cardinality(1..(i - 1))
    BY <2>3, <2>4, FS_Subset, Zenon
  <2>6. QED
    BY <1>2, <2>1, <2>3, <2>5
<1>4. QED
  BY <1>2, <1>3

\* Whatever cursor and ledger a task has read, and from whichever saves of
\* the others, nothing before its request is unhandled.
LEMMA RequestedOK ==
    ASSUME IndInv, NEW t \in Tasks, NEW from, from = requested_after(t)
    PROVE  from \in Nat /\ from <= Len(chain) /\ Covered(from)
<1>0. /\ TypeOK /\ ChainOK /\ TaskOK(task[t]) /\ Bounded(task[t]) /\ task[t] \in Task
      /\ Len(chain) \in Nat
  BY TaskFacts, ChainType DEF IndInv
<1>1. CASE task[t].cursor # 0
  <2>1. from = task[t].cursor
    BY <1>1 DEF requested_after
  <2>2. task[t].cursor \in Nat
    BY <1>0, BoundsAssumption DEF Task
  <2>3. QED
    BY <1>0, <2>1, <2>2 DEF Bounded, TaskOK
<1>2. CASE task[t].cursor = 0
  <2>0. PICK l : l = task[t].ledger
    OBVIOUS
  <2> DEFINE S == {i \in 1..Len(chain) : chain[i].ledger < l}
  <2>1. from = Cardinality(S)
    BY <1>2, <2>0 DEF requested_after
  <2>2. l \in Nat /\ LedgerOK(l)
    BY <1>0, <2>0, BoundsAssumption DEF Task, TaskOK
  <2>3. \A i \in 1..Len(chain) : chain[i].ledger \in Nat
    BY <1>0, ChainType
  <2>4. \A j \in S, i \in 1..Len(chain) : i <= j => i \in S
    <3> SUFFICES ASSUME NEW j \in S, NEW i \in 1..Len(chain), i <= j
                 PROVE  chain[i].ledger < l
      OBVIOUS
    <3>1. chain[i].ledger <= chain[j].ledger /\ chain[j].ledger < l
      BY <1>0 DEF ChainOK
    <3>2. QED
      BY <2>2, <2>3, <3>1
  <2>5. S \in SUBSET (1..Len(chain))
    OBVIOUS
  <2>6. ASSUME NEW i \in S
        PROVE  Handled(i)
    <3>1. l # 0
      BY <2>2, <2>3
    <3>2. PICK k \in 1..Len(chain) : chain[k].ledger = l /\ Covered(k)
      BY <2>2, <3>1 DEF LedgerOK
    <3>3. i <= k
      <4>1. ASSUME k <= i
            PROVE  FALSE
        <5>1. chain[k].ledger <= chain[i].ledger
          BY <1>0, <4>1 DEF ChainOK
        <5>2. QED
          BY <2>2, <2>3, <3>2, <5>1
      <4>2. QED
        BY <1>0, <4>1
    <3>4. QED
      BY <1>0, <3>2, <3>3 DEF Covered
  <2> HIDE DEF S
  <2>7. Cardinality(S) \in Nat /\ Cardinality(S) <= Len(chain) /\ 1..Cardinality(S) \subseteq S
    BY <1>0, <2>4, <2>5, Prefix
  <2>8. Covered(from)
    BY <2>1, <2>6, <2>7 DEF Covered
  <2>9. QED
    BY <2>1, <2>7, <2>8
<1>3. QED
  BY <1>1, <1>2

LEMMA GetEventsStep ==
    ASSUME IndInv, NEW t \in Tasks, getEvents(t)
    PROVE  IndInv'
<1>0. /\ TypeOK /\ TaskOK(task[t]) /\ Bounded(task[t]) /\ task[t] \in Task
      /\ Len(chain) \in Nat /\ Len(chain) <= MAX_EVENTS
  BY TaskFacts, ChainType DEF TypeOK
<1>1. /\ UNCHANGED <<chain, table_vars, relay_vars, skipped, dispatched>>
      /\ stopped' \in BOOLEAN /\ faults' \in 0..MAX_FAULTS
  BY <1>0 DEF getEvents, TypeOK
<1>2. PICK from : from = requested_after(t)
  OBVIOUS
<1>3. from \in Nat /\ from <= Len(chain) /\ Covered(from)
  BY <1>2, RequestedOK
<1>4. CASE Len(chain) - from = 0
  <2>1. task' = ended(t)
    BY <1>2, <1>4 DEF getEvents
  <2>2. PICK w : Moved(t, w) /\ w.pc # "store" /\ TaskOK(w) /\ Bounded(w)
    BY <2>1, EndedOK
  <2>3. QED
    BY <1>1, <2>2, QuietStep
<1>5. CASE Len(chain) - from # 0
  <2>1. PICK m : m = from + (IF Len(chain) - from < LIMIT THEN Len(chain) - from ELSE LIMIT)
    OBVIOUS
  <2>2. m \in Nat /\ m <= Len(chain) /\ from + 1 <= m
    BY <1>0, <1>3, <1>5, <2>1, BoundsAssumption
  <2> DEFINE w == [task[t] EXCEPT !.pc = "check", !.event = from + 1, !.last = m]
  <2>3. task' = [task EXCEPT ![t] = w]
    BY <1>2, <1>5, <2>1 DEF getEvents
  <2>4. from + 1 \in 0..MAX_EVENTS /\ m \in 0..MAX_EVENTS
    BY <1>0, <1>3, <2>2, BoundsAssumption
  <2>5. /\ w \in Task /\ w.pc = "check" /\ w.event = from + 1 /\ w.last = m
        /\ w.cursor = task[t].cursor /\ w.ledger = task[t].ledger
    BY <1>0, <2>4 DEF Task
  <2> HIDE DEF w
  <2>6. Moved(t, w)
    BY <2>3, <2>5, SetTask
  <2>7. Bounded(w)
    BY <1>0, <1>3, <2>2, <2>5 DEF Bounded
  <2>8. TaskOK(w)
    <3>1. w.event - 1 = from
      BY <1>3, <2>5
    <3>2. Covered(w.cursor) /\ LedgerOK(w.ledger) /\ Covered(w.event - 1)
      BY <1>0, <1>3, <2>5, <3>1 DEF TaskOK
    <3>3. QED
      BY <2>5, <3>2 DEF TaskOK
  <2>9. QED
    BY <1>1, <2>5, <2>6, <2>7, <2>8, QuietStep
<1>6. QED
  BY <1>4, <1>5

LEMMA BatchErrorStep ==
    ASSUME IndInv, NEW t \in Tasks, batch_error(t)
    PROVE  IndInv'
<1>0. TypeOK /\ TaskOK(task[t]) /\ Bounded(task[t]) /\ task[t] \in Task
  BY TaskFacts
<1>1. /\ UNCHANGED <<chain, table_vars, relay_vars, skipped, dispatched>>
      /\ stopped' \in BOOLEAN
  BY <1>0 DEF batch_error, TypeOK
<1>2. faults' \in 0..MAX_FAULTS
  BY <1>0, BoundsAssumption DEF batch_error, TypeOK
<1>3. CASE task' = ended(t)
  <2>1. PICK w : Moved(t, w) /\ w.pc # "store" /\ TaskOK(w) /\ Bounded(w)
    BY <1>3, EndedOK
  <2>2. QED
    BY <1>1, <1>2, <2>1, QuietStep
<1>4. CASE /\ task[t].attempt < MAX_RETRIES
           /\ task' = [task EXCEPT ![t].pc = "fetch", ![t].attempt = @ + 1]
  <2> DEFINE w == [task[t] EXCEPT !.pc = "fetch", !.attempt = @ + 1]
  <2>1. task' = [task EXCEPT ![t] = w]
    BY <1>4
  <2>2. task[t].attempt + 1 \in 0..MAX_RETRIES
    BY <1>0, <1>4, BoundsAssumption DEF Task
  <2>3. /\ w \in Task /\ w.pc = "fetch" /\ w.cursor = task[t].cursor
        /\ w.ledger = task[t].ledger /\ w.last = task[t].last
    BY <1>0, <2>2 DEF Task
  <2> HIDE DEF w
  <2>4. Covered(w.cursor) /\ LedgerOK(w.ledger) /\ w.cursor <= Len(chain)
    BY <1>0, <2>3 DEF TaskOK, Bounded
  <2>5. QED
    BY <1>1, <1>2, <2>1, <2>3, <2>4, FreshStep
<1>5. QED
  BY <1>3, <1>4 DEF batch_error

-----------------------------------------------------------------------------
(* processEvent                                                            *)

\* The event in hand is one of the log.
LEMMA EventFacts ==
    ASSUME TypeOK, NEW v, Bounded(v), v.pc \in Working
    PROVE  /\ v.event \in 1..Len(chain) /\ v.event \in Id /\ v.event \in 1..v.last
           /\ chain[v.event].pair \in Pairs /\ chain[v.event].type \in EventType
<1>1. v.event \in 1..v.last /\ v.last \in Nat /\ v.last <= Len(chain)
  BY BoundsAssumption DEF Bounded, Task
<1>2. v.event \in 1..Len(chain)
  BY <1>1, ChainType
<1>3. QED
  BY <1>1, <1>2, ChainType

\* The step of a task that handles an event, with what it writes.
LEMMA WriteStep ==
    ASSUME IndInv, Grows, UNCHANGED <<chain, state, relay, relayStopped, dispatched, stopped>>,
           NEW t \in Tasks, NEW w, Moved(t, w), TaskOK(w)', Bounded(w)',
           copies' \in [Id -> Nat],
           outbox' \in [Id -> {"pending", "published", "failed", None}],
           status' \in [Pairs -> SubscriptionState \cup {None}],
           payments' \subseteq Id, skipped' \subseteq Id, faults' \in 0..MAX_FAULTS,
           RowsOK', CopiesOK', PublishedWasDispatched'
    PROVE  IndInv'
<1>1. TypeOK /\ Len(chain') \in Nat
  BY ChainType DEF IndInv
<1>2. StateOK'
  BY <1>1, StateKept
<1>3. state' \in [cursor : 0..Len(chain), ledger : 0..MAX_EVENTS] /\ stopped' \in BOOLEAN
  BY <1>1 DEF TypeOK
<1>4. QED
  BY <1>2, <1>3, TaskStepKeeps

LEMMA FindFirstStep ==
    ASSUME IndInv, NEW t \in Tasks, findFirst(t)
    PROVE  IndInv'
<1>1. PICK v : v = task[t]
  OBVIOUS
<1>2. /\ TypeOK /\ TaskOK(v) /\ Bounded(v) /\ v \in Task /\ v.pc = "check"
      /\ RowsOK /\ CopiesOK /\ PublishedWasDispatched
  BY <1>1, TaskFacts DEF findFirst, IndInv
<1>3. UNCHANGED <<chain, table_vars, stopped, relay_vars, skipped, dispatched, faults>>
  BY DEF findFirst
<1>4. /\ UNCHANGED <<chain, state, copies, outbox, status, payments, relay, relayStopped,
                     stopped, skipped, dispatched, faults>>
      /\ stopped' \in BOOLEAN /\ faults' \in 0..MAX_FAULTS
  BY <1>2, <1>3 DEF table_vars, relay_vars, TypeOK
<1>5. Grows /\ Len(chain') \in Nat
  BY <1>2, <1>4, ChainType DEF Grows
<1>6. v.event \in 1..Len(chain) /\ v.event \in Id /\ v.event \in 1..v.last
  BY <1>2, EventFacts DEF Working
<1>7. /\ copies' \in [Id -> Nat]
      /\ outbox' \in [Id -> {"pending", "published", "failed", None}]
      /\ status' \in [Pairs -> SubscriptionState \cup {None}]
      /\ payments' \subseteq Id /\ skipped' \subseteq Id
      /\ RowsOK' /\ PublishedWasDispatched'
  BY <1>2, <1>4 DEF TypeOK, RowsOK, PublishedWasDispatched
<1>8. CASE chain[v.event].type \notin STORED_EVENT_TYPES
  <2>1. task' = next_event(t)
    BY <1>1, <1>8 DEF findFirst
  <2>2. Handled(v.event)'
    BY <1>4, <1>8 DEF Handled
  <2>3. PICK w : Moved(t, w) /\ w.pc # "store" /\ TaskOK(w)' /\ Bounded(w)'
    BY <1>1, <1>2, <1>4, <1>5, <2>1, <2>2, NextEventOK DEF Working
  <2>4. CopiesOK'
    BY <1>4, <2>3, MoveCopies
  <2>5. QED
    BY <1>4, <1>5, <1>7, <2>3, <2>4, WriteStep
<1>9. CASE chain[v.event].type \in STORED_EVENT_TYPES /\ exists(chain[v.event])
  <2> DEFINE w == [v EXCEPT !.pc = "read"]
  <2>1. task' = [task EXCEPT ![t] = w]
    BY <1>1, <1>9 DEF findFirst
  <2>2. /\ w \in Task /\ w.pc = "read" /\ w.last = v.last /\ w.event = v.event
        /\ w.cursor = v.cursor /\ w.ledger = v.ledger
    BY <1>2 DEF Task
  <2> HIDE DEF w
  <2>3. Moved(t, w)
    BY <2>1, <2>2, SetTask
  <2>4. Stored(chain[v.event])
    BY <1>2, <1>9, ChainType DEF exists, Stored, RowsOK
  <2>5. TaskOK(w)
    BY <1>2, <1>9, <2>2, <2>4 DEF TaskOK, Working
  <2>6. Bounded(w)
    BY <1>2, <1>6, <2>2 DEF Bounded
  <2>7. QED
    BY <1>3, <1>4, <2>2, <2>3, <2>5, <2>6, QuietStep
<1>10. CASE chain[v.event].type \in STORED_EVENT_TYPES /\ ~exists(chain[v.event])
  <2> DEFINE w == [v EXCEPT !.pc = "store"]
  <2>1. task' = [task EXCEPT ![t] = w]
    BY <1>1, <1>10 DEF findFirst
  <2>2. /\ w \in Task /\ w.pc = "store" /\ w.last = v.last /\ w.event = v.event
        /\ w.cursor = v.cursor /\ w.ledger = v.ledger
    BY <1>2 DEF Task
  <2> HIDE DEF w
  <2>3. Moved(t, w)
    BY <2>1, <2>2, SetTask
  <2>4. TaskOK(w)
    BY <1>2, <1>10, <2>2 DEF TaskOK, Working
  <2>5. Bounded(w)
    BY <1>2, <1>6, <2>2 DEF Bounded
  <2>6. TaskOK(w)' /\ Bounded(w)'
    BY <1>2, <1>5, <2>4, <2>5, TaskKept
  <2>7. CopiesOK'
    <3> SUFFICES ASSUME NEW i \in Id
                 PROVE  copies[i] + Cardinality(Storing(i)') <= Cardinality(Tasks)
      BY <1>4 DEF CopiesOK
    <3>0. copies[i] \in Nat
      BY <1>2 DEF TypeOK
    <3>1. CASE i = v.event
      <4>1. ~(copies[i] > 0)
        BY <1>6, <1>10, <3>1 DEF exists
      <4>2. copies[i] = 0
        BY <3>0, <4>1
      <4>3. QED
        BY <4>2, StoringType
    <3>2. CASE i # v.event
      <4>1. \A u \in Tasks : task[u] \in Task
        BY TaskFacts
      <4>2. Storing(i)' \subseteq Storing(i)
        BY <2>2, <2>3, <3>2, <4>1 DEF Storing, Moved, Task
      <4>3. /\ Cardinality(Storing(i)') <= Cardinality(Storing(i))
            /\ Cardinality(Storing(i)') \in Nat
        BY <4>2, StoringType, FS_Subset, FS_CardinalityType
      <4>4. copies[i] + Cardinality(Storing(i)) <= Cardinality(Tasks)
        BY <1>2 DEF CopiesOK
      <4>5. QED
        BY <3>0, <4>3, <4>4, StoringType
    <3>3. QED
      BY <3>1, <3>2
  <2>8. QED
    BY <1>4, <1>5, <1>7, <2>3, <2>6, <2>7, WriteStep
<1>11. QED
  BY <1>8, <1>9, <1>10

\* The transaction takes the task out of those that are to store the event.
LEMMA CreateStep ==
    ASSUME IndInv, NEW t \in Tasks, create(t)
    PROVE  IndInv'
<1>1. PICK v : v = task[t]
  OBVIOUS
<1>2. /\ TypeOK /\ TaskOK(v) /\ Bounded(v) /\ v \in Task /\ v.pc = "store"
      /\ RowsOK /\ CopiesOK /\ PublishedWasDispatched
  BY <1>1, TaskFacts DEF create, IndInv
<1>3. /\ UNCHANGED <<chain, state, status, payments, stopped, relay, relayStopped,
                     skipped, dispatched, faults>>
      /\ copies' = [copies EXCEPT ![v.event] = @ + 1]
      /\ outbox' = [outbox EXCEPT ![v.event] = IF @ = None THEN "pending" ELSE @]
      /\ task' = [task EXCEPT ![t].pc = "read"]
  BY <1>1 DEF create, relay_vars
<1>4. v.event \in 1..Len(chain) /\ v.event \in Id /\ v.event \in 1..v.last
  BY <1>2, EventFacts DEF Working
<1>5. /\ copies \in [Id -> Nat] /\ outbox \in [Id -> {"pending", "published", "failed", None}]
  BY <1>2 DEF TypeOK
<1>6. copies' \in [Id -> Nat] /\ outbox' \in [Id -> {"pending", "published", "failed", None}]
  <2>1. copies' = [copies EXCEPT ![v.event] = copies[v.event] + 1] /\ copies[v.event] + 1 \in Nat
    BY <1>3, <1>4, <1>5
  <2>2. copies' \in [Id -> Nat]
    BY <1>5, <2>1
  <2>3. outbox' \in [Id -> {"pending", "published", "failed", None}]
    BY <1>3, <1>5
  <2>4. QED
    BY <2>2, <2>3
<1>7. /\ copies'[v.event] = copies[v.event] + 1 /\ copies'[v.event] > 0
      /\ outbox'[v.event] = IF outbox[v.event] = None THEN "pending" ELSE outbox[v.event]
      /\ \A i \in Id : i # v.event => copies'[i] = copies[i] /\ outbox'[i] = outbox[i]
  BY <1>3, <1>4, <1>5
<1>8. outbox'[v.event] # None
  BY <1>7, SetsAssumption
<1>9. Grows /\ Len(chain') \in Nat
  <2>1. Len(chain) \in Nat
    BY <1>2, ChainType
  <2>2. \A i \in Id : /\ copies[i] > 0 => copies'[i] > 0
                      /\ outbox[i] # None => outbox'[i] # None
    BY <1>7, <1>8
  <2>3. QED
    BY <1>3, <2>1, <2>2 DEF Grows
<1> DEFINE w == [v EXCEPT !.pc = "read"]
<1>10. task' = [task EXCEPT ![t] = w]
  BY <1>1, <1>3
<1>11. /\ w \in Task /\ w.pc = "read" /\ w.last = v.last /\ w.event = v.event
       /\ w.cursor = v.cursor /\ w.ledger = v.ledger
  BY <1>2 DEF Task
<1> HIDE DEF w
<1>12. Moved(t, w)
  BY <1>10, <1>11, SetTask
<1>13. TaskOK(v)' /\ Bounded(v)'
  BY <1>2, <1>9, TaskKept
<1>14. TaskOK(w)' /\ Bounded(w)'
  <2>1. Stored(chain[w.event])'
    BY <1>3, <1>4, <1>7, <1>8, <1>11 DEF Stored
  <2>2. /\ Covered(w.cursor)' /\ LedgerOK(w.ledger)' /\ Covered(w.event - 1)'
        /\ chain'[w.event].type \in STORED_EVENT_TYPES
    BY <1>2, <1>11, <1>13 DEF TaskOK, Working
  <2>3. TaskOK(w)'
    BY <1>11, <2>1, <2>2 DEF TaskOK
  <2>4. Bounded(w)'
    BY <1>4, <1>11, <1>13 DEF Bounded
  <2>5. QED
    BY <2>3, <2>4
<1>15. RowsOK'
  BY <1>2, <1>7, <1>8 DEF RowsOK
<1>16. PublishedWasDispatched'
  BY <1>2, <1>3, <1>7 DEF PublishedWasDispatched
<1>17. CopiesOK'
  <2> SUFFICES ASSUME NEW i \in Id
               PROVE  copies'[i] + Cardinality(Storing(i)') <= Cardinality(Tasks)
    BY DEF CopiesOK
  <2>0. /\ copies[i] \in Nat
        /\ copies[i] + Cardinality(Storing(i)) <= Cardinality(Tasks)
    BY <1>2, <1>5 DEF CopiesOK
  <2>1. \A u \in Tasks : task[u] \in Task
    BY TaskFacts
  <2>2. Storing(i)' \subseteq Storing(i) \ {t}
    BY <1>11, <1>12, <2>1 DEF Storing, Moved, Task
  <2>3. CASE i = v.event
    <3>1. t \in Storing(i)
      BY <1>1, <1>2, <2>3 DEF Storing
    <3>2. /\ IsFiniteSet(Storing(i) \ {t})
          /\ Cardinality(Storing(i) \ {t}) = Cardinality(Storing(i)) - 1
      BY <3>1, StoringType, FS_RemoveElement
    <3>3. Cardinality(Storing(i)') <= Cardinality(Storing(i)) - 1
      BY <2>2, <3>2, FS_Subset
    <3>4. QED
      BY <1>7, <2>0, <2>3, <3>3, StoringType
  <2>4. CASE i # v.event
    <3>1. Storing(i)' \subseteq Storing(i)
      BY <2>2
    <3>2. Cardinality(Storing(i)') <= Cardinality(Storing(i))
      BY <3>1, StoringType, FS_Subset
    <3>3. QED
      BY <1>7, <2>0, <2>4, <3>2, StoringType
  <2>5. QED
    BY <2>3, <2>4
<1>18. /\ status' \in [Pairs -> SubscriptionState \cup {None}]
       /\ payments' \subseteq Id /\ skipped' \subseteq Id /\ faults' \in 0..MAX_FAULTS
  BY <1>2, <1>3 DEF TypeOK
<1>19. QED
  BY <1>3, <1>6, <1>9, <1>12, <1>14, <1>15, <1>16, <1>17, <1>18, WriteStep

\* The state machine: a known event always leads to a state where there was
\* none (subscriptionStateMachine.ts).
LEMMA TransitionFacts ==
    ASSUME NEW s \in SubscriptionState, NEW type \in STORED_EVENT_TYPES
    PROVE  /\ transition(s, type) \in SubscriptionState \cup {None}
           /\ s = "ACTIVE" => transition(s, type) # None
<1>1. None \notin SubscriptionState
  BY SetsAssumption
<1>2. CASE type = "subscribe"
  <2>1. transition(s, type) = "ACTIVE"
    BY <1>2 DEF transition
  <2>2. QED
    BY <1>1, <2>1 DEF SubscriptionState
<1>3. CASE type = "executed" /\ s \in {"CANCELLED", "EXPIRED"}
  <2>1. transition(s, type) = None
    BY <1>3 DEF transition
  <2>2. QED
    BY <1>3, <2>1
<1>4. CASE type = "executed" /\ s \notin {"CANCELLED", "EXPIRED"}
  <2>1. transition(s, type) = "ACTIVE"
    BY <1>4 DEF transition
  <2>2. QED
    BY <1>1, <2>1 DEF SubscriptionState
<1>5. QED
  BY <1>2, <1>3, <1>4 DEF STORED_EVENT_TYPES

LEMMA ApplyEventStep ==
    ASSUME IndInv, NEW t \in Tasks, applyEvent(t)
    PROVE  IndInv'
<1>1. PICK v : v = task[t]
  OBVIOUS
<1>2. /\ TypeOK /\ TaskOK(v) /\ Bounded(v) /\ v \in Task /\ v.pc = "read"
      /\ RowsOK /\ PublishedWasDispatched
  BY <1>1, TaskFacts DEF applyEvent, IndInv
<1>3. UNCHANGED <<chain, table_vars, stopped, relay_vars, skipped, dispatched, faults>>
  BY DEF applyEvent
<1>4. /\ UNCHANGED <<chain, state, copies, outbox, status, payments, relay, relayStopped,
                     stopped, skipped, dispatched, faults>>
      /\ stopped' \in BOOLEAN /\ faults' \in 0..MAX_FAULTS
  BY <1>2, <1>3 DEF table_vars, relay_vars, TypeOK
<1>5. Grows /\ Len(chain') \in Nat
  BY <1>2, <1>4, ChainType DEF Grows
<1>6. PICK e : e = chain[v.event]
  OBVIOUS
<1>7. /\ e.pair \in Pairs /\ e.type \in STORED_EVENT_TYPES /\ Stored(e)
      /\ v.event \in 1..v.last
  BY <1>2, <1>6, EventFacts DEF TaskOK, Working
<1>8. PICK s : s = IF status[e.pair] = None THEN "ACTIVE" ELSE status[e.pair]
  OBVIOUS
<1>9. s \in SubscriptionState
  BY <1>2, <1>7, <1>8 DEF TypeOK, SubscriptionState
<1>10. CASE transition(s, e.type) = None
  <2>1. task' = applied(t)
    BY <1>1, <1>6, <1>8, <1>10 DEF applyEvent
  <2>2. status[e.pair] # None
    BY <1>7, <1>8, <1>9, <1>10, TransitionFacts
  <2>3. PICK w : Moved(t, w) /\ w.pc # "store" /\ TaskOK(w)' /\ Bounded(w)'
    BY <1>1, <1>2, <1>4, <1>5, <1>6, <2>1, <2>2, AppliedOK
  <2>4. CopiesOK'
    BY <1>4, <2>3, MoveCopies
  <2>5. /\ copies' \in [Id -> Nat]
        /\ outbox' \in [Id -> {"pending", "published", "failed", None}]
        /\ status' \in [Pairs -> SubscriptionState \cup {None}]
        /\ payments' \subseteq Id /\ skipped' \subseteq Id
        /\ RowsOK' /\ PublishedWasDispatched'
    BY <1>2, <1>4 DEF TypeOK, RowsOK, PublishedWasDispatched
  <2>6. QED
    BY <1>4, <1>5, <2>3, <2>4, <2>5, WriteStep
<1>11. CASE transition(s, e.type) # None
  <2> DEFINE w == [v EXCEPT !.pc = "write", !.seen = s]
  <2>1. task' = [task EXCEPT ![t] = w]
    BY <1>1, <1>6, <1>8, <1>11 DEF applyEvent
  <2>2. /\ w \in Task /\ w.pc = "write" /\ w.last = v.last /\ w.event = v.event
        /\ w.cursor = v.cursor /\ w.ledger = v.ledger /\ w.seen = s
    BY <1>2, <1>9 DEF Task
  <2> HIDE DEF w
  <2>3. Moved(t, w)
    BY <2>1, <2>2, SetTask
  <2>4. TaskOK(w)
    BY <1>2, <1>6, <1>7, <1>11, <2>2 DEF TaskOK, Working
  <2>5. Bounded(w)
    BY <1>2, <1>7, <2>2 DEF Bounded
  <2>6. QED
    BY <1>3, <1>4, <2>2, <2>3, <2>4, <2>5, QuietStep
<1>12. QED
  BY <1>10, <1>11

LEMMA UpsertStep ==
    ASSUME IndInv, NEW t \in Tasks, applyEvent_upsert(t)
    PROVE  IndInv'
<1>1. PICK v : v = task[t]
  OBVIOUS
<1>2. /\ TypeOK /\ TaskOK(v) /\ Bounded(v) /\ v \in Task /\ v.pc = "write"
      /\ RowsOK /\ PublishedWasDispatched
  BY <1>1, TaskFacts DEF applyEvent_upsert, IndInv
<1>3. PICK e : e = chain[v.event]
  OBVIOUS
<1>4. PICK x : x = transition(v.seen, e.type)
  OBVIOUS
<1>5. /\ UNCHANGED <<chain, state, copies, outbox, payments, stopped, relay, relayStopped,
                     skipped, dispatched, faults>>
      /\ status' = [status EXCEPT ![e.pair] = x]
      /\ task' = applied(t)
  BY <1>1, <1>3, <1>4 DEF applyEvent_upsert, relay_vars
<1>6. e.pair \in Pairs /\ e.type \in STORED_EVENT_TYPES /\ x # None
  BY <1>2, <1>3, <1>4, EventFacts DEF TaskOK, Working
<1>7. x \in SubscriptionState
  <2>1. v.seen \in SubscriptionState \cup {None}
    BY <1>2 DEF Task
  <2>2. CASE v.seen = None
    <3>1. None \notin {"CANCELLED", "EXPIRED"}
      BY SetsAssumption DEF SubscriptionState
    <3>2. x = "ACTIVE"
      BY <1>4, <1>6, <2>2, <3>1 DEF transition, STORED_EVENT_TYPES
    <3>3. QED
      BY <3>2 DEF SubscriptionState
  <2>3. CASE v.seen \in SubscriptionState
    BY <1>4, <1>6, <2>3, TransitionFacts
  <2>4. QED
    BY <2>1, <2>2, <2>3
<1>8. /\ status' \in [Pairs -> SubscriptionState \cup {None}] /\ status'[e.pair] = x
      /\ \A p \in Pairs : p # e.pair => status'[p] = status[p]
  BY <1>2, <1>5, <1>6, <1>7 DEF TypeOK
<1>9. Grows
  <2>1. Len(chain) \in Nat
    BY <1>2, ChainType
  <2>2. QED
    BY <1>5, <1>6, <1>8, <2>1 DEF Grows
<1>10. PICK w : Moved(t, w) /\ w.pc # "store" /\ TaskOK(w)' /\ Bounded(w)'
  BY <1>1, <1>2, <1>3, <1>5, <1>6, <1>8, <1>9, AppliedOK
<1>11. CopiesOK'
  BY <1>5, <1>10, MoveCopies
<1>12. /\ copies' \in [Id -> Nat]
       /\ outbox' \in [Id -> {"pending", "published", "failed", None}]
       /\ payments' \subseteq Id /\ skipped' \subseteq Id /\ faults' \in 0..MAX_FAULTS
       /\ RowsOK' /\ PublishedWasDispatched'
  BY <1>2, <1>5 DEF TypeOK, RowsOK, PublishedWasDispatched
<1>13. QED
  BY <1>5, <1>8, <1>9, <1>10, <1>11, <1>12, WriteStep

\* The last write for an event, and the error that makes the loop pass it.
LEMMA PassStep ==
    ASSUME IndInv, NEW t \in Tasks, payment_upsert(t) \/ processEvent_error(t)
    PROVE  IndInv'
<1>1. PICK v : v = task[t]
  OBVIOUS
<1>2. /\ TypeOK /\ TaskOK(v) /\ Bounded(v) /\ v \in Task /\ v.pc \in Working
      /\ RowsOK /\ PublishedWasDispatched
  BY <1>1, TaskFacts DEF payment_upsert, processEvent_error, IndInv, Working
<1>3. /\ UNCHANGED <<chain, state, copies, outbox, status, stopped, relay, relayStopped,
                     dispatched>>
      /\ payments \subseteq payments' /\ skipped \subseteq skipped'
      /\ task' = next_event(t)
  BY DEF payment_upsert, processEvent_error, relay_vars, table_vars
<1>4. faults' \in 0..MAX_FAULTS
  BY <1>2, BoundsAssumption DEF payment_upsert, processEvent_error, TypeOK
<1>5. v.event \in Id
  BY <1>2, EventFacts
<1>6. payments' \subseteq Id /\ skipped' \subseteq Id
  BY <1>1, <1>2, <1>5 DEF payment_upsert, processEvent_error, TypeOK, table_vars
<1>7. Grows
  <2>1. Len(chain) \in Nat
    BY <1>2, ChainType
  <2>2. QED
    BY <1>3, <2>1 DEF Grows
<1>8. Handled(v.event)'
  <2>1. CASE payment_upsert(t)
    <3>1. v.pc = "pay" /\ v.event \in payments'
      BY <1>1, <2>1 DEF payment_upsert
    <3>2. Stored(chain[v.event]) /\ status[chain[v.event].pair] # None
      BY <1>2, <3>1 DEF TaskOK
    <3>3. QED
      BY <1>3, <3>1, <3>2 DEF Handled, Stored
  <2>2. CASE processEvent_error(t)
    <3>1. v.event \in skipped'
      BY <1>1, <2>2 DEF processEvent_error
    <3>2. QED
      BY <3>1 DEF Handled
  <2>3. QED
    BY <2>1, <2>2
<1>9. PICK w : Moved(t, w) /\ w.pc # "store" /\ TaskOK(w)' /\ Bounded(w)'
  BY <1>1, <1>2, <1>3, <1>7, <1>8, NextEventOK
<1>10. CopiesOK'
  BY <1>3, <1>9, MoveCopies
<1>11. /\ copies' \in [Id -> Nat]
       /\ outbox' \in [Id -> {"pending", "published", "failed", None}]
       /\ status' \in [Pairs -> SubscriptionState \cup {None}]
       /\ RowsOK' /\ PublishedWasDispatched'
  BY <1>2, <1>3 DEF TypeOK, RowsOK, PublishedWasDispatched
<1>12. QED
  BY <1>3, <1>4, <1>6, <1>7, <1>9, <1>10, <1>11, WriteStep

\* The cursor and the ledger are saved, perhaps over later ones of another
\* loop: everything up to them is handled all the same.
LEMMA SaveStep ==
    ASSUME IndInv, NEW t \in Tasks, saveState(t)
    PROVE  IndInv'
<1>1. PICK v : v = task[t]
  OBVIOUS
<1>2. /\ TypeOK /\ TaskOK(v) /\ Bounded(v) /\ v \in Task /\ v.pc = "save"
      /\ RowsOK /\ PublishedWasDispatched
  BY <1>1, TaskFacts DEF saveState, IndInv
<1>3. PICK l : l = IF chain[v.last].ledger > v.ledger THEN chain[v.last].ledger ELSE v.ledger
  OBVIOUS
<1>4. /\ UNCHANGED <<chain, copies, outbox, status, payments, stopped, relay, relayStopped,
                     skipped, dispatched, faults>>
      /\ state' = [cursor |-> v.last, ledger |-> l]
      /\ task' = ended(t)
  BY <1>1, <1>3 DEF saveState, relay_vars
<1>5. v.last \in 1..Len(chain) /\ v.last \in Nat /\ v.last <= Len(chain) /\ Covered(v.last)
  BY <1>2, BoundsAssumption, ChainType DEF TaskOK, Bounded, Task
<1>6. l \in 0..MAX_EVENTS /\ LedgerOK(l)
  <2>1. chain[v.last].ledger \in 0..MAX_EVENTS /\ v.ledger \in 0..MAX_EVENTS
    BY <1>2, <1>5, ChainType, BoundsAssumption DEF Ledger, Task
  <2>2. LedgerOK(v.ledger) /\ LedgerOK(chain[v.last].ledger)
    BY <1>2, <1>5 DEF TaskOK, LedgerOK
  <2>3. QED
    BY <1>3, <2>1, <2>2
<1>7. Grows /\ Len(chain') \in Nat
  <2>1. Len(chain) \in Nat
    BY <1>2, ChainType
  <2>2. QED
    BY <1>4, <2>1 DEF Grows
<1>8. StateOK'
  <2>1. PICK c : c = v.last
    OBVIOUS
  <2>2. Covered(c)' /\ LedgerOK(l)'
    BY <1>2, <1>5, <1>6, <1>7, <2>1, CoveredKept, LedgerKept
  <2>3. state'.cursor = c /\ state'.ledger = l
    BY <1>4, <2>1
  <2>4. QED
    BY <2>2, <2>3 DEF StateOK, Covered, LedgerOK
<1>9. state' \in [cursor : 0..Len(chain), ledger : 0..MAX_EVENTS]
  BY <1>4, <1>5, <1>6
<1>10. PICK w : Moved(t, w) /\ w.pc # "store" /\ TaskOK(w) /\ Bounded(w)
  BY <1>4, EndedOK
<1>11. TaskOK(w)' /\ Bounded(w)'
  BY <1>2, <1>7, <1>10, TaskKept
<1>12. CopiesOK'
  BY <1>4, <1>10, MoveCopies
<1>13. /\ copies' \in [Id -> Nat]
       /\ outbox' \in [Id -> {"pending", "published", "failed", None}]
       /\ status' \in [Pairs -> SubscriptionState \cup {None}]
       /\ payments' \subseteq Id /\ skipped' \subseteq Id
       /\ stopped' \in BOOLEAN /\ faults' \in 0..MAX_FAULTS
       /\ RowsOK' /\ PublishedWasDispatched'
  BY <1>2, <1>4 DEF TypeOK, RowsOK, PublishedWasDispatched
<1>14. QED
  BY <1>4, <1>7, <1>8, <1>9, <1>10, <1>11, <1>12, <1>13, TaskStepKeeps

-----------------------------------------------------------------------------
(* Steps of others.                                                        *)

\* Tasks that go on as they are, or end.
LEMMA TasksRest ==
    ASSUME IndInv, Grows, Len(chain') \in Nat, UNCHANGED copies,
           task' \in [Tasks -> Task],
           \A u \in Tasks : task'[u] = task[u] \/ task'[u] = Idle
    PROVE  TasksOK' /\ (\A u \in Tasks : Bounded(task[u])') /\ CopiesOK'
<1>1. ASSUME NEW u \in Tasks
      PROVE  TaskOK(task[u])' /\ Bounded(task[u])'
  <2>1. PICK v : v = task'[u]
    OBVIOUS
  <2>2. TypeOK /\ TaskOK(v) /\ Bounded(v)
    BY <2>1, TaskFacts, IdleType
  <2>3. TaskOK(v)' /\ Bounded(v)'
    BY <2>2, TaskKept
  <2>4. TaskOK(task[u])'
    BY <2>1, <2>3 DEF TaskOK, Covered, LedgerOK, Stored
  <2>5. Bounded(task[u])'
    BY <2>1, <2>3 DEF Bounded
  <2>6. QED
    BY <2>4, <2>5
<1>2. \A u \in Tasks : task'[u].pc = "store" => task'[u] = task[u]
  BY DEF Idle
<1>3. CopiesOK'
  BY <1>2, CopiesKept
<1>4. QED
  BY <1>1, <1>3 DEF TasksOK

LEMMA EmitStep ==
    ASSUME IndInv, emit
    PROVE  IndInv'
<1>0. /\ TypeOK /\ ChainOK /\ RowsOK /\ RelaysOK /\ PublishedWasDispatched
      /\ chain \in Seq(Event) /\ Len(chain) \in Nat
  BY ChainType DEF IndInv, TypeOK
<1> DEFINE n == Len(chain)
           top == IF chain = << >> THEN 0 ELSE chain[n].ledger
<1>1. PICK y \in Emitted, p \in Pairs, d \in (IF chain = << >> THEN {1} ELSE {0, 1}) :
         chain' = Append(chain, [type |-> y, pair |-> p, ledger |-> top + d])
  BY DEF emit
<1>2. /\ UNCHANGED <<state, copies, outbox, status, payments, stopped, task, relay,
                     relayStopped, skipped, dispatched, faults>>
      /\ n < MAX_EVENTS
  BY DEF emit, table_vars, task_vars, relay_vars
<1>3. PICK l : l = top + d
  OBVIOUS
<1>4. l \in Nat /\ l >= 1 /\ l <= n + 1 /\ \A i \in 1..n : chain[i].ledger <= l
  <2>1. CASE chain = << >>
    BY <1>0, <1>1, <1>3, <2>1, EmptySeq
  <2>2. CASE chain # << >>
    <3>1. n \in 1..n
      BY <1>0, <2>2, EmptySeq
    <3>2. top = chain[n].ledger /\ chain[n].ledger \in Nat /\ chain[n].ledger >= 1
      BY <1>0, <2>2, <3>1, ChainType, BoundsAssumption DEF Ledger
    <3>3. chain[n].ledger <= n /\ \A i \in 1..n : chain[i].ledger <= chain[n].ledger
      BY <1>0, <3>1 DEF ChainOK
    <3>4. \A i \in 1..n : chain[i].ledger \in Nat
      BY <1>0, ChainType
    <3> HIDE DEF top
    <3>5. d \in {0, 1}
      BY <1>1, <2>2
    <3>6. QED
      BY <1>0, <1>3, <3>2, <3>3, <3>4, <3>5
  <2>3. QED
    BY <2>1, <2>2
<1>5. PICK e : e = [type |-> y, pair |-> p, ledger |-> l]
  OBVIOUS
<1>6. e \in Event /\ e.ledger = l
  BY <1>0, <1>1, <1>2, <1>4, <1>5, SetsAssumption, BoundsAssumption DEF Event, Ledger
<1>7. chain' = Append(chain, e)
  BY <1>1, <1>3, <1>5
<1>8. /\ chain' \in Seq(Event) /\ Len(chain') = n + 1 /\ chain'[n + 1] = e
      /\ \A i \in 1..n : chain'[i] = chain[i]
  BY <1>0, <1>6, <1>7, AppendProperties
<1>9. Grows /\ Len(chain') \in Nat
  BY <1>0, <1>2, <1>8 DEF Grows
<1>10. ChainOK'
  <2> SUFFICES ASSUME NEW i \in 1..(n + 1), NEW j \in 1..(n + 1), i <= j
               PROVE  chain'[i].ledger <= chain'[j].ledger /\ chain'[j].ledger <= j
    BY <1>8 DEF ChainOK
  <2>1. CASE j \in 1..n
    <3>1. i \in 1..n
      BY <1>0, <2>1
    <3>2. QED
      BY <1>0, <1>8, <2>1, <3>1 DEF ChainOK
  <2>2. CASE j = n + 1
    <3>1. chain'[j].ledger = l /\ l <= j
      BY <1>4, <1>6, <1>8, <2>2
    <3>2. chain'[i].ledger <= l
      <4>1. CASE i = n + 1
        BY <1>4, <1>6, <1>8, <4>1
      <4>2. CASE i \in 1..n
        BY <1>4, <1>8, <4>2
      <4>3. QED
        BY <1>0, <4>1, <4>2
    <3>3. QED
      BY <3>1, <3>2
  <2>3. QED
    BY <1>0, <2>1, <2>2
<1>11. TasksOK' /\ (\A u \in Tasks : Bounded(task[u])') /\ CopiesOK'
  <2>1. task' \in [Tasks -> Task]
    BY <1>0, <1>2 DEF TypeOK
  <2>2. QED
    BY <1>2, <1>9, <2>1, TasksRest
<1>12. StateOK'
  BY <1>2, <1>9, StateKept
<1>13. RowsOK' /\ RelaysOK' /\ PublishedWasDispatched'
  BY <1>0, <1>2 DEF RowsOK, RelaysOK, PublishedWasDispatched
<1>14. TypeOK'
  <2>1. state' \in [cursor : 0..Len(chain'), ledger : 0..MAX_EVENTS]
    BY <1>0, <1>2, <1>8 DEF TypeOK
  <2>2. chain' \in Seq(Event) /\ Len(chain') <= MAX_EVENTS
    BY <1>0, <1>2, <1>8, BoundsAssumption
  <2>3. QED
    BY <1>0, <1>2, <1>11, <2>1, <2>2 DEF TypeOK, Bounded, Working
<1>15. QED
  BY <1>10, <1>11, <1>12, <1>13, <1>14 DEF IndInv

\* Steps that leave the log and the tables alone, and begin nothing.
LEMMA RestStep ==
    ASSUME IndInv, UNCHANGED <<chain, state, copies, status, payments, skipped>>,
           task' \in [Tasks -> Task],
           \A u \in Tasks : task'[u] = task[u] \/ task'[u] = Idle,
           stopped' \in BOOLEAN, relayStopped' \in BOOLEAN, faults' \in 0..MAX_FAULTS,
           outbox' \in [Id -> {"pending", "published", "failed", None}],
           \A i \in Id : outbox[i] # None => outbox'[i] # None,
           relay' \in [Relays -> Relay], dispatched' \subseteq Id,
           RelaysOK', PublishedWasDispatched'
    PROVE  IndInv'
<1>1. TypeOK /\ ChainOK /\ RowsOK /\ Len(chain) \in Nat
  BY ChainType DEF IndInv
<1>2. Grows /\ Len(chain') \in Nat
  BY <1>1 DEF Grows
<1>3. TasksOK' /\ (\A u \in Tasks : Bounded(task[u])') /\ CopiesOK'
  BY <1>2, TasksRest
<1>4. StateOK'
  BY <1>2, StateKept
<1>5. ChainOK' /\ RowsOK'
  BY <1>1 DEF ChainOK, RowsOK
<1>6. TypeOK'
  BY <1>1, <1>3 DEF TypeOK, Bounded, Working
<1>7. QED
  BY <1>3, <1>4, <1>5, <1>6 DEF IndInv

LEMMA RestingType == Resting \in Relay /\ Resting.pc = "off"
  BY BoundsAssumption DEF Resting, Relay

LEMMA CrashStep ==
    ASSUME IndInv, crash
    PROVE  IndInv'
<1>0. TypeOK /\ PublishedWasDispatched
  BY DEF IndInv
<1>1. /\ UNCHANGED <<chain, state, copies, outbox, status, payments, skipped, dispatched>>
      /\ faults < MAX_FAULTS /\ faults' = faults + 1
      /\ stopped' = FALSE /\ task' = [t \in Tasks |-> Idle]
      /\ relayStopped' = FALSE /\ relay' = [r \in Relays |-> Resting]
  BY DEF crash, table_vars
<1>2. task' \in [Tasks -> Task] /\ \A u \in Tasks : task'[u] = Idle
  BY <1>0, <1>1, IdleType
<1>3. relay' \in [Relays -> Relay] /\ \A r \in Relays : relay'[r].pc = "off"
  BY <1>1, RestingType
<1>4. faults' \in 0..MAX_FAULTS
  BY <1>0, <1>1, BoundsAssumption DEF TypeOK
<1>5. RelaysOK' /\ PublishedWasDispatched'
  BY <1>0, <1>1, <1>3 DEF RelaysOK, PublishedWasDispatched
<1>6. outbox' \in [Id -> {"pending", "published", "failed", None}] /\ dispatched' \subseteq Id
  BY <1>0, <1>1 DEF TypeOK
<1>7. QED
  BY <1>1, <1>2, <1>3, <1>4, <1>5, <1>6, RestStep

LEMMA StopPollingStep ==
    ASSUME IndInv, stopPolling
    PROVE  IndInv'
<1>0. TypeOK /\ RelaysOK /\ PublishedWasDispatched
  BY DEF IndInv
<1>1. /\ UNCHANGED <<chain, state, copies, outbox, status, payments, relay, relayStopped,
                     skipped, dispatched, faults>>
      /\ stopped' = TRUE
      /\ task' = [t \in Tasks |-> IF task[t].pc = "timer" THEN Idle ELSE task[t]]
  BY DEF stopPolling, table_vars, relay_vars
<1>2. /\ task' \in [Tasks -> Task]
      /\ \A u \in Tasks : task'[u] = task[u] \/ task'[u] = Idle
  BY <1>0, <1>1, IdleType DEF TypeOK
<1>3. RelaysOK' /\ PublishedWasDispatched'
  BY <1>0, <1>1 DEF RelaysOK, PublishedWasDispatched
<1>4. /\ outbox' \in [Id -> {"pending", "published", "failed", None}] /\ dispatched' \subseteq Id
      /\ relay' \in [Relays -> Relay] /\ relayStopped' \in BOOLEAN /\ faults' \in 0..MAX_FAULTS
  BY <1>0, <1>1 DEF TypeOK
<1>5. QED
  BY <1>1, <1>2, <1>3, <1>4, RestStep

-----------------------------------------------------------------------------
(* OutboxRelay                                                             *)

\* What the invariant says of one relay.
RelayOK(q, D) ==
    /\ q \in Relay
    /\ q.pc \in {"dispatch", "publish", "fail"} => q.entry \in Id
    /\ q.pc = "publish" => q.entry \in D

LEMMA RelayFacts ==
    ASSUME IndInv, NEW r \in Relays
    PROVE  RelayOK(relay[r], dispatched) /\ relay \in [Relays -> Relay]
  BY DEF IndInv, TypeOK, RelaysOK, RelayOK

\* The next entry of a pass, or its end.
LEMMA ProceedOK ==
    ASSUME IndInv, NEW r \in Relays, NEW todo \in SUBSET Id, proceed(r, todo),
           UNCHANGED dispatched
    PROVE  relay' \in [Relays -> Relay] /\ RelaysOK'
<1>0. relay \in [Relays -> Relay] /\ \A q \in Relays : RelayOK(relay[q], dispatched)
  BY RelayFacts DEF IndInv, TypeOK
<1>1. CASE relay' = [relay EXCEPT ![r] = Resting]
  <2>1. relay' \in [Relays -> Relay] /\ relay'[r].pc = "off"
        /\ \A q \in Relays : q # r => relay'[q] = relay[q]
    BY <1>0, <1>1, RestingType
  <2>2. QED
    BY <1>0, <2>1 DEF RelaysOK, RelayOK
<1>2. CASE relay' = [q \in Relays |->
                        IF q = r THEN [Resting EXCEPT !.pc = "timer"]
                        ELSE IF relay[q].pc = "timer" THEN [relay[q] EXCEPT !.pc = "loose"]
                        ELSE relay[q]]
  <2>1. /\ [Resting EXCEPT !.pc = "timer"] \in Relay
        /\ [Resting EXCEPT !.pc = "timer"].pc = "timer"
    BY BoundsAssumption DEF Resting, Relay
  <2>2. \A q \in Relays : /\ [relay[q] EXCEPT !.pc = "loose"] \in Relay
                          /\ [relay[q] EXCEPT !.pc = "loose"].pc = "loose"
    BY <1>0 DEF Relay
  <2>3. /\ relay' \in [Relays -> Relay] /\ relay'[r].pc = "timer"
        /\ \A q \in Relays : q # r => relay'[q] = relay[q] \/ relay'[q].pc = "loose"
    BY <1>0, <1>2, <2>1, <2>2
  <2>4. QED
    BY <1>0, <2>3 DEF RelaysOK, RelayOK
<1>3. ASSUME NEW i \in todo,
             relay' = [relay EXCEPT ![r] = [pc |-> "dispatch", todo |-> todo \ {i}, entry |-> i]]
      PROVE  relay' \in [Relays -> Relay] /\ RelaysOK'
  <2> DEFINE q0 == [pc |-> "dispatch", todo |-> todo \ {i}, entry |-> i]
  <2>1. q0 \in Relay /\ q0.pc = "dispatch" /\ q0.entry = i /\ i \in Id
    BY BoundsAssumption DEF Relay, Id
  <2> HIDE DEF q0
  <2>2. /\ relay' \in [Relays -> Relay] /\ relay'[r] = q0
        /\ \A q \in Relays : q # r => relay'[q] = relay[q]
    BY <1>0, <1>3, <2>1 DEF q0
  <2>3. QED
    BY <1>0, <2>1, <2>2 DEF RelaysOK, RelayOK
<1>4. QED
  BY <1>1, <1>2, <1>3 DEF proceed

\* A relay only changes its place.
LEMMA RelayMoves ==
    ASSUME IndInv, NEW r \in Relays,
           NEW pc \in {"off", "find", "publish", "fail"},
           relay' = [relay EXCEPT ![r].pc = pc],
           dispatched \subseteq dispatched',
           pc \in {"publish", "fail"} => relay[r].entry \in Id,
           pc = "publish" => relay[r].entry \in dispatched'
    PROVE  relay' \in [Relays -> Relay] /\ RelaysOK'
<1>0. relay \in [Relays -> Relay] /\ \A q \in Relays : RelayOK(relay[q], dispatched)
  BY RelayFacts DEF IndInv, TypeOK
<1> DEFINE q0 == [relay[r] EXCEPT !.pc = pc]
<1>1. q0 \in Relay /\ q0.pc = pc /\ q0.entry = relay[r].entry
  BY <1>0 DEF Relay
<1>2. relay' = [relay EXCEPT ![r] = q0]
  OBVIOUS
<1> HIDE DEF q0
<1>3. /\ relay' \in [Relays -> Relay] /\ relay'[r] = q0
      /\ \A q \in Relays : q # r => relay'[q] = relay[q]
  BY <1>0, <1>1, <1>2
<1>4. QED
  BY <1>0, <1>1, <1>3 DEF RelaysOK, RelayOK

\* A step of a relay that leaves the outbox alone.
LEMMA RelayKeeps ==
    ASSUME IndInv, UNCHANGED <<chain, table_vars, task_vars, skipped>>,
           relayStopped' \in BOOLEAN, faults' \in 0..MAX_FAULTS,
           dispatched \subseteq dispatched', dispatched' \subseteq Id,
           relay' \in [Relays -> Relay], RelaysOK'
    PROVE  IndInv'
<1>1. TypeOK /\ PublishedWasDispatched
  BY DEF IndInv
<1>2. UNCHANGED <<chain, state, copies, outbox, status, payments, stopped, task, skipped>>
  BY DEF table_vars, task_vars
<1>3. PublishedWasDispatched'
  BY <1>1, <1>2 DEF PublishedWasDispatched
<1>4. /\ task' \in [Tasks -> Task] /\ stopped' \in BOOLEAN
      /\ outbox' \in [Id -> {"pending", "published", "failed", None}]
  BY <1>1, <1>2 DEF TypeOK
<1>5. QED
  BY <1>2, <1>3, <1>4, RestStep

LEMMA RelayTypes ==
    ASSUME IndInv
    PROVE  /\ relayStopped \in BOOLEAN /\ dispatched \subseteq Id
           /\ faults \in 0..MAX_FAULTS
           /\ faults < MAX_FAULTS => faults + 1 \in 0..MAX_FAULTS
  BY BoundsAssumption DEF IndInv, TypeOK

LEMMA StartRelayStep ==
    ASSUME IndInv, NEW r \in Relays, startRelay(r)
    PROVE  IndInv'
<1>1. relay' \in [Relays -> Relay] /\ RelaysOK'
  BY RelayMoves DEF startRelay
<1>2. QED
  BY <1>1, RelayTypes, RelayKeeps DEF startRelay

LEMMA StopRelayStep ==
    ASSUME IndInv, stopRelay
    PROVE  IndInv'
<1>0. relay \in [Relays -> Relay] /\ \A q \in Relays : RelayOK(relay[q], dispatched)
  BY RelayFacts DEF IndInv, TypeOK
<1>1. /\ relay' \in [Relays -> Relay]
      /\ \A q \in Relays : relay'[q] = relay[q] \/ relay'[q].pc = "off"
  BY <1>0, RestingType DEF stopRelay
<1>2. RelaysOK'
  BY <1>0, <1>1 DEF RelaysOK, RelayOK, stopRelay
<1>3. QED
  BY <1>1, <1>2, RelayTypes, RelayKeeps DEF stopRelay

LEMMA RelayTickStep ==
    ASSUME IndInv, NEW r \in Relays, relay_tick(r)
    PROVE  IndInv'
<1>1. PICK pc \in {"off", "find"} : relay' = [relay EXCEPT ![r].pc = pc]
  BY DEF relay_tick
<1>2. relay' \in [Relays -> Relay] /\ RelaysOK'
  BY <1>1, RelayMoves DEF relay_tick
<1>3. QED
  BY <1>2, RelayTypes, RelayKeeps DEF relay_tick

LEMMA FindPendingStep ==
    ASSUME IndInv, NEW r \in Relays, processPendingEvents(r)
    PROVE  IndInv'
<1>1. relay' \in [Relays -> Relay] /\ RelaysOK'
  BY ProceedOK DEF processPendingEvents
<1>2. QED
  BY <1>1, RelayTypes, RelayKeeps DEF processPendingEvents

LEMMA DispatchStep ==
    ASSUME IndInv, NEW r \in Relays, dispatchOutboxEvent(r)
    PROVE  IndInv'
<1>1. relay[r].pc = "dispatch" /\ relay[r].entry \in Id
  BY RelayFacts DEF dispatchOutboxEvent, RelayOK
<1>2. /\ dispatched \subseteq dispatched' /\ dispatched' \subseteq Id
      /\ relay[r].entry \in dispatched'
  BY <1>1, RelayTypes DEF dispatchOutboxEvent
<1>3. relay' \in [Relays -> Relay] /\ RelaysOK'
  BY <1>1, <1>2, RelayMoves DEF dispatchOutboxEvent
<1>4. QED
  BY <1>2, <1>3, RelayTypes, RelayKeeps DEF dispatchOutboxEvent

\* The entry in hand is marked, as published only after its side effects.
LEMMA MarkStep ==
    ASSUME IndInv, NEW r \in Relays, mark_published(r) \/ mark_failed(r)
    PROVE  IndInv'
<1>0. TypeOK /\ PublishedWasDispatched /\ RelayOK(relay[r], dispatched)
  BY RelayFacts DEF IndInv
<1>1. PICK m \in {"published", "failed"} :
         /\ outbox' = [outbox EXCEPT ![relay[r].entry] = m]
         /\ m = "published" => relay[r].pc = "publish"
         /\ relay[r].pc \in {"publish", "fail"}
  BY DEF mark_published, mark_failed
<1>2. /\ UNCHANGED <<chain, state, copies, status, payments, stopped, task, relayStopped,
                     skipped, dispatched, faults>>
      /\ proceed(r, relay[r].todo)
  BY DEF mark_published, mark_failed, task_vars
<1>3. relay[r].todo \in SUBSET Id /\ relay[r].entry \in Id
  BY <1>0, <1>1 DEF RelayOK, Relay
<1>4. relay' \in [Relays -> Relay] /\ RelaysOK'
  BY <1>2, <1>3, ProceedOK
<1>5. outbox \in [Id -> {"pending", "published", "failed", None}]
  BY <1>0 DEF TypeOK
<1>6. /\ outbox' \in [Id -> {"pending", "published", "failed", None}]
      /\ outbox'[relay[r].entry] = m
      /\ \A i \in Id : i # relay[r].entry => outbox'[i] = outbox[i]
  BY <1>1, <1>3, <1>5
<1>7. m # None
  BY SetsAssumption
<1>8. \A i \in Id : outbox[i] # None => outbox'[i] # None
  BY <1>6, <1>7
<1>9. PublishedWasDispatched'
  BY <1>0, <1>1, <1>2, <1>6 DEF PublishedWasDispatched, RelayOK
<1>10. /\ task' \in [Tasks -> Task] /\ stopped' \in BOOLEAN /\ relayStopped' \in BOOLEAN
       /\ faults' \in 0..MAX_FAULTS /\ dispatched' \subseteq Id
  BY <1>0, <1>2 DEF TypeOK
<1>11. QED
  BY <1>2, <1>4, <1>6, <1>8, <1>9, <1>10, RestStep

LEMMA RelayErrorStep ==
    ASSUME IndInv, NEW r \in Relays, relay_error(r)
    PROVE  IndInv'
<1>1. CASE relay[r].pc \in {"dispatch", "publish"}
  <2>1. relay' = [relay EXCEPT ![r].pc = "fail"] /\ relay[r].entry \in Id
    BY <1>1, RelayFacts DEF relay_error, RelayOK
  <2>2. relay' \in [Relays -> Relay] /\ RelaysOK'
    BY <2>1, RelayMoves DEF relay_error
  <2>3. QED
    BY <2>2, RelayTypes, RelayKeeps DEF relay_error
<1>2. CASE relay[r].pc \notin {"dispatch", "publish"}
  <2>1. proceed(r, {}) /\ UNCHANGED dispatched
    BY <1>2 DEF relay_error
  <2>2. relay' \in [Relays -> Relay] /\ RelaysOK'
    BY <2>1, ProceedOK
  <2>3. QED
    BY <2>2, RelayTypes, RelayKeeps DEF relay_error
<1>3. QED
  BY <1>1, <1>2

-----------------------------------------------------------------------------
(* The invariant.                                                          *)

LEMMA InitInv ==
    ASSUME Init
    PROVE  IndInv
<1>1. /\ chain = << >> /\ state = [cursor |-> 0, ledger |-> 0]
      /\ copies = [i \in Id |-> 0] /\ outbox = [i \in Id |-> None]
      /\ status = [p \in Pairs |-> None] /\ payments = {}
      /\ stopped = FALSE /\ task = [t \in Tasks |-> Idle]
      /\ relayStopped = FALSE /\ relay = [r \in Relays |-> Resting]
      /\ skipped = {} /\ dispatched = {} /\ faults = 0
  BY DEF Init
<1>2. chain \in Seq(Event) /\ Len(chain) = 0
  BY <1>1, EmptySeq
<1>3. /\ Idle \in Task /\ Idle.pc = "off" /\ Idle.cursor = 0 /\ Idle.ledger = 0
      /\ Idle.last = 0
  BY BoundsAssumption DEF Idle, Task
<1>4. TypeOK
  <2>1. task \in [Tasks -> Task] /\ relay \in [Relays -> Relay]
    BY <1>1, <1>3, RestingType
  <2>2. \A t \in Tasks : task[t] = Idle
    BY <1>1
  <2>3. Len(chain) <= MAX_EVENTS /\ faults \in 0..MAX_FAULTS
        /\ state \in [cursor : 0..Len(chain), ledger : 0..MAX_EVENTS]
    BY <1>1, <1>2, BoundsAssumption
  <2>4. /\ copies \in [Id -> Nat]
        /\ outbox \in [Id -> {"pending", "published", "failed", None}]
        /\ status \in [Pairs -> SubscriptionState \cup {None}]
    BY <1>1
  <2>5. /\ \A t \in Tasks : task[t].pc \in {"check", "store", "read", "write", "pay"}
                               => task[t].event \in 1..task[t].last
        /\ \A t \in Tasks : task[t].cursor <= Len(chain) /\ task[t].last <= Len(chain)
    BY <1>2, <1>3, <2>2
  <2>6. QED
    BY <1>1, <1>2, <2>1, <2>3, <2>4, <2>5 DEF TypeOK
<1>5. ChainOK
  BY <1>2 DEF ChainOK
<1>6. TasksOK
  BY <1>1, <1>4, IdleType DEF TasksOK
<1>7. StateOK
  BY <1>1 DEF StateOK, Covered, LedgerOK
<1>8. RowsOK /\ PublishedWasDispatched
  <2>1. \A i \in Id : copies[i] = 0 /\ outbox[i] # "published"
    BY <1>1, SetsAssumption
  <2>2. QED
    BY <2>1 DEF RowsOK, PublishedWasDispatched
<1>9. CopiesOK
  <2> SUFFICES ASSUME NEW i \in Id
               PROVE  copies[i] + Cardinality(Storing(i)) <= Cardinality(Tasks)
    BY DEF CopiesOK
  <2>1. copies[i] = 0
    BY <1>1
  <2>2. QED
    BY <2>1, StoringType
<1>10. RelaysOK
  BY <1>1, RestingType DEF RelaysOK
<1>11. QED
  BY <1>4, <1>5, <1>6, <1>7, <1>8, <1>9, <1>10 DEF IndInv

LEMMA StepInv ==
    ASSUME IndInv, [Next]_vars
    PROVE  IndInv'
<1>1. ASSUME NEW t \in Tasks, startPolling(t) \/ fetchAndStoreEvents(t)
      PROVE  IndInv'
  BY <1>1, StartPollingStep, FetchStep
<1>2. ASSUME NEW t \in Tasks, task_step(t)
      PROVE  IndInv'
  BY <1>2, TickStep, CursorStep, LedgerStep, GetEventsStep, FindFirstStep, CreateStep,
     ApplyEventStep, UpsertStep, PassStep, SaveStep DEF task_step
<1>3. ASSUME NEW t \in Tasks, batch_error(t) \/ processEvent_error(t)
      PROVE  IndInv'
  BY <1>3, BatchErrorStep, PassStep
<1>4. ASSUME NEW r \in Relays, startRelay(r) \/ relay_error(r)
      PROVE  IndInv'
  BY <1>4, StartRelayStep, RelayErrorStep
<1>5. ASSUME NEW r \in Relays, relay_step(r)
      PROVE  IndInv'
  BY <1>5, RelayTickStep, FindPendingStep, DispatchStep, MarkStep DEF relay_step
<1>6. CASE emit \/ crash \/ stopPolling \/ stopRelay
  BY <1>6, EmitStep, CrashStep, StopPollingStep, StopRelayStep
<1>7. CASE UNCHANGED vars
  <2>1. UNCHANGED <<chain, state, copies, outbox, status, payments, stopped, task,
                    relayStopped, relay, skipped, dispatched, faults>>
    BY <1>7 DEF vars, table_vars, task_vars, relay_vars
  <2>2. TypeOK /\ RelaysOK /\ PublishedWasDispatched
    BY DEF IndInv
  <2>3. RelaysOK' /\ PublishedWasDispatched'
    BY <2>1, <2>2 DEF RelaysOK, PublishedWasDispatched
  <2>4. /\ task' \in [Tasks -> Task] /\ relay' \in [Relays -> Relay]
        /\ stopped' \in BOOLEAN /\ relayStopped' \in BOOLEAN
        /\ faults' \in 0..MAX_FAULTS /\ dispatched' \subseteq Id
        /\ outbox' \in [Id -> {"pending", "published", "failed", None}]
    BY <2>1, <2>2 DEF TypeOK
  <2>5. QED
    BY <2>1, <2>3, <2>4, RestStep
<1>8. QED
  BY <1>1, <1>2, <1>3, <1>4, <1>5, <1>6, <1>7 DEF Next

-----------------------------------------------------------------------------
(* Theorems.                                                               *)

\* However polling loops, cron calls and relays overlap, fail and are
\* restarted, the tables of eventIndexer.ts stay related as IndInv says.
THEOREM Invariance == Spec => []IndInv
<1>1. Init => IndInv
  BY InitInv
<1>2. IndInv /\ [Next]_vars => IndInv'
  BY StepInv
<1>3. QED
  BY <1>1, <1>2, PTL DEF Spec

\* The stored cursor is the position of an event, and no task of
\* fetchAndStoreEvents works outside its batch.
THEOREM TypeCorrect == Spec => []TypeOK
<1>1. IndInv => TypeOK
  BY DEF IndInv
<1>2. QED
  BY <1>1, Invariance, PTL

\* The cursor that saveState stores never passes an event that processEvent
\* has neither handled nor skipped because of an error, even when a loop read
\* the cursor before another one saved, and the ledger after it.
THEOREM HandledBehindCursorHolds == Spec => []HandledBehindCursor
<1>1. IndInv => HandledBehindCursor
  BY DEF IndInv, StateOK, Covered, HandledBehindCursor
<1>2. QED
  BY <1>1, Invariance, PTL

\* The check of findFirst and the transaction of create are apart: an event is
\* still stored at most once by each of the tasks that overlap.
THEOREM DuplicatesBoundedHolds == Spec => []DuplicatesBounded
<1>1. ASSUME IndInv
      PROVE  DuplicatesBounded
  <2> SUFFICES ASSUME NEW i \in Id
               PROVE  copies[i] <= Cardinality(Tasks)
    BY DEF DuplicatesBounded
  <2>1. copies[i] \in Nat /\ copies[i] + Cardinality(Storing(i)) <= Cardinality(Tasks)
    BY <1>1 DEF IndInv, CopiesOK, TypeOK
  <2>2. QED
    BY <2>1, StoringType
<1>2. IndInv => DuplicatesBounded
  BY <1>1
<1>3. QED
  BY <1>2, Invariance, PTL

\* OutboxRelay marks no entry as published whose side effects it has not run,
\* whatever other relays do with the same entry.
THEOREM PublishedWasDispatchedHolds == Spec => []PublishedWasDispatched
<1>1. IndInv => PublishedWasDispatched
  BY DEF IndInv
<1>2. QED
  BY <1>1, Invariance, PTL

-----------------------------------------------------------------------------
(* The indexer implements EventMirror.                                     *)

\* Handled events stay handled, and are events of the log.
LEMMA HandledGrow ==
    ASSUME TypeOK, Grows, Len(chain') \in Nat
    PROVE  HandledEvents \subseteq HandledEvents' /\ HandledEvents' \subseteq 1..Len(chain')
<1>1. ASSUME NEW i \in HandledEvents
      PROVE  i \in HandledEvents'
  <2>1. i \in 1..Len(chain) /\ Handled(i)
    BY <1>1 DEF HandledEvents
  <2>2. i \in 1..Len(chain')
    BY <2>1, ChainType DEF Grows
  <2>3. Handled(i)'
    BY <2>1, HandledKept
  <2>4. QED
    BY <2>2, <2>3 DEF HandledEvents
<1>2. QED
  BY <1>1 DEF HandledEvents

\* A step that moves neither the log nor the cursor handles events.
LEMMA StepHandles ==
    ASSUME IndInv, Grows, UNCHANGED <<chain, state>>
    PROVE  Mirror!Handle
<1>1. TypeOK /\ Len(chain') \in Nat
  BY ChainType DEF IndInv
<1>2. HandledEvents \subseteq HandledEvents' /\ HandledEvents' \subseteq 1..Len(chain)
  BY <1>1, HandledGrow
<1>3. QED
  BY <1>2 DEF Mirror!Handle

\* The writes of processEvent take nothing back: rows are added, a status is
\* replaced by a status.
LEMMA WritesHandle ==
    ASSUME IndInv, NEW t \in Tasks,
           \/ create(t) \/ applyEvent_upsert(t)
           \/ payment_upsert(t) \/ processEvent_error(t)
    PROVE  Mirror!Handle
<1>1. PICK v : v = task[t]
  OBVIOUS
<1>2. TypeOK /\ TaskOK(v) /\ Bounded(v) /\ v \in Task
  BY <1>1, TaskFacts DEF IndInv
<1>3. /\ copies \in [Id -> Nat] /\ outbox \in [Id -> {"pending", "published", "failed", None}]
      /\ status \in [Pairs -> SubscriptionState \cup {None}] /\ Len(chain) \in Nat
  BY <1>2, ChainType DEF TypeOK
<1>4. UNCHANGED <<chain, state>>
  BY DEF create, applyEvent_upsert, payment_upsert, processEvent_error, table_vars
<1>5. CASE create(t)
  <2>1. /\ UNCHANGED <<status, payments, skipped>>
        /\ copies' = [copies EXCEPT ![v.event] = @ + 1]
        /\ outbox' = [outbox EXCEPT ![v.event] = IF @ = None THEN "pending" ELSE @]
    BY <1>1, <1>5 DEF create
  <2>2. None # "pending"
    BY SetsAssumption
  <2>3. \A i \in Id : copies[i] > 0 => copies'[i] > 0
    BY <1>3, <2>1
  <2>4. \A i \in Id : outbox[i] # None => outbox'[i] # None
    BY <1>3, <2>1, <2>2
  <2>5. Grows
    BY <1>3, <1>4, <2>1, <2>3, <2>4 DEF Grows
  <2>6. QED
    BY <1>4, <2>5, StepHandles
<1>6. CASE applyEvent_upsert(t)
  <2>1. PICK x : x = transition(v.seen, chain[v.event].type)
    OBVIOUS
  <2>2. /\ UNCHANGED <<copies, outbox, payments, skipped>>
        /\ status' = [status EXCEPT ![chain[v.event].pair] = x]
    BY <1>1, <1>6, <2>1 DEF applyEvent_upsert
  <2>3. x # None
    BY <1>1, <1>2, <1>6, <2>1 DEF applyEvent_upsert, TaskOK
  <2>4. \A p \in Pairs : status[p] # None => status'[p] # None
    BY <1>3, <2>2, <2>3
  <2>5. Grows
    BY <1>3, <1>4, <2>2, <2>4 DEF Grows
  <2>6. QED
    BY <1>4, <2>5, StepHandles
<1>7. CASE payment_upsert(t) \/ processEvent_error(t)
  <2>1. /\ UNCHANGED <<copies, outbox, status>>
        /\ payments \subseteq payments' /\ skipped \subseteq skipped'
    BY <1>7 DEF payment_upsert, processEvent_error, table_vars
  <2>2. Grows
    BY <1>3, <1>4, <2>1 DEF Grows
  <2>3. QED
    BY <1>4, <2>2, StepHandles
<1>8. QED
  BY <1>5, <1>6, <1>7

\* A relay's mark leaves the outbox entry in place.
LEMMA MarksHandle ==
    ASSUME IndInv, NEW r \in Relays, mark_published(r) \/ mark_failed(r)
    PROVE  Mirror!Handle
<1>1. PICK m \in {"published", "failed"} : outbox' = [outbox EXCEPT ![relay[r].entry] = m]
  BY DEF mark_published, mark_failed
<1>2. UNCHANGED <<chain, state, copies, status, payments, skipped>>
  BY DEF mark_published, mark_failed
<1>3. /\ outbox \in [Id -> {"pending", "published", "failed", None}] /\ m # None
      /\ Len(chain) \in Nat
  BY SetsAssumption, ChainType DEF IndInv, TypeOK
<1>4. \A i \in Id : outbox[i] # None => outbox'[i] # None
  BY <1>1, <1>3
<1>5. Grows
  BY <1>2, <1>3, <1>4 DEF Grows
<1>6. QED
  BY <1>2, <1>5, StepHandles

\* A new event takes nothing back.
LEMMA EmitMirrored ==
    ASSUME IndInv, emit
    PROVE  Mirror!Emit
<1>1. TypeOK /\ chain \in Seq(Event) /\ Len(chain) \in Nat
  BY ChainType DEF IndInv, TypeOK
<1>2. UNCHANGED <<state, copies, outbox, status, payments, skipped>>
  BY DEF emit, table_vars
<1>3. /\ Len(chain') = Len(chain) + 1
      /\ \A i \in 1..Len(chain) : chain'[i] = chain[i]
  <2>1. PICK e : chain' = Append(chain, e)
    BY DEF emit
  <2>2. QED
    BY <1>1, <2>1
<1>4. Grows /\ Len(chain') \in Nat
  BY <1>1, <1>2, <1>3 DEF Grows
<1>5. HandledEvents \subseteq HandledEvents' /\ HandledEvents' \subseteq 1..Len(chain')
  BY <1>1, <1>4, HandledGrow
<1>6. QED
  BY <1>2, <1>3, <1>5 DEF Mirror!Emit

\* saveState stores a cursor behind which every event is handled.
LEMMA SaveMirrored ==
    ASSUME IndInv, NEW t \in Tasks, saveState(t)
    PROVE  \E k \in 0..Len(chain) : Mirror!Acknowledge(k)
<1>1. PICK v : v = task[t]
  OBVIOUS
<1>2. TypeOK /\ TaskOK(v) /\ Bounded(v) /\ v \in Task /\ v.pc = "save"
  BY <1>1, TaskFacts DEF saveState, IndInv
<1>3. v.last \in 0..Len(chain) /\ Covered(v.last) /\ Len(chain) \in Nat
  BY <1>2, BoundsAssumption, ChainType DEF TaskOK, Bounded, Task
<1>4. 1..v.last \subseteq HandledEvents
  BY <1>3 DEF Covered, HandledEvents
<1>5. /\ UNCHANGED <<chain, copies, outbox, status, payments, skipped>>
      /\ state'.cursor = v.last
  BY <1>1 DEF saveState
<1>6. HandledEvents' = HandledEvents
  BY <1>5 DEF HandledEvents, Handled
<1>7. Mirror!Acknowledge(v.last)
  BY <1>4, <1>5, <1>6 DEF Mirror!Acknowledge
<1>8. QED
  BY <1>3, <1>7

\* The empty log is mirrored.
LEMMA MirrorInit ==
    ASSUME Init
    PROVE  Mirror!Init
<1>1. Len(chain) = 0 /\ 1..0 = {} /\ state.cursor = 0
  BY DEF Init
<1>2. QED
  BY <1>1 DEF Mirror!Init, HandledEvents

\* Every step of the indexer and of the relay is one of the mirror.
LEMMA MirrorStep ==
    ASSUME IndInv, [Next]_vars
    PROVE  [Mirror!Next]_<<Len(chain), HandledEvents, state.cursor>>
<1>1. ASSUME UNCHANGED <<chain, table_vars, skipped>>
      PROVE  UNCHANGED <<Len(chain), HandledEvents, state.cursor>>
  BY <1>1 DEF table_vars, HandledEvents, Handled
<1>2. ASSUME NEW t \in Tasks,
             \/ startPolling(t) \/ fetchAndStoreEvents(t) \/ tick(t) \/ getLastCursor(t)
             \/ getLastProcessedLedger(t) \/ getEvents(t) \/ findFirst(t) \/ applyEvent(t)
             \/ batch_error(t)
      PROVE  UNCHANGED <<chain, table_vars, skipped>>
  BY <1>2 DEF startPolling, fetchAndStoreEvents, tick, getLastCursor, getLastProcessedLedger,
     getEvents, findFirst, applyEvent, batch_error
<1>3. ASSUME NEW r \in Relays,
             \/ startRelay(r) \/ relay_error(r) \/ relay_tick(r)
             \/ processPendingEvents(r) \/ dispatchOutboxEvent(r)
      PROVE  UNCHANGED <<chain, table_vars, skipped>>
  BY <1>3 DEF startRelay, relay_error, relay_tick, processPendingEvents, dispatchOutboxEvent
<1>4. CASE crash \/ stopPolling \/ stopRelay \/ UNCHANGED vars
  BY <1>1, <1>4 DEF crash, stopPolling, stopRelay, vars
<1>5. CASE emit
  BY <1>5, EmitMirrored DEF Mirror!Next
<1>6. ASSUME NEW t \in Tasks, saveState(t)
      PROVE  Mirror!Next
  BY <1>6, SaveMirrored DEF Mirror!Next
<1>7. ASSUME NEW t \in Tasks,
             \/ create(t) \/ applyEvent_upsert(t)
             \/ payment_upsert(t) \/ processEvent_error(t)
      PROVE  Mirror!Next
  BY <1>7, WritesHandle DEF Mirror!Next
<1>8. ASSUME NEW r \in Relays, mark_published(r) \/ mark_failed(r)
      PROVE  Mirror!Next
  BY <1>8, MarksHandle DEF Mirror!Next
<1>9. ASSUME NEW t \in Tasks,
             \/ startPolling(t) \/ fetchAndStoreEvents(t) \/ task_step(t)
             \/ batch_error(t) \/ processEvent_error(t)
      PROVE  [Mirror!Next]_<<Len(chain), HandledEvents, state.cursor>>
  BY <1>1, <1>2, <1>6, <1>7, <1>9 DEF task_step
<1>10. ASSUME NEW r \in Relays, startRelay(r) \/ relay_step(r) \/ relay_error(r)
       PROVE  [Mirror!Next]_<<Len(chain), HandledEvents, state.cursor>>
  BY <1>1, <1>3, <1>8, <1>10 DEF relay_step
<1>11. QED
  BY <1>4, <1>5, <1>9, <1>10 DEF Next

\* The event indexer implements EventMirror, for any overlap of polling loops,
\* cron calls and relays: what was done for an event is never taken back, and
\* saveState stores a cursor only when everything behind it is done or was
\* knowingly skipped.
THEOREM MirrorRefinement == Spec => ImplementsMirror
<1>1. IndInv /\ [Next]_vars => [Mirror!Next]_<<Len(chain), HandledEvents, state.cursor>>
  BY MirrorStep
<1>2. Spec => Mirror!Init /\ [][Mirror!Next]_<<Len(chain), HandledEvents, state.cursor>>
  BY <1>1, MirrorInit, Invariance, PTL DEF Spec
<1>3. QED
  BY <1>2 DEF ImplementsMirror, Mirror!Spec
===========================================================================
