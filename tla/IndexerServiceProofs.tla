----------------------- MODULE IndexerServiceProofs -----------------------
(* What holds of the polling service of indexer.ts for every number of     *)
(* polls in flight, every page size, and any errors, stops and crashes.    *)
EXTENDS IndexerService, SequenceTheorems, TLAPS

\* The events up to k are in the tables.
RecordedUpTo(k) == \A i \in 1..k : Recorded(i)

Poll == [pc : {"off", "timer", "load", "fetch", "persist", "save"},
         cursor : 0..Len(chain), pos : 0..Len(chain), last : 0..Len(chain)]

\* How far the poll w has come: the cursor it goes by was stored or reached,
\* and the part of its page that is behind it is in the tables.
PollOK(w) ==
    /\ w \in Poll /\ RecordedUpTo(w.cursor)
    /\ w.pc = "persist" => w.pos < w.last
    /\ w.pc \in {"persist", "save"} => RecordedUpTo(w.pos)
    /\ w.pc = "save" => w.pos = w.last

PollsOK == \A q \in Polls : PollOK(poll[q])

\* The inductive invariant.
IndInv == TypeOK /\ RecordedBehindCursor /\ PollsOK

\* No step takes back an event or what was recorded of it.
Growing ==
    /\ Len(chain') \in Nat /\ Len(chain) <= Len(chain')
    /\ \A i \in 1..Len(chain) : chain'[i] = chain[i]
    /\ payments \subseteq payments'
    /\ \A p \in Pairs : subscriptions[p] # None => subscriptions'[p] # None

\* The log has a length, and events of known pairs.
LEMMA LogType ==
    ASSUME TypeOK
    PROVE  /\ Len(chain) \in Nat /\ DOMAIN chain = 1..Len(chain)
           /\ \A i \in 1..Len(chain) : chain[i] \in Event /\ chain[i].pair \in Pairs
<1>1. chain \in Seq(Event)
  BY DEF TypeOK
<1>2. Len(chain) \in Nat /\ DOMAIN chain = 1..Len(chain)
  BY <1>1, LenProperties
<1>3. ASSUME NEW i \in 1..Len(chain)
      PROVE  chain[i] \in Event
  BY <1>1, ElementOfSeq
<1>4. QED
  BY <1>2, <1>3 DEF Event

\* What is in the tables stays there.
LEMMA RecordedKept ==
    ASSUME TypeOK, Growing, NEW k \in 0..Len(chain), RecordedUpTo(k)
    PROVE  RecordedUpTo(k)'
<1> SUFFICES ASSUME NEW i \in 1..k
             PROVE  Recorded(i)'
  BY DEF RecordedUpTo
<1>1. i \in 1..Len(chain) /\ Recorded(i)
  BY LogType DEF RecordedUpTo
<1>2. chain'[i] = chain[i] /\ chain[i].pair \in Pairs
  BY <1>1, LogType DEF Growing
<1>3. QED
  BY <1>1, <1>2 DEF Recorded, Growing

\* What holds of a poll w goes on to hold while the tables grow.
LEMMA PollKept ==
    ASSUME TypeOK, Growing, NEW w, PollOK(w)
    PROVE  PollOK(w)'
<1>1. w \in Poll' /\ w.cursor \in 0..Len(chain) /\ w.pos \in 0..Len(chain)
  BY LogType DEF PollOK, Poll, Growing
<1>2. RecordedUpTo(w.cursor)' /\ (w.pc \in {"persist", "save"} => RecordedUpTo(w.pos)')
  BY <1>1, RecordedKept DEF PollOK
<1>3. QED
  BY <1>1, <1>2 DEF PollOK

\* A cursor that is not moved still has passed recorded events only.
LEMMA CursorKept ==
    ASSUME IndInv, Growing, UNCHANGED cursor
    PROVE  RecordedBehindCursor' /\ cursor' \in 0..Len(chain')
<1>1. PICK k : k = cursor
  OBVIOUS
<1>2. k \in 0..Len(chain) /\ RecordedUpTo(k)
  BY <1>1 DEF IndInv, TypeOK, RecordedBehindCursor, RecordedUpTo
<1>3. RecordedUpTo(k)'
  BY <1>2, RecordedKept DEF IndInv
<1>4. cursor' = k /\ k \in 0..Len(chain')
  BY <1>1, <1>2, LogType DEF Growing, IndInv
<1>5. QED
  BY <1>3, <1>4 DEF RecordedBehindCursor, RecordedUpTo

\* Only poll q moves, to w.
PollMoves(q, w) == poll' = [poll EXCEPT ![q] = w]

\* All polls keep what holds of them when one moves to a place that is right.
LEMMA PollsMove ==
    ASSUME IndInv, Growing, NEW q \in Polls, NEW w, PollMoves(q, w), PollOK(w)'
    PROVE  PollsOK' /\ poll' \in [Polls -> Poll']
<1>1. ASSUME NEW r \in Polls
      PROVE  PollOK(poll[r])'
  <2>1. PICK v : v = poll'[r]
    OBVIOUS
  <2>2. poll \in [Polls -> Poll] /\ TypeOK /\ PollOK(poll[r])
    BY DEF IndInv, TypeOK, Poll, PollsOK
  <2>3. PollOK(v)'
    <3>1. CASE r = q
      BY <2>1, <2>2, <3>1 DEF PollMoves
    <3>2. CASE r # q
      <4>1. PollOK(v)
        BY <2>1, <2>2, <3>2 DEF PollMoves
      <4>2. QED
        BY <2>2, <4>1, PollKept
    <3>3. QED
      BY <3>1, <3>2
  <2>4. QED
    BY <2>1, <2>3 DEF PollOK, RecordedUpTo, Poll
<1>2. DOMAIN poll' = Polls /\ poll' = [r \in Polls |-> poll'[r]]
  BY DEF PollMoves, IndInv, TypeOK
<1>3. QED
  BY <1>1, <1>2 DEF PollsOK, PollOK

\* The type invariant, but for the polls.
TablesOK ==
    /\ chain \in Seq(Event) /\ Len(chain) <= MAX_EVENTS
    /\ cursor \in 0..Len(chain)
    /\ subscriptions \in [Pairs -> {"active", "cancelled", None}]
    /\ payments \subseteq 1..Len(chain)
    /\ running \in BOOLEAN
    /\ pollTimer \in Polls \cup {None}
    /\ overlapped \in BOOLEAN
    /\ faults \in 0..MAX_FAULTS

\* The parts of the invariant.
LEMMA TablesType ==
    ASSUME IndInv
    PROVE  /\ TypeOK /\ TablesOK /\ PollsOK /\ RecordedBehindCursor
           /\ poll \in [Polls -> Poll]
  BY DEF IndInv, TypeOK, TablesOK, Poll

\* The invariant from its parts, after a step.
LEMMA Together ==
    ASSUME TablesOK', RecordedBehindCursor', poll' \in [Polls -> Poll'], PollsOK'
    PROVE  IndInv'
<1>1. TypeOK'
  BY DEF TypeOK, TablesOK, Poll, PollsOK, PollOK
<1>2. QED
  BY <1>1 DEF IndInv

\* A step that leaves log and tables alone takes nothing back.
LEMMA StillGrowing ==
    ASSUME IndInv, UNCHANGED <<chain, subscriptions, payments>>
    PROVE  Growing
  BY TablesType, LogType DEF Growing

\* All polls keep what holds of them when none moves.
LEMMA PollsStay ==
    ASSUME IndInv, Growing, UNCHANGED poll
    PROVE  PollsOK' /\ poll' \in [Polls -> Poll']
<1>1. ASSUME NEW r \in Polls
      PROVE  PollOK(poll[r])'
  <2>1. PICK v : v = poll[r]
    OBVIOUS
  <2>2. PollOK(v) /\ v = poll'[r]
    BY <2>1, TablesType DEF PollsOK
  <2>3. PollOK(v)'
    BY <2>2, TablesType, PollKept
  <2>4. QED
    BY <2>2, <2>3 DEF PollOK, RecordedUpTo, Poll
<1>2. poll' = [r \in Polls |-> poll'[r]]
  BY TablesType
<1>3. QED
  BY <1>1, <1>2 DEF PollsOK, PollOK

\* A poll that is over or waits for its timer.
LEMMA OffType ==
    ASSUME TypeOK, NEW c \in {"off", "timer"}
    PROVE  [Off EXCEPT !.pc = c] \in Poll /\ [Off EXCEPT !.pc = c].cursor = 0
           /\ [Off EXCEPT !.pc = c].pc = c /\ [Off EXCEPT !.pc = "off"] = Off
  BY LogType DEF Off, Poll

\* The end of a poll, whatever it has done.
LEMMA PollEnds ==
    ASSUME IndInv, NEW q \in Polls, poll_ends(q), Growing
    PROVE  PollsOK' /\ poll' \in [Polls -> Poll'] /\ pollTimer' \in Polls \cup {None}
<1>1. PICK c \in {"off", "timer"} : PollMoves(q, [Off EXCEPT !.pc = c])
  BY OffType, TablesType DEF poll_ends, PollMoves
<1>2. PICK w : w = [Off EXCEPT !.pc = c]
  OBVIOUS
<1>3. w \in Poll /\ RecordedUpTo(w.cursor) /\ w.pc \notin {"persist", "save"}
  BY <1>2, OffType, TablesType DEF RecordedUpTo
<1>4. PollOK(w)'
  BY <1>3, TablesType, PollKept DEF PollOK
<1>5. PollsOK' /\ poll' \in [Polls -> Poll']
  BY <1>1, <1>2, <1>4, PollsMove
<1>6. QED
  BY <1>5, TablesType DEF poll_ends, TablesOK

-----------------------------------------------------------------------------
(* One lemma per action.                                                   *)

LEMMA EmitOK ==
    ASSUME IndInv, emit
    PROVE  IndInv'
<1>1. PICK e \in Event : chain' = Append(chain, e)
  BY DEF emit
<1>2. /\ chain' \in Seq(Event) /\ Len(chain') = Len(chain) + 1
      /\ \A i \in 1..Len(chain) : chain'[i] = chain[i]
  BY <1>1, TablesType, AppendProperties DEF TablesOK
<1>3. Len(chain) \in Nat /\ Len(chain') <= MAX_EVENTS
  BY <1>2, TablesType, LogType, BoundsAssumption DEF emit
<1>4. Growing
  BY <1>2, <1>3 DEF emit, table_vars, Growing
<1>5. RecordedBehindCursor' /\ cursor' \in 0..Len(chain')
  BY <1>4, CursorKept DEF emit, table_vars
<1>6. PollsOK' /\ poll' \in [Polls -> Poll']
  BY <1>4, PollsStay DEF emit
<1>7. TablesOK'
  BY <1>2, <1>3, <1>5, TablesType DEF TablesOK, emit, table_vars
<1>8. QED
  BY <1>5, <1>6, <1>7, Together

LEMMA StartOK ==
    ASSUME IndInv, start
    PROVE  IndInv'
<1>1. PICK q \in Polls : /\ poll[q].pc = "off"
                         /\ poll' = [poll EXCEPT ![q].pc = "load"]
  BY DEF start
<1>2. PICK w : w = [poll[q] EXCEPT !.pc = "load"]
  OBVIOUS
<1>3. w \in Poll /\ w.cursor = poll[q].cursor /\ w.pc = "load" /\ PollOK(poll[q])
  BY <1>2, TablesType DEF Poll, PollsOK
<1>4. Growing /\ PollOK(w)'
  BY <1>3, StillGrowing, TablesType, PollKept DEF PollOK, start, table_vars
<1>5. PollMoves(q, w)
  BY <1>1, <1>2 DEF PollMoves
<1>6. PollsOK' /\ poll' \in [Polls -> Poll']
  BY <1>4, <1>5, PollsMove
<1>7. RecordedBehindCursor'
  BY <1>4, CursorKept DEF start, table_vars
<1>8. TablesOK'
  <2>1. overlapped' \in BOOLEAN /\ running' \in BOOLEAN
    BY Zenon DEF start
  <2>2. QED
    BY <2>1, TablesType DEF TablesOK, start, table_vars
<1>9. QED
  BY <1>6, <1>7, <1>8, Together

LEMMA StopOK ==
    ASSUME IndInv, stop
    PROVE  IndInv'
<1>1. Growing
  BY StillGrowing DEF stop, table_vars
<1>2. PollsOK' /\ poll' \in [Polls -> Poll']
  <2>1. CASE pollTimer # None /\ poll[pollTimer].pc = "timer"
    <3>1. pollTimer \in Polls /\ PollMoves(pollTimer, Off)
      BY <2>1, TablesType DEF stop, TablesOK, PollMoves
    <3>2. PICK w : w = Off
      OBVIOUS
    <3>3. w \in Poll /\ w.cursor = 0 /\ w.pc = "off"
      BY <3>2, OffType, TablesType
    <3>4. PollOK(w)'
      BY <1>1, <3>3, TablesType, PollKept DEF PollOK, RecordedUpTo
    <3>5. QED
      BY <1>1, <3>1, <3>2, <3>4, PollsMove
  <2>2. CASE ~(pollTimer # None /\ poll[pollTimer].pc = "timer")
    BY <1>1, <2>2, PollsStay DEF stop
  <2>3. QED
    BY <2>1, <2>2
<1>3. RecordedBehindCursor'
  BY <1>1, CursorKept DEF stop, table_vars
<1>4. TablesOK'
  <2>1. running' \in BOOLEAN
    BY Zenon DEF stop
  <2>2. QED
    BY <2>1, TablesType DEF TablesOK, stop, table_vars
<1>5. QED
  BY <1>2, <1>3, <1>4, Together

LEMMA CrashOK ==
    ASSUME IndInv, crash
    PROVE  IndInv'
<1>1. Growing
  BY StillGrowing DEF crash, table_vars
<1>2. PollsOK' /\ poll' \in [Polls -> Poll']
  <2>1. PICK w : w = Off
    OBVIOUS
  <2>2. w \in Poll /\ w.cursor = 0 /\ w.pc = "off"
    BY <2>1, OffType, TablesType
  <2>3. PollOK(w)'
    BY <1>1, <2>2, TablesType, PollKept DEF PollOK, RecordedUpTo
  <2>4. poll' = [q \in Polls |-> w]
    BY <2>1 DEF crash
  <2>5. QED
    BY <2>3, <2>4 DEF PollsOK, PollOK, RecordedUpTo, Poll
<1>3. RecordedBehindCursor'
  BY <1>1, CursorKept DEF crash, table_vars
<1>4. TablesOK'
  <2>1. running' \in BOOLEAN
    BY Zenon DEF crash
  <2>2. faults' \in 0..MAX_FAULTS
    BY TablesType, BoundsAssumption DEF crash, TablesOK
  <2>3. QED
    BY <2>1, <2>2, TablesType DEF TablesOK, crash, table_vars
<1>5. QED
  BY <1>2, <1>3, <1>4, Together

\* A poll q that goes to w, outside a page, with tables and timer left alone.
LEMMA QuietMove ==
    ASSUME IndInv, NEW q \in Polls, NEW w, PollMoves(q, w), PollOK(w),
           UNCHANGED <<chain, table_vars, running, pollTimer, overlapped, faults>>
    PROVE  IndInv'
<1>1. Growing
  BY StillGrowing DEF table_vars
<1>2. PollsOK' /\ poll' \in [Polls -> Poll']
  BY <1>1, TablesType, PollKept, PollsMove
<1>3. RecordedBehindCursor'
  BY <1>1, CursorKept DEF table_vars
<1>4. TablesOK'
  BY TablesType DEF TablesOK, table_vars
<1>5. QED
  BY <1>2, <1>3, <1>4, Together

LEMMA TimerOK ==
    ASSUME IndInv, NEW q \in Polls, timer_fires(q)
    PROVE  IndInv'
<1>1. PICK w : w = [poll[q] EXCEPT !.pc = IF running THEN "load" ELSE "off"]
  OBVIOUS
<1>2. /\ w \in Poll /\ w.cursor = poll[q].cursor /\ w.pc \in {"load", "off"}
      /\ PollOK(poll[q])
  BY <1>1, TablesType DEF Poll, PollsOK
<1>3. PollOK(w)
  BY <1>2 DEF PollOK
<1>4. PollMoves(q, w)
  BY <1>1 DEF PollMoves, timer_fires
<1>5. QED
  BY <1>3, <1>4, QuietMove DEF timer_fires

LEMMA LoadOK ==
    ASSUME IndInv, NEW q \in Polls, loadCursor(q)
    PROVE  IndInv'
<1>1. PICK w : w = [poll[q] EXCEPT !.pc = "fetch", !.cursor = cursor]
  OBVIOUS
<1>2. w \in Poll /\ w.cursor = cursor /\ w.pc = "fetch"
  BY <1>1, TablesType DEF Poll, TablesOK
<1>3. PollOK(w)
  BY <1>2, TablesType DEF PollOK, RecordedUpTo, RecordedBehindCursor
<1>4. PollMoves(q, w)
  BY <1>1, TablesType DEF PollMoves, loadCursor
<1>5. QED
  BY <1>3, <1>4, QuietMove DEF loadCursor

\* A page that is not empty ends behind its cursor and within the log.
LEMMA PageEnd ==
    ASSUME TypeOK, NEW c \in 0..Len(chain), c # Len(chain)
    PROVE  page_end(c) \in 0..Len(chain) /\ c < page_end(c)
<1>1. PICK n \in Nat : n = Len(chain)
  BY LogType
<1>2. PICK m \in Nat \ {0} : m = MAX_EVENTS_PER_PAGE
  BY BoundsAssumption
<1>3. page_end(c) = IF n - c > m THEN c + m ELSE n
  BY <1>1, <1>2 DEF page_end
<1>4. c \in 0..n /\ c # n
  BY <1>1
<1>5. QED
  BY <1>1, <1>3, <1>4

\* A poll that ends without a write.
LEMMA EndedOK ==
    ASSUME IndInv, NEW q \in Polls, poll_ends(q), faults' \in 0..MAX_FAULTS,
           UNCHANGED <<chain, table_vars, running, overlapped>>
    PROVE  IndInv'
<1>1. Growing
  BY StillGrowing DEF table_vars
<1>2. PollsOK' /\ poll' \in [Polls -> Poll'] /\ pollTimer' \in Polls \cup {None}
  BY <1>1, PollEnds
<1>3. RecordedBehindCursor'
  BY <1>1, CursorKept DEF table_vars
<1>4. TablesOK'
  BY <1>2, TablesType DEF TablesOK, table_vars
<1>5. QED
  BY <1>2, <1>3, <1>4, Together

LEMMA FetchOK ==
    ASSUME IndInv, NEW q \in Polls, fetchEventsPage(q)
    PROVE  IndInv'
<1>1. CASE poll[q].cursor = Len(chain)
  BY <1>1, EndedOK, TablesType DEF fetchEventsPage, TablesOK, table_vars
<1>2. CASE poll[q].cursor # Len(chain)
  <2>1. PICK c : c = poll[q].cursor
    OBVIOUS
  <2>2. c \in 0..Len(chain) /\ RecordedUpTo(c) /\ c # Len(chain)
    BY <1>2, <2>1, TablesType DEF Poll, PollsOK, PollOK
  <2>3. PICK w : w = [pc |-> "persist", cursor |-> c, pos |-> c, last |-> page_end(c)]
    OBVIOUS
  <2>4. PollOK(w)
    BY <2>2, <2>3, PageEnd, TablesType DEF PollOK, Poll
  <2>5. PollMoves(q, w)
    BY <1>2, <2>1, <2>3 DEF fetchEventsPage, PollMoves
  <2>6. QED
    BY <1>2, <2>4, <2>5, QuietMove DEF fetchEventsPage
<1>3. QED
  BY <1>1, <1>2

\* What an event does to the status of its pair: a row is never lost, and a
\* subscription gets one.
LEMMA StatusUpdated ==
    ASSUME NEW e \in Event, NEW s \in {"active", "cancelled", None}
    PROVE  /\ updated_status(e, s) \in {"active", "cancelled", None}
           /\ s # None => updated_status(e, s) # None
           /\ e.type = "subscribe" => updated_status(e, s) # None
<1>1. CASE e.type = "subscribe"
  BY <1>1, NoneAssumption DEF updated_status
<1>2. CASE e.type = "executed"
  BY <1>2, NoneAssumption DEF updated_status
<1>3. CASE e.type = "cancel"
  BY <1>3, NoneAssumption DEF updated_status
<1>4. CASE e.type \notin {"subscribe", "executed", "cancel"}
  BY <1>4, NoneAssumption DEF updated_status
<1>5. QED
  BY <1>1, <1>2, <1>3, <1>4

\* persistEvent takes nothing back and records the event in hand.
LEMMA PersistGrows ==
    ASSUME IndInv, NEW q \in Polls, persistEvent(q), NEW n, n = poll[q].pos + 1,
           NEW e, e = chain[n], n \in 1..Len(chain), e \in Event
    PROVE  /\ Growing
           /\ subscriptions' \in [Pairs -> {"active", "cancelled", None}]
           /\ e.type = "subscribe" => subscriptions'[e.pair] # None
<1>1. /\ subscriptions' = [subscriptions EXCEPT ![e.pair] = updated_status(e, @)]
      /\ payments \subseteq payments' /\ UNCHANGED chain
  BY DEF persistEvent, recordPayment
<1>2. subscriptions \in [Pairs -> {"active", "cancelled", None}] /\ e.pair \in Pairs
  BY TablesType DEF TablesOK, Event
<1>3. PICK u : u = updated_status(e, subscriptions[e.pair])
  OBVIOUS
<1>4. /\ u \in {"active", "cancelled", None}
      /\ subscriptions[e.pair] # None => u # None
      /\ e.type = "subscribe" => u # None
  BY <1>2, <1>3, StatusUpdated
<1>5. subscriptions' = [subscriptions EXCEPT ![e.pair] = u]
  BY <1>1, <1>3
<1>6. /\ subscriptions' \in [Pairs -> {"active", "cancelled", None}]
      /\ \A p \in Pairs : subscriptions[p] # None => subscriptions'[p] # None
      /\ e.type = "subscribe" => subscriptions'[e.pair] # None
  BY <1>2, <1>4, <1>5
<1>7. QED
  BY <1>1, <1>6, TablesType, LogType DEF Growing

LEMMA PersistOK ==
    ASSUME IndInv, NEW q \in Polls, persistEvent(q)
    PROVE  IndInv'
<1>1. PICK w : w = poll[q]
  OBVIOUS
<1>2. PICK n : n = w.pos + 1
  OBVIOUS
<1>3. PICK e : e = chain[n]
  OBVIOUS
<1>4. /\ w \in Poll /\ w.pc = "persist" /\ PollOK(w) /\ RecordedUpTo(w.pos)
      /\ w.pos \in 0..Len(chain) /\ w.last \in 0..Len(chain) /\ w.pos < w.last
  BY <1>1, TablesType DEF PollsOK, PollOK, Poll, persistEvent
<1>5. /\ n \in 1..Len(chain) /\ n <= w.last /\ Len(chain) \in Nat
      /\ e \in Event /\ e.pair \in Pairs
  BY <1>2, <1>3, <1>4, TablesType, LogType
<1>6. /\ subscriptions' = [subscriptions EXCEPT ![e.pair] = updated_status(e, @)]
      /\ payments' = IF e.type \in PaymentTypes THEN payments \cup {n} ELSE payments
      /\ UNCHANGED <<chain, cursor, running, pollTimer, overlapped, faults>>
  BY <1>1, <1>2, <1>3 DEF persistEvent, recordPayment
<1>7. /\ subscriptions' \in [Pairs -> {"active", "cancelled", None}]
      /\ e.type = "subscribe" => subscriptions'[e.pair] # None
      /\ Growing
  BY <1>1, <1>2, <1>3, <1>5, PersistGrows
<1>8. Growing
  BY <1>7
<1>9. RecordedUpTo(n)'
  <2>1. RecordedUpTo(n - 1)'
    BY <1>2, <1>4, <1>8, TablesType, RecordedKept
  <2>2. Recorded(n)'
    BY <1>3, <1>6, <1>7 DEF Recorded
  <2>3. \A i \in 1..n : i \in 1..(n - 1) \/ i = n
    BY <1>5
  <2>4. QED
    BY <2>1, <2>2, <2>3 DEF RecordedUpTo
<1>10. PICK v : v = [w EXCEPT !.pos = n, !.pc = IF n = w.last THEN "save" ELSE "persist"]
  OBVIOUS
<1>11. PollMoves(q, v)
  BY <1>1, <1>2, <1>10, TablesType DEF persistEvent, PollMoves
<1>12. /\ v \in Poll /\ v.cursor = w.cursor /\ v.pos = n /\ v.last = w.last
       /\ v.pc = IF n = w.last THEN "save" ELSE "persist"
  <2>1. PICK c \in {"save", "persist"} : c = IF n = w.last THEN "save" ELSE "persist"
    OBVIOUS
  <2>2. v = [w EXCEPT !.pos = n, !.pc = c] /\ n \in 0..Len(chain)
    BY <1>5, <1>10, <2>1
  <2>3. QED
    BY <1>4, <2>1, <2>2 DEF Poll
<1>13. RecordedUpTo(w.cursor)'
  BY <1>4, <1>8, TablesType, PollKept DEF PollOK
<1>14. v \in Poll'
  BY <1>6, <1>12 DEF Poll
<1>15. PollOK(v)'
  BY <1>4, <1>5, <1>9, <1>12, <1>13, <1>14 DEF PollOK
<1>16. PollsOK' /\ poll' \in [Polls -> Poll']
  BY <1>8, <1>11, <1>15, PollsMove
<1>17. RecordedBehindCursor'
  BY <1>6, <1>8, CursorKept
<1>18. TablesOK'
  BY <1>5, <1>6, <1>7, TablesType DEF TablesOK
<1>19. QED
  BY <1>16, <1>17, <1>18, Together

LEMMA SaveOK ==
    ASSUME IndInv, NEW q \in Polls, saveCursor(q)
    PROVE  IndInv'
<1>1. PICK w : w = poll[q]
  OBVIOUS
<1>2. PICK k : k = w.last
  OBVIOUS
<1>3. w \in Poll /\ k \in 0..Len(chain) /\ RecordedUpTo(k) /\ w.pc = "save"
  BY <1>1, <1>2, TablesType DEF PollsOK, PollOK, Poll, saveCursor
<1>4. cursor' = k /\ UNCHANGED <<chain, subscriptions, payments, running, overlapped, faults>>
  BY <1>1, <1>2 DEF saveCursor
<1>5. Growing
  BY <1>4, StillGrowing
<1>6. RecordedUpTo(k)'
  BY <1>3, <1>5, TablesType, RecordedKept
<1>7. RecordedBehindCursor'
  BY <1>4, <1>6 DEF RecordedBehindCursor, RecordedUpTo
<1>8. PollsOK' /\ poll' \in [Polls -> Poll'] /\ pollTimer' \in Polls \cup {None}
  <2>1. CASE poll_ends(q)
    BY <1>5, <2>1, PollEnds
  <2>2. CASE poll' = [poll EXCEPT ![q].pc = "fetch", ![q].cursor = k] /\ UNCHANGED pollTimer
    <3>1. PICK v : v = [w EXCEPT !.pc = "fetch", !.cursor = k]
      OBVIOUS
    <3>2. v \in Poll /\ v.pc = "fetch" /\ v.cursor = k
      BY <1>3, <3>1 DEF Poll
    <3>3. PollOK(v)'
      BY <1>3, <1>5, <3>2, TablesType, PollKept DEF PollOK
    <3>4. PollMoves(q, v)
      BY <1>1, <2>2, <3>1, TablesType DEF PollMoves
    <3>5. QED
      BY <1>5, <2>2, <3>3, <3>4, PollsMove, TablesType DEF TablesOK
  <2>3. QED
    BY <1>1, <1>2, <2>1, <2>2 DEF saveCursor
<1>9. TablesOK'
  BY <1>3, <1>4, <1>8, TablesType DEF TablesOK
<1>10. QED
  BY <1>7, <1>8, <1>9, Together

LEMMA ErrorOK ==
    ASSUME IndInv, NEW q \in Polls, poll_error(q)
    PROVE  IndInv'
<1>1. faults' \in 0..MAX_FAULTS
  BY TablesType, BoundsAssumption DEF poll_error, TablesOK
<1>2. QED
  BY <1>1, EndedOK DEF poll_error

LEMMA InitOK ==
    ASSUME Init
    PROVE  IndInv
<1>1. chain \in Seq(Event) /\ Len(chain) = 0
  BY EmptySeq DEF Init
<1>2. /\ cursor \in 0..Len(chain) /\ payments \subseteq 1..Len(chain)
      /\ faults \in 0..MAX_FAULTS /\ pollTimer \in Polls \cup {None}
      /\ subscriptions \in [Pairs -> {"active", "cancelled", None}]
      /\ Len(chain) <= MAX_EVENTS
  BY <1>1, BoundsAssumption DEF Init
<1>3. overlapped \in BOOLEAN /\ running \in BOOLEAN
  BY Zenon DEF Init
<1>4. poll \in [Polls -> Poll] /\ \A q \in Polls : poll[q] = Off
  BY <1>1 DEF Init, Poll, Off
<1>5. TypeOK
  BY <1>1, <1>2, <1>3, <1>4 DEF TypeOK, Poll, Off
<1>6. RecordedBehindCursor /\ PollsOK
  BY <1>4 DEF Init, RecordedBehindCursor, PollsOK, PollOK, RecordedUpTo, Off
<1>7. QED
  BY <1>5, <1>6 DEF IndInv

LEMMA StepOK ==
    ASSUME IndInv, [Next]_vars
    PROVE  IndInv'
<1>1. CASE emit
  BY <1>1, EmitOK
<1>2. CASE start
  BY <1>2, StartOK
<1>3. CASE stop
  BY <1>3, StopOK
<1>4. CASE crash
  BY <1>4, CrashOK
<1>5. ASSUME NEW q \in Polls, poll_step(q)
      PROVE  IndInv'
  BY <1>5, TimerOK, LoadOK, FetchOK, PersistOK, SaveOK
     DEF poll_step
<1>6. ASSUME NEW q \in Polls, poll_error(q)
      PROVE  IndInv'
  BY <1>6, ErrorOK
<1>7. CASE UNCHANGED vars
  <2>1. UNCHANGED poll /\ UNCHANGED cursor /\ Growing
    BY <1>7, StillGrowing DEF vars, table_vars
  <2>2. PollsOK' /\ poll' \in [Polls -> Poll'] /\ RecordedBehindCursor'
    BY <2>1, PollsStay, CursorKept
  <2>3. TablesOK'
    BY <1>7, TablesType DEF TablesOK, vars, table_vars
  <2>4. QED
    BY <2>2, <2>3, Together
<1>8. QED
  BY <1>1, <1>2, <1>3, <1>4, <1>5, <1>6, <1>7 DEF Next

\* The inductive invariant of the service holds: every poll in flight has
\* recorded what lies behind the cursor it goes by and behind its place in
\* its page.
THEOREM Invariance == Spec => []IndInv
<1>1. Init => IndInv
  BY InitOK
<1>2. IndInv /\ [Next]_vars => IndInv'
  BY StepOK
<1>3. QED
  BY <1>1, <1>2, PTL DEF Spec

\* Rows, cursors and pages of the service keep their types, however many
\* polls overlap: none works behind the end of its page or of the log.
THEOREM TypeCorrect == Spec => []TypeOK
<1>1. IndInv => TypeOK
  BY DEF IndInv
<1>2. QED
  BY <1>1, Invariance, PTL

\* The service loses no event: all that its stored cursor has passed is in
\* the tables, whatever errors and crashes cut pages short and in whatever
\* order any number of overlapping polls store their cursors.
THEOREM RecordedBehindCursorHolds == Spec => []RecordedBehindCursor
<1>1. IndInv => RecordedBehindCursor
  BY DEF IndInv
<1>2. QED
  BY <1>1, Invariance, PTL

-----------------------------------------------------------------------------
(* The service implements EventMirror.                                     *)

\* Recorded events stay recorded, and are events of the log.
LEMMA RecordedGrow ==
    ASSUME TypeOK, Growing
    PROVE  RecordedEvents \subseteq RecordedEvents' /\ RecordedEvents' \subseteq 1..Len(chain')
<1>1. ASSUME NEW i \in RecordedEvents
      PROVE  i \in RecordedEvents'
  <2>1. i \in 1..Len(chain) /\ Recorded(i)
    BY <1>1 DEF RecordedEvents
  <2>2. chain'[i] = chain[i] /\ chain[i].pair \in Pairs /\ i \in 1..Len(chain')
    BY <2>1, LogType DEF Growing
  <2>3. Recorded(i)'
    BY <2>1, <2>2 DEF Recorded, Growing
  <2>4. QED
    BY <2>2, <2>3 DEF RecordedEvents
<1>2. QED
  BY <1>1 DEF RecordedEvents

\* A step that moves neither the log nor the cursor handles events.
LEMMA StepHandles ==
    ASSUME IndInv, Growing, UNCHANGED <<chain, cursor>>
    PROVE  Mirror!Handle
<1>1. RecordedEvents \subseteq RecordedEvents' /\ RecordedEvents' \subseteq 1..Len(chain)
  BY RecordedGrow DEF IndInv
<1>2. QED
  BY <1>1 DEF Mirror!Handle

\* The empty log is mirrored.
LEMMA MirrorInit ==
    ASSUME Init
    PROVE  Mirror!Init
<1>1. Len(chain) = 0 /\ 1..0 = {}
  BY DEF Init
<1>2. QED
  BY <1>1 DEF Init, Mirror!Init, RecordedEvents

\* Every step of the service is one of the mirror.
LEMMA MirrorStep ==
    ASSUME IndInv, [Next]_vars
    PROVE  [Mirror!Next]_<<Len(chain), RecordedEvents, cursor>>
<1>1. CASE emit
  <2>1. PICK e \in Event : chain' = Append(chain, e)
    BY <1>1 DEF emit
  <2>2. /\ Len(chain') = Len(chain) + 1 /\ Len(chain) \in Nat
        /\ \A i \in 1..Len(chain) : chain'[i] = chain[i]
    BY <2>1, TablesType, LogType, AppendProperties DEF TablesOK
  <2>3. Growing
    BY <1>1, <2>2 DEF emit, table_vars, Growing
  <2>4. RecordedEvents \subseteq RecordedEvents' /\ RecordedEvents' \subseteq 1..Len(chain')
    BY <2>3, RecordedGrow DEF IndInv
  <2>5. Mirror!Emit
    BY <1>1, <2>2, <2>4 DEF emit, table_vars, Mirror!Emit
  <2>6. QED
    BY <2>5 DEF Mirror!Next
<1>2. ASSUME NEW q \in Polls, persistEvent(q)
      PROVE  Mirror!Next
  <2>1. PICK w : w = poll[q]
    OBVIOUS
  <2>2. w.pos \in 0..Len(chain) /\ w.last \in 0..Len(chain) /\ w.pos < w.last
    BY <1>2, <2>1, TablesType DEF PollsOK, PollOK, Poll, persistEvent
  <2>3. w.pos + 1 \in 1..Len(chain) /\ chain[w.pos + 1] \in Event
    BY <2>2, TablesType, LogType
  <2>4. Growing
    BY <1>2, <2>1, <2>3, PersistGrows
  <2>5. UNCHANGED <<chain, cursor>>
    BY <1>2 DEF persistEvent
  <2>6. QED
    BY <2>4, <2>5, StepHandles DEF Mirror!Next
<1>3. ASSUME NEW q \in Polls, saveCursor(q)
      PROVE  Mirror!Next
  <2>1. PICK k : k = poll[q].last
    OBVIOUS
  <2>2. k \in 0..Len(chain) /\ RecordedUpTo(k)
    BY <1>3, <2>1, TablesType DEF PollsOK, PollOK, Poll, saveCursor
  <2>3. 1..k \subseteq RecordedEvents
    BY <2>2, TablesType, LogType DEF RecordedUpTo, RecordedEvents
  <2>4. cursor' = k /\ UNCHANGED <<chain, subscriptions, payments>>
    BY <1>3, <2>1 DEF saveCursor
  <2>5. RecordedEvents' = RecordedEvents
    BY <2>4 DEF RecordedEvents, Recorded
  <2>6. Mirror!Acknowledge(k)
    BY <2>3, <2>4, <2>5 DEF Mirror!Acknowledge
  <2>7. QED
    BY <2>2, <2>6 DEF Mirror!Next
<1>4. ASSUME UNCHANGED <<chain, table_vars>>
      PROVE  UNCHANGED <<Len(chain), RecordedEvents, cursor>>
  BY <1>4 DEF table_vars, RecordedEvents, Recorded
<1>5. ASSUME NEW q \in Polls,
             timer_fires(q) \/ loadCursor(q) \/ fetchEventsPage(q) \/ poll_error(q)
      PROVE  UNCHANGED <<chain, table_vars>>
  BY <1>5 DEF timer_fires, loadCursor, fetchEventsPage, poll_error
<1>6. CASE start \/ stop \/ crash \/ UNCHANGED vars
  BY <1>4, <1>6 DEF start, stop, crash, vars
<1>7. QED
  BY <1>1, <1>2, <1>3, <1>4, <1>5, <1>6 DEF Next, poll_step

\* The polling service implements EventMirror: however polls overlap, fail
\* and are cut short, what was recorded of an event stays, and the cursor is
\* stored only where everything behind it is recorded.
THEOREM MirrorRefinement == Spec => ImplementsMirror
<1>1. IndInv /\ [Next]_vars => [Mirror!Next]_<<Len(chain), RecordedEvents, cursor>>
  BY MirrorStep
<1>2. Spec => Mirror!Init /\ [][Mirror!Next]_<<Len(chain), RecordedEvents, cursor>>
  BY <1>1, MirrorInit, Invariance, PTL DEF Spec
<1>3. QED
  BY <1>2 DEF ImplementsMirror, Mirror!Spec

-----------------------------------------------------------------------------
(* A service that has caught up mirrors the contract.                      *)

\* What is known of a pair's row when the log up to k was handled since the
\* last start from the cursor: it has the status of some later place of the
\* log, from which a page was cut short, or any status, when a subscribe
\* event to come will overwrite it.
Behind(p, k) ==
    \/ \E h \in k..Len(chain) : subscriptions[p] = StatusAt(p, h)
    \/ \E s \in (k + 1)..Len(chain) : chain[s].pair = p /\ chain[s].type = "subscribe"

Paging == {"persist", "save"}

\* One poll at a time, which goes by the stored cursor.
Alone == \A q, r \in Polls : poll[q].pc # "off" /\ poll[r].pc # "off" => q = r
InStep ==
    \A q \in Polls : /\ poll[q].pc \in {"fetch"} \cup Paging => poll[q].cursor = cursor
                     /\ poll[q].pc \in Paging => cursor <= poll[q].pos
StatusOK ==
    \A p \in Pairs : /\ Behind(p, cursor)
                     /\ \A q \in Polls : poll[q].pc \in Paging => Behind(p, poll[q].pos)

\* The inductive invariant, on top of IndInv.
MirrorInv == ~overlapped => Alone /\ InStep /\ StatusOK

\* What the first events say does not change when more come.
LEMMA StatusKept ==
    ASSUME TypeOK, Growing, NEW p, NEW h \in 0..Len(chain)
    PROVE  StatusAt(p, h)' = StatusAt(p, h)
<1>1. Len(chain) \in Nat /\ \A i \in 1..h : chain'[i] = chain[i]
  BY LogType DEF Growing
<1>2. Subscribed(p, h)' = Subscribed(p, h)
  BY <1>1 DEF Subscribed
<1>3. ASSUME NEW i \in 1..h
      PROVE  \A j \in (i + 1)..h : chain'[j] = chain[j]
  BY <1>1
<1>4. Cancelled(p, h)' = Cancelled(p, h)
  BY <1>1, <1>3 DEF Cancelled
<1>5. QED
  BY <1>2, <1>4 DEF StatusAt

\* A step that leaves the rows alone.
LEMMA BehindKept ==
    ASSUME TypeOK, Growing, UNCHANGED subscriptions, NEW p, NEW k \in 0..Len(chain),
           Behind(p, k)
    PROVE  Behind(p, k)'
<1>1. Len(chain) \in Nat /\ Len(chain') \in Nat /\ Len(chain) <= Len(chain')
  BY LogType DEF Growing
<1>2. CASE \E h \in k..Len(chain) : subscriptions[p] = StatusAt(p, h)
  <2>1. PICK h \in k..Len(chain) : subscriptions[p] = StatusAt(p, h)
    BY <1>2
  <2>2. h \in 0..Len(chain) /\ h \in k..Len(chain')
    BY <1>1, <2>1
  <2>3. subscriptions'[p] = StatusAt(p, h)'
    BY <2>1, <2>2, StatusKept
  <2>4. QED
    BY <2>2, <2>3 DEF Behind
<1>3. CASE \E s \in (k + 1)..Len(chain) : chain[s].pair = p /\ chain[s].type = "subscribe"
  <2>1. PICK s \in (k + 1)..Len(chain) : chain[s].pair = p /\ chain[s].type = "subscribe"
    BY <1>3
  <2>2. s \in (k + 1)..Len(chain') /\ s \in 1..Len(chain)
    BY <1>1, <2>1
  <2>3. chain'[s] = chain[s]
    BY <2>2 DEF Growing
  <2>4. QED
    BY <2>1, <2>2, <2>3 DEF Behind
<1>4. QED
  BY <1>2, <1>3 DEF Behind

\* A page that is cut short is handled again from its beginning.
LEMMA BehindEarlier ==
    ASSUME TypeOK, NEW p, NEW k \in 0..Len(chain), Behind(p, k), NEW j \in 0..k
    PROVE  Behind(p, j)
<1>1. Len(chain) \in Nat
  BY LogType
<1>2. k..Len(chain) \subseteq j..Len(chain) /\ (k + 1)..Len(chain) \subseteq (j + 1)..Len(chain)
  BY <1>1
<1>3. QED
  BY <1>2 DEF Behind

\* What one more event says.
LEMMA StatusNext ==
    ASSUME TypeOK, NEW n \in 1..Len(chain), NEW p, NEW e, e = chain[n]
    PROVE  /\ e.pair # p \/ e.type \notin {"subscribe", "executed", "cancel"}
                => StatusAt(p, n) = StatusAt(p, n - 1)
           /\ e.pair = p /\ e.type = "subscribe" => StatusAt(p, n) = "active"
           /\ e.pair = p /\ e.type = "executed" /\ Subscribed(p, n) => StatusAt(p, n) = "active"
           /\ e.pair = p /\ e.type = "cancel" /\ Subscribed(p, n) => StatusAt(p, n) = "cancelled"
           /\ Subscribed(p, n) <=> \/ Subscribed(p, n - 1)
                                   \/ e.pair = p /\ e.type = "subscribe"
<1>1. n \in Nat /\ \A i : i \in 1..n <=> i \in 1..(n - 1) \/ i = n
  BY LogType
<1>2. Subscribed(p, n) <=> \/ Subscribed(p, n - 1)
                           \/ e.pair = p /\ e.type = "subscribe"
  BY <1>1 DEF Subscribed
<1>3. \A i \in 1..(n - 1) : \A j : j \in (i + 1)..n <=> j \in (i + 1)..(n - 1) \/ j = n
  BY <1>1
<1>4. ASSUME e.pair # p \/ e.type \notin {"subscribe", "executed", "cancel"}
      PROVE  Cancelled(p, n) <=> Cancelled(p, n - 1)
  BY <1>1, <1>3, <1>4 DEF Cancelled
<1>5. ASSUME e.pair = p, e.type \in {"subscribe", "executed"}
      PROVE  ~Cancelled(p, n)
  <2> SUFFICES ASSUME NEW i \in 1..n, chain[i].type = "cancel",
                      \A j \in (i + 1)..n :
                         chain[j].pair = p => chain[j].type \notin {"subscribe", "executed"}
               PROVE  FALSE
    BY DEF Cancelled
  <2>1. CASE i = n
    BY <1>5, <2>1
  <2>2. CASE i \in 1..(n - 1)
    BY <1>1, <1>3, <1>5, <2>2
  <2>3. QED
    BY <1>1, <2>1, <2>2
<1>6. ASSUME e.pair = p, e.type = "cancel"
      PROVE  Cancelled(p, n)
  <2>1. n \in 1..n /\ (n + 1)..n = {}
    BY <1>1
  <2>2. QED
    BY <1>6, <2>1 DEF Cancelled
<1>7. QED
  BY <1>2, <1>4, <1>5, <1>6 DEF StatusAt

\* persistEvent moves on by one event: a row ends with the status of the new
\* place, or of a later one it has already seen, or waits for a subscribe
\* event that the poll has still to come to.
LEMMA PersistBehind ==
    ASSUME TypeOK, UNCHANGED chain, NEW n \in 1..Len(chain), NEW e, e = chain[n],
           subscriptions' = [subscriptions EXCEPT ![e.pair] = updated_status(e, @)],
           NEW p \in Pairs, Behind(p, n - 1)
    PROVE  Behind(p, n)'
<1>1. Len(chain) \in Nat /\ n \in Nat /\ n \in n..Len(chain)
  BY LogType
<1>2. subscriptions'[p] = IF e.pair = p THEN updated_status(e, subscriptions[p])
                                        ELSE subscriptions[p]
  BY DEF TypeOK
<1>3. \A h : StatusAt(p, h)' = StatusAt(p, h)
  BY DEF StatusAt, Subscribed, Cancelled
<1>4. ASSUME NEW h \in n..Len(chain), subscriptions'[p] = StatusAt(p, h)
      PROVE  Behind(p, n)'
  BY <1>3, <1>4 DEF Behind
<1>5. ASSUME NEW s \in (n + 1)..Len(chain), chain[s].pair = p, chain[s].type = "subscribe"
      PROVE  Behind(p, n)'
  BY <1>5 DEF Behind
<1>6. CASE e.pair = p /\ e.type = "subscribe"
  <2>1. subscriptions'[p] = "active"
    BY <1>2, <1>6 DEF updated_status
  <2>2. StatusAt(p, n) = "active"
    BY <1>6, StatusNext
  <2>3. QED
    BY <1>1, <1>4, <2>1, <2>2
<1>7. CASE ~(e.pair = p /\ e.type = "subscribe")
           /\ \E s \in n..Len(chain) : chain[s].pair = p /\ chain[s].type = "subscribe"
  <2>1. PICK s \in n..Len(chain) : chain[s].pair = p /\ chain[s].type = "subscribe"
    BY <1>7
  <2>2. s \in (n + 1)..Len(chain)
    BY <1>1, <1>7, <2>1
  <2>3. QED
    BY <1>5, <2>1, <2>2
<1>8. CASE /\ ~(e.pair = p /\ e.type = "subscribe")
           /\ \A s \in n..Len(chain) : ~(chain[s].pair = p /\ chain[s].type = "subscribe")
  <2>1. PICK h \in (n - 1)..Len(chain) : subscriptions[p] = StatusAt(p, h)
    <3>1. (n - 1) + 1 = n
      BY <1>1
    <3>2. QED
      BY <1>8, <3>1 DEF Behind
  <2>2. Subscribed(p, h) <=> Subscribed(p, n - 1)
    <3>1. \A i : i \in 1..(n - 1) => i \in 1..h
      BY <1>1, <2>1
    <3>2. \A i : i \in 1..h => i \in 1..(n - 1) \/ i \in n..Len(chain)
      BY <1>1, <2>1
    <3>3. QED
      BY <1>8, <3>1, <3>2 DEF Subscribed
  <2>3. Subscribed(p, n) <=> Subscribed(p, n - 1)
    BY <1>8, StatusNext
  <2>4. subscriptions[p] # None <=> Subscribed(p, n)
    BY <2>1, <2>2, <2>3, NoneAssumption DEF StatusAt
  <2>5. CASE e.pair # p \/ e.type \notin {"executed", "cancel"}
    <3>1. subscriptions'[p] = subscriptions[p]
      BY <1>2, <1>8, <2>5 DEF updated_status
    <3>2. CASE h = n - 1
      <4>1. StatusAt(p, n) = StatusAt(p, n - 1)
        BY <1>8, <2>5, StatusNext
      <4>2. QED
        BY <1>1, <1>4, <2>1, <3>1, <3>2, <4>1
    <3>3. CASE h # n - 1
      <4>1. h \in n..Len(chain)
        BY <1>1, <2>1, <3>3
      <4>2. QED
        BY <1>4, <2>1, <3>1, <4>1
    <3>4. QED
      BY <3>2, <3>3
  <2>6. CASE e.pair = p /\ e.type \in {"executed", "cancel"} /\ subscriptions[p] = None
    <3>1. subscriptions'[p] = None
      BY <1>2, <2>6 DEF updated_status
    <3>2. StatusAt(p, n) = None
      BY <2>4, <2>6 DEF StatusAt
    <3>3. QED
      BY <1>1, <1>4, <3>1, <3>2
  <2>7. CASE e.pair = p /\ e.type = "executed" /\ subscriptions[p] # None
    <3>1. subscriptions'[p] = "active"
      BY <1>2, <2>7 DEF updated_status
    <3>2. StatusAt(p, n) = "active"
      BY <2>4, <2>7, StatusNext
    <3>3. QED
      BY <1>1, <1>4, <3>1, <3>2
  <2>8. CASE e.pair = p /\ e.type = "cancel" /\ subscriptions[p] # None
    <3>1. subscriptions'[p] = "cancelled"
      BY <1>2, <2>8 DEF updated_status
    <3>2. StatusAt(p, n) = "cancelled"
      BY <2>4, <2>8, StatusNext
    <3>3. QED
      BY <1>1, <1>4, <3>1, <3>2
  <2>9. QED
    BY <2>5, <2>6, <2>7, <2>8
<1>9. QED
  BY <1>6, <1>7, <1>8

\* How a step may change a poll that leaves the tables alone.
Restarted(q) ==
    \/ poll'[q] = poll[q]
    \/ poll'[q].pc \notin {"fetch"} \cup Paging
    \/ /\ poll'[q].pc \in {"fetch", "persist"} /\ poll'[q].cursor = cursor
       /\ poll'[q].pc = "persist" => poll'[q].pos = cursor

\* A step that leaves rows and cursor alone: events come, polls begin and end.
LEMMA QuietMirror ==
    ASSUME IndInv, Alone', InStep, StatusOK, Growing, UNCHANGED table_vars,
           \A q \in Polls : Restarted(q)
    PROVE  Alone' /\ InStep' /\ StatusOK'
<1>1. /\ TypeOK /\ cursor \in 0..Len(chain) /\ Len(chain) \in Nat
      /\ \A q \in Polls : poll[q] \in Poll /\ poll[q].pos \in 0..Len(chain)
  BY TablesType, LogType DEF TablesOK, Poll, IndInv, PollsOK
<1>2. UNCHANGED <<cursor, subscriptions>>
  BY DEF table_vars
<1>3. InStep'
  BY <1>1, <1>2 DEF InStep, Restarted, Paging
<1>4. \A p \in Pairs : Behind(p, cursor)'
  BY <1>1, <1>2, BehindKept DEF StatusOK
<1>5. ASSUME NEW p \in Pairs, NEW q \in Polls, poll'[q].pc \in Paging
      PROVE  Behind(p, poll[q].pos)'
  <2>1. PICK k : k = poll'[q].pos
    OBVIOUS
  <2>2. k \in 0..Len(chain) /\ Behind(p, k)
    BY <1>1, <1>5, <2>1 DEF Restarted, StatusOK, Paging
  <2>3. Behind(p, k)'
    BY <1>1, <1>2, <2>2, BehindKept
  <2>4. QED
    BY <2>1, <2>3
<1>6. QED
  BY <1>2, <1>3, <1>4, <1>5 DEF StatusOK

\* A poll alone stays alone when no other one begins.
LEMMA AloneKept ==
    ASSUME Alone, \A q \in Polls : poll'[q].pc # "off" => poll[q].pc # "off"
    PROVE  Alone'
BY DEF Alone

\* A poll that ends is off or waits for its timer.
LEMMA EndedAs ==
    ASSUME IndInv, NEW q \in Polls, poll_ends(q)
    PROVE  \E w : w.pc \in {"off", "timer"}
                  /\ \A r \in Polls : poll'[r] = IF r = q THEN w ELSE poll[r]
<1>1. poll \in [Polls -> Poll]
  BY TablesType
<1>2. PICK x, y : x = Off /\ y = [Off EXCEPT !.pc = "timer"]
  OBVIOUS
<1>3. x.pc = "off" /\ y.pc = "timer"
  BY <1>2 DEF Off
<1>4. poll' = [poll EXCEPT ![q] = x] \/ poll' = [poll EXCEPT ![q] = y]
  BY <1>2 DEF poll_ends
<1>5. QED
  BY <1>1, <1>3, <1>4

\* The end of a poll.
LEMMA EndsAlone ==
    ASSUME IndInv, Alone, NEW q \in Polls, poll[q].pc # "off", poll_ends(q)
    PROVE  Alone' /\ \A r \in Polls : Restarted(r)
<1>1. PICK w : w.pc \in {"off", "timer"}
               /\ \A r \in Polls : poll'[r] = IF r = q THEN w ELSE poll[r]
  BY EndedAs
<1>2. \A r \in Polls : Restarted(r)
  BY <1>1 DEF Restarted, Paging
<1>3. QED
  BY <1>1, <1>2, AloneKept

\* The contract, start(), stop() and crashes.
LEMMA ServiceMirror ==
    ASSUME IndInv, Alone, InStep, StatusOK, ~overlapped',
           emit \/ start \/ stop \/ crash \/ UNCHANGED vars
    PROVE  Alone' /\ InStep' /\ StatusOK'
<1>1. poll \in [Polls -> Poll] /\ Off.pc = "off"
  BY TablesType, OffType
<1>2. CASE emit
  <2>1. PICK e \in Event : chain' = Append(chain, e)
    BY <1>2 DEF emit
  <2>2. /\ Len(chain') = Len(chain) + 1 /\ Len(chain) \in Nat
        /\ \A i \in 1..Len(chain) : chain'[i] = chain[i]
    BY <2>1, TablesType, LogType, AppendProperties DEF TablesOK
  <2>3. Growing /\ UNCHANGED <<table_vars, poll>>
    BY <1>2, <2>2 DEF emit, table_vars, Growing
  <2>4. Alone' /\ \A q \in Polls : Restarted(q)
    BY <2>3 DEF Alone, Restarted
  <2>5. QED
    BY <2>3, <2>4, QuietMirror
<1>3. CASE ~emit
  <2>1. UNCHANGED <<chain, table_vars>>
    BY <1>3 DEF start, stop, crash, vars
  <2>2. Growing
    BY <2>1, StillGrowing DEF table_vars
  <2>3. CASE start
    <3>1. PICK q \in Polls : poll' = [poll EXCEPT ![q].pc = "load"]
      BY <2>3 DEF start
    <3>2. \A r \in Polls : poll[r].pc = "off"
      BY <2>3 DEF start
    <3>3. poll'[q].pc = "load" /\ \A r \in Polls : r # q => poll'[r] = poll[r]
      BY <1>1, <3>1 DEF Poll
    <3>4. Alone' /\ \A r \in Polls : Restarted(r)
      BY <3>2, <3>3 DEF Alone, Restarted, Paging
    <3>5. QED
      BY <2>1, <2>2, <3>4, QuietMirror
  <2>4. CASE stop \/ crash \/ UNCHANGED vars
    <3>1. \A r \in Polls : poll'[r] = poll[r] \/ poll'[r] = Off
      BY <1>1, <2>4 DEF stop, crash, vars
    <3>2. Alone' /\ \A r \in Polls : Restarted(r)
      BY <1>1, <3>1, AloneKept DEF Restarted, Paging
    <3>3. QED
      BY <2>1, <2>2, <3>2, QuietMirror
  <2>5. QED
    BY <1>3, <2>3, <2>4
<1>4. QED
  BY <1>2, <1>3

\* The steps of poll() that write nothing: its timer, loadCursor,
\* fetchEventsPage and the errors.
LEMMA ReadMirror ==
    ASSUME IndInv, Alone, InStep, StatusOK, NEW q \in Polls,
           timer_fires(q) \/ loadCursor(q) \/ fetchEventsPage(q) \/ poll_error(q)
    PROVE  Alone' /\ InStep' /\ StatusOK'
<1>1. UNCHANGED <<chain, table_vars>>
  BY DEF timer_fires, loadCursor, fetchEventsPage, poll_error
<1>2. Growing
  BY <1>1, StillGrowing DEF table_vars
<1>3. poll \in [Polls -> Poll] /\ poll[q] \in Poll /\ poll[q].pc # "off"
  BY TablesType DEF timer_fires, loadCursor, fetchEventsPage, poll_error
<1>4. CASE poll_ends(q)
  BY <1>1, <1>2, <1>3, <1>4, EndsAlone, QuietMirror
<1>5. CASE ~poll_ends(q)
  <2>1. PICK w : /\ \A r \in Polls : poll'[r] = IF r = q THEN w ELSE poll[r]
                 /\ \/ w.pc \in {"off", "load"}
                    \/ w.pc = "fetch" /\ w.cursor = cursor
                    \/ w.pc = "persist" /\ w.cursor = cursor /\ w.pos = cursor
    <3>1. CASE timer_fires(q)
      <4>1. PICK w : w = [poll[q] EXCEPT !.pc = IF running THEN "load" ELSE "off"]
        OBVIOUS
      <4>2. w.pc \in {"off", "load"} /\ poll' = [poll EXCEPT ![q] = w]
        BY <1>3, <3>1, <4>1 DEF timer_fires, Poll
      <4>3. QED
        BY <1>3, <4>2
    <3>2. CASE loadCursor(q)
      <4>1. PICK w : w = [poll[q] EXCEPT !.pc = "fetch", !.cursor = cursor]
        OBVIOUS
      <4>2. w.pc = "fetch" /\ w.cursor = cursor /\ poll' = [poll EXCEPT ![q] = w]
        BY <1>3, <3>2, <4>1 DEF loadCursor, Poll
      <4>3. QED
        BY <1>3, <4>2
    <3>3. CASE fetchEventsPage(q)
      <4>1. poll[q].cursor = cursor
        BY <3>3 DEF InStep, fetchEventsPage
      <4>2. PICK w : w = [pc |-> "persist", cursor |-> cursor, pos |-> cursor,
                          last |-> page_end(cursor)]
        OBVIOUS
      <4>3. poll' = [poll EXCEPT ![q] = w]
        BY <1>5, <3>3, <4>1, <4>2 DEF fetchEventsPage
      <4>4. w.pc = "persist" /\ w.cursor = cursor /\ w.pos = cursor
        BY <4>2
      <4>5. QED
        BY <1>3, <4>3, <4>4
    <3>4. QED
      BY <1>5, <3>1, <3>2, <3>3 DEF poll_error
  <2>2. \A r \in Polls : Restarted(r)
    BY <2>1 DEF Restarted, Paging
  <2>3. Alone'
    BY <1>3, <2>1, AloneKept
  <2>4. QED
    BY <1>1, <1>2, <2>2, <2>3, QuietMirror
<1>6. QED
  BY <1>4, <1>5

\* persistEvent: the only poll moves on by one event.
LEMMA PersistMirror ==
    ASSUME IndInv, Alone, InStep, StatusOK, NEW q \in Polls, persistEvent(q)
    PROVE  Alone' /\ InStep' /\ StatusOK'
<1>1. PICK w : w = poll[q]
  OBVIOUS
<1>2. PICK n : n = w.pos + 1
  OBVIOUS
<1>3. /\ TypeOK /\ w \in Poll /\ w.pc = "persist"
      /\ w.pos \in 0..Len(chain) /\ w.last \in 0..Len(chain) /\ w.pos < w.last
  BY <1>1, TablesType DEF PollsOK, PollOK, Poll, persistEvent
<1>4. n \in 1..Len(chain) /\ n - 1 = w.pos /\ Len(chain) \in Nat
  BY <1>2, <1>3, LogType
<1>5. /\ subscriptions' =
           [subscriptions EXCEPT ![chain[n].pair] = updated_status(chain[n], @)]
      /\ UNCHANGED <<chain, cursor>>
  BY <1>1, <1>2 DEF persistEvent
<1>6. PICK v : v = [w EXCEPT !.pos = n, !.pc = IF n = w.last THEN "save" ELSE "persist"]
  OBVIOUS
<1>7. v.pc \in Paging /\ v.cursor = w.cursor /\ v.pos = n
  BY <1>3, <1>6 DEF Poll, Paging
<1>8. \A r \in Polls : poll'[r] = IF r = q THEN v ELSE poll[r]
  <2>1. poll \in [Polls -> Poll]
    BY TablesType
  <2>2. poll' = [poll EXCEPT ![q] = v]
    BY <1>1, <1>2, <1>3, <1>6, <2>1 DEF persistEvent
  <2>3. QED
    BY <2>1, <2>2
<1>9. \A r \in Polls : r # q => poll[r].pc = "off"
  BY <1>1, <1>3 DEF Alone
<1>10. Alone'
  BY <1>1, <1>3, <1>8, AloneKept
<1>11. cursor \in 0..Len(chain) /\ cursor <= w.pos /\ w.cursor = cursor
  BY <1>1, <1>3, TablesType DEF InStep, Paging, TablesOK
<1>12. InStep'
  BY <1>4, <1>5, <1>7, <1>8, <1>9, <1>11 DEF InStep, Paging
<1>13. ASSUME NEW p \in Pairs
       PROVE  Behind(p, n)' /\ Behind(p, cursor)'
  <2>1. Behind(p, n - 1)
    BY <1>1, <1>3, <1>4, <1>13 DEF StatusOK, Paging
  <2>2. Behind(p, n)'
    BY <1>3, <1>4, <1>5, <1>13, <2>1, PersistBehind
  <2>3. /\ n..Len(chain') \subseteq cursor..Len(chain')
        /\ (n + 1)..Len(chain') \subseteq (cursor + 1)..Len(chain')
    BY <1>4, <1>5, <1>11
  <2>4. Behind(p, cursor)'
    BY <1>5, <2>2, <2>3 DEF Behind
  <2>5. QED
    BY <2>2, <2>4
<1>14. StatusOK'
  BY <1>7, <1>8, <1>9, <1>13 DEF StatusOK, Paging
<1>15. QED
  BY <1>10, <1>12, <1>14

\* saveCursor: the stored cursor reaches the place of the only poll.
LEMMA SaveMirror ==
    ASSUME IndInv, Alone, InStep, StatusOK, NEW q \in Polls, saveCursor(q)
    PROVE  Alone' /\ InStep' /\ StatusOK'
<1>1. PICK w : w = poll[q]
  OBVIOUS
<1>2. TypeOK /\ w \in Poll /\ w.pc = "save" /\ w.pos = w.last /\ w.last \in 0..Len(chain)
  BY <1>1, TablesType DEF PollsOK, PollOK, Poll, saveCursor
<1>3. cursor' = w.last /\ UNCHANGED <<chain, subscriptions, payments>>
  BY <1>1 DEF saveCursor
<1>4. Growing
  BY <1>3, StillGrowing
<1>5. \A p \in Pairs : Behind(p, w.last)'
  BY <1>1, <1>2, <1>3, <1>4, BehindKept DEF StatusOK, Paging
<1>6. poll \in [Polls -> Poll] /\ \A r \in Polls : r # q => poll[r].pc = "off"
  BY <1>1, <1>2, TablesType DEF Alone
<1>7. PICK v : /\ \A r \in Polls : poll'[r] = IF r = q THEN v ELSE poll[r]
               /\ v.pc \in {"off", "timer"} \/ (v.pc = "fetch" /\ v.cursor = w.last)
  <2>1. CASE poll_ends(q)
    <3>1. PICK v : v.pc \in {"off", "timer"}
                   /\ \A r \in Polls : poll'[r] = IF r = q THEN v ELSE poll[r]
      BY <2>1, EndedAs
    <3>2. QED
      BY <3>1
  <2>2. CASE poll' = [poll EXCEPT ![q].pc = "fetch", ![q].cursor = w.last]
    <3>1. PICK v : v = [w EXCEPT !.pc = "fetch", !.cursor = w.last]
      OBVIOUS
    <3>2. v.pc = "fetch" /\ v.cursor = w.last /\ poll' = [poll EXCEPT ![q] = v]
      BY <1>1, <1>2, <1>6, <2>2, <3>1 DEF Poll
    <3>3. QED
      BY <1>6, <3>2
  <2>3. QED
    BY <1>1, <2>1, <2>2 DEF saveCursor
<1>8. Alone'
  BY <1>1, <1>2, <1>7, AloneKept
<1>9. InStep'
  BY <1>3, <1>6, <1>7 DEF InStep, Paging
<1>10. StatusOK'
  BY <1>3, <1>5, <1>6, <1>7 DEF StatusOK, Paging
<1>11. QED
  BY <1>8, <1>9, <1>10

\* Before the first event every row is missing, as it should.
LEMMA MirrorInvInit ==
    ASSUME Init
    PROVE  MirrorInv
<1>1. Len(chain) = 0 /\ 1..0 = {} /\ 0 \in 0..0
  BY DEF Init
<1>2. \A p \in Pairs : subscriptions[p] = None /\ StatusAt(p, 0) = None
  BY <1>1 DEF Init, StatusAt, Subscribed
<1>3. \A q \in Polls : poll[q].pc = "off"
  BY DEF Init, Off
<1>4. \A p \in Pairs : Behind(p, 0)
  BY <1>1, <1>2 DEF Behind
<1>5. cursor = 0
  BY DEF Init
<1>6. QED
  BY <1>3, <1>4, <1>5 DEF MirrorInv, Alone, InStep, StatusOK, Paging

\* While polls do not overlap, errors, crashes and restarts leave every row
\* as MirrorInv says.
THEOREM MirrorInvariance == Spec => []MirrorInv
<1>1. ASSUME IndInv, MirrorInv, [Next]_vars
      PROVE  MirrorInv'
  <2> SUFFICES ASSUME ~overlapped'
               PROVE  Alone' /\ InStep' /\ StatusOK'
    BY DEF MirrorInv
  <2>1. ~overlapped
    BY <1>1 DEF Next, vars, emit, start, stop, crash, poll_step, poll_error, timer_fires,
       loadCursor, fetchEventsPage, persistEvent, saveCursor
  <2>2. Alone /\ InStep /\ StatusOK
    BY <1>1, <2>1 DEF MirrorInv
  <2>3. QED
    BY <1>1, <2>2, ServiceMirror, ReadMirror, PersistMirror, SaveMirror DEF Next, poll_step
<1>2. IndInv /\ MirrorInv /\ [Next]_vars => MirrorInv'
  BY <1>1
<1>3. Init => MirrorInv
  BY MirrorInvInit
<1>4. QED
  BY <1>2, <1>3, Invariance, PTL DEF Spec

\* A service whose cursor is at the end of the log has every subscription in
\* the status of its last event, whatever pages were cut short and handled
\* again on the way (indexer.ts, poll and persistEvent).
THEOREM CaughtUpMirrorsHolds == Spec => []CaughtUpMirrors
<1>1. ASSUME IndInv, MirrorInv
      PROVE  CaughtUpMirrors
  <2> SUFFICES ASSUME ~overlapped, cursor = Len(chain), NEW p \in Pairs
               PROVE  subscriptions[p] = StatusAt(p, Len(chain))
    BY DEF CaughtUpMirrors
  <2>1. PICK n \in Nat : n = Len(chain)
    BY <1>1, LogType DEF IndInv
  <2>2. Behind(p, n)
    BY <1>1, <2>1 DEF MirrorInv, StatusOK
  <2>3. n..n = {n} /\ (n + 1)..n = {}
    BY <2>1
  <2>4. QED
    BY <2>1, <2>2, <2>3 DEF Behind
<1>2. IndInv /\ MirrorInv => CaughtUpMirrors
  BY <1>1
<1>3. QED
  BY <1>2, Invariance, MirrorInvariance, PTL
===========================================================================
