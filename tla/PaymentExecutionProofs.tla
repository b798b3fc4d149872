----------------------- MODULE PaymentExecutionProofs -----------------------
(* Proofs about PaymentExecution, for every set of requests, keys and      *)
(* payloads and every number of polls.                                     *)
EXTENDS PaymentExecution, TLAPS

NetStatus == {"none", "submitted", "success", "failed"}

\* Calls between the idempotency check and their end.
past_check(c) == c.pc \in {"account", "simulate", "send", "poll", "record"}

\* A call under way knows its payload and its key, has a transaction on the
\* network only after it sent one, and has an outcome when it records it; an
\* answer from the table belongs to a key.
CallsConsistent ==
    \A r \in Request :
        /\ calls[r].pc = "idle" => calls[r].key = None /\ overlaps[r] = {}
        /\ calls[r].pc # "idle" => calls[r].payload \in Payload
        /\ calls[r].pc \in {"check", "record"} \/ calls[r].result = "cached" => calls[r].key \in Key
        /\ calls[r].pc \in {"idle", "check", "account", "simulate", "send"} => net[r] = "none"
        /\ calls[r].pc = "record" => calls[r].result \in {"paid", "error"}

\* Two calls with one key that are under way are known to overlap.
OverlapsKnown ==
    \A r, s \in Request :
        r # s /\ calls[r].key # None /\ calls[r].key = calls[s].key
              /\ under_way(calls[r]) /\ under_way(calls[s])
        => overlapped(r, s)

\* The transaction of a row belongs to a call with its key that has ended, it
\* succeeded, and the row's pair is that call's or that of one it overlapped
\* with.
RowsExplained ==
    \A k \in Key, h \in Request :
        rows[k] # None /\ rows[k].txHash = h =>
            /\ net[h] = "success" /\ calls[h].key = k /\ calls[h].pc = "done"
            /\ accounts_for(h, k, rows[k].payload)

\* A call that passed its check overlapped with whatever call the row of its
\* key speaks of, unless the row is about its own pair.
RowsMeetCalls ==
    \A r \in Request, k \in Key :
        calls[r].key = k /\ past_check(calls[r]) =>
            /\ rows[k] # None => accounts_for(r, k, rows[k].payload)
            /\ is_cached(rows[k]) => overlapped(r, rows[k].txHash)

IndInv ==
    /\ TypeOK /\ CallsConsistent /\ OverlapsKnown /\ RowsExplained /\ RowsMeetCalls
    /\ ReportedPaymentsHappened

\* The upserts of idempotencyService.ts return rows.
LEMMA Upserts ==
    ASSUME NEW row \in Row \cup {None}, NEW p \in Payload, NEW r \in Request
    PROVE  succeeded(row, p, r) \in Row /\ failed(row, p) \in Row
BY DEF succeeded, failed, Row

\* A call that moves keeps its key and its payload.
LEMMA Moved ==
    ASSUME calls \in [Request -> Call], NEW r \in Request,
           NEW pc \in {"account", "simulate", "send", "poll", "record", "done"}, NEW n \in 0..POLLS,
           NEW result \in {"none", "error", "conflict", "paid", "cached"},
           NEW tx \in Request \cup {None},
           calls' = [calls EXCEPT ![r] = moved(calls[r], pc, n, result, tx)]
    PROVE  /\ calls' \in [Request -> Call]
           /\ \A s \in Request \ {r} : calls'[s] = calls[s]
           /\ calls'[r].key = calls[r].key /\ calls'[r].payload = calls[r].payload
           /\ calls'[r].pc = pc /\ calls'[r].result = result /\ calls'[r].txHash = tx
<1>1. moved(calls[r], pc, n, result, tx) \in Call
    BY DEF moved, Call
<1>2. calls'[r] = moved(calls[r], pc, n, result, tx)
    OBVIOUS
<1> QED
    BY <1>1, <1>2 DEF moved

\* A call that ends, and one whose outcome is settled: it goes to its record
\* only with a key.
LEMMA Ended ==
    ASSUME calls \in [Request -> Call], NEW r \in Request,
           NEW result \in {"none", "error", "conflict", "paid", "cached"},
           NEW tx \in Request \cup {None}, finish(r, result, tx) \/ settle(r, result, tx)
    PROVE  /\ calls' \in [Request -> Call]
           /\ \A s \in Request \ {r} : calls'[s] = calls[s]
           /\ calls'[r].key = calls[r].key /\ calls'[r].payload = calls[r].payload
           /\ calls'[r].pc = "done" \/ (calls'[r].pc = "record" /\ calls[r].key \in Key /\ settle(r, result, tx))
           /\ calls'[r].result = result /\ calls'[r].txHash = tx
<1>1. PICK n \in 0..POLLS : n = 0
    BY ExecutionAssumption
<1>2. PICK pc \in {"account", "simulate", "send", "poll", "record", "done"} :
          /\ pc = "done" \/ (pc = "record" /\ calls[r].key # None /\ settle(r, result, tx))
          /\ calls' = [calls EXCEPT ![r] = moved(calls[r], pc, n, result, tx)]
    BY <1>1 DEF finish, settle
<1>3. calls[r].key # None => calls[r].key \in Key
    BY DEF Call
<1>4. /\ calls' \in [Request -> Call]
      /\ \A s \in Request \ {r} : calls'[s] = calls[s]
      /\ calls'[r].key = calls[r].key /\ calls'[r].payload = calls[r].payload
      /\ calls'[r].pc = pc /\ calls'[r].result = result /\ calls'[r].txHash = tx
  <2>1. moved(calls[r], pc, n, result, tx) \in Call
      BY DEF moved, Call
  <2>2. calls'[r] = moved(calls[r], pc, n, result, tx)
      BY <1>2
  <2> QED
      BY <1>2, <2>1, <2>2 DEF moved
<1> QED
    BY <1>2, <1>3, <1>4

\* A call that finishes is done.
LEMMA FinishEnds ==
    ASSUME calls \in [Request -> Call], NEW r \in Request,
           NEW result \in {"none", "error", "conflict", "paid", "cached"},
           NEW tx \in Request \cup {None}, finish(r, result, tx)
    PROVE  /\ calls' \in [Request -> Call]
           /\ \A s \in Request \ {r} : calls'[s] = calls[s]
           /\ calls'[r].key = calls[r].key /\ calls'[r].payload = calls[r].payload
           /\ calls'[r].pc = "done" /\ calls'[r].result = result /\ calls'[r].txHash = tx
<1>1. calls'[r].pc = "done"
    BY DEF finish, moved
<1> QED
    BY <1>1, Ended

\* The shape of a step of a call up to its record: it keeps key, payload and
\* table; it passes the check only when the row neither answers nor conflicts;
\* it reports a payment only from the row or from the network.
MoveShape(r) ==
    /\ UNCHANGED <<rows, overlaps>>
    /\ calls' \in [Request -> Call]
    /\ \A s \in Request \ {r} : calls'[s] = calls[s]
    /\ calls'[r].key = calls[r].key /\ calls'[r].payload = calls[r].payload
    /\ under_way(calls[r]) /\ calls'[r].pc \notin {"idle", "check"}
    /\ net' \in [Request -> NetStatus] /\ \A s \in Request \ {r} : net'[s] = net[s]
    /\ net'[r] = net[r] \/ (calls[r].pc = "send" /\ net[r] = "none" /\ net'[r] = "submitted")
    /\ calls'[r].pc \in {"account", "simulate", "send"} => net'[r] = "none"
    /\ calls'[r].pc = "record" => calls[r].key \in Key /\ calls'[r].result \in {"paid", "error"}
    /\ past_check(calls'[r]) /\ ~past_check(calls[r]) =>
          /\ calls[r].pc = "check" /\ ~is_conflict(row_of(r), calls[r].payload)
          /\ ~is_cached(row_of(r))
    /\ calls'[r].result = "paid" => calls'[r].txHash = r /\ net'[r] = "success"
    /\ calls'[r].result = "cached" =>
          /\ calls[r].pc = "check" /\ calls'[r].txHash = row_of(r).txHash
          /\ is_cached(row_of(r)) /\ ~is_conflict(row_of(r), calls[r].payload)

\* Every step of a call but the last has that shape.
LEMMA CallMoves ==
    ASSUME TypeOK, CallsConsistent, NEW r \in Request, CallStep(r), ~record_outcome(r)
    PROVE  MoveShape(r)
<1>t. /\ calls \in [Request -> Call] /\ calls[r] \in Call
      /\ net \in [Request -> NetStatus] /\ rows \in [Key -> Row \cup {None}]
    BY DEF TypeOK, NetStatus
<1>0. None \in Request \cup {None} /\ 0 \in 0..POLLS /\ calls[r].polls \in 0..POLLS
    BY <1>t, ExecutionAssumption DEF Call
<1>1. CASE handleIdempotencyCheck(r)
  <2>0. /\ UNCHANGED <<rows, net, overlaps>> /\ calls[r].pc = "check" /\ net[r] = "none"
        /\ calls[r].key \in Key /\ calls[r].key # None
      BY <1>1, ExecutionAssumption DEF handleIdempotencyCheck, CallsConsistent
  <2>1. CASE finish(r, "conflict", None) \/ finish(r, "error", None)
    <3>1. PICK res \in {"conflict", "error"} : finish(r, res, None)
        BY <2>1
    <3>2. /\ calls' \in [Request -> Call]
          /\ \A s \in Request \ {r} : calls'[s] = calls[s]
          /\ calls'[r].key = calls[r].key /\ calls'[r].payload = calls[r].payload
          /\ calls'[r].pc = "done" /\ calls'[r].result = res
        BY <3>1, <1>t, <1>0, FinishEnds
    <3> QED
        BY <2>0, <3>2, <1>t DEF MoveShape, under_way, past_check
  <2>2. CASE ~is_conflict(row_of(r), calls[r].payload) /\ ~is_cached(row_of(r)) /\ advance(r, "account")
    <3>1. /\ calls' \in [Request -> Call]
          /\ \A s \in Request \ {r} : calls'[s] = calls[s]
          /\ calls'[r].key = calls[r].key /\ calls'[r].payload = calls[r].payload
          /\ calls'[r].pc = "account" /\ calls'[r].result = "none"
        BY <2>2, <1>t, <1>0, Moved DEF advance
    <3> QED
        BY <2>0, <2>2, <3>1, <1>t DEF MoveShape, under_way, past_check
  <2>3. CASE /\ ~is_conflict(row_of(r), calls[r].payload)
             /\ is_cached(row_of(r)) /\ finish(r, "cached", row_of(r).txHash)
    <3>1. row_of(r) = rows[calls[r].key] /\ row_of(r) \in Row
        BY <2>0, <2>3, <1>t DEF row_of, is_cached
    <3>2. PICK tx \in Request \cup {None} : tx = row_of(r).txHash
        BY <3>1 DEF Row
    <3>3. finish(r, "cached", tx)
        BY <2>3, <3>2
    <3>4. /\ calls' \in [Request -> Call]
          /\ \A s \in Request \ {r} : calls'[s] = calls[s]
          /\ calls'[r].key = calls[r].key /\ calls'[r].payload = calls[r].payload
          /\ calls'[r].pc = "done" /\ calls'[r].result = "cached" /\ calls'[r].txHash = tx
        BY <3>3, <2>0, <1>t, FinishEnds
    <3> QED
        BY <2>0, <2>3, <3>2, <3>4, <1>t DEF MoveShape, under_way, past_check
  <2> QED
      BY <1>1, <2>1, <2>2, <2>3 DEF handleIdempotencyCheck
<1>2. ASSUME UNCHANGED <<rows, overlaps>>, past_check(calls[r]),
             finish(r, "error", None) \/ settle(r, "error", None),
             net' \in [Request -> NetStatus] /\ (\A s \in Request \ {r} : net'[s] = net[s]),
             net'[r] = net[r] \/ (calls[r].pc = "send" /\ net[r] = "none" /\ net'[r] = "submitted")
      PROVE  MoveShape(r)
  <2>1. /\ calls' \in [Request -> Call]
        /\ \A s \in Request \ {r} : calls'[s] = calls[s]
        /\ calls'[r].key = calls[r].key /\ calls'[r].payload = calls[r].payload
        /\ calls'[r].pc = "done" \/ (calls'[r].pc = "record" /\ calls[r].key \in Key)
        /\ calls'[r].result = "error"
      BY <1>2, <1>t, <1>0, Ended
  <2> QED
      BY <1>2, <2>1 DEF MoveShape, under_way, past_check
<1>3. ASSUME UNCHANGED <<rows, overlaps>>, past_check(calls[r]),
             NEW pc \in {"simulate", "send", "poll"}, NEW n \in 0..POLLS,
             calls' = [calls EXCEPT ![r] = moved(calls[r], pc, n, "none", None)],
             pc # "poll" => net'[r] = "none",
             net' \in [Request -> NetStatus] /\ (\A s \in Request \ {r} : net'[s] = net[s]),
             net'[r] = net[r] \/ (calls[r].pc = "send" /\ net[r] = "none" /\ net'[r] = "submitted")
      PROVE  MoveShape(r)
  <2>1. /\ calls' \in [Request -> Call]
        /\ \A s \in Request \ {r} : calls'[s] = calls[s]
        /\ calls'[r].key = calls[r].key /\ calls'[r].payload = calls[r].payload
        /\ calls'[r].pc = pc /\ calls'[r].result = "none"
      BY <1>3, <1>t, <1>0, Moved
  <2> QED
      BY <1>3, <2>1 DEF MoveShape, under_way, past_check
<1>4. CASE getAccount(r)
  <2>1. UNCHANGED <<rows, net, overlaps>> /\ past_check(calls[r]) /\ net[r] = "none"
      BY <1>4 DEF getAccount, past_check, CallsConsistent
  <2>2. advance(r, "simulate") \/ finish(r, "error", None)
      BY <1>4 DEF getAccount
  <2> QED
      BY <2>1, <2>2, <1>2, <1>3, <1>t, <1>0 DEF advance
<1>5. CASE simulateTransaction(r)
  <2>1. UNCHANGED <<rows, net, overlaps>> /\ past_check(calls[r]) /\ net[r] = "none"
      BY <1>5 DEF simulateTransaction, past_check, CallsConsistent
  <2>2. advance(r, "send") \/ settle(r, "error", None)
      BY <1>5 DEF simulateTransaction
  <2> QED
      BY <2>1, <2>2, <1>2, <1>3, <1>t, <1>0 DEF advance
<1>6. CASE sendTransaction(r)
  <2>1. /\ UNCHANGED <<rows, overlaps>> /\ past_check(calls[r]) /\ calls[r].pc = "send" /\ net[r] = "none"
      BY <1>6 DEF sendTransaction, past_check, CallsConsistent
  <2>2. /\ net' \in [Request -> NetStatus] /\ \A s \in Request \ {r} : net'[s] = net[s]
        /\ net'[r] \in {"none", "submitted"}
      BY <1>6, <2>1, <1>t DEF sendTransaction, NetStatus
  <2>3. advance(r, "poll") \/ settle(r, "error", None)
      BY <1>6 DEF sendTransaction
  <2> QED
      BY <2>1, <2>2, <2>3, <1>2, <1>3, <1>0 DEF advance
<1>7. CASE getTransaction(r)
  <2>1. UNCHANGED <<rows, net, overlaps>> /\ past_check(calls[r]) /\ calls[r].pc = "poll"
      BY <1>7 DEF getTransaction, past_check
  <2>2. CASE net[r] = "success" /\ settle(r, "paid", r)
    <3>1. /\ calls' \in [Request -> Call]
          /\ \A s \in Request \ {r} : calls'[s] = calls[s]
          /\ calls'[r].key = calls[r].key /\ calls'[r].payload = calls[r].payload
          /\ calls'[r].pc = "done" \/ (calls'[r].pc = "record" /\ calls[r].key \in Key)
          /\ calls'[r].result = "paid" /\ calls'[r].txHash = r
        BY <2>2, <1>t, Ended
    <3> QED
        BY <2>1, <2>2, <3>1, <1>t DEF MoveShape, under_way, past_check
  <2>3. CASE settle(r, "error", None) \/ finish(r, "error", None)
      BY <2>1, <2>3, <1>2, <1>t
  <2>4. CASE poll_again(r)
    <3>1. calls[r].polls + 1 \in 0..POLLS
        BY <1>7, <1>0, ExecutionAssumption DEF getTransaction
    <3> QED
        BY <2>1, <2>4, <3>1, <1>3, <1>t DEF poll_again
  <2> QED
      BY <1>7, <2>2, <2>3, <2>4 DEF getTransaction
<1>8. CASE not_confirmed(r)
  <2>1. UNCHANGED <<rows, net, overlaps>> /\ past_check(calls[r]) /\ settle(r, "error", None)
      BY <1>8 DEF not_confirmed, past_check
  <2> QED
      BY <2>1, <1>2, <1>t
<1> QED
    BY <1>1, <1>4, <1>5, <1>6, <1>7, <1>8 DEF CallStep

\* What every step leaves of a call that has begun.
Kept ==
    \A s \in Request : calls[s].pc # "idle" =>
        /\ calls'[s].key = calls[s].key /\ calls'[s].payload = calls[s].payload
        /\ calls'[s].pc # "idle" /\ overlaps'[s] = overlaps[s]
        /\ net[s] = "success" => net'[s] = "success"

\* So what the history says of two calls that have begun stays true.
LEMMA HistoryKept ==
    ASSUME CallsConsistent, Kept, NEW h \in Request, calls[h].pc # "idle"
    PROVE  /\ \A s \in Request : calls[s].pc # "idle" /\ overlapped(s, h) => overlapped(s, h)'
           /\ \A k \in Key, p \in Payload : accounts_for(h, k, p) => accounts_for(h, k, p)'
<1>1. ASSUME NEW s \in Request, calls[s].pc # "idle", overlapped(s, h) PROVE overlapped(s, h)'
    BY <1>1 DEF overlapped, Kept
<1>2. ASSUME NEW k \in Key, NEW p \in Payload, accounts_for(h, k, p) PROVE accounts_for(h, k, p)'
  <2>1. PICK s \in Request : calls[s].key = k /\ calls[s].payload = p /\ (s = h \/ overlapped(s, h))
      BY <1>2 DEF accounts_for
  <2>2. calls[s].pc # "idle"
      BY <2>1, ExecutionAssumption DEF CallsConsistent
  <2>3. calls'[s].key = k /\ calls'[s].payload = p
      BY <2>1, <2>2 DEF Kept
  <2>4. s = h \/ overlapped(s, h)'
      BY <2>1, <2>2, <1>1
  <2> QED
      BY <2>3, <2>4 DEF accounts_for
<1> QED
    BY <1>1, <1>2

\* Reports are about calls that have begun: what they say stays true.
LEMMA ReportKept ==
    ASSUME IndInv, Kept, NEW s \in Request,
           calls'[s].result = calls[s].result, calls'[s].txHash = calls[s].txHash,
           calls'[s].key = calls[s].key, calls'[s].payload = calls[s].payload
    PROVE  /\ calls'[s].result = "paid" => calls'[s].txHash = s /\ net'[s] = "success"
           /\ calls'[s].result = "cached" =>
                 \E h \in Request :
                    /\ calls'[s].txHash = h /\ net'[h] = "success" /\ calls'[h].key = calls'[s].key
                    /\ accounts_for(h, calls[s].key, calls[s].payload)'
<1>1. CASE calls[s].result = "paid"
  <2>1. calls[s].txHash = s /\ net[s] = "success"
      BY <1>1 DEF IndInv, ReportedPaymentsHappened
  <2>2. calls[s].pc # "idle"
      BY <2>1 DEF IndInv, CallsConsistent
  <2> QED
      BY <1>1, <2>1, <2>2 DEF Kept
<1>2. CASE calls[s].result = "cached"
  <2>1. PICK h \in Request :
            /\ calls[s].txHash = h /\ net[h] = "success" /\ calls[h].key = calls[s].key
            /\ accounts_for(h, calls[s].key, calls[s].payload)
      BY <1>2 DEF IndInv, ReportedPaymentsHappened
  <2>2. calls[h].pc # "idle" /\ calls[s].key \in Key /\ calls[s].payload \in Payload
      BY <1>2, <2>1, ExecutionAssumption DEF IndInv, CallsConsistent
  <2>3. PICK k \in Key, p \in Payload : k = calls[s].key /\ p = calls[s].payload
      BY <2>2
  <2>4. accounts_for(h, k, p)'
      BY <2>1, <2>2, <2>3, HistoryKept DEF IndInv
  <2>5. net'[h] = "success" /\ calls'[h].key = calls[h].key
      BY <2>1, <2>2 DEF Kept
  <2>6. k = calls'[s].key /\ p = calls'[s].payload
      BY <2>3
  <2> QED
      BY <1>2, <2>1, <2>3, <2>4, <2>5, <2>6
<1> QED
    BY <1>1, <1>2

\* A row that no step writes stays explained, when the call it names is done.
LEMMA RowKept ==
    ASSUME IndInv, Kept, NEW k \in Key, NEW h \in Request,
           rows[k] # None, rows[k].txHash = h, rows'[k].payload = rows[k].payload,
           \A s \in Request : calls[s].pc = "done" => calls'[s].pc = "done"
    PROVE  /\ net'[h] = "success" /\ calls'[h].key = k /\ calls'[h].pc = "done"
           /\ accounts_for(h, k, rows[k].payload)'
<1>1. /\ net[h] = "success" /\ calls[h].key = k /\ calls[h].pc = "done"
      /\ accounts_for(h, k, rows[k].payload)
    BY DEF IndInv, RowsExplained
<1>2. PICK p \in Payload : p = rows[k].payload
    BY DEF IndInv, TypeOK, Row
<1>3. accounts_for(h, k, p)'
    BY <1>1, <1>2, HistoryKept DEF IndInv
<1>4. p = rows'[k].payload
    BY <1>2
<1> QED
    BY <1>1, <1>3, <1>4 DEF Kept

\* A call that was past its check still meets a row that no step writes.
LEMMA MeetingKept ==
    ASSUME IndInv, Kept, NEW q \in Request, NEW k \in Key, calls[q].key = k, past_check(calls[q]),
           rows'[k] = rows[k]
    PROVE  /\ rows'[k] # None => accounts_for(q, k, rows[k].payload)'
           /\ is_cached(rows'[k]) => overlapped(q, rows[k].txHash)'
<1>0. calls[q].pc # "idle"
    BY DEF past_check
<1>1. ASSUME rows[k] # None PROVE accounts_for(q, k, rows[k].payload)'
  <2>1. PICK p \in Payload : p = rows[k].payload
      BY <1>1 DEF IndInv, TypeOK, Row
  <2>2. accounts_for(q, k, p)
      BY <1>1, <2>1 DEF IndInv, RowsMeetCalls
  <2>3. accounts_for(q, k, p)'
      BY <1>0, <2>2, HistoryKept DEF IndInv
  <2>4. p = rows'[k].payload
      BY <2>1
  <2> QED
      BY <2>3, <2>4
<1>2. ASSUME is_cached(rows[k]) PROVE overlapped(q, rows[k].txHash)'
  <2>1. rows[k] # None /\ rows[k].txHash \in Request
      BY <1>2 DEF IndInv, TypeOK, Row, is_cached
  <2>2. PICK h \in Request : h = rows[k].txHash
      BY <2>1
  <2>3. overlapped(q, h) /\ calls[h].pc # "idle"
      BY <1>2, <2>1, <2>2 DEF IndInv, RowsMeetCalls, RowsExplained
  <2>4. overlapped(q, h)'
      BY <1>0, <2>3, HistoryKept DEF IndInv
  <2>5. h = rows'[k].txHash
      BY <2>2
  <2> QED
      BY <2>4, <2>5
<1> QED
    BY <1>1, <1>2

\* A call that moves on preserves the invariant.
LEMMA MoveInv ==
    ASSUME IndInv, NEW r \in Request, MoveShape(r)
    PROVE  IndInv'
<1>r. calls[r].pc \notin {"idle", "done"}
    BY DEF MoveShape, under_way
<1>1. TypeOK'
    BY DEF IndInv, TypeOK, MoveShape, NetStatus
<1>2. CallsConsistent'
  <2> SUFFICES ASSUME NEW s \in Request
               PROVE  /\ calls'[s].pc = "idle" => calls'[s].key = None /\ overlaps'[s] = {}
                      /\ calls'[s].pc # "idle" => calls'[s].payload \in Payload
                      /\ calls'[s].pc \in {"check", "record"} \/ calls'[s].result = "cached" => calls'[s].key \in Key
                      /\ calls'[s].pc \in {"idle", "check", "account", "simulate", "send"} => net'[s] = "none"
                      /\ calls'[s].pc = "record" => calls'[s].result \in {"paid", "error"}
      BY DEF CallsConsistent
  <2>1. CASE s = r
    <3>1. calls[r].payload \in Payload /\ (calls[r].pc = "check" => calls[r].key \in Key)
        BY <1>r DEF IndInv, CallsConsistent
    <3> QED
        BY <2>1, <3>1 DEF MoveShape
  <2>2. CASE s # r
      BY <2>2 DEF MoveShape, IndInv, CallsConsistent
  <2> QED
      BY <2>1, <2>2
<1>3. Kept
    BY <1>r DEF Kept, MoveShape
<1>4. OverlapsKnown'
    BY <1>r DEF IndInv, OverlapsKnown, MoveShape, under_way, overlapped
<1>5. RowsExplained'
  <2> SUFFICES ASSUME NEW k \in Key, NEW h \in Request, rows'[k] # None, rows'[k].txHash = h
               PROVE  /\ net'[h] = "success" /\ calls'[h].key = k /\ calls'[h].pc = "done"
                      /\ accounts_for(h, k, rows[k].payload)'
      BY DEF RowsExplained
  <2>1. \A s \in Request : calls[s].pc = "done" => calls'[s].pc = "done"
      BY <1>r DEF MoveShape
  <2> QED
      BY <1>3, <2>1, RowKept DEF MoveShape
<1>6. RowsMeetCalls'
  <2> SUFFICES ASSUME NEW q \in Request, NEW k \in Key, calls'[q].key = k, past_check(calls'[q])
               PROVE  /\ rows'[k] # None => accounts_for(q, k, rows[k].payload)'
                      /\ is_cached(rows'[k]) => overlapped(q, rows[k].txHash)'
      BY DEF RowsMeetCalls
  <2>0. rows'[k] = rows[k]
      BY DEF MoveShape
  <2>1. CASE past_check(calls[q])
    <3>1. calls[q].key = k
        BY DEF MoveShape
    <3> QED
        BY <1>3, <2>0, <2>1, <3>1, MeetingKept
  <2>2. CASE ~past_check(calls[q])
    <3>1. q = r /\ calls[r].key = k /\ k # None
        BY <2>2, ExecutionAssumption DEF MoveShape
    <3>2. ~is_conflict(rows[k], calls[r].payload) /\ ~is_cached(rows[k])
        BY <2>2, <3>1 DEF MoveShape, row_of
    <3>3. rows[k] # None => rows[k].payload = calls[r].payload
        BY <3>2 DEF is_conflict
    <3>4. rows'[k] # None => calls'[r].key = k /\ calls'[r].payload = rows'[k].payload
        BY <2>0, <3>1, <3>3 DEF MoveShape
    <3>5. rows'[k] # None => accounts_for(q, k, rows[k].payload)'
        BY <3>1, <3>4 DEF accounts_for
    <3> QED
        BY <2>0, <3>2, <3>5
  <2> QED
      BY <2>1, <2>2
<1>7. ReportedPaymentsHappened'
  <2> SUFFICES ASSUME NEW s \in Request
               PROVE  /\ calls'[s].result = "paid" => calls'[s].txHash = s /\ net'[s] = "success"
                      /\ calls'[s].result = "cached" =>
                            \E h \in Request :
                               /\ calls'[s].txHash = h /\ net'[h] = "success" /\ calls'[h].key = calls'[s].key
                               /\ accounts_for(h, calls[s].key, calls[s].payload)'
      BY DEF ReportedPaymentsHappened
  <2>1. CASE s # r
      BY <1>3, <2>1, ReportKept DEF MoveShape
  <2>2. CASE s = r /\ calls'[r].result = "cached"
    <3>1. calls[r].key \in Key /\ row_of(r) = rows[calls[r].key] /\ calls[r].key # None
        BY <2>2, ExecutionAssumption DEF MoveShape, IndInv, CallsConsistent, row_of
    <3>2. PICK k \in Key : k = calls[r].key
        BY <3>1
    <3>3. /\ rows[k] # None /\ rows[k].txHash \in Request /\ calls'[r].txHash = rows[k].txHash
          /\ rows[k].payload = calls[r].payload
        BY <2>2, <3>1, <3>2 DEF MoveShape, IndInv, TypeOK, Row, is_cached, is_conflict
    <3>4. PICK h \in Request : h = rows[k].txHash
        BY <3>3
    <3>5. /\ net'[h] = "success" /\ calls'[h].key = k
          /\ accounts_for(h, k, rows[k].payload)'
        BY <1>5, <3>3, <3>4 DEF RowsExplained, MoveShape
    <3>6. k = calls'[s].key /\ rows'[k].payload = calls'[s].payload
        BY <2>2, <3>2, <3>3 DEF MoveShape
    <3>7. accounts_for(h, calls[s].key, calls[s].payload)'
        BY <3>5, <3>6
    <3> QED
        BY <2>2, <3>3, <3>4, <3>5, <3>6, <3>7
  <2>3. CASE s = r /\ calls'[r].result # "cached"
      BY <2>3 DEF MoveShape
  <2> QED
      BY <2>1, <2>2, <2>3
<1> QED
    BY <1>1, <1>2, <1>4, <1>5, <1>6, <1>7 DEF IndInv

\* What the record of an outcome writes: the row of the call's key only; its
\* pair when there was no row; its transaction when it was paid; and no
\* cached row when it failed.
LEMMA OutcomeRecord ==
    ASSUME TypeOK, NEW r \in Request, NEW k \in Key, k = calls[r].key, calls[r].payload \in Payload,
           record_outcome(r), calls[r].result = "paid" => calls[r].txHash = r
    PROVE  /\ rows' \in [Key -> Row \cup {None}]
           /\ \A j \in Key \ {k} : rows'[j] = rows[j]
           /\ rows' = rows \/ /\ rows'[k] \in Row
                              /\ rows'[k].payload = IF rows[k] = None THEN calls[r].payload ELSE rows[k].payload
                              /\ \/ calls[r].result = "paid" /\ rows'[k].txHash = r
                                 \/ /\ ~is_cached(rows'[k])
                                    /\ rows'[k].txHash = IF rows[k] = None THEN None ELSE rows[k].txHash
<1>1. CASE rows' = rows
    BY <1>1 DEF TypeOK
<1>2. CASE rows' # rows
  <2>0. rows[k] \in Row \cup {None} /\ rows \in [Key -> Row \cup {None}]
      BY DEF TypeOK
  <2>1. CASE calls[r].result = "paid"
    <3>1. rows' = [rows EXCEPT ![k] = succeeded(rows[k], calls[r].payload, r)]
        BY <1>2, <2>1 DEF record_outcome
    <3>2. rows'[k] = succeeded(rows[k], calls[r].payload, r) /\ rows'[k] \in Row
        BY <2>0, <3>1, Upserts
    <3>3. /\ rows'[k].payload = IF rows[k] = None THEN calls[r].payload ELSE rows[k].payload
          /\ rows'[k].txHash = r
        BY <3>2 DEF succeeded
    <3>4. rows' \in [Key -> Row \cup {None}] /\ \A j \in Key \ {k} : rows'[j] = rows[j]
        BY <2>0, <3>1, <3>2
    <3> QED
        BY <2>1, <3>2, <3>3, <3>4
  <2>2. CASE calls[r].result # "paid"
    <3>1. rows' = [rows EXCEPT ![k] = failed(rows[k], calls[r].payload)]
        BY <1>2, <2>2 DEF record_outcome
    <3>2. rows'[k] = failed(rows[k], calls[r].payload) /\ rows'[k] \in Row
        BY <2>0, <3>1, Upserts
    <3>3. ~is_cached(rows'[k])
        BY <3>2 DEF is_cached, failed
    <3>4. /\ rows'[k].payload = IF rows[k] = None THEN calls[r].payload ELSE rows[k].payload
          /\ rows'[k].txHash = IF rows[k] = None THEN None ELSE rows[k].txHash
        BY <3>2 DEF failed
    <3>5. rows' \in [Key -> Row \cup {None}] /\ \A j \in Key \ {k} : rows'[j] = rows[j]
        BY <2>0, <3>1, <3>2
    <3> QED
        BY <3>2, <3>3, <3>4, <3>5
  <2> QED
      BY <2>1, <2>2
<1> QED
    BY <1>1, <1>2

\* The record of an outcome preserves the invariant.
LEMMA RecordInv ==
    ASSUME IndInv, NEW r \in Request, record_outcome(r)
    PROVE  IndInv'
<1>0. /\ calls[r].pc = "record" /\ UNCHANGED <<net, overlaps>> /\ calls[r].key \in Key
      /\ calls[r].payload \in Payload
      /\ calls[r].result = "paid" => calls[r].txHash = r /\ net[r] = "success"
      /\ calls[r].result \in {"paid", "error"}
      /\ calls \in [Request -> Call]
    BY DEF record_outcome, IndInv, CallsConsistent, ReportedPaymentsHappened, TypeOK
<1>c. /\ calls' \in [Request -> Call]
      /\ \A s \in Request \ {r} : calls'[s] = calls[s]
      /\ calls'[r].key = calls[r].key /\ calls'[r].payload = calls[r].payload
      /\ calls'[r].pc = "done" /\ calls'[r].result = calls[r].result /\ calls'[r].txHash = calls[r].txHash
  <2>1. PICK res \in {"none", "error", "conflict", "paid", "cached"}, tx \in Request \cup {None} :
            res = calls[r].result /\ tx = calls[r].txHash
      BY <1>0 DEF Call
  <2>2. finish(r, res, tx)
      BY <2>1 DEF record_outcome
  <2> QED
      BY <1>0, <2>1, <2>2, FinishEnds
<1>k. PICK key \in Key : key = calls[r].key
    BY <1>0
<1>w. /\ rows' \in [Key -> Row \cup {None}]
      /\ \A j \in Key \ {key} : rows'[j] = rows[j]
      /\ rows' = rows \/ /\ rows'[key] \in Row
                         /\ rows'[key].payload = IF rows[key] = None THEN calls[r].payload ELSE rows[key].payload
                         /\ \/ calls[r].result = "paid" /\ rows'[key].txHash = r
                            \/ /\ ~is_cached(rows'[key])
                               /\ rows'[key].txHash = IF rows[key] = None THEN None ELSE rows[key].txHash
    BY <1>0, <1>k, OutcomeRecord DEF IndInv
<1>1. TypeOK'
    BY <1>0, <1>c, <1>w DEF IndInv, TypeOK
<1>2. CallsConsistent'
    BY <1>0, <1>c DEF IndInv, CallsConsistent
<1>3. Kept
    BY <1>0, <1>c DEF Kept
<1>d. \A s \in Request : calls[s].pc = "done" => calls'[s].pc = "done"
    BY <1>c
<1>4. OverlapsKnown'
    BY <1>0, <1>c DEF IndInv, OverlapsKnown, under_way, overlapped
<1>5. RowsExplained'
  <2> SUFFICES ASSUME NEW k \in Key, NEW h \in Request, rows'[k] # None, rows'[k].txHash = h
               PROVE  /\ net'[h] = "success" /\ calls'[h].key = k /\ calls'[h].pc = "done"
                      /\ accounts_for(h, k, rows[k].payload)'
      BY DEF RowsExplained
  <2>1. CASE rows'[k] = rows[k]
      BY <1>3, <1>d, <2>1, RowKept
  <2>2. CASE rows'[k] # rows[k] /\ rows'[k].txHash # r
    <3>1. k = key /\ rows[k] # None /\ rows[k].txHash = h /\ rows'[k].payload = rows[k].payload
        BY <1>w, <2>2, ExecutionAssumption
    <3> QED
        BY <1>3, <1>d, <3>1, RowKept
  <2>3. CASE rows'[k] # rows[k] /\ rows'[k].txHash = r
    <3>1. k = key /\ h = r
        BY <1>w, <2>3
    <3>2. CASE calls[r].result = "paid"
      <4>1. net'[h] = "success" /\ calls'[h].key = k /\ calls'[h].pc = "done"
          BY <1>0, <1>c, <1>k, <3>1, <3>2
      <4>2. CASE rows[k] = None
        <5>1. calls'[r].key = k /\ calls'[r].payload = rows'[k].payload
            BY <1>c, <1>k, <1>w, <2>3, <3>1, <4>2
        <5> QED
            BY <3>1, <4>1, <5>1 DEF accounts_for
      <4>3. CASE rows[k] # None
        <5>1. accounts_for(r, k, rows[k].payload)
            BY <1>0, <1>k, <3>1, <4>3 DEF IndInv, RowsMeetCalls, past_check
        <5>2. PICK p \in Payload : p = rows[k].payload
            BY <4>3 DEF IndInv, TypeOK, Row
        <5>3. accounts_for(r, k, p)'
            BY <1>0, <1>3, <5>1, <5>2, HistoryKept DEF IndInv
        <5>4. p = rows'[k].payload
            BY <1>w, <2>3, <3>1, <4>3, <5>2
        <5> QED
            BY <3>1, <4>1, <5>3, <5>4
      <4> QED
          BY <4>2, <4>3
    <3>3. CASE calls[r].result # "paid"
      <4>1. rows[k] # None /\ rows[k].txHash = r
          BY <1>w, <2>3, <3>1, <3>3, ExecutionAssumption
      <4>2. calls[r].pc = "done"
          BY <4>1 DEF IndInv, RowsExplained
      <4> QED
          BY <1>0, <4>2
    <3> QED
        BY <3>2, <3>3
  <2> QED
      BY <2>1, <2>2, <2>3
<1>6. RowsMeetCalls'
  <2> SUFFICES ASSUME NEW q \in Request, NEW k \in Key, calls'[q].key = k, past_check(calls'[q])
               PROVE  /\ rows'[k] # None => accounts_for(q, k, rows[k].payload)'
                      /\ is_cached(rows'[k]) => overlapped(q, rows[k].txHash)'
      BY DEF RowsMeetCalls
  <2>0. q # r /\ calls[q].key = k /\ past_check(calls[q]) /\ calls[q].pc # "idle"
      BY <1>c DEF past_check
  <2>1. CASE rows'[k] = rows[k]
      BY <1>3, <2>0, <2>1, MeetingKept
  <2>2. CASE rows'[k] # rows[k]
    <3>1. k = key /\ calls[r].key = k
        BY <1>k, <1>w, <2>2
    <3>2. overlapped(r, q) /\ overlapped(q, r)
        BY <1>0, <2>0, <3>1, ExecutionAssumption DEF IndInv, OverlapsKnown, under_way, past_check, overlapped
    <3>3. overlapped(r, q)' /\ overlapped(q, r)'
        BY <1>0, <3>2 DEF overlapped
    <3>4. CASE rows[k] = None
      <4>1. calls'[r].key = k /\ calls'[r].payload = rows'[k].payload
          BY <1>c, <1>k, <1>w, <2>2, <3>1, <3>4
      <4>2. accounts_for(q, k, rows[k].payload)'
          BY <3>3, <4>1 DEF accounts_for
      <4>3. is_cached(rows'[k]) => rows'[k].txHash = r
          BY <1>w, <2>2, <3>1 DEF is_cached
      <4> QED
          BY <3>3, <4>2, <4>3
    <3>5. CASE rows[k] # None
      <4>1. PICK p \in Payload : p = rows[k].payload
          BY <3>5 DEF IndInv, TypeOK, Row
      <4>2. accounts_for(q, k, p)
          BY <2>0, <3>5, <4>1 DEF IndInv, RowsMeetCalls
      <4>3. accounts_for(q, k, p)'
          BY <1>3, <2>0, <4>2, HistoryKept DEF IndInv
      <4>4. p = rows'[k].payload /\ (is_cached(rows'[k]) => rows'[k].txHash = r)
          BY <1>w, <2>2, <3>1, <3>5, <4>1 DEF is_cached
      <4> QED
          BY <3>3, <4>3, <4>4
    <3> QED
        BY <3>4, <3>5
  <2> QED
      BY <2>1, <2>2
<1>7. ReportedPaymentsHappened'
  <2> SUFFICES ASSUME NEW s \in Request
               PROVE  /\ calls'[s].result = "paid" => calls'[s].txHash = s /\ net'[s] = "success"
                      /\ calls'[s].result = "cached" =>
                            \E h \in Request :
                               /\ calls'[s].txHash = h /\ net'[h] = "success" /\ calls'[h].key = calls'[s].key
                               /\ accounts_for(h, calls[s].key, calls[s].payload)'
      BY DEF ReportedPaymentsHappened
  <2>1. /\ calls'[s].result = calls[s].result /\ calls'[s].txHash = calls[s].txHash
        /\ calls'[s].key = calls[s].key /\ calls'[s].payload = calls[s].payload
      BY <1>c
  <2> QED
      BY <1>3, <2>1, ReportKept
<1> QED
    BY <1>1, <1>2, <1>4, <1>5, <1>6, <1>7 DEF IndInv

\* A new call preserves the invariant: it knows the calls with its key that
\* are under way.
LEMMA SubmitInv ==
    ASSUME IndInv, NEW r \in Request, NEW key \in Key \cup {None}, NEW p \in Payload,
           submitExecutePayment(r, key, p)
    PROVE  IndInv'
<1> DEFINE c == [pc |-> IF key = None THEN "account" ELSE "check", key |-> key, payload |-> p,
                 polls |-> 0, result |-> "none", txHash |-> None]
<1>0. /\ calls[r].pc = "idle" /\ calls[r].key = None /\ net[r] = "none" /\ UNCHANGED <<rows, net>>
      /\ calls \in [Request -> Call] /\ overlaps \in [Request -> SUBSET Request]
    BY DEF submitExecutePayment, IndInv, CallsConsistent, TypeOK
<1>c. /\ calls' \in [Request -> Call] /\ calls'[r] = c /\ \A s \in Request \ {r} : calls'[s] = calls[s]
  <2>1. c \in Call
      BY ExecutionAssumption DEF Call
  <2>2. calls' = [calls EXCEPT ![r] = c]
      BY DEF submitExecutePayment
  <2> QED
      BY <1>0, <2>1, <2>2
<1>f. /\ c.key = key /\ c.payload = p /\ c.result = "none"
      /\ (key = None => c.pc = "account") /\ (key # None => c.pc = "check")
    OBVIOUS
<1> HIDE DEF c
<1>o. /\ overlaps' \in [Request -> SUBSET Request]
      /\ \A s \in Request \ {r} : overlaps'[s] = overlaps[s]
      /\ \A s \in Request : key # None /\ calls[s].key = key /\ under_way(calls[s]) => s \in overlaps'[r]
    BY <1>0 DEF submitExecutePayment
<1>1. TypeOK'
    BY <1>0, <1>c, <1>o DEF IndInv, TypeOK
<1>2. CallsConsistent'
    BY <1>0, <1>c, <1>f, <1>o DEF IndInv, CallsConsistent
<1>3. Kept
    BY <1>0, <1>c, <1>o DEF Kept
<1>4. OverlapsKnown'
  <2> SUFFICES ASSUME NEW q \in Request, NEW s \in Request, q # s, calls'[q].key # None,
                      calls'[q].key = calls'[s].key, under_way(calls'[q]), under_way(calls'[s])
               PROVE  s \in overlaps'[q] \/ q \in overlaps'[s]
      BY DEF OverlapsKnown, overlapped
  <2>1. CASE q # r /\ s # r
      BY <1>c, <1>o, <2>1 DEF IndInv, OverlapsKnown, overlapped
  <2>2. CASE q = r
      BY <1>c, <1>f, <1>o, <2>2
  <2>3. CASE s = r
      BY <1>c, <1>f, <1>o, <2>3
  <2> QED
      BY <2>1, <2>2, <2>3
<1>5. RowsExplained'
  <2> SUFFICES ASSUME NEW k \in Key, NEW h \in Request, rows'[k] # None, rows'[k].txHash = h
               PROVE  /\ net'[h] = "success" /\ calls'[h].key = k /\ calls'[h].pc = "done"
                      /\ accounts_for(h, k, rows[k].payload)'
      BY DEF RowsExplained
  <2>1. \A s \in Request : calls[s].pc = "done" => calls'[s].pc = "done"
      BY <1>0, <1>c
  <2> QED
      BY <1>0, <1>3, <2>1, RowKept
<1>6. RowsMeetCalls'
  <2> SUFFICES ASSUME NEW q \in Request, NEW k \in Key, calls'[q].key = k, past_check(calls'[q])
               PROVE  /\ rows'[k] # None => accounts_for(q, k, rows[k].payload)'
                      /\ is_cached(rows'[k]) => overlapped(q, rows[k].txHash)'
      BY DEF RowsMeetCalls
  <2>1. q # r
      BY <1>c, <1>f, ExecutionAssumption DEF past_check
  <2>2. calls[q].key = k /\ past_check(calls[q]) /\ rows'[k] = rows[k]
      BY <1>0, <1>c, <2>1
  <2> QED
      BY <1>3, <2>2, MeetingKept
<1>7. ReportedPaymentsHappened'
  <2> SUFFICES ASSUME NEW s \in Request
               PROVE  /\ calls'[s].result = "paid" => calls'[s].txHash = s /\ net'[s] = "success"
                      /\ calls'[s].result = "cached" =>
                            \E h \in Request :
                               /\ calls'[s].txHash = h /\ net'[h] = "success" /\ calls'[h].key = calls'[s].key
                               /\ accounts_for(h, calls[s].key, calls[s].payload)'
      BY DEF ReportedPaymentsHappened
  <2>1. CASE s = r
      BY <1>c, <1>f, <2>1
  <2>2. CASE s # r
    <3>1. calls'[s] = calls[s]
        BY <1>c, <2>2
    <3> QED
        BY <1>3, <3>1, ReportKept
  <2> QED
      BY <2>1, <2>2
<1> QED
    BY <1>1, <1>2, <1>4, <1>5, <1>6, <1>7 DEF IndInv

\* So does a transaction that enters a ledger.
LEMMA IncludeInv ==
    ASSUME IndInv, NEW r \in Request, include(r)
    PROVE  IndInv'
<1>0. /\ net[r] = "submitted" /\ UNCHANGED <<rows, calls, overlaps>>
      /\ net' \in [Request -> NetStatus] /\ \A s \in Request \ {r} : net'[s] = net[s]
    BY DEF include, IndInv, TypeOK, NetStatus
<1>1. TypeOK'
    BY <1>0 DEF IndInv, TypeOK, NetStatus
<1>2. CallsConsistent'
  <2>1. calls[r].pc \notin {"idle", "check", "account", "simulate", "send"}
      BY <1>0 DEF IndInv, CallsConsistent
  <2> QED
      BY <1>0, <2>1 DEF IndInv, CallsConsistent
<1>3. Kept
    BY <1>0 DEF Kept
<1>4. OverlapsKnown'
    BY <1>0 DEF IndInv, OverlapsKnown, overlapped
<1>5. RowsExplained'
  <2> SUFFICES ASSUME NEW k \in Key, NEW h \in Request, rows'[k] # None, rows'[k].txHash = h
               PROVE  /\ net'[h] = "success" /\ calls'[h].key = k /\ calls'[h].pc = "done"
                      /\ accounts_for(h, k, rows[k].payload)'
      BY DEF RowsExplained
  <2> QED
      BY <1>0, <1>3, RowKept
<1>6. RowsMeetCalls'
  <2> SUFFICES ASSUME NEW q \in Request, NEW k \in Key, calls'[q].key = k, past_check(calls'[q])
               PROVE  /\ rows'[k] # None => accounts_for(q, k, rows[k].payload)'
                      /\ is_cached(rows'[k]) => overlapped(q, rows[k].txHash)'
      BY DEF RowsMeetCalls
  <2> QED
      BY <1>0, <1>3, MeetingKept
<1>7. ReportedPaymentsHappened'
  <2> SUFFICES ASSUME NEW s \in Request
               PROVE  /\ calls'[s].result = "paid" => calls'[s].txHash = s /\ net'[s] = "success"
                      /\ calls'[s].result = "cached" =>
                            \E h \in Request :
                               /\ calls'[s].txHash = h /\ net'[h] = "success" /\ calls'[h].key = calls'[s].key
                               /\ accounts_for(h, calls[s].key, calls[s].payload)'
      BY DEF ReportedPaymentsHappened
  <2> QED
      BY <1>0, <1>3, ReportKept
<1> QED
    BY <1>1, <1>2, <1>4, <1>5, <1>6, <1>7 DEF IndInv

\* The invariant holds initially.
LEMMA InvInit == Init => IndInv
<1> SUFFICES ASSUME Init PROVE IndInv
    OBVIOUS
<1>1. Idle \in Call /\ Idle.pc = "idle" /\ Idle.key = None /\ Idle.result = "none"
    BY ExecutionAssumption DEF Idle, Call
<1>2. TypeOK
    BY <1>1 DEF Init, TypeOK
<1>3. CallsConsistent /\ OverlapsKnown /\ RowsExplained /\ RowsMeetCalls /\ ReportedPaymentsHappened
    BY <1>1 DEF Init, CallsConsistent, OverlapsKnown, RowsExplained, RowsMeetCalls,
                ReportedPaymentsHappened, is_cached, past_check
<1> QED
    BY <1>2, <1>3 DEF IndInv

\* Every step of the specification preserves the invariant.
LEMMA InvStep == IndInv /\ [Next]_vars => IndInv'
<1> SUFFICES ASSUME IndInv, [Next]_vars PROVE IndInv'
    OBVIOUS
<1>1. CASE UNCHANGED vars
    BY <1>1 DEF vars, IndInv, TypeOK, CallsConsistent, OverlapsKnown, RowsExplained, RowsMeetCalls,
                ReportedPaymentsHappened, accounts_for, overlapped
<1>2. ASSUME NEW r \in Request, NEW k \in Key \cup {None}, NEW p \in Payload,
             submitExecutePayment(r, k, p)
      PROVE  IndInv'
    BY <1>2, SubmitInv
<1>3. ASSUME NEW r \in Request, CallStep(r) PROVE IndInv'
  <2>1. CASE record_outcome(r)
      BY <2>1, RecordInv
  <2>2. CASE ~record_outcome(r)
    <3>1. MoveShape(r)
        BY <1>3, <2>2, CallMoves DEF IndInv
    <3> QED
        BY <3>1, MoveInv
  <2> QED
      BY <2>1, <2>2
<1>4. ASSUME NEW r \in Request, include(r) PROVE IndInv'
    BY <1>4, IncludeInv
<1> QED
    BY <1>1, <1>2, <1>3, <1>4 DEF Next

\* The invariant holds in every reachable state.
THEOREM Invariance == Spec => []IndInv
BY InvInit, InvStep, PTL DEF Spec

\* Every variable of the helper's model keeps its type: rows, calls, and the
\* bounded number of polls.
THEOREM TypeCorrect == Spec => []TypeOK
<1>1. IndInv => TypeOK
    BY DEF IndInv
<1> QED
    BY <1>1, Invariance, PTL

\* A caller of submitExecutePayment told of a payment is told of one that was
\* made under its key; for its pair, unless the paying call overlapped with
\* one for its pair.
THEOREM ReportsCorrect == Spec => []ReportedPaymentsHappened
<1>1. IndInv => ReportedPaymentsHappened
    BY DEF IndInv
<1> QED
    BY <1>1, Invariance, PTL

\* While a success stands recorded, only calls that overlapped with the one
\* that made it send a transaction under its key or change its row.
THEOREM SuccessRemembered == Spec => SuccessIsRemembered
<1> DEFINE A == \A r \in Request :
          /\ calls[r].key # None /\ is_cached(rows[calls[r].key])
          /\ \/ net[r] = "none" /\ net'[r] = "submitted"
             \/ calls[r].pc = "record" /\ rows' # rows /\ calls'[r].pc = "done"
          => overlapped(r, rows[calls[r].key].txHash)
<1>1. IndInv /\ [Next]_vars => [A]_vars
  <2> SUFFICES ASSUME IndInv, Next, NEW r \in Request,
                      calls[r].key # None, is_cached(rows[calls[r].key]),
                      \/ net[r] = "none" /\ net'[r] = "submitted"
                      \/ calls[r].pc = "record" /\ rows' # rows /\ calls'[r].pc = "done"
               PROVE  overlapped(r, rows[calls[r].key].txHash)
      OBVIOUS
  <2>1. calls[r].key \in Key
      BY DEF IndInv, TypeOK, Call
  <2>2. CASE calls[r].pc = "record"
      BY <2>1, <2>2 DEF IndInv, RowsMeetCalls, past_check
  <2>3. CASE net[r] = "none" /\ net'[r] = "submitted"
    <3>1. ASSUME NEW s \in Request, NEW k \in Key \cup {None}, NEW p \in Payload,
                 submitExecutePayment(s, k, p)
          PROVE  FALSE
        BY <2>3, <3>1 DEF submitExecutePayment
    <3>2. ASSUME NEW s \in Request, include(s) PROVE FALSE
        BY <2>3, <3>2 DEF include, IndInv, TypeOK
    <3>3. ASSUME NEW s \in Request, CallStep(s) PROVE calls[r].pc = "send"
      <4>1. ~record_outcome(s)
          BY <2>3 DEF record_outcome
      <4>2. MoveShape(s)
          BY <3>3, <4>1, CallMoves DEF IndInv
      <4> QED
          BY <2>3, <4>2 DEF MoveShape
    <3>4. calls[r].pc = "send"
        BY <3>1, <3>2, <3>3 DEF Next
    <3> QED
        BY <2>1, <3>4 DEF IndInv, RowsMeetCalls, past_check
  <2> QED
      BY <2>2, <2>3
<1> QED
    BY <1>1, Invariance, PTL DEF Spec, SuccessIsRemembered
=============================================================================
