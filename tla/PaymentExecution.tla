-------------------------- MODULE PaymentExecution --------------------------
(* The backend's execute_payment call with an idempotency key:             *)
(* submitExecutePayment (services/executePaymentHelper.ts) over the table  *)
(* PaymentIdempotency (services/idempotencyService.ts), run by several     *)
(* requests at once, against a network that may delay or never take a      *)
(* transaction, and a contract that collects or refuses (what it decides   *)
(* is SubscriptionProtocol's subject).  Each await of the helper is a step.*)
(*                                                                         *)
(* A payload is the (subscriber, merchant) pair; token and amount are      *)
(* constant placeholders in the helper and cannot differ.  Error texts are *)
(* left out.                                                               *)
EXTENDS Naturals, FiniteSets

CONSTANTS
    Request,        \* calls of submitExecutePayment, and the names of their transactions
    Key,            \* idempotency keys
    Payload,        \* (subscriber, merchant) pairs
    None,           \* no row, no key, no transaction
    POLLS           \* iterations of the confirmation loop (20)

ASSUME ExecutionAssumption ==
    /\ POLLS \in Nat \ {0}
    /\ None \notin Request \cup Key \cup Payload

VARIABLES
    rows,       \* PaymentIdempotency, by idempotencyKey
    calls,      \* the requests
    net,        \* the transaction of each request on the network
    overlaps    \* history: the calls with its key that were under way when a call began

vars == <<rows, calls, net, overlaps>>

Row == [payload : Payload, status : {"succeeded", "failed"}, txHash : Request \cup {None}]
Call == [pc : {"idle", "check", "account", "simulate", "send", "poll", "record", "done"},
         key : Key \cup {None}, payload : Payload \cup {None}, polls : 0..POLLS,
         result : {"none", "error", "conflict", "paid", "cached"},
         txHash : Request \cup {None}]
Idle == [pc |-> "idle", key |-> None, payload |-> None, polls |-> 0,
         result |-> "none", txHash |-> None]

(* ---- idempotencyService.ts --------------------------------------------- *)

\* checkIdempotencyKey: the key was used with another payload; before it, a
\* version that lets a key whose payment failed serve another payload.
is_conflict_of_success(row, payload) ==
    row # None /\ row.status = "succeeded" /\ row.payload # payload
is_conflict(row, payload) == row # None /\ row.payload # payload
\* handleIdempotencyCheck: a cached success is returned; everything else
\* (no row, or a failure) proceeds to the execution.
is_cached(row) == row # None /\ row.status = "succeeded" /\ row.txHash # None

\* recordIdempotencySuccess and recordIdempotencyFailure: upserts.  An update
\* leaves the row's payload alone, and a failure leaves its txHash too.
succeeded(row, payload, tx) ==
    [payload |-> IF row = None THEN payload ELSE row.payload,
     status |-> "succeeded", txHash |-> tx]
failed(row, payload) ==
    [payload |-> IF row = None THEN payload ELSE row.payload,
     status |-> "failed", txHash |-> IF row = None THEN None ELSE row.txHash]

(* ---- executePaymentHelper.ts ------------------------------------------- *)

\* The call goes on to the next await; it ends; or its outcome is settled, and
\* with a key it is recorded before the call ends.
moved(c, pc, polls, result, tx) ==
    [pc |-> pc, key |-> c.key, payload |-> c.payload, polls |-> polls,
     result |-> result, txHash |-> tx]
finish(r, result, tx) ==
    calls' = [calls EXCEPT ![r] = moved(calls[r], "done", 0, result, tx)]
advance(r, pc) ==
    calls' = [calls EXCEPT ![r] = moved(calls[r], pc, 0, "none", None)]
poll_again(r) ==
    calls' = [calls EXCEPT ![r] = moved(calls[r], "poll", calls[r].polls + 1, "none", None)]
settle(r, result, tx) ==
    calls' = [calls EXCEPT ![r] = moved(calls[r], IF calls[r].key = None THEN "done" ELSE "record",
                                        0, result, tx)]
row_of(r) == IF calls[r].key = None THEN None ELSE rows[calls[r].key]

under_way(c) == c.pc \notin {"idle", "done"}

submitExecutePayment(r, k, p) ==
    /\ calls[r].pc = "idle"
    /\ calls' = [calls EXCEPT ![r] = [pc |-> IF k = None THEN "account" ELSE "check",
                                      key |-> k, payload |-> p, polls |-> 0,
                                      result |-> "none", txHash |-> None]]
    /\ overlaps' = [overlaps EXCEPT ![r] = {s \in Request : k # None /\ calls[s].key = k /\ under_way(calls[s])}]
    /\ UNCHANGED <<rows, net>>

\* handleIdempotencyCheck, and a failing query of it; before it, a version
\* that goes on to the payment when the query fails.
handleIdempotencyCheck_fail_open(r) ==
    /\ calls[r].pc = "check"
    /\ \/ is_conflict(row_of(r), calls[r].payload) /\ finish(r, "conflict", None)
       \/ is_cached(row_of(r)) /\ finish(r, "cached", row_of(r).txHash)
       \/ advance(r, "account")
    /\ UNCHANGED <<rows, net, overlaps>>
handleIdempotencyCheck(r) ==
    /\ calls[r].pc = "check"
    /\ \/ is_conflict(row_of(r), calls[r].payload) /\ finish(r, "conflict", None)
       \/ /\ ~is_conflict(row_of(r), calls[r].payload)
          /\ IF is_cached(row_of(r)) THEN finish(r, "cached", row_of(r).txHash)
                                     ELSE advance(r, "account")
       \/ finish(r, "error", None)
    /\ UNCHANGED <<rows, net, overlaps>>

\* server.getAccount; a failure here is not recorded.
getAccount(r) ==
    /\ calls[r].pc = "account"
    /\ advance(r, "simulate") \/ finish(r, "error", None)
    /\ UNCHANGED <<rows, net, overlaps>>

\* server.simulateTransaction: the contract refuses a payment that is not
\* due, or the server fails.
simulateTransaction(r) ==
    /\ calls[r].pc = "simulate"
    /\ advance(r, "send") \/ settle(r, "error", None)
    /\ UNCHANGED <<rows, net, overlaps>>

\* server.sendTransaction: it is accepted; it is refused; or the answer is
\* lost although the network has the transaction.
sendTransaction(r) ==
    /\ calls[r].pc = "send"
    /\ \/ net' = [net EXCEPT ![r] = "submitted"] /\ advance(r, "poll")
       \/ net' \in {net, [net EXCEPT ![r] = "submitted"]} /\ settle(r, "error", None)
    /\ UNCHANGED <<rows, overlaps>>

\* One iteration of the loop over server.getTransaction.  The server may not
\* have seen a transaction that is already in a ledger; a throwing call
\* leaves the helper without a record.  Before it, a version whose loop runs
\* once too often.
getTransaction_once_more(r) ==
    /\ calls[r].pc = "poll" /\ calls[r].polls <= POLLS
    /\ poll_again(r)
    /\ UNCHANGED <<rows, net, overlaps>>
getTransaction(r) ==
    /\ calls[r].pc = "poll" /\ calls[r].polls < POLLS
    /\ \/ net[r] = "success" /\ settle(r, "paid", r)
       \/ net[r] = "failed" /\ settle(r, "error", None)
       \/ poll_again(r)
       \/ finish(r, "error", None)
    /\ UNCHANGED <<rows, net, overlaps>>

\* "not confirmed after 30 s"; before it, a version that goes on polling while
\* the transaction is pending.
not_confirmed_polls_on(r) ==
    /\ calls[r].pc = "poll" /\ calls[r].polls = POLLS
    /\ net[r] # "submitted"
    /\ settle(r, "error", None)
    /\ UNCHANGED <<rows, net, overlaps>>
not_confirmed(r) ==
    /\ calls[r].pc = "poll" /\ calls[r].polls = POLLS
    /\ settle(r, "error", None)
    /\ UNCHANGED <<rows, net, overlaps>>

\* The awaited write of the outcome; an error of it is ignored.
record_outcome(r) ==
    /\ calls[r].pc = "record"
    /\ \/ rows' = [rows EXCEPT ![calls[r].key] =
                       IF calls[r].result = "paid"
                       THEN succeeded(@, calls[r].payload, calls[r].txHash)
                       ELSE failed(@, calls[r].payload)]
       \/ UNCHANGED rows
    /\ finish(r, calls[r].result, calls[r].txHash)
    /\ UNCHANGED <<net, overlaps>>

(* ---- The network and the contract -------------------------------------- *)

\* A transaction enters a ledger, whenever that is, and execute_payment
\* collects or refuses: what was due at the simulation may have been collected
\* or cancelled since, and the reverse.  One whose time bound passes first is
\* never included and stays "submitted".
include(r) ==
    /\ net[r] = "submitted"
    /\ net' \in {[net EXCEPT ![r] = "success"], [net EXCEPT ![r] = "failed"]}
    /\ UNCHANGED <<rows, calls, overlaps>>

Init ==
    /\ rows = [k \in Key |-> None]
    /\ calls = [r \in Request |-> Idle]
    /\ net = [r \in Request |-> "none"]
    /\ overlaps = [r \in Request |-> {}]

CallStep(r) ==
    \/ handleIdempotencyCheck(r)
    \/ getAccount(r)
    \/ simulateTransaction(r)
    \/ sendTransaction(r)
    \/ getTransaction(r)
    \/ not_confirmed(r)
    \/ record_outcome(r)

Next ==
    \/ \E r \in Request :
          \/ \E k \in Key \cup {None}, p \in Payload : submitExecutePayment(r, k, p)
          \/ CallStep(r) \/ include(r)

\* Every awaited promise of the helper settles: the RPC server and the
\* database answer or fail.  Nothing is assumed of the network.
Fairness == \A r \in Request : WF_vars(CallStep(r))

Spec == Init /\ [][Next]_vars /\ Fairness

-----------------------------------------------------------------------------
\* Every variable has its type.
TypeOK ==
    /\ rows \in [Key -> Row \cup {None}]
    /\ calls \in [Request -> Call]
    /\ net \in [Request -> {"none", "submitted", "success", "failed"}]
    /\ overlaps \in [Request -> SUBSET Request]

\* Two calls with one key were under way together; and call h, or one that
\* overlapped with it, was made with key k for the pair p.
overlapped(r, s) == s \in overlaps[r] \/ r \in overlaps[s]
accounts_for(h, k, p) ==
    \E s \in Request :
        calls[s].key = k /\ calls[s].payload = p /\ (s = h \/ overlapped(s, h))

\* A caller told of a payment is told of one that was made.  A call that
\* confirmed its transaction itself names its own, which charged its pair.  A
\* cached answer names the successful transaction of a call with the same
\* key; that call was for the caller's pair too, unless it overlapped with
\* one that was: the upsert of a success keeps the pair another call has
\* written (executePaymentHelper.ts:89-96 and 214-230,
\* idempotencyService.ts:230).  Calls with one key that do not overlap give
\* an answer about the caller's own pair.
ReportedPaymentsHappened ==
    \A r \in Request :
        /\ calls[r].result = "paid" => calls[r].txHash = r /\ net[r] = "success"
        /\ calls[r].result = "cached" =>
              \E h \in Request :
                 /\ calls[r].txHash = h /\ net[h] = "success"
                 /\ calls[h].key = calls[r].key
                 /\ accounts_for(h, calls[r].key, calls[r].payload)

\* While the success of a call stands recorded under a key, no other call
\* with that key sends a transaction or changes the row, except one that was
\* under way together with it: a caller's retry, however late, is answered
\* from the table (idempotencyService.ts:10-11; the check and the record are
\* two awaits with the whole payment between them).
SuccessIsRemembered ==
    [][\A r \in Request :
          /\ calls[r].key # None /\ is_cached(rows[calls[r].key])
          /\ \/ net[r] = "none" /\ net'[r] = "submitted"
             \/ calls[r].pc = "record" /\ rows' # rows /\ calls'[r].pc = "done"
          => overlapped(r, rows[calls[r].key].txHash)]_vars

\* Every call returns, also when its transaction is never confirmed: the
\* confirmation loop is bounded (executePaymentHelper.ts:210-263), so the
\* calls begun so far come to an end again and again.
EveryCallReturns == []<>(\A r \in Request : ~under_way(calls[r]))
=============================================================================
