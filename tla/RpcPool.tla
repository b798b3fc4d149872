------------------------------ MODULE RpcPool ------------------------------
(***************************************************************************)
(* backend/src/rpc/rpcPool.ts: RpcConnectionPool, a round-robin pool of    *)
(* RPC endpoints with a circuit breaker.                                   *)
(*                                                                         *)
(* Calls of request() overlap: each is suspended while its HTTP request is *)
(* under way, and what runs between two awaits is one step.  Only the age  *)
(* of an endpoint's last failure matters, so that is what is kept, up to   *)
(* the recovery timeout.  The counters of the health report are left out.  *)
(***************************************************************************)
EXTENDS Naturals, FiniteSets

CONSTANTS
    SIZE,               \* endpoints, without duplicates
    failureThreshold,
    recoveryTimeout,    \* in ticks of the clock
    Requests,           \* overlapping calls of request()
    None                \* null

ASSUME SizeAssumption ==
    /\ SIZE \in Nat \ {0} /\ failureThreshold \in Nat \ {0} /\ recoveryTimeout \in Nat

ASSUME NoneAssumption == None \notin Nat

Endpoints == 0..(SIZE - 1)

VARIABLES
    endpoints,      \* EndpointStatus
    currentIndex,
    req,            \* the calls of request()
    steady,         \* history: the endpoints healthy since the call began
    up              \* the endpoints that answer

vars == <<endpoints, currentIndex, req, steady, up>>

EndpointStatus ==
    [state : {"healthy", "unhealthy"}, consecutiveFailures : 0..failureThreshold,
     sinceFailure : 0..recoveryTimeout \cup {None}]

\* A call: where its loop began and is, the endpoints it has tried, and
\* whether the one it waits for was up when the HTTP request was sent.
Request ==
    [pc : {"idle", "waiting", "exhausted"}, startIndex : Endpoints,
     offset : Endpoints, tried : SUBSET Endpoints, sentUp : BOOLEAN]

NoRequest ==
    [pc |-> "idle", startIndex |-> 0, offset |-> 0, tried |-> {}, sentUp |-> FALSE]

\* The pointer and every loop stay within the pool, and endpoints and calls
\* keep their types.
TypeOK ==
    /\ endpoints \in [Endpoints -> EndpointStatus]
    /\ currentIndex \in Endpoints
    /\ req \in [Requests -> Request]
    /\ steady \in [Requests -> SUBSET Endpoints]
    /\ up \in [Endpoints -> BOOLEAN]

Init ==
    /\ endpoints = [e \in Endpoints |->
         [state |-> "healthy", consecutiveFailures |-> 0, sinceFailure |-> None]]
    /\ currentIndex = 0
    /\ req = [r \in Requests |-> NoRequest]
    /\ steady = [r \in Requests |-> {}]
    /\ up = [e \in Endpoints |-> TRUE]

Healthy(eps) == {e \in Endpoints : eps[e].state = "healthy"}

-----------------------------------------------------------------------------
\* A faulty version: the count of failures survives the recovery.
recovered_counting(ep) ==
    IF /\ ep.state = "unhealthy"
       /\ ep.sinceFailure # None
       /\ ep.sinceFailure >= recoveryTimeout
      THEN [ep EXCEPT !.state = "healthy"]
      ELSE ep

recovered(ep) ==
    IF /\ ep.state = "unhealthy"
       /\ ep.sinceFailure # None
       /\ ep.sinceFailure >= recoveryTimeout
      THEN [ep EXCEPT !.state = "healthy", !.consecutiveFailures = 0]
      ELSE ep

maybeRecoverEndpoints(eps) == [e \in Endpoints |-> recovered(eps[e])]

recordSuccess(ep) == [ep EXCEPT !.state = "healthy", !.consecutiveFailures = 0]

\* The count goes up even when the circuit is open; from the threshold on its
\* value makes no difference.
failures_after(ep) ==
    IF ep.consecutiveFailures < failureThreshold
      THEN ep.consecutiveFailures + 1 ELSE failureThreshold

\* A faulty version: the time of the failure is not kept.
recordFailure_untimed(ep) ==
    [ep EXCEPT !.consecutiveFailures = failures_after(ep),
               !.state = IF failures_after(ep) >= failureThreshold
                         THEN "unhealthy" ELSE @]

recordFailure(ep) ==
    [ep EXCEPT !.consecutiveFailures = failures_after(ep),
               !.sinceFailure = 0,
               !.state = IF failures_after(ep) >= failureThreshold
                         THEN "unhealthy" ELSE @]

\* A faulty version: overlapping calls move the start of the loop.
visited_from_current(start, offset) == (currentIndex + offset) % SIZE

\* The endpoint a loop that began at start visits.
visited(start, offset) == (start + offset) % SIZE

\* The loop of request(), from offset on: the first healthy endpoint is tried,
\* and if there is none the call throws.
try_from(r, call, offset, eps) ==
    LET found == {o \in Endpoints : /\ o >= offset
                                    /\ visited(call.startIndex, o) \in Healthy(eps)}
        first == CHOOSE o \in found : \A o2 \in found : o <= o2
        e     == visited(call.startIndex, first)
    IN  req' = [req EXCEPT ![r] =
          IF found = {} THEN [NoRequest EXCEPT !.pc = "exhausted", !.tried = call.tried]
          ELSE [call EXCEPT !.pc = "waiting", !.offset = first,
                            !.tried = @ \cup {e}, !.sentUp = up[e]]]

-----------------------------------------------------------------------------
(* request()                                                               *)

request(r) ==
    LET eps == maybeRecoverEndpoints(endpoints) IN
    /\ req[r].pc # "waiting"
    /\ endpoints' = eps
    /\ try_from(r, [req[r] EXCEPT !.startIndex = currentIndex, !.tried = {}], 0, eps)
    /\ steady' = [steady EXCEPT ![r] = Healthy(eps)]
    /\ UNCHANGED <<currentIndex, up>>

next_index(e) == (e + 1) % SIZE

waiting_for(r) == visited(req[r].startIndex, req[r].offset)

\* sendRequest returns: an answer of the endpoint, be it of the time before
\* it went down.
answer(r) ==
    LET e == waiting_for(r) IN
    /\ req[r].pc = "waiting"
    /\ up[e] \/ req[r].sentUp
    /\ endpoints' = [endpoints EXCEPT ![e] = recordSuccess(@)]
    /\ currentIndex' = IF req[r].offset = 0 THEN next_index(e) ELSE currentIndex
    /\ req' = [req EXCEPT ![r] = NoRequest]
    /\ steady' = [steady EXCEPT ![r] = {}]
    /\ UNCHANGED up

\* sendRequest throws: an error, a refusal or a timeout.  The loop goes on.
failure(r) ==
    LET e   == waiting_for(r)
        eps == [endpoints EXCEPT ![e] = recordFailure(@)]
        new == IF req[r].offset = SIZE - 1 THEN eps ELSE maybeRecoverEndpoints(eps)
    IN  /\ req[r].pc = "waiting"
        /\ ~up[e] \/ ~req[r].sentUp
        /\ endpoints' = new
        /\ try_from(r, req[r], req[r].offset + 1, new)
        /\ steady' = [q \in Requests |-> steady[q] \cap Healthy(eps)]
        /\ UNCHANGED <<currentIndex, up>>

-----------------------------------------------------------------------------
(* The health report, which also recovers endpoints, and the environment.  *)

\* getStatus and healthyCount.
getStatus ==
    /\ endpoints' = maybeRecoverEndpoints(endpoints)
    /\ UNCHANGED <<currentIndex, req, steady, up>>

\* activeUrl: pickEndpoint moves the pointer to a healthy endpoint.
activeUrl ==
    LET eps   == maybeRecoverEndpoints(endpoints)
        found == {o \in Endpoints : visited(currentIndex, o) \in Healthy(eps)}
        first == CHOOSE o \in found : \A o2 \in found : o <= o2
    IN  /\ endpoints' = eps
        /\ currentIndex' = IF found = {} THEN currentIndex
                           ELSE visited(currentIndex, first)
        /\ UNCHANGED <<req, steady, up>>

tick ==
    /\ endpoints' = [e \in Endpoints |->
         [endpoints[e] EXCEPT !.sinceFailure =
            IF @ = None \/ @ = recoveryTimeout THEN @ ELSE @ + 1]]
    /\ UNCHANGED <<currentIndex, req, steady, up>>

\* An endpoint fails, limits its rate, or comes back.
endpoint_changes(e) ==
    /\ up' = [up EXCEPT ![e] = ~@]
    /\ UNCHANGED <<endpoints, currentIndex, req, steady>>

Next ==
    \/ \E r \in Requests : request(r) \/ answer(r) \/ failure(r)
    \/ getStatus \/ activeUrl
    \/ tick
    \/ \E e \in Endpoints : endpoint_changes(e)

Spec == Init /\ [][Next]_vars

\* Time passes, and an HTTP request is answered or times out.
FairSpec ==
    /\ Spec
    /\ WF_vars(tick)
    /\ \A r \in Requests : WF_vars(answer(r) \/ failure(r))

-----------------------------------------------------------------------------
(* Properties.                                                             *)

\* The circuit is open exactly from the threshold of consecutive failures on,
\* and an open one has the time its recovery is counted from, whatever late
\* successes, late failures and recoveries overlap: an endpoint cannot be
\* closed for good, nor go on being tried after the threshold.
BreakerMatchesCount ==
    \A e \in Endpoints :
        LET ep == endpoints[e] IN
        /\ ep.state = "unhealthy" <=> ep.consecutiveFailures >= failureThreshold
        /\ ep.state = "unhealthy" => ep.sinceFailure # None

\* A call gives up only after trying every endpoint that has been healthy
\* since it began, although overlapping calls move the round-robin pointer
\* and open and close circuits while it waits.
NoneOverlooked ==
    \A r \in Requests : req[r].pc = "exhausted" => steady[r] \subseteq req[r].tried

\* An endpoint that is up for good is healthy for good after a while, if calls
\* keep coming: late failures cannot keep its circuit open.
EventuallyHealthy ==
    \A e \in Endpoints :
        (<>[]up[e] /\ []<><<\E r \in Requests : request(r)>>_vars)
            => <>[](endpoints[e].state = "healthy")
=============================================================================
