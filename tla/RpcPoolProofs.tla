--------------------------- MODULE RpcPoolProofs ---------------------------
(* What holds of the connection pool for every number of endpoints and of  *)
(* overlapping requests, threshold and timeout.                            *)
EXTENDS RpcPool, WellFoundedInduction, TLAPS

\* The loop of request() visits every endpoint (rpcPool.ts:105-113).
LEMMA Modulo ==
    ASSUME NEW x \in 0..(2 * SIZE - 1)
    PROVE  x % SIZE = IF x < SIZE THEN x ELSE x - SIZE
<1>1. x \in Nat /\ SIZE \in Nat /\ SIZE > 0
  BY SizeAssumption
<1>2. CASE x < SIZE
  BY <1>1, <1>2, SMT
<1>3. CASE x >= SIZE
  BY <1>1, <1>3, SMT
<1>4. QED
  BY <1>1, <1>2, <1>3

\* An offset leads to an endpoint, and every endpoint is reached.
LEMMA Visits ==
    ASSUME NEW start \in Endpoints
    PROVE  /\ \A o \in Endpoints : visited(start, o) \in Endpoints
           /\ \A e \in Endpoints : \E o \in Endpoints : visited(start, o) = e
<1>0. SIZE \in Nat /\ SIZE > 0
  BY SizeAssumption
<1>1. ASSUME NEW o \in Endpoints PROVE visited(start, o) \in Endpoints
  <2>1. start + o \in 0..(2 * SIZE - 1)
    BY <1>0 DEF Endpoints
  <2>2. PICK x \in 0..(2 * SIZE - 1) : x = start + o
    BY <2>1, Zenon
  <2>3. x % SIZE = IF x < SIZE THEN x ELSE x - SIZE
    BY Modulo
  <2>4. visited(start, o) = x % SIZE
    BY <2>2, Zenon DEF visited
  <2>5. QED
    BY <1>0, <2>3, <2>4 DEF Endpoints
<1>2. ASSUME NEW e \in Endpoints PROVE \E o \in Endpoints : visited(start, o) = e
  <2>0. (IF e >= start THEN e - start ELSE e + SIZE - start) \in Endpoints
    BY <1>0 DEF Endpoints
  <2>1. PICK o \in Endpoints : o = IF e >= start THEN e - start ELSE e + SIZE - start
    BY <2>0, Zenon
  <2>2. start + o \in 0..(2 * SIZE - 1)
    BY <1>0 DEF Endpoints
  <2>3. PICK x \in 0..(2 * SIZE - 1) : x = start + o
    BY <2>2, Zenon
  <2>4. x % SIZE = IF x < SIZE THEN x ELSE x - SIZE
    BY Modulo
  <2>5. visited(start, o) = x % SIZE
    BY <2>3, Zenon DEF visited
  <2>6. x = IF e >= start THEN e ELSE e + SIZE
    BY <1>0, <2>1, <2>3 DEF Endpoints
  <2>7. visited(start, o) = e
    BY <1>0, <2>4, <2>5, <2>6 DEF Endpoints
  <2>8. QED
    BY <2>7
<1>3. QED
  BY <1>1, <1>2

\* There is a first healthy endpoint, if there is one at all.
LEMMA LeastExists ==
    ASSUME NEW T \in SUBSET Nat, T # {}
    PROVE  \E x \in T : \A y \in T : x <= y
<1> DEFINE R == OpToRel(<, Nat)
<1>1. IsWellFoundedOn(R, Nat)
  BY NatLessThanWellFounded
<1>2. \A x, y \in Nat : ~(<<y, x>> \in R) => x <= y
  BY DEF OpToRel
<1> HIDE DEF R
<1>3. PICK x \in T : \A y \in T : ~(<<y, x>> \in R)
  BY <1>1, WFMin
<1>4. \A y \in T : x \in Nat /\ y \in Nat
  OBVIOUS
<1>5. QED
  BY <1>2, <1>3, <1>4, Zenon

-----------------------------------------------------------------------------
(* Endpoints.                                                              *)

\* An endpoint is of its type and its circuit agrees with its count.
EndpointOK(ep) ==
    /\ ep \in EndpointStatus
    /\ ep.state = "unhealthy" <=> ep.consecutiveFailures >= failureThreshold
    /\ ep.state = "unhealthy" => ep.sinceFailure # None

\* An endpoint is its three fields.
LEMMA Fields ==
    ASSUME NEW ep \in EndpointStatus
    PROVE  /\ ep.state \in {"healthy", "unhealthy"}
           /\ ep.consecutiveFailures \in 0..failureThreshold
           /\ ep.sinceFailure \in 0..recoveryTimeout \cup {None}
BY DEF EndpointStatus

LEMMA Built ==
    ASSUME NEW ep \in EndpointStatus,
           NEW s \in {"healthy", "unhealthy"}, NEW c \in 0..failureThreshold,
           NEW t \in 0..recoveryTimeout \cup {None},
           s = "unhealthy" <=> c >= failureThreshold,
           s = "unhealthy" => t # None,
           NEW new,
           new = [ep EXCEPT !.state = s, !.consecutiveFailures = c, !.sinceFailure = t]
    PROVE  EndpointOK(new)
<1>1. new \in EndpointStatus
  BY DEF EndpointStatus
<1>2. new.state = s
  BY DEF EndpointStatus
<1>3. new.consecutiveFailures = c
  BY DEF EndpointStatus
<1>4. new.sinceFailure = t
  BY DEF EndpointStatus
<1>5. QED
  BY <1>1, <1>2, <1>3, <1>4 DEF EndpointOK

\* The helpers keep an endpoint in order (rpcPool.ts:189-231); a recovery or a
\* success never opens a circuit.
LEMMA RecoveredOK ==
    ASSUME NEW ep, EndpointOK(ep)
    PROVE  /\ EndpointOK(recovered(ep))
           /\ ep.state = "healthy" => recovered(ep).state = "healthy"
<1>0. ep \in EndpointStatus
  BY DEF EndpointOK
<1>1. PICK new : new = [ep EXCEPT !.state = "healthy", !.consecutiveFailures = 0]
  OBVIOUS
<1>2. new = [ep EXCEPT !.state = "healthy", !.consecutiveFailures = 0,
                       !.sinceFailure = ep.sinceFailure]
  BY <1>0, <1>1 DEF EndpointStatus
<1>3. EndpointOK(new) /\ new.state = "healthy"
  <2>1. PICK c : c = 0
    OBVIOUS
  <2>2. c \in 0..failureThreshold /\ ~(c >= failureThreshold)
    BY <2>1, SizeAssumption
  <2>3. PICK t : t = ep.sinceFailure
    OBVIOUS
  <2>4. t \in 0..recoveryTimeout \cup {None}
    BY <1>0, <2>3, Fields
  <2>5. PICK s : s = "healthy"
    OBVIOUS
  <2>6. s \in {"healthy", "unhealthy"} /\ s # "unhealthy"
    BY <2>5
  <2>7. new = [ep EXCEPT !.state = s, !.consecutiveFailures = c, !.sinceFailure = t]
    BY <1>2, <2>1, <2>3, <2>5
  <2>8. EndpointOK(new)
    BY <1>0, <2>2, <2>4, <2>6, <2>7, Built
  <2>9. new.state = s
    BY <1>0, <2>7 DEF EndpointStatus
  <2>10. QED
    BY <2>5, <2>8, <2>9, Zenon
<1>4. recovered(ep) = new \/ recovered(ep) = ep
  BY <1>1, Zenon DEF recovered
<1>5. QED
  BY <1>3, <1>4, Zenon

LEMMA SuccessOK ==
    ASSUME NEW ep, EndpointOK(ep)
    PROVE  EndpointOK(recordSuccess(ep)) /\ recordSuccess(ep).state = "healthy"
<1>0. ep \in EndpointStatus
  BY DEF EndpointOK
<1>1. PICK new : new = recordSuccess(ep)
  OBVIOUS
<1>2. new = [ep EXCEPT !.state = "healthy", !.consecutiveFailures = 0,
                       !.sinceFailure = ep.sinceFailure]
  BY <1>0, <1>1 DEF EndpointStatus, recordSuccess
<1>3. EndpointOK(new) /\ new.state = "healthy"
  <2>1. PICK c : c = 0
    OBVIOUS
  <2>2. c \in 0..failureThreshold /\ ~(c >= failureThreshold)
    BY <2>1, SizeAssumption
  <2>3. PICK t : t = ep.sinceFailure
    OBVIOUS
  <2>4. t \in 0..recoveryTimeout \cup {None}
    BY <1>0, <2>3, Fields
  <2>5. PICK s : s = "healthy"
    OBVIOUS
  <2>6. s \in {"healthy", "unhealthy"} /\ s # "unhealthy"
    BY <2>5
  <2>7. new = [ep EXCEPT !.state = s, !.consecutiveFailures = c, !.sinceFailure = t]
    BY <1>2, <2>1, <2>3, <2>5
  <2>8. EndpointOK(new)
    BY <1>0, <2>2, <2>4, <2>6, <2>7, Built
  <2>9. new.state = s
    BY <1>0, <2>7 DEF EndpointStatus
  <2>10. QED
    BY <2>5, <2>8, <2>9, Zenon
<1>4. QED
  BY <1>1, <1>3, Zenon

LEMMA FailureOK ==
    ASSUME NEW ep, EndpointOK(ep)
    PROVE  EndpointOK(recordFailure(ep))
<1>0. ep \in EndpointStatus
  BY DEF EndpointOK
<1>1. PICK c : c = failures_after(ep)
  OBVIOUS
<1>2. c \in 0..failureThreshold /\ c >= ep.consecutiveFailures
  BY <1>0, <1>1, Fields, SizeAssumption DEF failures_after
<1>3. PICK s : s = IF c >= failureThreshold THEN "unhealthy" ELSE ep.state
  OBVIOUS
<1>4. s \in {"healthy", "unhealthy"} /\ (s = "unhealthy" <=> c >= failureThreshold)
  BY <1>0, <1>2, <1>3, Fields, SizeAssumption DEF EndpointOK
<1>5. 0 \in 0..recoveryTimeout \cup {None} /\ 0 # None
  BY SizeAssumption, NoneAssumption
<1>6. PICK new : new = recordFailure(ep)
  OBVIOUS
<1>7. new = [ep EXCEPT !.state = s, !.consecutiveFailures = c, !.sinceFailure = 0]
  BY <1>0, <1>1, <1>3, <1>6 DEF EndpointStatus, recordFailure
<1>8. EndpointOK(new)
  BY <1>0, <1>2, <1>4, <1>5, <1>7, Built
<1>9. QED
  BY <1>6, <1>8, Zenon

LEMMA AgedOK ==
    ASSUME NEW ep, EndpointOK(ep), NEW new,
           new = [ep EXCEPT !.sinceFailure =
                    IF @ = None \/ @ = recoveryTimeout THEN @ ELSE @ + 1]
    PROVE  EndpointOK(new) /\ new.state = ep.state
<1>0. ep \in EndpointStatus
  BY DEF EndpointOK
<1>1. PICK t : t = IF ep.sinceFailure = None \/ ep.sinceFailure = recoveryTimeout
                   THEN ep.sinceFailure ELSE ep.sinceFailure + 1
  OBVIOUS
<1>2. t \in 0..recoveryTimeout \cup {None} /\ (t = None => ep.sinceFailure = None)
  BY <1>0, <1>1, Fields, SizeAssumption, NoneAssumption
<1>3. PICK s, c : s = ep.state /\ c = ep.consecutiveFailures
  OBVIOUS
<1>4. /\ s \in {"healthy", "unhealthy"} /\ c \in 0..failureThreshold
      /\ s = "unhealthy" <=> c >= failureThreshold
      /\ s = "unhealthy" => t # None
  BY <1>0, <1>2, <1>3, Fields DEF EndpointOK
<1>5. new = [ep EXCEPT !.state = s, !.consecutiveFailures = c, !.sinceFailure = t]
  BY <1>0, <1>1, <1>3 DEF EndpointStatus
<1>6. EndpointOK(new)
  BY <1>0, <1>2, <1>4, <1>5, Built
<1>7. new.state = s
  BY <1>0, <1>5 DEF EndpointStatus
<1>8. QED
  BY <1>3, <1>6, <1>7, Zenon

\* The pool as a whole: what recovering all, or changing one, leaves true.
PoolOK(eps) ==
    /\ eps \in [Endpoints -> EndpointStatus]
    /\ \A e \in Endpoints : EndpointOK(eps[e])

LEMMA RecoverOK ==
    ASSUME NEW eps, PoolOK(eps)
    PROVE  /\ PoolOK(maybeRecoverEndpoints(eps))
           /\ Healthy(eps) \subseteq Healthy(maybeRecoverEndpoints(eps))
<1>1. PICK new : new = maybeRecoverEndpoints(eps)
  OBVIOUS
<1>2. \A e \in Endpoints : new[e] = recovered(eps[e])
  BY <1>1 DEF maybeRecoverEndpoints
<1>3. ASSUME NEW e \in Endpoints
      PROVE  /\ EndpointOK(new[e])
             /\ eps[e].state = "healthy" => new[e].state = "healthy"
  <2>1. PICK ep : ep = eps[e]
    OBVIOUS
  <2>2. EndpointOK(ep)
    BY <2>1 DEF PoolOK
  <2>3. new[e] = recovered(ep)
    BY <1>2, <2>1, Zenon
  <2>4. QED
    BY <2>1, <2>2, <2>3, RecoveredOK, Zenon
<1>4. new \in [Endpoints -> EndpointStatus]
  <2>1. \A e \in Endpoints : new[e] \in EndpointStatus
    BY <1>3 DEF EndpointOK
  <2>2. new = [e \in Endpoints |-> new[e]]
    BY <1>1 DEF maybeRecoverEndpoints
  <2>3. QED
    BY <2>1, <2>2
<1>5. PoolOK(new)
  BY <1>3, <1>4, Zenon DEF PoolOK
<1>6. Healthy(eps) \subseteq Healthy(new)
  BY <1>3 DEF Healthy
<1>7. QED
  BY <1>1, <1>5, <1>6, Zenon

LEMMA ReplaceOK ==
    ASSUME NEW eps, PoolOK(eps), NEW e \in Endpoints, NEW ep, EndpointOK(ep), NEW new,
           new = [eps EXCEPT ![e] = ep]
    PROVE  /\ PoolOK(new)
           /\ ep.state = "healthy" => Healthy(eps) \subseteq Healthy(new)
           /\ \A f \in Endpoints : f # e => (f \in Healthy(eps) <=> f \in Healthy(new))
<1>1. \A f \in Endpoints : new[f] = IF f = e THEN ep ELSE eps[f]
  BY DEF PoolOK
<1>2. new \in [Endpoints -> EndpointStatus]
  BY DEF PoolOK, EndpointOK
<1>3. \A f \in Endpoints : EndpointOK(new[f])
  BY <1>1, Zenon DEF PoolOK
<1>4. QED
  BY <1>1, <1>2, <1>3 DEF PoolOK, Healthy

-----------------------------------------------------------------------------
(* The inductive invariant.                                                *)

\* A call waits for an endpoint it has tried, and at every offset up to its own
\* it has tried the endpoint, unless that was not healthy all the time.
Covered(call, S) ==
    \A o \in Endpoints : /\ o <= call.offset
                         /\ visited(call.startIndex, o) \in S
                         => visited(call.startIndex, o) \in call.tried

LoopOK(call, S) ==
    /\ call.pc = "waiting" => Covered(call, S)
    /\ call.pc = "exhausted" => S \subseteq call.tried

IndInv ==
    /\ TypeOK
    /\ PoolOK(endpoints)
    /\ \A r \in Requests : steady[r] \subseteq Healthy(endpoints)
    /\ \A r \in Requests : LoopOK(req[r], steady[r])

\* It has the two properties in it.
LEMMA InvImplies ==
    ASSUME IndInv
    PROVE  TypeOK /\ BreakerMatchesCount /\ NoneOverlooked
<1>1. TypeOK
  BY DEF IndInv
<1>2. BreakerMatchesCount
  BY DEF IndInv, PoolOK, EndpointOK, BreakerMatchesCount
<1>3. NoneOverlooked
  BY DEF IndInv, LoopOK, NoneOverlooked
<1>4. QED
  BY <1>1, <1>2, <1>3

\* An endpoint that goes on being covered: the set of steady endpoints shrinks.
LEMMA LoopShrinks ==
    ASSUME NEW call, NEW S, NEW T, LoopOK(call, S), T \subseteq S
    PROVE  LoopOK(call, T)
BY Zenon DEF LoopOK, Covered

\* The loop goes on from offset (rpcPool.ts:105-113): it stops at the first
\* healthy endpoint, so it passes over none that has been healthy all the time.
LEMMA TryFrom ==
    ASSUME TypeOK, NEW r \in Requests, NEW call \in Request, NEW offset \in 0..SIZE,
           NEW eps, NEW T, T \subseteq Healthy(eps),
           \A o \in Endpoints : /\ o < offset
                                /\ visited(call.startIndex, o) \in T
                                => visited(call.startIndex, o) \in call.tried,
           try_from(r, call, offset, eps)
    PROVE  /\ req' \in [Requests -> Request]
           /\ \A q \in Requests : q # r => req'[q] = req[q]
           /\ LoopOK(req'[r], T)
<1>0. call.startIndex \in Endpoints /\ call.tried \in SUBSET Endpoints
  BY DEF Request
<1> DEFINE found == {o \in Endpoints : /\ o >= offset
                                      /\ visited(call.startIndex, o) \in Healthy(eps)}
           first == CHOOSE o \in found : \A o2 \in found : o <= o2
           e     == visited(call.startIndex, first)
           gone  == [NoRequest EXCEPT !.pc = "exhausted", !.tried = call.tried]
           on    == [call EXCEPT !.pc = "waiting", !.offset = first,
                                 !.tried = @ \cup {e}, !.sentUp = up[e]]
<1>1. PICK start : start = call.startIndex
  OBVIOUS
<1>2. \A o \in Endpoints : o \in found <=> /\ o >= offset
                                           /\ visited(start, o) \in Healthy(eps)
  BY <1>1
<1>3. found \in SUBSET Endpoints
  OBVIOUS
<1>4. found # {} => first \in found /\ \A o2 \in found : first <= o2
  <2> HIDE DEF found
  <2>1. found \in SUBSET Nat
    BY <1>3 DEF Endpoints
  <2>2. QED
    BY <2>1, LeastExists
<1>5. e = visited(start, first)
  BY <1>1
<1>6. /\ gone = [NoRequest EXCEPT !.pc = "exhausted", !.tried = call.tried]
      /\ on = [call EXCEPT !.pc = "waiting", !.offset = first,
                           !.tried = @ \cup {e}, !.sentUp = up[e]]
  OBVIOUS
<1>7. req' = [req EXCEPT ![r] = IF found = {} THEN gone ELSE on]
  BY DEF try_from
<1> HIDE DEF found, first, e, gone, on
<1>8. CASE found = {}
  <2>1. gone \in Request /\ gone.pc = "exhausted" /\ gone.tried = call.tried
    <3>1. 0 \in Endpoints
      BY SizeAssumption DEF Endpoints
    <3>2. QED
      BY <1>0, <1>6, <3>1 DEF NoRequest, Request
  <2>2. req' \in [Requests -> Request] /\ req'[r] = gone
    BY <1>7, <1>8, <2>1 DEF TypeOK
  <2>3. ASSUME NEW x \in T PROVE x \in call.tried
    <3>1. x \in Endpoints
      BY <2>3 DEF Healthy
    <3>2. PICK o \in Endpoints : visited(start, o) = x
      BY <1>0, <1>1, <3>1, Visits
    <3>3. o \notin found
      BY <1>8
    <3>4. ~(o >= offset)
      BY <1>2, <2>3, <3>2, <3>3
    <3>5. o < offset
      BY <3>4, SizeAssumption DEF Endpoints
    <3>6. QED
      BY <1>1, <2>3, <3>2, <3>5
  <2>4. LoopOK(gone, T)
    BY <2>1, <2>3 DEF LoopOK
  <2>5. \A q \in Requests : q # r => req'[q] = req[q]
    BY <1>7 DEF TypeOK
  <2>6. QED
    BY <2>2, <2>4, <2>5, Zenon
<1>9. CASE found # {}
  <2>1. first \in found /\ \A o2 \in found : first <= o2
    BY <1>4, <1>9
  <2>2. first \in Endpoints /\ e \in Endpoints
    BY <1>0, <1>1, <1>3, <1>5, <2>1, Visits
  <2>3. up[e] \in BOOLEAN
    BY <2>2 DEF TypeOK
  <2>4. on \in Request
    BY <1>0, <1>6, <2>2, <2>3 DEF Request
  <2>5. on.pc = "waiting" /\ on.offset = first
    BY <1>6 DEF Request
  <2>6. on.startIndex = start
    BY <1>1, <1>6 DEF Request
  <2>7. on.tried = call.tried \cup {e}
    BY <1>6 DEF Request
  <2>8. ASSUME NEW o \in Endpoints, o <= first, visited(start, o) \in T
        PROVE  visited(start, o) \in call.tried \cup {e}
    <3>1. CASE o < offset
      BY <1>1, <2>8, <3>1
    <3>2. CASE ~(o < offset)
      <4>1. o >= offset
        BY <3>2, SizeAssumption DEF Endpoints
      <4>2. o \in found
        BY <1>2, <2>8, <4>1
      <4>3. o = first
        BY <2>1, <2>2, <2>8, <4>2, SizeAssumption DEF Endpoints
      <4>4. QED
        BY <1>5, <4>3, Zenon
    <3>3. QED
      BY <3>1, <3>2
  <2>9. LoopOK(on, T)
    <3>1. Covered(on, T)
      BY <2>5, <2>6, <2>7, <2>8, Zenon DEF Covered
    <3>2. QED
      BY <2>5, <3>1 DEF LoopOK
  <2>10. req' \in [Requests -> Request] /\ req'[r] = on
    BY <1>7, <1>9, <2>4 DEF TypeOK
  <2>11. \A q \in Requests : q # r => req'[q] = req[q]
    BY <1>7 DEF TypeOK
  <2>12. QED
    BY <2>9, <2>10, <2>11, Zenon
<1>10. QED
  BY <1>8, <1>9

-----------------------------------------------------------------------------
(* One lemma per action.                                                   *)

LEMMA InitOK == Init => IndInv
<1> SUFFICES ASSUME Init PROVE IndInv
  OBVIOUS
<1>1. 0 \in Endpoints
  BY SizeAssumption DEF Endpoints
<1>2. PICK ep : ep = [state |-> "healthy", consecutiveFailures |-> 0, sinceFailure |-> None]
  OBVIOUS
<1>3. ep \in EndpointStatus
  BY <1>2, SizeAssumption DEF EndpointStatus
<1>4. ep.state = "healthy" /\ ep.consecutiveFailures = 0
  BY <1>2
<1>5. EndpointOK(ep)
  BY <1>3, <1>4, SizeAssumption DEF EndpointOK
<1>6. endpoints = [e \in Endpoints |-> ep]
  BY <1>2, Zenon DEF Init
<1>7. PoolOK(endpoints)
  BY <1>3, <1>5, <1>6 DEF PoolOK
<1>8. NoRequest \in Request /\ NoRequest.pc = "idle"
  BY <1>1 DEF NoRequest, Request
<1>9. TypeOK
  BY <1>1, <1>3, <1>6, <1>8 DEF Init, TypeOK
<1>10. \A r \in Requests : steady[r] = {} /\ req[r].pc = "idle"
  BY <1>8 DEF Init
<1>11. QED
  BY <1>7, <1>9, <1>10 DEF IndInv, LoopOK

\* What a step has to show: the parts of the invariant, for the new state.
LEMMA Assemble ==
    ASSUME PoolOK(endpoints'), currentIndex' \in Endpoints,
           req' \in [Requests -> Request], steady' \in [Requests -> SUBSET Endpoints],
           up' \in [Endpoints -> BOOLEAN],
           \A r \in Requests : steady'[r] \subseteq Healthy(endpoints'),
           \A r \in Requests : LoopOK(req'[r], steady'[r])
    PROVE  IndInv'
<1>1. endpoints' \in [Endpoints -> EndpointStatus]
  BY DEF PoolOK
<1>2. TypeOK'
  BY <1>1 DEF TypeOK
<1>3. QED
  BY <1>2, Zenon DEF IndInv

\* request: the loop begins with every endpoint that is healthy after the
\* recoveries as the ones to try (rpcPool.ts:98-113).
LEMMA RequestStep ==
    ASSUME IndInv, NEW r \in Requests, request(r)
    PROVE  IndInv'
<1>1. PICK eps : eps = maybeRecoverEndpoints(endpoints)
  OBVIOUS
<1>2. /\ TypeOK /\ PoolOK(endpoints)
      /\ \A q \in Requests : steady[q] \subseteq Healthy(endpoints)
      /\ \A q \in Requests : LoopOK(req[q], steady[q])
  BY DEF IndInv
<1>3. PoolOK(eps) /\ Healthy(endpoints) \subseteq Healthy(eps)
  BY <1>1, <1>2, RecoverOK, Zenon
<1>4. PICK call : call = [req[r] EXCEPT !.startIndex = currentIndex, !.tried = {}]
  OBVIOUS
<1>5. /\ endpoints' = eps
      /\ try_from(r, call, 0, eps)
      /\ steady' = [steady EXCEPT ![r] = Healthy(eps)]
      /\ UNCHANGED <<currentIndex, up>>
  BY <1>1, <1>4, Zenon DEF request
<1>6. req[r] \in Request /\ currentIndex \in Endpoints
  BY <1>2 DEF TypeOK
<1>7. call \in Request
  BY <1>4, <1>6 DEF Request
<1>8. PICK z : z = 0
  OBVIOUS
<1>9. z \in 0..SIZE /\ \A o \in Endpoints : ~(o < z)
  BY <1>8, SizeAssumption DEF Endpoints
<1>10. PICK T : T = Healthy(eps)
  OBVIOUS
<1>11. T \in SUBSET Endpoints
  BY <1>10 DEF Healthy
<1>12. try_from(r, call, z, eps)
  BY <1>5, <1>8
<1>13. /\ req' \in [Requests -> Request]
       /\ \A q \in Requests : q # r => req'[q] = req[q]
       /\ LoopOK(req'[r], T)
  BY <1>2, <1>7, <1>9, <1>10, <1>12, TryFrom
<1>14. /\ steady' \in [Requests -> SUBSET Endpoints]
       /\ steady'[r] = T
       /\ \A q \in Requests : q # r => steady'[q] = steady[q]
  BY <1>2, <1>5, <1>10, <1>11 DEF TypeOK
<1>15. \A q \in Requests : steady'[q] \subseteq Healthy(endpoints')
  BY <1>2, <1>3, <1>5, <1>10, <1>14
<1>16. \A q \in Requests : LoopOK(req'[q], steady'[q])
  BY <1>2, <1>13, <1>14, Zenon
<1>17. currentIndex' \in Endpoints /\ up' \in [Endpoints -> BOOLEAN]
  BY <1>2, <1>5 DEF TypeOK
<1>18. QED
  BY <1>3, <1>5, <1>13, <1>14, <1>15, <1>16, <1>17, Assemble

\* answer: the endpoint is healthy afterwards and the call over (:116-125).
LEMMA AnswerStep ==
    ASSUME IndInv, NEW r \in Requests, answer(r)
    PROVE  IndInv'
<1>1. PICK e : e = waiting_for(r)
  OBVIOUS
<1>2. /\ TypeOK /\ PoolOK(endpoints)
      /\ \A q \in Requests : steady[q] \subseteq Healthy(endpoints)
      /\ \A q \in Requests : LoopOK(req[q], steady[q])
  BY DEF IndInv
<1>3. req[r].startIndex \in Endpoints /\ req[r].offset \in Endpoints
  BY <1>2 DEF TypeOK, Request
<1>4. e \in Endpoints
  BY <1>1, <1>3, Visits DEF waiting_for
<1>5. PICK ep : ep = recordSuccess(endpoints[e])
  OBVIOUS
<1>6. EndpointOK(endpoints[e])
  BY <1>2, <1>4 DEF PoolOK
<1>7. EndpointOK(ep) /\ ep.state = "healthy"
  BY <1>5, <1>6, SuccessOK, Zenon
<1>8. /\ endpoints' = [endpoints EXCEPT ![e] = ep]
      /\ currentIndex' = IF req[r].offset = 0 THEN next_index(e) ELSE currentIndex
      /\ req' = [req EXCEPT ![r] = NoRequest]
      /\ steady' = [steady EXCEPT ![r] = {}]
      /\ UNCHANGED up
  BY <1>1, <1>5 DEF answer
<1>9. PICK new : new = endpoints'
  OBVIOUS
<1>10. PoolOK(new) /\ Healthy(endpoints) \subseteq Healthy(new)
  BY <1>2, <1>4, <1>7, <1>8, <1>9, ReplaceOK
<1>11. next_index(e) \in Endpoints
  <2>1. e + 1 \in 0..(2 * SIZE - 1)
    BY <1>4, SizeAssumption DEF Endpoints
  <2>2. PICK x \in 0..(2 * SIZE - 1) : x = e + 1
    BY <2>1, Zenon
  <2>3. x % SIZE = IF x < SIZE THEN x ELSE x - SIZE
    BY Modulo
  <2>4. next_index(e) = x % SIZE
    BY <2>2, Zenon DEF next_index
  <2>5. QED
    BY <2>3, <2>4, SizeAssumption DEF Endpoints
<1>12. NoRequest \in Request /\ NoRequest.pc = "idle"
  <2>1. 0 \in Endpoints
    BY SizeAssumption DEF Endpoints
  <2>2. QED
    BY <2>1 DEF NoRequest, Request
<1>13. /\ req' \in [Requests -> Request]
       /\ req'[r].pc = "idle"
       /\ \A q \in Requests : q # r => req'[q] = req[q]
  BY <1>2, <1>8, <1>12 DEF TypeOK
<1>14. /\ steady' \in [Requests -> SUBSET Endpoints]
       /\ steady'[r] = {}
       /\ \A q \in Requests : q # r => steady'[q] = steady[q]
  BY <1>2, <1>8 DEF TypeOK
<1>15. LoopOK(req'[r], steady'[r])
  BY <1>13 DEF LoopOK
<1>16. \A q \in Requests : LoopOK(req'[q], steady'[q])
  BY <1>2, <1>13, <1>14, <1>15, Zenon
<1>17. \A q \in Requests : steady'[q] \subseteq Healthy(endpoints')
  BY <1>2, <1>9, <1>10, <1>14
<1>18. currentIndex' \in Endpoints /\ up' \in [Endpoints -> BOOLEAN]
  BY <1>2, <1>8, <1>11 DEF TypeOK
<1>19. PoolOK(endpoints')
  BY <1>9, <1>10
<1>20. QED
  BY <1>13, <1>14, <1>16, <1>17, <1>18, <1>19, Assemble

\* failure: the endpoint that failed is in the set of those tried, and the
\* loop goes on behind it (:106-113 and :126-131).
LEMMA FailureStep ==
    ASSUME IndInv, NEW r \in Requests, failure(r)
    PROVE  IndInv'
<1>1. PICK e : e = waiting_for(r)
  OBVIOUS
<1>2. /\ TypeOK /\ PoolOK(endpoints)
      /\ \A q \in Requests : steady[q] \subseteq Healthy(endpoints)
      /\ \A q \in Requests : LoopOK(req[q], steady[q])
  BY DEF IndInv
<1>3. req[r].startIndex \in Endpoints /\ req[r].offset \in Endpoints /\ req[r] \in Request
  BY <1>2 DEF TypeOK, Request
<1>4. e \in Endpoints
  BY <1>1, <1>3, Visits DEF waiting_for
<1>5. PICK ep : ep = recordFailure(endpoints[e])
  OBVIOUS
<1>6. EndpointOK(ep)
  BY <1>2, <1>4, <1>5, FailureOK DEF PoolOK
<1>7. PICK eps : eps = [endpoints EXCEPT ![e] = ep]
  OBVIOUS
<1>8. PoolOK(eps)
  BY <1>2, <1>4, <1>6, <1>7, ReplaceOK
<1>9. PICK new : new = IF req[r].offset = SIZE - 1 THEN eps ELSE maybeRecoverEndpoints(eps)
  OBVIOUS
<1>10. PoolOK(new) /\ Healthy(eps) \subseteq Healthy(new)
  BY <1>8, <1>9, RecoverOK, Zenon
<1>11. PICK next : next = req[r].offset + 1
  OBVIOUS
<1>12. /\ req[r].pc = "waiting"
       /\ endpoints' = new
       /\ try_from(r, req[r], next, new)
       /\ steady' = [q \in Requests |-> steady[q] \cap Healthy(eps)]
       /\ UNCHANGED <<currentIndex, up>>
  BY <1>1, <1>5, <1>7, <1>9, <1>11 DEF failure
<1>13. /\ steady' \in [Requests -> SUBSET Endpoints]
       /\ \A q \in Requests : steady'[q] \subseteq steady[q] /\ steady'[q] \subseteq Healthy(new)
  BY <1>2, <1>10, <1>12 DEF TypeOK
<1>14. PICK T : T = steady'[r]
  OBVIOUS
<1>15. next \in 0..SIZE /\ \A o \in Endpoints : o < next => o <= req[r].offset
  BY <1>3, <1>11, SizeAssumption DEF Endpoints
<1>16. Covered(req[r], steady[r])
  BY <1>2, <1>12 DEF LoopOK
<1>17. \A o \in Endpoints : /\ o < next
                            /\ visited(req[r].startIndex, o) \in T
                            => visited(req[r].startIndex, o) \in req[r].tried
  BY <1>13, <1>14, <1>15, <1>16 DEF Covered
<1>18. /\ req' \in [Requests -> Request]
       /\ \A q \in Requests : q # r => req'[q] = req[q]
       /\ LoopOK(req'[r], T)
  BY <1>2, <1>3, <1>12, <1>13, <1>14, <1>15, <1>17, TryFrom
<1>19. ASSUME NEW q \in Requests PROVE LoopOK(req'[q], steady'[q])
  <2>1. CASE q = r
    BY <1>14, <1>18, <2>1, Zenon
  <2>2. CASE q # r
    BY <1>2, <1>13, <1>18, <2>2, LoopShrinks, Zenon
  <2>3. QED
    BY <2>1, <2>2
<1>20. currentIndex' \in Endpoints /\ up' \in [Endpoints -> BOOLEAN]
  BY <1>2, <1>12 DEF TypeOK
<1>21. QED
  BY <1>10, <1>12, <1>13, <1>18, <1>19, <1>20, Assemble

\* The health report, the pointer and the clock leave every call alone and
\* open no circuit (:140-182).
LEMMA PoolStep ==
    ASSUME IndInv, PoolOK(endpoints'), Healthy(endpoints) \subseteq Healthy(endpoints'),
           currentIndex' \in Endpoints, up' \in [Endpoints -> BOOLEAN],
           UNCHANGED <<req, steady>>
    PROVE  IndInv'
<1>1. /\ TypeOK
      /\ \A q \in Requests : steady[q] \subseteq Healthy(endpoints)
      /\ \A q \in Requests : LoopOK(req[q], steady[q])
  BY DEF IndInv
<1>2. req' \in [Requests -> Request] /\ steady' \in [Requests -> SUBSET Endpoints]
  BY <1>1 DEF TypeOK
<1>3. \A q \in Requests : steady'[q] \subseteq Healthy(endpoints')
  BY <1>1
<1>4. \A q \in Requests : LoopOK(req'[q], steady'[q])
  BY <1>1
<1>5. QED
  BY <1>2, <1>3, <1>4, Assemble

LEMMA ActiveUrlStep ==
    ASSUME IndInv, activeUrl
    PROVE  IndInv'
<1> DEFINE eps   == maybeRecoverEndpoints(endpoints)
           found == {o \in Endpoints : visited(currentIndex, o) \in Healthy(eps)}
           first == CHOOSE o \in found : \A o2 \in found : o <= o2
<1>1. TypeOK /\ PoolOK(endpoints) /\ currentIndex \in Endpoints
  BY DEF IndInv, TypeOK
<1>2. found # {} => first \in found
  <2>1. found \in SUBSET Nat
    BY DEF Endpoints
  <2> HIDE DEF found
  <2>2. QED
    BY <2>1, LeastExists
<1>3. found \in SUBSET Endpoints
  OBVIOUS
<1>4. /\ endpoints' = eps
      /\ currentIndex' = IF found = {} THEN currentIndex ELSE visited(currentIndex, first)
      /\ UNCHANGED <<req, steady, up>>
  BY DEF activeUrl
<1>5. PoolOK(eps) /\ Healthy(endpoints) \subseteq Healthy(eps)
  BY <1>1, RecoverOK, Zenon
<1> HIDE DEF eps, found, first
<1>6. currentIndex' \in Endpoints
  BY <1>1, <1>2, <1>3, <1>4, Visits
<1>7. up' \in [Endpoints -> BOOLEAN]
  BY <1>1, <1>4 DEF TypeOK
<1>8. QED
  BY <1>4, <1>5, <1>6, <1>7, PoolStep

LEMMA TickStep ==
    ASSUME IndInv, tick
    PROVE  IndInv'
<1>1. TypeOK /\ PoolOK(endpoints)
  BY DEF IndInv
<1>2. ASSUME NEW e \in Endpoints
      PROVE  EndpointOK(endpoints'[e]) /\ endpoints'[e].state = endpoints[e].state
  <2>1. PICK ep : ep = endpoints[e]
    OBVIOUS
  <2>2. PICK new : new = endpoints'[e]
    OBVIOUS
  <2>3. new = [ep EXCEPT !.sinceFailure =
                 IF @ = None \/ @ = recoveryTimeout THEN @ ELSE @ + 1]
    BY <2>1, <2>2 DEF tick
  <2>4. EndpointOK(ep)
    BY <1>1, <2>1 DEF PoolOK
  <2>5. EndpointOK(new) /\ new.state = ep.state
    BY <2>3, <2>4, AgedOK, Zenon
  <2>6. QED
    BY <2>1, <2>2, <2>5, Zenon
<1>3. PoolOK(endpoints')
  <2>1. \A e \in Endpoints : endpoints'[e] \in EndpointStatus
    BY <1>2 DEF EndpointOK
  <2>2. endpoints' = [e \in Endpoints |-> endpoints'[e]]
    BY DEF tick
  <2>3. endpoints' \in [Endpoints -> EndpointStatus]
    BY <2>1, <2>2
  <2>4. QED
    BY <1>2, <2>3, Zenon DEF PoolOK
<1>4. Healthy(endpoints) \subseteq Healthy(endpoints')
  BY <1>2 DEF Healthy
<1>5. /\ currentIndex' \in Endpoints /\ up' \in [Endpoints -> BOOLEAN]
      /\ UNCHANGED <<req, steady>>
  BY <1>1 DEF tick, TypeOK
<1>6. QED
  BY <1>3, <1>4, <1>5, PoolStep

LEMMA NextStep == IndInv /\ [Next]_vars => IndInv'
<1> SUFFICES ASSUME IndInv, [Next]_vars PROVE IndInv'
  OBVIOUS
<1>0. TypeOK /\ PoolOK(endpoints)
  BY DEF IndInv
<1>1. ASSUME NEW r \in Requests, request(r) PROVE IndInv'
  BY <1>1, RequestStep
<1>2. ASSUME NEW r \in Requests, answer(r) PROVE IndInv'
  BY <1>2, AnswerStep
<1>3. ASSUME NEW r \in Requests, failure(r) PROVE IndInv'
  BY <1>3, FailureStep
<1>4. CASE getStatus
  <2>1. PoolOK(endpoints') /\ Healthy(endpoints) \subseteq Healthy(endpoints')
    BY <1>0, <1>4, RecoverOK, Zenon DEF getStatus
  <2>2. /\ currentIndex' \in Endpoints /\ up' \in [Endpoints -> BOOLEAN]
        /\ UNCHANGED <<req, steady>>
    BY <1>0, <1>4 DEF getStatus, TypeOK
  <2>3. QED
    BY <2>1, <2>2, PoolStep
<1>5. CASE activeUrl
  BY <1>5, ActiveUrlStep
<1>6. CASE tick
  BY <1>6, TickStep
<1>7. ASSUME NEW e \in Endpoints, endpoint_changes(e) PROVE IndInv'
  <2>1. PoolOK(endpoints') /\ Healthy(endpoints) \subseteq Healthy(endpoints')
    BY <1>0, <1>7, Zenon DEF endpoint_changes
  <2>2. /\ currentIndex' \in Endpoints /\ up' \in [Endpoints -> BOOLEAN]
        /\ UNCHANGED <<req, steady>>
    BY <1>0, <1>7 DEF endpoint_changes, TypeOK
  <2>3. QED
    BY <2>1, <2>2, PoolStep
<1>8. CASE UNCHANGED vars
  BY <1>8 DEF vars, IndInv, TypeOK
<1>9. QED
  BY <1>1, <1>2, <1>3, <1>4, <1>5, <1>6, <1>7, <1>8 DEF Next

-----------------------------------------------------------------------------
(* The theorems.                                                           *)

\* The inductive invariant holds in every reachable state.
THEOREM Invariance == Spec => []IndInv
<1>1. Init => IndInv
  BY InitOK
<1>2. IndInv /\ [Next]_vars => IndInv'
  BY NextStep
<1>3. QED
  BY <1>1, <1>2, PTL DEF Spec

\* The pointer, the loops and the endpoints keep their types (rpcPool.ts:121):
\* for every size of the pool no index leaves it.
THEOREM TypeCorrect == Spec => []TypeOK
<1>1. IndInv => TypeOK
  BY InvImplies
<1>2. QED
  BY <1>1, Invariance, PTL

\* A circuit is open exactly from the threshold on and can close again
\* (rpcPool.ts:189-231), whatever calls overlap.
THEOREM BreakerHolds == Spec => []BreakerMatchesCount
<1>1. IndInv => BreakerMatchesCount
  BY InvImplies
<1>2. QED
  BY <1>1, Invariance, PTL

\* A call that gives up has tried every endpoint that was healthy since it
\* began (rpcPool.ts:105-137), for every number of overlapping calls.
THEOREM NoneOverlookedHolds == Spec => []NoneOverlooked
<1>1. IndInv => NoneOverlooked
  BY InvImplies
<1>2. QED
  BY <1>1, Invariance, PTL
=============================================================================
