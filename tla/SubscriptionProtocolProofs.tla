-------------------- MODULE SubscriptionProtocolProofs --------------------
(* What holds of the subscription contract for every value of its constants. *)
EXTENDS SubscriptionProtocol, TLAPS

\* A fee of at most 10_000 basis points is part of the amount (lib.rs:889).
LEMMA FeeIsPart ==
    ASSUME NEW amount \in Nat, NEW bps \in 0..BPS_SCALE
    PROVE  (amount * bps) \div BPS_SCALE \in 0..amount
<1>1. amount * bps \in Nat /\ amount * bps <= amount * BPS_SCALE
  BY DEF BPS_SCALE
<1>2. PICK x \in Nat : x = amount * bps
  BY <1>1, Zenon
<1>3. x <= amount * BPS_SCALE
  BY <1>1, <1>2, Zenon
<1>4. x \div BPS_SCALE \in 0..amount
  BY <1>3, SMT DEF BPS_SCALE
<1>5. QED
  BY <1>2, <1>4, Zenon

\* The fee of a collection, under whatever is configured (lib.rs:887-893).
LEMMA FeeAmountType ==
    ASSUME TypeOK, NEW amount \in 1..MAX_AMOUNT
    PROVE  fee_amount(amount) \in 0..amount
<1>1. CASE fee = None
  BY <1>1, LimitsAssumption DEF fee_amount
<1>2. CASE fee # None
  <2>1. fee \in ProtocolFeeConfig
    BY <1>2 DEF TypeOK
  <2>2. PICK bps \in 0..MAX_FEE_BPS : bps = fee.fee_bps
    BY <2>1 DEF ProtocolFeeConfig
  <2>3. bps \in 0..BPS_SCALE
    BY LimitsAssumption DEF BPS_SCALE
  <2>4. amount \in Nat
    BY LimitsAssumption
  <2>5. (amount * bps) \div BPS_SCALE \in 0..amount
    BY <2>3, <2>4, FeeIsPart, Zenon
  <2>6. QED
    BY <1>2, <2>2, <2>5 DEF fee_amount
<1>3. QED
  BY <1>1, <1>2

\* The transfers of a collection that does not trap leave proper balances, as
\* the balance check came first (lib.rs:875 and :896-905).
LEMMA PayType ==
    ASSUME TypeOK, NEW t \in Tokens, NEW p \in Pair, NEW amount \in 1..MAX_AMOUNT,
           balance[t][p[1]] >= amount,
           \A a \in Address : ~(pay(balance[t], p, amount)[a] > I128_MAX)
    PROVE  pay(balance[t], p, amount) \in [Address -> 0..I128_MAX]
<1> DEFINE cut == fee_amount(amount)
<1> DEFINE paid == transfer(balance[t], p[1], p[2], amount - cut)
<1>1. cut \in 0..amount /\ amount \in Nat
  BY FeeAmountType, LimitsAssumption
<1>2. balance[t] \in [Address -> 0..I128_MAX] /\ I128_MAX \in Nat
  BY LimitsAssumption DEF TypeOK, Balances
<1>3. p[1] \in Address /\ p[2] \in Address
  BY PartiesAssumption DEF Pair
<1>4. cut > 0 => fee.fee_collector \in Address
  BY DEF fee_amount, TypeOK, ProtocolFeeConfig
<1> HIDE DEF cut
<1>5. /\ paid \in [Address -> Nat]
      /\ paid[p[1]] >= cut
  BY <1>1, <1>2, <1>3 DEF transfer
<1> HIDE DEF paid
<1>6. pay(balance[t], p, amount) =
        IF cut > 0 THEN transfer(paid, p[1], fee.fee_collector, cut) ELSE paid
  BY DEF pay, cut, paid
<1>7. pay(balance[t], p, amount) \in [Address -> Nat]
  BY <1>1, <1>3, <1>4, <1>5, <1>6 DEF transfer
<1>8. QED
  BY <1>2, <1>7

\* Storing one field of a record at a time.
LEMMA RecordFields ==
    ASSUME NEW d \in SubscriptionData
    PROVE  /\ \A x \in 1..MAX_AMOUNT : [d EXCEPT !.amount = x] \in SubscriptionData
           /\ \A x \in MIN_INTERVAL..MAX_INTERVAL :
                 [d EXCEPT !.interval = x] \in SubscriptionData
           /\ \A x \in Time : [d EXCEPT !.next_payment = x] \in SubscriptionData
           /\ \A x \in BOOLEAN : [d EXCEPT !.is_paused = x] \in SubscriptionData
           /\ \A x \in Time \cup {None} : [d EXCEPT !.paused_until = x] \in SubscriptionData
           /\ \A x \in Time \cup {None} : [d EXCEPT !.overdue_since = x] \in SubscriptionData
           /\ \A x \in 0..U32_MAX : [d EXCEPT !.payment_nonce = x] \in SubscriptionData
  BY DEF SubscriptionData

\* The sum of a due time that does not overflow.
LEMMA NextPaymentType ==
    ASSUME TypeOK, NEW d \in SubscriptionData, ~next_payment_overflows(d.interval)
    PROVE  /\ now + d.interval \in Time
           /\ now + d.interval >= now + MIN_INTERVAL
  BY LimitsAssumption DEF TypeOK, Time, SubscriptionData, next_payment_overflows

\* The records that the entry points store are proper ones.
LEMMA CollectedType ==
    ASSUME TypeOK, NEW d \in SubscriptionData,
           ~next_payment_overflows(d.interval), d.payment_nonce # U32_MAX
    PROVE  /\ collected(d) \in SubscriptionData
           /\ collected(d).next_payment = now + d.interval
           /\ collected(d).payment_nonce = d.payment_nonce + 1
<1>1. d.payment_nonce + 1 \in 0..U32_MAX
  BY LimitsAssumption DEF SubscriptionData
<1>2. now + d.interval \in Time
  BY NextPaymentType
<1>3. [d EXCEPT !.next_payment = now + d.interval] \in SubscriptionData
  BY <1>2, RecordFields
<1>4. [d EXCEPT !.next_payment = now + d.interval, !.overdue_since = None] \in SubscriptionData
  BY <1>3, RecordFields, Zenon
<1>5. collected(d) \in SubscriptionData
  BY <1>1, <1>4, RecordFields, Zenon DEF collected
<1>6. QED
  BY <1>5 DEF collected, SubscriptionData

\* New terms within the limits keep the record well typed (update_subscription).
LEMMA UpdatedType ==
    ASSUME NEW d \in SubscriptionData, NEW x \in 1..MAX_AMOUNT,
           NEW i \in MIN_INTERVAL..MAX_INTERVAL
    PROVE  /\ updated(d, x, i) \in SubscriptionData
           /\ updated(d, x, i).next_payment = d.next_payment
           /\ updated(d, x, i).payment_nonce = d.payment_nonce
<1>1. [d EXCEPT !.amount = x] \in SubscriptionData
  BY RecordFields
<1>2. updated(d, x, i) \in SubscriptionData
  BY <1>1, RecordFields, Zenon DEF updated
<1>3. QED
  BY <1>2 DEF updated, SubscriptionData

\* A pause keeps the record well typed (pause_subscription).
LEMMA PausedType ==
    ASSUME NEW d \in SubscriptionData, NEW r \in Time \cup {None}
    PROVE  /\ paused(d, r) \in SubscriptionData
           /\ paused(d, r).next_payment = d.next_payment
           /\ paused(d, r).payment_nonce = d.payment_nonce
<1>1. [d EXCEPT !.is_paused = TRUE] \in SubscriptionData
  BY RecordFields
<1>2. paused(d, r) \in SubscriptionData
  BY <1>1, RecordFields, Zenon DEF paused
<1>3. QED
  BY <1>2 DEF paused, SubscriptionData

\* A resumption whose due time does not overflow keeps the record well
\* typed (resume_subscription and the automatic resume).
LEMMA ResumedType ==
    ASSUME TypeOK, NEW d \in SubscriptionData, ~next_payment_overflows(d.interval)
    PROVE  /\ resumed(d) \in SubscriptionData
           /\ resumed(d).next_payment = now + d.interval
           /\ resumed(d).payment_nonce = d.payment_nonce
<1>1. [d EXCEPT !.is_paused = FALSE] \in SubscriptionData
  BY RecordFields
<1>2. [d EXCEPT !.is_paused = FALSE, !.paused_until = None] \in SubscriptionData
  BY <1>1, RecordFields, Zenon
<1>3. now + d.interval \in Time
  BY NextPaymentType
<1>4. resumed(d) \in SubscriptionData
  BY <1>2, <1>3, RecordFields, Zenon DEF resumed
<1>5. QED
  BY <1>4 DEF resumed, SubscriptionData

\* Marking a record overdue keeps it well typed (batch_execute_payment).
LEMMA OverdueType ==
    ASSUME TypeOK, NEW d \in SubscriptionData
    PROVE  /\ overdue(d) \in SubscriptionData
           /\ overdue(d).next_payment = d.next_payment
           /\ overdue(d).payment_nonce = d.payment_nonce
<1>1. (IF d.overdue_since = None THEN now ELSE d.overdue_since) \in Time \cup {None}
  BY DEF TypeOK, SubscriptionData
<1>2. QED
  BY <1>1, RecordFields DEF overdue, SubscriptionData

\* What is known when the chain of early returns of execute_payment ends in Ok.
LEMMA ExecuteOk ==
    ASSUME TypeOK, NEW signers \in SignerSets, NEW p \in Pair,
           execute_payment_error(signers, p) = "Ok"
    PROVE  /\ subs[p] \in SubscriptionData
           /\ now >= subs[p].next_payment
           /\ ~subs[p].is_paused
           /\ auto_resumed(subs[p]) = subs[p]
           /\ balance[subs[p].token][p[1]] >= subs[p].amount
           /\ p[1] \in signers
           /\ ~collection_traps(signers, p, subs[p])
<1> DEFINE d == subs[p]
<1>1. d \in SubscriptionData
  BY DEF TypeOK, execute_payment_error
<1>2. /\ payment_due(auto_resumed(d).next_payment)
      /\ balance[d.token][p[1]] >= d.amount
      /\ ~collection_traps(signers, p, auto_resumed(d))
  <2>1. balance[d.token][p[1]] \in Int /\ d.amount \in Int
    BY <1>1, PartiesAssumption, LimitsAssumption DEF TypeOK, Balances, SubscriptionData, Pair
  <2>2. QED
    BY <2>1 DEF execute_payment_error
<1>3. ~d.is_paused
  <2> SUFFICES ASSUME d.is_paused PROVE FALSE
    OBVIOUS
  <2>1. auto_resumed(d).next_payment = now + d.interval
    BY <1>1 DEF auto_resumed, resumed, SubscriptionData
  <2>2. now \in Nat /\ d.interval \in Nat /\ d.interval > 0
    BY <1>1, LimitsAssumption DEF TypeOK, Time, SubscriptionData
  <2>3. QED
    BY <1>2, <2>1, <2>2 DEF payment_due
<1>4. auto_resumed(d) = d
  BY <1>3 DEF auto_resumed
<1>5. QED
  BY <1>1, <1>2, <1>3, <1>4 DEF payment_due, collection_traps, transfer_traps

-----------------------------------------------------------------------------
(* Type correctness.                                                       *)

\* The first state is well typed.
LEMMA TypeInit == Init => TypeOK
<1> SUFFICES ASSUME Init PROVE TypeOK
  OBVIOUS
<1>1. now \in Time /\ anchor \in [Pair -> Time]
  BY LimitsAssumption DEF Init, Time
<1>2. /\ admin \in Address \cup {None}
      /\ config \in AdminConfig \cup {None}
      /\ schema \in 0..CURRENT_SCHEMA_VERSION
  BY LimitsAssumption, InputsAssumption DEF Init, AdminConfig
<1>3. balance \in Balances /\ allowance \in Balances
  BY LimitsAssumption DEF Init, Balances
<1>4. QED
  BY <1>1, <1>2, <1>3 DEF Init, TypeOK

\* Transactions of the administrator leave the rest of the state alone.
LEMMA TypeAdmin ==
    ASSUME TypeOK, NEW a \in Address,
           \/ initialize(a)
           \/ \E signers \in SignerSets :
                \/ migrate(signers, a)
                \/ \E x \in Amounts : set_max_amount(signers, a, x)
                \/ \E c \in Address, bps \in FeeRates : set_protocol_fee(signers, a, bps, c)
    PROVE  TypeOK'
<1>1. CASE initialize(a)
  BY <1>1, LimitsAssumption DEF initialize, TypeOK, AdminConfig, index_vars, token_vars
<1>2. ASSUME NEW signers \in SignerSets, migrate(signers, a) PROVE TypeOK'
  BY <1>2, LimitsAssumption DEF migrate, TypeOK, index_vars, token_vars
<1>3. ASSUME NEW signers \in SignerSets, NEW x \in Amounts, set_max_amount(signers, a, x)
      PROVE  TypeOK'
  <2>1. config \in AdminConfig /\ x \in 1..MAX_AMOUNT
    BY <1>3, InputsAssumption, LimitsAssumption DEF set_max_amount, TypeOK, valid_amount
  <2>2. config' \in AdminConfig
    BY <1>3, <2>1 DEF set_max_amount, AdminConfig
  <2>3. QED
    BY <1>3, <2>2 DEF set_max_amount, TypeOK, index_vars, token_vars
<1>4. ASSUME NEW signers \in SignerSets, NEW c \in Address, NEW bps \in FeeRates,
             set_protocol_fee(signers, a, bps, c)
      PROVE  TypeOK'
  <2>1. bps \in 0..MAX_FEE_BPS
    BY <1>4, InputsAssumption, LimitsAssumption DEF set_protocol_fee
  <2>2. fee' \in ProtocolFeeConfig
    BY <1>4, <2>1 DEF set_protocol_fee, ProtocolFeeConfig
  <2>3. QED
    BY <1>4, <2>2 DEF set_protocol_fee, TypeOK, index_vars, token_vars
<1>5. QED
  BY <1>1, <1>2, <1>3, <1>4

\* The record that subscribe stores.
LEMMA SubscribedType ==
    ASSUME TypeOK, NEW signers \in SignerSets, NEW p \in Pair, NEW t \in Tokens,
           NEW x \in Amounts, NEW i \in Intervals, NEW strict \in BOOLEAN,
           subscribe(signers, p, t, x, i, strict)
    PROVE  /\ subs' \in [Pair -> SubscriptionData \cup {None}]
           /\ subs'[p] \in SubscriptionData
           /\ subs'[p].next_payment >= now + MIN_INTERVAL
           /\ subs'[p].payment_nonce = 0
           /\ \A q \in Pair : q # p => subs'[q] = subs[q]
           /\ p[1] \in signers
<1> DEFINE new == [token |-> t, amount |-> x, interval |-> i,
                   next_payment |-> now + i, is_paused |-> FALSE,
                   paused_until |-> None, overdue_since |-> None,
                   payment_nonce |-> 0]
<1>1. /\ x \in 1..MAX_AMOUNT
      /\ i \in MIN_INTERVAL..MAX_INTERVAL
      /\ now + i \in Time
      /\ p[1] \in signers
  BY InputsAssumption, LimitsAssumption
  DEF subscribe, subscribe_error, next_payment_overflows, TypeOK, Time
<1>2. new \in SubscriptionData
  BY <1>1, LimitsAssumption DEF SubscriptionData
<1>3. subs' = [subs EXCEPT ![p] = new]
  BY DEF subscribe
<1>4. new.next_payment >= now + MIN_INTERVAL /\ new.payment_nonce = 0
  BY <1>1, LimitsAssumption DEF TypeOK, Time
<1> HIDE DEF new
<1>5. QED
  BY <1>1, <1>2, <1>3, <1>4 DEF TypeOK

\* Entry points of the subscriber.
LEMMA TypeSubscriber ==
    ASSUME TypeOK, NEW signers \in SignerSets, NEW p \in Pair,
           \/ \E t \in Tokens, x \in Amounts, i \in Intervals, strict \in BOOLEAN :
                 subscribe(signers, p, t, x, i, strict)
           \/ \E x \in Amounts, i \in Intervals : update_subscription(signers, p, x, i)
           \/ \E r \in ResumeTimes : pause_subscription(signers, p, r)
           \/ resume_subscription(signers, p)
           \/ cancel(signers, p)
           \/ \E m \in Merchants : transfer_subscription(signers, p, m)
    PROVE  TypeOK'
<1> USE DEF admin_vars, index_vars, token_vars
<1>p. p[1] \in Subscribers /\ p[2] \in Merchants
  BY DEF Pair
<1>a. [anchor EXCEPT ![p] = now] \in [Pair -> Time]
  BY DEF TypeOK
<1>1. ASSUME NEW t \in Tokens, NEW x \in Amounts, NEW i \in Intervals,
             NEW strict \in BOOLEAN, subscribe(signers, p, t, x, i, strict)
      PROVE  TypeOK'
  <2>1. subs' \in [Pair -> SubscriptionData \cup {None}]
    BY <1>1, SubscribedType
  <2>2. index' \in [Merchants -> [Subscribers -> Nat]]
    BY <1>1, <1>p DEF subscribe, index_add, TypeOK
  <2>3. roster' \in [Merchants -> SUBSET Subscribers]
    BY <1>1, <1>p DEF subscribe, roster_add, TypeOK
  <2>4. QED
    BY <1>1, <1>a, <2>1, <2>2, <2>3 DEF subscribe, TypeOK
<1>2. ASSUME NEW x \in Amounts, NEW i \in Intervals, update_subscription(signers, p, x, i)
      PROVE  TypeOK'
  <2>1. x \in 1..MAX_AMOUNT /\ i \in MIN_INTERVAL..MAX_INTERVAL
    BY <1>2, InputsAssumption, LimitsAssumption
    DEF update_subscription, valid_amount, valid_interval
  <2>2. updated(subs[p], x, i) \in SubscriptionData
    BY <1>2, <2>1, UpdatedType DEF update_subscription, Active, TypeOK
  <2>3. QED
    BY <1>2, <2>2 DEF update_subscription, TypeOK
<1>3. ASSUME NEW r \in ResumeTimes, pause_subscription(signers, p, r)
      PROVE  TypeOK'
  <2>1. paused(subs[p], r) \in SubscriptionData
    BY <1>3, PausedType, InputsAssumption DEF pause_subscription, Active, TypeOK, Time
  <2>2. QED
    BY <1>3, <2>1 DEF pause_subscription, TypeOK
<1>4. CASE resume_subscription(signers, p)
  <2>1. resumed(subs[p]) \in SubscriptionData
    BY <1>4, ResumedType DEF resume_subscription, Active, TypeOK
  <2>2. QED
    BY <1>4, <1>a, <2>1 DEF resume_subscription, TypeOK
<1>5. CASE cancel(signers, p)
  <2>1. index' \in [Merchants -> [Subscribers -> Nat]]
    BY <1>5, <1>p DEF cancel, index_remove, TypeOK
  <2>2. roster' \in [Merchants -> SUBSET Subscribers]
    BY <1>5, <1>p DEF cancel, roster_remove, TypeOK
  <2>3. QED
    BY <1>5, <2>1, <2>2 DEF cancel, TypeOK
<1>6. ASSUME NEW m \in Merchants, transfer_subscription(signers, p, m)
      PROVE  TypeOK'
  <2> DEFINE q == <<p[1], m>>
  <2>1. q \in Pair /\ q[1] = p[1] /\ q[2] = m
    BY <1>p DEF Pair
  <2>2. index_remove(index, p) \in [Merchants -> [Subscribers -> Nat]]
    BY <1>p DEF index_remove, TypeOK
  <2>3. index' = [index_remove(index, p) EXCEPT ![m][p[1]] = @ + 1]
    BY <1>6, <2>1 DEF transfer_subscription, index_add
  <2>4. index' \in [Merchants -> [Subscribers -> Nat]]
    BY <1>p, <2>2, <2>3
  <2>5. subs' \in [Pair -> SubscriptionData \cup {None}]
    BY <1>6, <2>1 DEF transfer_subscription, TypeOK
  <2>6. anchor' \in [Pair -> Time]
    BY <1>6, <2>1 DEF transfer_subscription, TypeOK
  <2>7. QED
    BY <1>6, <2>4, <2>5, <2>6 DEF transfer_subscription, TypeOK
<1>7. QED
  BY <1>1, <1>2, <1>3, <1>4, <1>5, <1>6

\* What a collection that does not trap does to the balances and the record.
LEMMA CollectionType ==
    ASSUME TypeOK, NEW signers, NEW p \in Pair, subs[p] \in SubscriptionData,
           balance[subs[p].token][p[1]] >= subs[p].amount,
           ~collection_traps(signers, p, subs[p])
    PROVE  /\ collected(subs[p]) \in SubscriptionData
           /\ collected(subs[p]).next_payment = now + subs[p].interval
           /\ collected(subs[p]).next_payment >= now + MIN_INTERVAL
           /\ collected(subs[p]).payment_nonce = subs[p].payment_nonce + 1
           /\ p[1] \in signers
           /\ [balance EXCEPT ![subs[p].token] =
                 pay(balance[subs[p].token], p, subs[p].amount)] \in Balances
<1> DEFINE d == subs[p]
<1>1. /\ ~transfer_traps(signers, p, d)
      /\ ~next_payment_overflows(d.interval)
      /\ d.payment_nonce # U32_MAX
  BY DEF collection_traps
<1>2. d.token \in Tokens /\ d.amount \in 1..MAX_AMOUNT
  BY DEF SubscriptionData
<1>3. \A a \in Address : ~(pay(balance[d.token], p, d.amount)[a] > I128_MAX)
  BY <1>1 DEF transfer_traps
<1>4. pay(balance[d.token], p, d.amount) \in [Address -> 0..I128_MAX]
  BY <1>2, <1>3, PayType
<1>5. [balance EXCEPT ![d.token] = pay(balance[d.token], p, d.amount)] \in Balances
  BY <1>2, <1>4 DEF TypeOK, Balances
<1>6. p[1] \in signers
  BY <1>1 DEF transfer_traps
<1>7. QED
  BY <1>1, <1>5, <1>6, CollectedType, NextPaymentType

\* execute_payment keeps the types: its transfers stay within the balances
\* it has checked.
LEMMA TypeExecute ==
    ASSUME TypeOK, NEW signers \in SignerSets, NEW p \in Pair,
           execute_payment(signers, p)
    PROVE  TypeOK'
<1> USE DEF admin_vars, index_vars, token_vars
<1>1. /\ subs[p] \in SubscriptionData
      /\ auto_resumed(subs[p]) = subs[p]
      /\ balance[subs[p].token][p[1]] >= subs[p].amount
      /\ ~collection_traps(signers, p, subs[p])
  BY ExecuteOk DEF execute_payment
<1>2. balance' \in Balances
  BY <1>1, CollectionType DEF execute_payment
<1>3. collected(subs[p]) \in SubscriptionData
  BY <1>1, CollectionType
<1>4. subs' \in [Pair -> SubscriptionData \cup {None}]
  BY <1>1, <1>3 DEF execute_payment, TypeOK
<1>5. subs[p].payment_nonce + 1 \in 0..U32_MAX
  <2>1. collected(subs[p]).payment_nonce \in 0..U32_MAX
    BY <1>3 DEF SubscriptionData
  <2>2. collected(subs[p]).payment_nonce = subs[p].payment_nonce + 1
    BY <1>1, CollectionType
  <2>3. QED
    BY <2>1, <2>2
<1>6. markers' \subseteq Pair \X (0..U32_MAX)
  BY <1>1, <1>5 DEF execute_payment, TypeOK
<1>7. anchor' \in [Pair -> Time]
  BY DEF execute_payment, TypeOK
<1>8. QED
  BY <1>2, <1>4, <1>6, <1>7 DEF execute_payment, TypeOK

\* The item a running batch looks at.
LEMMA BatchItem ==
    ASSUME TypeOK, batch # None
    PROVE  /\ batch \in Batch
           /\ batch_pair \in Pair
           /\ batch_item \in {"overdue", "collect"} =>
                 /\ subs[batch_pair] \in SubscriptionData
                 /\ now >= subs[batch_pair].next_payment
           /\ batch_item = "collect" =>
                 /\ balance[subs[batch_pair].token][batch_pair[1]] >= subs[batch_pair].amount
                 /\ ~collection_traps(batch.signers, batch_pair, subs[batch_pair])
<1> DEFINE p == batch_pair
<1> DEFINE d == subs[p]
<1>1. batch \in Batch
  BY DEF TypeOK
<1>2. /\ batch.todo \in Seq(Subscribers) /\ batch.todo # << >>
      /\ batch.merchant \in Merchants
  BY <1>1 DEF Batch
<1>3. Head(batch.todo) \in Subscribers
  BY <1>2
<1>4. p \in Pair
  BY <1>2, <1>3 DEF batch_pair, Pair
<1>5. batch_item \in {"overdue", "collect"} =>
         d \in SubscriptionData /\ now >= d.next_payment
  BY <1>4 DEF batch_item, payment_due, TypeOK
<1>6. ASSUME batch_item = "collect"
      PROVE  /\ balance[d.token][p[1]] >= d.amount
             /\ ~collection_traps(batch.signers, p, d)
  <2>1. d \in SubscriptionData /\ p[1] \in Address
    BY <1>4, <1>5, <1>6, PartiesAssumption DEF Pair
  <2>2. balance[d.token][p[1]] \in Int /\ d.amount \in Int
    BY <2>1, LimitsAssumption DEF TypeOK, Balances, SubscriptionData
  <2>3. ~(balance[d.token][p[1]] < d.amount) /\ ~collection_traps(batch.signers, p, d)
    BY <1>6 DEF batch_item
  <2>4. QED
    BY <2>2, <2>3
<1>7. QED
  BY <1>1, <1>4, <1>5, <1>6

\* The next iteration of a batch leaves a well-typed batch or none.
LEMMA BatchContinueType ==
    ASSUME TypeOK, batch # None, batch_continue
    PROVE  /\ batch' \in Batch \cup {None}
           /\ batch' # None => /\ batch'.subs = batch.subs
                               /\ batch'.anchor = batch.anchor
                               /\ batch'.signers = batch.signers
                               /\ batch'.merchant = batch.merchant
<1>1. batch \in Batch
  BY DEF TypeOK
<1>2. CASE Len(batch.todo) = 1
  BY <1>2 DEF batch_continue
<1>3. CASE Len(batch.todo) # 1
  <2>1. batch' = [batch EXCEPT !.todo = Tail(batch.todo)]
    BY <1>3 DEF batch_continue
  <2>2. Tail(batch.todo) \in Seq(Subscribers) \ {<< >>}
    <3>1. PICK todo \in Seq(Subscribers) : todo = batch.todo /\ todo # << >>
      BY <1>1 DEF Batch
    <3>2. Len(todo) \in Nat /\ Len(todo) # 0 /\ Len(todo) # 1
      BY <1>3, <3>1
    <3>3. Tail(todo) \in Seq(Subscribers) /\ Len(Tail(todo)) = Len(todo) - 1
      BY <3>1, <3>2
    <3>4. Tail(todo) # << >>
      <4>1. Len(Tail(todo)) # 0
        BY <3>2, <3>3
      <4>2. Len(<< >>) = 0
        OBVIOUS
      <4>3. QED
        BY <4>1, <4>2, Zenon
    <3>5. QED
      BY <3>1, <3>3, <3>4
  <2>3. QED
    BY <1>1, <2>1, <2>2 DEF Batch
<1>4. QED
  BY <1>2, <1>3

\* Every iteration of a batch, and its rollback, keeps the types.
LEMMA TypeBatch ==
    ASSUME TypeOK, BatchStep
    PROVE  TypeOK'
<1> USE DEF admin_vars, index_vars, token_vars
<1>1. CASE batch_skip
  BY <1>1, BatchContinueType DEF batch_skip, TypeOK
<1>2. CASE batch_overdue
  <2>1. batch_pair \in Pair /\ subs[batch_pair] \in SubscriptionData
    BY <1>2, BatchItem DEF batch_overdue
  <2>2. overdue(subs[batch_pair]) \in SubscriptionData
    BY <2>1, OverdueType
  <2>3. subs' \in [Pair -> SubscriptionData \cup {None}]
    BY <1>2, <2>1, <2>2 DEF batch_overdue, TypeOK
  <2>4. batch' \in Batch \cup {None}
    BY <1>2, BatchContinueType DEF batch_overdue
  <2>5. QED
    BY <1>2, <2>3, <2>4 DEF batch_overdue, TypeOK
<1>3. CASE batch_collect
  <2>1. /\ batch_pair \in Pair /\ subs[batch_pair] \in SubscriptionData
        /\ balance[subs[batch_pair].token][batch_pair[1]] >= subs[batch_pair].amount
        /\ ~collection_traps(batch.signers, batch_pair, subs[batch_pair])
    BY <1>3, BatchItem DEF batch_collect
  <2>2. collected(subs[batch_pair]) \in SubscriptionData
    BY <2>1, CollectionType
  <2>3. subs' \in [Pair -> SubscriptionData \cup {None}]
    BY <1>3, <2>1, <2>2 DEF batch_collect, TypeOK
  <2>4. balance' \in Balances
    BY <1>3, <2>1, CollectionType DEF batch_collect
  <2>5. batch' \in Batch \cup {None}
    BY <1>3, BatchContinueType DEF batch_collect
  <2>6. anchor' \in [Pair -> Time]
    BY <1>3, <2>1 DEF batch_collect, TypeOK
  <2>7. QED
    BY <1>3, <2>3, <2>4, <2>5, <2>6 DEF batch_collect, TypeOK
<1>4. CASE batch_abort
  <2>1. batch \in Batch
    BY <1>4, BatchItem DEF batch_abort
  <2>2. QED
    BY <1>4, <2>1 DEF batch_abort, TypeOK, Batch
<1>5. QED
  BY <1>1, <1>2, <1>3, <1>4 DEF BatchStep

\* A batch that begins snapshots a well-typed state.
LEMMA BatchBeginType ==
    ASSUME TypeOK, NEW signers \in SignerSets, NEW m \in Merchants,
           NEW n \in 0..(BATCH_MAX_SIZE + 1), NEW q \in [1..n -> Subscribers],
           batch_begin(signers, m, q)
    PROVE  TypeOK'
<1>1. q \in Seq(Subscribers) \ {<< >>}
  <2>1. n \in Nat
    BY LimitsAssumption
  <2>2. QED
    BY <2>1 DEF batch_begin
<1>2. batch' \in Batch
  BY <1>1 DEF batch_begin, Batch, TypeOK
<1>3. QED
  BY <1>2 DEF batch_begin, TypeOK, admin_vars, index_vars, token_vars

\* Ledgers, marker expiry and the token keep the types.
LEMMA TypeEnvironment ==
    ASSUME TypeOK, Environment
    PROVE  TypeOK'
<1> USE DEF admin_vars, index_vars, token_vars
<1>1. CASE ledger_close
  BY <1>1, LimitsAssumption DEF ledger_close, TypeOK, Time
<1>2. ASSUME NEW mk \in markers, marker_expires(mk) PROVE TypeOK'
  BY <1>2 DEF marker_expires, TypeOK
<1>3. ASSUME NEW t \in Tokens, NEW a \in Subscribers, NEW x \in FundLevels, approve(t, a, x)
      PROVE  TypeOK'
  <2>1. a \in Address /\ x \in 0..I128_MAX
    BY PartiesAssumption, InputsAssumption
  <2>2. allowance' \in Balances
    BY <1>3, <2>1 DEF approve, TypeOK, Balances
  <2>3. QED
    BY <1>3, <2>2 DEF approve, TypeOK
<1>4. ASSUME NEW t \in Tokens, NEW a \in Holders, NEW x \in FundLevels, fund(t, a, x)
      PROVE  TypeOK'
  <2>1. a \in Address /\ x \in 0..I128_MAX
    BY PartiesAssumption, InputsAssumption
  <2>2. balance' \in Balances
    BY <1>4, <2>1 DEF fund, TypeOK, Balances
  <2>3. QED
    BY <1>4, <2>2 DEF fund, TypeOK
<1>5. QED
  BY <1>1, <1>2, <1>3, <1>4 DEF Environment

\* Every step keeps the types.
LEMMA TypeStep == TypeOK /\ [Next]_vars => TypeOK'
<1> SUFFICES ASSUME TypeOK, [Next]_vars PROVE TypeOK'
  OBVIOUS
<1>1. ASSUME NEW a \in Admins, initialize(a) PROVE TypeOK'
  BY <1>1, TypeAdmin, InputsAssumption
<1>2. ASSUME NEW signers \in SignerSets, Transaction(signers) PROVE TypeOK'
  BY <1>2, TypeAdmin, TypeSubscriber, TypeExecute, BatchBeginType DEF Transaction
<1>3. CASE BatchStep
  BY <1>3, TypeBatch
<1>4. CASE Environment
  BY <1>4, TypeEnvironment
<1>5. CASE UNCHANGED vars
  BY <1>5 DEF vars, admin_vars, index_vars, token_vars, TypeOK
<1>6. QED
  BY <1>1, <1>2, <1>3, <1>4, <1>5 DEF Next

\* Every reachable state is a proper one: in particular no due time and no
\* nonce leaves the width of its type, no balance becomes negative, and a batch
\* that is undone puts proper storage back (lib.rs:31-34, :875-915, :946-1052).
THEOREM TypeCorrect == Spec => []TypeOK
<1>1. Init => TypeOK
  BY TypeInit
<1>2. TypeOK /\ [Next]_vars => TypeOK'
  BY TypeStep
<1>3. QED
  BY <1>1, <1>2, PTL DEF Spec

-----------------------------------------------------------------------------
(* The index, the schedule and the rollback of a batch.                    *)

\* The three parts of the invariant that speak of one pair.
PairInv(p) ==
    /\ Active(p) <=> index[p[2]][p[1]] > 0
    /\ Active(p) => /\ anchor[p] <= now
                    /\ subs[p].next_payment >= anchor[p] + MIN_INTERVAL

\* The invariant, pair by pair.
LEMMA PairInvariants ==
    IndInv <=> TypeOK /\ BatchSnapshot /\ \A p \in Pair : PairInv(p)
  BY DEF IndInv, PairInv, IndexMatchesSubscriptions, ScheduledAfterAnchor

\* A step of an idle contract that stays idle cannot break BatchSnapshot.
LEMMA IdleSnapshot ==
    ASSUME Idle, UNCHANGED batch PROVE BatchSnapshot'
  BY DEF Idle, BatchSnapshot

\* A step that touches neither the records, the index, the anchors nor the
\* batch keeps the invariant, be it later.
LEMMA QuietStep ==
    ASSUME IndInv, TypeOK', UNCHANGED <<subs, index, anchor, batch>>,
           now' >= now, Idle
    PROVE  IndInv'
<1>1. \A p \in Pair : PairInv(p)
  BY PairInvariants
<1>2. now \in Int /\ now' \in Int /\ anchor \in [Pair -> Int]
  BY LimitsAssumption DEF IndInv, TypeOK, Time
<1>3. \A p \in Pair : PairInv(p)'
  BY <1>1, <1>2 DEF PairInv, Active
<1>4. QED
  BY <1>3, IdleSnapshot DEF IndInv, PairInv, IndexMatchesSubscriptions, ScheduledAfterAnchor

\* A step that stores a record for p, due at least a minimum interval after
\* the anchor it leaves, and touches no other pair, keeps the invariant.
LEMMA OnePairStep ==
    ASSUME IndInv, TypeOK', Idle, UNCHANGED <<now, batch>>, NEW p \in Pair,
           subs'[p] \in SubscriptionData,
           index'[p[2]][p[1]] > 0,
           anchor'[p] <= now,
           subs'[p].next_payment >= anchor'[p] + MIN_INTERVAL,
           \A q \in Pair : q # p =>
              /\ subs'[q] = subs[q]
              /\ anchor'[q] = anchor[q]
              /\ index'[q[2]][q[1]] = index[q[2]][q[1]]
    PROVE  IndInv'
<1>1. \A q \in Pair : PairInv(q)
  BY PairInvariants
<1>2. PairInv(p)'
  BY NoneAssumption DEF PairInv, Active
<1>3. \A q \in Pair : q # p => PairInv(q)'
  BY <1>1 DEF PairInv, Active
<1>4. \A q \in Pair : PairInv(q)'
  BY <1>2, <1>3
<1>5. QED
  BY <1>4, IdleSnapshot DEF IndInv, PairInv, IndexMatchesSubscriptions, ScheduledAfterAnchor

\* Pairs as index positions: p is at row p[2], column p[1].
LEMMA PairParts ==
    ASSUME NEW p \in Pair
    PROVE  /\ p[1] \in Subscribers /\ p[2] \in Merchants
           /\ \A q \in Pair : q # p => q[1] # p[1] \/ q[2] # p[2]
  BY DEF Pair

\* subscribe adds the key to the index and starts a schedule.
LEMMA InvSubscribe ==
    ASSUME IndInv, TypeOK', NEW signers \in SignerSets, NEW p \in Pair, NEW t \in Tokens,
           NEW x \in Amounts, NEW i \in Intervals, NEW strict \in BOOLEAN,
           subscribe(signers, p, t, x, i, strict)
    PROVE  IndInv'
<1>0. TypeOK
  BY DEF IndInv
<1>1. /\ subs'[p] \in SubscriptionData
      /\ subs'[p].next_payment >= now + MIN_INTERVAL
      /\ \A q \in Pair : q # p => subs'[q] = subs[q]
  BY <1>0, SubscribedType
<1>2. /\ index'[p[2]][p[1]] > 0
      /\ \A q \in Pair : q # p => index'[q[2]][q[1]] = index[q[2]][q[1]]
  BY <1>0, PairParts DEF subscribe, index_add, TypeOK
<1>3. /\ anchor'[p] = now
      /\ \A q \in Pair : q # p => anchor'[q] = anchor[q]
  BY <1>0 DEF subscribe, TypeOK
<1>4. Idle /\ UNCHANGED <<now, batch>> /\ now \in Int
  BY <1>0, LimitsAssumption DEF subscribe, TypeOK, Time
<1>5. QED
  BY <1>1, <1>2, <1>3, <1>4, OnePairStep

\* update, pause and resume keep the index and store one record.
LEMMA InvTerms ==
    ASSUME IndInv, TypeOK', NEW signers \in SignerSets, NEW p \in Pair,
           \/ \E x \in Amounts, i \in Intervals : update_subscription(signers, p, x, i)
           \/ \E r \in ResumeTimes : pause_subscription(signers, p, r)
           \/ resume_subscription(signers, p)
    PROVE  IndInv'
<1> USE DEF index_vars
<1>0. TypeOK /\ now \in Int /\ anchor \in [Pair -> Int] /\ PairInv(p)
  BY PairInvariants, LimitsAssumption DEF IndInv, TypeOK, Time
<1>1. Idle /\ UNCHANGED <<now, batch, index>> /\ Active(p)
  BY DEF update_subscription, pause_subscription, resume_subscription
<1>2. subs[p] \in SubscriptionData
  BY <1>0, <1>1 DEF Active, TypeOK
<1>3. /\ anchor[p] <= now /\ index'[p[2]][p[1]] > 0
      /\ subs[p].next_payment >= anchor[p] + MIN_INTERVAL
  BY <1>0, <1>1 DEF PairInv
<1>4. ASSUME NEW x \in Amounts, NEW i \in Intervals, update_subscription(signers, p, x, i)
      PROVE  IndInv'
  <2>1. x \in 1..MAX_AMOUNT /\ i \in MIN_INTERVAL..MAX_INTERVAL
    BY <1>4, InputsAssumption, LimitsAssumption
    DEF update_subscription, valid_amount, valid_interval
  <2>2. subs' = [subs EXCEPT ![p] = updated(subs[p], x, i)] /\ anchor' = anchor
    BY <1>4 DEF update_subscription
  <2>3. /\ subs'[p] = updated(subs[p], x, i)
        /\ \A q \in Pair : q # p => subs'[q] = subs[q]
    BY <1>0, <2>2 DEF TypeOK
  <2>4. subs'[p] \in SubscriptionData /\ subs'[p].next_payment = subs[p].next_payment
    BY <1>2, <2>1, <2>3, UpdatedType
  <2>5. QED
    BY <1>1, <1>3, <2>2, <2>3, <2>4, OnePairStep
<1>5. ASSUME NEW r \in ResumeTimes, pause_subscription(signers, p, r)
      PROVE  IndInv'
  <2>1. subs' = [subs EXCEPT ![p] = paused(subs[p], r)] /\ anchor' = anchor
    BY <1>5 DEF pause_subscription
  <2>2. /\ subs'[p] = paused(subs[p], r)
        /\ \A q \in Pair : q # p => subs'[q] = subs[q]
    BY <1>0, <2>1 DEF TypeOK
  <2>3. subs'[p] \in SubscriptionData /\ subs'[p].next_payment = subs[p].next_payment
    BY <1>2, <2>2, PausedType, InputsAssumption DEF Time
  <2>4. QED
    BY <1>1, <1>3, <2>1, <2>2, <2>3, OnePairStep
<1>6. CASE resume_subscription(signers, p)
  <2>1. /\ subs' = [subs EXCEPT ![p] = resumed(subs[p])]
        /\ anchor' = [anchor EXCEPT ![p] = now]
        /\ ~next_payment_overflows(subs[p].interval)
    BY <1>6 DEF resume_subscription
  <2>2. /\ subs'[p] = resumed(subs[p]) /\ anchor'[p] = now
        /\ \A q \in Pair : q # p => subs'[q] = subs[q] /\ anchor'[q] = anchor[q]
    BY <1>0, <2>1 DEF TypeOK
  <2>3. subs'[p] \in SubscriptionData /\ subs'[p].next_payment >= now + MIN_INTERVAL
    BY <1>0, <1>2, <2>1, <2>2, ResumedType, NextPaymentType
  <2>4. QED
    BY <1>0, <1>1, <1>3, <2>2, <2>3, OnePairStep
<1>7. QED
  BY <1>4, <1>5, <1>6

\* cancel removes every copy of the key along with the record.
LEMMA InvCancel ==
    ASSUME IndInv, TypeOK', NEW signers \in SignerSets, NEW p \in Pair, cancel(signers, p)
    PROVE  IndInv'
<1>0. TypeOK /\ \A q \in Pair : PairInv(q)
  BY PairInvariants DEF IndInv
<1>1. Idle /\ UNCHANGED <<now, batch, anchor>>
  BY DEF cancel
<1>2. subs'[p] = None /\ index'[p[2]][p[1]] = 0
  BY <1>0, PairParts DEF cancel, index_remove, TypeOK
<1>3. \A q \in Pair : q # p =>
         subs'[q] = subs[q] /\ index'[q[2]][q[1]] = index[q[2]][q[1]]
  BY <1>0, PairParts DEF cancel, index_remove, TypeOK
<1>4. \A q \in Pair : PairInv(q)'
  BY <1>0, <1>1, <1>2, <1>3 DEF PairInv, Active
<1>5. QED
  BY <1>1, <1>4, IdleSnapshot DEF IndInv, PairInv, IndexMatchesSubscriptions, ScheduledAfterAnchor

\* transfer_subscription moves key, record and anchor together.
LEMMA InvTransfer ==
    ASSUME IndInv, TypeOK', NEW signers \in SignerSets, NEW p \in Pair, NEW m \in Merchants,
           transfer_subscription(signers, p, m)
    PROVE  IndInv'
<1> DEFINE q == <<p[1], m>>
<1>0. TypeOK /\ \A r \in Pair : PairInv(r)
  BY PairInvariants DEF IndInv
<1>1. Idle /\ UNCHANGED <<now, batch>> /\ Active(p) /\ m # p[2]
  BY DEF transfer_subscription
<1>2. q \in Pair /\ q[1] = p[1] /\ q[2] = m /\ q # p
  BY <1>1, PairParts DEF Pair
<1>3. /\ subs'[q] = subs[p] /\ subs'[p] = None
      /\ anchor'[q] = anchor[p]
      /\ \A r \in Pair : r # p /\ r # q => subs'[r] = subs[r] /\ anchor'[r] = anchor[r]
  BY <1>0, <1>2 DEF transfer_subscription, TypeOK
<1>4. /\ index'[m][p[1]] > 0
      /\ index'[p[2]][p[1]] = 0
      /\ \A r \in Pair : r # p /\ r # q => index'[r[2]][r[1]] = index[r[2]][r[1]]
  <2>1. index_remove(index, p) \in [Merchants -> [Subscribers -> Nat]]
    BY <1>0, PairParts DEF index_remove, TypeOK
  <2>2. index' = [index_remove(index, p) EXCEPT ![m][p[1]] = @ + 1]
    BY <1>2 DEF transfer_subscription, index_add
  <2>3. /\ index_remove(index, p)[p[2]][p[1]] = 0
        /\ \A r \in Pair : r # p => index_remove(index, p)[r[2]][r[1]] = index[r[2]][r[1]]
    BY <1>0, PairParts DEF index_remove, TypeOK
  <2>4. index'[m][p[1]] > 0
    BY <2>1, <2>2, PairParts
  <2>5. \A r \in Pair : r # q => index'[r[2]][r[1]] = index_remove(index, p)[r[2]][r[1]]
    BY <1>2, <2>1, <2>2, PairParts
  <2>6. QED
    BY <1>2, <2>3, <2>4, <2>5
<1>5. PairInv(q)'
  BY <1>0, <1>1, <1>2, <1>3, <1>4 DEF PairInv, Active
<1>6. PairInv(p)'
  BY <1>3, <1>4 DEF PairInv, Active
<1>7. \A r \in Pair : r # p /\ r # q => PairInv(r)'
  BY <1>0, <1>1, <1>3, <1>4 DEF PairInv, Active
<1>8. \A r \in Pair : PairInv(r)'
  BY <1>5, <1>6, <1>7
<1>9. QED
  BY <1>1, <1>8, IdleSnapshot DEF IndInv, PairInv, IndexMatchesSubscriptions, ScheduledAfterAnchor

\* execute_payment schedules an interval after the collection.
LEMMA InvExecute ==
    ASSUME IndInv, TypeOK', NEW signers \in SignerSets, NEW p \in Pair,
           execute_payment(signers, p)
    PROVE  IndInv'
<1>0. TypeOK /\ now \in Int /\ PairInv(p)
  BY PairInvariants, LimitsAssumption DEF IndInv, TypeOK, Time
<1>1. /\ subs[p] \in SubscriptionData
      /\ auto_resumed(subs[p]) = subs[p]
      /\ balance[subs[p].token][p[1]] >= subs[p].amount
      /\ ~collection_traps(signers, p, subs[p])
  BY <1>0, ExecuteOk DEF execute_payment
<1>2. /\ subs' = [subs EXCEPT ![p] = collected(subs[p])]
      /\ anchor' = [anchor EXCEPT ![p] = now]
      /\ Idle /\ UNCHANGED <<now, batch, index>>
  BY <1>1 DEF execute_payment, index_vars
<1>3. /\ subs'[p] = collected(subs[p]) /\ anchor'[p] = now
      /\ \A q \in Pair : q # p => subs'[q] = subs[q] /\ anchor'[q] = anchor[q]
  BY <1>0, <1>2 DEF TypeOK
<1>4. subs'[p] \in SubscriptionData /\ subs'[p].next_payment >= now + MIN_INTERVAL
  BY <1>0, <1>1, <1>3, CollectionType
<1>5. index'[p[2]][p[1]] > 0
  BY <1>0, <1>1, <1>2, NoneAssumption DEF PairInv, Active
<1>6. QED
  BY <1>0, <1>2, <1>3, <1>4, <1>5, OnePairStep

\* BatchSnapshot for one pair.
SnapInv(p) ==
    /\ batch.subs[p] = None <=> subs[p] = None
    /\ batch.subs[p] # None =>
          /\ batch.anchor[p] <= now
          /\ batch.subs[p].next_payment >= batch.anchor[p] + MIN_INTERVAL
          /\ batch.subs[p].payment_nonce <= subs[p].payment_nonce

\* The snapshot of a batch satisfies the invariant because the state does.
LEMMA InvBatchBegin ==
    ASSUME IndInv, TypeOK', NEW signers \in SignerSets, NEW m \in Merchants,
           NEW n \in 0..(BATCH_MAX_SIZE + 1), NEW q \in [1..n -> Subscribers],
           batch_begin(signers, m, q)
    PROVE  IndInv'
<1>0. TypeOK /\ \A p \in Pair : PairInv(p)
  BY PairInvariants DEF IndInv
<1>1. UNCHANGED <<now, subs, index, anchor>> /\ batch'.subs = subs /\ batch'.anchor = anchor
  BY DEF batch_begin, index_vars
<1>2. \A p \in Pair : PairInv(p)'
  BY <1>0, <1>1 DEF PairInv, Active
<1>3. \A p \in Pair : subs[p] # None => subs[p].payment_nonce \in Int
  BY <1>0, LimitsAssumption DEF TypeOK, SubscriptionData
<1>4. \A p \in Pair : SnapInv(p)'
  BY <1>0, <1>1, <1>3 DEF PairInv, SnapInv, Active
<1>5. QED
  BY <1>2, <1>4
  DEF IndInv, PairInv, SnapInv, BatchSnapshot, IndexMatchesSubscriptions, ScheduledAfterAnchor

\* An iteration that stores a record for p that is not due earlier, and whose
\* nonce is not lower, keeps the invariant.
LEMMA BatchIteration ==
    ASSUME IndInv, TypeOK', batch # None, batch_continue, UNCHANGED <<now, index>>,
           NEW p \in Pair, subs[p] \in SubscriptionData,
           subs'[p] \in SubscriptionData,
           subs'[p].payment_nonce >= subs[p].payment_nonce,
           anchor'[p] <= now,
           subs'[p].next_payment >= anchor'[p] + MIN_INTERVAL,
           \A q \in Pair : q # p => subs'[q] = subs[q] /\ anchor'[q] = anchor[q]
    PROVE  IndInv'
<1>0. /\ TypeOK
      /\ \A q \in Pair : PairInv(q)
      /\ \A q \in Pair : SnapInv(q)
  BY PairInvariants DEF IndInv, BatchSnapshot, SnapInv
<1>1. \A q \in Pair : PairInv(q)'
  BY <1>0, NoneAssumption DEF PairInv, Active
<1>2. ASSUME batch' # None, NEW q \in Pair PROVE SnapInv(q)'
  <2>1. batch'.subs = batch.subs /\ batch'.anchor = batch.anchor
    BY <1>0, <1>2, BatchContinueType
  <2>2. CASE q # p
    BY <1>0, <2>1, <2>2 DEF SnapInv
  <2>3. CASE q = p
    <3>1. subs[p] # None /\ subs'[p] # None
      BY NoneAssumption
    <3>2. batch \in Batch /\ batch.subs[p] # None
      BY <1>0, <3>1 DEF SnapInv, TypeOK
    <3>3. batch.subs[p] \in SubscriptionData
      BY <3>2 DEF Batch
    <3>4. /\ batch.subs[p].payment_nonce \in Int /\ subs[p].payment_nonce \in Int
          /\ subs'[p].payment_nonce \in Int
      BY <3>3, LimitsAssumption DEF SubscriptionData
    <3>5. QED
      BY <1>0, <2>1, <2>3, <3>1, <3>2, <3>4 DEF SnapInv
  <2>4. QED
    BY <2>2, <2>3
<1>3. BatchSnapshot'
  BY <1>2 DEF BatchSnapshot, SnapInv
<1>4. QED
  BY <1>1, <1>3 DEF IndInv, PairInv, IndexMatchesSubscriptions, ScheduledAfterAnchor

\* An iteration preserves the invariant; a rollback restores it.
LEMMA InvBatch ==
    ASSUME IndInv, TypeOK', BatchStep
    PROVE  IndInv'
<1> USE DEF index_vars
<1>0. /\ TypeOK
      /\ \A q \in Pair : PairInv(q)
      /\ now \in Int /\ anchor \in [Pair -> Int]
  BY PairInvariants, LimitsAssumption DEF IndInv, TypeOK, Time
<1>b. batch # None
  BY DEF BatchStep, batch_skip, batch_overdue, batch_collect, batch_abort
<1>s. \A q \in Pair : SnapInv(q)
  BY <1>b DEF IndInv, BatchSnapshot, SnapInv
<1>1. CASE batch_skip
  <2>1. UNCHANGED <<now, subs, index, anchor>>
    BY <1>1 DEF batch_skip
  <2>2. \A q \in Pair : PairInv(q)'
    BY <1>0, <2>1 DEF PairInv, Active
  <2>3. batch' # None => batch'.subs = batch.subs /\ batch'.anchor = batch.anchor
    BY <1>0, <1>1, <1>b, BatchContinueType DEF batch_skip
  <2>4. batch' # None => \A q \in Pair : SnapInv(q)'
    BY <1>s, <2>1, <2>3 DEF SnapInv
  <2>5. QED
    BY <2>2, <2>4
    DEF IndInv, PairInv, SnapInv, BatchSnapshot, IndexMatchesSubscriptions, ScheduledAfterAnchor
<1>2. CASE batch_overdue
  <2> DEFINE p == batch_pair
  <2>1. p \in Pair /\ subs[p] \in SubscriptionData
    BY <1>0, <1>2, <1>b, BatchItem DEF batch_overdue
  <2>2. /\ subs' = [subs EXCEPT ![p] = overdue(subs[p])]
        /\ UNCHANGED <<now, index, anchor>> /\ batch_continue
    BY <1>2 DEF batch_overdue
  <2> HIDE DEF p
  <2>3. /\ subs'[p] = overdue(subs[p])
        /\ \A q \in Pair : q # p => subs'[q] = subs[q]
    BY <1>0, <2>1, <2>2 DEF TypeOK
  <2>4. /\ subs'[p] \in SubscriptionData
        /\ subs'[p].next_payment = subs[p].next_payment
        /\ subs'[p].payment_nonce = subs[p].payment_nonce
    BY <1>0, <2>1, <2>3, OverdueType
  <2>5. subs[p].payment_nonce \in Int
    BY <2>1, LimitsAssumption DEF SubscriptionData
  <2>6. anchor[p] <= now /\ subs[p].next_payment >= anchor[p] + MIN_INTERVAL
    BY <1>0, <2>1, NoneAssumption DEF PairInv, Active
  <2>7. QED
    BY <1>b, <2>1, <2>2, <2>3, <2>4, <2>5, <2>6, BatchIteration
<1>3. CASE batch_collect
  <2> DEFINE p == batch_pair
  <2>1. /\ p \in Pair /\ subs[p] \in SubscriptionData
        /\ balance[subs[p].token][p[1]] >= subs[p].amount
        /\ ~collection_traps(batch.signers, p, subs[p])
    BY <1>0, <1>3, <1>b, BatchItem DEF batch_collect
  <2>2. /\ subs' = [subs EXCEPT ![p] = collected(subs[p])]
        /\ anchor' = [anchor EXCEPT ![p] = now]
        /\ UNCHANGED <<now, index>> /\ batch_continue
    BY <1>3 DEF batch_collect
  <2> HIDE DEF p
  <2>3. /\ subs'[p] = collected(subs[p]) /\ anchor'[p] = now
        /\ \A q \in Pair : q # p => subs'[q] = subs[q] /\ anchor'[q] = anchor[q]
    BY <1>0, <2>1, <2>2 DEF TypeOK
  <2>4. /\ subs'[p] \in SubscriptionData
        /\ subs'[p].next_payment >= now + MIN_INTERVAL
        /\ subs'[p].payment_nonce = subs[p].payment_nonce + 1
    BY <1>0, <2>1, <2>3, CollectionType
  <2>5. subs[p].payment_nonce \in Int
    BY <2>1, LimitsAssumption DEF SubscriptionData
  <2>6. QED
    BY <1>0, <1>b, <2>1, <2>2, <2>3, <2>4, <2>5, BatchIteration
<1>4. CASE batch_abort
  <2>1. /\ subs' = batch.subs /\ anchor' = batch.anchor
        /\ UNCHANGED <<now, index>> /\ batch' = None
    BY <1>4 DEF batch_abort
  <2>2. \A q \in Pair : PairInv(q)'
    BY <1>0, <1>s, <2>1 DEF PairInv, SnapInv, Active
  <2>3. QED
    BY <2>1, <2>2
    DEF IndInv, PairInv, BatchSnapshot, IndexMatchesSubscriptions, ScheduledAfterAnchor
<1>5. QED
  BY <1>1, <1>2, <1>3, <1>4 DEF BatchStep

\* Administration and the environment touch no record, index or anchor.
LEMMA InvQuiet ==
    ASSUME IndInv, TypeOK',
           \/ \E a \in Admins : initialize(a)
           \/ \E signers \in SignerSets, a \in Address : migrate(signers, a)
           \/ \E signers \in SignerSets, a \in Address, x \in Amounts :
                 set_max_amount(signers, a, x)
           \/ \E signers \in SignerSets, a \in Address, c \in Address, bps \in FeeRates :
                 set_protocol_fee(signers, a, bps, c)
           \/ Environment
    PROVE  IndInv'
<1> USE DEF index_vars
<1>0. now \in Int
  BY LimitsAssumption DEF IndInv, TypeOK, Time
<1>1. Idle /\ UNCHANGED <<subs, index, anchor, batch>> /\ now' >= now
  BY <1>0 DEF initialize, migrate, set_max_amount, set_protocol_fee, Environment,
     ledger_close, marker_expires, approve, fund
<1>2. QED
  BY <1>1, QuietStep

\* The first state satisfies the invariant.
LEMMA InvInit == Init => IndInv
<1> SUFFICES ASSUME Init PROVE IndInv
  OBVIOUS
<1>1. TypeOK
  BY TypeInit
<1>2. \A p \in Pair : PairInv(p)
  BY PairParts DEF Init, PairInv, Active
<1>3. BatchSnapshot
  BY DEF Init, BatchSnapshot
<1>4. QED
  BY <1>1, <1>2, <1>3, PairInvariants

\* Every step preserves the invariant.
LEMMA InvStep == IndInv /\ [Next]_vars => IndInv'
<1> SUFFICES ASSUME IndInv, [Next]_vars PROVE IndInv'
  OBVIOUS
<1>t. TypeOK'
  BY TypeStep DEF IndInv
<1>1. ASSUME NEW a \in Admins, initialize(a) PROVE IndInv'
  BY <1>t, <1>1, InvQuiet
<1>2. ASSUME NEW signers \in SignerSets, Transaction(signers) PROVE IndInv'
  BY <1>t, <1>2, InvQuiet, InvSubscribe, InvTerms, InvCancel, InvTransfer, InvExecute,
     InvBatchBegin DEF Transaction
<1>3. CASE BatchStep
  BY <1>t, <1>3, InvBatch
<1>4. CASE Environment
  BY <1>t, <1>4, InvQuiet
<1>5. CASE UNCHANGED vars
  BY <1>t, <1>5 DEF vars, index_vars, IndInv, IndexMatchesSubscriptions,
     ScheduledAfterAnchor, BatchSnapshot, Active
<1>6. QED
  BY <1>1, <1>2, <1>3, <1>4, <1>5 DEF Next

\* The inductive invariant holds in every reachable state.
THEOREM Invariance == Spec => []IndInv
<1>1. QED
  BY InvInit, InvStep, PTL DEF Spec

\* The index of every merchant lists exactly the keys of its subscriptions,
\* after any sequence of subscriptions, cancellations, transfers and batches.
THEOREM IndexCorrect == Spec => []IndexMatchesSubscriptions
<1>1. IndInv => IndexMatchesSubscriptions
  BY DEF IndInv
<1>2. QED
  BY <1>1, Invariance, PTL

\* No due time is closer than the minimum interval to the subscription,
\* resumption or collection before it.
THEOREM ScheduleCorrect == Spec => []ScheduledAfterAnchor
<1>1. IndInv => ScheduledAfterAnchor
  BY DEF IndInv
<1>2. QED
  BY <1>1, Invariance, PTL

-----------------------------------------------------------------------------
(* What a step may never do.                                               *)

\* A record that is gone, or whose nonce has not grown, was not charged.
LEMMA NotCharged ==
    ASSUME TypeOK, NEW p \in Pair,
           subs'[p] = None \/ subs[p] = None
             \/ (subs'[p].payment_nonce \in Int /\ subs'[p].payment_nonce <= subs[p].payment_nonce)
    PROVE  ~Charged(p)
<1> SUFFICES ASSUME Charged(p) PROVE FALSE
  OBVIOUS
<1>1. subs[p] \in SubscriptionData
  BY DEF Charged, Active, TypeOK
<1>2. subs[p].payment_nonce \in Int
  BY <1>1, LimitsAssumption DEF SubscriptionData
<1>3. QED
  BY <1>2 DEF Charged, Active

\* A record that does not change was not charged.
LEMMA UnchangedNotCharged ==
    ASSUME TypeOK, NEW p \in Pair, subs'[p] = subs[p] PROVE ~Charged(p)
<1>1. CASE subs[p] = None
  BY <1>1, NotCharged
<1>2. CASE subs[p] # None
  <2>1. subs[p].payment_nonce \in Int
    BY <1>2, LimitsAssumption DEF TypeOK, SubscriptionData
  <2>2. QED
    BY <2>1, NotCharged
<1>3. QED
  BY <1>1, <1>2

\* The transfers for the payment of p, and no others, are made.
Pays(p) ==
    balance' = [balance EXCEPT ![subs[p].token] =
                  pay(balance[subs[p].token], p, subs[p].amount)]

\* Only the two collections charge, only when the payment is due, and what
\* they charge is paid; the single one does not charge a paused subscription.
LEMMA ChargedIsDue ==
    ASSUME IndInv, [Next]_vars, NEW p \in Pair, Charged(p)
    PROVE  /\ now >= subs[p].next_payment
           /\ Idle => ~subs[p].is_paused
           /\ Pays(p)
<1> USE DEF index_vars
<1>0. TypeOK /\ Active(p) /\ subs[p] \in SubscriptionData
  BY DEF IndInv, Charged, Active, TypeOK
<1>i. subs[p].payment_nonce \in Int /\ subs[p].payment_nonce >= 0
  BY <1>0, LimitsAssumption DEF SubscriptionData
<1>u. subs' # subs
  BY <1>0, UnchangedNotCharged
<1>1. ASSUME NEW signers \in SignerSets, Transaction(signers)
      PROVE  now >= subs[p].next_payment /\ ~subs[p].is_paused /\ Pays(p)
  <2>1. ASSUME NEW q \in Pair, NEW t \in Tokens, NEW x \in Amounts, NEW i \in Intervals,
               NEW strict \in BOOLEAN, subscribe(signers, q, t, x, i, strict)
        PROVE  FALSE
    <3>1. subs'[q].payment_nonce = 0 /\ (p # q => subs'[p] = subs[p])
      BY <1>0, <2>1, SubscribedType
    <3>2. CASE p = q
      BY <1>0, <1>i, <3>1, <3>2, NotCharged
    <3>3. CASE p # q
      BY <1>0, <3>1, <3>3, UnchangedNotCharged
    <3>4. QED
      BY <3>2, <3>3
  <2>2. ASSUME NEW q \in Pair, NEW d, subs' = [subs EXCEPT ![q] = d],
               subs[q] \in SubscriptionData => d.payment_nonce = subs[q].payment_nonce
        PROVE  FALSE
    <3>1. CASE p = q
      <4>1. subs'[p].payment_nonce = subs[p].payment_nonce
        BY <1>0, <2>2, <3>1 DEF TypeOK
      <4>2. QED
        BY <1>0, <1>i, <4>1, NotCharged
    <3>2. CASE p # q
      <4>1. subs'[p] = subs[p]
        BY <1>0, <2>2, <3>2 DEF TypeOK
      <4>2. QED
        BY <1>0, <4>1, UnchangedNotCharged
    <3>3. QED
      BY <3>1, <3>2
  <2>3. ASSUME NEW q \in Pair, NEW x \in Amounts, NEW i \in Intervals,
               update_subscription(signers, q, x, i)
        PROVE  FALSE
    <3>1. x \in 1..MAX_AMOUNT /\ i \in MIN_INTERVAL..MAX_INTERVAL
      BY <2>3, InputsAssumption, LimitsAssumption
      DEF update_subscription, valid_amount, valid_interval
    <3>2. subs[q] \in SubscriptionData =>
             updated(subs[q], x, i).payment_nonce = subs[q].payment_nonce
      BY <3>1, UpdatedType
    <3>3. QED
      BY <2>2, <2>3, <3>2 DEF update_subscription
  <2>4. ASSUME NEW q \in Pair, NEW r \in ResumeTimes, pause_subscription(signers, q, r)
        PROVE  FALSE
    <3>1. r \in Time \cup {None}
      BY InputsAssumption DEF Time
    <3>2. QED
      BY <2>2, <2>4, <3>1, PausedType DEF pause_subscription
  <2>5. ASSUME NEW q \in Pair, resume_subscription(signers, q) PROVE FALSE
    BY <1>0, <2>2, <2>5, ResumedType DEF resume_subscription
  <2>6. ASSUME NEW q \in Pair, cancel(signers, q) PROVE FALSE
    <3>1. subs'[p] = None \/ subs'[p] = subs[p]
      BY <1>0, <2>6 DEF cancel, TypeOK
    <3>2. QED
      BY <1>0, <3>1, NotCharged, UnchangedNotCharged
  <2>7. ASSUME NEW q \in Pair, NEW m \in Merchants, transfer_subscription(signers, q, m)
        PROVE  FALSE
    <3>1. subs[<<q[1], m>>] = None
      BY <2>7 DEF transfer_subscription, Active
    <3>2. p # <<q[1], m>>
      BY <1>0, <3>1 DEF Active
    <3>3. subs'[p] = None \/ subs'[p] = subs[p]
      BY <1>0, <2>7, <3>2 DEF transfer_subscription, TypeOK
    <3>4. QED
      BY <1>0, <3>3, NotCharged, UnchangedNotCharged
  <2>8. ASSUME NEW q \in Pair, execute_payment(signers, q)
        PROVE  now >= subs[p].next_payment /\ ~subs[p].is_paused /\ Pays(p)
    <3>1. CASE p = q
      BY <1>0, <2>8, <3>1, ExecuteOk DEF execute_payment, Pays
    <3>2. CASE p # q
      <4>1. subs'[p] = subs[p]
        BY <1>0, <2>8, <3>2 DEF execute_payment, TypeOK
      <4>2. QED
        BY <1>0, <4>1, UnchangedNotCharged
    <3>3. QED
      BY <3>1, <3>2
  <2>9. QED
    BY <1>1, <1>u, <2>1, <2>3, <2>4, <2>5, <2>6, <2>7, <2>8
    DEF Transaction, migrate, set_max_amount, set_protocol_fee, batch_begin
<1>2. CASE BatchStep
  <2>b. ~Idle
    BY <1>2 DEF BatchStep, batch_skip, batch_overdue, batch_collect, batch_abort, Idle
  <2>1. CASE batch_overdue
    <3>1. /\ batch_pair \in Pair /\ subs[batch_pair] \in SubscriptionData
          /\ now >= subs[batch_pair].next_payment
      BY <1>0, <2>1, BatchItem DEF batch_overdue
    <3>2. p # batch_pair => subs'[p] = subs[p]
      BY <1>0, <2>1, <3>1 DEF batch_overdue, TypeOK
    <3>3. p = batch_pair => subs'[p].payment_nonce = subs[p].payment_nonce
      BY <1>0, <2>1, <3>1, OverdueType DEF batch_overdue, TypeOK
    <3>4. QED
      BY <1>0, <1>i, <3>2, <3>3, NotCharged, UnchangedNotCharged
  <2>2. CASE batch_collect
    <3>1. batch_pair \in Pair /\ now >= subs[batch_pair].next_payment
      BY <1>0, <2>2, BatchItem DEF batch_collect
    <3>2. p # batch_pair => subs'[p] = subs[p]
      BY <1>0, <2>2, <3>1 DEF batch_collect, TypeOK
    <3>3. p = batch_pair => Pays(p)
      BY <2>2 DEF batch_collect, Pays
    <3>4. QED
      BY <1>0, <2>b, <3>1, <3>2, <3>3, UnchangedNotCharged
  <2>3. CASE batch_abort
    <3>1. batch # None /\ subs' = batch.subs /\ batch \in Batch
      BY <1>0, <2>3, BatchItem DEF batch_abort
    <3>2. subs'[p] # None => subs'[p].payment_nonce <= subs[p].payment_nonce
      BY <3>1 DEF IndInv, BatchSnapshot
    <3>3. subs'[p] # None => subs'[p].payment_nonce \in Int
      BY <3>1, LimitsAssumption DEF Batch, SubscriptionData
    <3>4. QED
      BY <1>0, <3>2, <3>3, NotCharged
  <2>4. CASE batch_skip
    BY <1>u, <2>4 DEF batch_skip
  <2>5. QED
    BY <1>2, <2>b, <2>1, <2>2, <2>3, <2>4 DEF BatchStep
<1>3. QED
  BY <1>1, <1>2, <1>u DEF Next, vars, initialize, Environment, ledger_close,
     marker_expires, approve, fund

\* Two collections of a subscription are never closer than the minimum
\* interval, nor is a collection to the subscription or resumption before it.
THEOREM ChargeSpacingHolds == Spec => ChargeSpacing
<1>1. ASSUME IndInv, [Next]_vars, NEW p \in Pair, Charged(p)
      PROVE  now >= anchor[p] + MIN_INTERVAL
  <2>1. /\ now >= subs[p].next_payment
        /\ subs[p].next_payment >= anchor[p] + MIN_INTERVAL
        /\ subs[p] \in SubscriptionData
    BY <1>1, ChargedIsDue DEF IndInv, ScheduledAfterAnchor, Charged, Active, TypeOK
  <2>2. now \in Int /\ subs[p].next_payment \in Int /\ anchor[p] + MIN_INTERVAL \in Int
    BY <1>1, <2>1, LimitsAssumption DEF IndInv, TypeOK, Time, SubscriptionData
  <2>3. QED
    BY <2>1, <2>2
<1>2. IndInv /\ [Next]_vars
        => [\A p \in Pair : Charged(p) => now >= anchor[p] + MIN_INTERVAL]_vars
  BY <1>1
<1>3. QED
  BY <1>2, Invariance, PTL DEF Spec, ChargeSpacing

-----------------------------------------------------------------------------
(* What a collection moves.                                                *)

LEMMA ProductGrows ==
    ASSUME NEW a \in Nat, NEW b \in Nat, NEW m \in Nat, b <= m
    PROVE  a * b <= a * m
<1>1. m - b \in Nat /\ m = b + (m - b)
  OBVIOUS
<1>2. PICK k \in Nat : m = b + k
  BY <1>1
<1>3. a * (b + k) = a * b + a * k /\ a * k \in Nat /\ a * b \in Nat
  OBVIOUS
<1>4. PICK x \in Nat : x = a * b
  BY <1>3, Zenon
<1>5. PICK y \in Nat : y = a * k
  BY <1>3, Zenon
<1>6. a * m = x + y
  BY <1>2, <1>3, <1>4, <1>5, Zenon
<1>7. x <= x + y
  OBVIOUS
<1>8. QED
  BY <1>4, <1>6, <1>7, Zenon

\* The fee is never above MAX_FEE_BPS of the amount: the division rounds down.
LEMMA FeeIsBounded ==
    ASSUME TypeOK, NEW amount \in 1..MAX_AMOUNT
    PROVE  fee_amount(amount) * BPS_SCALE <= amount * MAX_FEE_BPS
<1>0. amount \in Nat /\ MAX_FEE_BPS \in Nat
  BY LimitsAssumption
<1>1. CASE fee = None
  BY <1>0, <1>1 DEF fee_amount, BPS_SCALE
<1>2. CASE fee # None
  <2>1. fee \in ProtocolFeeConfig
    BY <1>2 DEF TypeOK
  <2>2. PICK bps \in 0..MAX_FEE_BPS : bps = fee.fee_bps
    BY <2>1 DEF ProtocolFeeConfig
  <2>3. bps \in Nat /\ bps <= MAX_FEE_BPS
    BY <1>0
  <2>4. amount * bps <= amount * MAX_FEE_BPS
    BY <1>0, <2>3, ProductGrows
  <2>5. amount * bps \in Nat /\ amount * MAX_FEE_BPS \in Nat
    BY <1>0, <2>3
  <2>6. PICK x \in Nat : x = amount * bps
    BY <2>5, Zenon
  <2>7. PICK y \in Nat : y = amount * MAX_FEE_BPS
    BY <2>5, Zenon
  <2>8. x <= y
    BY <2>4, <2>6, <2>7, Zenon
  <2>9. (x \div BPS_SCALE) * BPS_SCALE <= y
    BY <2>8 DEF BPS_SCALE
  <2>10. fee_amount(amount) = x \div BPS_SCALE
    BY <1>2, <2>2, <2>6, Zenon DEF fee_amount
  <2>11. QED
    BY <2>7, <2>9, <2>10, Zenon
<1>3. QED
  BY <1>1, <1>2

\* What the two transfers of a collection leave in the accounts of payer,
\* merchant and collector.
LEMMA PayMoves ==
    ASSUME TypeOK, NEW t \in Tokens, NEW p \in Pair, p[1] # p[2],
           NEW amount \in 1..MAX_AMOUNT,
           NEW c, c = fee_amount(amount), NEW new, new = pay(balance[t], p, amount)
    PROVE  /\ c \in 0..amount
           /\ c > 0 => fee # None /\ fee.fee_collector \in Address
           /\ (c = 0 \/ fee.fee_collector # p[1]) => new[p[1]] = balance[t][p[1]] - amount
           /\ (c = 0 \/ fee.fee_collector # p[2]) =>
                 new[p[2]] = balance[t][p[2]] + (amount - c)
           /\ (c > 0 /\ fee.fee_collector = p[1]) =>
                 new[p[1]] = balance[t][p[1]] - (amount - c)
           /\ (c > 0 /\ fee.fee_collector = p[2]) => new[p[2]] = balance[t][p[2]] + amount
           /\ (c > 0 /\ fee.fee_collector \notin {p[1], p[2]}) =>
                 new[fee.fee_collector] = balance[t][fee.fee_collector] + c
<1> DEFINE paid == transfer(balance[t], p[1], p[2], amount - c)
<1>1. c \in 0..amount /\ amount \in Nat /\ c \in Int
  BY FeeAmountType, LimitsAssumption
<1>2. balance[t] \in [Address -> Int]
  BY LimitsAssumption DEF TypeOK, Balances
<1>3. p[1] \in Address /\ p[2] \in Address
  BY PartiesAssumption DEF Pair
<1>4. c > 0 => fee # None /\ fee.fee_collector \in Address
  BY DEF fee_amount, TypeOK, ProtocolFeeConfig
<1>5. new = IF c > 0 THEN transfer(paid, p[1], fee.fee_collector, c) ELSE paid
  BY DEF pay
<1>6. /\ paid \in [Address -> Int]
      /\ paid[p[1]] = balance[t][p[1]] - (amount - c)
      /\ paid[p[2]] = balance[t][p[2]] + (amount - c)
      /\ \A a \in Address \ {p[1], p[2]} : paid[a] = balance[t][a]
  BY <1>1, <1>2, <1>3 DEF transfer
<1>7. \A a \in Address : balance[t][a] \in Int /\ paid[a] \in Int
  BY <1>2, <1>6
<1> HIDE DEF paid
<1>8. CASE c = 0
  BY <1>1, <1>3, <1>5, <1>6, <1>7, <1>8
<1>9. CASE c > 0
  <2>1. PICK f \in Address : f = fee.fee_collector
    BY <1>4, <1>9
  <2>2. new = transfer(paid, p[1], f, c)
    BY <1>5, <1>9, <2>1
  <2>3. CASE f = p[1]
    <3>1. new = paid
      BY <2>2, <2>3 DEF transfer
    <3>2. QED
      BY <1>1, <1>3, <1>4, <1>6, <1>9, <2>1, <2>3, <3>1
  <2>4. CASE f # p[1]
    <3>1. /\ new[p[1]] = paid[p[1]] - c /\ new[f] = paid[f] + c
          /\ \A a \in Address \ {p[1], f} : new[a] = paid[a]
      BY <1>3, <1>6, <2>1, <2>2, <2>4 DEF transfer
    <3>2. QED
      BY <1>1, <1>3, <1>4, <1>6, <1>7, <1>9, <2>1, <2>4, <3>1
  <2>5. QED
    BY <2>3, <2>4
<1>10. QED
  BY <1>1, <1>8, <1>9

\* Nobody is subscribed to itself, and a batch that is undone brings back no
\* such subscription.
NotToSelf ==
    \A p \in Pair : p[1] = p[2] => /\ subs[p] = None
                                   /\ batch # None => batch.subs[p] = None

\* subscribe and transfer_subscription refuse it, and nothing else stores a
\* record for a pair that has none.
LEMMA NotToSelfStep ==
    ASSUME TypeOK, NotToSelf, [Next]_vars
    PROVE  NotToSelf'
<1> SUFFICES ASSUME NEW p \in Pair, p[1] = p[2]
             PROVE  subs'[p] = None /\ (batch' # None => batch'.subs[p] = None)
  BY DEF NotToSelf
<1> USE DEF index_vars
<1>0. subs[p] = None /\ (batch # None => batch.subs[p] = None)
  BY DEF NotToSelf
<1>1. ASSUME NEW q \in Pair, subs[q] # None \/ q[1] # q[2], NEW d,
             subs' = [subs EXCEPT ![q] = d]
      PROVE  subs'[p] = None
  BY <1>0, <1>1 DEF TypeOK
<1>2. ASSUME NEW signers \in SignerSets, Transaction(signers)
      PROVE  subs'[p] = None /\ (batch' # None => batch'.subs[p] = None)
  <2>1. ASSUME NEW q \in Pair, NEW t \in Tokens, NEW x \in Amounts, NEW i \in Intervals,
               NEW strict \in BOOLEAN, subscribe(signers, q, t, x, i, strict)
        PROVE  subs'[p] = None /\ UNCHANGED batch
    <3>1. q[1] # q[2]
      BY <2>1 DEF subscribe, subscribe_error
    <3>2. QED
      BY <1>1, <2>1, <3>1 DEF subscribe
  <2>2. ASSUME NEW q \in Pair, NEW x \in Amounts, NEW i \in Intervals,
               update_subscription(signers, q, x, i)
        PROVE  subs'[p] = None /\ UNCHANGED batch
    BY <1>1, <2>2 DEF update_subscription, Active
  <2>3. ASSUME NEW q \in Pair, NEW r \in ResumeTimes, pause_subscription(signers, q, r)
        PROVE  subs'[p] = None /\ UNCHANGED batch
    BY <1>1, <2>3 DEF pause_subscription, Active
  <2>4. ASSUME NEW q \in Pair, resume_subscription(signers, q)
        PROVE  subs'[p] = None /\ UNCHANGED batch
    BY <1>1, <2>4 DEF resume_subscription, Active
  <2>5. ASSUME NEW q \in Pair, cancel(signers, q)
        PROVE  subs'[p] = None /\ UNCHANGED batch
    BY <1>0, <2>5 DEF cancel, TypeOK
  <2>6. ASSUME NEW q \in Pair, NEW m \in Merchants, transfer_subscription(signers, q, m)
        PROVE  subs'[p] = None /\ UNCHANGED batch
    <3>1. p # <<q[1], m>>
      BY <2>6 DEF transfer_subscription
    <3>2. QED
      BY <1>0, <2>6, <3>1 DEF transfer_subscription, TypeOK
  <2>7. ASSUME NEW q \in Pair, execute_payment(signers, q)
        PROVE  subs'[p] = None /\ UNCHANGED batch
    <3>1. subs[q] # None
      BY <2>7, ExecuteOk, NoneAssumption DEF execute_payment
    <3>2. QED
      BY <1>1, <2>7, <3>1 DEF execute_payment
  <2>8. ASSUME NEW m \in Merchants, NEW n \in 0..(BATCH_MAX_SIZE + 1),
               NEW q \in [1..n -> Subscribers], batch_begin(signers, m, q)
        PROVE  subs'[p] = None /\ batch'.subs[p] = None
    BY <1>0, <2>8 DEF batch_begin
  <2>9. QED
    BY <1>0, <1>2, <2>1, <2>2, <2>3, <2>4, <2>5, <2>6, <2>7, <2>8
    DEF Transaction, migrate, set_max_amount, set_protocol_fee
<1>3. CASE BatchStep
  <2>1. batch # None
    BY <1>3 DEF BatchStep, batch_skip, batch_overdue, batch_collect, batch_abort
  <2>2. CASE batch_abort
    BY <1>0, <2>1, <2>2 DEF batch_abort
  <2>3. CASE batch_skip \/ batch_overdue \/ batch_collect
    <3>1. batch' # None => batch'.subs[p] = None
      BY <1>0, <2>1, <2>3, BatchContinueType DEF batch_skip, batch_overdue, batch_collect
    <3>2. CASE batch_skip
      BY <1>0, <3>1, <3>2 DEF batch_skip
    <3>3. CASE batch_overdue \/ batch_collect
      <4>1. batch_pair \in Pair /\ subs[batch_pair] # None
        BY <2>1, <3>3, BatchItem, NoneAssumption DEF batch_overdue, batch_collect
      <4>2. PICK d : subs' = [subs EXCEPT ![batch_pair] = d]
        BY <3>3 DEF batch_overdue, batch_collect
      <4>3. QED
        BY <1>1, <3>1, <4>1, <4>2
    <3>4. QED
      BY <2>3, <3>2, <3>3
  <2>4. QED
    BY <1>3, <2>2, <2>3 DEF BatchStep
<1>4. CASE \/ UNCHANGED vars \/ Environment
           \/ \E a \in Admins : initialize(a)
  BY <1>0, <1>4 DEF vars, initialize, Environment, ledger_close, marker_expires, approve, fund
<1>5. QED
  BY <1>2, <1>3, <1>4 DEF Next

\* What DebitIsAmount says of the collection of p.
LEMMA DebitStep ==
    ASSUME IndInv, NotToSelf, [Next]_vars, NEW p \in Pair, Charged(p)
    PROVE  LET d == subs[p]
               gain(a) == balance'[d.token][a] - balance[d.token][a]
               cut == d.amount - IF fee # None /\ p[2] = fee.fee_collector
                                 THEN d.amount ELSE gain(p[2])
           IN  /\ 0 <= cut /\ cut * BPS_SCALE <= d.amount * MAX_FEE_BPS
               /\ cut > 0 => gain(fee.fee_collector) =
                               IF fee.fee_collector = p[1] THEN cut - d.amount ELSE cut
               /\ (fee = None \/ fee.fee_collector # p[1]) => gain(p[1]) = - d.amount
               /\ (fee # None /\ fee.fee_collector = p[2]) => gain(p[2]) = d.amount
<1>1. PICK t, amount : t = subs[p].token /\ amount = subs[p].amount
  OBVIOUS
<1>2. TypeOK /\ t \in Tokens /\ amount \in 1..MAX_AMOUNT /\ amount \in Nat /\ p[1] # p[2]
  BY <1>1, LimitsAssumption DEF IndInv, NotToSelf, Charged, Active, TypeOK, SubscriptionData
<1>3. PICK c, new : c = fee_amount(amount) /\ new = pay(balance[t], p, amount)
  OBVIOUS
<1>4. balance'[t] = new
  BY <1>1, <1>2, <1>3, ChargedIsDue DEF Pays, TypeOK, Balances
<1>5. c * BPS_SCALE <= amount * MAX_FEE_BPS
  BY <1>2, <1>3, FeeIsBounded
<1>6. /\ c \in 0..amount
      /\ c > 0 => fee # None /\ fee.fee_collector \in Address
      /\ (c = 0 \/ fee.fee_collector # p[1]) => new[p[1]] = balance[t][p[1]] - amount
      /\ (c = 0 \/ fee.fee_collector # p[2]) =>
            new[p[2]] = balance[t][p[2]] + (amount - c)
      /\ (c > 0 /\ fee.fee_collector = p[1]) =>
            new[p[1]] = balance[t][p[1]] - (amount - c)
      /\ (c > 0 /\ fee.fee_collector = p[2]) => new[p[2]] = balance[t][p[2]] + amount
      /\ (c > 0 /\ fee.fee_collector \notin {p[1], p[2]}) =>
            new[fee.fee_collector] = balance[t][fee.fee_collector] + c
  BY <1>2, <1>3, PayMoves
<1>7. /\ balance[t][p[1]] \in Int /\ balance[t][p[2]] \in Int
      /\ c > 0 => balance[t][fee.fee_collector] \in Int
  BY <1>2, <1>6, PartiesAssumption, LimitsAssumption DEF TypeOK, Balances, Pair
<1>8. fee = None => c = 0
  BY <1>3 DEF fee_amount
<1> DEFINE gain(a) == new[a] - balance[t][a]
<1> DEFINE cut == amount - IF fee # None /\ p[2] = fee.fee_collector
                           THEN amount ELSE gain(p[2])
<1>9. cut = IF fee # None /\ p[2] = fee.fee_collector THEN 0 ELSE c
  BY <1>2, <1>6, <1>7, <1>8
<1>10. 0 <= cut /\ cut * BPS_SCALE <= amount * MAX_FEE_BPS
  <2>1. CASE cut = c
    BY <1>5, <1>6, <2>1
  <2>2. CASE cut = 0
    BY <1>2, <2>2, LimitsAssumption DEF BPS_SCALE
  <2>3. QED
    BY <1>9, <2>1, <2>2
<1>11. cut > 0 => gain(fee.fee_collector) =
                    IF fee.fee_collector = p[1] THEN cut - amount ELSE cut
  BY <1>2, <1>6, <1>7, <1>8, <1>9
<1>12. (fee = None \/ fee.fee_collector # p[1]) => gain(p[1]) = - amount
  BY <1>2, <1>6, <1>7, <1>8
<1>13. (fee # None /\ fee.fee_collector = p[2]) => gain(p[2]) = amount
  BY <1>2, <1>6, <1>7
<1>14. QED
  BY <1>1, <1>4, <1>10, <1>11, <1>12, <1>13

\* A collection takes exactly the agreed amount from the subscriber, the
\* merchant gets all but the fee, and the fee stays within its limit, also
\* where the collector is one of the two.
THEOREM DebitHolds == Spec => DebitIsAmount
<1>1. Init => NotToSelf
  BY DEF Init, NotToSelf
<1>2. IndInv /\ NotToSelf /\ [Next]_vars => NotToSelf'
  BY NotToSelfStep DEF IndInv
<1>3. IndInv /\ NotToSelf /\ [Next]_vars =>
        [\A p \in Pair : Charged(p) =>
           LET d == subs[p]
               gain(a) == balance'[d.token][a] - balance[d.token][a]
               cut == d.amount - IF fee # None /\ p[2] = fee.fee_collector
                                 THEN d.amount ELSE gain(p[2])
           IN  /\ 0 <= cut /\ cut * BPS_SCALE <= d.amount * MAX_FEE_BPS
               /\ cut > 0 => gain(fee.fee_collector) =
                               IF fee.fee_collector = p[1] THEN cut - d.amount ELSE cut
               /\ (fee = None \/ fee.fee_collector # p[1]) => gain(p[1]) = - d.amount
               /\ (fee # None /\ fee.fee_collector = p[2]) => gain(p[2]) = d.amount
        ]_vars
  BY DebitStep
<1>4. QED
  BY <1>1, <1>2, <1>3, Invariance, PTL DEF Spec, DebitIsAmount

-----------------------------------------------------------------------------
(* Consent.                                                                *)

\* A collection lowers no balance but the subscriber's.
LEMMA PayLowersOnlyPayer ==
    ASSUME TypeOK, NEW t \in Tokens, NEW p \in Pair, NEW amount \in 1..MAX_AMOUNT,
           NEW a \in Address, a # p[1]
    PROVE  ~(pay(balance[t], p, amount)[a] < balance[t][a])
<1> DEFINE cut == fee_amount(amount)
<1> DEFINE paid == transfer(balance[t], p[1], p[2], amount - cut)
<1>1. cut \in 0..amount /\ amount \in Nat
  BY FeeAmountType, LimitsAssumption
<1>2. balance[t] \in [Address -> Int]
  BY LimitsAssumption DEF TypeOK, Balances
<1>3. p[1] \in Address /\ p[2] \in Address
  BY PartiesAssumption DEF Pair
<1>4. pay(balance[t], p, amount) =
        IF cut > 0 THEN transfer(paid, p[1], fee.fee_collector, cut) ELSE paid
  BY DEF pay
<1> HIDE DEF cut
<1>5. paid \in [Address -> Int] /\ paid[a] >= balance[t][a]
  BY <1>1, <1>2, <1>3 DEF transfer
<1>6. balance[t][a] \in Int /\ paid[a] \in Int
  BY <1>2, <1>5
<1> HIDE DEF paid
<1>7. transfer(paid, p[1], fee.fee_collector, cut)[a] >= paid[a]
  BY <1>1, <1>3, <1>5, <1>6 DEF transfer
<1>8. transfer(paid, p[1], fee.fee_collector, cut)[a] \in Int
  BY <1>1, <1>3, <1>5, <1>6 DEF transfer
<1>9. QED
  BY <1>4, <1>5, <1>6, <1>7, <1>8

\* The step changes what p's subscriber agreed to, or takes its tokens.
Touched(p) == Terms(subs'[p]) # Terms(subs[p]) \/ Lowered(p[1])

\* Where neither the record nor the balances change, nothing is touched.
LEMMA NotTouched ==
    ASSUME TypeOK, NEW p \in Pair, subs'[p] = subs[p], balance' = balance
    PROVE  ~Touched(p)
<1>1. \A t \in Tokens : balance[t][p[1]] \in Int
  BY PartiesAssumption, LimitsAssumption DEF Pair, TypeOK, Balances
<1>2. QED
  BY <1>1 DEF Touched, Lowered

\* A collection from q touches only what is q's subscriber's.
LEMMA CollectionTouches ==
    ASSUME TypeOK, NEW q \in Pair, subs[q] \in SubscriptionData,
           balance' = [balance EXCEPT ![subs[q].token] =
                         pay(balance[subs[q].token], q, subs[q].amount)],
           NEW d, subs' = [subs EXCEPT ![q] = d],
           NEW p \in Pair, Touched(p)
    PROVE  p[1] = q[1]
<1> SUFFICES ASSUME p[1] # q[1] PROVE FALSE
  OBVIOUS
<1>1. subs'[p] = subs[p]
  BY DEF TypeOK
<1>2. PICK t \in Tokens : balance'[t][p[1]] < balance[t][p[1]]
  BY <1>1 DEF Touched, Lowered
<1>3. subs[q].token \in Tokens /\ subs[q].amount \in 1..MAX_AMOUNT /\ p[1] \in Address
  BY PartiesAssumption DEF SubscriptionData, Pair
<1>4. CASE t = subs[q].token
  <2>1. balance'[t] = pay(balance[t], q, subs[q].amount)
    BY <1>3, <1>4 DEF TypeOK, Balances
  <2>2. QED
    BY <1>2, <1>3, <2>1, PayLowersOnlyPayer
<1>5. CASE t # subs[q].token
  <2>1. balance'[t] = balance[t] /\ balance[t][p[1]] \in Int
    BY <1>3, <1>5, LimitsAssumption DEF TypeOK, Balances
  <2>2. QED
    BY <1>2, <2>1
<1>6. QED
  BY <1>4, <1>5

\* A transaction that touches a pair is signed by its subscriber.
LEMMA ConsentStep ==
    ASSUME TypeOK, NEW p \in Pair, Touched(p), NEW signers \in SignerSets, Transaction(signers)
    PROVE  p[1] \in signers
<1> USE DEF token_vars
<1>u. \/ subs'[p] # subs[p]
      \/ balance' # balance
  BY NotTouched
<1>1. ASSUME NEW q \in Pair, NEW t \in Tokens, NEW x \in Amounts, NEW i \in Intervals,
             NEW strict \in BOOLEAN, subscribe(signers, q, t, x, i, strict)
      PROVE  p[1] \in signers
  <2>1. q[1] \in signers /\ (p # q => subs'[p] = subs[p])
    BY <1>1, SubscribedType
  <2>2. balance' = balance
    BY <1>1 DEF subscribe
  <2>3. QED
    BY <1>u, <2>1, <2>2
<1>2. ASSUME NEW q \in Pair, NEW x \in Amounts, NEW i \in Intervals,
             update_subscription(signers, q, x, i)
      PROVE  p[1] \in signers
  BY <1>u, <1>2 DEF update_subscription, TypeOK
<1>3. ASSUME NEW q \in Pair, NEW r \in ResumeTimes, pause_subscription(signers, q, r)
      PROVE  p[1] \in signers
  BY <1>u, <1>3 DEF pause_subscription, TypeOK
<1>4. ASSUME NEW q \in Pair, resume_subscription(signers, q) PROVE p[1] \in signers
  BY <1>u, <1>4 DEF resume_subscription, TypeOK
<1>5. ASSUME NEW q \in Pair, cancel(signers, q) PROVE p[1] \in signers
  BY <1>u, <1>5 DEF cancel, TypeOK
<1>6. ASSUME NEW q \in Pair, NEW m \in Merchants, transfer_subscription(signers, q, m)
      PROVE  p[1] \in signers
  <2>1. q[1] \in signers /\ balance' = balance
    BY <1>6 DEF transfer_subscription
  <2>2. p = q \/ p = <<q[1], m>>
    BY <1>u, <1>6, <2>1 DEF transfer_subscription, TypeOK
  <2>3. QED
    BY <2>1, <2>2
<1>7. ASSUME NEW q \in Pair, execute_payment(signers, q) PROVE p[1] \in signers
  <2>1. /\ subs[q] \in SubscriptionData
        /\ auto_resumed(subs[q]) = subs[q]
        /\ q[1] \in signers
    BY <1>7, ExecuteOk DEF execute_payment
  <2>2. /\ balance' = [balance EXCEPT ![subs[q].token] =
                         pay(balance[subs[q].token], q, subs[q].amount)]
        /\ subs' = [subs EXCEPT ![q] = collected(subs[q])]
    BY <1>7, <2>1 DEF execute_payment
  <2>3. p[1] = q[1]
    BY <2>1, <2>2, CollectionTouches
  <2>4. QED
    BY <2>1, <2>3
<1>8. QED
  BY <1>u, <1>1, <1>2, <1>3, <1>4, <1>5, <1>6, <1>7
  DEF Transaction, migrate, set_max_amount, set_protocol_fee, batch_begin

\* The record of a collection counts the payment.
LEMMA CollectionCounts ==
    ASSUME TypeOK, NEW q \in Pair, subs[q] \in SubscriptionData, NEW signers,
           ~collection_traps(signers, q, subs[q]),
           subs' = [subs EXCEPT ![q] = collected(subs[q])]
    PROVE  Charged(q)
<1>1. /\ collected(subs[q]) \in SubscriptionData
      /\ collected(subs[q]).payment_nonce = subs[q].payment_nonce + 1
  BY CollectedType DEF collection_traps
<1>2. subs'[q] = collected(subs[q])
  BY DEF TypeOK
<1>3. QED
  BY <1>1, <1>2, NoneAssumption DEF Charged, Active

\* A collection that lowers a balance of p's subscriber charges a subscription
\* of that subscriber.
LEMMA LoweringCharges ==
    ASSUME TypeOK, NEW q \in Pair, subs[q] \in SubscriptionData, NEW signers,
           ~collection_traps(signers, q, subs[q]),
           balance' = [balance EXCEPT ![subs[q].token] =
                         pay(balance[subs[q].token], q, subs[q].amount)],
           subs' = [subs EXCEPT ![q] = collected(subs[q])],
           NEW p \in Pair, Lowered(p[1])
    PROVE  \E m \in Merchants : Charged(<<p[1], m>>)
<1>1. p[1] = q[1]
  BY CollectionTouches DEF Touched
<1>2. q[2] \in Merchants /\ q = <<p[1], q[2]>>
  BY <1>1 DEF Pair
<1>3. QED
  BY <1>2, CollectionCounts

\* A transaction, or an iteration of a batch, takes a subscriber's tokens only
\* by charging one of its subscriptions.
LEMMA TakingStep ==
    ASSUME TypeOK, NEW p \in Pair, Lowered(p[1]),
           batch_collect \/ \E signers \in SignerSets : Transaction(signers)
    PROVE  \E m \in Merchants : Charged(<<p[1], m>>)
<1>u. balance' # balance
  <2>1. \A t \in Tokens : balance[t][p[1]] \in Int
    BY PartiesAssumption, LimitsAssumption DEF Pair, TypeOK, Balances
  <2>2. QED
    BY <2>1 DEF Lowered
<1>1. CASE batch_collect
  <2> DEFINE q == batch_pair
  <2>1. /\ q \in Pair /\ subs[q] \in SubscriptionData
        /\ ~collection_traps(batch.signers, q, subs[q])
    BY <1>1, BatchItem DEF batch_collect
  <2>2. /\ balance' = [balance EXCEPT ![subs[q].token] =
                         pay(balance[subs[q].token], q, subs[q].amount)]
        /\ subs' = [subs EXCEPT ![q] = collected(subs[q])]
    BY <1>1 DEF batch_collect
  <2> HIDE DEF q
  <2>3. QED
    BY <2>1, <2>2, LoweringCharges
<1>2. ASSUME NEW signers \in SignerSets, NEW q \in Pair, execute_payment(signers, q)
      PROVE  \E m \in Merchants : Charged(<<p[1], m>>)
  <2>1. /\ subs[q] \in SubscriptionData
        /\ auto_resumed(subs[q]) = subs[q]
        /\ ~collection_traps(signers, q, subs[q])
    BY <1>2, ExecuteOk DEF execute_payment
  <2>2. /\ balance' = [balance EXCEPT ![subs[q].token] =
                         pay(balance[subs[q].token], q, subs[q].amount)]
        /\ subs' = [subs EXCEPT ![q] = collected(subs[q])]
    BY <1>2, <2>1 DEF execute_payment
  <2>3. QED
    BY <2>1, <2>2, LoweringCharges
<1>3. ASSUME NEW signers \in SignerSets, Transaction(signers)
      PROVE  \E q \in Pair : execute_payment(signers, q)
  BY <1>u, <1>3
  DEF Transaction, migrate, set_max_amount, set_protocol_fee, subscribe,
      update_subscription, pause_subscription, resume_subscription, cancel,
      transfer_subscription, batch_begin, token_vars
<1>4. QED
  BY <1>1, <1>2, <1>3

\* No transaction changes what a subscriber agreed to without its signature,
\* and none takes its tokens but by charging one of its subscriptions
\* (require_auth of every entry point of the subscriber, lib.rs:511-1137).
THEOREM ConsentHolds == Spec => SubscriberConsent
<1>1. TypeOK /\ [Next]_vars =>
        [\A p \in Pair :
           /\ Terms(subs'[p]) # Terms(subs[p]) =>
                 \A signers \in SignerSets : Transaction(signers) => p[1] \in signers
           /\ Lowered(p[1]) /\ (batch_collect \/ \E signers \in SignerSets : Transaction(signers)) =>
                 \E m \in Merchants : Charged(<<p[1], m>>)]_vars
  BY ConsentStep, TakingStep DEF Touched
<1>2. QED
  BY <1>1, TypeCorrect, PTL DEF Spec, SubscriberConsent

-----------------------------------------------------------------------------
(* The subscription contract implements RecurringPayment, for every value  *)
(* of its constants: every step of SubscriptionProtocol is a step of the   *)
(* abstract specification, or leaves the committed mandates and the clock  *)
(* as they are.                                                            *)

\* The mandate of a stored record, and of none (SubscriptionData).
LEMMA MandateType ==
    ASSUME NEW d \in SubscriptionData \cup {None}
    PROVE  /\ d = None <=> Mandate(d) = None
           /\ d # None =>
                 /\ Mandate(d) = [token |-> d.token, amount |-> d.amount,
                                  interval |-> d.interval, due |-> d.next_payment,
                                  paid |-> d.payment_nonce]
                 /\ Mandate(d) \in MandateData
                 /\ d \in SubscriptionData
<1>1. CASE d = None
  BY <1>1 DEF Mandate
<1>2. CASE d # None
  <2>1. Mandate(d) = [token |-> d.token, amount |-> d.amount, interval |-> d.interval,
                      due |-> d.next_payment, paid |-> d.payment_nonce]
    BY <1>2 DEF Mandate
  <2>2. d \in SubscriptionData
    BY <1>2
  <2>3. Mandate(d) \in MandateData
    BY <2>1, <2>2 DEF SubscriptionData, MandateData
  <2>4. Mandate(d) # None
    BY <2>3, NoneAssumption
  <2>5. QED
    BY <1>2, <2>1, <2>2, <2>3, <2>4
<1>3. QED
  BY <1>1, <1>2

\* What the abstract steps make of a mandate, field by field.
LEMMA PaidFields ==
    ASSUME NEW t, NEW a, NEW i, NEW u, NEW n, NEW x, NEW y
    PROVE  [[token |-> t, amount |-> a, interval |-> i, due |-> u, paid |-> n]
              EXCEPT !.due = x, !.paid = y] =
           [token |-> t, amount |-> a, interval |-> i, due |-> x, paid |-> y]
<1>1. PICK m : m = [token |-> t, amount |-> a, interval |-> i, due |-> u, paid |-> n]
  OBVIOUS
<1>2. PICK m1 : m1 = [token |-> t, amount |-> a, interval |-> i, due |-> x, paid |-> n]
  OBVIOUS
<1>3. [m EXCEPT !.due = x] = m1
  BY <1>1, <1>2
<1>4. [m1 EXCEPT !.paid = y] =
         [token |-> t, amount |-> a, interval |-> i, due |-> x, paid |-> y]
  BY <1>2
<1>5. [m EXCEPT !.due = x, !.paid = y] = [m1 EXCEPT !.paid = y]
  BY <1>3, Zenon
<1>6. QED
  BY <1>1, <1>4, <1>5, Zenon

\* Between transactions the committed records are the stored ones, and their
\* mandates are those of the records.
LEMMA IdleMandates ==
    ASSUME TypeOK, TypeOK', Idle, Idle'
    PROVE  /\ Mandates = [p \in Pair |-> Mandate(subs[p])]
           /\ Mandates' = [p \in Pair |-> Mandate(subs'[p])]
  BY DEF Idle, Mandates, Committed

\* Where one record is replaced, one mandate is.
LEMMA OneMandate ==
    ASSUME TypeOK, TypeOK', Idle, Idle', NEW p \in Pair, NEW d,
           subs' = [subs EXCEPT ![p] = d]
    PROVE  Mandates' = [Mandates EXCEPT ![p] = Mandate(d)]
<1>1. /\ Mandates = [q \in Pair |-> Mandate(subs[q])]
      /\ Mandates' = [q \in Pair |-> Mandate(subs'[q])]
  BY IdleMandates
<1>2. subs'[p] = d /\ \A q \in Pair : q # p => subs'[q] = subs[q]
  BY DEF TypeOK
<1>3. Mandates' = [q \in Pair |-> IF q = p THEN Mandate(d) ELSE Mandates[q]]
  <2>1. \A q \in Pair : Mandate(subs'[q]) = IF q = p THEN Mandate(d) ELSE Mandates[q]
    BY <1>1, <1>2
  <2>2. QED
    BY <1>1, <2>1
<1>4. QED
  BY <1>1, <1>3

-----------------------------------------------------------------------------
(* The transactions of the subscriber.                                     *)

\* subscribe agrees on a mandate (lib.rs:547).
LEMMA SubscribeAgrees ==
    ASSUME TypeOK, TypeOK', NEW signers \in SignerSets, NEW p \in Pair, NEW t \in Tokens,
           NEW x \in Amounts, NEW i \in Intervals, NEW strict \in BOOLEAN,
           subscribe(signers, p, t, x, i, strict)
    PROVE  Promise!Next
<1> DEFINE new == [token |-> t, amount |-> x, interval |-> i,
                   next_payment |-> now + i, is_paused |-> FALSE,
                   paused_until |-> None, overdue_since |-> None,
                   payment_nonce |-> 0]
<1>1. Idle /\ Idle' /\ now' = now /\ subs' = [subs EXCEPT ![p] = new]
  BY DEF subscribe, Idle
<1>2. subs'[p] = new /\ new # None
  <2>1. subs'[p] \in SubscriptionData
    BY SubscribedType
  <2> HIDE DEF new
  <2>2. subs'[p] = new
    BY <1>1 DEF TypeOK
  <2>3. QED
    BY <2>1, <2>2, NoneAssumption
<1>3. Mandate(new) = [token |-> t, amount |-> x, interval |-> i, due |-> now + i, paid |-> 0]
  BY <1>2 DEF Mandate
<1> HIDE DEF new
<1>4. Mandates' = [Mandates EXCEPT ![p] = Mandate(new)]
  BY <1>1, OneMandate
<1>5. valid_amount(x) /\ valid_interval(i)
  BY InputsAssumption, LimitsAssumption DEF subscribe, subscribe_error, valid_amount, valid_interval
<1>6. Promise!Agree(p, t, x, i)
  BY <1>1, <1>3, <1>4 DEF Promise!Agree
<1>7. QED
  BY <1>5, <1>6 DEF Promise!Next

\* The mandate with other terms.
LEMMA AmendMandate ==
    ASSUME NEW d \in SubscriptionData, NEW am, NEW iv
    PROVE  [[Mandate(d) EXCEPT !.amount = am] EXCEPT !.interval = iv] =
           [token |-> d.token, amount |-> am, interval |-> iv, due |-> d.next_payment,
            paid |-> d.payment_nonce]
<1>1. Mandate(d) = [token |-> d.token, amount |-> d.amount, interval |-> d.interval,
                    due |-> d.next_payment, paid |-> d.payment_nonce]
  BY MandateType, NoneAssumption
<1>2. PICK m : m = Mandate(d)
  OBVIOUS
<1>3. PICK m1 : m1 = [token |-> d.token, amount |-> am, interval |-> d.interval,
                      due |-> d.next_payment, paid |-> d.payment_nonce]
  OBVIOUS
<1>4. [m EXCEPT !.amount = am] = m1
  BY <1>1, <1>2, <1>3
<1>5. [m1 EXCEPT !.interval = iv] =
         [token |-> d.token, amount |-> am, interval |-> iv, due |-> d.next_payment,
          paid |-> d.payment_nonce]
  BY <1>3
<1>6. QED
  BY <1>2, <1>4, <1>5, Zenon

\* update_subscription amends it (lib.rs:593-640).
LEMMA UpdateAmends ==
    ASSUME TypeOK, TypeOK', NEW signers \in SignerSets, NEW p \in Pair,
           NEW x \in Amounts, NEW i \in Intervals, update_subscription(signers, p, x, i)
    PROVE  Promise!Next
<1> DEFINE d == subs[p]
<1>1. /\ Idle /\ Idle' /\ now' = now /\ d \in SubscriptionData
      /\ subs' = [subs EXCEPT ![p] = updated(d, x, i)]
      /\ valid_amount(x) /\ valid_interval(i)
  BY DEF update_subscription, Idle, Active, TypeOK
<1>2. x \in 1..MAX_AMOUNT /\ i \in MIN_INTERVAL..MAX_INTERVAL
  BY <1>1, InputsAssumption, LimitsAssumption DEF valid_amount, valid_interval
<1>3. /\ Mandates' = [Mandates EXCEPT ![p] = Mandate(updated(d, x, i))]
      /\ Mandates[p] = Mandate(d)
  BY <1>1, OneMandate, IdleMandates
<1>4. updated(d, x, i) \in SubscriptionData /\ updated(d, x, i) # None /\ d # None
  BY <1>1, <1>2, UpdatedType, NoneAssumption
<1>5. Mandate(updated(d, x, i)) = [token |-> d.token, amount |-> x, interval |-> i,
                                   due |-> d.next_payment, paid |-> d.payment_nonce]
  <2>1. /\ updated(d, x, i).token = d.token /\ updated(d, x, i).amount = x
        /\ updated(d, x, i).interval = i /\ updated(d, x, i).next_payment = d.next_payment
        /\ updated(d, x, i).payment_nonce = d.payment_nonce
    BY <1>1 DEF updated, SubscriptionData
  <2>2. QED
    BY <1>4, <2>1 DEF Mandate
<1>6. Mandate(d) # None
  BY <1>1, <1>4, MandateType
<1>7. Mandates \in [Pair -> MandateData \cup {None}]
  BY <1>1, IdleMandates, MandateType DEF TypeOK
<1>8. Mandate(updated(d, x, i)) = [[Mandate(d) EXCEPT !.amount = x] EXCEPT !.interval = i]
  BY <1>1, <1>5, AmendMandate, Zenon
<1> HIDE DEF d
<1>9. Promise!Amend(p, x, i)
  BY <1>1, <1>3, <1>6, <1>7, <1>8 DEF Promise!Amend, Promise!Agreed
<1>10. QED
  BY <1>1, <1>9 DEF Promise!Next

\* resume_subscription starts the schedule again (lib.rs:775).
LEMMA ResumePostpones ==
    ASSUME TypeOK, TypeOK', NEW signers \in SignerSets, NEW p \in Pair,
           resume_subscription(signers, p)
    PROVE  Promise!Next
<1> DEFINE d == subs[p]
<1>1. /\ Idle /\ Idle' /\ now' = now /\ d \in SubscriptionData
      /\ subs' = [subs EXCEPT ![p] = resumed(d)]
      /\ ~next_payment_overflows(d.interval)
  BY DEF resume_subscription, Idle, Active, TypeOK
<1>2. /\ Mandates' = [Mandates EXCEPT ![p] = Mandate(resumed(d))]
      /\ Mandates[p] = Mandate(d)
  BY <1>1, OneMandate, IdleMandates
<1>3. resumed(d) \in SubscriptionData /\ resumed(d) # None /\ d # None
  BY <1>1, ResumedType, NoneAssumption
<1>4. Mandate(resumed(d)) = [token |-> d.token, amount |-> d.amount, interval |-> d.interval,
                             due |-> now + d.interval, paid |-> d.payment_nonce]
  BY <1>1, <1>3 DEF Mandate, resumed, SubscriptionData
<1>5. Mandate(d) # None /\ Mandate(d).interval = d.interval
  BY <1>1, <1>3, MandateType
<1>6. Mandates \in [Pair -> MandateData \cup {None}]
  BY <1>1, IdleMandates, MandateType DEF TypeOK
<1>7. Mandate(resumed(d)) = [Mandate(d) EXCEPT !.due = now + Mandate(d).interval]
  BY <1>1, <1>3, <1>4, <1>5 DEF Mandate
<1> HIDE DEF d
<1>8. Promise!Postpone(p)
  BY <1>1, <1>2, <1>5, <1>6, <1>7 DEF Promise!Postpone, Promise!Agreed
<1>9. QED
  BY <1>8 DEF Promise!Next

\* cancel revokes it (lib.rs:1069-1110).
LEMMA CancelRevokes ==
    ASSUME TypeOK, TypeOK', NEW signers \in SignerSets, NEW p \in Pair, cancel(signers, p)
    PROVE  Promise!Next
<1>1. /\ Idle /\ Idle' /\ now' = now /\ subs[p] # None
      /\ subs' = [subs EXCEPT ![p] = None]
  BY DEF cancel, Idle, Active
<1>2. /\ Mandates' = [Mandates EXCEPT ![p] = Mandate(None)] /\ Mandate(None) = None
      /\ Mandates[p] = Mandate(subs[p])
  BY <1>1, OneMandate, IdleMandates DEF Mandate
<1>3. Mandates[p] # None
  BY <1>1, <1>2, MandateType DEF TypeOK
<1>4. Promise!Revoke(p)
  BY <1>1, <1>2, <1>3 DEF Promise!Revoke, Promise!Agreed
<1>5. QED
  BY <1>4 DEF Promise!Next

\* transfer_subscription moves it to another merchant.
LEMMA TransferMoves ==
    ASSUME TypeOK, TypeOK', NEW signers \in SignerSets, NEW p \in Pair, NEW m \in Merchants,
           transfer_subscription(signers, p, m)
    PROVE  Promise!Next
<1> DEFINE q == <<p[1], m>>
<1>1. /\ Idle /\ Idle' /\ now' = now /\ subs[p] # None /\ subs[q] = None
      /\ subs' = [subs EXCEPT ![q] = subs[p], ![p] = None]
  BY DEF transfer_subscription, Idle, Active
<1>2. q \in Pair /\ q[1] = p[1] /\ q # p
  BY <1>1 DEF Pair
<1> HIDE DEF q
<1>3. /\ Mandates = [r \in Pair |-> Mandate(subs[r])]
      /\ Mandates' = [r \in Pair |-> Mandate(subs'[r])]
  BY <1>1, IdleMandates
<1>4. /\ subs'[q] = subs[p] /\ subs'[p] = None
      /\ \A r \in Pair : r # p /\ r # q => subs'[r] = subs[r]
  BY <1>1, <1>2 DEF TypeOK
<1>5. Mandates[p] # None /\ Mandates[q] = None /\ Mandate(None) = None
  <2>1. Mandates[p] = Mandate(subs[p]) /\ Mandates[q] = Mandate(subs[q])
    BY <1>2, <1>3
  <2>2. Mandate(subs[p]) # None
    BY <1>1, MandateType DEF TypeOK
  <2>3. QED
    BY <1>1, <2>1, <2>2 DEF Mandate
<1>6. Mandates' = [Mandates EXCEPT ![q] = Mandates[p], ![p] = None]
  <2>1. \A r \in Pair : Mandate(subs'[r]) = IF r = p THEN None
                                            ELSE IF r = q THEN Mandates[p] ELSE Mandates[r]
    BY <1>2, <1>3, <1>4, <1>5
  <2>2. Mandates' = [r \in Pair |-> IF r = p THEN None
                                    ELSE IF r = q THEN Mandates[p] ELSE Mandates[r]]
    BY <1>3, <2>1
  <2>3. QED
    BY <1>2, <1>3, <2>2
<1>7. Promise!Move(p, q)
  BY <1>1, <1>2, <1>5, <1>6 DEF Promise!Move, Promise!Agreed
<1>8. QED
  BY <1>2, <1>7 DEF Promise!Next

-----------------------------------------------------------------------------
(* Collections.                                                            *)

\* collected advances a mandate by one payment, as Paid does (lib.rs:907-912).
LEMMA CollectedPaid ==
    ASSUME TypeOK, NEW d \in SubscriptionData,
           ~next_payment_overflows(d.interval), d.payment_nonce # U32_MAX
    PROVE  Mandate(collected(d)) = [token |-> d.token, amount |-> d.amount,
                                    interval |-> d.interval, due |-> now + d.interval,
                                    paid |-> d.payment_nonce + 1]
<1>1. collected(d) \in SubscriptionData /\ collected(d) # None
  BY CollectedType, NoneAssumption
<1>2. /\ collected(d).token = d.token /\ collected(d).amount = d.amount
      /\ collected(d).interval = d.interval /\ collected(d).next_payment = now + d.interval
      /\ collected(d).payment_nonce = d.payment_nonce + 1
  BY DEF collected, SubscriptionData
<1>3. QED
  BY <1>1, <1>2 DEF Mandate

\* The mandate after a payment, in the terms of the abstract specification.
LEMMA PaidMandate ==
    ASSUME NEW d \in SubscriptionData
    PROVE  Promise!Paid(Mandate(d)) = [token |-> d.token, amount |-> d.amount,
                                       interval |-> d.interval, due |-> now + d.interval,
                                       paid |-> d.payment_nonce + 1]
<1>1. Mandate(d) = [token |-> d.token, amount |-> d.amount, interval |-> d.interval,
                    due |-> d.next_payment, paid |-> d.payment_nonce]
  BY MandateType, NoneAssumption
<1>2. Mandate(d).interval = d.interval /\ Mandate(d).paid = d.payment_nonce
  BY <1>1
<1>3. Promise!Paid(Mandate(d)) =
         [Mandate(d) EXCEPT !.due = now + d.interval, !.paid = d.payment_nonce + 1]
  BY <1>2, Zenon DEF Promise!Paid
<1>4. Promise!Paid(Mandate(d)) =
         [[token |-> d.token, amount |-> d.amount, interval |-> d.interval,
           due |-> d.next_payment, paid |-> d.payment_nonce]
            EXCEPT !.due = now + d.interval, !.paid = d.payment_nonce + 1]
  BY <1>1, <1>3, Zenon
<1>5. QED
  BY <1>4, PaidFields, Zenon

\* execute_payment charges one due mandate (lib.rs:821-925).
LEMMA ExecuteCollects ==
    ASSUME TypeOK, TypeOK', NEW signers \in SignerSets, NEW p \in Pair,
           execute_payment(signers, p)
    PROVE  Promise!Next
<1> DEFINE d == subs[p]
<1>1. /\ d \in SubscriptionData /\ now >= d.next_payment /\ auto_resumed(d) = d
      /\ ~collection_traps(signers, p, d)
  BY ExecuteOk DEF execute_payment
<1>2. Idle /\ Idle' /\ now' = now /\ subs' = [subs EXCEPT ![p] = collected(d)]
  BY <1>1 DEF execute_payment, Idle
<1>3. Mandate(collected(d)) = Promise!Paid(Mandate(d))
  BY <1>1, CollectedPaid, PaidMandate DEF collection_traps
<1>4. /\ Mandates' = [Mandates EXCEPT ![p] = Mandate(collected(d))]
      /\ Mandates = [q \in Pair |-> Mandate(subs[q])]
  BY <1>2, OneMandate, IdleMandates
<1>5. Mandates[p] = Mandate(d) /\ Mandate(d) # None /\ Mandate(d).due = d.next_payment
  BY <1>1, <1>4, MandateType, NoneAssumption
<1>6. d.next_payment <= now
  BY <1>1, LimitsAssumption DEF TypeOK, Time, SubscriptionData
<1> HIDE DEF d
<1>7. Mandates' = [q \in Pair |-> IF q \in {p} THEN Promise!Paid(Mandates[q]) ELSE Mandates[q]]
  BY <1>3, <1>4, <1>5
<1>8. Promise!Collect(p[2], {p})
  BY <1>2, <1>5, <1>6, <1>7 DEF Promise!Collect, Promise!Agreed
<1>9. QED
  BY <1>8 DEF Promise!Next

\* How far a running batch has come with p: its record has the mandate it had
\* at the start, or that mandate was due then and has been paid once.
Progress(p) ==
    LET before == batch.subs[p] IN
    \/ Mandate(subs[p]) = Mandate(before)
    \/ /\ before # None
       /\ before.next_payment <= now
       /\ p[2] = batch.merchant
       /\ Mandate(subs[p]) = Promise!Paid(Mandate(before))

BatchProgress == batch # None => \A p \in Pair : Progress(p)

\* What p has become when this iteration, maybe the last one, collects from it.
Paying(p) ==
    LET before == batch.subs[p] IN
    /\ before # None
    /\ before.next_payment <= now
    /\ p[2] = batch.merchant
    /\ Mandate(subs'[p]) = Promise!Paid(Mandate(before))

\* A marked overdue record has the mandate it had (lib.rs:1002-1008).
LEMMA OverdueMandate ==
    ASSUME TypeOK, NEW d \in SubscriptionData
    PROVE  Mandate(overdue(d)) = Mandate(d)
<1>1. overdue(d) \in SubscriptionData /\ overdue(d) # None /\ d # None
  BY OverdueType, NoneAssumption
<1>2. /\ overdue(d).token = d.token /\ overdue(d).amount = d.amount
      /\ overdue(d).interval = d.interval /\ overdue(d).next_payment = d.next_payment
      /\ overdue(d).payment_nonce = d.payment_nonce
  BY DEF overdue, SubscriptionData
<1>3. QED
  BY <1>1, <1>2 DEF Mandate

\* A collection of the batch is the first one of its mandate: one that the
\* batch has paid already is due an interval later.
LEMMA CollectProgress ==
    ASSUME TypeOK, batch \in Batch, NEW p \in Pair, subs[p] \in SubscriptionData,
           Progress(p), now >= subs[p].next_payment, p[2] = batch.merchant,
           ~collection_traps(batch.signers, p, subs[p]), subs'[p] = collected(subs[p])
    PROVE  Paying(p)
<1> DEFINE d == subs[p]
<1> DEFINE before == batch.subs[p]
<1>1. before \in SubscriptionData \cup {None}
  BY DEF Batch
<1>2. Mandate(d).due = d.next_payment /\ Mandate(d) # None /\ d # None
  BY MandateType, NoneAssumption
<1>3. /\ now \in Int /\ d.next_payment \in Int /\ d.interval \in Int /\ d.interval > 0
  BY LimitsAssumption DEF TypeOK, Time, SubscriptionData
<1>4. Mandate(d) = Mandate(before)
  <2> SUFFICES ASSUME before # None, Mandate(d) = Promise!Paid(Mandate(before))
               PROVE  FALSE
    BY DEF Progress
  <2>1. before \in SubscriptionData
    BY <1>1
  <2>2. Mandate(d) = [token |-> before.token, amount |-> before.amount,
                      interval |-> before.interval, due |-> now + before.interval,
                      paid |-> before.payment_nonce + 1]
    BY <2>1, PaidMandate
  <2>3. d.next_payment = now + before.interval
    BY <1>2, <2>2
  <2>4. before.interval \in Int /\ before.interval > 0
    BY <2>1, LimitsAssumption DEF SubscriptionData
  <2>5. QED
    BY <1>3, <2>3, <2>4
<1>5. before # None /\ before \in SubscriptionData
  BY <1>1, <1>2, <1>4, MandateType
<1>6. before.next_payment = d.next_payment
  BY <1>2, <1>4, <1>5, MandateType
<1>7. Mandate(collected(d)) = Promise!Paid(Mandate(d))
  BY CollectedPaid, PaidMandate DEF collection_traps
<1>8. QED
  BY <1>3, <1>4, <1>5, <1>6, <1>7 DEF Paying

\* The clock does not move while a batch runs.
LEMMA PaidUnchanged ==
    ASSUME NEW p \in Pair, now' = now, batch'.subs = batch.subs
    PROVE  Promise!Paid(Mandate(batch.subs[p]))' = Promise!Paid(Mandate(batch.subs[p]))
<1>1. Mandate(batch.subs[p])' = Mandate(batch.subs[p])
  BY DEF Mandate
<1>2. QED
  BY <1>1 DEF Promise!Paid

\* Every iteration of a batch advances each mandate once at most: a subscriber
\* listed twice is not due the second time (lib.rs:985 and :1032).
LEMMA Iteration ==
    ASSUME TypeOK, BatchProgress, batch_skip \/ batch_overdue \/ batch_collect
    PROVE  /\ batch \in Batch /\ batch # None /\ batch_continue /\ now' = now
           /\ \A q \in Pair : Mandate(subs'[q]) = Mandate(batch.subs[q]) \/ Paying(q)
<1>b. batch # None /\ batch \in Batch /\ batch_continue /\ now' = now
  BY BatchItem DEF batch_skip, batch_overdue, batch_collect
<1>p. \A q \in Pair : Progress(q)
  BY <1>b DEF BatchProgress
<1>q. PICK p \in Pair : p = batch_pair
  BY <1>b, BatchItem
<1>s. ASSUME NEW q \in Pair, Mandate(subs'[q]) = Mandate(subs[q])
      PROVE  Mandate(subs'[q]) = Mandate(batch.subs[q]) \/ Paying(q)
  BY <1>p, <1>s DEF Progress, Paying
<1>1. CASE batch_skip
  <2>1. subs' = subs
    BY <1>1 DEF batch_skip
  <2>2. QED
    BY <1>b, <1>s, <2>1
<1>2. CASE batch_overdue
  <2>1. subs[p] \in SubscriptionData
    BY <1>2, <1>b, <1>q, BatchItem DEF batch_overdue
  <2>2. subs' = [subs EXCEPT ![p] = overdue(subs[p])]
    BY <1>2, <1>q DEF batch_overdue
  <2>3. subs'[p] = overdue(subs[p]) /\ \A q \in Pair : q # p => subs'[q] = subs[q]
    BY <2>1, <2>2 DEF TypeOK
  <2>4. Mandate(subs'[p]) = Mandate(subs[p])
    BY <2>1, <2>3, OverdueMandate
  <2>5. \A q \in Pair : Mandate(subs'[q]) = Mandate(subs[q])
    BY <2>3, <2>4
  <2>6. QED
    BY <1>b, <1>s, <2>5
<1>3. CASE batch_collect
  <2>1. /\ subs[p] \in SubscriptionData /\ now >= subs[p].next_payment
        /\ ~collection_traps(batch.signers, p, subs[p])
        /\ p[2] = batch.merchant
    BY <1>3, <1>b, <1>q, BatchItem DEF batch_collect, batch_pair
  <2>2. subs' = [subs EXCEPT ![p] = collected(subs[p])]
    BY <1>3, <1>q DEF batch_collect
  <2>3. subs'[p] = collected(subs[p]) /\ \A q \in Pair : q # p => subs'[q] = subs[q]
    BY <2>1, <2>2 DEF TypeOK
  <2>4. Paying(p)
    BY <1>b, <1>p, <2>1, <2>3, CollectProgress
  <2>5. \A q \in Pair : q # p => Mandate(subs'[q]) = Mandate(subs[q])
    BY <2>3
  <2>6. QED
    BY <1>b, <1>s, <2>4, <2>5
<1>4. QED
  BY <1>1, <1>2, <1>3

\* BatchProgress from one iteration to the next.
LEMMA ProgressStep ==
    ASSUME TypeOK, BatchProgress, BatchStep
    PROVE  BatchProgress'
<1>1. CASE batch_abort
  BY <1>1 DEF batch_abort, BatchProgress
<1>2. CASE batch_skip \/ batch_overdue \/ batch_collect
  <2> SUFFICES ASSUME batch' # None, NEW q \in Pair PROVE Progress(q)'
    BY DEF BatchProgress
  <2>1. /\ batch # None /\ batch_continue /\ now' = now
        /\ Mandate(subs'[q]) = Mandate(batch.subs[q]) \/ Paying(q)
    BY <1>2, Iteration
  <2>2. batch'.subs = batch.subs /\ batch'.merchant = batch.merchant
    BY <2>1, BatchContinueType
  <2>3. Promise!Paid(Mandate(batch.subs[q]))' = Promise!Paid(Mandate(batch.subs[q]))
    BY <2>1, <2>2, PaidUnchanged
  <2>4. Mandate(subs[q])' = Mandate(subs'[q]) /\ Mandate(batch.subs[q])' = Mandate(batch.subs[q])
    BY <2>2 DEF Mandate
  <2>5. QED
    BY <2>1, <2>2, <2>3, <2>4 DEF Progress, Paying
<1>3. QED
  BY <1>1, <1>2 DEF BatchStep

\* The last iteration commits the batch: the merchant has charged some of its
\* due mandates, once each (lib.rs:946-1051).
LEMMA CommitCollects ==
    ASSUME TypeOK, TypeOK', BatchProgress, batch_skip \/ batch_overdue \/ batch_collect,
           batch' = None
    PROVE  Promise!Next
<1>1. /\ batch \in Batch /\ batch # None /\ now' = now
      /\ \A q \in Pair : Mandate(subs'[q]) = Mandate(batch.subs[q]) \/ Paying(q)
  BY Iteration
<1>2. /\ Mandates = [q \in Pair |-> Mandate(batch.subs[q])]
      /\ Mandates' = [q \in Pair |-> Mandate(subs'[q])]
  BY <1>1 DEF Mandates, Committed
<1> DEFINE charged == {q \in Pair : Paying(q)}
<1>3. \A q \in charged : q[2] = batch.merchant /\ Mandates[q] # None /\ Mandates[q].due <= now
  <2> SUFFICES ASSUME NEW q \in Pair, Paying(q)
               PROVE  q[2] = batch.merchant /\ Mandates[q] # None /\ Mandates[q].due <= now
    OBVIOUS
  <2>1. Mandates[q] = Mandate(batch.subs[q]) /\ batch.subs[q] \in SubscriptionData \cup {None}
    BY <1>1, <1>2 DEF Batch
  <2>2. /\ batch.subs[q] # None /\ batch.subs[q].next_payment <= now
        /\ q[2] = batch.merchant
    BY DEF Paying
  <2>3. Mandate(batch.subs[q]) # None /\ Mandate(batch.subs[q]).due = batch.subs[q].next_payment
    BY <2>1, <2>2, MandateType
  <2>4. QED
    BY <2>1, <2>2, <2>3
<1>4. \A q \in Pair : Mandate(subs'[q]) =
         IF q \in charged THEN Promise!Paid(Mandates[q]) ELSE Mandates[q]
  <2> TAKE q \in Pair
  <2>1. Mandates[q] = Mandate(batch.subs[q])
    BY <1>2
  <2>2. CASE Paying(q)
    BY <2>1, <2>2 DEF Paying
  <2>3. CASE ~Paying(q)
    BY <1>1, <2>1, <2>3
  <2>4. QED
    BY <2>2, <2>3
<1> HIDE DEF charged
<1>5. Mandates' = [q \in Pair |-> IF q \in charged THEN Promise!Paid(Mandates[q])
                                                   ELSE Mandates[q]]
  BY <1>2, <1>4
<1>6. Promise!Collect(batch.merchant, charged)
  BY <1>1, <1>3, <1>5 DEF Promise!Collect, Promise!Agreed
<1>7. batch.merchant \in {p[2] : p \in Pair}
  <2>1. batch_pair \in Pair /\ batch_pair[2] = batch.merchant
    BY <1>1, BatchItem DEF batch_pair
  <2>2. QED
    BY <2>1
<1>8. charged \in SUBSET Pair
  BY DEF charged
<1>9. QED
  BY <1>6, <1>7, <1>8 DEF Promise!Next

-----------------------------------------------------------------------------
(* The refinement.                                                         *)

\* No batch has made progress at the start, nor when one begins.
LEMMA ProgressInv == IndInv /\ TypeOK' /\ BatchProgress /\ [Next]_vars => BatchProgress'
<1> SUFFICES ASSUME IndInv, BatchProgress, [Next]_vars PROVE BatchProgress'
  OBVIOUS
<1>0. TypeOK
  BY DEF IndInv
<1>1. CASE BatchStep
  BY <1>0, <1>1, ProgressStep
<1>2. ASSUME NEW signers \in SignerSets, NEW m \in Merchants, NEW todo,
             batch_begin(signers, m, todo)
      PROVE  BatchProgress'
  <2>1. batch'.subs = subs /\ subs' = subs
    BY <1>2 DEF batch_begin
  <2>2. QED
    BY <2>1 DEF BatchProgress, Progress, Mandate
<1>3. CASE Idle /\ batch' = batch
  BY <1>3 DEF Idle, BatchProgress
<1>4. CASE UNCHANGED vars
  <2>1. UNCHANGED <<now, subs, batch>>
    BY <1>4 DEF vars
  <2>2. QED
    BY <2>1, PaidUnchanged DEF BatchProgress, Progress, Mandate
<1>5. ASSUME Next, ~BatchStep, ~(Idle /\ batch' = batch)
      PROVE  \E signers \in SignerSets, m \in Merchants : \E todo : batch_begin(signers, m, todo)
  <2>1. ASSUME NEW a, initialize(a) PROVE Idle /\ batch' = batch
    BY <2>1 DEF initialize
  <2>2. ASSUME Environment PROVE Idle /\ batch' = batch
    BY <2>2 DEF Environment, ledger_close, marker_expires, approve, fund
  <2>3. PICK signers \in SignerSets : Transaction(signers)
    BY <1>5, <2>1, <2>2, Zenon DEF Next
  <2>4. ASSUME NEW a, NEW c, NEW x,
               \/ migrate(signers, a)
               \/ set_max_amount(signers, a, x)
               \/ set_protocol_fee(signers, a, x, c)
        PROVE  Idle /\ batch' = batch
    BY <2>4 DEF migrate, set_max_amount, set_protocol_fee
  <2>5. ASSUME NEW p, NEW t, NEW x, NEW i, NEW strict,
               \/ subscribe(signers, p, t, x, i, strict)
               \/ update_subscription(signers, p, x, i)
        PROVE  Idle /\ batch' = batch
    BY <2>5 DEF subscribe, update_subscription
  <2>6. ASSUME NEW p, NEW x,
               \/ pause_subscription(signers, p, x)
               \/ resume_subscription(signers, p)
               \/ cancel(signers, p)
               \/ transfer_subscription(signers, p, x)
        PROVE  Idle /\ batch' = batch
    BY <2>6 DEF pause_subscription, resume_subscription, cancel, transfer_subscription
  <2>7. ASSUME NEW p, execute_payment(signers, p) PROVE Idle /\ batch' = batch
    BY <2>7 DEF execute_payment
  <2>8. QED
    BY <1>5, <2>3, <2>4, <2>5, <2>6, <2>7, Zenon DEF Transaction
<1>6. QED
  BY <1>1, <1>2, <1>3, <1>4, <1>5

\* The initial states of the contract are initial states of the promise.
LEMMA PromiseInit == Init => Promise!Init /\ BatchProgress
<1> SUFFICES ASSUME Init PROVE Promise!Init /\ BatchProgress
  OBVIOUS
<1>1. now = 0 /\ batch = None /\ subs = [p \in Pair |-> None]
  BY DEF Init
<1>2. Mandates = [p \in Pair |-> None]
  BY <1>1 DEF Mandates, Committed, Mandate
<1>3. QED
  BY <1>1, <1>2 DEF Promise!Init, BatchProgress

\* A step that keeps the committed records keeps the promise's state.
LEMMA Stutter ==
    ASSUME Committed' = Committed
    PROVE  Mandates' = Mandates
<1>1. \A p \in Pair : Mandate(Committed[p])' = Mandate(Committed[p])
  BY DEF Mandate
<1>2. QED
  BY <1>1 DEF Mandates

\* Transactions of the subscriber and of the merchant.
LEMMA TransactionKeepsPromise ==
    ASSUME TypeOK, TypeOK', NEW signers \in SignerSets, Transaction(signers)
    PROVE  Promise!Next \/ UNCHANGED <<now, Mandates>>
<1>1. ASSUME NEW p \in Pair, NEW r \in ResumeTimes, pause_subscription(signers, p, r)
      PROVE  UNCHANGED <<now, Mandates>>
  <2> DEFINE d == subs[p]
  <2>1. /\ Idle /\ Idle' /\ now' = now /\ d \in SubscriptionData
        /\ subs' = [subs EXCEPT ![p] = paused(d, r)]
    BY <1>1 DEF pause_subscription, Idle, Active, TypeOK
  <2>2. r \in Time \cup {None}
    BY InputsAssumption DEF Time
  <2>3. paused(d, r) \in SubscriptionData /\ paused(d, r) # None /\ d # None
    BY <2>1, <2>2, PausedType, NoneAssumption
  <2>4. /\ paused(d, r).token = d.token /\ paused(d, r).amount = d.amount
        /\ paused(d, r).interval = d.interval /\ paused(d, r).next_payment = d.next_payment
        /\ paused(d, r).payment_nonce = d.payment_nonce
    BY <2>1 DEF paused, SubscriptionData
  <2>5. Mandate(paused(d, r)) = Mandate(d)
    BY <2>3, <2>4 DEF Mandate
  <2>6. /\ Mandates' = [Mandates EXCEPT ![p] = Mandate(paused(d, r))]
        /\ Mandates = [q \in Pair |-> Mandate(subs[q])]
    BY <2>1, OneMandate, IdleMandates
  <2>7. QED
    BY <2>1, <2>5, <2>6
<1>2. ASSUME NEW m \in Merchants, NEW todo, batch_begin(signers, m, todo)
      PROVE  UNCHANGED <<now, Mandates>>
  <2>1. now' = now /\ batch = None /\ batch'.subs = subs /\ subs' = subs
    BY <1>2 DEF batch_begin, Idle
  <2>2. Committed' = Committed
    BY <2>1 DEF Committed
  <2>3. QED
    BY <2>1, <2>2, Stutter
<1>3. ASSUME UNCHANGED <<now, subs, batch>> PROVE UNCHANGED <<now, Mandates>>
  BY <1>3, Stutter DEF Committed
<1>4. ASSUME NEW a \in Address,
             \/ migrate(signers, a)
             \/ \E x \in Amounts : set_max_amount(signers, a, x)
             \/ \E c \in Address, bps \in FeeRates : set_protocol_fee(signers, a, bps, c)
      PROVE  UNCHANGED <<now, Mandates>>
  BY <1>3, <1>4 DEF migrate, set_max_amount, set_protocol_fee
<1>5. QED
  BY <1>1, <1>2, <1>4, SubscribeAgrees, UpdateAmends, ResumePostpones, CancelRevokes,
     TransferMoves, ExecuteCollects DEF Transaction

\* Every step of the contract is a step of the promise.
LEMMA PromiseStep ==
    IndInv /\ TypeOK' /\ BatchProgress /\ [Next]_vars => [Promise!Next]_<<now, Mandates>>
<1> SUFFICES ASSUME IndInv, TypeOK', BatchProgress, [Next]_vars
             PROVE  Promise!Next \/ UNCHANGED <<now, Mandates>>
  OBVIOUS
<1>0. TypeOK
  BY DEF IndInv
<1>s. ASSUME UNCHANGED <<now, subs, batch>> PROVE UNCHANGED <<now, Mandates>>
  BY <1>s, Stutter DEF Committed
<1>1. ASSUME NEW a \in Admins, initialize(a) PROVE UNCHANGED <<now, Mandates>>
  BY <1>1, <1>s DEF initialize
<1>2. ASSUME NEW signers \in SignerSets, Transaction(signers)
      PROVE  Promise!Next \/ UNCHANGED <<now, Mandates>>
  BY <1>0, <1>2, TransactionKeepsPromise
<1>3. CASE batch_abort
  <2>1. now' = now /\ batch # None /\ subs' = batch.subs /\ batch' = None
    BY <1>3 DEF batch_abort
  <2>2. Committed' = Committed
    BY <2>1 DEF Committed
  <2>3. QED
    BY <2>1, <2>2, Stutter
<1>4. CASE batch_skip \/ batch_overdue \/ batch_collect
  <2>1. CASE batch' = None
    BY <1>0, <1>4, <2>1, CommitCollects
  <2>2. CASE batch' # None
    <3>1. batch # None /\ batch_continue /\ now' = now
      BY <1>0, <1>4, Iteration
    <3>2. Committed' = Committed
      BY <1>0, <2>2, <3>1, BatchContinueType DEF Committed
    <3>3. QED
      BY <3>1, <3>2, Stutter
  <2>3. QED
    BY <2>1, <2>2
<1>5. CASE ledger_close
  <2>1. Mandates' = Mandates
    BY <1>5, Stutter DEF ledger_close, Committed
  <2>2. Promise!Tick
    BY <1>5, <2>1 DEF ledger_close, Promise!Tick
  <2>3. QED
    BY <2>2 DEF Promise!Next
<1>6. CASE Environment /\ ~ledger_close
  BY <1>6, <1>s DEF Environment, marker_expires, approve, fund
<1>7. CASE UNCHANGED vars
  BY <1>7, <1>s DEF vars
<1>8. QED
  BY <1>1, <1>2, <1>3, <1>4, <1>5, <1>6, <1>7 DEF Next, BatchStep

\* The contract keeps its promise: whatever the parties sign and however their
\* batches interleave with the rest, each committed transaction charges every
\* mandate once at most, when it is due, and moves its due time an interval
\* ahead (lib.rs:821-925 and :946-1051).
THEOREM Refinement == Spec => KeepsPromise
<1>1. Spec => []BatchProgress
  <2>1. IndInv /\ IndInv' /\ BatchProgress /\ [Next]_vars => BatchProgress'
    BY ProgressInv DEF IndInv
  <2>2. QED
    BY <2>1, PromiseInit, Invariance, PTL DEF Spec
<1>2. IndInv /\ IndInv' /\ BatchProgress /\ [Next]_vars => [Promise!Next]_<<now, Mandates>>
  BY PromiseStep DEF IndInv
<1>3. Spec => Promise!Init /\ [][Promise!Next]_<<now, Mandates>>
  BY <1>1, <1>2, PromiseInit, Invariance, PTL DEF Spec
<1>4. QED
  BY <1>3 DEF KeepsPromise, Promise!Spec
====
