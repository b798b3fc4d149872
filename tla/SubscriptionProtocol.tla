------------------------ MODULE SubscriptionProtocol ------------------------
(***************************************************************************)
(* The on-chain subscription contract, contracts/subscription/src/lib.rs.  *)
(*                                                                         *)
(* One action per entry point that changes storage.  A transaction that    *)
(* returns an error or traps is rolled back by the host with everything it *)
(* wrote, so a failing call is a stuttering step: <entry point>_error is   *)
(* the chain of early returns of an entry point, and its action is enabled *)
(* exactly when that chain ends in Ok.  Transactions run one at a time.    *)
(* batch_execute_payment is a loop that a late trap undoes, so it is spread *)
(* over one step per iteration with the storage of its start kept aside.   *)
(*                                                                         *)
(* The sha-256 storage key of a pair is taken to be injective: the pair    *)
(* itself is the key.  SEP-41 tokens, the ledger clock, the signatures of a *)
(* transaction and temporary storage are the environment.                  *)
(***************************************************************************)
EXTENDS Integers, Sequences, FiniteSets

CONSTANTS
    Address,        \* accounts and contracts
    Subscribers,    \* the addresses that subscribe
    Merchants,      \* the addresses that collect
    Tokens,         \* SEP-41 token contracts
    SignerSets,     \* the sets of addresses that may sign one transaction
    None,           \* Option::None, or an absent storage entry
    U64_MAX,        \* the last timestamp
    U32_MAX,        \* the last payment nonce
    I128_MAX,       \* the largest token balance
    MAX_AMOUNT, MIN_INTERVAL, MAX_INTERVAL, MAX_FEE_BPS, BATCH_MAX_SIZE,
    CURRENT_SCHEMA_VERSION,
    \* The inputs that callers choose from, valid and invalid ones.
    Admins, Amounts, Intervals, FeeRates, ResumeTimes,
    \* The accounts whose tokens move outside the contract, and their levels.
    Holders, FundLevels,
    MAX_COPIES      \* bound: copies of one key in a merchant's index

ASSUME PartiesAssumption ==
    /\ Subscribers \subseteq Address
    /\ Merchants \subseteq Address
    /\ SignerSets \subseteq SUBSET Address

ASSUME LimitsAssumption ==
    /\ U64_MAX \in Nat /\ U32_MAX \in Nat /\ I128_MAX \in Nat
    /\ MAX_AMOUNT \in Nat \ {0} /\ MAX_AMOUNT <= I128_MAX
    /\ MIN_INTERVAL \in Nat \ {0} /\ MAX_INTERVAL \in Nat
    /\ MAX_FEE_BPS \in 0..10000
    /\ BATCH_MAX_SIZE \in Nat /\ CURRENT_SCHEMA_VERSION \in Nat \ {0}

ASSUME InputsAssumption ==
    /\ Amounts \subseteq Int /\ Intervals \subseteq Nat /\ FeeRates \subseteq Nat
    /\ ResumeTimes \subseteq 0..U64_MAX \cup {None}
    /\ Admins \subseteq Address
    /\ Holders \subseteq Address /\ FundLevels \subseteq 0..I128_MAX
    /\ MAX_COPIES \in Nat

-----------------------------------------------------------------------------
Time == 0..U64_MAX

\* subscription_key(subscriber, merchant)
Pair == Subscribers \X Merchants

\* SubscriptionData; grace_period is stored and never read by the contract.
SubscriptionData ==
    [token : Tokens, amount : 1..MAX_AMOUNT,
     interval : MIN_INTERVAL..MAX_INTERVAL, next_payment : Time,
     is_paused : BOOLEAN, paused_until : Time \cup {None},
     overdue_since : Time \cup {None}, payment_nonce : 0..U32_MAX]

AdminConfig == [admin : Address, max_amount : 1..MAX_AMOUNT]

ProtocolFeeConfig == [fee_bps : 0..MAX_FEE_BPS, fee_collector : Address]

\* SEP-41 balances: per token, per account.
Balances == [Tokens -> [Address -> 0..I128_MAX]]

\* A running batch_execute_payment: the subscribers still to visit, and the
\* storage and balances at the start of the transaction.
Batch == [merchant : Merchants, signers : SignerSets, todo : Seq(Subscribers) \ {<< >>},
          subs : [Pair -> SubscriptionData \cup {None}], balance : Balances,
          anchor : [Pair -> Time]]

\* A subscription as its parties see it: the terms, the due time and the
\* number of payments made.
MandateData ==
    [token : Tokens, amount : 1..MAX_AMOUNT, interval : MIN_INTERVAL..MAX_INTERVAL,
     due : Time, paid : 0..U32_MAX]

ASSUME NoneAssumption ==
    /\ None \notin Nat
    /\ None \notin Address
    /\ None \notin SubscriptionData
    /\ None \notin MandateData
    /\ None \notin AdminConfig
    /\ None \notin ProtocolFeeConfig
    /\ None \notin Batch

VARIABLES
    now,         \* timestamp of the current ledger
    admin,       \* DataKey::Admin
    config,      \* DataKey::AdminConfig
    schema,      \* DataKey::SchemaVersion, 0 when absent
    fee,         \* protocol fee configuration
    subs,        \* DataKey::Subscription(key)
    index,       \* DataKey::MerchantIndex: how often each key is in the Vec
    roster,      \* DataKey::MerchantSubscribers: a Vec without duplicates
    markers,     \* execution markers in temporary storage
    balance,     \* token balances
    allowance,   \* allowances granted to the contract, per token and account
    batch,       \* the batch in progress, or None
    anchor       \* history: when the pair last subscribed, resumed or was charged

admin_vars == <<admin, config, schema, fee>>
index_vars == <<index, roster>>
token_vars == <<balance, allowance>>
vars == <<now, admin_vars, subs, index_vars, markers, token_vars, batch,
          anchor>>

\* Every stored value fits its declared type: amounts, intervals, due times
\* and balances stay within the widths and limits of storage.rs and lib.rs.
TypeOK ==
    /\ now \in Time
    /\ admin \in Address \cup {None}
    /\ config \in AdminConfig \cup {None}
    /\ schema \in 0..CURRENT_SCHEMA_VERSION
    /\ fee \in ProtocolFeeConfig \cup {None}
    /\ subs \in [Pair -> SubscriptionData \cup {None}]
    /\ index \in [Merchants -> [Subscribers -> Nat]]
    /\ roster \in [Merchants -> SUBSET Subscribers]
    /\ markers \subseteq Pair \X (0..U32_MAX)
    /\ balance \in Balances
    /\ allowance \in Balances
    /\ batch \in Batch \cup {None}
    /\ anchor \in [Pair -> Time]

Active(p) == subs[p] # None

-----------------------------------------------------------------------------
(* Helpers of lib.rs.                                                      *)

\* checked_next_payment, and the unchecked sum of a collection, which traps
\* on overflow in the release profile (overflow-checks = true).
next_payment_overflows(interval) == now + interval > U64_MAX

payment_due(next_payment) == now >= next_payment

index_add(idx, p) == [idx EXCEPT ![p[2]][p[1]] = @ + 1]

\* A faulty version: only one copy of the key is removed.
index_remove_first(idx, p) ==
    [idx EXCEPT ![p[2]][p[1]] = IF @ > 0 THEN @ - 1 ELSE 0]

index_remove(idx, p) == [idx EXCEPT ![p[2]][p[1]] = 0]

roster_add(ros, p) == [ros EXCEPT ![p[2]] = @ \cup {p[1]}]

roster_remove(ros, p) == [ros EXCEPT ![p[2]] = @ \ {p[1]}]

valid_amount(amount) == 0 < amount /\ amount <= MAX_AMOUNT

valid_interval(interval) == MIN_INTERVAL <= interval /\ interval <= MAX_INTERVAL

\* The basis points in the whole.
BPS_SCALE == 10000

\* fee = amount * fee_bps / 10_000, 0 when no fee is configured.
fee_amount(amount) == IF fee = None THEN 0 ELSE (amount * fee.fee_bps) \div BPS_SCALE

\* SEP-41 transfer on the balances of one token.
transfer(bal, from, to, amount) ==
    IF from = to THEN bal
    ELSE [bal EXCEPT ![from] = @ - amount, ![to] = @ + amount]

\* A faulty version: the fee is not taken off the merchant's part.
pay_fee_on_top(bal, p, amount) ==
    LET cut  == fee_amount(amount)
        paid == transfer(bal, p[1], p[2], amount)
    IN  IF cut > 0 THEN transfer(paid, p[1], fee.fee_collector, cut) ELSE paid

\* The two transfers of a collection: the merchant's part, then the fee.
pay(bal, p, amount) ==
    LET cut  == fee_amount(amount)
        paid == transfer(bal, p[1], p[2], amount - cut)
    IN  IF cut > 0 THEN transfer(paid, p[1], fee.fee_collector, cut) ELSE paid

\* token.transfer needs the signature of the account it debits, and traps
\* when a balance overflows.
transfer_traps(signers, p, d) ==
    \/ p[1] \notin signers
    \/ \E a \in Address : pay(balance[d.token], p, d.amount)[a] > I128_MAX

\* A faulty version: the schedule advances from the due time, not from now.
collected_from_due_time(d) ==
    [d EXCEPT !.next_payment = @ + d.interval,
              !.overdue_since = None,
              !.payment_nonce = @ + 1]

\* What a successful collection writes to the subscription record.
collected(d) ==
    [d EXCEPT !.next_payment = now + d.interval,
              !.overdue_since = None,
              !.payment_nonce = @ + 1]

\* New terms; next_payment is deliberately kept.
updated(d, new_amount, new_interval) ==
    [d EXCEPT !.amount = new_amount, !.interval = new_interval]

paused(d, resume_at) ==
    [d EXCEPT !.is_paused = TRUE, !.paused_until = resume_at]

\* The next period starts at the resumption.
resumed(d) ==
    [d EXCEPT !.is_paused = FALSE,
              !.paused_until = None,
              !.next_payment = now + d.interval]

\* What a failed balance check writes to it.
overdue(d) ==
    [d EXCEPT !.overdue_since = IF d.overdue_since = None THEN now ELSE d.overdue_since]

\* A collection that reaches the transfers traps, and undoes the transaction.
collection_traps(signers, p, d) ==
    \/ transfer_traps(signers, p, d)
    \/ next_payment_overflows(d.interval)
    \/ d.payment_nonce = U32_MAX

-----------------------------------------------------------------------------
(* Administration.                                                         *)

Idle == batch = None

initialize(a) ==
    /\ Idle
    /\ admin = None
    /\ admin' = a
    /\ schema' = CURRENT_SCHEMA_VERSION
    /\ config' = [admin |-> a, max_amount |-> MAX_AMOUNT]
    /\ UNCHANGED <<now, fee, subs, index_vars, markers, token_vars, batch, anchor>>

set_max_amount(signers, a, new_max) ==
    /\ Idle
    /\ a \in signers
    /\ valid_amount(new_max)
    /\ config # None
    /\ config.admin = a
    /\ config' = [config EXCEPT !.max_amount = new_max]
    /\ UNCHANGED <<now, admin, schema, fee, subs, index_vars, markers, token_vars,
                   batch, anchor>>

migrate(signers, a) ==
    /\ Idle
    /\ a \in signers
    /\ admin = a
    /\ schema < CURRENT_SCHEMA_VERSION
    /\ schema' = CURRENT_SCHEMA_VERSION
    /\ UNCHANGED <<now, admin, config, fee, subs, index_vars, markers, token_vars,
                   batch, anchor>>

set_protocol_fee(signers, a, bps, collector) ==
    /\ Idle
    /\ a \in signers
    /\ admin = a
    /\ bps <= MAX_FEE_BPS
    /\ fee' = [fee_bps |-> bps, fee_collector |-> collector]
    /\ UNCHANGED <<now, admin, config, schema, subs, index_vars, markers, token_vars,
                   batch, anchor>>

-----------------------------------------------------------------------------
(* Entry points of the subscriber.                                         *)

subscribe_error(signers, p, t, amount, interval, strict) ==
    IF p[1] \notin signers THEN "Unauthorized"
    ELSE IF p[1] = p[2] THEN "SelfSubscription"
    ELSE IF amount <= 0 THEN "AmountMustBePositive"
    ELSE IF amount > MAX_AMOUNT THEN "AmountTooLarge"
    ELSE IF config # None /\ amount > config.max_amount THEN "AmountExceedsLimit"
    ELSE IF interval < MIN_INTERVAL THEN "IntervalTooShort"
    ELSE IF interval > MAX_INTERVAL THEN "IntervalTooLong"
    ELSE IF strict /\ allowance[t][p[1]] < amount THEN "InsufficientAllowance"
    ELSE IF now = 0 \/ next_payment_overflows(interval) THEN "InvalidTimestamp"
    ELSE "Ok"

subscribe(signers, p, t, amount, interval, strict) ==
    /\ Idle
    /\ subscribe_error(signers, p, t, amount, interval, strict) = "Ok"
    /\ index[p[2]][p[1]] < MAX_COPIES
    /\ subs' = [subs EXCEPT ![p] =
                  [token |-> t, amount |-> amount, interval |-> interval,
                   next_payment |-> now + interval, is_paused |-> FALSE,
                   paused_until |-> None, overdue_since |-> None,
                   payment_nonce |-> 0]]
    /\ index' = index_add(index, p)
    /\ roster' = roster_add(roster, p)
    /\ anchor' = [anchor EXCEPT ![p] = now]
    /\ UNCHANGED <<now, admin_vars, markers, token_vars, batch>>

update_subscription(signers, p, new_amount, new_interval) ==
    /\ Idle
    /\ p[1] \in signers
    /\ Active(p)
    /\ valid_amount(new_amount)
    /\ valid_interval(new_interval)
    /\ subs' = [subs EXCEPT ![p] = updated(subs[p], new_amount, new_interval)]
    /\ UNCHANGED <<now, admin_vars, index_vars, markers, token_vars, batch, anchor>>

pause_subscription(signers, p, resume_at) ==
    /\ Idle
    /\ p[1] \in signers
    /\ Active(p)
    /\ ~subs[p].is_paused
    /\ resume_at # None => now # 0 /\ resume_at > now
    /\ subs' = [subs EXCEPT ![p] = paused(subs[p], resume_at)]
    /\ UNCHANGED <<now, admin_vars, index_vars, markers, token_vars, batch, anchor>>

\* A faulty version: the new due time is not checked for overflow.
resume_unchecked(signers, p) ==
    /\ Idle
    /\ p[1] \in signers
    /\ Active(p)
    /\ subs[p].is_paused
    /\ now # 0
    /\ subs' = [subs EXCEPT ![p] = resumed(subs[p])]
    /\ anchor' = [anchor EXCEPT ![p] = now]
    /\ UNCHANGED <<now, admin_vars, index_vars, markers, token_vars, batch>>

\* A faulty version: the due time of before the pause is kept.
resume_keeps_schedule(signers, p) ==
    /\ Idle
    /\ p[1] \in signers
    /\ Active(p)
    /\ subs[p].is_paused
    /\ now # 0
    /\ subs' = [subs EXCEPT ![p].is_paused = FALSE, ![p].paused_until = None]
    /\ anchor' = [anchor EXCEPT ![p] = now]
    /\ UNCHANGED <<now, admin_vars, index_vars, markers, token_vars, batch>>

resume_subscription(signers, p) ==
    /\ Idle
    /\ p[1] \in signers
    /\ Active(p)
    /\ subs[p].is_paused
    /\ now # 0
    /\ ~next_payment_overflows(subs[p].interval)
    /\ subs' = [subs EXCEPT ![p] = resumed(subs[p])]
    /\ anchor' = [anchor EXCEPT ![p] = now]
    /\ UNCHANGED <<now, admin_vars, index_vars, markers, token_vars, batch>>

cancel(signers, p) ==
    /\ Idle
    /\ p[1] \in signers
    /\ Active(p)
    /\ subs' = [subs EXCEPT ![p] = None]
    /\ index' = index_remove(index, p)
    /\ roster' = roster_remove(roster, p)
    /\ UNCHANGED <<now, admin_vars, markers, token_vars, batch, anchor>>

\* A faulty version: the signature of the old merchant is enough.
transfer_by_merchant(signers, p, new_merchant) ==
    LET q == <<p[1], new_merchant>> IN
    /\ Idle
    /\ p[2] \in signers
    /\ p[2] # new_merchant
    /\ p[1] # new_merchant
    /\ Active(p)
    /\ ~Active(q)
    /\ index[new_merchant][p[1]] < MAX_COPIES
    /\ subs' = [subs EXCEPT ![q] = subs[p], ![p] = None]
    /\ index' = index_add(index_remove(index, p), q)
    /\ anchor' = [anchor EXCEPT ![q] = anchor[p]]
    /\ UNCHANGED <<now, admin_vars, roster, markers, token_vars, batch>>

\* A faulty version: the old record stays.
transfer_copies(signers, p, new_merchant) ==
    LET q == <<p[1], new_merchant>> IN
    /\ Idle
    /\ {p[1], p[2]} \subseteq signers
    /\ p[2] # new_merchant
    /\ p[1] # new_merchant
    /\ Active(p)
    /\ ~Active(q)
    /\ index[new_merchant][p[1]] < MAX_COPIES
    /\ subs' = [subs EXCEPT ![q] = subs[p]]
    /\ index' = index_add(index, q)
    /\ anchor' = [anchor EXCEPT ![q] = anchor[p]]
    /\ UNCHANGED <<now, admin_vars, roster, markers, token_vars, batch>>

\* The record moves as it is, and its history with it; the rosters
\* are left alone.
transfer_subscription(signers, p, new_merchant) ==
    LET q == <<p[1], new_merchant>> IN
    /\ Idle
    /\ {p[1], p[2]} \subseteq signers
    /\ p[2] # new_merchant
    /\ p[1] # new_merchant
    /\ Active(p)
    /\ ~Active(q)
    /\ index[new_merchant][p[1]] < MAX_COPIES
    /\ subs' = [subs EXCEPT ![q] = subs[p], ![p] = None]
    /\ index' = index_add(index_remove(index, p), q)
    /\ anchor' = [anchor EXCEPT ![q] = anchor[p]]
    /\ UNCHANGED <<now, admin_vars, roster, markers, token_vars, batch>>

-----------------------------------------------------------------------------
(* Collection by the merchant.                                             *)

pause_elapsed(d) == d.paused_until # None /\ now >= d.paused_until

\* The automatic resume at the head of execute_payment.
auto_resumed(d) ==
    IF d.is_paused THEN resumed(d) ELSE d

execute_payment_error(signers, p) ==
    LET d == subs[p] IN
    IF p[2] \notin signers THEN "Unauthorized"
    ELSE IF d = None THEN "NoActiveSubscription"
    ELSE IF now = 0 THEN "InvalidTimestamp"
    ELSE IF d.is_paused /\ ~pause_elapsed(d) THEN "SubscriptionPaused"
    ELSE IF d.is_paused /\ next_payment_overflows(d.interval) THEN "InvalidTimestamp"
    ELSE IF ~payment_due(auto_resumed(d).next_payment) THEN "PaymentNotDue"
    ELSE IF <<p, d.payment_nonce>> \in markers THEN "DuplicateExecution"
    ELSE IF allowance[d.token][p[1]] < d.amount THEN "InsufficientAllowance"
    ELSE IF balance[d.token][p[1]] < d.amount THEN "TransferFailed"
    ELSE IF collection_traps(signers, p, auto_resumed(d)) THEN "Trap"
    ELSE "Ok"

\* The marker is written for the nonce after the increment.
execute_payment(signers, p) ==
    LET d == auto_resumed(subs[p]) IN
    /\ Idle
    /\ execute_payment_error(signers, p) = "Ok"
    /\ balance' = [balance EXCEPT ![d.token] = pay(@, p, d.amount)]
    /\ subs' = [subs EXCEPT ![p] = collected(d)]
    /\ markers' = markers \cup {<<p, d.payment_nonce + 1>>}
    /\ anchor' = [anchor EXCEPT ![p] = now]
    /\ UNCHANGED <<now, admin_vars, index_vars, allowance, batch>>

\* batch_execute_payment up to its loop.
batch_begin(signers, m, subscribers) ==
    /\ Idle
    /\ m \in signers
    /\ subscribers # << >>
    /\ Len(subscribers) <= BATCH_MAX_SIZE
    /\ now # 0
    /\ batch' = [merchant |-> m, signers |-> signers, todo |-> subscribers,
                 subs |-> subs, balance |-> balance, anchor |-> anchor]
    /\ UNCHANGED <<now, admin_vars, subs, index_vars, markers, token_vars, anchor>>

batch_pair == <<Head(batch.todo), batch.merchant>>

\* A faulty version: the due times are those of the start of the batch.
batch_item_stale ==
    LET p == batch_pair
        d == subs[p]
    IN  IF d = None THEN "skip"
        ELSE IF ~payment_due(batch.subs[p].next_payment) THEN "skip"
        ELSE IF allowance[d.token][p[1]] < d.amount THEN "skip"
        ELSE IF balance[d.token][p[1]] < d.amount THEN "overdue"
        ELSE IF collection_traps(batch.signers, p, d) THEN "abort"
        ELSE "collect"

\* What the loop body does with the head of the list.  Neither is_paused nor
\* the execution markers are looked at.
batch_item ==
    LET p == batch_pair
        d == subs[p]
    IN  IF d = None THEN "skip"
        ELSE IF ~payment_due(d.next_payment) THEN "skip"
        ELSE IF allowance[d.token][p[1]] < d.amount THEN "skip"
        ELSE IF balance[d.token][p[1]] < d.amount THEN "overdue"
        ELSE IF collection_traps(batch.signers, p, d) THEN "abort"
        ELSE "collect"

\* The next iteration, or the end of the transaction after the last one.
batch_continue ==
    batch' = IF Len(batch.todo) = 1 THEN None
             ELSE [batch EXCEPT !.todo = Tail(@)]

batch_skip ==
    /\ batch # None /\ batch_item = "skip"
    /\ batch_continue
    /\ UNCHANGED <<now, admin_vars, subs, index_vars, markers, token_vars, anchor>>

batch_overdue ==
    /\ batch # None /\ batch_item = "overdue"
    /\ subs' = [subs EXCEPT ![batch_pair] = overdue(subs[batch_pair])]
    /\ batch_continue
    /\ UNCHANGED <<now, admin_vars, index_vars, markers, token_vars, anchor>>

\* A faulty version: the payment is taken and not counted.
batch_collect_uncounted ==
    LET p == batch_pair
        d == subs[p]
    IN  /\ batch # None /\ batch_item = "collect"
        /\ balance' = [balance EXCEPT ![d.token] = pay(@, p, d.amount)]
        /\ subs' = [subs EXCEPT ![p].next_payment = now + d.interval,
                                ![p].overdue_since = None]
        /\ anchor' = [anchor EXCEPT ![p] = now]
        /\ batch_continue
        /\ UNCHANGED <<now, admin_vars, index_vars, markers, allowance>>

batch_collect ==
    LET p == batch_pair
        d == subs[p]
    IN  /\ batch # None /\ batch_item = "collect"
        /\ balance' = [balance EXCEPT ![d.token] = pay(@, p, d.amount)]
        /\ subs' = [subs EXCEPT ![p] = collected(d)]
        /\ anchor' = [anchor EXCEPT ![p] = now]
        /\ batch_continue
        /\ UNCHANGED <<now, admin_vars, index_vars, markers, allowance>>

\* The host undoes the whole transaction.
batch_abort ==
    /\ batch # None /\ batch_item = "abort"
    /\ subs' = batch.subs
    /\ balance' = batch.balance
    /\ anchor' = batch.anchor
    /\ batch' = None
    /\ UNCHANGED <<now, admin_vars, index_vars, markers, allowance>>

-----------------------------------------------------------------------------
(* The environment.                                                        *)

\* A ledger closes: the timestamp advances.
ledger_close ==
    /\ Idle
    /\ now < U64_MAX
    /\ now' = now + 1
    /\ UNCHANGED <<admin_vars, subs, index_vars, markers, token_vars, batch, anchor>>

\* Temporary storage drops a marker when its time to live runs out.
marker_expires(mk) ==
    /\ Idle
    /\ markers' = markers \ {mk}
    /\ UNCHANGED <<now, admin_vars, subs, index_vars, token_vars, batch, anchor>>

\* token.approve by a subscriber, in the contract's favour.
approve(t, a, amount) ==
    /\ Idle
    /\ allowance' = [allowance EXCEPT ![t][a] = amount]
    /\ UNCHANGED <<now, admin_vars, subs, index_vars, markers, balance, batch, anchor>>

\* Everything else that moves the token.
fund(t, a, amount) ==
    /\ Idle
    /\ balance' = [balance EXCEPT ![t][a] = amount]
    /\ UNCHANGED <<now, admin_vars, subs, index_vars, markers, allowance, batch, anchor>>

-----------------------------------------------------------------------------
\* A new deployment, or the upgrade of one that was initialised under the
\* previous schema.
Init ==
    /\ now = 0
    /\ \/ admin = None /\ config = None /\ schema = 0
       \/ \E a \in Admins :
             /\ admin = a
             /\ config \in {None, [admin |-> a, max_amount |-> MAX_AMOUNT]}
             /\ schema = CURRENT_SCHEMA_VERSION - 1
    /\ fee = None
    /\ subs = [p \in Pair |-> None]
    /\ index = [m \in Merchants |-> [s \in Subscribers |-> 0]]
    /\ roster = [m \in Merchants |-> {}]
    /\ markers = {}
    /\ balance = [t \in Tokens |-> [a \in Address |-> 0]]
    /\ allowance = [t \in Tokens |-> [a \in Address |-> 0]]
    /\ batch = None
    /\ anchor = [p \in Pair |-> 0]

\* A transaction signed by signers.
Transaction(signers) ==
    \/ \E a \in Address : migrate(signers, a)
    \/ \E a \in Address, x \in Amounts : set_max_amount(signers, a, x)
    \/ \E a, c \in Address, bps \in FeeRates : set_protocol_fee(signers, a, bps, c)
    \/ \E p \in Pair, t \in Tokens, x \in Amounts, i \in Intervals, strict \in BOOLEAN :
          subscribe(signers, p, t, x, i, strict)
    \/ \E p \in Pair, x \in Amounts, i \in Intervals :
          update_subscription(signers, p, x, i)
    \/ \E p \in Pair, r \in ResumeTimes : pause_subscription(signers, p, r)
    \/ \E p \in Pair : resume_subscription(signers, p)
    \/ \E p \in Pair : cancel(signers, p)
    \/ \E p \in Pair, m \in Merchants : transfer_subscription(signers, p, m)
    \/ \E p \in Pair : execute_payment(signers, p)
    \/ \E m \in Merchants, n \in 0..(BATCH_MAX_SIZE + 1) :
          \E q \in [1..n -> Subscribers] : batch_begin(signers, m, q)

BatchStep == batch_skip \/ batch_overdue \/ batch_collect \/ batch_abort

Environment ==
    \/ ledger_close
    \/ \E mk \in markers : marker_expires(mk)
    \/ \E t \in Tokens, a \in Subscribers, x \in FundLevels : approve(t, a, x)
    \/ \E t \in Tokens, a \in Holders, x \in FundLevels : fund(t, a, x)

Next ==
    \/ \E a \in Admins : initialize(a)
    \/ \E signers \in SignerSets : Transaction(signers)
    \/ BatchStep
    \/ Environment

Spec == Init /\ [][Next]_vars

-----------------------------------------------------------------------------
(* Properties.                                                             *)

\* The collection of one payment of p is how its nonce advances.
Charged(p) ==
    /\ Active(p)
    /\ subs'[p] # None
    /\ subs'[p].payment_nonce = subs[p].payment_nonce + 1

\* Collections are on hold until the agreed time, or until a resumption.
OnHold(d) == d.is_paused /\ ~pause_elapsed(d)

\* What a subscriber agrees to, and whether the subscription exists.
Terms(d) ==
    IF d = None THEN None
    ELSE [token |-> d.token, amount |-> d.amount, interval |-> d.interval,
          on_hold |-> OnHold(d), until |-> IF OnHold(d) THEN d.paused_until ELSE None]

\* The keys in the index of a merchant are those of its subscriptions: neither
\* a re-subscription, a cancellation nor a transfer leaves a stale key behind
\* or loses one (index_add and index_remove, lib.rs:92 and :110).
IndexMatchesSubscriptions ==
    \A p \in Pair : Active(p) <=> index[p[2]][p[1]] > 0

\* The due time is at least a minimum interval after the last subscription,
\* resumption or collection, whatever was updated, transferred or batched
\* since (lib.rs:547, :775, :910 and :1032).
ScheduledAfterAnchor ==
    \A p \in Pair : Active(p) =>
        /\ anchor[p] <= now
        /\ subs[p].next_payment >= anchor[p] + MIN_INTERVAL

\* What the abort of a batch puts back satisfies the same invariants: the same
\* pairs are subscribed, and their schedules and nonces are older ones.
BatchSnapshot ==
    batch # None => \A p \in Pair :
        /\ batch.subs[p] = None <=> subs[p] = None
        /\ batch.subs[p] # None =>
              /\ batch.anchor[p] <= now
              /\ batch.subs[p].next_payment >= batch.anchor[p] + MIN_INTERVAL
              /\ batch.subs[p].payment_nonce <= subs[p].payment_nonce

\* The inductive invariant: the index follows the records and the schedules
\* stay ahead of their anchors (lib.rs:92-133, :547, :775, :910, :1032), also
\* through the rollback of a batch.
IndInv ==
    /\ TypeOK
    /\ IndexMatchesSubscriptions
    /\ ScheduledAfterAnchor
    /\ BatchSnapshot

\* Two collections of one subscription, or a collection and the subscription
\* or resumption before it, are never closer than the minimum interval: not by
\* a batch that lists the subscriber twice, a single collection after a batch,
\* a late one followed by an early one, nor across updates and transfers.
ChargeSpacing ==
    [][\A p \in Pair : Charged(p) => now >= anchor[p] + MIN_INTERVAL]_vars

\* A collection takes exactly the agreed amount from the subscriber, the
\* merchant gets all but the fee, and the fee is never above MAX_FEE_BPS of
\* the amount (lib.rs:886-905 and :1012-1028).  The collector may itself be
\* the merchant or the subscriber.
DebitIsAmount ==
    [][\A p \in Pair : Charged(p) =>
         LET d == subs[p]
             gain(a) == balance'[d.token][a] - balance[d.token][a]
             cut == d.amount - IF fee # None /\ p[2] = fee.fee_collector
                               THEN d.amount ELSE gain(p[2])
         IN  /\ 0 <= cut /\ cut * BPS_SCALE <= d.amount * MAX_FEE_BPS
             /\ cut > 0 => gain(fee.fee_collector) =
                             IF fee.fee_collector = p[1] THEN cut - d.amount ELSE cut
             /\ (fee = None \/ fee.fee_collector # p[1]) => gain(p[1]) = - d.amount
             /\ (fee # None /\ fee.fee_collector = p[2]) => gain(p[2]) = d.amount
      ]_vars

\* The step lowers a balance of account a.
Lowered(a) == \E t \in Tokens : balance'[t][a] < balance[t][a]

\* No transaction creates, ends, moves or re-prices a subscription, holds it or
\* ends a hold before its time, without the subscriber's signature
\* (require_auth at lib.rs:511, :610, :698, :758, :1080 and :1137); and none
\* takes tokens from a subscriber but by charging one of its own
\* subscriptions, whoever else collects or is collected from.
SubscriberConsent ==
    [][\A p \in Pair :
         /\ Terms(subs'[p]) # Terms(subs[p]) =>
               \A signers \in SignerSets : Transaction(signers) => p[1] \in signers
         /\ Lowered(p[1]) /\ (batch_collect \/ \E signers \in SignerSets : Transaction(signers)) =>
               \E m \in Merchants : Charged(<<p[1], m>>)]_vars

\* The mandate of a record.
Mandate(d) ==
    IF d = None THEN None
    ELSE [token |-> d.token, amount |-> d.amount, interval |-> d.interval,
          due |-> d.next_payment, paid |-> d.payment_nonce]

\* What is committed: a running batch has not happened yet.
Committed == IF batch = None THEN subs ELSE batch.subs

Mandates == [p \in Pair |-> Mandate(Committed[p])]

Promise == INSTANCE RecurringPayment WITH
    Parties <- Pair, NoMandate <- None, Token <- Tokens,
    Amount <- {x \in Amounts : valid_amount(x)},
    Interval <- {i \in Intervals : valid_interval(i)},
    clock <- now, mandate <- Mandates

\* The contract implements RecurringPayment: entry points, batches spread over
\* iterations, their rollbacks and storage act as atomic transactions on the
\* mandates, each of which charges a mandate once at most, and only when due
\* (lib.rs:821-925 and :946-1051).
KeepsPromise == Promise!Spec

=============================================================================
