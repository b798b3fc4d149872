-------------------------- MODULE RecurringPayment --------------------------
(***************************************************************************)
(* What the subscription contract promises: every pair of a subscriber and *)
(* a merchant has at most one mandate, and a mandate is charged once in a  *)
(* transaction, not before it is due, and then not before a whole interval *)
(* has passed.  Transactions are atomic here: a batch charges any number   *)
(* of the mandates of one merchant in one step, or none.                   *)
(*                                                                         *)
(* Pauses, signatures, funds, fees, storage layout and the ways in which a *)
(* call fails are not part of the promise.                                 *)
(***************************************************************************)
EXTENDS Integers

CONSTANTS
    Parties,     \* (subscriber, merchant)
    NoMandate,
    Token, Amount, Interval

VARIABLES
    clock,
    mandate      \* per pair: the terms, the due time and the payments made

Init ==
    /\ clock = 0
    /\ mandate = [p \in Parties |-> NoMandate]

\* Time passes.
Tick ==
    /\ clock' = clock + 1
    /\ UNCHANGED mandate

Agreed(p) == mandate[p] # NoMandate

\* A new mandate, in place of an older one: it is first due after an interval.
Agree(p, token, amount, interval) ==
    /\ mandate' = [mandate EXCEPT ![p] =
                     [token |-> token, amount |-> amount, interval |-> interval,
                      due |-> clock + interval, paid |-> 0]]
    /\ UNCHANGED clock

\* Other terms from the next payment on, which is due when it was.
Amend(p, amount, interval) ==
    /\ Agreed(p)
    /\ mandate' = [mandate EXCEPT ![p].amount = amount, ![p].interval = interval]
    /\ UNCHANGED clock

\* The schedule starts again.
Postpone(p) ==
    /\ Agreed(p)
    /\ mandate' = [mandate EXCEPT ![p].due = clock + mandate[p].interval]
    /\ UNCHANGED clock

Revoke(p) ==
    /\ Agreed(p)
    /\ mandate' = [mandate EXCEPT ![p] = NoMandate]
    /\ UNCHANGED clock

\* The mandate goes to another merchant as it is.
Move(p, q) ==
    /\ Agreed(p) /\ ~Agreed(q) /\ q[1] = p[1]
    /\ mandate' = [mandate EXCEPT ![q] = mandate[p], ![p] = NoMandate]
    /\ UNCHANGED clock

Paid(m) == [m EXCEPT !.due = clock + m.interval, !.paid = @ + 1]

\* One transaction of the merchant: some of its due mandates are charged.
Collect(merchant, charged) ==
    /\ \A p \in charged : p[2] = merchant /\ Agreed(p) /\ mandate[p].due <= clock
    /\ mandate' = [p \in Parties |-> IF p \in charged THEN Paid(mandate[p]) ELSE mandate[p]]
    /\ UNCHANGED clock

Next ==
    \/ Tick
    \/ \E p \in Parties, t \in Token, amount \in Amount, interval \in Interval :
          Agree(p, t, amount, interval)
    \/ \E p \in Parties, amount \in Amount, interval \in Interval :
          Amend(p, amount, interval)
    \/ \E p \in Parties : Postpone(p) \/ Revoke(p)
    \/ \E p, q \in Parties : Move(p, q)
    \/ \E merchant \in {p[2] : p \in Parties}, charged \in SUBSET Parties :
          Collect(merchant, charged)

Spec == Init /\ [][Next]_<<clock, mandate>>
=============================================================================
