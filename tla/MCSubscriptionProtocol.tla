----------------------- MODULE MCSubscriptionProtocol -----------------------
(* Model values and input sets for the runs of SubscriptionProtocol.       *)
EXTENDS SubscriptionProtocol, TLC

CONSTANTS alice, bob, shop, mall, dao, usdc, eurc

\* Every transaction is signed by one party or by two of them.
MCSignerSets == {S \in SUBSET Address : Cardinality(S) \in {1, 2}}

\* The subscribers all co-sign what the merchants submit, or nobody does.
MCBatchSignerSets == {Merchants \cup S : S \in SUBSET Subscribers} \cup {Subscribers}

\* Nothing tells the subscribers of a batch apart; the properties checked with
\* this symmetry are invariants and action properties.
MCSubscriberSymmetry == Permutations(Subscribers)

=============================================================================
