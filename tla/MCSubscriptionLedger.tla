------------------------ MODULE MCSubscriptionLedger ------------------------
(* Instances of the ledger; see the .cfg files for the bounds.              *)
EXTENDS SubscriptionLedger, TLC

\* Request ids are interchangeable; only runs without liveness use this.
RequestSymmetry == Permutations(Requests)

\* Two limited subscriptions, the second one larger.
Limited == [s \in 1..NSubs |-> s]
=============================================================================
