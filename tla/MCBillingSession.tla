-------------------------- MODULE MCBillingSession --------------------------
(* Instances of the billing sessions; see the .cfg files for the bounds.    *)
EXTENDS BillingSession, TLC

\* Request ids are interchangeable; only the run without liveness uses this.
RequestSymmetry == Permutations(Requests)

\* Every subscription's plan grants 2.
PlansOfTwo == [s \in 1..NSubs |-> 2]
=============================================================================
