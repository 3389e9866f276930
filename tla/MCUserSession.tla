--------------------------- MODULE MCUserSession ---------------------------
(* Instances of the session; see the .cfg files for the bounds.             *)
EXTENDS UserSession, TLC

\* Requests are interchangeable.
ProcSymmetry == Permutations(Procs)
=============================================================================
