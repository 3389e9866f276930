---------------------------- MODULE MCSystemTask ----------------------------
(* Two runners and two rows of one type; see the .cfg files for the bounds. *)
EXTENDS SystemTask, TLC

\* Runner ids are interchangeable; only runs without liveness use this.
RunnerSymmetry == Permutations(Runners)
=============================================================================
