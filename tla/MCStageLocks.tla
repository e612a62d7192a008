---------------------------- MODULE MCStageLocks ----------------------------
(* StageLocks for model checking: interchangeable workers. *)
EXTENDS StageLocks, TLC

WorkerSymmetry == Permutations(Workers)
=============================================================================
