-------------------------- MODULE MCStageCheckpoint --------------------------
(* StageCheckpoint for model checking: interchangeable workers. *)
EXTENDS StageCheckpoint, TLC

WorkerSymmetry == Permutations(Workers)
=============================================================================
