------------------------------ MODULE MCReplay ------------------------------
(* Small instances of Replay and of its refinement for TLC.                *)
EXTENDS ContractRefinement, TLC

ThreadSymmetry == Permutations(Threads)
=============================================================================
