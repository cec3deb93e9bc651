-------------------------- MODULE MCAtomicVariable --------------------------
(* A small instance of AtomicVariable and of its refinement.               *)
EXTENDS CellRefinement, FiniteSets, TLC

(* A new snapshot object can always be made: every call refers to at most  *)
(* two, and the variable itself to one of those it is about to replace.    *)
ASSUME EnoughIds == IsFiniteSet(Ids) /\ Cardinality(Ids) >= 2 * Cardinality(Callers)

IdSymmetry == Permutations(Ids) \cup Permutations(Callers)
=============================================================================
