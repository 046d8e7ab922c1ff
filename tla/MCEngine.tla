------------------------------ MODULE MCEngine ------------------------------
(* Instances of Engine for TLC.                                            *)
EXTENDS EngineInv, EngineRefinement, TLC

SymAll == Permutations(Slaves) \cup Permutations(Cells)
=============================================================================
