------------------------------- MODULE MCHub -------------------------------
(* Small instances of Hub and of its refinement.  Addresses, tasks and     *)
(* requests are interchangeable, except requests where some are Pooled.    *)
EXTENDS HubRefinement, HubInv

SymSlavesTasks == Permutations(Slaves) \cup Permutations(Tasks)
SymAll == SymSlavesTasks \cup Permutations(Requests)
=============================================================================
