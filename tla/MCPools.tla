------------------------------ MODULE MCPools ------------------------------
(* Values for the constants of Pools that a .cfg cannot write.             *)
EXTENDS Pools, TLC

Symmetry == Permutations(Cells) \cup Permutations(Tasks)
=============================================================================
