---------------------------- MODULE MCNewDelete ----------------------------
(* Values for the constants of NewDelete that a .cfg cannot write.         *)
EXTENDS NewDelete, TLC

Symmetry == Permutations(Cells) \cup Permutations(Tasks)
=============================================================================
