--------------------------- MODULE MCManagedHeap ---------------------------
(* Values for the constants of ManagedHeap that a .cfg cannot write.       *)
EXTENDS ManagedHeap

CapsPsram == {"SPIRAM", "8BIT"}
CapsInternal == {"INTERNAL", "8BIT"}
CapsDma == {"DMA", "INTERNAL"}

JustPsram == {CapsPsram}
PsramAndDma == {CapsPsram, CapsDma}
CapsBare == {"SPIRAM"}            \* no 8BIT: routed to psram, refused by it
PsramAndBare == {CapsPsram, CapsBare}
AllRoutes == {CapsPsram, CapsInternal, CapsBare}
CellSymmetry == Permutations(Cells)
Symmetry == Permutations(Cells) \cup Permutations(Tasks)
=============================================================================
