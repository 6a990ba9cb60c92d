------------------------- MODULE MCToolLoopRefines -------------------------
(* The refinement on small instances, with interchangeable model values.    *)
EXTENDS ToolLoopRefines, TLC

Symmetry == Permutations(Runs) \cup Permutations(Calls) \cup Permutations(Requests)
=============================================================================
