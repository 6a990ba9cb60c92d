---------------------------- MODULE MCMemoryStore ----------------------------
EXTENDS MemoryStore, TLC

Symmetry == Permutations(Procs)
=============================================================================
