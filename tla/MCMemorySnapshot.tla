--------------------------- MODULE MCMemorySnapshot ---------------------------
(* Two processes in one workspace.                                         *)
EXTENDS MemorySnapshot, TLC

CONSTANTS p, q

Symmetry == Permutations(Proc)
=============================================================================
