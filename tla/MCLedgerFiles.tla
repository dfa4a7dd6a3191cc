---------------------------- MODULE MCLedgerFiles ----------------------------
(* Interchangeable processes create one task, update and read it, with a   *)
(* checkpoint at every second version.                                     *)
EXTENDS LedgerFiles, TLC

CONSTANTS p, q

Symmetry == Permutations(Procs)
=============================================================================
