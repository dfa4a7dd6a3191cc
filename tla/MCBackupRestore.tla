--------------------------- MODULE MCBackupRestore ---------------------------
(* Workspaces that use the same task keys and restore each other's backups.*)
EXTENDS BackupRestore, TLC

CONSTANTS a, b, c

Symmetry == Permutations(Workspaces)
=============================================================================
