----------------------------- MODULE MCInstaller -----------------------------
(* Two checkouts installed over each other in one Codex home.              *)
EXTENDS Installer, TLC

CONSTANTS old, new, x, y

Symmetry == Permutations({old, new}) \cup Permutations({x, y})
=============================================================================
