----------------------------- MODULE MCPaperGame -----------------------------
(* Small instances of PaperGame, and the streak it extends, for TLC.       *)
EXTENDS PaperGame, TLC

Symmetry == Permutations(Markets) \cup Permutations(Sweepers)
=============================================================================
