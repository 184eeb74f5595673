--------------------------- MODULE MCPositionLedger --------------------------
(* Small instances of PositionLedger for TLC.                              *)
EXTENDS PositionLedger, TLC

Symmetry == Permutations(Attempts) \cup Permutations(Workers)
=============================================================================
