---------------------------- MODULE MCPositionMoney ----------------------------
(* Small instances of PositionMoney for TLC.                               *)
EXTENDS PositionMoney, TLC

Symmetry == Permutations(Attempts) \cup Permutations(Workers)
=============================================================================
