----------------------------- MODULE MCSweepWalk -----------------------------
(* Small instances of SweepWalk for TLC.                                   *)
EXTENDS SweepWalk
=============================================================================
