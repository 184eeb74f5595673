--------------------------- MODULE MCWithdrawalRuns ---------------------------
(* Small instances of WithdrawalRuns for TLC.                              *)
EXTENDS WithdrawalRuns
=============================================================================
