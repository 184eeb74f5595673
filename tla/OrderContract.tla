---------------------------- MODULE OrderContract ----------------------------
(***************************************************************************)
(* What the real-money order path promises about the ledger, whatever      *)
(* requests, phones and sweeps take part in it.  The exchange may charge   *)
(* an open attempt once.  The ledger credits what was charged, never more, *)
(* possibly in several steps.  An attempt is closed empty only if it was   *)
(* never charged, and is never charged afterwards.                         *)
(***************************************************************************)
EXTENDS Naturals

CONSTANTS Attempts, MaxMatched

VARIABLES status, charged, credited

contractVars == <<status, charged, credited>>

Init ==
    /\ status = [a \in Attempts |-> "open"]
    /\ charged = [a \in Attempts |-> 0]
    /\ credited = [a \in Attempts |-> 0]

\* The exchange matches the attempt's order.
Charge(a) ==
    /\ status[a] = "open"
    /\ charged[a] = 0
    /\ \E n \in 1 .. MaxMatched : charged' = [charged EXCEPT ![a] = n]
    /\ UNCHANGED <<status, credited>>

\* The ledger books more of what was charged.
Credit(a) ==
    /\ status[a] \in {"open", "credited"}
    /\ status' = [status EXCEPT ![a] = "credited"]
    /\ \E n \in (credited[a] + 1) .. charged[a] : credited' = [credited EXCEPT ![a] = n]
    /\ UNCHANGED charged

\* The attempt comes to nothing.
Void(a) ==
    /\ status[a] = "open"
    /\ charged[a] = 0
    /\ status' = [status EXCEPT ![a] = "void"]
    /\ UNCHANGED <<charged, credited>>

Next == \E a \in Attempts : Charge(a) \/ Credit(a) \/ Void(a)

Spec == Init /\ [][Next]_contractVars
=============================================================================
