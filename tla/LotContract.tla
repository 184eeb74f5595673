----------------------------- MODULE LotContract ------------------------------
(***************************************************************************)
(* What the ledger promises of the position on one market, whatever passes *)
(* and sweeps work on it.  A lot of shares opens, grows while a tick or    *)
(* more of it is held, shrinks by sales, and is closed at the latest by    *)
(* the settlement, which pays the winner's remainder in full and once.  A  *)
(* next lot opens only when less than a tick is left of this one, and only *)
(* while the market trades.                                                *)
(***************************************************************************)
EXTENDS Integers

CONSTANTS Sides, Tick, None

VARIABLES market, lot, paid

lotVars == <<market, lot, paid>>

Held(l) == IF l = None THEN 0 ELSE l.filled - l.closed

Init ==
    /\ market = "OPEN"
    /\ lot = None
    /\ paid = 0

\* The market resolves, once.
Close ==
    /\ market = "OPEN"
    /\ market' \in Sides \cup {"CANCELED"}
    /\ UNCHANGED <<lot, paid>>

\* A lot opens; the first may be booked after the market has closed.
Open ==
    /\ lot # None => Held(lot) < Tick /\ market = "OPEN"
    /\ lot' # None /\ lot'.side \in Sides
    /\ lot'.filled > 0
    /\ lot' = [side |-> lot'.side, filled |-> lot'.filled, closed |-> 0,
               seq |-> IF lot = None THEN 0 ELSE lot.seq + 1, settled |-> FALSE]
    /\ UNCHANGED <<market, paid>>

\* More of the same side is bought.
Grow ==
    /\ lot # None /\ Held(lot) >= Tick
    /\ lot'.filled > lot.filled
    /\ lot' = [lot EXCEPT !.filled = lot'.filled]
    /\ UNCHANGED <<market, paid>>

\* Shares are sold; nothing is left of the lot, or a tick at least.
Sell ==
    /\ lot # None
    /\ lot'.closed > lot.closed
    /\ lot' = [lot EXCEPT !.closed = lot'.closed, !.settled = (lot'.closed = lot.filled)]
    /\ Held(lot') = 0 \/ Held(lot') >= Tick
    /\ UNCHANGED <<market, paid>>

\* The settlement closes what is left.  A remainder of a tick or more is paid if its
\* side has won or the market was canceled; a loss and dust are written off.
Settle ==
    /\ market # "OPEN" /\ Held(lot) > 0
    /\ lot' = [lot EXCEPT !.closed = lot.filled, !.settled = TRUE]
    /\ paid' = IF Held(lot) >= Tick /\ market \in {lot.side, "CANCELED"}
               THEN paid + Held(lot) ELSE paid
    /\ UNCHANGED market

Next == Close \/ Open \/ Grow \/ Sell \/ Settle

Spec == Init /\ [][Next]_lotVars
=============================================================================
