--------------------------- MODULE PositionLedger ----------------------------
(***************************************************************************)
(* The REAL position of one user on one market: the bets row that every    *)
(* attempt on that market books into, the outcome tokens that back it, and *)
(* the settlement sweep that closes it when the market has resolved.       *)
(*                                                                         *)
(* OrderAttempts shows how an attempt becomes an order and is resolved;    *)
(* here an attempt is born in flight with its order at the exchange, and   *)
(* what is modelled in full is the booking.  A reconciliation pass reads   *)
(* the attempt's row once, then the exchange, and books later with the row *)
(* it read; only the position is locked and read again.                    *)
(***************************************************************************)
EXTENDS Integers, FiniteSets, FiniteSetsExt, Functions

CONSTANTS
    Attempts,  \* order attempts of the user on the market
    Workers,   \* reconciliation passes that can be under way at once
    Sides,     \* {"YES", "NO"} or a part of it
    Tick,      \* SHARE_TICK_MICRO: nothing smaller can be sold
    MaxSize,   \* bound: shares an ENTRY is signed for
    Lag,       \* when the trade index may show only part of a match: while the
               \* market is "trading", when it has "resolved"
    None       \* the null of a nullable column

ASSUME AttemptsAssumption == IsFiniteSet(Attempts)
ASSUME TickAssumption == Tick \in Nat \ {0} /\ MaxSize \in Nat \ {0}
ASSUME SidesAssumption == Sides \subseteq {"YES", "NO"} /\ Lag \subseteq {"trading", "resolved"}

VARIABLES
    market,   \* "OPEN", or how it resolved: "YES", "NO" or "CANCELED"
    bet,      \* the position row, None before the first fill
    attempt,  \* the order_attempts rows
    matched,  \* shares matched at the exchange, -1 while the order is undecided
    indexed,  \* how many of them the trade index shows
    wallet,   \* outcome tokens of either side in the deposit wallet
    burned,   \* tokens the redeemer has paid out
    pass,     \* reconciliation passes
    settle,   \* the settlement sweep
    paid      \* shares the ledger holds as redeemed

vars == <<market, bet, attempt, matched, indexed, wallet, burned, pass, settle, paid>>

Total     == MaxSize * Cardinality(Attempts)
InFlight  == {"LIVE"}
Booked    == {"FILLED", "PARTIAL"}
\* Rows as the schema has them, and those of a bounded instance.
RowSet    == [dir : {"ENTRY", "EXIT"}, side : Sides, size : Int,
              state : {"LIVE", "FILLED", "PARTIAL", "KILLED"},
              lot : {None} \cup Nat, booked : Nat, final : BOOLEAN]
BetSet    == [side : Sides, filled : Nat \ {0}, closed : Nat, seq : Nat, settled : BOOLEAN]
Rows      == [dir : {"ENTRY", "EXIT"}, side : Sides, size : 1 .. Total,
              state : {"LIVE", "FILLED", "PARTIAL", "KILLED"},
              lot : {None} \cup 0 .. Total, booked : 0 .. Total, final : BOOLEAN]
Bets      == [side : Sides, filled : 0 .. Total, closed : 0 .. Total,
              seq : 0 .. Total, settled : BOOLEAN]
Idle      == [at |-> "idle"]

ASSUME NoneAssumption == None \notin RowSet /\ None \notin BetSet /\ None \notin Nat

\* The rows the program can reach: counters in range, the CHECK constraint
\* closedSharesMicro <= filledSharesMicro, nobody trading more than was signed.
TypeOK ==
    /\ market \in {"OPEN", "YES", "NO", "CANCELED"}
    /\ bet \in Bets \cup {None}
    /\ bet # None => bet.closed <= bet.filled
    /\ attempt \in [Attempts -> Rows \cup {None}]
    /\ \A a \in Attempts : /\ matched[a] \in -1 .. Total
                           /\ indexed[a] \in 0 .. Total
                           /\ attempt[a] # None => attempt[a].booked <= attempt[a].size
    /\ wallet \in [Sides -> 0 .. Total]
    /\ burned \in [Sides -> 0 .. Total]
    /\ paid \in 0 .. Total

Init ==
    /\ market = "OPEN"
    /\ bet = None
    /\ attempt = [a \in Attempts |-> None]
    /\ matched = [a \in Attempts |-> -1]
    /\ indexed = [a \in Attempts |-> 0]
    /\ wallet = [s \in Sides |-> 0]
    /\ burned = [s \in Sides |-> 0]
    /\ pass = [p \in Workers |-> Idle]
    /\ settle = Idle
    /\ paid = 0

Remainder(b) == IF b = None THEN 0 ELSE b.filled - b.closed

-----------------------------------------------------------------------------
(* The intent route's position guard, and the exchange.                    *)

\* One attempt in flight per market; below one tick there is no position.
MayTrade(a) ==
    /\ market = "OPEN"
    /\ attempt[a] = None
    /\ \A b \in Attempts : attempt[b] # None => attempt[b].state \notin InFlight

NewRow(dir, side, size) == [dir |-> dir, side |-> side, size |-> size, state |-> "LIVE",
                            lot |-> None, booked |-> 0, final |-> FALSE]

\* An ENTRY is refused while a tradable remainder is held.
Enter(a, side, size) ==
    /\ MayTrade(a)
    /\ Remainder(bet) < Tick
    /\ attempt' = [attempt EXCEPT ![a] = NewRow("ENTRY", side, size)]
    /\ UNCHANGED <<market, bet, matched, indexed, wallet, burned, pass, settle, paid>>

\* An EXIT sells the side the row says is held, floored to the tick.
Exit(a) ==
    /\ MayTrade(a)
    /\ Remainder(bet) >= Tick
    /\ attempt' = [attempt EXCEPT ![a] =
                     NewRow("EXIT", bet.side, (Remainder(bet) \div Tick) * Tick)]
    /\ UNCHANGED <<market, bet, matched, indexed, wallet, burned, pass, settle, paid>>

\* Fill-and-kill at the exchange: tokens move with the match, and nobody sells
\* tokens the wallet does not hold.
Match(a) ==
    /\ market = "OPEN"
    /\ attempt[a] # None
    /\ matched[a] = -1
    /\ LET side == attempt[a].side IN
       \E n \in 0 .. attempt[a].size :
         /\ attempt[a].dir = "EXIT" => n <= wallet[side]
         /\ matched' = [matched EXCEPT ![a] = n]
         /\ wallet' = [wallet EXCEPT ![side] =
                         IF attempt[a].dir = "ENTRY" THEN @ + n ELSE @ - n]
    /\ UNCHANGED <<market, bet, attempt, indexed, burned, pass, settle, paid>>

\* The trade index shows more of what matched.
Index(a) ==
    /\ indexed[a] < matched[a]
    /\ \E n \in (indexed[a] + 1) .. matched[a] :
         /\ n = matched[a] \/ "trading" \in Lag
         /\ indexed' = [indexed EXCEPT ![a] = n]
    /\ UNCHANGED <<market, bet, attempt, matched, wallet, burned, pass, settle, paid>>

\* The market resolves: orders that did not match by now never will.
Resolve ==
    /\ market = "OPEN"
    /\ market' \in Sides \cup {"CANCELED"}
    /\ matched' = [a \in Attempts |-> IF matched[a] = -1 /\ attempt[a] # None
                                      THEN 0 ELSE matched[a]]
    /\ "resolved" \in Lag \/ \A a \in Attempts : indexed[a] >= matched'[a]
    /\ UNCHANGED <<bet, attempt, indexed, wallet, burned, pass, settle, paid>>

\* The redeemer burns winning tokens, both sides of a canceled market.
Redeem(side) ==
    /\ market \in {side, "CANCELED"}
    /\ wallet[side] > 0
    /\ burned' = [burned EXCEPT ![side] = @ + wallet[side]]
    /\ wallet' = [wallet EXCEPT ![side] = 0]
    /\ UNCHANGED <<market, bet, attempt, matched, indexed, pass, settle, paid>>

-----------------------------------------------------------------------------
(* A reconciliation pass.                                                  *)

\* The sweep reads the row; r is the snapshot the pass keeps.
Read(p, a) ==
    /\ pass[p].at = "idle"
    /\ attempt[a] # None
    /\ attempt[a].state \in InFlight \cup Booked
    /\ ~attempt[a].final
    /\ pass' = [pass EXCEPT ![p] = [at |-> "probe", a |-> a, row |-> attempt[a]]]
    /\ UNCHANGED <<market, bet, attempt, matched, indexed, wallet, burned, settle, paid>>

\* The verdict: the running total of the order's trades, terminal once the
\* order is decided and the index has caught up.
Probe(p) ==
    LET a == pass[p].a IN
    /\ pass[p].at = "probe"
    /\ indexed[a] > 0 \/ matched[a] = 0
    /\ pass' = [pass EXCEPT ![p] =
                  [at |-> "book", a |-> a, row |-> @.row, total |-> indexed[a],
                   terminal |-> indexed[a] = matched[a]]]
    /\ UNCHANGED <<market, bet, attempt, matched, indexed, wallet, burned, settle, paid>>

Label(n, size) == IF n >= size THEN "FILLED" ELSE "PARTIAL"

\* Mutant: what is booked comes from the row the pass read before the lock.
DeltaOfSnapshot(p) == pass[p].total - pass[p].row.booked

\* What the attempt lacks, summed under the position's lock.
Delta(p) == pass[p].total - attempt[pass[p].a].booked

\* The attempt's row once its trades are written: the label of the new total,
\* and the lot it booked into.
Stamped(row, n, lot) == [row EXCEPT !.booked = n, !.lot = lot, !.state = Label(n, row.size)]
\* The position has moved on: the trades are kept, the position is not touched.
KeptAside(row, n) == IF row.state = "KILLED" THEN [row EXCEPT !.booked = n]
                     ELSE Stamped(row, n, row.lot)

\* Mutant: only a lot number from the future counts as another lot.
LotAhead(row) == bet # None /\ row.lot # None /\ row.lot > bet.seq

\* The attempt booked into a lot that was closed and reopened since.
StaleLot(row) == bet # None /\ row.lot # None /\ row.lot # bet.seq

\* Mutant: dust is a position for the booking, but not for the intent's guard.
SoldOut(b) == b # None /\ Remainder(b) = 0

\* A closed lot, dust included, is no position to add to.
Reopening(b) == b # None /\ Remainder(b) < Tick

\* Mutant: a settled position may be reopened after the market has closed.
LateForUnsettled == Reopening(bet) /\ market # "OPEN" /\ ~bet.settled

\* A fill for a lot that is closed, on a market that no longer trades.
LateFill == Reopening(bet) /\ market # "OPEN"

\* bookEntryFills with delta > 0, on the position as it is under the lock and
\* the attempt as the pass read it.
EntryBooking(a, row, delta) ==
    LET n     == attempt[a].booked + delta
        fresh == [side |-> row.side, filled |-> delta, closed |-> 0,
                  seq |-> IF bet = None THEN 0 ELSE bet.seq + 1, settled |-> FALSE]
    IN
    IF StaleLot(row)
    THEN /\ attempt' = [attempt EXCEPT ![a] = KeptAside(@, n)]
         /\ UNCHANGED bet
    ELSE IF LateFill
    THEN /\ attempt' = [attempt EXCEPT ![a] = Stamped(@, n, @.lot)]
         /\ UNCHANGED bet
    ELSE /\ bet' = IF bet = None \/ Reopening(bet)
                   THEN fresh
                   ELSE [bet EXCEPT !.filled = @ + delta]
         /\ attempt' = [attempt EXCEPT ![a] = Stamped(@, n, bet'.seq)]

Smaller(x, y) == IF x < y THEN x ELSE y

\* What a sale of n shares closes: no more than is held, and a remnant below
\* one tick is written off with it.
Closing(n) ==
    LET sold  == Smaller(n, Remainder(bet))
        trail == Remainder(bet) - sold
    IN  IF trail < Tick THEN sold + trail ELSE sold

\* bookExitFills with delta > 0.  The position exists: the intent saw it.
ExitBooking(a, row, delta) ==
    LET n == attempt[a].booked + delta IN
    IF StaleLot(row)
    THEN /\ attempt' = [attempt EXCEPT ![a] = KeptAside(@, n)]
         /\ UNCHANGED bet
    ELSE IF Remainder(bet) = 0
    THEN /\ attempt' = IF row.state \in Booked THEN attempt   \* no_remainder
                       ELSE [attempt EXCEPT ![a].state = "KILLED"]
         /\ UNCHANGED bet
    ELSE /\ bet' = [bet EXCEPT !.closed = @ + Closing(delta),
                               !.settled = @ \/ Closing(delta) = Remainder(bet)]
         /\ attempt' = [attempt EXCEPT ![a] = Stamped(@, n, bet.seq)]

\* reconcileAttempt: the cumulative total books what the attempt lacks.  With
\* nothing lacking only a label could change, and here the label is current.
\* What had been booked before is read with the booking, as in OrderAttempts.
Book(p) ==
    LET a     == pass[p].a
        row   == pass[p].row
        delta == Delta(p)
    IN
    /\ pass[p].at = "book"
    /\ IF pass[p].total = 0
       THEN /\ attempt' = IF attempt[a].state \in InFlight
                          THEN [attempt EXCEPT ![a].state = "KILLED"] ELSE attempt
            /\ pass' = [pass EXCEPT ![p] = Idle]
            /\ UNCHANGED bet
       ELSE /\ pass' = [pass EXCEPT ![p] =
                          [at |-> "fees", a |-> a, total |-> pass[p].total,
                           terminal |-> pass[p].terminal /\ delta = 0]]
            /\ IF delta <= 0 THEN UNCHANGED <<bet, attempt>>
               ELSE IF row.dir = "ENTRY" THEN EntryBooking(a, row, delta)
               ELSE ExitBooking(a, row, delta)
    /\ UNCHANGED <<market, matched, indexed, wallet, burned, settle, paid>>

\* trueUpAttemptFee's stamp: a second identical, complete observation.
TrueUp(p) ==
    LET a == pass[p].a IN
    /\ pass[p].at = "fees"
    /\ pass' = [pass EXCEPT ![p] = Idle]
    /\ attempt' = IF /\ pass[p].terminal /\ pass[p].total >= attempt[a].booked
                     /\ attempt[a].state \in Booked
                  THEN [attempt EXCEPT ![a].final = TRUE] ELSE attempt
    /\ UNCHANGED <<market, bet, matched, indexed, wallet, burned, settle, paid>>

PassDies(p) ==
    /\ pass[p].at # "idle"
    /\ pass' = [pass EXCEPT ![p] = Idle]
    /\ UNCHANGED <<market, bet, attempt, matched, indexed, wallet, burned, settle, paid>>

-----------------------------------------------------------------------------
(* settleResolvedRealPositions.                                            *)

\* Candidates with a remainder and no attempt in flight.
Scan ==
    /\ settle.at = "idle"
    /\ market # "OPEN"
    /\ bet # None
    /\ ~bet.settled /\ Remainder(bet) > 0
    /\ \A a \in Attempts : attempt[a] # None => attempt[a].state \notin InFlight
    /\ settle' = [at |-> "plan", side |-> bet.side, rem |-> Remainder(bet)]
    /\ UNCHANGED <<market, bet, attempt, matched, indexed, wallet, burned, pass, paid>>

\* Mutant: the balance read is the losing token's.
OtherTokenHeld(side) == wallet[IF side = "YES" THEN "NO" ELSE "YES"] > 0

\* The token of a side has not been redeemed yet.
TokenHeld(side) == wallet[side] > 0

\* A loss and a remnant below a tick are worth nothing and need no proof; a
\* winner waits until its token has left the wallet.
Plan ==
    LET won == market \in {settle.side, "CANCELED"} /\ settle.rem >= Tick IN
    /\ settle.at = "plan"
    /\ settle' = IF won /\ TokenHeld(settle.side) THEN Idle
                 ELSE [at |-> "consume", won |-> won]
    /\ UNCHANGED <<market, bet, attempt, matched, indexed, wallet, burned, pass, paid>>

\* consumeResolvedPosition re-reads the row under its lock.
Consume ==
    /\ settle.at = "consume"
    /\ settle' = Idle
    /\ IF Remainder(bet) > 0
       THEN /\ bet' = [bet EXCEPT !.closed = bet.filled, !.settled = TRUE]
            /\ paid' = IF settle.won THEN paid + Remainder(bet) ELSE paid
       ELSE UNCHANGED <<bet, paid>>
    /\ UNCHANGED <<market, attempt, matched, indexed, wallet, burned, pass>>

SettleDies ==
    /\ settle.at # "idle"
    /\ settle' = Idle
    /\ UNCHANGED <<market, bet, attempt, matched, indexed, wallet, burned, pass, paid>>

-----------------------------------------------------------------------------
Next ==
    \/ \E a \in Attempts :
         \/ \E side \in Sides, size \in 1 .. MaxSize : Enter(a, side, size)
         \/ Exit(a) \/ Match(a) \/ Index(a)
         \/ \E p \in Workers : Read(p, a)
    \/ \E p \in Workers : Probe(p) \/ Book(p) \/ TrueUp(p) \/ PassDies(p)
    \/ \E side \in Sides : Redeem(side)
    \/ Resolve \/ Scan \/ Plan \/ Consume \/ SettleDies

Spec == Init /\ [][Next]_vars

-----------------------------------------------------------------------------
(* Properties.                                                             *)

Sales(side) == {a \in Attempts : /\ attempt[a] # None /\ attempt[a].dir = "EXIT"
                                 /\ attempt[a].side = side /\ matched[a] > 0}
\* Sold shares whose trades the ledger does not hold yet.
UnbookedSales(side) ==
    SumFunction([a \in Attempts |-> IF a \in Sales(side) THEN matched[a] - attempt[a].booked ELSE 0])

\* The app never shows shares that do not exist: an open remainder is backed
\* by tokens of that side, redeemed tokens or sales still to be booked.
NoPhantomShares ==
    bet # None /\ ~bet.settled =>
        Remainder(bet) <= wallet[bet.side] + burned[bet.side] + UnbookedSales(bet.side)

\* real-settle.ts: a redemption is booked on proof that the redeemer paid, so
\* never for shares that were sold instead.
PaidWereBurned == paid <= SumFunction(burned)

\* Once settled on a closed market a position stays settled, as it is: a late
\* fill never reopens it to be paid again.
SettledStands ==
    [][bet # None /\ bet.settled /\ market # "OPEN" => bet' = bet]_vars

\* intent/route.ts: an opposite-side entry never merges into an aggregate that
\* holds the other token.
OneSidePerLot ==
    [][\A a \in Attempts :
         bet # None /\ bet'.filled > bet.filled /\ bet'.seq = bet.seq /\ attempt'[a] # attempt[a]
           => attempt[a].side = bet.side]_vars

\* Every step on the position keeps the contract of a lot.
Contract == INSTANCE LotContract WITH lot <- bet
KeepsLotContract == Contract!Spec

\* orders.ts: fills of an attempt whose lot was closed and reopened do not land
\* on the new lot.
LotKeepsItsOwn ==
    [][\A a \in Attempts :
         attempt[a] # None /\ bet # None /\ bet' # bet /\ attempt'[a] # attempt[a]
           => attempt[a].lot \in {None, bet.seq}]_vars
=============================================================================
