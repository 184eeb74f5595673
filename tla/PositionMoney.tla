----------------------------- MODULE PositionMoney -----------------------------
(***************************************************************************)
(* The money of the position in PositionLedger: what its bets row says was *)
(* spent, received, charged and earned.                                    *)
(*                                                                         *)
(* Shares and money are written together, under the position's lock, so    *)
(* each action here is the one of PositionLedger with what it does to the  *)
(* money.  The server's own receipt of a post books an estimated fee.  A   *)
(* reconciliation reads the charged fee of the trades it sees, and its     *)
(* true-up replaces the estimate, after part or all of the shares may have *)
(* been sold and their profit realized.                                    *)
(*                                                                         *)
(* All trades of an order have one price here.                             *)
(***************************************************************************)
EXTENDS PositionLedger

CONSTANTS
    Prices,    \* micro-dollars an order may trade at per share
    FeeRate,   \* what the exchange charges per share
    FeeErrors, \* by how much a receipt's estimate may be off
    Dollar     \* what a winning share redeems for

ASSUME MoneyAssumption ==
    /\ Prices \subseteq Nat /\ FeeErrors \subseteq Int
    /\ {FeeRate, Dollar} \subseteq Nat

VARIABLES
    price,    \* the price the order of an attempt traded at
    fills,    \* sums of the attempt's fills rows: amount and fee
    books,    \* the money columns of the bets row
    seen,     \* what a pass remembers: the fee it saw, the lot of the row it read
    receipts, \* attempts whose submit request is on its way to book the receipt
    diluted   \* auxiliary: a lot partly sold has grown, at an estimated fee

money == <<price, fills, books, seen, receipts, diluted>>

NothingSeen == [receipt |-> FALSE, fee |-> 0, lot |-> None]

MoneyInit ==
    /\ Init
    /\ price = [a \in Attempts |-> 0]
    /\ fills = [a \in Attempts |-> [amount |-> 0, fee |-> 0]]
    /\ books = [spend |-> 0, fee |-> 0, proceeds |-> 0, closeFee |-> 0, realized |-> 0]
    /\ seen = [p \in Workers |-> NothingSeen]
    /\ receipts = {}
    /\ diluted = FALSE

NonNegative(x) == IF x < 0 THEN 0 ELSE x
\* BigInt division: towards zero.
Quotient(x, y) == IF x < 0 THEN -((-x) \div y) ELSE x \div y

-----------------------------------------------------------------------------
(* What a pass or the submit request sees.                                  *)

MatchAt(a) ==
    /\ Match(a)
    /\ \E x \in Prices : price' = [price EXCEPT ![a] = x]
    /\ UNCHANGED <<fills, books, seen, receipts, diluted>>

\* A pass, or once per order the request that posted it.
ReadAs(p, a) ==
    /\ Read(p, a)
    /\ \E receipt \in BOOLEAN :
         /\ receipt => attempt[a].booked = 0 /\ a \notin receipts
         /\ receipts' = IF receipt THEN receipts \cup {a} ELSE receipts
         /\ seen' = [seen EXCEPT ![p] = [receipt |-> receipt, fee |-> 0, lot |-> attempt[a].lot]]
    /\ UNCHANGED <<price, fills, books, diluted>>

\* classifyPostResponse estimates the fee, reconcileAttempt computes it from the trades.
ProbeFee(p) ==
    /\ Probe(p)
    /\ \E fee \in IF seen[p].receipt
                  THEN {NonNegative(FeeRate * pass'[p].total + e) : e \in FeeErrors}
                  ELSE {FeeRate * pass'[p].total} :
         seen' = [seen EXCEPT ![p].fee = fee]
    /\ UNCHANGED <<price, fills, books, receipts, diluted>>

-----------------------------------------------------------------------------
(* Booking.                                                                 *)

\* receiptDelta: the totals of the order, less what the attempt holds.
AmountDelta(p) == LET a == pass[p].a IN NonNegative(price[a] * pass[p].total - fills[a].amount)
FeeDelta(p) == LET a == pass[p].a IN NonNegative(seen[p].fee - fills[a].fee)

FillWritten(p) ==
    fills' = [fills EXCEPT ![pass[p].a] =
                [amount |-> @.amount + AmountDelta(p), fee |-> @.fee + FeeDelta(p)]]

\* costBasisMicro: the part of the lot's cost that n of its shares carry.
CostBasis(n) == ((books.spend + books.fee) * n) \div bet.filled

\* A new lot starts from this fill; the realized profit is the row's history.
EntryMoney(p) ==
    IF bet = None \/ Reopening(bet)
    THEN [spend |-> AmountDelta(p), fee |-> FeeDelta(p), proceeds |-> 0, closeFee |-> 0,
          realized |-> books.realized]
    ELSE [books EXCEPT !.spend = @ + AmountDelta(p), !.fee = @ + FeeDelta(p)]

\* A sale of more than is held counts in proportion; the basis of written-off dust
\* is realized with it.
ExitMoney(p) ==
    LET sold     == Smaller(Delta(p), Remainder(bet))
        proceeds == (AmountDelta(p) * sold) \div Delta(p)
        closeFee == (FeeDelta(p) * sold) \div Delta(p)
    IN  [books EXCEPT !.proceeds = @ + proceeds, !.closeFee = @ + closeFee,
                      !.realized = @ + proceeds - closeFee - CostBasis(Closing(Delta(p)))]

\* Fills are merged into a lot of which a part is sold, while the fee of the old or of
\* the new ones is an estimate.
Dilutes(p) ==
    LET a == pass[p].a IN
    /\ bet # None /\ bet.closed > 0 /\ bet'.seq = bet.seq /\ bet'.filled > bet.filled
    /\ \/ fills[a].fee # FeeRate * attempt[a].booked
       \/ seen[p].fee # FeeRate * pass[p].total

BookMoney(p) ==
    LET row == pass[p].row
        entry == row.dir = "ENTRY"
    IN
    /\ Book(p)
    /\ IF pass[p].total = 0 \/ Delta(p) <= 0 \/ (~entry /\ ~StaleLot(row) /\ Remainder(bet) = 0)
       THEN UNCHANGED <<fills, books>>
       ELSE /\ FillWritten(p)
            /\ books' = IF StaleLot(row) \/ (entry /\ LateFill) THEN books
                        ELSE IF entry THEN EntryMoney(p) ELSE ExitMoney(p)
    /\ diluted' = (diluted \/ Dilutes(p))
    /\ UNCHANGED <<price, seen, receipts>>

-----------------------------------------------------------------------------
(* trueUpAttemptFee.                                                        *)

\* Mutant: an observation that saw fewer shares than are booked is applied too.
AnyRead(p) == TRUE

\* The read behind the fee covers at least what is booked by now.
CurrentRead(p) == pass[p].total >= attempt[pass[p].a].booked

\* The correction, as far down as the ledger and the row can both go.
Applied(a, fee, held) ==
    LET floor == -Smaller(fills[a].fee, held)
        delta == fee - fills[a].fee
    IN  IF delta < floor THEN floor ELSE delta

\* An entry's fee reprices the basis, and for the shares that are closed the profit;
\* an exit's fee comes off the profit.
Repriced(dir, applied) ==
    IF dir = "EXIT"
    THEN [books EXCEPT !.closeFee = @ + applied, !.realized = @ - applied]
    ELSE [books EXCEPT !.fee = @ + applied,
                       !.realized = @ - Quotient(applied * bet.closed, bet.filled)]

\* Only reconciliations correct; a receipt ends with its booking.
TrueUpMoney(p) ==
    LET a       == pass[p].a
        dir     == attempt[a].dir
        held    == IF dir = "EXIT" THEN books.closeFee ELSE books.fee
        applied == Applied(a, seen[p].fee, held)
    IN
    /\ ~seen[p].receipt
    /\ TrueUp(p)
    /\ IF CurrentRead(p) /\ attempt[a].booked > 0
       THEN /\ fills' = [fills EXCEPT ![a].fee = @ + applied]
            /\ books' = IF seen[p].lot \in {None, bet.seq} THEN Repriced(dir, applied) ELSE books
       ELSE UNCHANGED <<fills, books>>
    /\ seen' = [seen EXCEPT ![p] = NothingSeen]
    /\ UNCHANGED <<price, receipts, diluted>>

EndPass(p) ==
    /\ PassDies(p)
    /\ seen' = [seen EXCEPT ![p] = NothingSeen]
    /\ UNCHANGED <<price, fills, books, receipts, diluted>>

-----------------------------------------------------------------------------
(* consumeResolvedPosition.                                                 *)

\* A winner redeems at a dollar, a canceled market at half of it.
Payout(n) == IF market = "CANCELED" THEN (n * Dollar) \div 2 ELSE n * Dollar

ConsumeMoney ==
    LET rem      == Remainder(bet)
        proceeds == IF settle.won THEN Payout(rem) ELSE 0
    IN
    /\ Consume
    /\ books' = IF rem > 0
                THEN [books EXCEPT !.proceeds = @ + proceeds,
                                   !.realized = @ + proceeds - CostBasis(rem)]
                ELSE books
    /\ UNCHANGED <<price, fills, seen, receipts, diluted>>

-----------------------------------------------------------------------------
MoneyNext ==
    \/ \E a \in Attempts :
         \/ /\ \/ \E side \in Sides, size \in 1 .. MaxSize : Enter(a, side, size)
               \/ Exit(a) \/ Index(a)
            /\ UNCHANGED money
         \/ MatchAt(a)
         \/ \E p \in Workers : ReadAs(p, a)
    \/ \E p \in Workers : ProbeFee(p) \/ BookMoney(p) \/ TrueUpMoney(p) \/ EndPass(p)
    \/ ConsumeMoney
    \/ /\ (\E side \in Sides : Redeem(side)) \/ Resolve \/ Scan \/ Plan \/ SettleDies
       /\ UNCHANGED money

MoneySpec == MoneyInit /\ [][MoneyNext]_<<vars, money>>

-----------------------------------------------------------------------------
Traded(dir) == {a \in Attempts : attempt[a] # None /\ attempt[a].dir = dir /\ matched[a] > 0}
BookedShares(dir) ==
    SumFunction([a \in Attempts |-> IF a \in Traded(dir) THEN attempt[a].booked ELSE 0])

\* What the wallet really spent and got: at the exchange, and from the redeemer.
SpentOn(a) == IF a \in Traded("ENTRY") THEN matched[a] * (price[a] + FeeRate) ELSE 0
GotFor(a)  == IF a \in Traded("EXIT") THEN matched[a] * (price[a] - FeeRate) ELSE 0
Cash == SumFunction([a \in Attempts |-> GotFor(a)]) - SumFunction([a \in Attempts |-> SpentOn(a)])
        + Payout(paid)

\* One micro-dollar for each division that rounds: a sale in one booking per share,
\* the settlement, and the repricing of every entry after each booking.
Rounding == Total + 1

\* Once every order is reconciled and the position is closed, its realized profit is
\* the cash that moved, to the rounding, in whatever order receipts, estimates,
\* partial reads, sales, corrections and the settlement came.  For a row in its first
\* lot that took every fill of its entries, and took none at an estimated fee after a
\* part of it was sold: the basis of a sale is not repriced when the row grows.
PnlIsCash ==
    bet # None /\ bet.seq = 0 /\ Remainder(bet) = 0 /\ ~diluted
      /\ bet.filled = BookedShares("ENTRY")
      /\ (\A a \in Traded("ENTRY") \cup Traded("EXIT") : attempt[a].final)
      => books.realized - Cash \in -Rounding .. Rounding

=============================================================================
