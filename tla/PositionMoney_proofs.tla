------------------------- MODULE PositionMoney_proofs --------------------------
(***************************************************************************)
(* What is proved of PositionMoney for any number of attempts and passes,  *)
(* any prices, fees and errors of an estimate: what is proved of the       *)
(* shares holds with the money in it, no money column that the database    *)
(* constrains becomes negative, and the profit of a closed position is the *)
(* cash that moved.                                                        *)
(*                                                                         *)
(* The last is by the basis charged: of a row in its first lot that took   *)
(* every fill of its entries, the spend and the fee are what the attempts  *)
(* hold, and what sales and the settlement took off the profit is that     *)
(* cost in proportion to the shares closed, to one micro-dollar for each   *)
(* of them and one for the correction of the fee.                          *)
(***************************************************************************)
EXTENDS PositionMoney, PositionLedger_proofs

\* An attempt with booked shares, or that sells, has a position.
Held(a) == attempt[a].booked > 0 \/ attempt[a].dir = "EXIT" => bet \in BetSet
HeldOK == /\ \A a \in Attempts : attempt[a] # None => Held(a)
          /\ \A p \in Workers : pass[p].at # "idle" => Held(pass[p].a)

FillSet == [amount : Nat, fee : Nat]
BookSet == [spend : Nat, fee : Nat, proceeds : Nat, closeFee : Nat, realized : Int]
SeenSet == [receipt : BOOLEAN, fee : Nat, lot : {None} \cup Nat]

\* The signs that fills_sane and bets_real_fields_nonneg demand.
ColumnsOK == /\ fills \in [Attempts -> FillSet]
             /\ books \in BookSet
ObservedOK == /\ price \in [Attempts -> Nat]
              /\ seen \in [Workers -> SeenSet]

MInv == PInv /\ HeldOK /\ ColumnsOK /\ ObservedOK

-----------------------------------------------------------------------------
(* The money rides on the shares.                                          *)

\* Each action on the money has the one on the shares as a conjunct.
LEMMA MoneyStep == [MoneyNext]_<<vars, money>> => [Next]_vars
  BY DEF MoneyNext, Next, MatchAt, ReadAs, ProbeFee, BookMoney, TrueUpMoney, EndPass, ConsumeMoney

\* PositionMoney implements PositionLedger: each step on the money is a step on the
\* shares, so what is proved of the shares holds of it.
THEOREM MoneyKeepsShares == MoneySpec => Spec
  <1>1. MoneyInit => Init
    BY DEF MoneyInit
  <1> QED BY <1>1, MoneyStep, PTL DEF MoneySpec, Spec

-----------------------------------------------------------------------------
(* Arithmetic.                                                             *)

\* A share of a natural, rounded down, is one.
LEMMA Proportion ==
    ASSUME NEW x \in Nat, NEW y \in Nat, NEW z \in Nat, z > 0
    PROVE  (x * y) \div z \in Nat
  <1>1. x * y \in Nat
    OBVIOUS
  <1> QED BY <1>1

LEMMA QuotientIsInt ==
    ASSUME NEW x \in Int, NEW z \in Nat, z > 0
    PROVE  Quotient(x, z) \in Int
  BY DEF Quotient

\* Writing money columns of the right type.
LEMMA BooksWritten ==
    ASSUME NEW b \in BookSet, NEW x \in Nat, NEW y \in Nat, NEW z \in Int
    PROVE  /\ [b EXCEPT !.proceeds = x, !.closeFee = y, !.realized = z] \in BookSet
           /\ [b EXCEPT !.proceeds = x, !.realized = z] \in BookSet
           /\ [b EXCEPT !.closeFee = x, !.realized = z] \in BookSet
           /\ [b EXCEPT !.fee = x, !.realized = z] \in BookSet
           /\ [b EXCEPT !.spend = x, !.fee = y] \in BookSet
  BY DEF BookSet

\* receiptDelta never takes back what is booked.
LEMMA DeltasAreNat ==
    ASSUME MInv, NEW p \in Workers, pass[p].at = "book"
    PROVE  /\ AmountDelta(p) \in Nat /\ FeeDelta(p) \in Nat /\ Delta(p) \in Int
           /\ pass[p].a \in Attempts
  <1> DEFINE a == pass[p].a
  <1>1. a \in Attempts /\ attempt[a] \in RowSet /\ pass[p].total \in Nat
    BY PassCarries DEF MInv, PInv
  <1>2. price[a] \in Nat /\ fills[a].amount \in Nat /\ fills[a].fee \in Nat /\ seen[p].fee \in Nat
    BY <1>1 DEF MInv, ColumnsOK, ObservedOK, FillSet, SeenSet
  <1>3. price[a] * pass[p].total - fills[a].amount \in Int /\ seen[p].fee - fills[a].fee \in Int
    BY <1>1, <1>2
  <1> QED BY <1>1, <1>3 DEF AmountDelta, FeeDelta, NonNegative, Delta, RowSet

-----------------------------------------------------------------------------
(* An attempt that holds shares has a position.                            *)

\* The row of a position is never deleted.
LEMMA LotStays ==
    ASSUME PInv, [Next]_vars, bet \in BetSet
    PROVE  bet' \in BetSet
  <1>1. ASSUME NEW p \in Workers, Book(p) PROVE bet' = bet \/ bet' \in BetSet
    <2>1. CASE pass[p].total = 0 \/ Delta(p) <= 0
      BY <1>1, <2>1 DEF Book
    <2>2. /\ pass[p].a \in Attempts /\ attempt[pass[p].a] \in RowSet /\ pass[p].row \in RowSet
          /\ Delta(p) \in Int
      BY <1>1, PassCarries DEF PInv, Book, Delta, RowSet
    <2>3. CASE Delta(p) > 0 /\ EntryBooking(pass[p].a, pass[p].row, Delta(p))
      BY <2>2, <2>3, EntryKeeps DEF PInv
    <2>4. CASE Delta(p) > 0 /\ ExitBooking(pass[p].a, pass[p].row, Delta(p))
      BY <2>2, <2>4, ExitKeeps DEF PInv
    <2> QED BY <1>1, <2>1, <2>2, <2>3, <2>4 DEF Book
  <1>2. ASSUME Consume PROVE bet' \in BetSet
    BY <1>2 DEF Consume, BetSet
  <1>3. ASSUME NEW a \in Attempts,
               \/ \E side \in Sides, size \in 1 .. MaxSize : Enter(a, side, size)
               \/ Exit(a) \/ Match(a) \/ Index(a)
               \/ \E p \in Workers : Read(p, a)
        PROVE  bet' = bet
    BY <1>3 DEF Enter, Exit, Match, Index, Read
  <1>4. ASSUME NEW p \in Workers, Probe(p) \/ TrueUp(p) \/ PassDies(p) PROVE bet' = bet
    BY <1>4 DEF Probe, TrueUp, PassDies
  <1>5. ASSUME \/ \E side \in Sides : Redeem(side)
               \/ Resolve \/ Scan \/ Plan \/ SettleDies \/ UNCHANGED vars
        PROVE  bet' = bet
    BY <1>5 DEF Redeem, Resolve, Scan, Plan, SettleDies, vars
  <1> QED BY <1>1, <1>2, <1>3, <1>4, <1>5 DEF Next

\* A row that was not written, or not in what counts, holds as before.
LEMMA HeldStays ==
    ASSUME PInv, [Next]_vars, NEW a \in Attempts, Held(a),
           attempt'[a].booked = attempt[a].booked, attempt'[a].dir = attempt[a].dir
    PROVE  Held(a)'
  BY LotStays DEF Held

\* A booking into a position that does not exist creates it.
LEMMA BookedIsHeld ==
    ASSUME PInv, HeldOK, NEW p \in Workers, Book(p), NEW a \in Attempts, a = pass[p].a
    PROVE  Held(a)'
  <1>1. /\ a \in Attempts /\ attempt[a] \in RowSet /\ pass[p].row \in RowSet /\ Delta(p) \in Int
        /\ Held(a) /\ attempt \in [Attempts -> RowSet \cup {None}] /\ BetOK /\ AttemptsOK
    BY PassCarries DEF PInv, HeldOK, Book, Delta, RowSet, AttemptsOK
  <1>2. ASSUME bet \in BetSet PROVE Held(a)'
    BY <1>2, LotStays DEF Held, Next
  <1>3. ASSUME bet \notin BetSet PROVE Held(a)'
    <2>1. bet = None /\ attempt[a].booked <= 0 /\ attempt[a].dir # "EXIT"
      BY <1>1, <1>3 DEF BetOK, Held, RowSet
    <2>2. CASE attempt' = attempt
      BY <1>1, <2>1, <2>2 DEF Held, RowSet
    <2>3. CASE attempt' = [attempt EXCEPT ![a] = [attempt[a] EXCEPT !.state = "KILLED"]]
      <3>1. attempt'[a].booked = attempt[a].booked /\ attempt'[a].dir = attempt[a].dir
        BY <1>1, <2>3 DEF RowSet
      <3> QED BY <1>1, <2>1, <3>1 DEF Held, RowSet
    <2>4. CASE Delta(p) > 0 /\ EntryBooking(a, pass[p].row, Delta(p))
      <3>1. bet' = [side |-> pass[p].row.side, filled |-> Delta(p), closed |-> 0, seq |-> 0,
                    settled |-> FALSE]
        BY <2>1, <2>4 DEF EntryBooking, StaleLot, LateFill, Reopening
      <3>2. bet' \in BetSet
        BY <1>1, <2>4, <3>1 DEF BetSet, RowSet
      <3> QED BY <3>2 DEF Held
    <2>5. CASE Delta(p) > 0 /\ ExitBooking(a, pass[p].row, Delta(p))
      <3>1. ~StaleLot(pass[p].row) /\ Remainder(bet) = 0
        BY <2>1 DEF StaleLot, Remainder
      <3> QED BY <2>2, <2>3, <2>5, <3>1 DEF ExitBooking
    <2> QED BY <1>1, <2>2, <2>3, <2>4, <2>5 DEF Book
  <1> QED BY <1>2, <1>3

LEMMA HeldInv ==
    ASSUME PInv, HeldOK, [Next]_vars
    PROVE  HeldOK'
  <1>1. ASSUME NEW a \in Attempts, NEW side \in Sides, NEW size \in 1 .. MaxSize, Enter(a, side, size)
        PROVE  HeldOK'
    <2>1. attempt' = [attempt EXCEPT ![a] = NewRow("ENTRY", side, size)] /\ pass' = pass /\ bet' = bet
      BY <1>1 DEF Enter
    <2>2. Held(a)'
      BY <2>1 DEF Held, NewRow, PInv, AttemptsOK
    <2> QED BY <2>1, <2>2 DEF HeldOK, Held, PInv, AttemptsOK
  <1>2. ASSUME NEW a \in Attempts, Exit(a) PROVE HeldOK'
    <2>1. /\ attempt' = [attempt EXCEPT ![a] =
                           NewRow("EXIT", bet.side, (Remainder(bet) \div Tick) * Tick)]
          /\ pass' = pass /\ bet' = bet
      BY <1>2 DEF Exit
    <2>2. bet \in BetSet
      BY <1>2, TickAssumption DEF Exit, PInv, BetOK, Remainder
    <2> QED BY <2>1, <2>2 DEF HeldOK, Held, PInv, AttemptsOK
  <1>3. ASSUME NEW p \in Workers, NEW a \in Attempts, Read(p, a) PROVE HeldOK'
    <2>1. /\ attempt[a] # None /\ UNCHANGED <<attempt, bet>>
          /\ pass' = [pass EXCEPT ![p] = [at |-> "probe", a |-> a, row |-> attempt[a]]]
      BY <1>3 DEF Read
    <2> QED BY <2>1 DEF HeldOK, Held, PInv, PassesOK
  <1>4. ASSUME NEW p \in Workers, Probe(p) PROVE HeldOK'
    <2>1. /\ UNCHANGED <<attempt, bet>>
          /\ pass' = [pass EXCEPT ![p] = pass'[p]] /\ pass'[p].a = pass[p].a /\ pass[p].at # "idle"
      BY <1>4 DEF Probe, PInv, PassesOK
    <2> QED BY <2>1 DEF HeldOK, Held, PInv, PassesOK
  <1>5. ASSUME NEW p \in Workers, Book(p) PROVE HeldOK'
    <2> PICK a \in Attempts : a = pass[p].a
      BY <1>5, PassCarries DEF PInv, Book
    <2>1. Held(a)'
      BY <1>5, BookedIsHeld
    <2>2. a \in Attempts /\ attempt[a] \in RowSet /\ pass[p].row \in RowSet /\ Delta(p) \in Int
          /\ pass[p].at = "book"
      BY <1>5, PassCarries DEF PInv, Book, Delta, RowSet
    <2>3. \A b \in Attempts : b # a => attempt'[b] = attempt[b]
      <3>1. CASE pass[p].total = 0 \/ Delta(p) <= 0
        BY <1>5, <2>2, <3>1 DEF Book, PInv, AttemptsOK
      <3>2. CASE Delta(p) > 0 /\ EntryBooking(a, pass[p].row, Delta(p))
        BY <2>2, <3>2, EntryKeeps DEF PInv, Writes
      <3>3. CASE Delta(p) > 0 /\ ExitBooking(a, pass[p].row, Delta(p))
        BY <2>2, <3>3, ExitKeeps DEF PInv, Writes
      <3> QED BY <1>5, <2>2, <3>1, <3>2, <3>3 DEF Book
    <2>4. \A b \in Attempts : b # a /\ Held(b) => Held(b)'
      BY <1>5, <2>3, LotStays DEF Held, Next
    <2>5. \A q \in Workers : pass'[q].at # "idle" => pass[q].at # "idle" /\ pass'[q].a = pass[q].a
      BY <1>5, <2>2 DEF Book, PInv, PassesOK, Idle
    <2>6. \A q \in Workers : pass[q].at # "idle" => pass[q].a \in Attempts
      BY PassCarries DEF PInv
    <2> QED BY <2>1, <2>3, <2>4, <2>5, <2>6 DEF HeldOK
  <1>6. ASSUME NEW p \in Workers, TrueUp(p) PROVE HeldOK'
    <2> PICK a \in Attempts : a = pass[p].a
      BY <1>6, PassCarries DEF PInv, TrueUp
    <2>1. a \in Attempts /\ attempt[a] \in RowSet /\ pass[p].at # "idle"
      BY <1>6, PassCarries DEF TrueUp, PInv
    <2>2. attempt' = attempt \/ attempt' = [attempt EXCEPT ![a] = [attempt[a] EXCEPT !.final = TRUE]]
      BY <1>6 DEF TrueUp
    <2>3. \A b \in Attempts : b # a => attempt'[b] = attempt[b]
      BY <2>2 DEF PInv, AttemptsOK
    <2>4. attempt'[a].booked = attempt[a].booked /\ attempt'[a].dir = attempt[a].dir
      BY <2>1, <2>2 DEF PInv, AttemptsOK, RowSet
    <2>5. bet' = bet /\ Held(a)
      BY <1>6, <2>1 DEF TrueUp, HeldOK
    <2>6. pass' = [pass EXCEPT ![p] = Idle]
      BY <1>6 DEF TrueUp
    <2>7. \A b \in Attempts : Held(b) => Held(b)'
      BY <2>3, <2>4, <2>5 DEF Held
    <2>8. \A q \in Workers : pass'[q].at # "idle" => pass[q].at # "idle" /\ pass'[q].a = pass[q].a
      BY <2>6 DEF PInv, PassesOK, Idle
    <2>9. \A q \in Workers : pass[q].at # "idle" => pass[q].a \in Attempts
      BY PassCarries DEF PInv
    <2> QED BY <2>3, <2>4, <2>5, <2>7, <2>8, <2>9 DEF HeldOK
  <1>7. ASSUME NEW p \in Workers, PassDies(p) PROVE HeldOK'
    BY <1>7 DEF PassDies, HeldOK, Held, PInv, PassesOK, Idle
  <1>8. ASSUME Consume PROVE HeldOK'
    BY <1>8, LotStays DEF Consume, HeldOK, Held, Next
  <1>9. ASSUME \/ \E a \in Attempts : Match(a) \/ Index(a)
               \/ \E side \in Sides : Redeem(side)
               \/ Resolve \/ Scan \/ Plan \/ SettleDies \/ UNCHANGED vars
        PROVE  HeldOK'
    BY <1>9 DEF Match, Index, Redeem, Resolve, Scan, Plan, SettleDies, vars, HeldOK, Held
  <1> QED
    BY <1>1, <1>2, <1>3, <1>4, <1>5, <1>6, <1>7, <1>8, <1>9 DEF Next

-----------------------------------------------------------------------------
(* The money columns.                                                      *)

LEMMA MoneyStart == MoneyInit => MInv
  <1> SUFFICES ASSUME MoneyInit PROVE MInv
    OBVIOUS
  <1>1. Init /\ PInv
    BY InitInv DEF MoneyInit
  <1>2. HeldOK
    BY <1>1 DEF Init, Idle, HeldOK
  <1>3. ColumnsOK
    BY DEF MoneyInit, ColumnsOK, FillSet, BookSet
  <1>4. ObservedOK
    BY DEF MoneyInit, ObservedOK, NothingSeen, SeenSet
  <1> QED BY <1>1, <1>2, <1>3, <1>4 DEF MInv

\* A booking adds to the columns, in proportion where a sale exceeds the position.
LEMMA BookColumns ==
    ASSUME MInv, NEW p \in Workers, BookMoney(p)
    PROVE  ColumnsOK'
  <1>1. /\ AmountDelta(p) \in Nat /\ FeeDelta(p) \in Nat /\ Delta(p) \in Int
        /\ pass[p].a \in Attempts
    <2>1. pass[p].at = "book"
      BY DEF BookMoney, Book
    <2> QED BY <2>1, DeltasAreNat
  <1>2. \/ UNCHANGED <<fills, books>>
        \/ /\ Delta(p) > 0 /\ FillWritten(p)
           /\ \/ books' = books
              \/ books' = EntryMoney(p)
              \/ Remainder(bet) # 0 /\ books' = ExitMoney(p)
    BY <1>1 DEF BookMoney
  <1>3. ColumnsOK /\ BetOK
    BY DEF MInv, PInv
  <1>4. CASE UNCHANGED <<fills, books>>
    BY <1>3, <1>4 DEF ColumnsOK
  <1>5. CASE Delta(p) > 0 /\ FillWritten(p)
    <2>1. fills' \in [Attempts -> FillSet]
      BY <1>1, <1>3, <1>5 DEF FillWritten, ColumnsOK, FillSet
    <2>2. CASE books' = books
      BY <1>3, <2>1, <2>2 DEF ColumnsOK
    <2>3. CASE books' = EntryMoney(p)
      <3>1. /\ books \in BookSet /\ books.realized \in Int
            /\ books.spend + AmountDelta(p) \in Nat /\ books.fee + FeeDelta(p) \in Nat
        BY <1>1, <1>3 DEF ColumnsOK, BookSet
      <3>2. CASE books' = [spend |-> AmountDelta(p), fee |-> FeeDelta(p), proceeds |-> 0,
                           closeFee |-> 0, realized |-> books.realized]
        BY <1>1, <2>1, <3>1, <3>2 DEF ColumnsOK, BookSet
      <3>3. CASE books' = [books EXCEPT !.spend = books.spend + AmountDelta(p),
                                        !.fee = books.fee + FeeDelta(p)]
        BY <2>1, <3>1, <3>3, BooksWritten DEF ColumnsOK
      <3> QED BY <2>3, <3>2, <3>3 DEF EntryMoney
    <2>4. CASE Remainder(bet) # 0 /\ books' = ExitMoney(p)
      <3> DEFINE sold     == Smaller(Delta(p), Remainder(bet))
                 proceeds == (AmountDelta(p) * sold) \div Delta(p)
                 closeFee == (FeeDelta(p) * sold) \div Delta(p)
                 basis    == CostBasis(Closing(Delta(p)))
      <3>1. sold \in Nat /\ Delta(p) \in Nat
        BY <1>1, <1>3, <1>5, RemainderIsNat DEF Smaller
      <3>2. proceeds \in Nat /\ closeFee \in Nat
        BY <1>1, <1>5, <3>1, Proportion
      <3>3. basis \in Nat
        <4>1. bet \in BetSet /\ bet.filled > 0
          BY <1>3, <2>4 DEF BetOK, BetSet, Remainder
        <4>2. bet.filled \in Nat /\ books.spend + books.fee \in Nat
          BY <1>3, <4>1 DEF BetSet, ColumnsOK, BookSet
        <4>3. Closing(Delta(p)) \in Nat
          BY <1>1, <1>3, <1>5, ClosingFits
        <4> QED BY <4>1, <4>2, <4>3, Proportion DEF CostBasis
      <3>4. books' = [books EXCEPT !.proceeds = books.proceeds + proceeds,
                                   !.closeFee = books.closeFee + closeFee,
                                   !.realized = books.realized + proceeds - closeFee - basis]
        BY <2>4 DEF ExitMoney
      <3> HIDE DEF proceeds, closeFee, basis
      <3>5. /\ books \in BookSet
            /\ books.proceeds + proceeds \in Nat /\ books.closeFee + closeFee \in Nat
            /\ books.realized + proceeds - closeFee - basis \in Int
        BY <1>3, <3>2, <3>3 DEF ColumnsOK, BookSet
      <3>6. books' \in BookSet
        BY <3>4, <3>5, BooksWritten
      <3> QED BY <2>1, <3>6 DEF ColumnsOK
    <2> QED BY <1>2, <1>3, <1>5, <2>1, <2>2, <2>3, <2>4 DEF ColumnsOK
  <1> QED BY <1>2, <1>4, <1>5

\* A correction goes down no further than what both the fills and the row hold.
LEMMA FloorHolds ==
    ASSUME NEW a, NEW fee \in Nat, NEW held \in Nat, fills[a].fee \in Nat
    PROVE  /\ Applied(a, fee, held) \in Int
           /\ fills[a].fee + Applied(a, fee, held) \in Nat
           /\ held + Applied(a, fee, held) \in Nat
  BY DEF Applied, Smaller

\* trueUpAttemptFee clamps its delta for both before it writes either.
LEMMA TrueUpColumns ==
    ASSUME MInv, NEW p \in Workers, TrueUpMoney(p)
    PROVE  ColumnsOK'
  <1> DEFINE a       == pass[p].a
             dir     == attempt[a].dir
             held    == IF dir = "EXIT" THEN books.closeFee ELSE books.fee
             applied == Applied(a, seen[p].fee, held)
  <1>1. a \in Attempts /\ attempt[a] \in RowSet /\ Held(a)
    BY PassCarries DEF MInv, PInv, HeldOK, TrueUpMoney, TrueUp
  <1>2. ColumnsOK /\ BetOK
    BY DEF MInv, PInv
  <1>3. fills[a].fee \in Nat /\ held \in Nat /\ seen[p].fee \in Nat
    BY <1>1, <1>2 DEF MInv, ColumnsOK, FillSet, BookSet, ObservedOK, SeenSet
  <1>4. applied \in Int /\ fills[a].fee + applied \in Nat /\ held + applied \in Nat
    BY <1>3, FloorHolds
  <1>5. \/ UNCHANGED <<fills, books>>
        \/ /\ attempt[a].booked > 0
           /\ fills' = [fills EXCEPT ![a].fee = @ + applied]
           /\ books' = books \/ books' = Repriced(dir, applied)
    BY DEF TrueUpMoney
  <1> HIDE DEF applied
  <1>6. CASE UNCHANGED <<fills, books>>
    BY <1>2, <1>6 DEF ColumnsOK
  <1>7. CASE /\ attempt[a].booked > 0
             /\ fills' = [fills EXCEPT ![a].fee = @ + applied]
             /\ books' = books \/ books' = Repriced(dir, applied)
    <2>1. fills' \in [Attempts -> FillSet]
      BY <1>1, <1>2, <1>4, <1>7 DEF ColumnsOK, FillSet
    <2>2. bet \in BetSet /\ bet.filled > 0
      BY <1>1, <1>2, <1>7 DEF Held, BetOK, BetSet
    <2>3. CASE books' = books
      BY <1>2, <2>1, <2>3 DEF ColumnsOK
    <2>4. CASE books' = Repriced(dir, applied) /\ dir = "EXIT"
      <3>1. books' = [books EXCEPT !.closeFee = books.closeFee + applied,
                                   !.realized = books.realized - applied]
        BY <2>4 DEF Repriced
      <3>2. /\ books \in BookSet /\ books.closeFee + applied \in Nat
            /\ books.realized - applied \in Int
        BY <1>2, <1>4, <2>4 DEF ColumnsOK, BookSet
      <3>3. books' \in BookSet
        BY <3>1, <3>2, BooksWritten
      <3> QED BY <2>1, <3>3 DEF ColumnsOK
    <2>5. CASE books' = Repriced(dir, applied) /\ dir # "EXIT"
      <3> DEFINE q == Quotient(applied * bet.closed, bet.filled)
      <3>1. applied * bet.closed \in Int /\ bet.filled \in Nat
        BY <1>4, <2>2 DEF BetSet
      <3>2. q \in Int
        BY <2>2, <3>1, QuotientIsInt
      <3>3. books' = [books EXCEPT !.fee = books.fee + applied, !.realized = books.realized - q]
        BY <2>5 DEF Repriced
      <3>4. books.fee + applied \in Nat
        BY <1>4, <2>5
      <3> HIDE DEF q
      <3>5. books \in BookSet /\ books.realized - q \in Int
        BY <1>2, <3>2 DEF ColumnsOK, BookSet
      <3>6. books' \in BookSet
        BY <3>3, <3>4, <3>5, BooksWritten
      <3> QED BY <2>1, <3>6 DEF ColumnsOK
    <2> QED BY <1>7, <2>3, <2>4, <2>5
  <1> QED BY <1>5, <1>6, <1>7

\* The settlement adds a payout and takes the basis from the profit.
LEMMA ConsumeColumns ==
    ASSUME MInv, ConsumeMoney
    PROVE  ColumnsOK'
  <1> DEFINE rem      == Remainder(bet)
             proceeds == IF settle.won THEN Payout(rem) ELSE 0
  <1>1. ColumnsOK /\ BetOK /\ rem \in Nat
    BY RemainderIsNat DEF MInv, PInv
  <1>2. CASE rem > 0
    <2>1. proceeds \in Nat
      <3>1. rem * Dollar \in Nat
        BY <1>1, MoneyAssumption
      <3> QED BY <3>1 DEF Payout
    <2>2. CostBasis(rem) \in Nat
      <3>1. bet \in BetSet /\ bet.filled > 0
        BY <1>1, <1>2 DEF BetOK, BetSet, Remainder
      <3>2. bet.filled \in Nat /\ books.spend + books.fee \in Nat
        BY <1>1, <3>1 DEF BetSet, ColumnsOK, BookSet
      <3> QED BY <1>1, <3>1, <3>2, Proportion DEF CostBasis
    <2>3. /\ fills' = fills
          /\ books' = [books EXCEPT !.proceeds = books.proceeds + proceeds,
                                    !.realized = books.realized + proceeds - CostBasis(rem)]
      BY <1>2 DEF ConsumeMoney
    <2> HIDE DEF proceeds, rem
    <2>4. /\ books \in BookSet /\ books.proceeds + proceeds \in Nat
          /\ books.realized + proceeds - CostBasis(rem) \in Int
      BY <1>1, <2>1, <2>2 DEF ColumnsOK, BookSet
    <2>5. books' \in BookSet
      BY <2>3, <2>4, BooksWritten
    <2> QED BY <1>1, <2>3, <2>5 DEF ColumnsOK
  <1>3. CASE ~(rem > 0)
    BY <1>1, <1>3 DEF ConsumeMoney, ColumnsOK
  <1> QED BY <1>2, <1>3

LEMMA MoneyNextInv == MInv /\ [MoneyNext]_<<vars, money>> => MInv'
  <1> SUFFICES ASSUME MInv, [MoneyNext]_<<vars, money>> PROVE MInv'
    OBVIOUS
  <1>1. [Next]_vars
    BY MoneyStep
  <1>2. PInv' /\ HeldOK'
    BY <1>1, NextInv, HeldInv DEF MInv
  <1>3. ColumnsOK /\ ObservedOK
    BY DEF MInv
  <1>4. ASSUME UNCHANGED money PROVE (ColumnsOK /\ ObservedOK)'
    BY <1>3, <1>4 DEF money, ColumnsOK, ObservedOK, SeenSet
  <1>5. ASSUME NEW a \in Attempts, MatchAt(a) PROVE (ColumnsOK /\ ObservedOK)'
    BY <1>3, <1>5, MoneyAssumption DEF MatchAt, ColumnsOK, ObservedOK
  <1>6. ASSUME NEW p \in Workers, NEW a \in Attempts, ReadAs(p, a) PROVE (ColumnsOK /\ ObservedOK)'
    <2>1. attempt[a].lot \in {None} \cup Nat
      BY <1>6 DEF ReadAs, Read, MInv, PInv, AttemptsOK, RowSet
    <2>2. PICK receipt \in BOOLEAN :
            seen' = [seen EXCEPT ![p] = [receipt |-> receipt, fee |-> 0, lot |-> attempt[a].lot]]
      BY <1>6 DEF ReadAs
    <2>3. seen' \in [Workers -> SeenSet]
      BY <1>3, <2>1, <2>2 DEF ObservedOK, SeenSet
    <2> QED BY <1>3, <1>6, <2>3 DEF ReadAs, ColumnsOK, ObservedOK
  <1>7. ASSUME NEW p \in Workers, ProbeFee(p) PROVE (ColumnsOK /\ ObservedOK)'
    <2>1. pass[p].a \in Attempts
      BY <1>7, PassCarries DEF ProbeFee, Probe, MInv, PInv
    <2>2. pass'[p].total \in Nat
      <3>1. pass'[p].total = indexed[pass[p].a]
        BY <1>7 DEF ProbeFee, Probe, MInv, PInv, PassesOK
      <3> QED BY <2>1, <3>1 DEF MInv, PInv, AttemptsOK
    <2>3. PICK fee : /\ seen' = [seen EXCEPT ![p].fee = fee]
                     /\ \/ \E e \in FeeErrors : fee = NonNegative(FeeRate * pass'[p].total + e)
                        \/ fee = FeeRate * pass'[p].total
      BY <1>7 DEF ProbeFee
    <2>4. FeeRate * pass'[p].total \in Nat
      BY <2>2, MoneyAssumption
    <2>5. fee \in Nat
      BY <2>3, <2>4, MoneyAssumption DEF NonNegative
    <2>6. seen' \in [Workers -> SeenSet]
      BY <1>3, <2>3, <2>5 DEF ObservedOK, SeenSet
    <2> QED BY <1>3, <1>7, <2>6 DEF ProbeFee, ColumnsOK, ObservedOK
  <1>8. ASSUME NEW p \in Workers, BookMoney(p) PROVE (ColumnsOK /\ ObservedOK)'
    BY <1>3, <1>8, BookColumns DEF BookMoney, ObservedOK
  <1>9. ASSUME NEW p \in Workers, TrueUpMoney(p) PROVE (ColumnsOK /\ ObservedOK)'
    BY <1>3, <1>9, TrueUpColumns DEF TrueUpMoney, ObservedOK, NothingSeen, SeenSet
  <1>10. ASSUME NEW p \in Workers, EndPass(p) PROVE (ColumnsOK /\ ObservedOK)'
    BY <1>3, <1>10 DEF EndPass, ColumnsOK, ObservedOK, NothingSeen, SeenSet
  <1>11. ASSUME ConsumeMoney PROVE (ColumnsOK /\ ObservedOK)'
    BY <1>3, <1>11, ConsumeColumns DEF ConsumeMoney, ObservedOK
  <1>12. (ColumnsOK /\ ObservedOK)'
    BY <1>4, <1>5, <1>6, <1>7, <1>8, <1>9, <1>10, <1>11 DEF MoneyNext, vars, money
  <1> QED BY <1>2, <1>12 DEF MInv

\* No amount, fee or proceeds that the database constrains becomes negative, so no
\* booking or correction is refused by bets_real_fields_nonneg, or by fills_sane for a sign.
THEOREM MoneyColumns == MoneySpec => []ColumnsOK
  <1>1. MInv => ColumnsOK
    BY DEF MInv
  <1> QED BY <1>1, MoneyStart, MoneyNextInv, PTL DEF MoneySpec

\* With the money in it, rows, totals, lots and payments stay in the range the finite instance
\* gives them: the type invariant that the run of the racing passes checks.
THEOREM MoneyTypes == MoneySpec => []TypeOK
  BY MoneyKeepsShares, Types, PTL

-----------------------------------------------------------------------------
(* Arithmetic of the basis.                                                *)

\* The cost k taken off is that of c of f shares that cost t in all, up to one for each of those c
\* shares, and x more.
Near(k, t, c, f, x) == /\ k * f - t * c <= (c + x) * f
                       /\ t * c - k * f <= (c + x) * f

\* Division rounds down by less than one.
LEMMA Division ==
    ASSUME NEW z \in Nat, NEW f \in Nat \ {0}
    PROVE  /\ z \div f \in Nat
           /\ (z \div f) * f <= z /\ z < (z \div f) * f + f
  <1> DEFINE q == z \div f
  <1>1. q \in Nat /\ f * q <= z /\ z < f * (q + 1) OBVIOUS
  <1> HIDE DEF q
  <1>2. f * (q + 1) = f * q + f /\ f * q = q * f BY <1>1
  <1>3. q * f \in Int BY <1>1
  <1>4. q * f <= z /\ z < q * f + f BY <1>1, <1>2, <1>3
  <1> QED BY <1>1, <1>4 DEF q

\* Rounding towards zero, by less than one.
LEMMA QuotientRounds ==
    ASSUME NEW z \in Int, NEW f \in Nat \ {0}
    PROVE  /\ Quotient(z, f) \in Int
           /\ Quotient(z, f) * f - z <= f /\ z - Quotient(z, f) * f <= f
           /\ z = 0 => Quotient(z, f) = 0
  <1>1. CASE z < 0
    <2>1. -z \in Nat BY <1>1
    <2> DEFINE q == (-z) \div f
    <2>2. q \in Nat /\ q * f <= -z /\ -z < q * f + f BY <2>1, Division
    <2> HIDE DEF q
    <2>3. Quotient(z, f) = -q BY <1>1 DEF Quotient, q
    <2>4. (-q) * f = -(q * f) /\ q * f \in Int BY <2>2
    <2> QED BY <1>1, <2>2, <2>3, <2>4
  <1>2. CASE ~(z < 0)
    <2>1. z \in Nat BY <1>2
    <2> DEFINE q == z \div f
    <2>2. q \in Nat /\ q * f <= z /\ z < q * f + f BY <2>1, Division
    <2> HIDE DEF q
    <2>3. Quotient(z, f) = q BY <1>2 DEF Quotient, q
    <2>4. q * f \in Int BY <2>2
    <2>5. z = 0 => q = 0
      <3>1. q >= 1 => q * f >= f BY <2>2
      <3> QED BY <2>2, <2>4, <3>1
    <2> QED BY <2>2, <2>3, <2>4, <2>5
  <1> QED BY <1>1, <1>2

\* A sale of n shares takes off their cost.
LEMMA NearSold ==
    ASSUME NEW k \in Int, NEW t \in Nat, NEW c \in Nat, NEW f \in Nat \ {0}, NEW x \in Nat,
           NEW n \in Nat, n >= 1, Near(k, t, c, f, x)
    PROVE  Near(k + ((t * n) \div f), t, c + n, f, x)
  <1>0. t * n \in Nat /\ t * c \in Int /\ k * f \in Int OBVIOUS
  <1> PICK q : q = (t * n) \div f OBVIOUS
  <1>1. q \in Nat /\ q * f <= t * n /\ t * n < q * f + f BY <1>0, Division
  <1>2. (k + q) * f = k * f + q * f /\ q * f \in Int BY <1>1
  <1>3. t * (c + n) = t * c + t * n OBVIOUS
  <1>4. (c + n + x) * f = (c + x) * f + n * f /\ (c + x) * f \in Int /\ n * f \in Int OBVIOUS
  <1>5. n * f >= f
    <2>1. n * f = (n - 1) * f + f OBVIOUS
    <2>2. (n - 1) * f >= 0 OBVIOUS
    <2> QED BY <1>4, <2>1, <2>2
  <1>6. (c + n) + x = c + n + x OBVIOUS
  <1> QED BY <1>0, <1>1, <1>2, <1>3, <1>4, <1>5, <1>6 DEF Near

\* A correction of the cost is charged to the shares that are gone.
LEMMA NearCorrected ==
    ASSUME NEW k \in Int, NEW t \in Nat, NEW c \in Nat, NEW f \in Nat \ {0}, NEW d \in Int,
           Near(k, t, c, f, 0)
    PROVE  Near(k + Quotient(d * c, f), t + d, c, f, 1)
  <1>0. d * c \in Int /\ t * c \in Int /\ k * f \in Int /\ c * f \in Int OBVIOUS
  <1> PICK q : q = Quotient(d * c, f) OBVIOUS
  <1>1. q \in Int /\ q * f - d * c <= f /\ d * c - q * f <= f BY <1>0, QuotientRounds
  <1>2. (k + q) * f = k * f + q * f /\ q * f \in Int BY <1>1
  <1>3. (t + d) * c = t * c + d * c OBVIOUS
  <1>4. (c + 1) * f = c * f + f /\ (c + 0) * f = c * f OBVIOUS
  <1> QED BY <1>0, <1>1, <1>2, <1>3, <1>4 DEF Near

\* A product is no less than another with the same positive factor if the other factors are not.
LEMMA Cancel ==
    ASSUME NEW m \in Int, NEW n \in Int, NEW f \in Nat \ {0}, m * f <= n * f
    PROVE  m <= n
  <1> SUFFICES ASSUME m >= n + 1 PROVE FALSE OBVIOUS
  <1>1. m * f = (n + 1) * f + (m - n - 1) * f OBVIOUS
  <1>2. (m - n - 1) * f >= 0 OBVIOUS
  <1>3. (n + 1) * f = n * f + f OBVIOUS
  <1>4. m * f \in Int /\ n * f \in Int /\ (m - n - 1) * f \in Int OBVIOUS
  <1> QED BY <1>1, <1>2, <1>3, <1>4

\* A product is no greater than another with the same factor if the other factors are not.
LEMMA Scale ==
    ASSUME NEW m \in Int, NEW n \in Int, NEW f \in Nat, m <= n
    PROVE  m * f <= n * f
  <1>1. n * f = m * f + (n - m) * f OBVIOUS
  <1>2. (n - m) * f >= 0 OBVIOUS
  <1>3. m * f \in Int /\ n * f \in Int /\ (n - m) * f \in Int OBVIOUS
  <1> QED BY <1>1, <1>2, <1>3

\* Shares of the same cost each leave the distance as it is.
LEMMA NearGrown ==
    ASSUME NEW k \in Int, NEW u \in Nat, NEW c \in Nat, NEW f \in Nat \ {0}, NEW g \in Nat \ {0},
           NEW x \in Nat, Near(k, u * f, c, f, x)
    PROVE  Near(k, u * g, c, g, x)
  <1>1. (u * f) * c = (u * c) * f /\ (u * g) * c = (u * c) * g OBVIOUS
  <1> PICK w \in Int : w = u * c OBVIOUS
  <1>2. /\ (k - w) * f = k * f - w * f /\ (w - k) * f = w * f - k * f
        /\ (k - w) * g = k * g - w * g /\ (w - k) * g = w * g - k * g
    OBVIOUS
  <1>3. (k - w) * f <= (c + x) * f /\ (w - k) * f <= (c + x) * f BY <1>1, <1>2 DEF Near
  <1>4. k - w <= c + x /\ w - k <= c + x
    <2>1. k - w \in Int /\ w - k \in Int /\ c + x \in Int OBVIOUS
    <2> QED BY <1>3, <2>1, Cancel
  <1>5. (k - w) * g <= (c + x) * g /\ (w - k) * g <= (c + x) * g
    <2>1. k - w \in Int /\ w - k \in Int /\ c + x \in Int /\ g \in Nat OBVIOUS
    <2> QED BY <1>4, <2>1, Scale
  <1> QED BY <1>1, <1>2, <1>5 DEF Near

\* When all shares are gone, the whole cost is taken off.
LEMMA NearClosed ==
    ASSUME NEW k \in Int, NEW t \in Nat, NEW f \in Nat \ {0}, NEW x \in Nat, Near(k, t, f, f, x)
    PROVE  k - t <= f + x /\ t - k <= f + x
  <1>1. (k - t) * f = k * f - t * f /\ (t - k) * f = t * f - k * f OBVIOUS
  <1>2. (k - t) * f <= (f + x) * f /\ (t - k) * f <= (f + x) * f BY <1>1 DEF Near
  <1>3. k - t \in Int /\ t - k \in Int /\ f + x \in Int OBVIOUS
  <1> QED BY <1>2, <1>3, Cancel
-----------------------------------------------------------------------------
(* What the attempts hold, and what the row of the position says of it.    *)

Dirs == {"ENTRY", "EXIT"}
Of(a, dir) == attempt[a] # None /\ attempt[a].dir = dir

\* What one attempt has booked: shares, the fee of its fills, and what they cost or brought.
SharesOf(a, dir) == IF Of(a, dir) THEN attempt[a].booked ELSE 0
FeeOf(a, dir)    == IF Of(a, dir) THEN fills[a].fee ELSE 0
ValueOf(a, dir)  == IF ~Of(a, dir) THEN 0
                    ELSE IF dir = "ENTRY" THEN fills[a].amount + fills[a].fee
                    ELSE fills[a].amount - fills[a].fee

Shares(dir) == SumFunction([a \in Attempts |-> SharesOf(a, dir)])
FeesOf(dir) == SumFunction([a \in Attempts |-> FeeOf(a, dir)])
Value(dir)  == SumFunction([a \in Attempts |-> ValueOf(a, dir)])

\* The basis taken off the profit so far: what sales and the settlement brought, less the profit.
Charged == Value("EXIT") + Payout(paid) - books.realized

\* A position in its first lot that took every fill of its entries, and whose sales were all closed.
InLotOne == bet # None /\ bet.seq = 0 /\ bet.filled = Shares("ENTRY")
Clean    == InLotOne /\ Shares("EXIT") <= bet.closed

\* Fills are priced at what their order traded at, and none is without shares.
FillsFit == \A a \in Attempts :
    /\ fills[a].amount = IF attempt[a] = None THEN 0 ELSE price[a] * attempt[a].booked
    /\ attempt[a] = None \/ attempt[a].booked = 0 => fills[a].fee = 0

\* What a pass remembers: a lot that was, and the fee of its total.
SeenOK(p) ==
    pass[p].at # "idle" =>
        /\ seen[p].lot # None => bet # None /\ seen[p].lot <= bet.seq
        /\ pass[p].at \in {"book", "fees"} /\ ~seen[p].receipt => seen[p].fee = FeeRate * pass[p].total

\* A terminal total is all that matched, and after its booking nothing of it is lacking.
TotalOK(p) ==
    /\ pass[p].at \in {"book", "fees"} /\ pass[p].terminal => pass[p].total = matched[pass[p].a]
    /\ pass[p].at = "fees" /\ (pass[p].terminal \/ attempt[pass[p].a].dir = "ENTRY")
         => pass[p].total <= attempt[pass[p].a].booked

\* An attempt is final once all that its order matched is booked.
FinalOK == \A a \in Attempts :
    attempt[a] # None /\ attempt[a].final => attempt[a].booked = matched[a] /\ attempt[a].booked > 0

\* Before the first fill no order that was reconciled has matched,
Unmatched == bet = None =>
    \A a \in Attempts : attempt[a] # None /\ attempt[a].state # "LIVE" => matched[a] = 0

\* and nothing is earned.
NothingYet == bet = None => books.realized = 0

\* Only one entry has matched before the first lot falls below a tick.
OneEntry == bet = None \/ (bet.seq = 0 /\ Remainder(bet) >= Tick) =>
    \A a, b \in Attempts : Of(a, "ENTRY") /\ Of(b, "ENTRY") /\ matched[a] # 0 /\ matched[b] # 0 => a = b

\* So the lot is of one entry,
OneFills == InLotOne =>
    \A a, b \in Attempts : SharesOf(a, "ENTRY") > 0 /\ SharesOf(b, "ENTRY") > 0 => a = b

\* and what is closed of it before it is closed was sold.
SalesClose == InLotOne /\ Remainder(bet) > 0 => Shares("EXIT") = bet.closed

\* A sale took the tokens that an entry bought.
SoldOf(a, s)  == IF a \in Sales(s) THEN matched[a] ELSE 0
SoldShares(s) == SumFunction([a \in Attempts |-> SoldOf(a, s)])
Conserved == \A s \in Sides : wallet[s] + burned[s] + SoldShares(s) <= BoughtShares(s)

\* The row of a clean lot says what its attempts hold, and a reconciled attempt the charged fee.
ColumnsFit == Clean =>
    /\ books.spend + books.fee = Value("ENTRY")
    /\ books.fee = FeesOf("ENTRY") /\ books.closeFee = FeesOf("EXIT")
    /\ \A a \in Attempts : attempt[a] # None /\ attempt[a].final => fills[a].fee = FeeRate * attempt[a].booked

\* Its basis is charged in proportion to what is closed, to one micro-dollar for each closed share
\* and one for the correction of the fee.
Exact == IF books.fee = FeeRate * bet.filled THEN 1 ELSE 0
BasisCharged == Clean /\ ~diluted =>
    /\ Near(Charged, books.spend + books.fee, bet.closed, bet.filled, Exact)
    /\ bet.closed = 0 => Charged = 0

\* Types and shares, and what the attempts know, without the totals of the money.
Ground  == MInv /\ AllInv
LotInv  == /\ FinalOK /\ (\A p \in Workers : TotalOK(p)) /\ Unmatched
           /\ OneEntry /\ OneFills /\ SalesClose /\ Conserved
CashInv == /\ Ground /\ LotInv
           /\ FillsFit /\ (\A p \in Workers : SeenOK(p)) /\ NothingYet
           /\ ColumnsFit /\ BasisCharged
-----------------------------------------------------------------------------
(* The totals of the ledger.                                               *)

\* What an attempt adds to the totals.
LedgerFits == \A b \in Attempts : \A dir \in Dirs :
    SharesOf(b, dir) \in Nat /\ FeeOf(b, dir) \in Nat /\ ValueOf(b, dir) \in Int

\* Shares and fees of an attempt are natural numbers, its value is an integer,
LEMMA LedgerNow == MInv => LedgerFits
  <1> SUFFICES ASSUME MInv, NEW b \in Attempts, NEW dir \in Dirs
               PROVE  SharesOf(b, dir) \in Nat /\ FeeOf(b, dir) \in Nat /\ ValueOf(b, dir) \in Int
    BY DEF LedgerFits
  <1>1. attempt[b] # None => attempt[b].booked \in Nat BY RowShape DEF MInv
  <1>2. fills[b].amount \in Nat /\ fills[b].fee \in Nat BY DEF MInv, ColumnsOK, FillSet
  <1> QED BY <1>1, <1>2 DEF SharesOf, FeeOf, ValueOf, Of

\* before a step and after it.
LEMMA LedgerNext == MInv' => LedgerFits'
  BY LedgerNow, PTL

\* What attempt b adds to the totals stays.
SameLedger(b) == \A dir \in Dirs : /\ SharesOf(b, dir)' = SharesOf(b, dir)
                                   /\ FeeOf(b, dir)' = FeeOf(b, dir)
                                   /\ ValueOf(b, dir)' = ValueOf(b, dir)

\* No total moves.
LedgerStill == \A dir \in Dirs : /\ Shares(dir)' = Shares(dir)
                                 /\ FeesOf(dir)' = FeesOf(dir)
                                 /\ Value(dir)' = Value(dir)

\* When no attempt changes what it adds, no total moves.
LEMMA LedgerStands ==
    ASSUME \A b \in Attempts : SameLedger(b)
    PROVE  LedgerStill
  <1> SUFFICES ASSUME NEW dir \in Dirs
               PROVE  /\ Shares(dir)' = Shares(dir) /\ FeesOf(dir)' = FeesOf(dir)
                      /\ Value(dir)' = Value(dir)
    BY DEF LedgerStill
  <1> DEFINE f == [b \in Attempts |-> SharesOf(b, dir)]
             F == [b \in Attempts |-> SharesOf(b, dir)']
             g == [b \in Attempts |-> FeeOf(b, dir)]
             G == [b \in Attempts |-> FeeOf(b, dir)']
             h == [b \in Attempts |-> ValueOf(b, dir)]
             H == [b \in Attempts |-> ValueOf(b, dir)']
  <1>1. f = F /\ g = G /\ h = H
    BY DEF SameLedger
  <1>2. /\ Shares(dir) = SumFunction(f) /\ Shares(dir)' = SumFunction(F)
        /\ FeesOf(dir) = SumFunction(g) /\ FeesOf(dir)' = SumFunction(G)
        /\ Value(dir) = SumFunction(h) /\ Value(dir)' = SumFunction(H)
    BY DEF Shares, FeesOf, Value
  <1> HIDE DEF f, F, g, G, h, H
  <1> QED BY <1>1, <1>2

\* When one attempt changes, each total moves by what that attempt adds to it.
LEMMA LedgerMoves ==
    ASSUME MInv, MInv', NEW a \in Attempts, \A b \in Attempts \ {a} : SameLedger(b), NEW dir \in Dirs
    PROVE  /\ Shares(dir)' = Shares(dir) + SharesOf(a, dir)' - SharesOf(a, dir)
           /\ FeesOf(dir)' = FeesOf(dir) + FeeOf(a, dir)' - FeeOf(a, dir)
           /\ Value(dir)' = Value(dir) + ValueOf(a, dir)' - ValueOf(a, dir)
  <1>0. IsFiniteSet(Attempts) BY AttemptsAssumption
  <1>1. LedgerFits /\ LedgerFits' BY LedgerNow, LedgerNext
  <1> DEFINE f == [b \in Attempts |-> SharesOf(b, dir)]
             F == [b \in Attempts |-> SharesOf(b, dir)']
             g == [b \in Attempts |-> FeeOf(b, dir)]
             G == [b \in Attempts |-> FeeOf(b, dir)']
             h == [b \in Attempts |-> ValueOf(b, dir)]
             H == [b \in Attempts |-> ValueOf(b, dir)']
  <1>2. /\ f \in [Attempts -> Int] /\ F \in [Attempts -> Int]
        /\ g \in [Attempts -> Int] /\ G \in [Attempts -> Int]
        /\ h \in [Attempts -> Int] /\ H \in [Attempts -> Int]
    BY <1>1 DEF LedgerFits
  <1>3. /\ \A b \in Attempts \ {a} : F[b] = f[b]
        /\ \A b \in Attempts \ {a} : G[b] = g[b]
        /\ \A b \in Attempts \ {a} : H[b] = h[b]
    BY DEF SameLedger
  <1>4. /\ f[a] = SharesOf(a, dir) /\ F[a] = SharesOf(a, dir)'
        /\ g[a] = FeeOf(a, dir) /\ G[a] = FeeOf(a, dir)'
        /\ h[a] = ValueOf(a, dir) /\ H[a] = ValueOf(a, dir)'
    OBVIOUS
  <1>5. /\ Shares(dir) = SumFunction(f) /\ Shares(dir)' = SumFunction(F)
        /\ FeesOf(dir) = SumFunction(g) /\ FeesOf(dir)' = SumFunction(G)
        /\ Value(dir) = SumFunction(h) /\ Value(dir)' = SumFunction(H)
    BY DEF Shares, FeesOf, Value
  <1> HIDE DEF f, F, g, G, h, H
  <1>6. SumFunction(F) = SumFunction(f) + F[a] - f[a]
    <2>1. f \in [Attempts -> Int] /\ F \in [Attempts -> Int] BY <1>2
    <2>2. \A b \in Attempts \ {a} : F[b] = f[b] BY <1>3
    <2> QED BY <1>0, <2>1, <2>2, SumChange
  <1>7. SumFunction(G) = SumFunction(g) + G[a] - g[a]
    <2>1. g \in [Attempts -> Int] /\ G \in [Attempts -> Int] BY <1>2
    <2>2. \A b \in Attempts \ {a} : G[b] = g[b] BY <1>3
    <2> QED BY <1>0, <2>1, <2>2, SumChange
  <1>8. SumFunction(H) = SumFunction(h) + H[a] - h[a]
    <2>1. h \in [Attempts -> Int] /\ H \in [Attempts -> Int] BY <1>2
    <2>2. \A b \in Attempts \ {a} : H[b] = h[b] BY <1>3
    <2> QED BY <1>0, <2>1, <2>2, SumChange
  <1> QED BY <1>4, <1>5, <1>6, <1>7, <1>8

\* The totals are numbers, and no attempt adds more shares or fees than there are.
LEMMA LedgerTotals ==
    ASSUME MInv, NEW dir \in Dirs
    PROVE  /\ Shares(dir) \in Nat /\ FeesOf(dir) \in Nat /\ Value(dir) \in Int
           /\ \A a \in Attempts : SharesOf(a, dir) <= Shares(dir) /\ FeeOf(a, dir) <= FeesOf(dir)
  <1>0. IsFiniteSet(Attempts) BY AttemptsAssumption
  <1>1. LedgerFits BY LedgerNow
  <1> DEFINE f == [b \in Attempts |-> SharesOf(b, dir)]
             g == [b \in Attempts |-> FeeOf(b, dir)]
             h == [b \in Attempts |-> ValueOf(b, dir)]
  <1>2. /\ f \in [Attempts -> Nat] /\ g \in [Attempts -> Nat] /\ h \in [Attempts -> Int]
        /\ \A a \in Attempts : f[a] = SharesOf(a, dir) /\ g[a] = FeeOf(a, dir)
    BY <1>1 DEF LedgerFits
  <1>3. Shares(dir) = SumFunction(f) /\ FeesOf(dir) = SumFunction(g) /\ Value(dir) = SumFunction(h)
    BY DEF Shares, FeesOf, Value
  <1> HIDE DEF f, g, h
  <1>4. SumFunction(f) \in Nat /\ \A a \in Attempts : f[a] <= SumFunction(f) BY <1>0, <1>2, SumNat
  <1>5. SumFunction(g) \in Nat /\ \A a \in Attempts : g[a] <= SumFunction(g) BY <1>0, <1>2, SumNat
  <1>6. SumFunction(h) \in Int BY <1>0, <1>2, SumType
  <1> QED BY <1>2, <1>3, <1>4, <1>5, <1>6

\* An attempt that adds nothing to the totals of a direction.
Nothing(b, dir) == SharesOf(b, dir) = 0 /\ FeeOf(b, dir) = 0 /\ ValueOf(b, dir) = 0

\* A sum is the one value that is not zero.
LEMMA OneTerm ==
    ASSUME NEW f \in [Attempts -> Int], NEW a \in Attempts, \A b \in Attempts \ {a} : f[b] = 0
    PROVE  SumFunction(f) = f[a]
  <1>0. IsFiniteSet(Attempts) BY AttemptsAssumption
  <1> DEFINE nil == [b \in Attempts |-> 0]
  <1>1. nil \in [Attempts -> Int] /\ nil[a] = 0 /\ \A b \in Attempts : nil[b] = 0 OBVIOUS
  <1> HIDE DEF nil
  <1>2. SumFunction(nil) = 0 BY <1>0, <1>1, SumZero
  <1>3. \A b \in Attempts \ {a} : f[b] = nil[b] BY <1>1
  <1>4. SumFunction(f) = SumFunction(nil) + f[a] - nil[a] BY <1>0, <1>1, <1>3, SumChange
  <1>5. f[a] \in Int OBVIOUS
  <1> QED BY <1>1, <1>2, <1>4, <1>5

\* The totals of a direction in which only one attempt adds something.
LEMMA OnlyOne ==
    ASSUME MInv, NEW dir \in Dirs, NEW a \in Attempts, \A b \in Attempts \ {a} : Nothing(b, dir)
    PROVE  /\ Shares(dir) = SharesOf(a, dir) /\ FeesOf(dir) = FeeOf(a, dir)
           /\ Value(dir) = ValueOf(a, dir)
  <1>1. LedgerFits BY LedgerNow
  <1> DEFINE f == [b \in Attempts |-> SharesOf(b, dir)]
             g == [b \in Attempts |-> FeeOf(b, dir)]
             h == [b \in Attempts |-> ValueOf(b, dir)]
  <1>2. /\ f \in [Attempts -> Int] /\ g \in [Attempts -> Int] /\ h \in [Attempts -> Int]
        /\ \A b \in Attempts \ {a} : f[b] = 0
        /\ \A b \in Attempts \ {a} : g[b] = 0
        /\ \A b \in Attempts \ {a} : h[b] = 0
        /\ f[a] = SharesOf(a, dir) /\ g[a] = FeeOf(a, dir) /\ h[a] = ValueOf(a, dir)
    BY <1>1 DEF LedgerFits, Nothing
  <1>3. Shares(dir) = SumFunction(f) /\ FeesOf(dir) = SumFunction(g) /\ Value(dir) = SumFunction(h)
    BY DEF Shares, FeesOf, Value
  <1> HIDE DEF f, g, h
  <1>4. SumFunction(f) = f[a] BY <1>2, OneTerm
  <1>5. SumFunction(g) = g[a] BY <1>2, OneTerm
  <1>6. SumFunction(h) = h[a] BY <1>2, OneTerm
  <1> QED BY <1>2, <1>3, <1>4, <1>5, <1>6

\* The totals of a direction in which no attempt adds anything.
LEMMA NoOne ==
    ASSUME MInv, NEW dir \in Dirs, \A b \in Attempts : Nothing(b, dir)
    PROVE  Shares(dir) = 0 /\ FeesOf(dir) = 0 /\ Value(dir) = 0
  <1>0. IsFiniteSet(Attempts) BY AttemptsAssumption
  <1>1. LedgerFits BY LedgerNow
  <1> DEFINE f == [b \in Attempts |-> SharesOf(b, dir)]
             g == [b \in Attempts |-> FeeOf(b, dir)]
             h == [b \in Attempts |-> ValueOf(b, dir)]
  <1>2. /\ f \in [Attempts -> Int] /\ \A b \in Attempts : f[b] = 0
        /\ g \in [Attempts -> Int] /\ \A b \in Attempts : g[b] = 0
        /\ h \in [Attempts -> Int] /\ \A b \in Attempts : h[b] = 0
    BY <1>1 DEF LedgerFits, Nothing
  <1>3. Shares(dir) = SumFunction(f) /\ FeesOf(dir) = SumFunction(g) /\ Value(dir) = SumFunction(h)
    BY DEF Shares, FeesOf, Value
  <1> HIDE DEF f, g, h
  <1>4. SumFunction(f) = 0 BY <1>0, <1>2, SumZero
  <1>5. SumFunction(g) = 0 BY <1>0, <1>2, SumZero
  <1>6. SumFunction(h) = 0 BY <1>0, <1>2, SumZero
  <1> QED BY <1>3, <1>4, <1>5, <1>6

\* The shares of the entries, as the ledger counts them.
LEMMA EntriesBooked == Shares("ENTRY") = BookedEntries /\ Shares("ENTRY")' = BookedEntries'
  <1>1. [a \in Attempts |-> SharesOf(a, "ENTRY")] = [a \in Attempts |-> EntryShares(a)]
    BY DEF SharesOf, EntryShares, Of
  <1>2. [a \in Attempts |-> SharesOf(a, "ENTRY")'] = [a \in Attempts |-> EntryShares(a)']
    BY DEF SharesOf, EntryShares, Of
  <1> QED BY <1>1, <1>2 DEF Shares, BookedEntries
-----------------------------------------------------------------------------
(* What a booking leaves.                                                  *)

\* There is nothing that the attempt lacks, or nothing left that a sale could close.
Needless(p) == \/ pass[p].total = 0 \/ Delta(p) <= 0
               \/ pass[p].row.dir # "ENTRY" /\ ~StaleLot(pass[p].row) /\ Remainder(bet) = 0

\* A row that is written keeps its final flag and books the total, if anything.
LEMMA BookRow ==
    ASSUME PInv, RowsInv, NEW p \in Workers, Book(p), NEW a \in Attempts, a = pass[p].a
    PROVE  /\ attempt'[a].final = attempt[a].final
           /\ attempt'[a].booked = IF Needless(p) THEN attempt[a].booked ELSE pass[p].total
           /\ StaleLot(pass[p].row) => bet' = bet
           /\ ~Needless(p) => pass[p].total > attempt[a].booked
  <1> DEFINE n == pass[p].total
             row == pass[p].row
             k == [attempt[a] EXCEPT !.state = "KILLED"]
  <1>1. /\ attempt[a] \in RowSet /\ row \in RowSet /\ n \in Nat /\ attempt[a].booked \in Nat
        /\ attempt \in [Attempts -> RowSet \cup {None}] /\ row.dir \in {"ENTRY", "EXIT"}
        /\ row.dir = attempt[a].dir
    <2>1. pass[p].at = "book" BY DEF Book
    <2>2. attempt[a] \in RowSet /\ row \in RowSet /\ n \in Nat BY <2>1, PassCarries DEF PInv
    <2>3. row.dir = attempt[a].dir BY <2>1 DEF RowsInv, PassOK
    <2> QED BY <2>2, <2>3 DEF RowSet, PInv, AttemptsOK
  <1>2. Delta(p) = n - attempt[a].booked /\ Delta(p) \in Int BY <1>1 DEF Delta
  <1>3. k.final = attempt[a].final /\ k.booked = attempt[a].booked BY <1>1 DEF RowSet
  <1>4. \A lot : /\ Stamped(attempt[a], n, lot).final = attempt[a].final
                 /\ Stamped(attempt[a], n, lot).booked = n
    BY <1>1 DEF Stamped, RowSet
  <1>5. KeptAside(attempt[a], n).final = attempt[a].final /\ KeptAside(attempt[a], n).booked = n
    BY <1>1, <1>4 DEF KeptAside, RowSet
  <1>6. attempt[a].booked + Delta(p) = n BY <1>1, <1>2
  <1>7. CASE n = 0
    <2>1. bet' = bet /\ (attempt' = attempt \/ attempt' = [attempt EXCEPT ![a] = k])
      BY <1>7 DEF Book
    <2>2. Needless(p) BY <1>7 DEF Needless
    <2> HIDE DEF k
    <2> QED BY <1>1, <1>3, <2>1, <2>2
  <1>8. CASE n # 0 /\ Delta(p) <= 0
    <2>1. bet' = bet /\ attempt' = attempt BY <1>8 DEF Book
    <2>2. Needless(p) BY <1>8 DEF Needless
    <2> QED BY <2>1, <2>2
  <1>9. CASE n # 0 /\ ~(Delta(p) <= 0) /\ row.dir = "ENTRY"
    <2>1. EntryBooking(a, row, Delta(p)) BY <1>9 DEF Book
    <2>2. ~Needless(p) BY <1>9 DEF Needless
    <2>3. \/ attempt' = [attempt EXCEPT ![a] = KeptAside(attempt[a], n)] /\ bet' = bet
          \/ ~StaleLot(row) /\ \E lot : attempt' = [attempt EXCEPT ![a] = Stamped(attempt[a], n, lot)]
      BY <1>6, <2>1 DEF EntryBooking
    <2>4. attempt'[a].final = attempt[a].final /\ attempt'[a].booked = n
          /\ (StaleLot(row) => bet' = bet)
      BY <1>1, <1>4, <1>5, <2>3
    <2> QED BY <1>1, <1>2, <1>9, <2>2, <2>4
  <1>10. CASE n # 0 /\ ~(Delta(p) <= 0) /\ row.dir # "ENTRY"
    <2>1. ExitBooking(a, row, Delta(p)) BY <1>10 DEF Book
    <2>2. CASE StaleLot(row)
      <3>1. attempt' = [attempt EXCEPT ![a] = KeptAside(attempt[a], n)] /\ bet' = bet
        BY <1>6, <2>1, <2>2 DEF ExitBooking
      <3>2. ~Needless(p) BY <1>10, <2>2 DEF Needless
      <3>3. attempt'[a].final = attempt[a].final /\ attempt'[a].booked = n BY <1>1, <1>5, <3>1
      <3> QED BY <1>1, <1>2, <1>10, <3>1, <3>2, <3>3
    <2>3. CASE ~StaleLot(row) /\ Remainder(bet) = 0
      <3>1. attempt' = attempt \/ attempt' = [attempt EXCEPT ![a] = k]
        BY <2>1, <2>3 DEF ExitBooking
      <3>2. Needless(p) BY <1>10, <2>3 DEF Needless
      <3> HIDE DEF k
      <3> QED BY <1>1, <1>3, <2>3, <3>1, <3>2
    <2>4. CASE ~StaleLot(row) /\ Remainder(bet) # 0
      <3>1. attempt' = [attempt EXCEPT ![a] = Stamped(attempt[a], n, bet.seq)]
        BY <1>6, <2>1, <2>4 DEF ExitBooking
      <3>2. ~Needless(p) BY <1>10, <2>4 DEF Needless
      <3>3. attempt'[a].final = attempt[a].final /\ attempt'[a].booked = n BY <1>1, <1>4, <3>1
      <3> QED BY <1>1, <1>2, <1>10, <2>4, <3>2, <3>3
    <2> QED BY <2>2, <2>3, <2>4
  <1> QED BY <1>7, <1>8, <1>9, <1>10

\* A booking is needless, is kept aside, or moves the position.
LEMMA BookCases ==
    ASSUME PInv, RowsInv, NEW p \in Workers, Book(p), NEW a \in Attempts, a = pass[p].a,
           NEW row, row = pass[p].row, NEW n, n = pass[p].total
    PROVE  /\ n \in Nat /\ n <= matched[a] /\ Kept(a) /\ attempt[a] # None /\ row.dir = attempt[a].dir
           /\ attempt[a].booked \in Nat /\ attempt[a].dir \in Dirs
           /\ row.lot # None => bet # None /\ row.lot <= bet.seq
           /\ \/ Needless(p) /\ Unbooked(a, n)
              \/ ~Needless(p) /\ Aside(a, row, n)
              \/ ~Needless(p) /\ Merged(a, row, n)
              \/ ~Needless(p) /\ Opened(a, row, n) /\ ~StaleLot(row)
              \/ ~Needless(p) /\ Sold(a, row, n) /\ Remainder(bet) # 0
  <1>1. Kept(a) /\ Outcome(a, row, n) /\ n \in Nat /\ matched[a] >= 0 BY BookOutcome
  <1>2. /\ attempt'[a].booked = IF Needless(p) THEN attempt[a].booked ELSE n
        /\ StaleLot(row) => bet' = bet
        /\ ~Needless(p) => n > attempt[a].booked
    BY BookRow
  <1>3. /\ attempt[a] # None /\ row.dir = attempt[a].dir /\ n <= indexed[a]
        /\ row.lot # None => bet # None /\ row.lot <= bet.seq
        /\ pass[p].at = "book" /\ RowOK(a) /\ (n > 0 \/ matched[a] = 0)
    BY DEF RowsInv, PassOK, Book
  <1>4. /\ attempt[a].booked \in Nat /\ attempt[a].dir \in {"ENTRY", "EXIT"}
        /\ matched[a] \in Int /\ indexed[a] \in Nat
    BY <1>3, RowShape
  <1>5. n <= matched[a] BY <1>1, <1>3, <1>4 DEF RowOK
  <1>6. CASE Needless(p)
    <2>1. attempt'[a].booked = attempt[a].booked BY <1>2, <1>6
    <2>2. \A lot : ~BookedAs(a, n, lot) BY <1>1, <1>4, <2>1 DEF BookedAs
    <2>3. Unbooked(a, n) BY <1>1, <2>2 DEF Outcome, Aside, Merged, Opened, Sold
    <2> QED BY <1>1, <1>3, <1>4, <1>5, <1>6, <2>3 DEF Dirs
  <1>7. CASE ~Needless(p)
    <2>1. n > attempt[a].booked /\ attempt'[a].booked = n BY <1>2, <1>7
    <2>2. ~Unbooked(a, n) BY <1>1, <1>4, <2>1 DEF Unbooked
    <2>3. Opened(a, row, n) => ~StaleLot(row)
      <3> SUFFICES ASSUME Opened(a, row, n), StaleLot(row) PROVE FALSE OBVIOUS
      <3>1. bet' = bet /\ bet # None /\ bet.seq \in Nat
        <4>1. bet # None BY DEF StaleLot
        <4> QED BY <1>2, <4>1, BetShape
      <3>2. bet'.seq = bet.seq + 1 BY <1>1, <1>3, <3>1, BetMoved
      <3> QED BY <3>1, <3>2
    <2>4. Sold(a, row, n) => Remainder(bet) # 0
      <3>1. Sold(a, row, n) => row.dir # "ENTRY" /\ ~StaleLot(row) BY <1>3 DEF Sold
      <3> QED BY <1>7, <3>1 DEF Needless
    <2>5. Aside(a, row, n) \/ Merged(a, row, n) \/ Opened(a, row, n) \/ Sold(a, row, n)
      BY <1>1, <2>2 DEF Outcome
    <2> QED BY <1>1, <1>3, <1>4, <1>5, <1>7, <2>3, <2>4, <2>5 DEF Dirs
  <1> QED BY <1>6, <1>7
-----------------------------------------------------------------------------
(* What the attempts and the first lot know of each other.                 *)

\* What is booked is not taken back.
LEMMA BookedGrows ==
    ASSUME Ground, [Next]_vars, NEW b \in Attempts, attempt[b] # None
    PROVE  attempt'[b].booked >= attempt[b].booked
  <1>0. PInv /\ RowsInv BY DEF Ground, MInv, AllInv
  <1>1. attempt[b].booked \in Nat BY <1>0, RowShape
  <1>2. CASE Quiet BY <1>1, <1>2 DEF Quiet, SameRow
  <1>3. ASSUME NEW a \in Attempts, NEW r, MayTrade(a), attempt' = [attempt EXCEPT ![a] = r]
        PROVE  attempt'[b].booked >= attempt[b].booked
    BY <1>0, <1>1, <1>3 DEF MayTrade, PInv, AttemptsOK
  <1>4. ASSUME NEW a \in Attempts, NEW side \in Sides, NEW size \in 1 .. MaxSize, Enter(a, side, size)
        PROVE  attempt'[b].booked >= attempt[b].booked
    BY <1>3, <1>4 DEF Enter
  <1>5. ASSUME NEW a \in Attempts, Exit(a) PROVE attempt'[b].booked >= attempt[b].booked
    BY <1>3, <1>5 DEF Exit
  <1>6. ASSUME (\E a \in Attempts : Match(a) \/ Index(a)) \/ Resolve \/ Consume
        PROVE  attempt'[b].booked >= attempt[b].booked
    BY <1>1, <1>6 DEF Match, Index, Resolve, Consume
  <1>7. ASSUME NEW p \in Workers, Book(p) PROVE attempt'[b].booked >= attempt[b].booked
    <2>0. pass[p].at = "book" BY <1>7 DEF Book
    <2> PICK a \in Attempts : a = pass[p].a BY <1>0, <2>0, PassCarries DEF PInv
    <2>1. pass[p].total \in Nat BY <1>0, <2>0, PassCarries DEF PInv
    <2>2. Kept(a) BY <1>0, <1>7, BookOutcome
    <2>3. /\ attempt'[a].booked = IF Needless(p) THEN attempt[a].booked ELSE pass[p].total
          /\ ~Needless(p) => pass[p].total > attempt[a].booked
      BY <1>0, <1>7, BookRow
    <2> QED BY <1>1, <2>1, <2>2, <2>3 DEF Kept
  <1> QED BY <1>0, <1>2, <1>4, <1>5, <1>6, <1>7, Steps

\* An attempt becomes final with nothing lacking, and nothing can be lacking after that.
LEMMA FinalMoves ==
    ASSUME Ground, FinalOK, \A p \in Workers : TotalOK(p), [Next]_vars
    PROVE  FinalOK'
  <1>0. PInv /\ RowsInv BY DEF Ground, MInv, AllInv
  <1>1. CASE attempt' = attempt /\ \A b \in Attempts : matched[b] >= 0 => matched'[b] = matched[b]
    <2>1. \A b \in Attempts : attempt[b] # None => attempt[b].booked \in Nat BY <1>0, RowShape
    <2> QED BY <1>1, <2>1 DEF FinalOK
  <1>2. ASSUME NEW a \in Attempts, NEW r, attempt' = [attempt EXCEPT ![a] = r], ~r.final,
               matched' = matched
        PROVE  FinalOK'
    <2>1. \A b \in Attempts : attempt'[b] = IF b = a THEN r ELSE attempt[b]
      BY <1>0, <1>2 DEF PInv, AttemptsOK
    <2> QED BY <1>2, <2>1 DEF FinalOK
  <1>3. ASSUME NEW a \in Attempts, NEW side \in Sides, NEW size \in 1 .. MaxSize, Enter(a, side, size)
        PROVE  FinalOK'
    <2>1. ~NewRow("ENTRY", side, size).final BY DEF NewRow
    <2> QED BY <1>2, <1>3, <2>1 DEF Enter
  <1>4. ASSUME NEW a \in Attempts, Exit(a) PROVE FinalOK'
    <2>1. ~NewRow("EXIT", bet.side, (Remainder(bet) \div Tick) * Tick).final BY DEF NewRow
    <2> QED BY <1>2, <1>4, <2>1 DEF Exit
  <1>5. ASSUME NEW a \in Attempts, Match(a) PROVE FinalOK'
    <2>1. attempt' = attempt /\ \A b \in Attempts : matched[b] >= 0 => matched'[b] = matched[b]
      <3>1. matched[a] = -1 /\ attempt' = attempt BY <1>5 DEF Match
      <3>2. \A b \in Attempts : b # a => matched'[b] = matched[b]
        BY <1>0, <1>5 DEF Match, PInv, AttemptsOK
      <3> QED BY <3>1, <3>2
    <2> QED BY <1>1, <2>1
  <1>6. CASE Resolve
    <2>1. attempt' = attempt /\ \A b \in Attempts : matched[b] >= 0 => matched'[b] = matched[b]
      BY <1>6 DEF Resolve
    <2> QED BY <1>1, <2>1
  <1>7. ASSUME NEW p \in Workers, Book(p) PROVE FinalOK'
    <2>0. pass[p].at = "book" BY <1>7 DEF Book
    <2> PICK a \in Attempts : a = pass[p].a BY <1>0, <2>0, PassCarries DEF PInv
    <2>1. Kept(a) /\ matched' = matched BY <1>0, <1>7, BookOutcome DEF Book
    <2>2. /\ attempt'[a].final = attempt[a].final
          /\ attempt'[a].booked = IF Needless(p) THEN attempt[a].booked ELSE pass[p].total
          /\ ~Needless(p) => pass[p].total > attempt[a].booked
      BY <1>0, <1>7, BookRow
    <2>3. /\ attempt[a] # None /\ pass[p].total <= matched[a] /\ pass[p].total \in Nat
          /\ attempt[a].booked \in Nat
      <3>1. PICK row : row = pass[p].row OBVIOUS
      <3> QED BY <1>0, <1>7, <3>1, BookCases
    <2>4. attempt[a].final => Needless(p)
      <3>1. matched[a] \in Int BY <1>0, RowShape
      <3> QED BY <2>2, <2>3, <3>1 DEF FinalOK
    <2>5. ASSUME NEW b \in Attempts, attempt'[b] # None, attempt'[b].final
          PROVE  attempt'[b].booked = matched'[b] /\ attempt'[b].booked > 0
      <3>1. CASE b = a BY <2>1, <2>2, <2>3, <2>4, <2>5, <3>1 DEF FinalOK
      <3>2. CASE b # a BY <2>1, <2>5, <3>2 DEF FinalOK, Kept
      <3> QED BY <3>1, <3>2
    <2> QED BY <2>5 DEF FinalOK
  <1>8. ASSUME NEW p \in Workers, TrueUp(p) PROVE FinalOK'
    <2>0. pass[p].at = "fees" /\ matched' = matched BY <1>8 DEF TrueUp
    <2> PICK a \in Attempts : a = pass[p].a BY <1>0, <2>0, PassCarries DEF PInv
    <2>1. attempt[a] \in RowSet /\ attempt[a] # None /\ pass[p].total \in Nat
      BY <1>0, <2>0, PassCarries, NoneAssumption DEF PInv
    <2> DEFINE r == [attempt[a] EXCEPT !.final = TRUE]
    <2>2. \/ attempt' = attempt
          \/ /\ attempt' = [attempt EXCEPT ![a] = r]
             /\ pass[p].terminal /\ pass[p].total >= attempt[a].booked /\ attempt[a].state \in Booked
      BY <1>8 DEF TrueUp
    <2>3. r.booked = attempt[a].booked /\ attempt[a].booked \in Nat BY <2>1 DEF RowSet
    <2> HIDE DEF r
    <2>4. CASE attempt' = attempt BY <1>1, <2>0, <2>4
    <2>5. CASE attempt' # attempt
      <3>1. /\ attempt' = [attempt EXCEPT ![a] = r] /\ pass[p].terminal
            /\ pass[p].total >= attempt[a].booked /\ attempt[a].state \in Booked
        BY <2>2, <2>5
      <3>2. pass[p].total = matched[a] /\ pass[p].total <= attempt[a].booked
        BY <2>0, <3>1 DEF TotalOK
      <3>3. attempt[a].booked > 0 BY <1>0, <2>1, <3>1 DEF RowsInv, RowOK
      <3>4. attempt'[a] = r /\ \A b \in Attempts : b # a => attempt'[b] = attempt[b]
        BY <1>0, <3>1 DEF PInv, AttemptsOK
      <3>5. attempt[a].booked = matched[a] BY <2>1, <2>3, <3>1, <3>2
      <3> QED BY <2>0, <2>3, <3>3, <3>4, <3>5 DEF FinalOK
    <2> QED BY <2>4, <2>5
  <1>9. ASSUME \/ \E a \in Attempts : Index(a) \/ \E p \in Workers : Read(p, a)
               \/ \E p \in Workers : Probe(p) \/ PassDies(p)
               \/ \E side \in Sides : Redeem(side)
               \/ Scan \/ Plan \/ Consume \/ SettleDies \/ UNCHANGED vars
        PROVE  FinalOK'
    <2>1. attempt' = attempt /\ matched' = matched
      BY <1>9 DEF Index, Read, Probe, PassDies, Redeem, Scan, Plan, Consume, SettleDies, vars
    <2> QED BY <1>1, <2>1
  <1> QED BY <1>3, <1>4, <1>5, <1>6, <1>7, <1>8, <1>9 DEF Next

\* A terminal total stays one, and the booking of it leaves nothing lacking.
LEMMA TotalMoves ==
    ASSUME Ground, Ground', NEW q \in Workers, TotalOK(q), [Next]_vars
    PROVE  TotalOK(q)'
  <1>0. PInv /\ RowsInv BY DEF Ground, MInv, AllInv
  <1>1. Grows
    <2>1. PInv' BY DEF Ground, MInv
    <2> QED BY <1>0, <2>1, RowsMove
  <1>2. CASE pass'[q] = pass[q]
    <2>1. CASE pass[q].at \notin {"book", "fees"} BY <1>2, <2>1 DEF TotalOK
    <2>2. CASE pass[q].at \in {"book", "fees"}
      <3> PICK a \in Attempts : a = pass[q].a BY <1>0, <2>2, PassCarries DEF PInv
      <3>1. attempt[a] # None /\ attempt[a] \in RowSet /\ pass[q].total \in Nat
        BY <1>0, <2>2, PassCarries, NoneAssumption DEF PInv
      <3>2. attempt'[a].dir = attempt[a].dir /\ (matched[a] >= 0 => matched'[a] = matched[a])
            /\ attempt'[a] # None
        BY <1>1, <3>1 DEF Grows
      <3>3. attempt'[a].booked >= attempt[a].booked BY <3>1, BookedGrows
      <3>4. attempt[a].booked \in Nat /\ attempt'[a].booked \in Nat /\ matched[a] \in Int
        <4>1. PInv' BY DEF Ground, MInv
        <4>2. attempt'[a] \in RowSet BY <3>2, <4>1 DEF PInv, AttemptsOK
        <4>3. attempt'[a].booked \in Nat BY <4>2 DEF RowSet
        <4> QED BY <1>0, <3>1, <4>3, RowShape
      <3>5. pass[q].terminal => matched'[a] = pass[q].total
        BY <2>2, <3>1, <3>2, <3>4 DEF TotalOK
      <3>6. pass[q].at = "fees" /\ (pass[q].terminal \/ attempt'[a].dir = "ENTRY")
              => pass[q].total <= attempt'[a].booked
        BY <3>1, <3>2, <3>3, <3>4 DEF TotalOK
      <3> QED BY <1>2, <3>5, <3>6 DEF TotalOK
    <2> QED BY <2>1, <2>2
  <1>3. CASE pass'[q] = Idle BY <1>3 DEF TotalOK, Idle
  <1>4. ASSUME NEW p \in Workers, NEW a \in Attempts, Read(p, a) PROVE TotalOK(q)'
    <2>1. CASE q # p BY <1>0, <1>2, <1>4, <2>1 DEF Read, PInv, PassesOK
    <2>2. CASE q = p
      <3>1. pass'[q].at = "probe" BY <1>0, <1>4, <2>2 DEF Read, PInv, PassesOK
      <3> QED BY <3>1 DEF TotalOK
    <2> QED BY <2>1, <2>2
  <1>5. ASSUME NEW p \in Workers, Probe(p) PROVE TotalOK(q)'
    <2>1. CASE q # p BY <1>0, <1>2, <1>5, <2>1 DEF Probe, PInv, PassesOK
    <2>2. CASE q = p
      <3>1. /\ pass'[q].at = "book" /\ pass'[q].total = indexed[pass[q].a] /\ pass'[q].a = pass[q].a
            /\ pass'[q].terminal = (indexed[pass[q].a] = matched[pass[q].a]) /\ matched' = matched
        BY <1>0, <1>5, <2>2 DEF Probe, PInv, PassesOK
      <3> QED BY <3>1 DEF TotalOK
    <2> QED BY <2>1, <2>2
  <1>6. ASSUME NEW p \in Workers, Book(p) PROVE TotalOK(q)'
    <2>1. CASE q # p BY <1>0, <1>2, <1>6, <2>1 DEF Book, PInv, PassesOK
    <2>2. CASE q = p
      <3>0. pass[q].at = "book" BY <1>6, <2>2 DEF Book
      <3> PICK a \in Attempts : a = pass[q].a BY <1>0, <3>0, PassCarries DEF PInv
      <3>1. \/ pass'[q] = Idle
            \/ /\ pass[q].total # 0
               /\ pass'[q] = [at |-> "fees", a |-> a, total |-> pass[q].total,
                              terminal |-> pass[q].terminal /\ Delta(q) = 0]
        BY <1>0, <1>6, <2>2 DEF Book, PInv, PassesOK
      <3>2. matched' = matched BY <1>6 DEF Book
      <3>3. /\ attempt'[a].booked = IF Needless(q) THEN attempt[a].booked ELSE pass[q].total
            /\ ~Needless(q) => pass[q].total > attempt[a].booked
        BY <1>0, <1>6, <2>2, BookRow
      <3>4. pass[q].total \in Nat /\ attempt[a].booked \in Nat /\ Kept(a) /\ pass[q].row.dir = attempt[a].dir
        <4>1. PICK row : row = pass[q].row OBVIOUS
        <4>2. PICK n : n = pass[q].total OBVIOUS
        <4> QED BY <1>0, <1>6, <2>2, <4>1, <4>2, BookCases
      <3>5. CASE pass[q].total # 0
        <4>1. attempt[a].dir = "ENTRY" => pass[q].total <= attempt'[a].booked
          BY <3>3, <3>4, <3>5 DEF Needless, Delta
        <4>2. Delta(q) = 0 => pass[q].total <= attempt'[a].booked
          BY <3>3, <3>4 DEF Delta
        <4>3. pass[q].terminal => pass[q].total = matched[a] BY <3>0 DEF TotalOK
        <4>4. attempt'[a].dir = attempt[a].dir BY <3>4 DEF Kept
        <4>5. CASE pass'[q] = [at |-> "fees", a |-> a, total |-> pass[q].total,
                               terminal |-> pass[q].terminal /\ Delta(q) = 0]
          <5>1. /\ pass'[q].at = "fees" /\ pass'[q].a = a /\ pass'[q].total = pass[q].total
                /\ pass'[q].terminal <=> (pass[q].terminal /\ Delta(q) = 0)
            <6>1. PICK done \in BOOLEAN : done <=> (pass[q].terminal /\ Delta(q) = 0) OBVIOUS
            <6>2. done = (pass[q].terminal /\ Delta(q) = 0) BY <6>1
            <6>3. pass'[q] = [at |-> "fees", a |-> a, total |-> pass[q].total, terminal |-> done]
              BY <4>5, <6>2
            <6> QED BY <6>1, <6>3
          <5>2. pass'[q].terminal => pass[q].total = matched'[a] /\ pass[q].total <= attempt'[a].booked
            BY <3>2, <4>2, <4>3, <5>1
          <5>3. attempt'[a].dir = "ENTRY" => pass[q].total <= attempt'[a].booked BY <4>1, <4>4
          <5> QED BY <5>1, <5>2, <5>3 DEF TotalOK
        <4> QED BY <1>3, <3>1, <4>5
      <3> QED BY <1>3, <3>1, <3>5
    <2> QED BY <2>1, <2>2
  <1>7. ASSUME NEW p \in Workers, TrueUp(p) \/ PassDies(p) PROVE TotalOK(q)'
    BY <1>0, <1>2, <1>3, <1>7 DEF TrueUp, PassDies, PInv, PassesOK
  <1>8. CASE pass' = pass BY <1>2, <1>8
  <1>9. ASSUME NEW a \in Attempts,
               \/ \E side \in Sides, size \in 1 .. MaxSize : Enter(a, side, size)
               \/ Exit(a) \/ Match(a) \/ Index(a)
        PROVE  pass' = pass
    BY <1>9 DEF Enter, Exit, Match, Index
  <1>10. ASSUME (\E side \in Sides : Redeem(side)) \/ Resolve \/ Scan \/ Plan \/ Consume \/ SettleDies
                \/ UNCHANGED vars
         PROVE  pass' = pass
    BY <1>10 DEF Redeem, Resolve, Scan, Plan, Consume, SettleDies, vars
  <1> QED BY <1>4, <1>5, <1>6, <1>7, <1>8, <1>9, <1>10 DEF Next
\* Before the first fill, nothing is settled of an order that matched.
LEMMA UnmatchedMoves ==
    ASSUME Ground, Unmatched, [Next]_vars
    PROVE  Unmatched'
  <1>0. PInv /\ RowsInv BY DEF Ground, MInv, AllInv
  <1> SUFFICES ASSUME bet' = None, NEW b \in Attempts, attempt'[b] # None, attempt'[b].state # "LIVE"
               PROVE  matched'[b] = 0
    BY DEF Unmatched
  <1>1. bet = None
    <2>1. PInv' BY <1>0, NextInv
    <2>2. Grows BY <1>0, <2>1, RowsMove
    <2> QED BY <2>2 DEF Grows
  <1>2. \A c \in Attempts : attempt[c] # None /\ attempt[c].state # "LIVE" => matched[c] = 0
    BY <1>1 DEF Unmatched
  <1>3. CASE Quiet BY <1>2, <1>3 DEF Quiet, SameRow
  <1>4. ASSUME NEW a \in Attempts, NEW r, attempt' = [attempt EXCEPT ![a] = r], r.state = "LIVE",
               matched' = matched
        PROVE  matched'[b] = 0
    <2>1. attempt'[b] = IF b = a THEN r ELSE attempt[b] BY <1>0, <1>4 DEF PInv, AttemptsOK
    <2> QED BY <1>2, <1>4, <2>1
  <1>5. ASSUME NEW a \in Attempts, NEW side \in Sides, NEW size \in 1 .. MaxSize, Enter(a, side, size)
        PROVE  matched'[b] = 0
    <2>1. NewRow("ENTRY", side, size).state = "LIVE" BY DEF NewRow
    <2> QED BY <1>4, <1>5, <2>1 DEF Enter
  <1>6. ASSUME NEW a \in Attempts, Exit(a) PROVE matched'[b] = 0
    <2>1. NewRow("EXIT", bet.side, (Remainder(bet) \div Tick) * Tick).state = "LIVE" BY DEF NewRow
    <2> QED BY <1>4, <1>6, <2>1 DEF Exit
  <1>7. ASSUME attempt' = attempt, \A c \in Attempts : matched[c] >= 0 => matched'[c] = matched[c]
        PROVE  matched'[b] = 0
    BY <1>2, <1>7
  <1>8. ASSUME NEW a \in Attempts, Match(a) PROVE matched'[b] = 0
    <2>1. attempt' = attempt /\ matched[a] = -1 BY <1>8 DEF Match
    <2>2. \A c \in Attempts : c # a => matched'[c] = matched[c]
      BY <1>0, <1>8 DEF Match, PInv, AttemptsOK
    <2> QED BY <1>7, <2>1, <2>2
  <1>9. CASE Resolve BY <1>7, <1>9 DEF Resolve
  <1>10. ASSUME (\E a \in Attempts : Index(a)) \/ Consume PROVE matched'[b] = 0
    BY <1>7, <1>10 DEF Index, Consume
  <1>11. ASSUME NEW p \in Workers, Book(p) PROVE matched'[b] = 0
    <2>0. pass[p].at = "book" /\ matched' = matched BY <1>11 DEF Book
    <2> PICK a \in Attempts : a = pass[p].a BY <1>0, <2>0, PassCarries DEF PInv
    <2> PICK row : row = pass[p].row OBVIOUS
    <2> PICK n : n = pass[p].total OBVIOUS
    <2>1. /\ Kept(a) /\ attempt[a] # None /\ n \in Nat
          /\ Unbooked(a, n) \/ Aside(a, row, n) \/ Merged(a, row, n) \/ Opened(a, row, n) \/ Sold(a, row, n)
      BY <1>0, <1>11, BookCases
    <2>2. ~Aside(a, row, n) /\ ~Merged(a, row, n) /\ ~Sold(a, row, n) BY <1>1 DEF Aside, Merged, Sold
    <2>3. ~Opened(a, row, n)
      <3>1. Opened(a, row, n) => bet' \in BetSet BY <1>0, <2>1, BetMoved
      <3> QED BY <3>1, NoneAssumption
    <2>4. attempt[a].dir # "EXIT" BY <1>0, <1>1, <2>1 DEF RowsInv, RowOK
    <2>5. CASE b = a BY <1>2, <2>0, <2>1, <2>2, <2>3, <2>4, <2>5 DEF Unbooked
    <2>6. CASE b # a BY <1>2, <2>0, <2>1, <2>6 DEF Kept
    <2> QED BY <2>5, <2>6
  <1> QED BY <1>0, <1>3, <1>5, <1>6, <1>8, <1>9, <1>10, <1>11, Steps

\* The premise of OneEntry.
Early == bet = None \/ (bet.seq = 0 /\ Remainder(bet) >= Tick)

\* A lot that is above a tick after a booking was so before, or did not exist.
LEMMA EarlyBefore ==
    ASSUME Ground, [Next]_vars, Early'
    PROVE  Early
  <1>0. PInv /\ RowsInv /\ PInv'
    <2>1. PInv /\ RowsInv BY DEF Ground, MInv, AllInv
    <2> QED BY <2>1, NextInv
  <1>1. CASE bet' = bet BY <1>1 DEF Early
  <1>2. CASE bet = None BY <1>2 DEF Early
  <1>3. ASSUME bet # None, Consume, bet' # bet PROVE FALSE
    <2>1. bet' = [bet EXCEPT !.closed = bet.filled, !.settled = TRUE] BY <1>3 DEF Consume
    <2>2. bet \in BetSet BY <1>0, <1>3, BetShape
    <2>3. bet' \in BetSet /\ bet'.closed = bet'.filled BY <2>1, <2>2 DEF BetSet
    <2>4. bet' # None /\ Remainder(bet') = 0 BY <2>3, NoneAssumption DEF Remainder, BetSet
    <2> QED BY <2>4, TickAssumption DEF Early
  <1>4. ASSUME bet # None, NEW p \in Workers, Book(p) PROVE Early
    <2>0. pass[p].at = "book" BY <1>4 DEF Book
    <2> PICK a \in Attempts : a = pass[p].a BY <1>0, <2>0, PassCarries DEF PInv
    <2> PICK row : row = pass[p].row OBVIOUS
    <2> PICK n : n = pass[p].total OBVIOUS
    <2>1. /\ attempt[a] # None /\ n \in Nat
          /\ Unbooked(a, n) \/ Aside(a, row, n) \/ Merged(a, row, n) \/ Opened(a, row, n) \/ Sold(a, row, n)
      BY <1>0, <1>4, BookCases
    <2>2. CASE Unbooked(a, n) \/ Aside(a, row, n) BY <1>1, <2>2 DEF Unbooked, Aside
    <2>3. CASE Merged(a, row, n)
      <3>1. bet'.seq = bet.seq /\ bet' \in BetSet /\ Remainder(bet) >= Tick
        BY <1>0, <2>1, <2>3, BetMoved DEF Merged
      <3> QED BY <3>1, NoneAssumption DEF Early
    <2>4. CASE Opened(a, row, n)
      <3>1. bet'.seq = bet.seq + 1 /\ bet' \in BetSet BY <1>0, <1>4, <2>1, <2>4, BetMoved
      <3>2. bet.seq \in Nat BY <1>0, <1>4, BetShape
      <3> QED BY <3>1, <3>2, NoneAssumption DEF Early
    <2>5. CASE Sold(a, row, n)
      <3>1. /\ bet'.seq = bet.seq /\ bet' \in BetSet /\ bet'.filled = bet.filled
            /\ bet'.closed = bet.closed + Closing(n - attempt[a].booked)
            /\ Closing(n - attempt[a].booked) \in Nat
        BY <1>0, <2>1, <2>5, BetMoved
      <3>2. bet.filled \in Nat /\ bet.closed \in Nat /\ Remainder(bet) = bet.filled - bet.closed
        BY <1>0, <1>4, BetShape
      <3>3. bet' # None BY <3>1, NoneAssumption
      <3>4. Remainder(bet') = bet'.filled - bet'.closed BY <3>3 DEF Remainder
      <3> QED BY <1>4, <3>1, <3>2, <3>3, <3>4, TickAssumption DEF Early
    <2> QED BY <2>1, <2>2, <2>3, <2>4, <2>5
  <1>5. ASSUME NEW a \in Attempts,
               \/ \E side \in Sides, size \in 1 .. MaxSize : Enter(a, side, size)
               \/ Exit(a) \/ Match(a) \/ Index(a)
        PROVE  bet' = bet
    BY <1>5 DEF Enter, Exit, Match, Index
  <1>6. ASSUME Quiet \/ Resolve PROVE bet' = bet BY <1>6 DEF Quiet, Resolve
  <1> QED BY <1>0, <1>1, <1>2, <1>3, <1>4, <1>5, <1>6, Steps

\* A second entry is signed only when what is held is below a tick.
LEMMA OneEntryMoves ==
    ASSUME Ground, Unmatched, OneEntry, [Next]_vars
    PROVE  OneEntry'
  <1>0. PInv /\ RowsInv BY DEF Ground, MInv, AllInv
  <1> SUFFICES ASSUME Early', NEW b \in Attempts, NEW c \in Attempts,
                      Of(b, "ENTRY")', Of(c, "ENTRY")', matched'[b] # 0, matched'[c] # 0
               PROVE  b = c
    BY DEF OneEntry, Early
  <1>1. Early BY EarlyBefore
  <1>2. \A x, y \in Attempts : Of(x, "ENTRY") /\ Of(y, "ENTRY") /\ matched[x] # 0 /\ matched[y] # 0 => x = y
    BY <1>1 DEF OneEntry, Early
  <1>3. ASSUME \A x \in Attempts : Of(x, "ENTRY")' => Of(x, "ENTRY"),
               \A x \in Attempts : Of(x, "ENTRY") /\ matched'[x] # 0 => matched[x] # 0
        PROVE  b = c
    BY <1>2, <1>3
  <1>4. CASE Quiet BY <1>3, <1>4 DEF Quiet, SameRow, Of
  <1>5. ASSUME NEW a \in Attempts, NEW side \in Sides, NEW size \in 1 .. MaxSize, Enter(a, side, size)
        PROVE  b = c
    <2>1. bet' = bet /\ matched' = matched /\ Remainder(bet) < Tick /\ MayTrade(a) BY <1>5 DEF Enter
    <2>2. bet = None
      <3>1. Remainder(bet) \in Nat BY <1>0, RemainderIsNat DEF PInv
      <3> QED BY <1>1, <2>1, <3>1, TickAssumption DEF Early
    <2>3. \A x \in Attempts : attempt[x] # None => matched[x] = 0
      BY <2>1, <2>2 DEF MayTrade, InFlight, Unmatched
    <2>4. \A x \in Attempts : x # a => attempt'[x] = attempt[x] BY <1>0, <1>5 DEF Enter, PInv, AttemptsOK
    <2> QED BY <2>1, <2>3, <2>4 DEF Of
  <1>6. ASSUME NEW a \in Attempts, Exit(a) PROVE b = c
    <2>1. PICK r : r = NewRow("EXIT", bet.side, (Remainder(bet) \div Tick) * Tick) OBVIOUS
    <2>2. attempt' = [attempt EXCEPT ![a] = r] /\ r.dir = "EXIT" /\ matched' = matched
      BY <1>0, <1>6, <2>1, NewRows DEF Exit
    <2>3. \A x \in Attempts : attempt'[x] = IF x = a THEN r ELSE attempt[x]
      BY <1>0, <2>2 DEF PInv, AttemptsOK
    <2> QED BY <1>3, <2>2, <2>3 DEF Of
  <1>7. ASSUME NEW a \in Attempts, Match(a) PROVE b = c
    <2>1. attempt' = attempt /\ matched[a] = -1 BY <1>7 DEF Match
    <2>2. \A x \in Attempts : x # a => matched'[x] = matched[x]
      BY <1>0, <1>7 DEF Match, PInv, AttemptsOK
    <2> QED BY <1>3, <2>1, <2>2 DEF Of
  <1>8. CASE Resolve
    <2>1. attempt' = attempt /\ \A x \in Attempts : matched'[x] # 0 => matched[x] # 0
      BY <1>8 DEF Resolve
    <2> QED BY <1>3, <2>1 DEF Of
  <1>9. ASSUME (\E a \in Attempts : Index(a)) \/ Consume PROVE b = c
    BY <1>3, <1>9 DEF Index, Consume, Of
  <1>10. ASSUME NEW p \in Workers, Book(p) PROVE b = c
    <2>0. pass[p].at = "book" /\ matched' = matched BY <1>10 DEF Book
    <2> PICK a \in Attempts : a = pass[p].a BY <1>0, <2>0, PassCarries DEF PInv
    <2>1. Kept(a) BY <1>0, <1>10, BookOutcome
    <2>2. attempt[a] # None BY <1>0, <2>0 DEF RowsInv, PassOK
    <2> QED BY <1>3, <2>0, <2>1, <2>2 DEF Kept, Of
  <1> QED BY <1>0, <1>4, <1>5, <1>6, <1>7, <1>8, <1>9, <1>10, Steps
\* When the row of one attempt changes, the shares of a direction move by what it books.
LEMMA SharesMove ==
    ASSUME MInv, MInv', NEW dir \in Dirs, NEW a \in Attempts,
           \A b \in Attempts \ {a} : SharesOf(b, dir)' = SharesOf(b, dir)
    PROVE  Shares(dir)' = Shares(dir) + SharesOf(a, dir)' - SharesOf(a, dir)
  <1>0. IsFiniteSet(Attempts) BY AttemptsAssumption
  <1>1. LedgerFits /\ LedgerFits' BY LedgerNow, LedgerNext
  <1> DEFINE f == [b \in Attempts |-> SharesOf(b, dir)]
             F == [b \in Attempts |-> SharesOf(b, dir)']
  <1>2. f \in [Attempts -> Int] /\ F \in [Attempts -> Int] BY <1>1 DEF LedgerFits
  <1>3. \A b \in Attempts \ {a} : F[b] = f[b] OBVIOUS
  <1>4. f[a] = SharesOf(a, dir) /\ F[a] = SharesOf(a, dir)' OBVIOUS
  <1>5. Shares(dir) = SumFunction(f) /\ Shares(dir)' = SumFunction(F) BY DEF Shares
  <1> HIDE DEF f, F
  <1>6. SumFunction(F) = SumFunction(f) + F[a] - f[a] BY <1>0, <1>2, <1>3, SumChange
  <1> QED BY <1>4, <1>5, <1>6

\* The shares of a direction stay when those of each attempt do.
LEMMA SharesStand ==
    ASSUME NEW dir, \A b \in Attempts : SharesOf(b, dir)' = SharesOf(b, dir)
    PROVE  Shares(dir)' = Shares(dir)
  <1>1. [b \in Attempts |-> SharesOf(b, dir)'] = [b \in Attempts |-> SharesOf(b, dir)] OBVIOUS
  <1> QED BY <1>1 DEF Shares

\* Only a booking moves shares.
SharesStill == \A dir \in Dirs : /\ Shares(dir)' = Shares(dir)
                                 /\ \A b \in Attempts : SharesOf(b, dir)' = SharesOf(b, dir)

\* A step that is no booking moves no share.
LEMMA SharesStay ==
    ASSUME Ground, [Next]_vars, ~ \E p \in Workers : Book(p)
    PROVE  SharesStill
  <1>0. PInv /\ RowsInv BY DEF Ground, MInv, AllInv
  <1>1. ASSUME \A dir \in Dirs : \A b \in Attempts : SharesOf(b, dir)' = SharesOf(b, dir)
        PROVE  SharesStill
    BY <1>1, SharesStand DEF SharesStill
  <1>2. CASE Quiet BY <1>1, <1>2 DEF Quiet, SameRow, SharesOf, Of
  <1>3. ASSUME NEW a \in Attempts, NEW r, MayTrade(a), attempt' = [attempt EXCEPT ![a] = r], r.booked = 0
        PROVE  SharesStill
    <2>1. \A b \in Attempts : attempt'[b] = IF b = a THEN r ELSE attempt[b]
      BY <1>0, <1>3 DEF PInv, AttemptsOK
    <2>2. attempt[a] = None BY <1>3 DEF MayTrade
    <2> QED BY <1>1, <1>3, <2>1, <2>2 DEF SharesOf, Of
  <1>4. ASSUME NEW a \in Attempts, NEW side \in Sides, NEW size \in 1 .. MaxSize, Enter(a, side, size)
        PROVE  SharesStill
    <2>1. NewRow("ENTRY", side, size).booked = 0 BY DEF NewRow
    <2> QED BY <1>3, <1>4, <2>1 DEF Enter
  <1>5. ASSUME NEW a \in Attempts, Exit(a) PROVE SharesStill
    <2>1. NewRow("EXIT", bet.side, (Remainder(bet) \div Tick) * Tick).booked = 0 BY DEF NewRow
    <2> QED BY <1>3, <1>5, <2>1 DEF Exit
  <1>6. ASSUME (\E a \in Attempts : Match(a) \/ Index(a)) \/ Resolve \/ Consume PROVE SharesStill
    <2>1. attempt' = attempt BY <1>6 DEF Match, Index, Resolve, Consume
    <2> QED BY <1>1, <2>1 DEF SharesOf, Of
  <1> QED BY <1>0, <1>2, <1>4, <1>5, <1>6, Steps

\* A booking moves the shares of one attempt, and the total of its direction by as much.
LEMMA SharesBooked ==
    ASSUME Ground, Ground', NEW p \in Workers, Book(p), NEW a \in Attempts, a = pass[p].a, NEW dir \in Dirs
    PROVE  /\ Shares(dir)' = Shares(dir) + (IF attempt[a].dir = dir
                                            THEN attempt'[a].booked - attempt[a].booked ELSE 0)
           /\ \A b \in Attempts : b # a \/ attempt[a].dir # dir => SharesOf(b, dir)' = SharesOf(b, dir)
           /\ attempt[a].dir = dir => /\ SharesOf(a, dir) = attempt[a].booked
                                      /\ SharesOf(a, dir)' = attempt'[a].booked
           /\ attempt'[a].booked \in Nat
  <1>0. PInv /\ RowsInv /\ MInv /\ MInv' BY DEF Ground, MInv, AllInv
  <1>1. Kept(a) BY <1>0, BookOutcome
  <1>2. attempt[a] # None
    <2>1. pass[p].at = "book" BY DEF Book
    <2> QED BY <1>0, <2>1 DEF RowsInv, PassOK
  <1>3. attempt[a].booked \in Nat /\ attempt'[a].booked \in Nat
    BY <1>0, <1>1, <1>2, RowShape DEF Kept, RowSet
  <1>4. \A b \in Attempts \ {a} : SharesOf(b, dir)' = SharesOf(b, dir)
    BY <1>1 DEF Kept, SharesOf, Of
  <1>5. Shares(dir)' = Shares(dir) + SharesOf(a, dir)' - SharesOf(a, dir) BY <1>0, <1>4, SharesMove
  <1>6. /\ attempt[a].dir = dir => /\ SharesOf(a, dir) = attempt[a].booked
                                   /\ SharesOf(a, dir)' = attempt'[a].booked
        /\ attempt[a].dir # dir => SharesOf(a, dir) = 0 /\ SharesOf(a, dir)' = 0
    BY <1>1, <1>2 DEF Kept, SharesOf, Of
  <1>7. Shares(dir) \in Nat BY <1>0, LedgerTotals
  <1> QED BY <1>3, <1>4, <1>5, <1>6, <1>7

\* In the first lot no row is of another lot.
LEMMA NoStaleLot ==
    ASSUME PInv, bet # None, bet.seq = 0, NEW row \in RowSet, row.lot # None => row.lot <= bet.seq
    PROVE  ~StaleLot(row)
  BY DEF StaleLot, RowSet

\* What a booking does to the first lot, where it is of all its fills after it.
LEMMA LotOneBooked ==
    ASSUME Ground, Ground', NEW p \in Workers, Book(p), NEW a \in Attempts, a = pass[p].a,
           NEW row, row = pass[p].row, NEW n, n = pass[p].total, InLotOne'
    PROVE  \/ Needless(p) /\ Unbooked(a, n) /\ InLotOne
           \/ ~Needless(p) /\ Merged(a, row, n) /\ InLotOne
           \/ ~Needless(p) /\ Opened(a, row, n) /\ bet = None
           \/ ~Needless(p) /\ Sold(a, row, n) /\ Remainder(bet) > 0 /\ InLotOne
  <1>0. PInv /\ RowsInv /\ MInv /\ FillsOK BY DEF Ground, MInv, AllInv, BoundsInv
  <1>1. /\ n \in Nat /\ n <= matched[a] /\ Kept(a) /\ attempt[a] # None /\ row.dir = attempt[a].dir
        /\ attempt[a].booked \in Nat /\ attempt[a].dir \in Dirs
        /\ row.lot # None => bet # None /\ row.lot <= bet.seq
        /\ \/ Needless(p) /\ Unbooked(a, n)
           \/ ~Needless(p) /\ Aside(a, row, n)
           \/ ~Needless(p) /\ Merged(a, row, n)
           \/ ~Needless(p) /\ Opened(a, row, n) /\ ~StaleLot(row)
           \/ ~Needless(p) /\ Sold(a, row, n) /\ Remainder(bet) # 0
    BY <1>0, BookCases
  <1>2. Shares("ENTRY")' = Shares("ENTRY") + (IF attempt[a].dir = "ENTRY"
                                              THEN attempt'[a].booked - attempt[a].booked ELSE 0)
        /\ Shares("ENTRY") \in Nat
    BY <1>0, SharesBooked, LedgerTotals DEF Dirs
  <1>3. bet' # None /\ bet'.seq = 0 /\ bet'.filled = Shares("ENTRY")' BY DEF InLotOne
  <1>4. bet # None => bet.filled \in Nat /\ bet.seq \in Nat /\ bet.filled <= Shares("ENTRY")
    BY <1>0, BetShape, EntriesBooked DEF FillsOK
  <1>5. CASE Needless(p) /\ Unbooked(a, n)
    <2>1. bet' = bet /\ attempt'[a].booked = attempt[a].booked BY <1>5 DEF Unbooked
    <2> QED BY <1>1, <1>2, <1>3, <1>5, <2>1 DEF InLotOne
  <1>6. CASE ~Needless(p) /\ Aside(a, row, n)
    <2>1. bet' = bet /\ bet # None /\ n > attempt[a].booked /\ attempt'[a].booked = n
      BY <1>6 DEF Aside, BookedAs
    <2>2. row \in RowSet
      <3>1. pass[p].at = "book" BY DEF Book
      <3> QED BY <1>0, <3>1, PassCarries DEF PInv
    <2>3. ~StaleLot(row) BY <1>0, <1>1, <1>3, <2>1, <2>2, NoStaleLot
    <2>4. attempt[a].dir = "ENTRY" BY <1>6, <2>3 DEF Aside
    <2> QED BY <1>1, <1>2, <1>3, <1>4, <2>1, <2>4
  <1>7. CASE ~Needless(p) /\ Merged(a, row, n)
    <2>1. /\ bet'.seq = bet.seq /\ bet'.filled = bet.filled + (n - attempt[a].booked) /\ bet # None
          /\ attempt[a].dir = "ENTRY" /\ attempt'[a].booked = n
      BY <1>0, <1>1, <1>7, BetMoved DEF Merged, BookedAs
    <2>2. bet.filled = Shares("ENTRY") BY <1>1, <1>2, <1>3, <1>4, <2>1
    <2> QED BY <1>3, <1>7, <2>1, <2>2 DEF InLotOne
  <1>8. CASE ~Needless(p) /\ Opened(a, row, n)
    <2>1. bet'.seq = IF bet = None THEN 0 ELSE bet.seq + 1 BY <1>0, <1>1, <1>8, BetMoved
    <2> QED BY <1>3, <1>4, <1>8, <2>1
  <1>9. CASE ~Needless(p) /\ Sold(a, row, n) /\ Remainder(bet) # 0
    <2>1. bet'.seq = bet.seq /\ bet'.filled = bet.filled /\ bet # None /\ attempt[a].dir = "EXIT"
      BY <1>0, <1>1, <1>9, BetMoved DEF Sold
    <2>2. Remainder(bet) > 0
      <3>1. Remainder(bet) \in Nat BY <1>0, RemainderIsNat DEF PInv
      <3> QED BY <1>9, <3>1
    <2> QED BY <1>2, <1>3, <1>9, <2>1, <2>2 DEF InLotOne
  <1> QED BY <1>1, <1>5, <1>6, <1>7, <1>8, <1>9

\* Steps that do not book leave the first lot as it is, or close it.
LEMMA LotOneStays ==
    ASSUME Ground, [Next]_vars, ~ \E p \in Workers : Book(p)
    PROVE  /\ SharesStill
           /\ \/ bet' = bet
              \/ /\ Consume /\ bet # None /\ Remainder(bet) > 0 /\ bet' # None
                 /\ bet'.seq = bet.seq /\ bet'.filled = bet.filled /\ bet'.closed = bet.filled
           /\ InLotOne' => InLotOne
  <1>0. PInv /\ RowsInv BY DEF Ground, MInv, AllInv
  <1>1. SharesStill BY SharesStay
  <1>2. \/ bet' = bet
        \/ /\ Consume /\ bet # None /\ Remainder(bet) > 0 /\ bet' # None
           /\ bet'.seq = bet.seq /\ bet'.filled = bet.filled /\ bet'.closed = bet.filled
    <2>1. CASE Consume
      <3>1. CASE Remainder(bet) > 0
        <4>1. bet # None /\ bet' = [bet EXCEPT !.closed = bet.filled, !.settled = TRUE]
          BY <2>1, <3>1 DEF Consume, Remainder
        <4>2. bet \in BetSet BY <1>0, <4>1, BetShape
        <4>3. /\ bet' \in BetSet /\ bet'.seq = bet.seq /\ bet'.filled = bet.filled
              /\ bet'.closed = bet.filled
          BY <4>1, <4>2 DEF BetSet
        <4> QED BY <2>1, <3>1, <4>1, <4>3, NoneAssumption
      <3>2. CASE ~(Remainder(bet) > 0) BY <2>1, <3>2 DEF Consume
      <3> QED BY <3>1, <3>2
    <2>2. ASSUME NEW a \in Attempts,
                 \/ \E side \in Sides, size \in 1 .. MaxSize : Enter(a, side, size)
                 \/ Exit(a) \/ Match(a) \/ Index(a)
          PROVE  bet' = bet
      BY <2>2 DEF Enter, Exit, Match, Index
    <2>3. CASE Quiet \/ Resolve BY <2>3 DEF Quiet, Resolve
    <2> QED BY <1>0, <2>1, <2>2, <2>3, Steps
  <1>3. Shares("ENTRY")' = Shares("ENTRY") BY <1>1 DEF SharesStill, Dirs
  <1> QED BY <1>1, <1>2, <1>3 DEF InLotOne

\* The first lot is of one entry as long as it takes all fills.
LEMMA OneFillsMoves ==
    ASSUME Ground, Ground', OneEntry, OneFills, [Next]_vars
    PROVE  OneFills'
  <1>0. PInv /\ RowsInv /\ MInv BY DEF Ground, MInv, AllInv
  <1> SUFFICES ASSUME InLotOne', NEW b \in Attempts, NEW c \in Attempts,
                      SharesOf(b, "ENTRY")' > 0, SharesOf(c, "ENTRY")' > 0
               PROVE  b = c
    BY DEF OneFills
  <1>1. CASE ~ \E p \in Workers : Book(p)
    <2>1. InLotOne /\ SharesStill BY <1>1, LotOneStays
    <2>2. SharesOf(b, "ENTRY") > 0 /\ SharesOf(c, "ENTRY") > 0 BY <2>1 DEF SharesStill, Dirs
    <2> QED BY <2>1, <2>2 DEF OneFills
  <1>2. ASSUME NEW p \in Workers, Book(p) PROVE b = c
    <2>0. pass[p].at = "book" BY <1>2 DEF Book
    <2> PICK a \in Attempts : a = pass[p].a BY <1>0, <2>0, PassCarries DEF PInv
    <2> PICK row : row = pass[p].row OBVIOUS
    <2> PICK n : n = pass[p].total OBVIOUS
    <2>1. /\ n \in Nat /\ n <= matched[a] /\ Kept(a) /\ attempt[a] # None /\ attempt[a].dir \in Dirs
          /\ attempt[a].booked \in Nat
      BY <1>0, <1>2, BookCases
    <2>2. /\ \A x \in Attempts : x # a \/ attempt[a].dir # "ENTRY" =>
                SharesOf(x, "ENTRY")' = SharesOf(x, "ENTRY")
          /\ attempt[a].dir = "ENTRY" => SharesOf(a, "ENTRY") = attempt[a].booked
                                         /\ SharesOf(a, "ENTRY")' = attempt'[a].booked
      BY <1>2, SharesBooked DEF Dirs
    <2>3. CASE Unbooked(a, n) /\ InLotOne
      <3>1. attempt'[a].booked = attempt[a].booked BY <2>3 DEF Unbooked
      <3>2. \A x \in Attempts : SharesOf(x, "ENTRY")' = SharesOf(x, "ENTRY") BY <2>2, <3>1
      <3> QED BY <2>3, <3>2 DEF OneFills
    <2>4. CASE Merged(a, row, n) /\ InLotOne
      <3>1. bet.seq = 0 /\ Remainder(bet) >= Tick /\ attempt[a].dir = "ENTRY" /\ n > attempt[a].booked
        BY <2>4 DEF Merged, InLotOne, BookedAs
      <3>2. \A x, y \in Attempts : Of(x, "ENTRY") /\ Of(y, "ENTRY") /\ matched[x] # 0 /\ matched[y] # 0
              => x = y
        BY <3>1 DEF OneEntry
      <3>3. \A x \in Attempts : SharesOf(x, "ENTRY") > 0 => Of(x, "ENTRY") /\ matched[x] # 0
        <4> SUFFICES ASSUME NEW x \in Attempts, SharesOf(x, "ENTRY") > 0
                     PROVE  Of(x, "ENTRY") /\ matched[x] # 0
          OBVIOUS
        <4>1. Of(x, "ENTRY") /\ attempt[x].booked > 0 BY DEF SharesOf
        <4>2. RowOK(x) /\ attempt[x].booked \in Nat /\ indexed[x] \in Nat /\ matched[x] \in Int
          BY <1>0, <4>1, RowShape DEF RowsInv, Of
        <4> QED BY <4>1, <4>2 DEF RowOK, Of
      <3>4. Of(a, "ENTRY") /\ matched[a] # 0
        <4>1. matched[a] \in Int BY <1>0, RowShape
        <4> QED BY <2>1, <3>1, <4>1 DEF Of
      <3>5. \A x \in Attempts : SharesOf(x, "ENTRY")' > 0 => x = a BY <2>2, <3>2, <3>3, <3>4
      <3> QED BY <3>5
    <2>5. CASE Opened(a, row, n) /\ bet = None
      <3>1. \A x \in Attempts : SharesOf(x, "ENTRY") = 0
        <4> SUFFICES ASSUME NEW x \in Attempts, Of(x, "ENTRY") PROVE attempt[x].booked = 0
          BY DEF SharesOf
        <4>1. attempt[x].booked \in Nat /\ RowOK(x) BY <1>0, RowShape DEF RowsInv, Of
        <4> QED BY <2>5, <4>1 DEF RowOK, Of
      <3>2. \A x \in Attempts : SharesOf(x, "ENTRY")' > 0 => x = a BY <2>2, <3>1
      <3> QED BY <3>2
    <2>6. CASE Sold(a, row, n) /\ InLotOne
      <3>1. attempt[a].dir # "ENTRY" BY <2>6 DEF Sold
      <3> QED BY <2>2, <2>6, <3>1 DEF OneFills
    <2> QED BY <1>2, <2>3, <2>4, <2>5, <2>6, LotOneBooked
  <1> QED BY <1>1, <1>2

\* A sale that does not close the lot closes just what it sold.
LEMMA ClosingExact ==
    ASSUME BetOK, NEW d \in Nat, d > 0
    PROVE  /\ Closing(d) < Remainder(bet) => Closing(d) = d
           /\ d <= Closing(d) => Smaller(d, Remainder(bet)) = d
  <1>1. Remainder(bet) \in Nat BY RemainderIsNat
  <1> QED BY <1>1, TickAssumption DEF Closing, Smaller

\* Nothing is closed but by sales, before the lot is closed.
LEMMA SalesCloseMoves ==
    ASSUME Ground, Ground', SalesClose, [Next]_vars
    PROVE  SalesClose'
  <1>0. PInv /\ RowsInv /\ MInv BY DEF Ground, MInv, AllInv
  <1> SUFFICES ASSUME InLotOne', Remainder(bet') > 0 PROVE Shares("EXIT")' = bet'.closed
    BY DEF SalesClose
  <1>1. CASE ~ \E p \in Workers : Book(p)
    <2>1. InLotOne /\ SharesStill BY <1>1, LotOneStays
    <2>2. bet' = bet
      <3> SUFFICES ASSUME bet' # None, bet'.filled = bet.filled, bet'.closed = bet.filled, bet # None
                   PROVE  FALSE
        BY <1>1, LotOneStays
      <3>1. bet.filled \in Nat BY <1>0, BetShape
      <3> QED BY <3>1 DEF Remainder
    <2> QED BY <2>1, <2>2 DEF SalesClose, SharesStill, Dirs
  <1>2. ASSUME NEW p \in Workers, Book(p) PROVE Shares("EXIT")' = bet'.closed
    <2>0. pass[p].at = "book" BY <1>2 DEF Book
    <2> PICK a \in Attempts : a = pass[p].a BY <1>0, <2>0, PassCarries DEF PInv
    <2> PICK row : row = pass[p].row OBVIOUS
    <2> PICK n : n = pass[p].total OBVIOUS
    <2>1. n \in Nat /\ attempt[a] # None /\ attempt[a].dir \in Dirs /\ attempt[a].booked \in Nat
      BY <1>0, <1>2, BookCases
    <2>2. Shares("EXIT")' = Shares("EXIT") + (IF attempt[a].dir = "EXIT"
                                              THEN attempt'[a].booked - attempt[a].booked ELSE 0)
          /\ Shares("EXIT") \in Nat
      BY <1>0, <1>2, SharesBooked, LedgerTotals DEF Dirs
    <2>3. CASE Unbooked(a, n) /\ InLotOne
      <3>1. bet' = bet /\ attempt'[a].booked = attempt[a].booked BY <2>3 DEF Unbooked
      <3> QED BY <2>1, <2>2, <2>3, <3>1 DEF SalesClose
    <2>4. CASE Merged(a, row, n) /\ InLotOne
      <3>1. /\ bet'.closed = bet.closed /\ Remainder(bet) >= Tick /\ attempt[a].dir = "ENTRY"
        BY <1>0, <2>1, <2>4, BetMoved DEF Merged
      <3>2. Remainder(bet) > 0
        <4>1. Remainder(bet) \in Nat BY <1>0, RemainderIsNat DEF PInv
        <4> QED BY <3>1, <4>1, TickAssumption
      <3> QED BY <2>2, <2>4, <3>1, <3>2 DEF SalesClose
    <2>5. CASE Opened(a, row, n) /\ bet = None
      <3>1. \A x \in Attempts : SharesOf(x, "EXIT") = 0
        <4> SUFFICES ASSUME NEW x \in Attempts, Of(x, "EXIT") PROVE FALSE
          BY DEF SharesOf
        <4> QED BY <1>0, <2>5 DEF RowOK, Of, RowsInv
      <3>2. Shares("EXIT") = 0
        <4>1. IsFiniteSet(Attempts) BY AttemptsAssumption
        <4> DEFINE f == [x \in Attempts |-> SharesOf(x, "EXIT")]
        <4>2. f \in [Attempts -> Int] /\ \A x \in Attempts : f[x] = 0 BY <3>1
        <4>3. Shares("EXIT") = SumFunction(f) BY DEF Shares
        <4> HIDE DEF f
        <4> QED BY <4>1, <4>2, <4>3, SumZero
      <3>3. bet'.closed = 0 /\ attempt[a].dir = "ENTRY" BY <1>0, <2>1, <2>5, BetMoved DEF Opened
      <3> QED BY <2>2, <3>2, <3>3
    <2>6. CASE Sold(a, row, n) /\ Remainder(bet) > 0 /\ InLotOne
      <3>1. PICK d : d = n - attempt[a].booked OBVIOUS
      <3>2. /\ bet'.filled = bet.filled /\ bet'.closed = bet.closed + Closing(d) /\ bet # None
            /\ Closing(d) \in Nat /\ Closing(d) <= Remainder(bet) /\ attempt[a].dir = "EXIT"
            /\ attempt'[a].booked = n /\ n > attempt[a].booked /\ bet' \in BetSet
        <4>1. /\ bet' \in BetSet /\ bet'.filled = bet.filled
              /\ bet'.closed = bet.closed + Closing(n - attempt[a].booked)
              /\ Closing(n - attempt[a].booked) \in Nat
              /\ Closing(n - attempt[a].booked) <= Remainder(bet)
          BY <1>0, <2>1, <2>6, BetMoved
        <4>2. bet # None /\ attempt[a].dir = "EXIT" /\ attempt'[a].booked = n /\ n > attempt[a].booked
          BY <2>6 DEF Sold, BookedAs
        <4> QED BY <3>1, <4>1, <4>2
      <3>3. /\ bet.filled \in Nat /\ bet.closed \in Nat /\ Remainder(bet) = bet.filled - bet.closed
            /\ Remainder(bet') = bet'.filled - bet'.closed
        BY <1>0, <3>2, BetShape, NoneAssumption DEF Remainder
      <3>4. d \in Nat /\ d > 0 BY <2>1, <3>1, <3>2
      <3>5. Closing(d) = d
        <4>1. Closing(d) < Remainder(bet) BY <3>2, <3>3
        <4> QED BY <1>0, <3>4, <4>1, ClosingExact DEF PInv
      <3>6. Shares("EXIT") = bet.closed BY <2>6 DEF SalesClose
      <3> QED BY <2>1, <2>2, <3>1, <3>2, <3>5, <3>6
    <2> QED BY <1>2, <2>3, <2>4, <2>5, <2>6, LotOneBooked
  <1> QED BY <1>1, <1>2
\* What an attempt sold is a number.
LEMMA SoldTypes ==
    ASSUME PInv
    PROVE  \A s \in Sides : /\ [x \in Attempts |-> SoldOf(x, s)] \in [Attempts -> Nat]
                            /\ SoldShares(s) \in Nat
  <1> SUFFICES ASSUME NEW s \in Sides
               PROVE  /\ [x \in Attempts |-> SoldOf(x, s)] \in [Attempts -> Nat]
                      /\ SoldShares(s) \in Nat
    OBVIOUS
  <1>0. IsFiniteSet(Attempts) BY AttemptsAssumption
  <1>1. \A x \in Attempts : SoldOf(x, s) \in Nat
    <2>1. \A x \in Attempts : matched[x] \in Int BY RowShape
    <2> QED BY <2>1 DEF SoldOf, Sales
  <1> DEFINE f == [x \in Attempts |-> SoldOf(x, s)]
  <1>2. f \in [Attempts -> Nat] BY <1>1
  <1>3. SoldShares(s) = SumFunction(f) BY DEF SoldShares
  <1>4. SumFunction(f) \in Nat
    <2> HIDE DEF f
    <2> QED BY <1>0, <1>2, SumNat
  <1> QED BY <1>2, <1>3, <1>4

\* Sales that stay, stay sold.
LEMMA SoldStand ==
    ASSUME \A x \in Attempts : \A s \in Sides : SoldOf(x, s)' = SoldOf(x, s)
    PROVE  \A s \in Sides : SoldShares(s)' = SoldShares(s)
  <1> SUFFICES ASSUME NEW s \in Sides PROVE SoldShares(s)' = SoldShares(s) OBVIOUS
  <1>1. [x \in Attempts |-> SoldOf(x, s)'] = [x \in Attempts |-> SoldOf(x, s)] OBVIOUS
  <1> QED BY <1>1 DEF SoldShares

\* Only a match sells.
LEMMA SoldStay ==
    ASSUME PInv, RowsInv, [Next]_vars, ~ \E a \in Attempts : Match(a)
    PROVE  \A s \in Sides : SoldShares(s)' = SoldShares(s)
  <1>1. CASE Quiet
    <2>1. \A x \in Attempts : \A s \in Sides : SoldOf(x, s)' = SoldOf(x, s)
      BY <1>1 DEF Quiet, SameRow, SoldOf, Sales
    <2> QED BY <2>1, SoldStand
  <1>2. ASSUME NEW a \in Attempts, NEW r, MayTrade(a), attempt' = [attempt EXCEPT ![a] = r], matched' = matched
        PROVE  \A s \in Sides : SoldShares(s)' = SoldShares(s)
    <2>1. \A x \in Attempts : attempt'[x] = IF x = a THEN r ELSE attempt[x]
      BY <1>2 DEF PInv, AttemptsOK
    <2>2. matched[a] = -1 BY <1>2 DEF MayTrade, RowsInv, RowOK
    <2>3. \A x \in Attempts : \A s \in Sides : SoldOf(x, s)' = SoldOf(x, s)
      BY <1>2, <2>1, <2>2 DEF SoldOf, Sales
    <2> QED BY <2>3, SoldStand
  <1>3. ASSUME NEW a \in Attempts, NEW side \in Sides, NEW size \in 1 .. MaxSize, Enter(a, side, size)
        PROVE  \A s \in Sides : SoldShares(s)' = SoldShares(s)
    BY <1>2, <1>3 DEF Enter
  <1>4. ASSUME NEW a \in Attempts, Exit(a) PROVE \A s \in Sides : SoldShares(s)' = SoldShares(s)
    BY <1>2, <1>4 DEF Exit
  <1>5. ASSUME (\E a \in Attempts : Index(a)) \/ Consume PROVE \A s \in Sides : SoldShares(s)' = SoldShares(s)
    <2>1. attempt' = attempt /\ matched' = matched BY <1>5 DEF Index, Consume
    <2>2. \A x \in Attempts : \A s \in Sides : SoldOf(x, s)' = SoldOf(x, s) BY <2>1 DEF SoldOf, Sales
    <2> QED BY <2>2, SoldStand
  <1>6. CASE Resolve
    <2>1. attempt' = attempt
          /\ \A x \in Attempts : matched'[x] = matched[x] \/ (matched[x] = -1 /\ matched'[x] = 0)
      BY <1>6 DEF Resolve
    <2>2. \A x \in Attempts : \A s \in Sides : SoldOf(x, s)' = SoldOf(x, s) BY <2>1 DEF SoldOf, Sales
    <2> QED BY <2>2, SoldStand
  <1>7. ASSUME NEW p \in Workers, Book(p) PROVE \A s \in Sides : SoldShares(s)' = SoldShares(s)
    <2>0. pass[p].at = "book" /\ matched' = matched BY <1>7 DEF Book
    <2> PICK a \in Attempts : a = pass[p].a BY <2>0, PassCarries DEF PInv
    <2>1. Kept(a) BY <1>7, BookOutcome
    <2>2. attempt[a] # None BY <2>0 DEF RowsInv, PassOK
    <2>3. \A x \in Attempts : \A s \in Sides : SoldOf(x, s)' = SoldOf(x, s)
      BY <2>0, <2>1, <2>2 DEF Kept, SoldOf, Sales
    <2> QED BY <2>3, SoldStand
  <1> QED BY <1>1, <1>3, <1>4, <1>5, <1>6, <1>7, Steps

\* A match of a sale adds to what is sold on its side.
LEMMA SoldMoves ==
    ASSUME PInv, PInv', NEW a \in Attempts, Match(a), NEW n \in Nat, matched' = [matched EXCEPT ![a] = n],
           NEW s \in Sides
    PROVE  SoldShares(s)' = SoldShares(s) + (IF attempt[a].dir = "EXIT" /\ attempt[a].side = s THEN n ELSE 0)
  <1>0. IsFiniteSet(Attempts) BY AttemptsAssumption
  <1>1. attempt' = attempt /\ matched[a] = -1 /\ attempt[a] # None BY DEF Match
  <1>2. matched'[a] = n /\ \A x \in Attempts : x # a => matched'[x] = matched[x]
    BY DEF PInv, AttemptsOK
  <1> DEFINE f == [x \in Attempts |-> SoldOf(x, s)]
             F == [x \in Attempts |-> SoldOf(x, s)']
  <1>3. f \in [Attempts -> Int] /\ F \in [Attempts -> Int]
    <2>1. \A x \in Attempts : SoldOf(x, s) \in Int
      <3>1. \A x \in Attempts : matched[x] \in Int BY RowShape
      <3> QED BY <3>1 DEF SoldOf
    <2>2. \A x \in Attempts : SoldOf(x, s)' \in Int
      <3>1. \A x \in Attempts : matched'[x] \in Int BY DEF PInv, AttemptsOK
      <3> QED BY <3>1 DEF SoldOf
    <2> QED BY <2>1, <2>2
  <1>4. \A x \in Attempts \ {a} : F[x] = f[x] BY <1>1, <1>2 DEF SoldOf, Sales
  <1>5. f[a] = 0 /\ F[a] = IF attempt[a].dir = "EXIT" /\ attempt[a].side = s THEN n ELSE 0
    BY <1>1, <1>2 DEF SoldOf, Sales
  <1>6. SoldShares(s) = SumFunction(f) /\ SoldShares(s)' = SumFunction(F) BY DEF SoldShares
  <1> HIDE DEF f, F
  <1>7. SumFunction(F) = SumFunction(f) + F[a] - f[a] BY <1>0, <1>3, <1>4, SumChange
  <1>8. SumFunction(f) \in Int BY <1>0, <1>3, SumType
  <1> QED BY <1>5, <1>6, <1>7, <1>8

\* No token is sold that was not bought.
LEMMA ConservedMoves ==
    ASSUME Ground, Ground', Conserved, [Next]_vars
    PROVE  Conserved'
  <1>0. PInv /\ RowsInv /\ PInv' /\ RowsInv' /\ HoldingsOK BY DEF Ground, MInv, AllInv, BoundsInv
  <1>1. \A s \in Sides : /\ wallet[s] \in Nat /\ burned[s] \in Nat /\ SoldShares(s) \in Nat
                         /\ BoughtShares(s) \in Nat
                         /\ wallet[s] + burned[s] + SoldShares(s) <= BoughtShares(s)
    BY <1>0, SoldTypes, TotalTypes DEF HoldingsOK, Conserved
  <1>2. ASSUME TotalsStill, UNCHANGED <<wallet, burned>>, ~ \E a \in Attempts : Match(a) PROVE Conserved'
    BY <1>0, <1>2, SoldStay DEF Conserved, TotalsStill
  <1>3. ASSUME NEW a \in Attempts, Match(a) PROVE Conserved'
    <2>1. PICK n \in Nat :
            /\ attempt[a].dir = "EXIT" => n <= wallet[attempt[a].side]
            /\ matched' = [matched EXCEPT ![a] = n]
            /\ wallet' = [wallet EXCEPT ![attempt[a].side] =
                            IF attempt[a].dir = "ENTRY" THEN @ + n ELSE @ - n]
      <3>1. PICK n \in 0 .. attempt[a].size :
              /\ attempt[a].dir = "EXIT" => n <= wallet[attempt[a].side]
              /\ matched' = [matched EXCEPT ![a] = n]
              /\ wallet' = [wallet EXCEPT ![attempt[a].side] =
                              IF attempt[a].dir = "ENTRY" THEN @ + n ELSE @ - n]
        BY <1>3 DEF Match
      <3>2. attempt[a].size \in Int BY <1>0, <1>3, RowShape DEF Match
      <3>3. n \in Nat BY <3>1, <3>2
      <3> QED BY <3>1, <3>3
    <2>2. /\ attempt[a].side \in Sides /\ attempt[a].dir \in {"ENTRY", "EXIT"} /\ burned' = burned
          /\ attempt' = attempt /\ matched[a] = -1 /\ attempt[a] # None
      BY <1>0, <1>3, RowShape DEF Match
    <2>3. ASSUME NEW s \in Sides
          PROVE  wallet'[s] + burned'[s] + SoldShares(s)' <= BoughtShares(s)'
      <3>1. SoldShares(s)' = SoldShares(s) + (IF attempt[a].dir = "EXIT" /\ attempt[a].side = s THEN n ELSE 0)
        BY <1>0, <1>3, <2>1, SoldMoves
      <3>2. BoughtShares(s)' = BoughtShares(s) + (IF attempt[a].dir = "ENTRY" /\ attempt[a].side = s THEN n ELSE 0)
        <4>1. IsFiniteSet(Attempts) BY AttemptsAssumption
        <4>2. matched'[a] = n /\ \A x \in Attempts : x # a => matched'[x] = matched[x]
          BY <1>0, <2>1 DEF PInv, AttemptsOK
        <4> DEFINE f == [x \in Attempts |-> Bought(x, s)]
                   F == [x \in Attempts |-> Bought(x, s)']
        <4>3. f \in [Attempts -> Int] /\ F \in [Attempts -> Int]
          <5>1. \A x \in Attempts : matched[x] \in Int /\ matched'[x] \in Int
            BY <1>0 DEF PInv, AttemptsOK
          <5> QED BY <5>1 DEF Bought
        <4>4. \A x \in Attempts \ {a} : F[x] = f[x] BY <2>2, <4>2 DEF Bought, IsBuy
        <4>5. f[a] = 0 /\ F[a] = IF attempt[a].dir = "ENTRY" /\ attempt[a].side = s THEN n ELSE 0
          BY <2>2, <4>2 DEF Bought, IsBuy
        <4>6. BoughtShares(s) = SumFunction(f) /\ BoughtShares(s)' = SumFunction(F) BY DEF BoughtShares
        <4> HIDE DEF f, F
        <4>7. SumFunction(F) = SumFunction(f) + F[a] - f[a] BY <4>1, <4>3, <4>4, SumChange
        <4>8. SumFunction(f) \in Int BY <4>1, <4>3, SumType
        <4> QED BY <4>5, <4>6, <4>7, <4>8
      <3>3. wallet'[s] = IF attempt[a].side = s
                         THEN IF attempt[a].dir = "ENTRY" THEN wallet[s] + n ELSE wallet[s] - n
                         ELSE wallet[s]
        BY <1>0, <2>1, <2>2 DEF HoldingsOK
      <3> QED BY <1>1, <2>2, <3>1, <3>2, <3>3
    <2> QED BY <2>3 DEF Conserved
  <1>4. ASSUME NEW p \in Workers, Book(p) PROVE Conserved'
    <2>0. pass[p].at = "book" /\ UNCHANGED <<wallet, burned>> BY <1>4 DEF Book
    <2> PICK a \in Attempts : a = pass[p].a BY <1>0, <2>0, PassCarries DEF PInv
    <2>1. \A s \in Sides : BoughtShares(s)' = BoughtShares(s) BY <1>0, <1>4, BookTotals
    <2>2. \A s \in Sides : SoldShares(s)' = SoldShares(s)
      <3>1. ~ \E x \in Attempts : Match(x)
        <4> SUFFICES ASSUME NEW x \in Attempts, Match(x) PROVE FALSE OBVIOUS
        <4>1. pass' = pass BY DEF Match
        <4>2. pass'[p].at # "book" BY <1>0, <1>4 DEF Book, PInv, PassesOK, Idle
        <4> QED BY <2>0, <4>1, <4>2
      <3> QED BY <1>0, <3>1, SoldStay
    <2> QED BY <2>0, <2>1, <2>2 DEF Conserved
  <1>5. ASSUME NEW side \in Sides, Redeem(side) PROVE Conserved'
    <2>1. /\ burned' = [burned EXCEPT ![side] = @ + wallet[side]]
          /\ wallet' = [wallet EXCEPT ![side] = 0] /\ matched' = matched
      BY <1>5 DEF Redeem
    <2>2. Quiet BY <1>0, <1>5, QuietSteps
    <2>3. TotalsStill BY <1>0, <2>2, StillSteps
    <2>4. \A s \in Sides : SoldShares(s)' = SoldShares(s)
      <3>1. \A x \in Attempts : \A s \in Sides : SoldOf(x, s)' = SoldOf(x, s)
        BY <2>2 DEF Quiet, SameRow, SoldOf, Sales
      <3> QED BY <3>1, SoldStand
    <2>5. ASSUME NEW t \in Sides PROVE wallet'[t] + burned'[t] = wallet[t] + burned[t]
      BY <1>0, <1>1, <2>1 DEF HoldingsOK
    <2> QED BY <1>1, <2>3, <2>4, <2>5 DEF Conserved, TotalsStill
  <1>6. ASSUME NEW p \in Workers, \/ \E a \in Attempts : Read(p, a)
                                  \/ Probe(p) \/ TrueUp(p) \/ PassDies(p)
        PROVE  Conserved'
    <2>1. UNCHANGED <<wallet, burned, matched>> BY <1>6 DEF Read, Probe, TrueUp, PassDies
    <2>2. Quiet BY <1>0, <1>6, QuietSteps
    <2>3. ~ \E a \in Attempts : Match(a)
      BY <1>0, <2>1 DEF Match, PInv, AttemptsOK
    <2> QED BY <1>0, <1>2, <2>1, <2>2, <2>3, StillSteps
  <1>7. ASSUME Scan \/ Plan \/ SettleDies \/ UNCHANGED vars PROVE Conserved'
    <2>1. UNCHANGED <<wallet, burned, matched>> BY <1>7 DEF Scan, Plan, SettleDies, vars
    <2>2. Quiet BY <1>0, <1>7, QuietSteps
    <2>3. ~ \E a \in Attempts : Match(a)
      BY <1>0, <2>1 DEF Match, PInv, AttemptsOK
    <2> QED BY <1>0, <1>2, <2>1, <2>2, <2>3, StillSteps
  <1>8. ASSUME NEW a \in Attempts,
               \/ \E side \in Sides, size \in 1 .. MaxSize : Enter(a, side, size)
               \/ Exit(a) \/ Index(a)
        PROVE  Conserved'
    <2>1. UNCHANGED <<wallet, burned, matched>> BY <1>8 DEF Enter, Exit, Index
    <2>2. TotalsStill BY <1>0, <1>8, StillSteps
    <2>3. ~ \E b \in Attempts : Match(b)
      BY <1>0, <2>1 DEF Match, PInv, AttemptsOK
    <2> QED BY <1>2, <2>1, <2>2, <2>3
  <1>9. ASSUME Resolve \/ Consume PROVE Conserved'
    <2>1. UNCHANGED <<wallet, burned>> BY <1>9 DEF Resolve, Consume
    <2>2. TotalsStill BY <1>0, <1>9, StillSteps
    <2>3. \A s \in Sides : SoldShares(s)' = SoldShares(s)
      <3>1. attempt' = attempt
            /\ \A x \in Attempts : matched'[x] = matched[x] \/ (matched[x] = -1 /\ matched'[x] = 0)
        BY <1>9 DEF Resolve, Consume
      <3>2. \A x \in Attempts : \A s \in Sides : SoldOf(x, s)' = SoldOf(x, s) BY <3>1 DEF SoldOf, Sales
      <3> QED BY <3>2, SoldStand
    <2> QED BY <2>1, <2>2, <2>3 DEF Conserved, TotalsStill
  <1> QED BY <1>3, <1>4, <1>5, <1>6, <1>7, <1>8, <1>9 DEF Next

\* Every step keeps what the attempts and the first lot know of each other.
LEMMA LotNext ==
    ASSUME Ground, Ground', LotInv, [Next]_vars
    PROVE  LotInv'
  <1>0. /\ FinalOK /\ (\A p \in Workers : TotalOK(p)) /\ Unmatched
        /\ OneEntry /\ OneFills /\ SalesClose /\ Conserved
    BY DEF LotInv
  <1>1. FinalOK' BY <1>0, FinalMoves
  <1>2. \A p \in Workers : TotalOK(p)' BY <1>0, TotalMoves
  <1>3. Unmatched' BY <1>0, UnmatchedMoves
  <1>4. OneEntry' BY <1>0, OneEntryMoves
  <1>5. OneFills' BY <1>0, OneFillsMoves
  <1>6. SalesClose' BY <1>0, SalesCloseMoves
  <1>7. Conserved' BY <1>0, ConservedMoves
  <1> QED BY <1>1, <1>2, <1>3, <1>4, <1>5, <1>6, <1>7 DEF LotInv
-----------------------------------------------------------------------------
(* What the fills, the passes and the first row know of the money.         *)

\* Rows stay, new ones have booked nothing, and the position and its money are not touched.
MoneyStands ==
    /\ \A b \in Attempts : attempt[b] # None => attempt'[b] = attempt[b]
    /\ \A b \in Attempts : attempt[b] = None /\ attempt'[b] # None => attempt'[b].booked = 0 /\ ~attempt'[b].final
    /\ UNCHANGED <<bet, paid, fills, books, diluted>>

\* The steps, sorted by what they do to the money.
LEMMA MoneySteps ==
    ASSUME PInv, [MoneyNext]_<<vars, money>>
    PROVE  \/ MoneyStands /\ ((\E a \in Attempts : MatchAt(a)) \/ price' = price)
           \/ \E p \in Workers : BookMoney(p) \/ TrueUpMoney(p)
           \/ ConsumeMoney
  <1>1. ASSUME attempt' = attempt, UNCHANGED <<bet, paid, fills, books, diluted>> PROVE MoneyStands
    BY <1>1 DEF MoneyStands
  <1>2. ASSUME NEW a \in Attempts, NEW r, MayTrade(a), attempt' = [attempt EXCEPT ![a] = r],
               r.booked = 0, ~r.final, UNCHANGED <<bet, paid, fills, books, diluted>>
        PROVE  MoneyStands
    <2>1. \A b \in Attempts : attempt'[b] = IF b = a THEN r ELSE attempt[b]
      BY <1>2 DEF PInv, AttemptsOK
    <2> QED BY <1>2, <2>1 DEF MoneyStands, MayTrade
  <1>3. ASSUME NEW a \in Attempts, NEW side \in Sides, NEW size \in 1 .. MaxSize, Enter(a, side, size),
               UNCHANGED money
        PROVE  MoneyStands
    <2>1. PICK r : r = NewRow("ENTRY", side, size) OBVIOUS
    <2>2. r.booked = 0 /\ ~r.final BY <2>1 DEF NewRow
    <2>3. MayTrade(a) /\ attempt' = [attempt EXCEPT ![a] = r] /\ UNCHANGED <<bet, paid>>
      BY <1>3, <2>1 DEF Enter
    <2>4. UNCHANGED <<fills, books, diluted>> BY <1>3 DEF money
    <2> QED BY <1>2, <2>2, <2>3, <2>4
  <1>4. ASSUME NEW a \in Attempts, Exit(a), UNCHANGED money PROVE MoneyStands
    <2>1. PICK r : r = NewRow("EXIT", bet.side, (Remainder(bet) \div Tick) * Tick) OBVIOUS
    <2>2. r.booked = 0 /\ ~r.final BY <2>1 DEF NewRow
    <2>3. MayTrade(a) /\ attempt' = [attempt EXCEPT ![a] = r] /\ UNCHANGED <<bet, paid>>
      BY <1>4, <2>1 DEF Exit
    <2>4. UNCHANGED <<fills, books, diluted>> BY <1>4 DEF money
    <2> QED BY <1>2, <2>2, <2>3, <2>4
  <1>5. ASSUME \/ \E a \in Attempts : Index(a)
               \/ (\E side \in Sides : Redeem(side)) \/ Resolve \/ Scan \/ Plan \/ SettleDies \/ UNCHANGED vars,
               UNCHANGED money
        PROVE  MoneyStands
    <2>1. attempt' = attempt /\ UNCHANGED <<bet, paid>>
      BY <1>5 DEF Index, Redeem, Resolve, Scan, Plan, SettleDies, vars
    <2>2. UNCHANGED <<fills, books, diluted>> BY <1>5 DEF money
    <2> QED BY <1>1, <2>1, <2>2
  <1>6. ASSUME NEW a \in Attempts, MatchAt(a) PROVE MoneyStands
    BY <1>1, <1>6 DEF MatchAt, Match
  <1>7. ASSUME NEW a \in Attempts, NEW p \in Workers, ReadAs(p, a) PROVE MoneyStands /\ price' = price
    BY <1>1, <1>7 DEF ReadAs, Read
  <1>8. ASSUME NEW p \in Workers, ProbeFee(p) \/ EndPass(p) PROVE MoneyStands /\ price' = price
    BY <1>1, <1>8 DEF ProbeFee, Probe, EndPass, PassDies
  <1>9. UNCHANGED money => price' = price BY DEF money
  <1> QED BY <1>3, <1>4, <1>5, <1>6, <1>7, <1>8, <1>9 DEF MoneyNext

\* A booking that is needed makes up exactly for the amount that the attempt lacks.
LEMMA AmountMadeUp ==
    ASSUME MInv, RowsInv, FillsFit, NEW p \in Workers, BookMoney(p), ~Needless(p),
           NEW a \in Attempts, a = pass[p].a, NEW n, n = pass[p].total
    PROVE  /\ n \in Nat /\ attempt[a].booked \in Nat /\ n > attempt[a].booked /\ attempt[a] # None
           /\ price[a] \in Nat /\ Delta(p) = n - attempt[a].booked /\ Delta(p) \in Nat /\ Delta(p) > 0
           /\ AmountDelta(p) = price[a] * (n - attempt[a].booked)
           /\ fills'[a].amount = fills[a].amount + AmountDelta(p)
           /\ fills'[a].fee = fills[a].fee + FeeDelta(p)
           /\ \A b \in Attempts : b # a => fills'[b] = fills[b]
           /\ AmountDelta(p) \in Nat /\ FeeDelta(p) \in Nat
  <1>0. PInv /\ Book(p) BY DEF MInv, BookMoney
  <1>1. PICK row : row = pass[p].row OBVIOUS
  <1>2. /\ n \in Nat /\ attempt[a].booked \in Nat /\ attempt[a] # None
    BY <1>0, <1>1, BookCases
  <1>3. n > attempt[a].booked BY <1>0, BookRow
  <1>4. price[a] \in Nat /\ fills[a].amount \in Nat /\ fills[a].fee \in Nat
    BY DEF MInv, ObservedOK, ColumnsOK, FillSet
  <1>5. AmountDelta(p) \in Nat /\ FeeDelta(p) \in Nat
    <2>1. pass[p].at = "book" BY <1>0 DEF Book
    <2> QED BY <2>1, DeltasAreNat
  <1>6. FillWritten(p) BY DEF BookMoney, Needless
  <1>7. /\ fills'[a].amount = fills[a].amount + AmountDelta(p)
        /\ fills'[a].fee = fills[a].fee + FeeDelta(p)
        /\ \A b \in Attempts : b # a => fills'[b] = fills[b]
    <2>1. PICK x : x = AmountDelta(p) OBVIOUS
    <2>2. PICK y : y = FeeDelta(p) OBVIOUS
    <2>3. fills' = [fills EXCEPT ![a] = [amount |-> fills[a].amount + x, fee |-> fills[a].fee + y]]
      BY <1>6, <2>1, <2>2 DEF FillWritten
    <2>4. fills \in [Attempts -> FillSet] BY DEF MInv, ColumnsOK
    <2> QED BY <2>1, <2>2, <2>3, <2>4
  <1>8. AmountDelta(p) = price[a] * (n - attempt[a].booked)
    <2>1. fills[a].amount = price[a] * attempt[a].booked BY <1>2 DEF FillsFit
    <2>2. price[a] * (n - attempt[a].booked) = price[a] * n - price[a] * attempt[a].booked
      BY <1>2, <1>4
    <2>3. n - attempt[a].booked \in Nat BY <1>2, <1>3
    <2>4. price[a] * (n - attempt[a].booked) \in Nat BY <1>4, <2>3
    <2>5. AmountDelta(p) = NonNegative(price[a] * n - price[a] * attempt[a].booked)
      BY <2>1 DEF AmountDelta
    <2> QED BY <2>2, <2>4, <2>5 DEF NonNegative
  <1>9. Delta(p) = n - attempt[a].booked BY DEF Delta
  <1> QED BY <1>2, <1>3, <1>4, <1>5, <1>7, <1>8, <1>9

\* A booking that is not needed leaves the money.
LEMMA NeedlessMoney ==
    ASSUME NEW p \in Workers, BookMoney(p), Needless(p)
    PROVE  UNCHANGED <<fills, books, price>>
  BY DEF BookMoney, Needless

\* A correction writes one fee, of an attempt with booked shares, and moves no share.
LEMMA TrueUpKeeps ==
    ASSUME MInv, NEW p \in Workers, TrueUpMoney(p), NEW a \in Attempts, a = pass[p].a
    PROVE  /\ \A b \in Attempts : SameRow(b) /\ fills'[b].amount = fills[b].amount
           /\ \A b \in Attempts : b # a => fills'[b] = fills[b] /\ attempt'[b] = attempt[b]
           /\ attempt[a] \in RowSet /\ attempt[a] # None /\ attempt'[a] # None
           /\ attempt[a].booked > 0 \/ UNCHANGED <<fills, books>>
           /\ UNCHANGED <<bet, paid, price, diluted, matched, market>>
  <1>0. PInv /\ TrueUp(p) /\ pass[p].at = "fees" BY DEF MInv, TrueUpMoney, TrueUp
  <1>1. Quiet BY <1>0, QuietSteps
  <1>2. attempt[a] \in RowSet /\ attempt[a] # None BY <1>0, PassCarries, NoneAssumption DEF PInv
  <1>3. \A b \in Attempts : b # a => attempt'[b] = attempt[b]
    BY <1>0 DEF TrueUp, PInv, AttemptsOK
  <1>4. UNCHANGED <<bet, paid, price, diluted, matched, market>> BY DEF TrueUpMoney, TrueUp
  <1>5. PICK x : x = Applied(a, seen[p].fee, IF attempt[a].dir = "EXIT" THEN books.closeFee ELSE books.fee)
    OBVIOUS
  <1>6. \/ attempt[a].booked > 0 /\ fills' = [fills EXCEPT ![a].fee = @ + x]
        \/ UNCHANGED <<fills, books>>
    BY <1>5 DEF TrueUpMoney
  <1>7. fills \in [Attempts -> FillSet] BY DEF MInv, ColumnsOK
  <1>8. /\ \A b \in Attempts : fills'[b].amount = fills[b].amount
        /\ \A b \in Attempts : b # a => fills'[b] = fills[b]
    BY <1>6, <1>7 DEF FillSet
  <1> QED BY <1>1, <1>2, <1>3, <1>4, <1>6, <1>8 DEF Quiet, SameRow

\* Each fill stays priced as its order was.
LEMMA FillsMoves ==
    ASSUME Ground, Ground', FillsFit, [MoneyNext]_<<vars, money>>
    PROVE  FillsFit'
  <1>0. MInv /\ MInv' /\ PInv /\ RowsInv BY DEF Ground, MInv, AllInv
  <1>1. \A b \in Attempts : price[b] \in Nat /\ price'[b] \in Nat BY <1>0 DEF MInv, ObservedOK
  <1>2. CASE MoneyStands /\ price' = price
    BY <1>1, <1>2 DEF MoneyStands, FillsFit
  <1>3. ASSUME MoneyStands, NEW a \in Attempts, MatchAt(a) PROVE FillsFit'
    <2>1. attempt' = attempt /\ fills' = fills /\ \A b \in Attempts : b # a => price'[b] = price[b]
      BY <1>0, <1>3 DEF MatchAt, Match, MInv, ObservedOK
    <2>2. attempt[a] # None /\ attempt[a].booked = 0
      <3>1. attempt[a] # None /\ matched[a] = -1 BY <1>3 DEF MatchAt, Match
      <3>2. RowOK(a) /\ indexed[a] \in Nat /\ attempt[a].booked \in Nat BY <1>0, <3>1, RowShape DEF RowsInv
      <3> QED BY <3>1, <3>2 DEF RowOK
    <2> QED BY <1>1, <2>1, <2>2 DEF FillsFit
  <1>4. ASSUME NEW p \in Workers, BookMoney(p) PROVE FillsFit'
    <2>0. pass[p].at = "book" /\ Book(p) /\ price' = price BY <1>4 DEF BookMoney, Book
    <2> PICK a \in Attempts : a = pass[p].a BY <1>0, <2>0, PassCarries DEF PInv
    <2> PICK n : n = pass[p].total OBVIOUS
    <2>1. Kept(a) /\ attempt[a] # None
      BY <1>0, <2>0, BookOutcome DEF RowsInv, PassOK
    <2>2. attempt'[a].booked = IF Needless(p) THEN attempt[a].booked ELSE n BY <1>0, <2>0, BookRow
    <2>3. CASE Needless(p)
      <3>1. fills' = fills BY <1>4, <2>3, NeedlessMoney
      <3> QED BY <2>0, <2>1, <2>2, <2>3, <3>1 DEF FillsFit, Kept
    <2>4. CASE ~Needless(p)
      <3>1. /\ n \in Nat /\ attempt[a].booked \in Nat /\ n > attempt[a].booked
            /\ AmountDelta(p) = price[a] * (n - attempt[a].booked)
            /\ fills'[a].amount = fills[a].amount + AmountDelta(p)
            /\ \A b \in Attempts : b # a => fills'[b] = fills[b]
        BY <1>0, <1>4, <2>4, AmountMadeUp
      <3>2. fills'[a].amount = price[a] * n
        <4>1. fills[a].amount = price[a] * attempt[a].booked BY <2>1 DEF FillsFit
        <4>2. price[a] * attempt[a].booked + price[a] * (n - attempt[a].booked) = price[a] * n
          BY <1>1, <3>1
        <4> QED BY <3>1, <4>1, <4>2
      <3> QED BY <2>0, <2>1, <2>2, <2>4, <3>1, <3>2 DEF FillsFit, Kept
    <2> QED BY <2>3, <2>4
  <1>5. ASSUME NEW p \in Workers, TrueUpMoney(p) PROVE FillsFit'
    <2>0. pass[p].at = "fees" BY <1>5 DEF TrueUpMoney, TrueUp
    <2> PICK a \in Attempts : a = pass[p].a BY <1>0, <2>0, PassCarries DEF PInv
    <2>1. /\ \A b \in Attempts : SameRow(b) /\ fills'[b].amount = fills[b].amount
          /\ \A b \in Attempts : b # a => fills'[b] = fills[b] /\ attempt'[b] = attempt[b]
          /\ attempt[a].booked > 0 \/ UNCHANGED <<fills, books>>
          /\ price' = price /\ attempt[a] # None
      BY <1>0, <1>5, TrueUpKeeps
    <2> QED BY <2>1 DEF FillsFit, SameRow
  <1>6. CASE ConsumeMoney
    <2>1. UNCHANGED <<attempt, fills, price>> BY <1>6 DEF ConsumeMoney, Consume
    <2> QED BY <2>1 DEF FillsFit
  <1> QED BY <1>0, <1>2, <1>3, <1>4, <1>5, <1>6, MoneySteps

\* What a pass remembers of its lot and its fee stays true.
LEMMA SeenMoves ==
    ASSUME Ground, Ground', NEW q \in Workers, SeenOK(q), [MoneyNext]_<<vars, money>>
    PROVE  SeenOK(q)'
  <1>0. PInv /\ PInv' /\ RowsInv /\ ObservedOK BY DEF Ground, MInv, AllInv
  <1>1. \A x \in Nat : bet # None /\ x <= bet.seq => bet' # None /\ x <= bet'.seq
    <2>1. Grows BY <1>0, MoneyStep, RowsMove
    <2>2. bet # None => bet.seq \in Nat /\ bet'.seq \in Nat
      <3>1. bet # None => bet' # None BY <2>1 DEF Grows
      <3>2. bet' # None => bet'.seq \in Nat BY <1>0 DEF PInv, BetOK, BetSet
      <3> QED BY <1>0, <3>1, <3>2, BetShape
    <2> QED BY <2>1, <2>2 DEF Grows
  <1>2. seen[q].lot \in {None} \cup Nat BY <1>0 DEF ObservedOK, SeenSet
  <1>3. CASE pass'[q] = pass[q] /\ seen'[q] = seen[q] BY <1>1, <1>2, <1>3 DEF SeenOK
  <1>4. CASE pass'[q] = Idle BY <1>4 DEF SeenOK, Idle
  <1>5. ASSUME NEW p \in Workers, NEW a \in Attempts, ReadAs(p, a) PROVE SeenOK(q)'
    <2>1. CASE q # p BY <1>0, <1>3, <1>5, <2>1 DEF ReadAs, Read, PInv, PassesOK, ObservedOK
    <2>2. CASE q = p
      <3>1. pass'[q].at = "probe" /\ bet' = bet /\ attempt[a] # None
        BY <1>0, <1>5, <2>2 DEF ReadAs, Read, PInv, PassesOK
      <3>2. seen'[q].lot = attempt[a].lot
        <4>1. PICK receipt \in BOOLEAN :
                seen' = [seen EXCEPT ![p] = [receipt |-> receipt, fee |-> 0, lot |-> attempt[a].lot]]
          BY <1>5 DEF ReadAs
        <4> QED BY <1>0, <2>2, <4>1 DEF ObservedOK
      <3>3. attempt[a].lot # None => bet # None /\ attempt[a].lot <= bet.seq
        BY <1>0, <3>1 DEF RowsInv, RowOK
      <3> QED BY <3>1, <3>2, <3>3 DEF SeenOK
    <2> QED BY <2>1, <2>2
  <1>6. ASSUME NEW p \in Workers, ProbeFee(p) PROVE SeenOK(q)'
    <2>1. PICK fee : /\ seen' = [seen EXCEPT ![p].fee = fee]
                     /\ ~seen[p].receipt => fee = FeeRate * pass'[p].total
      BY <1>6 DEF ProbeFee
    <2>2. CASE q # p BY <1>0, <1>3, <1>6, <2>1, <2>2 DEF ProbeFee, Probe, PInv, PassesOK, ObservedOK
    <2>3. CASE q = p
      <3>1. seen'[q].fee = fee /\ seen'[q].lot = seen[q].lot /\ seen'[q].receipt = seen[q].receipt
        BY <1>0, <2>1, <2>3 DEF ObservedOK, SeenSet
      <3>2. pass[q].at = "probe" /\ bet' = bet BY <1>6, <2>3 DEF ProbeFee, Probe
      <3>3. pass'[q].at = "book" BY <1>0, <1>6, <2>3 DEF ProbeFee, Probe, PInv, PassesOK
      <3> QED BY <2>1, <2>3, <3>1, <3>2, <3>3 DEF SeenOK
    <2> QED BY <2>2, <2>3
  <1>7. ASSUME NEW p \in Workers, BookMoney(p) PROVE SeenOK(q)'
    <2>1. seen' = seen BY <1>7 DEF BookMoney
    <2>2. CASE q # p BY <1>0, <1>3, <1>7, <2>1, <2>2 DEF BookMoney, Book, PInv, PassesOK
    <2>3. CASE q = p
      <3>1. pass[q].at = "book" BY <1>7, <2>3 DEF BookMoney, Book
      <3>2. \/ pass'[q] = Idle
            \/ pass'[q].at = "fees" /\ pass'[q].total = pass[q].total
        BY <1>0, <1>7, <2>3 DEF BookMoney, Book, PInv, PassesOK
      <3>3. CASE pass'[q].at = "fees" /\ pass'[q].total = pass[q].total
        BY <1>1, <1>2, <2>1, <3>1, <3>3 DEF SeenOK
      <3> QED BY <1>4, <3>2, <3>3
    <2> QED BY <2>2, <2>3
  <1>8. ASSUME NEW p \in Workers, TrueUpMoney(p) \/ EndPass(p) PROVE SeenOK(q)'
    <2>1. /\ pass' = [pass EXCEPT ![p] = Idle]
          /\ seen' = [seen EXCEPT ![p] = NothingSeen]
      BY <1>8 DEF TrueUpMoney, TrueUp, EndPass, PassDies
    <2>2. CASE q # p BY <1>0, <1>3, <2>1, <2>2 DEF PInv, PassesOK, ObservedOK
    <2>3. CASE q = p BY <1>0, <1>4, <2>1, <2>3 DEF PInv, PassesOK
    <2> QED BY <2>2, <2>3
  <1>9. CASE pass' = pass /\ seen' = seen BY <1>3, <1>9
  <1>10. ASSUME NEW a \in Attempts, MatchAt(a) PROVE pass' = pass /\ seen' = seen
    BY <1>10 DEF MatchAt, Match
  <1>11. ASSUME ConsumeMoney PROVE pass' = pass /\ seen' = seen
    BY <1>11 DEF ConsumeMoney, Consume
  <1>12. ASSUME UNCHANGED money,
                \/ \E a \in Attempts :
                     \/ \E side \in Sides, size \in 1 .. MaxSize : Enter(a, side, size)
                     \/ Exit(a) \/ Index(a)
                \/ (\E side \in Sides : Redeem(side)) \/ Resolve \/ Scan \/ Plan \/ SettleDies
                \/ UNCHANGED vars
         PROVE  pass' = pass /\ seen' = seen
    BY <1>12 DEF money, Enter, Exit, Index, Redeem, Resolve, Scan, Plan, SettleDies, vars
  <1> QED BY <1>5, <1>6, <1>7, <1>8, <1>9, <1>10, <1>11, <1>12 DEF MoneyNext

\* Nothing is earned before the first fill.
LEMMA NothingMoves ==
    ASSUME Ground, Ground', NothingYet, [MoneyNext]_<<vars, money>>
    PROVE  NothingYet'
  <1>0. MInv /\ PInv /\ PInv' /\ RowsInv BY DEF Ground, MInv, AllInv
  <1> SUFFICES ASSUME bet' = None PROVE books'.realized = 0 BY DEF NothingYet
  <1>1. bet = None /\ books.realized = 0
    <2>1. Grows BY <1>0, MoneyStep, RowsMove
    <2>2. bet = None BY <2>1 DEF Grows
    <2> QED BY <2>2 DEF NothingYet
  <1>2. CASE MoneyStands BY <1>1, <1>2 DEF MoneyStands
  <1>3. ASSUME NEW p \in Workers, BookMoney(p) PROVE books' = books
    <2>0. pass[p].at = "book" /\ Book(p) BY <1>3 DEF BookMoney, Book
    <2> PICK a \in Attempts : a = pass[p].a BY <1>0, <2>0, PassCarries DEF PInv
    <2> PICK row : row = pass[p].row OBVIOUS
    <2> PICK n : n = pass[p].total OBVIOUS
    <2>1. /\ attempt[a] # None /\ n \in Nat
          /\ \/ Needless(p) \/ Aside(a, row, n) \/ Merged(a, row, n) \/ Opened(a, row, n) \/ Sold(a, row, n)
      BY <1>0, <2>0, BookCases
    <2>2. ~Opened(a, row, n)
      <3>1. Opened(a, row, n) => bet' \in BetSet BY <1>0, <2>1, BetMoved
      <3> QED BY <3>1, NoneAssumption
    <2>3. Needless(p) BY <1>1, <2>1, <2>2 DEF Aside, Merged, Sold
    <2> QED BY <1>3, <2>3, NeedlessMoney
  <1>4. ASSUME NEW p \in Workers, TrueUpMoney(p) PROVE books' = books
    <2>0. pass[p].at = "fees" BY <1>4 DEF TrueUpMoney, TrueUp
    <2> PICK a \in Attempts : a = pass[p].a BY <1>0, <2>0, PassCarries DEF PInv
    <2>1. attempt[a] # None /\ (attempt[a].booked > 0 \/ UNCHANGED <<fills, books>>)
      BY <1>0, <1>4, TrueUpKeeps
    <2> QED BY <1>0, <1>1, <2>1 DEF RowsInv, RowOK
  <1>5. ASSUME ConsumeMoney PROVE books' = books
    BY <1>1, <1>5 DEF ConsumeMoney, Remainder
  <1> QED BY <1>0, <1>1, <1>2, <1>3, <1>4, <1>5, MoneySteps

\* What a redemption paid stays paid.
LEMMA PayoutStays ==
    ASSUME Ground, [Next]_vars, paid' = paid
    PROVE  Payout(paid)' = Payout(paid) /\ Payout(paid) \in Nat
  <1>0. PaidOK /\ MarketOK BY DEF Ground, AllInv, BoundsInv
  <1>1. paid * Dollar \in Nat BY <1>0, MoneyAssumption DEF PaidOK
  <1>2. Payout(paid) \in Nat BY <1>1 DEF Payout
  <1>3. CASE paid = 0
    <2>1. paid * Dollar = 0 BY <1>3, MoneyAssumption
    <2> QED BY <1>2, <1>3, <2>1 DEF Payout
  <1>4. CASE paid # 0
    <2>1. market' = market BY <1>0, <1>4, MarketMoves DEF PaidOK
    <2> QED BY <1>2, <2>1 DEF Payout
  <1> QED BY <1>3, <1>4
-----------------------------------------------------------------------------
(* The columns of the row and the basis charged, step by step.             *)

\* The columns are numbers.
LEMMA ColumnTypes ==
    ASSUME MInv
    PROVE  /\ books.spend \in Nat /\ books.fee \in Nat /\ books.proceeds \in Nat
           /\ books.closeFee \in Nat /\ books.realized \in Int /\ books \in BookSet
           /\ \A a \in Attempts : fills[a].fee \in Nat /\ fills[a].amount \in Nat /\ price[a] \in Nat
           /\ \A p \in Workers : seen[p].fee \in Nat /\ seen[p].lot \in {None} \cup Nat
           /\ FeeRate \in Nat
  <1>1. books \in BookSet /\ fills \in [Attempts -> FillSet] BY DEF MInv, ColumnsOK
  <1>2. price \in [Attempts -> Nat] /\ seen \in [Workers -> SeenSet] BY DEF MInv, ObservedOK
  <1> QED BY <1>1, <1>2, MoneyAssumption DEF BookSet, FillSet, SeenSet

\* A lot of which the row and the totals stay is as clean as it was.
LEMMA CleanStands ==
    ASSUME LedgerStill, bet' = bet
    PROVE  (InLotOne' <=> InLotOne) /\ (Clean' <=> Clean)
  <1>1. Shares("ENTRY")' = Shares("ENTRY") /\ Shares("EXIT")' = Shares("EXIT")
    BY DEF LedgerStill, Dirs
  <1> QED BY <1>1 DEF InLotOne, Clean

\* Rows that are final stay as they are, and no row becomes final.
FinalStands == \A b \in Attempts : attempt'[b] # None /\ attempt'[b].final =>
    /\ attempt[b] # None /\ attempt[b].final
    /\ attempt'[b].booked = attempt[b].booked /\ fills'[b].fee = fills[b].fee

\* A step that moves no total and no column keeps what they have in common.
LEMMA SameMoney ==
    ASSUME Ground, [Next]_vars, ColumnsFit, BasisCharged, LedgerStill, FinalStands,
           UNCHANGED <<bet, paid, books>>, diluted => diluted'
    PROVE  ColumnsFit' /\ BasisCharged'
  <1>1. Clean' <=> Clean BY CleanStands
  <1>2. /\ Value("ENTRY")' = Value("ENTRY") /\ Value("EXIT")' = Value("EXIT")
        /\ FeesOf("ENTRY")' = FeesOf("ENTRY") /\ FeesOf("EXIT")' = FeesOf("EXIT")
    BY DEF LedgerStill, Dirs
  <1>3. Charged' = Charged BY <1>2, PayoutStays DEF Charged
  <1>4. Exact' = Exact BY DEF Exact
  <1>5. ColumnsFit'
    <2> SUFFICES ASSUME Clean'
                 PROVE  /\ books'.spend + books'.fee = Value("ENTRY")'
                        /\ books'.fee = FeesOf("ENTRY")' /\ books'.closeFee = FeesOf("EXIT")'
                        /\ \A a \in Attempts : attempt'[a] # None /\ attempt'[a].final =>
                              fills'[a].fee = FeeRate * attempt'[a].booked
      BY DEF ColumnsFit
    <2> QED BY <1>1, <1>2 DEF ColumnsFit, FinalStands
  <1>6. BasisCharged'
    <2> SUFFICES ASSUME Clean', ~diluted'
                 PROVE  /\ Near(Charged', books'.spend + books'.fee, bet'.closed, bet'.filled, Exact')
                        /\ bet'.closed = 0 => Charged' = 0
      BY DEF BasisCharged, Near
    <2>1. /\ Near(Charged, books.spend + books.fee, bet.closed, bet.filled, Exact)
          /\ bet.closed = 0 => Charged = 0
      BY <1>1 DEF BasisCharged
    <2> QED BY <1>3, <1>4, <2>1
  <1> QED BY <1>5, <1>6

\* New rows, matches, passes that read and the resolution move no money.
LEMMA StandMoves ==
    ASSUME Ground, [Next]_vars, FillsFit, ColumnsFit, BasisCharged, MoneyStands
    PROVE  ColumnsFit' /\ BasisCharged'
  <1>1. ASSUME NEW b \in Attempts PROVE SameLedger(b)
    <2>1. CASE attempt[b] # None \/ attempt'[b] = attempt[b]
      <3>1. attempt'[b] = attempt[b] /\ fills' = fills BY <2>1 DEF MoneyStands
      <3> QED BY <3>1 DEF SameLedger, SharesOf, FeeOf, ValueOf, Of
    <2>2. CASE attempt[b] = None /\ attempt'[b] # None
      <3>1. attempt'[b].booked = 0 /\ fills' = fills BY <2>2 DEF MoneyStands
      <3>2. fills[b].amount = 0 /\ fills[b].fee = 0 BY <2>2 DEF FillsFit
      <3> QED BY <2>2, <3>1, <3>2 DEF SameLedger, SharesOf, FeeOf, ValueOf, Of
    <2> QED BY <2>1, <2>2
  <1>2. LedgerStill BY <1>1, LedgerStands
  <1>3. FinalStands BY DEF MoneyStands, FinalStands
  <1>4. UNCHANGED <<bet, paid, books>> /\ (diluted => diluted') BY DEF MoneyStands
  <1> QED BY <1>2, <1>3, <1>4, SameMoney

\* An attempt with no booked shares adds nothing.
LEMMA NothingBooked ==
    ASSUME MInv, FillsFit, NEW b \in Attempts, NEW dir \in Dirs, Of(b, dir) => attempt[b].booked = 0
    PROVE  Nothing(b, dir)
  <1>1. CASE ~Of(b, dir) BY <1>1 DEF Nothing, SharesOf, FeeOf, ValueOf
  <1>2. CASE Of(b, dir)
    <2>1. attempt[b] # None /\ attempt[b].booked = 0 BY <1>2 DEF Of
    <2>2. price[b] * 0 = 0 BY ColumnTypes
    <2>3. fills[b].amount = 0 /\ fills[b].fee = 0 BY <2>1, <2>2 DEF FillsFit
    <2> QED BY <1>2, <2>1, <2>3 DEF Nothing, SharesOf, FeeOf, ValueOf
  <1> QED BY <1>1, <1>2

\* What the totals of the direction of one attempt become when that attempt is written.
LEMMA LedgerWritten ==
    ASSUME MInv, MInv', NEW a \in Attempts, attempt[a] # None, attempt'[a] # None,
           attempt'[a].dir = attempt[a].dir,
           \A b \in Attempts : b # a => SameLedger(b), NEW dir \in Dirs
    PROVE  /\ attempt[a].dir = dir =>
                /\ FeesOf(dir)' = FeesOf(dir) + fills'[a].fee - fills[a].fee
                /\ dir = "ENTRY" => Value(dir)' = Value(dir) + (fills'[a].amount - fills[a].amount)
                                                             + (fills'[a].fee - fills[a].fee)
                /\ dir = "EXIT" => Value(dir)' = Value(dir) + (fills'[a].amount - fills[a].amount)
                                                            - (fills'[a].fee - fills[a].fee)
           /\ attempt[a].dir # dir => FeesOf(dir)' = FeesOf(dir) /\ Value(dir)' = Value(dir)
           /\ FeesOf(dir) \in Nat /\ Value(dir) \in Int
  <1>1. /\ FeesOf(dir)' = FeesOf(dir) + FeeOf(a, dir)' - FeeOf(a, dir)
        /\ Value(dir)' = Value(dir) + ValueOf(a, dir)' - ValueOf(a, dir)
    BY LedgerMoves
  <1>2. FeesOf(dir) \in Nat /\ Value(dir) \in Int BY LedgerTotals
  <1>3. /\ fills[a].fee \in Nat /\ fills[a].amount \in Nat
        /\ fills'[a].fee \in Nat /\ fills'[a].amount \in Nat
    BY DEF MInv, ColumnsOK, FillSet
  <1>4. CASE attempt[a].dir = dir
    <2>1. /\ FeeOf(a, dir) = fills[a].fee /\ FeeOf(a, dir)' = fills'[a].fee
          /\ dir = "ENTRY" => /\ ValueOf(a, dir) = fills[a].amount + fills[a].fee
                              /\ ValueOf(a, dir)' = fills'[a].amount + fills'[a].fee
          /\ dir = "EXIT" => /\ ValueOf(a, dir) = fills[a].amount - fills[a].fee
                             /\ ValueOf(a, dir)' = fills'[a].amount - fills'[a].fee
      BY <1>4 DEF FeeOf, ValueOf, Of
    <2> QED BY <1>1, <1>2, <1>3, <1>4, <2>1 DEF Dirs
  <1>5. CASE attempt[a].dir # dir
    <2>1. FeeOf(a, dir) = 0 /\ FeeOf(a, dir)' = 0 /\ ValueOf(a, dir) = 0 /\ ValueOf(a, dir)' = 0
      BY <1>5 DEF FeeOf, ValueOf, Of
    <2> QED BY <1>1, <1>2, <1>5, <2>1
  <1> QED BY <1>2, <1>4, <1>5

\* A booking writes the fills of one attempt.
LEMMA BookLedger ==
    ASSUME Ground, Ground', FillsFit, NEW p \in Workers, BookMoney(p), ~Needless(p),
           NEW a \in Attempts, a = pass[p].a, NEW dir \in Dirs
    PROVE  /\ attempt[a].dir = dir =>
                /\ FeesOf(dir)' = FeesOf(dir) + FeeDelta(p)
                /\ dir = "ENTRY" => Value(dir)' = Value(dir) + AmountDelta(p) + FeeDelta(p)
                /\ dir = "EXIT" => Value(dir)' = Value(dir) + AmountDelta(p) - FeeDelta(p)
           /\ attempt[a].dir # dir => FeesOf(dir)' = FeesOf(dir) /\ Value(dir)' = Value(dir)
           /\ FeesOf(dir) \in Nat /\ Value(dir) \in Int
  <1>0. MInv /\ MInv' /\ PInv /\ RowsInv /\ Book(p) BY DEF Ground, MInv, AllInv, BookMoney
  <1>1. PICK n : n = pass[p].total OBVIOUS
  <1>2. /\ fills'[a].amount = fills[a].amount + AmountDelta(p)
        /\ fills'[a].fee = fills[a].fee + FeeDelta(p)
        /\ \A b \in Attempts : b # a => fills'[b] = fills[b]
        /\ AmountDelta(p) \in Nat /\ FeeDelta(p) \in Nat /\ attempt[a] # None
    BY <1>0, <1>1, AmountMadeUp
  <1>3. Kept(a) BY <1>0, BookOutcome
  <1>4. attempt'[a] # None /\ attempt'[a].dir = attempt[a].dir BY <1>3 DEF Kept
  <1>5. \A b \in Attempts : b # a => SameLedger(b)
    BY <1>2, <1>3 DEF Kept, SameLedger, SharesOf, FeeOf, ValueOf, Of
  <1>6. fills[a].fee \in Nat /\ fills[a].amount \in Nat BY <1>0, ColumnTypes
  <1>7. /\ fills'[a].amount - fills[a].amount = AmountDelta(p)
        /\ fills'[a].fee - fills[a].fee = FeeDelta(p)
    BY <1>2, <1>6
  <1>8. /\ attempt[a].dir = dir =>
             /\ FeesOf(dir)' = FeesOf(dir) + fills'[a].fee - fills[a].fee
             /\ dir = "ENTRY" => Value(dir)' = Value(dir) + (fills'[a].amount - fills[a].amount)
                                                          + (fills'[a].fee - fills[a].fee)
             /\ dir = "EXIT" => Value(dir)' = Value(dir) + (fills'[a].amount - fills[a].amount)
                                                         - (fills'[a].fee - fills[a].fee)
        /\ attempt[a].dir # dir => FeesOf(dir)' = FeesOf(dir) /\ Value(dir)' = Value(dir)
        /\ FeesOf(dir) \in Nat /\ Value(dir) \in Int
    BY <1>0, <1>2, <1>4, <1>5, LedgerWritten
  <1> QED BY <1>2, <1>6, <1>7, <1>8

\* A final row lacks nothing.
LEMMA NotFinal ==
    ASSUME Ground, FinalOK, NEW p \in Workers, Book(p), ~Needless(p), NEW a \in Attempts, a = pass[p].a
    PROVE  /\ ~attempt'[a].final
           /\ \A b \in Attempts : b # a => attempt'[b] = attempt[b]
  <1>0. PInv /\ RowsInv BY DEF Ground, MInv, AllInv
  <1>1. PICK row : row = pass[p].row OBVIOUS
  <1>2. PICK n : n = pass[p].total OBVIOUS
  <1>3. n \in Nat /\ n <= matched[a] /\ Kept(a) /\ attempt[a] # None /\ attempt[a].booked \in Nat
    BY <1>0, <1>1, <1>2, BookCases
  <1>4. n > attempt[a].booked /\ attempt'[a].final = attempt[a].final BY <1>0, <1>2, BookRow
  <1>5. matched[a] \in Int BY <1>0, RowShape
  <1>6. attempt[a].booked # matched[a] BY <1>3, <1>4, <1>5
  <1> QED BY <1>3, <1>4, <1>6 DEF FinalOK, Kept
\* Nothing is charged for no closed share.
LEMMA NearNone ==
    ASSUME NEW t \in Int, NEW f \in Nat, NEW x \in Nat
    PROVE  Near(0, t, 0, f, x)
  <1>1. 0 * f = 0 /\ t * 0 = 0 /\ 0 + x = x OBVIOUS
  <1>2. x * f \in Nat OBVIOUS
  <1> QED BY <1>1, <1>2 DEF Near

\* A quotient without a rest.
LEMMA WholeQuotient ==
    ASSUME NEW x \in Nat, NEW d \in Nat, d > 0
    PROVE  (x * d) \div d = x
  <1>1. PICK y : y = x * d OBVIOUS
  <1>2. y \in Nat BY <1>1
  <1>3. PICK q : q = y \div d OBVIOUS
  <1>4. q \in Nat /\ q * d <= y /\ y < q * d + d BY <1>2, <1>3, Division
  <1>5. q * d <= x * d => q <= x BY <1>4, Cancel
  <1>6. (q + 1) * d = q * d + d BY <1>4
  <1>7. x * d <= q * d => x <= q BY <1>4, Cancel
  <1>8. x >= q + 1 => (q + 1) * d <= x * d BY <1>4, Scale
  <1>9. x <= q \/ x >= q + 1 BY <1>4
  <1>10. q * d \in Int /\ x * d \in Int BY <1>4
  <1> QED BY <1>1, <1>3, <1>4, <1>5, <1>6, <1>8, <1>9, <1>10

\* The basis that the first fill of an entry makes.
LEMMA EntryBooks ==
    ASSUME MInv, NEW p \in Workers, BookMoney(p), ~Needless(p), pass[p].row.dir = "ENTRY",
           ~StaleLot(pass[p].row), ~LateFill
    PROVE  books' = EntryMoney(p)
  BY DEF BookMoney, Needless

\* What a sale makes of the columns.
LEMMA ExitBooks ==
    ASSUME MInv, NEW p \in Workers, BookMoney(p), ~Needless(p), pass[p].row.dir # "ENTRY",
           ~StaleLot(pass[p].row)
    PROVE  books' = ExitMoney(p)
  BY DEF BookMoney, Needless

\* A booking into the open lot adds its cost to the basis.
LEMMA MergedMoney ==
    ASSUME Ground, Ground', LotInv, CashInv, NEW p \in Workers, BookMoney(p), ~Needless(p),
           NEW a \in Attempts, a = pass[p].a, NEW row, row = pass[p].row, NEW n, n = pass[p].total,
           Merged(a, row, n), InLotOne, Clean'
    PROVE  /\ Clean
           /\ books'.spend = books.spend + AmountDelta(p) /\ books'.fee = books.fee + FeeDelta(p)
           /\ books'.closeFee = books.closeFee /\ books'.realized = books.realized
           /\ bet'.closed = bet.closed /\ bet'.filled = bet.filled + (n - attempt[a].booked)
           /\ bet'.seq = bet.seq /\ bet # None
           /\ attempt[a].dir = "ENTRY"
  <1>0. MInv /\ PInv /\ RowsInv /\ Book(p) BY DEF Ground, MInv, AllInv, BookMoney
  <1>1. /\ n \in Nat /\ attempt[a] # None /\ row.dir = attempt[a].dir BY <1>0, BookCases
  <1>2. /\ bet'.closed = bet.closed /\ bet'.filled = bet.filled + (n - attempt[a].booked)
        /\ bet'.seq = bet.seq
    BY <1>0, <1>1, BetMoved
  <1>3. bet # None /\ Remainder(bet) >= Tick /\ attempt[a].dir = "ENTRY" /\ ~StaleLot(row) BY DEF Merged
  <1>4. Remainder(bet) \in Nat BY <1>0, RemainderIsNat DEF PInv
  <1>5. ~Reopening(bet) BY <1>3, <1>4, TickAssumption DEF Reopening
  <1>6. books' = EntryMoney(p) BY <1>0, <1>1, <1>3, <1>5, EntryBooks DEF LateFill
  <1>7. /\ books'.spend = books.spend + AmountDelta(p) /\ books'.fee = books.fee + FeeDelta(p)
        /\ books'.closeFee = books.closeFee /\ books'.realized = books.realized
    <2>1. books' = [books EXCEPT !.spend = @ + AmountDelta(p), !.fee = @ + FeeDelta(p)]
      BY <1>3, <1>5, <1>6 DEF EntryMoney
    <2>2. books \in BookSet BY <1>0, ColumnTypes
    <2> QED BY <2>1, <2>2 DEF BookSet
  <1>8. Shares("EXIT")' = Shares("EXIT")
    <2>1. Shares("EXIT") \in Nat BY <1>0, LedgerTotals DEF Dirs
    <2>2. Shares("EXIT")' = Shares("EXIT") + 0 BY <1>0, <1>3, SharesBooked DEF Dirs
    <2> QED BY <2>1, <2>2
  <1>9. Clean BY <1>2, <1>8 DEF Clean
  <1> QED BY <1>2, <1>3, <1>7, <1>9

\* In an open first lot the attempt that is added to it is the only entry.
LEMMA MergedOnly ==
    ASSUME Ground, Ground', LotInv, FillsFit, NEW p \in Workers, BookMoney(p), ~Needless(p),
           NEW a \in Attempts, a = pass[p].a, NEW row, row = pass[p].row, NEW n, n = pass[p].total,
           Merged(a, row, n), InLotOne
    PROVE  /\ bet.filled = attempt[a].booked
           /\ FeesOf("ENTRY") = fills[a].fee
           /\ Value("ENTRY") = price[a] * attempt[a].booked + fills[a].fee
  <1>0. MInv /\ PInv /\ RowsInv /\ Book(p) /\ OneEntry BY DEF Ground, MInv, AllInv, BookMoney, LotInv
  <1>1. /\ n \in Nat /\ attempt[a] # None /\ n <= matched[a] /\ attempt[a].booked \in Nat
    BY <1>0, BookCases
  <1>2. /\ bet.seq = 0 /\ Remainder(bet) >= Tick /\ Of(a, "ENTRY") /\ n > attempt[a].booked
    BY <1>1 DEF Merged, InLotOne, BookedAs, Of
  <1>3. matched[a] # 0
    <2>1. matched[a] \in Int BY <1>0, RowShape
    <2> QED BY <1>1, <1>2, <2>1
  <1>4. ASSUME NEW b \in Attempts \ {a} PROVE Nothing(b, "ENTRY")
    <2>1. Of(b, "ENTRY") => attempt[b].booked = 0
      <3> SUFFICES ASSUME Of(b, "ENTRY") PROVE attempt[b].booked = 0 OBVIOUS
      <3>1. matched[b] = 0 BY <1>0, <1>2, <1>3 DEF OneEntry
      <3>2. RowOK(b) /\ attempt[b].booked \in Nat /\ indexed[b] \in Nat BY <1>0, RowShape DEF RowsInv, Of
      <3> QED BY <3>1, <3>2 DEF RowOK, Of
    <2> QED BY <1>0, <2>1, NothingBooked DEF Dirs
  <1>5. /\ Shares("ENTRY") = SharesOf(a, "ENTRY") /\ FeesOf("ENTRY") = FeeOf(a, "ENTRY")
        /\ Value("ENTRY") = ValueOf(a, "ENTRY")
    BY <1>0, <1>4, OnlyOne DEF Dirs
  <1>6. /\ SharesOf(a, "ENTRY") = attempt[a].booked /\ FeeOf(a, "ENTRY") = fills[a].fee
        /\ ValueOf(a, "ENTRY") = fills[a].amount + fills[a].fee
    BY <1>2 DEF SharesOf, FeeOf, ValueOf
  <1>7. fills[a].amount = price[a] * attempt[a].booked BY <1>1 DEF FillsFit
  <1> QED BY <1>5, <1>6, <1>7 DEF InLotOne

\* An addition at the charged fee leaves the basis in proportion.
LEMMA MergedMoves ==
    ASSUME Ground, Ground', LotInv, CashInv, NEW p \in Workers, BookMoney(p), ~Needless(p),
           NEW a \in Attempts, a = pass[p].a, NEW row, row = pass[p].row, NEW n, n = pass[p].total,
           Merged(a, row, n), InLotOne, Clean', [Next]_vars
    PROVE  ColumnsFit' /\ BasisCharged'
  <1>0. /\ MInv /\ PInv /\ RowsInv /\ Book(p) /\ FillsFit /\ ColumnsFit /\ BasisCharged /\ FinalOK
        /\ paid' = paid
    BY DEF Ground, MInv, AllInv, BookMoney, CashInv, LotInv, Book
  <1>1. /\ Clean
        /\ books'.spend = books.spend + AmountDelta(p) /\ books'.fee = books.fee + FeeDelta(p)
        /\ books'.closeFee = books.closeFee /\ books'.realized = books.realized
        /\ bet'.closed = bet.closed /\ bet'.filled = bet.filled + (n - attempt[a].booked)
        /\ bet'.seq = bet.seq /\ bet # None /\ attempt[a].dir = "ENTRY"
    BY MergedMoney
  <1>2. /\ n \in Nat /\ attempt[a].booked \in Nat /\ n > attempt[a].booked /\ price[a] \in Nat
        /\ AmountDelta(p) = price[a] * (n - attempt[a].booked)
        /\ AmountDelta(p) \in Nat /\ FeeDelta(p) \in Nat
    BY <1>0, AmountMadeUp
  <1>3. /\ FeesOf("ENTRY")' = FeesOf("ENTRY") + FeeDelta(p)
        /\ Value("ENTRY")' = Value("ENTRY") + AmountDelta(p) + FeeDelta(p)
        /\ FeesOf("EXIT")' = FeesOf("EXIT") /\ Value("EXIT")' = Value("EXIT")
        /\ FeesOf("ENTRY") \in Nat /\ Value("ENTRY") \in Int
    BY <1>0, <1>1, BookLedger DEF Dirs
  <1>4. /\ books.spend + books.fee = Value("ENTRY") /\ books.fee = FeesOf("ENTRY")
        /\ books.closeFee = FeesOf("EXIT")
        /\ \A b \in Attempts : attempt[b] # None /\ attempt[b].final => fills[b].fee = FeeRate * attempt[b].booked
    BY <1>0, <1>1 DEF ColumnsFit
  <1>5. books.spend \in Nat /\ books.fee \in Nat /\ FeeRate \in Nat BY <1>0, ColumnTypes
  <1>6. ColumnsFit'
    <2>1. books'.spend + books'.fee = Value("ENTRY")' BY <1>1, <1>2, <1>3, <1>4, <1>5
    <2>2. books'.fee = FeesOf("ENTRY")' /\ books'.closeFee = FeesOf("EXIT")' BY <1>1, <1>3, <1>4
    <2>3. \A b \in Attempts : attempt'[b] # None /\ attempt'[b].final => fills'[b].fee = FeeRate * attempt'[b].booked
      <3>1. ~attempt'[a].final /\ \A b \in Attempts : b # a => attempt'[b] = attempt[b] BY <1>0, NotFinal
      <3>2. \A b \in Attempts : b # a => fills'[b] = fills[b] BY <1>0, AmountMadeUp
      <3> QED BY <1>4, <3>1, <3>2
    <2> QED BY <2>1, <2>2, <2>3 DEF ColumnsFit
  <1>7. Charged' = Charged BY <1>0, <1>1, <1>3, PayoutStays DEF Charged
  <1>8. ASSUME ~diluted' PROVE /\ Near(Charged, books'.spend + books'.fee, bet'.closed, bet'.filled, Exact')
                               /\ bet'.closed = 0 => Charged = 0
    <2>1. ~diluted /\ ~Dilutes(p) BY <1>8 DEF BookMoney
    <2>2. /\ Near(Charged, books.spend + books.fee, bet.closed, bet.filled, Exact)
          /\ bet.closed = 0 => Charged = 0
      BY <1>0, <1>1, <2>1 DEF BasisCharged
    <2>3. /\ bet.filled \in Nat \ {0} /\ bet.closed \in Nat /\ bet'.filled \in Nat
      BY <1>0, <1>1, <1>2, BetShape
    <2>4. CASE bet.closed = 0
      <3>1. Exact' \in Nat BY DEF Exact
      <3>2. books'.spend + books'.fee \in Int BY <1>1, <1>2, <1>5
      <3>3. Near(0, books'.spend + books'.fee, 0, bet'.filled, Exact') BY <2>3, <3>1, <3>2, NearNone
      <3> QED BY <1>1, <2>2, <2>4, <3>3
    <2>5. CASE bet.closed # 0
      <3>1. fills[a].fee = FeeRate * attempt[a].booked /\ seen[p].fee = FeeRate * n
        <4>1. bet.closed > 0 /\ bet'.filled > bet.filled BY <1>1, <1>2, <2>3, <2>5
        <4> QED BY <1>1, <2>1, <4>1 DEF Dilutes
      <3>2. /\ bet.filled = attempt[a].booked /\ FeesOf("ENTRY") = fills[a].fee
            /\ Value("ENTRY") = price[a] * attempt[a].booked + fills[a].fee
        BY <1>0, MergedOnly
      <3> PICK f : f = attempt[a].booked OBVIOUS
      <3>3. f \in Nat \ {0} /\ n \in Nat \ {0} BY <1>2, <2>3, <3>2
      <3> PICK u : u = price[a] + FeeRate OBVIOUS
      <3>4. u \in Nat BY <1>2, <1>5
      <3>5. books.spend + books.fee = u * f
        <4>1. u * f = price[a] * f + FeeRate * f BY <1>2, <1>5, <3>3
        <4> QED BY <1>4, <3>1, <3>2, <4>1
      <3>6. FeeDelta(p) = FeeRate * (n - f)
        <4>1. FeeRate * (n - f) = FeeRate * n - FeeRate * f BY <1>5, <3>3
        <4>2. n - f \in Nat BY <1>2
        <4>3. FeeRate * (n - f) \in Nat BY <1>5, <4>2
        <4>4. FeeDelta(p) = NonNegative(FeeRate * n - FeeRate * f) BY <3>1 DEF FeeDelta
        <4> QED BY <4>1, <4>3, <4>4 DEF NonNegative
      <3>7. bet'.filled = n BY <1>1, <1>2, <3>2, <3>3
      <3>8. books'.fee = FeeRate * n
        <4>1. FeeRate * f + FeeRate * (n - f) = FeeRate * n BY <1>5, <3>3
        <4>2. books.fee = FeeRate * f BY <1>4, <3>1, <3>2
        <4> QED BY <1>1, <3>6, <4>1, <4>2
      <3>9. books'.spend + books'.fee = u * n
        <4>1. AmountDelta(p) + FeeDelta(p) = u * (n - f)
          <5>1. u * (n - f) = price[a] * (n - f) + FeeRate * (n - f) BY <1>2, <1>5, <3>3
          <5> QED BY <1>2, <3>6, <5>1
        <4>2. u * f + u * (n - f) = u * n BY <3>3, <3>4
        <4>3. books'.spend + books'.fee = (books.spend + books.fee) + (AmountDelta(p) + FeeDelta(p))
          BY <1>1, <1>2, <1>5
        <4> QED BY <3>5, <4>1, <4>2, <4>3
      <3>10. Exact = 1 /\ Exact' = 1
        <4>1. books.fee = FeeRate * bet.filled BY <1>4, <3>1, <3>2
        <4>2. books'.fee = FeeRate * bet'.filled BY <3>7, <3>8
        <4> QED BY <4>1, <4>2 DEF Exact
      <3>11. Charged \in Int
        <4>1. Value("EXIT") \in Int BY <1>0, LedgerTotals DEF Dirs
        <4>2. books.realized \in Int BY <1>0, ColumnTypes
        <4>3. Payout(paid) \in Nat BY <1>0, PayoutStays
        <4> QED BY <4>1, <4>2, <4>3 DEF Charged
      <3>12. Near(Charged, u * f, bet.closed, f, 1) BY <2>2, <3>2, <3>5, <3>10
      <3>13. Near(Charged, u * n, bet.closed, n, 1) BY <2>3, <3>3, <3>4, <3>11, <3>12, NearGrown
      <3> QED BY <1>1, <2>2, <3>7, <3>9, <3>10, <3>13
    <2> QED BY <2>4, <2>5
  <1>9. BasisCharged' BY <1>7, <1>8 DEF BasisCharged
  <1> QED BY <1>6, <1>9
\* The profit, and what is charged of the basis, are numbers.
LEMMA ChargedType ==
    ASSUME Ground, [Next]_vars, paid' = paid
    PROVE  Charged \in Int /\ Payout(paid) \in Nat /\ Payout(paid)' = Payout(paid)
  <1>0. MInv BY DEF Ground
  <1>1. Value("EXIT") \in Int BY <1>0, LedgerTotals DEF Dirs
  <1>2. books.realized \in Int BY <1>0, ColumnTypes
  <1>3. Payout(paid) \in Nat /\ Payout(paid)' = Payout(paid) BY PayoutStays
  <1> QED BY <1>1, <1>2, <1>3 DEF Charged

\* The first fill starts the basis.
LEMMA OpenedMoves ==
    ASSUME Ground, Ground', CashInv, NEW p \in Workers, BookMoney(p), ~Needless(p),
           NEW a \in Attempts, a = pass[p].a, NEW row, row = pass[p].row, NEW n, n = pass[p].total,
           Opened(a, row, n), bet = None, [Next]_vars
    PROVE  ColumnsFit' /\ BasisCharged'
  <1>0. /\ MInv /\ PInv /\ RowsInv /\ Book(p) /\ FillsFit /\ FinalOK /\ NothingYet /\ PaidOK
        /\ paid' = paid
    BY DEF Ground, MInv, AllInv, BoundsInv, BookMoney, CashInv, LotInv, Book
  <1>1. \A b \in Attempts : attempt[b] # None => attempt[b].booked = 0
    <2> SUFFICES ASSUME NEW b \in Attempts, attempt[b] # None PROVE attempt[b].booked = 0 OBVIOUS
    <2>1. attempt[b].booked \in Nat /\ RowOK(b) BY <1>0, RowShape DEF RowsInv
    <2> QED BY <2>1 DEF RowOK
  <1>2. /\ FeesOf("ENTRY") = 0 /\ Value("ENTRY") = 0 /\ FeesOf("EXIT") = 0 /\ Value("EXIT") = 0
    <2>1. \A b \in Attempts : \A dir \in Dirs : Nothing(b, dir) BY <1>0, <1>1, NothingBooked DEF Of
    <2> QED BY <1>0, <2>1, NoOne DEF Dirs
  <1>3. /\ n \in Nat /\ attempt[a] # None /\ row.dir = attempt[a].dir /\ attempt[a].dir = "ENTRY"
        /\ bet'.closed = 0 /\ bet'.filled = n - attempt[a].booked /\ bet' \in BetSet
    <2>1. n \in Nat /\ attempt[a] # None /\ row.dir = attempt[a].dir BY <1>0, BookCases
    <2> QED BY <1>0, <2>1, BetMoved DEF Opened
  <1>4. /\ AmountDelta(p) \in Nat /\ FeeDelta(p) \in Nat
        /\ \A b \in Attempts : b # a => fills'[b] = fills[b]
    BY <1>0, AmountMadeUp
  <1>5. /\ FeesOf("ENTRY")' = FeeDelta(p) /\ Value("ENTRY")' = AmountDelta(p) + FeeDelta(p)
        /\ FeesOf("EXIT")' = 0 /\ Value("EXIT")' = 0
    <2>1. /\ FeesOf("ENTRY")' = FeesOf("ENTRY") + FeeDelta(p)
          /\ Value("ENTRY")' = Value("ENTRY") + AmountDelta(p) + FeeDelta(p)
          /\ FeesOf("EXIT")' = FeesOf("EXIT") /\ Value("EXIT")' = Value("EXIT")
      BY <1>0, <1>3, BookLedger DEF Dirs
    <2> QED BY <1>2, <1>4, <2>1
  <1>6. /\ books'.spend = AmountDelta(p) /\ books'.fee = FeeDelta(p)
        /\ books'.closeFee = 0 /\ books'.realized = 0
    <2>1. ~StaleLot(row) /\ ~LateFill BY DEF StaleLot, LateFill, Reopening
    <2>2. books' = EntryMoney(p) BY <1>0, <1>3, <2>1, EntryBooks
    <2>3. books' = [spend |-> AmountDelta(p), fee |-> FeeDelta(p), proceeds |-> 0, closeFee |-> 0,
                    realized |-> books.realized]
      BY <2>2 DEF EntryMoney
    <2>4. books.realized = 0 BY <1>0 DEF NothingYet
    <2> QED BY <2>3, <2>4
  <1>7. ColumnsFit'
    <2>1. /\ books'.spend + books'.fee = Value("ENTRY")'
          /\ books'.fee = FeesOf("ENTRY")' /\ books'.closeFee = FeesOf("EXIT")'
      BY <1>5, <1>6
    <2>2. \A b \in Attempts : ~(attempt'[b] # None /\ attempt'[b].final)
      <3>1. ~attempt'[a].final /\ \A b \in Attempts : b # a => attempt'[b] = attempt[b] BY <1>0, NotFinal
      <3>2. \A b \in Attempts : attempt[b] # None => ~attempt[b].final BY <1>0, <1>1 DEF FinalOK
      <3> QED BY <3>1, <3>2
    <2> QED BY <2>1, <2>2 DEF ColumnsFit
  <1>8. Charged' = 0
    <2>1. paid = 0 BY <1>0 DEF PaidOK
    <2>2. Payout(paid) = 0
      <3>1. 0 * Dollar = 0 BY MoneyAssumption
      <3> QED BY <2>1, <3>1 DEF Payout
    <2>3. Payout(paid)' = 0 BY <1>0, <2>2, PayoutStays
    <2> QED BY <1>5, <1>6, <2>3 DEF Charged
  <1>9. Near(0, books'.spend + books'.fee, bet'.closed, bet'.filled, Exact')
    <2>1. Exact' \in Nat BY DEF Exact
    <2>2. bet'.filled \in Nat BY <1>3 DEF BetSet
    <2>3. books'.spend + books'.fee \in Int BY <1>4, <1>6
    <2> QED BY <1>3, <2>1, <2>2, <2>3, NearNone
  <1>10. BasisCharged' BY <1>8, <1>9 DEF BasisCharged
  <1> QED BY <1>7, <1>10

\* A sale realizes its proceeds less its fee and the basis of what it closes.
LEMMA SoldMoney ==
    ASSUME MInv, NEW p \in Workers, BookMoney(p), ~Needless(p), pass[p].row.dir # "ENTRY",
           ~StaleLot(pass[p].row), NEW d \in Nat, d = Delta(p), d > 0,
           AmountDelta(p) \in Nat, FeeDelta(p) \in Nat, Smaller(d, Remainder(bet)) = d
    PROVE  /\ books'.spend = books.spend /\ books'.fee = books.fee
           /\ books'.closeFee = books.closeFee + FeeDelta(p)
           /\ books'.realized = books.realized + AmountDelta(p) - FeeDelta(p) - CostBasis(Closing(d))
  <1>1. books' = ExitMoney(p) BY ExitBooks
  <1>2. (AmountDelta(p) * d) \div d = AmountDelta(p) /\ (FeeDelta(p) * d) \div d = FeeDelta(p)
    BY WholeQuotient
  <1>3. books' = [books EXCEPT !.proceeds = @ + AmountDelta(p), !.closeFee = @ + FeeDelta(p),
                               !.realized = @ + AmountDelta(p) - FeeDelta(p) - CostBasis(Closing(d))]
    BY <1>1, <1>2 DEF ExitMoney
  <1>4. books \in BookSet BY ColumnTypes
  <1>5. PICK x : x = CostBasis(Closing(d)) OBVIOUS
  <1> QED BY <1>3, <1>4, <1>5 DEF BookSet

\* A sale from an open lot charges the basis in proportion to what it closes.
LEMMA SaleMoves ==
    ASSUME Ground, Ground', CashInv, NEW p \in Workers, BookMoney(p), ~Needless(p),
           NEW a \in Attempts, a = pass[p].a, NEW row, row = pass[p].row, NEW n, n = pass[p].total,
           Sold(a, row, n), Remainder(bet) > 0, InLotOne, Clean', [Next]_vars
    PROVE  ColumnsFit' /\ BasisCharged'
  <1>0. /\ MInv /\ PInv /\ RowsInv /\ Book(p) /\ FillsFit /\ FinalOK /\ SalesClose /\ ColumnsFit /\ BasisCharged
        /\ paid' = paid
    BY DEF Ground, MInv, AllInv, BookMoney, CashInv, LotInv, Book
  <1>1. /\ n \in Nat /\ attempt[a] # None /\ row.dir = attempt[a].dir /\ attempt[a].dir = "EXIT"
        /\ ~StaleLot(row) /\ bet # None
    <2>1. n \in Nat /\ attempt[a] # None /\ row.dir = attempt[a].dir BY <1>0, BookCases
    <2> QED BY <2>1 DEF Sold
  <1>2. /\ attempt[a].booked \in Nat /\ n > attempt[a].booked
        /\ Delta(p) = n - attempt[a].booked /\ Delta(p) \in Nat /\ Delta(p) > 0
        /\ AmountDelta(p) \in Nat /\ FeeDelta(p) \in Nat
        /\ \A b \in Attempts : b # a => fills'[b] = fills[b]
    BY <1>0, AmountMadeUp
  <1> PICK d : d = Delta(p) OBVIOUS
  <1>3. /\ bet'.filled = bet.filled /\ bet'.closed = bet.closed + Closing(d)
        /\ Closing(d) \in Nat /\ bet'.seq = bet.seq
    <2>1. /\ bet'.filled = bet.filled /\ bet'.closed = bet.closed + Closing(n - attempt[a].booked)
          /\ Closing(n - attempt[a].booked) \in Nat /\ bet'.seq = bet.seq
      BY <1>0, <1>1, BetMoved
    <2> QED BY <1>2, <2>1
  <1>4. bet.closed \in Nat /\ bet.filled \in Nat \ {0} BY <1>0, <1>1, BetShape
  <1>5. Shares("EXIT") = bet.closed BY <1>0 DEF SalesClose
  <1>6. Clean BY <1>4, <1>5 DEF Clean
  <1>7. d <= Closing(d)
    <2>1. Shares("EXIT")' = Shares("EXIT") + d
      <3>1. Shares("EXIT")' = Shares("EXIT") + (attempt'[a].booked - attempt[a].booked)
        BY <1>0, <1>1, SharesBooked DEF Dirs
      <3>2. attempt'[a].booked = n BY DEF Sold, BookedAs
      <3> QED BY <1>2, <3>1, <3>2
    <2>2. Shares("EXIT")' <= bet'.closed BY DEF Clean
    <2> QED BY <1>2, <1>3, <1>4, <1>5, <2>1, <2>2
  <1>8. Smaller(d, Remainder(bet)) = d BY <1>0, <1>2, <1>7, ClosingExact DEF PInv
  <1>9. /\ books'.spend = books.spend /\ books'.fee = books.fee
        /\ books'.closeFee = books.closeFee + FeeDelta(p)
        /\ books'.realized = books.realized + AmountDelta(p) - FeeDelta(p) - CostBasis(Closing(d))
    BY <1>0, <1>1, <1>2, <1>8, SoldMoney
  <1>10. /\ FeesOf("EXIT")' = FeesOf("EXIT") + FeeDelta(p)
         /\ Value("EXIT")' = Value("EXIT") + AmountDelta(p) - FeeDelta(p)
         /\ FeesOf("ENTRY")' = FeesOf("ENTRY") /\ Value("ENTRY")' = Value("ENTRY")
         /\ Value("EXIT") \in Int
    BY <1>0, <1>1, BookLedger DEF Dirs
  <1>11. /\ books.spend + books.fee = Value("ENTRY") /\ books.fee = FeesOf("ENTRY")
         /\ books.closeFee = FeesOf("EXIT")
         /\ \A b \in Attempts : attempt[b] # None /\ attempt[b].final => fills[b].fee = FeeRate * attempt[b].booked
    BY <1>0, <1>6 DEF ColumnsFit
  <1>12. books.spend \in Nat /\ books.fee \in Nat /\ books.realized \in Int BY <1>0, ColumnTypes
  <1>13. ColumnsFit'
    <2>1. /\ books'.spend + books'.fee = Value("ENTRY")' /\ books'.fee = FeesOf("ENTRY")'
          /\ books'.closeFee = FeesOf("EXIT")'
      BY <1>9, <1>10, <1>11
    <2>2. \A b \in Attempts : attempt'[b] # None /\ attempt'[b].final => fills'[b].fee = FeeRate * attempt'[b].booked
      <3>1. ~attempt'[a].final /\ \A b \in Attempts : b # a => attempt'[b] = attempt[b] BY <1>0, NotFinal
      <3> QED BY <1>2, <1>11, <3>1
    <2> QED BY <2>1, <2>2 DEF ColumnsFit
  <1> PICK c : c = Closing(d) OBVIOUS
  <1> PICK t : t = books.spend + books.fee OBVIOUS
  <1>14. c \in Nat /\ c >= 1 /\ t \in Nat BY <1>2, <1>3, <1>7, <1>12
  <1>15. CostBasis(c) = (t * c) \div bet.filled /\ CostBasis(c) \in Nat
    <2>1. t * c \in Nat BY <1>14
    <2>2. CostBasis(c) = (t * c) \div bet.filled BY DEF CostBasis
    <2> QED BY <1>4, <1>14, <2>2, Proportion
  <1>16. Charged' = Charged + CostBasis(c) /\ Charged \in Int
    <2>1. Charged \in Int /\ Payout(paid) \in Nat /\ Payout(paid)' = Payout(paid) BY <1>0, ChargedType
    <2> QED BY <1>2, <1>9, <1>10, <1>12, <1>15, <2>1 DEF Charged
  <1>17. BasisCharged'
    <2> SUFFICES ASSUME ~diluted'
                 PROVE  /\ Near(Charged', books'.spend + books'.fee, bet'.closed, bet'.filled, Exact')
                        /\ bet'.closed # 0
      BY DEF BasisCharged
    <2>1. ~diluted BY DEF BookMoney
    <2>2. Near(Charged, t, bet.closed, bet.filled, Exact) BY <1>0, <1>6, <2>1 DEF BasisCharged
    <2>3. Exact' = Exact /\ Exact \in Nat BY <1>3, <1>9 DEF Exact
    <2> PICK x : x = Exact OBVIOUS
    <2>4. Near(Charged + ((t * c) \div bet.filled), t, bet.closed + c, bet.filled, x)
      BY <1>4, <1>14, <1>16, <2>2, <2>3, NearSold
    <2>5. books'.spend + books'.fee = t BY <1>9
    <2>6. bet'.closed = bet.closed + c /\ bet'.closed # 0 BY <1>3, <1>4, <1>14
    <2> QED BY <1>3, <1>15, <1>16, <2>3, <2>4, <2>5, <2>6
  <1> QED BY <1>13, <1>17

\* A booking keeps what the row says, and what it has charged.
LEMMA BookMoves ==
    ASSUME Ground, Ground', CashInv, NEW p \in Workers, BookMoney(p), [Next]_vars
    PROVE  ColumnsFit' /\ BasisCharged'
  <1>0. /\ MInv /\ PInv /\ RowsInv /\ Book(p) /\ LotInv /\ ColumnsFit /\ BasisCharged
        /\ pass[p].at = "book" /\ paid' = paid
    BY DEF Ground, MInv, AllInv, BookMoney, CashInv, Book
  <1> PICK a \in Attempts : a = pass[p].a BY <1>0, PassCarries DEF PInv
  <1> PICK row : row = pass[p].row OBVIOUS
  <1> PICK n : n = pass[p].total OBVIOUS
  <1>1. CASE ~Clean' BY <1>1 DEF ColumnsFit, BasisCharged
  <1>2. CASE Clean'
    <2>1. InLotOne' BY <1>2 DEF Clean
    <2>2. CASE Needless(p) /\ Unbooked(a, n) /\ InLotOne
      <3>1. /\ UNCHANGED <<fills, books>> /\ bet' = bet /\ attempt'[a].booked = attempt[a].booked
        BY <2>2, NeedlessMoney DEF Unbooked
      <3>2. Kept(a) /\ attempt'[a].final = attempt[a].final BY <1>0, BookOutcome, BookRow
      <3>3. attempt[a] # None BY <1>0 DEF RowsInv, PassOK
      <3>4. \A b \in Attempts : SameLedger(b)
        BY <3>1, <3>2, <3>3 DEF Kept, SameLedger, SharesOf, FeeOf, ValueOf, Of
      <3>5. LedgerStill BY <3>4, LedgerStands
      <3>6. FinalStands BY <3>1, <3>2, <3>3 DEF FinalStands, Kept
      <3>7. diluted => diluted' BY DEF BookMoney
      <3> QED BY <1>0, <3>1, <3>5, <3>6, <3>7, SameMoney
    <2>3. CASE ~Needless(p) /\ Merged(a, row, n) /\ InLotOne BY <1>0, <1>2, <2>3, MergedMoves
    <2>4. CASE ~Needless(p) /\ Opened(a, row, n) /\ bet = None BY <1>0, <2>4, OpenedMoves
    <2>5. CASE ~Needless(p) /\ Sold(a, row, n) /\ Remainder(bet) > 0 /\ InLotOne BY <1>0, <1>2, <2>5, SaleMoves
    <2> QED BY <1>0, <2>1, <2>2, <2>3, <2>4, <2>5, LotOneBooked
  <1> QED BY <1>1, <1>2
-----------------------------------------------------------------------------
(* The corrections of the fee.                                             *)

\* A correction that goes no further down than the columns do is made in full.
LEMMA WholeCorrection ==
    ASSUME NEW a \in Attempts, NEW fee \in Nat, NEW held \in Nat, fills[a].fee \in Nat, fills[a].fee <= held
    PROVE  Applied(a, fee, held) = fee - fills[a].fee
  BY DEF Applied, Smaller

\* A current observation makes the fee of the attempt the charged one, in its fills and in the row.
LEMMA FeeCharged ==
    ASSUME Ground, CashInv, NEW p \in Workers, TrueUpMoney(p), NEW a \in Attempts, a = pass[p].a,
           Clean, CurrentRead(p), attempt[a].booked > 0, NEW d, d = seen[p].fee - fills[a].fee
    PROVE  /\ d \in Int /\ fills'[a].fee = fills[a].fee + d
           /\ fills'[a].fee = FeeRate * pass[p].total
           /\ books'.spend = books.spend
           /\ attempt[a].dir = "EXIT" =>
                /\ books'.fee = books.fee /\ books'.closeFee = books.closeFee + d
                /\ books'.realized = books.realized - d
           /\ attempt[a].dir = "ENTRY" =>
                /\ books'.fee = books.fee + d /\ books'.closeFee = books.closeFee
                /\ books'.realized = books.realized - Quotient(d * bet.closed, bet.filled)
  <1>0. /\ MInv /\ PInv /\ RowsInv /\ ColumnsFit /\ SeenOK(p) /\ pass[p].at = "fees" /\ ~seen[p].receipt
    BY DEF Ground, MInv, AllInv, CashInv, TrueUpMoney, TrueUp
  <1>1. /\ books \in BookSet /\ fills[a].fee \in Nat /\ seen[p].fee \in Nat
        /\ seen[p].lot \in {None} \cup Nat /\ books.fee \in Nat /\ books.closeFee \in Nat
    BY <1>0, ColumnTypes
  <1>2. attempt[a] # None /\ attempt[a].dir \in Dirs
    <2>1. attempt[a] # None BY <1>0 DEF RowsInv, PassOK
    <2> QED BY <1>0, <2>1, RowShape DEF Dirs
  <1>3. PICK held : held = IF attempt[a].dir = "EXIT" THEN books.closeFee ELSE books.fee OBVIOUS
  <1>4. held \in Nat /\ fills[a].fee <= held
    <2>1. FeeOf(a, attempt[a].dir) = fills[a].fee BY <1>2 DEF FeeOf, Of
    <2>2. FeeOf(a, attempt[a].dir) <= FeesOf(attempt[a].dir) BY <1>0, <1>2, LedgerTotals
    <2>3. held = FeesOf(attempt[a].dir) BY <1>0, <1>2, <1>3 DEF ColumnsFit, Dirs
    <2> QED BY <1>1, <1>3, <2>1, <2>2, <2>3
  <1>5. Applied(a, seen[p].fee, held) = d BY <1>1, <1>4, WholeCorrection
  <1>6. seen[p].lot \in {None, bet.seq}
    <2>1. seen[p].lot # None => seen[p].lot <= bet.seq BY <1>0 DEF SeenOK
    <2>2. bet.seq = 0 BY DEF Clean, InLotOne
    <2> QED BY <1>1, <2>1, <2>2
  <1>7. fills' = [fills EXCEPT ![a].fee = @ + d] /\ books' = Repriced(attempt[a].dir, d)
    BY <1>3, <1>5, <1>6 DEF TrueUpMoney
  <1>8. fills'[a].fee = fills[a].fee + d
    <2>1. fills \in [Attempts -> FillSet] BY <1>0 DEF MInv, ColumnsOK
    <2> QED BY <1>7, <2>1 DEF FillSet
  <1>9. seen[p].fee = FeeRate * pass[p].total BY <1>0 DEF SeenOK
  <1>10. PICK q : q = Quotient(d * bet.closed, bet.filled) OBVIOUS
  <1>11. d \in Int /\ fills[a].fee + d = seen[p].fee BY <1>1
  <1>12. CASE attempt[a].dir = "EXIT"
    <2>1. books' = [books EXCEPT !.closeFee = @ + d, !.realized = @ - d] BY <1>7, <1>12 DEF Repriced
    <2> QED BY <1>1, <1>8, <1>9, <1>11, <1>12, <2>1 DEF BookSet
  <1>13. CASE attempt[a].dir = "ENTRY"
    <2>1. books' = [books EXCEPT !.fee = @ + d, !.realized = @ - q] BY <1>7, <1>10, <1>13 DEF Repriced
    <2> QED BY <1>1, <1>8, <1>9, <1>10, <1>11, <1>13, <2>1 DEF BookSet
  <1> QED BY <1>2, <1>12, <1>13 DEF Dirs

\* A current observation of an entry, or one after which the row is final, saw just what is booked.
LEMMA AllSeen ==
    ASSUME Ground, CashInv, NEW p \in Workers, TrueUpMoney(p), NEW a \in Attempts, a = pass[p].a,
           CurrentRead(p)
    PROVE  /\ attempt[a] # None /\ attempt[a].booked \in Nat
           /\ attempt[a].dir = "ENTRY" \/ attempt'[a].final => pass[p].total = attempt[a].booked
  <1>0. /\ PInv /\ RowsInv /\ TotalOK(p) /\ FinalOK /\ pass[p].at = "fees" /\ TrueUp(p)
    BY DEF Ground, MInv, AllInv, CashInv, LotInv, TrueUpMoney, TrueUp
  <1>1. attempt[a] # None /\ pass[p].total <= indexed[a] /\ RowOK(a) BY <1>0 DEF RowsInv, PassOK
  <1>2. /\ attempt[a].booked \in Nat /\ pass[p].total \in Nat /\ matched[a] \in Int /\ indexed[a] \in Nat
    BY <1>0, <1>1, RowShape, PassCarries DEF PInv
  <1>3. pass[p].total >= attempt[a].booked BY DEF CurrentRead
  <1>4. pass[p].terminal \/ attempt[a].dir = "ENTRY" => pass[p].total = attempt[a].booked
    BY <1>0, <1>2, <1>3 DEF TotalOK
  <1>5. attempt'[a].final => attempt[a].final \/ pass[p].terminal
    BY <1>0 DEF TrueUp
  <1>6. attempt[a].final => pass[p].total = attempt[a].booked
    <2> SUFFICES ASSUME attempt[a].final PROVE pass[p].total = attempt[a].booked OBVIOUS
    <2>1. attempt[a].booked = matched[a] /\ attempt[a].booked > 0 BY <1>0, <1>1 DEF FinalOK
    <2>2. indexed[a] <= matched[a] BY <1>1, <1>2, <2>1 DEF RowOK
    <2> QED BY <1>1, <1>2, <1>3, <2>1, <2>2
  <1> QED BY <1>1, <1>2, <1>4, <1>5, <1>6

\* After a correction the columns are what the attempts hold.
LEMMA ColumnsCorrected ==
    ASSUME Ground, Ground', CashInv, NEW p \in Workers, TrueUpMoney(p), NEW a \in Attempts, a = pass[p].a,
           Clean, CurrentRead(p), attempt[a].booked > 0, NEW d, d = seen[p].fee - fills[a].fee
    PROVE  /\ ColumnsFit'
           /\ Value("EXIT")' = Value("EXIT") - (IF attempt[a].dir = "EXIT" THEN d ELSE 0)
           /\ books'.spend + books'.fee = books.spend + books.fee + (IF attempt[a].dir = "ENTRY" THEN d ELSE 0)
  <1>0. MInv /\ MInv' /\ ColumnsFit BY DEF Ground, CashInv
  <1>1. /\ \A b \in Attempts : SameRow(b) /\ fills'[b].amount = fills[b].amount
        /\ \A b \in Attempts : b # a => fills'[b] = fills[b] /\ attempt'[b] = attempt[b]
        /\ attempt[a] # None /\ attempt'[a] # None
    BY <1>0, TrueUpKeeps
  <1>2. /\ d \in Int /\ fills'[a].fee = fills[a].fee + d /\ fills'[a].fee = FeeRate * pass[p].total
        /\ books'.spend = books.spend
        /\ attempt[a].dir = "EXIT" => books'.fee = books.fee /\ books'.closeFee = books.closeFee + d
        /\ attempt[a].dir = "ENTRY" => books'.fee = books.fee + d /\ books'.closeFee = books.closeFee
    BY FeeCharged
  <1>3. attempt[a].dir \in Dirs
    BY <1>0, <1>1, RowShape DEF MInv, Dirs
  <1>4. \A b \in Attempts : b # a => SameLedger(b)
    BY <1>1 DEF SameLedger, SharesOf, FeeOf, ValueOf, Of
  <1>5. fills[a].fee \in Nat /\ fills[a].amount \in Nat /\ books.spend \in Nat /\ books.fee \in Nat
    BY <1>0, ColumnTypes
  <1>6. fills'[a].fee - fills[a].fee = d /\ fills'[a].amount - fills[a].amount = 0 BY <1>1, <1>2, <1>5
  <1>7. attempt'[a].dir = attempt[a].dir BY <1>1 DEF SameRow
  <1>8. ASSUME NEW dir \in Dirs
        PROVE  /\ attempt[a].dir = dir =>
                    /\ FeesOf(dir)' = FeesOf(dir) + d
                    /\ dir = "ENTRY" => Value(dir)' = Value(dir) + d
                    /\ dir = "EXIT" => Value(dir)' = Value(dir) - d
               /\ attempt[a].dir # dir => FeesOf(dir)' = FeesOf(dir) /\ Value(dir)' = Value(dir)
               /\ FeesOf(dir) \in Nat /\ Value(dir) \in Int
    <2>1. /\ attempt[a].dir = dir =>
               /\ FeesOf(dir)' = FeesOf(dir) + fills'[a].fee - fills[a].fee
               /\ dir = "ENTRY" => Value(dir)' = Value(dir) + (fills'[a].amount - fills[a].amount)
                                                            + (fills'[a].fee - fills[a].fee)
               /\ dir = "EXIT" => Value(dir)' = Value(dir) + (fills'[a].amount - fills[a].amount)
                                                           - (fills'[a].fee - fills[a].fee)
          /\ attempt[a].dir # dir => FeesOf(dir)' = FeesOf(dir) /\ Value(dir)' = Value(dir)
          /\ FeesOf(dir) \in Nat /\ Value(dir) \in Int
      BY <1>0, <1>1, <1>4, <1>7, LedgerWritten
    <2> QED BY <1>2, <1>5, <1>6, <2>1
  <1>9. /\ books.spend + books.fee = Value("ENTRY") /\ books.fee = FeesOf("ENTRY")
        /\ books.closeFee = FeesOf("EXIT")
        /\ \A b \in Attempts : attempt[b] # None /\ attempt[b].final => fills[b].fee = FeeRate * attempt[b].booked
    BY <1>0 DEF ColumnsFit
  <1>10. /\ books'.spend + books'.fee = Value("ENTRY")' /\ books'.fee = FeesOf("ENTRY")'
         /\ books'.closeFee = FeesOf("EXIT")'
         /\ Value("EXIT")' = Value("EXIT") - (IF attempt[a].dir = "EXIT" THEN d ELSE 0)
         /\ books'.spend + books'.fee = books.spend + books.fee + (IF attempt[a].dir = "ENTRY" THEN d ELSE 0)
    <2>1. "ENTRY" \in Dirs /\ "EXIT" \in Dirs BY DEF Dirs
    <2>2. CASE attempt[a].dir = "ENTRY"
      <3>1. /\ FeesOf("ENTRY")' = FeesOf("ENTRY") + d /\ Value("ENTRY")' = Value("ENTRY") + d
            /\ FeesOf("EXIT")' = FeesOf("EXIT") /\ Value("EXIT")' = Value("EXIT") /\ Value("EXIT") \in Int
        BY <1>8, <2>1, <2>2
      <3> QED BY <1>2, <1>5, <1>9, <2>2, <3>1
    <2>3. CASE attempt[a].dir = "EXIT"
      <3>1. /\ FeesOf("EXIT")' = FeesOf("EXIT") + d /\ Value("EXIT")' = Value("EXIT") - d
            /\ FeesOf("ENTRY")' = FeesOf("ENTRY") /\ Value("ENTRY")' = Value("ENTRY")
        BY <1>8, <2>1, <2>3
      <3> QED BY <1>2, <1>5, <1>9, <2>3, <3>1
    <2> QED BY <1>3, <2>2, <2>3 DEF Dirs
  <1>11. \A b \in Attempts : attempt'[b] # None /\ attempt'[b].final => fills'[b].fee = FeeRate * attempt'[b].booked
    <2>1. attempt'[a].final => fills'[a].fee = FeeRate * attempt'[a].booked
      <3>1. attempt'[a].final => pass[p].total = attempt[a].booked BY AllSeen
      <3>2. attempt'[a].booked = attempt[a].booked BY <1>1 DEF SameRow
      <3> QED BY <1>2, <3>1, <3>2
    <2> QED BY <1>1, <1>9, <2>1
  <1> QED BY <1>10, <1>11 DEF ColumnsFit

\* The entry that is corrected is the only one, so after it the row has the charged fee.
LEMMA EntryCorrected ==
    ASSUME Ground, CashInv, NEW p \in Workers, TrueUpMoney(p), NEW a \in Attempts, a = pass[p].a,
           Clean, CurrentRead(p), attempt[a].booked > 0, attempt[a].dir = "ENTRY"
    PROVE  /\ books.fee = fills[a].fee /\ bet.filled = attempt[a].booked
           /\ seen[p].fee = FeeRate * bet.filled
  <1>0. MInv /\ PInv /\ RowsInv /\ ColumnsFit /\ FillsFit /\ OneFills /\ SeenOK(p)
    BY DEF Ground, MInv, AllInv, CashInv, LotInv
  <1>1. /\ attempt[a] # None /\ attempt[a].booked \in Nat /\ pass[p].total = attempt[a].booked BY AllSeen
  <1>2. ASSUME NEW b \in Attempts \ {a} PROVE Nothing(b, "ENTRY")
    <2>1. SharesOf(a, "ENTRY") > 0 BY <1>1 DEF SharesOf, Of
    <2>2. ~(SharesOf(b, "ENTRY") > 0) BY <1>0, <2>1 DEF OneFills, Clean
    <2>3. Of(b, "ENTRY") => attempt[b].booked = 0
      <3>1. Of(b, "ENTRY") => attempt[b].booked \in Nat BY <1>0, RowShape DEF Of
      <3> QED BY <2>2, <3>1 DEF SharesOf
    <2> QED BY <1>0, <2>3, NothingBooked DEF Dirs
  <1>3. Shares("ENTRY") = SharesOf(a, "ENTRY") /\ FeesOf("ENTRY") = FeeOf(a, "ENTRY")
    BY <1>0, <1>2, OnlyOne DEF Dirs
  <1>4. SharesOf(a, "ENTRY") = attempt[a].booked /\ FeeOf(a, "ENTRY") = fills[a].fee
    BY <1>1 DEF SharesOf, FeeOf, Of
  <1>5. bet.filled = attempt[a].booked BY <1>3, <1>4 DEF Clean, InLotOne
  <1>6. books.fee = fills[a].fee BY <1>0, <1>3, <1>4 DEF ColumnsFit
  <1>7. seen[p].fee = FeeRate * pass[p].total
    <2>1. pass[p].at = "fees" /\ ~seen[p].receipt BY DEF TrueUpMoney, TrueUp
    <2> QED BY <1>0, <2>1 DEF SeenOK
  <1> QED BY <1>1, <1>5, <1>6, <1>7

\* A correction charges what is closed with its part of it.
LEMMA BasisCorrected ==
    ASSUME Ground, Ground', CashInv, NEW p \in Workers, TrueUpMoney(p), NEW a \in Attempts, a = pass[p].a,
           Clean, CurrentRead(p), attempt[a].booked > 0, [Next]_vars
    PROVE  BasisCharged'
  <1>0. /\ MInv /\ PInv /\ ColumnsFit /\ BasisCharged /\ bet # None /\ bet' = bet /\ paid' = paid
        /\ (diluted' <=> diluted)
    BY DEF Ground, MInv, CashInv, Clean, InLotOne, TrueUpMoney, TrueUp
  <1> PICK d : d = seen[p].fee - fills[a].fee OBVIOUS
  <1>1. /\ d \in Int /\ books'.spend = books.spend
        /\ attempt[a].dir = "EXIT" => books'.fee = books.fee /\ books'.realized = books.realized - d
        /\ attempt[a].dir = "ENTRY" =>
             /\ books'.fee = books.fee + d
             /\ books'.realized = books.realized - Quotient(d * bet.closed, bet.filled)
    BY FeeCharged
  <1>2. /\ Value("EXIT")' = Value("EXIT") - (IF attempt[a].dir = "EXIT" THEN d ELSE 0)
        /\ books'.spend + books'.fee = books.spend + books.fee + (IF attempt[a].dir = "ENTRY" THEN d ELSE 0)
    BY ColumnsCorrected
  <1>3. Charged \in Int /\ Payout(paid) \in Nat /\ Payout(paid)' = Payout(paid) BY <1>0, ChargedType
  <1>4. Value("EXIT") \in Int /\ books.realized \in Int /\ books.spend \in Nat /\ books.fee \in Nat
    BY <1>0, LedgerTotals, ColumnTypes DEF Dirs
  <1>5. bet.filled \in Nat \ {0} /\ bet.closed \in Nat BY <1>0, BetShape
  <1>6. attempt[a].dir \in Dirs
    <2>1. attempt[a] # None BY AllSeen
    <2> QED BY <1>0, <2>1, RowShape DEF Dirs
  <1> SUFFICES ASSUME ~diluted'
               PROVE  /\ Near(Charged', books'.spend + books'.fee, bet'.closed, bet'.filled, Exact')
                      /\ bet'.closed = 0 => Charged' = 0
    BY DEF BasisCharged
  <1>7. /\ Near(Charged, books.spend + books.fee, bet.closed, bet.filled, Exact)
        /\ bet.closed = 0 => Charged = 0
    BY <1>0 DEF BasisCharged
  <1>8. CASE attempt[a].dir = "EXIT"
    <2>1. Charged' = Charged BY <1>1, <1>2, <1>3, <1>4, <1>8 DEF Charged
    <2>2. books'.spend + books'.fee = books.spend + books.fee /\ Exact' = Exact
      BY <1>0, <1>1, <1>8 DEF Exact
    <2> QED BY <1>0, <1>7, <2>1, <2>2
  <1>9. CASE attempt[a].dir = "ENTRY"
    <2> PICK c : c = bet.closed OBVIOUS
    <2> PICK f : f = bet.filled OBVIOUS
    <2> PICK t : t = books.spend + books.fee OBVIOUS
    <2> PICK q : q = Quotient(d * c, f) OBVIOUS
    <2>1. c \in Nat /\ f \in Nat \ {0} /\ t \in Nat /\ d * c \in Int BY <1>1, <1>4, <1>5
    <2>2. q \in Int /\ (d * c = 0 => q = 0) BY <2>1, QuotientRounds
    <2>3. Charged' = Charged + q
      <3>1. books'.realized = books.realized - q BY <1>1, <1>9
      <3>2. Value("EXIT")' = Value("EXIT") BY <1>2, <1>4, <1>9
      <3> QED BY <1>3, <1>4, <2>2, <3>1, <3>2 DEF Charged
    <2>4. books'.spend + books'.fee = t + d BY <1>2, <1>9
    <2>5. /\ books.fee = fills[a].fee /\ seen[p].fee = FeeRate * f BY <1>9, EntryCorrected
    <2>6. Exact' = 1
      <3>1. books'.fee = FeeRate * f
        <4>1. fills[a].fee \in Nat /\ seen[p].fee \in Nat BY <1>0, ColumnTypes
        <4> QED BY <1>1, <1>4, <1>9, <2>5, <4>1
      <3> QED BY <1>0, <3>1 DEF Exact
    <2>7. Near(Charged + q, t + d, c, f, 1)
      <3>1. CASE Exact = 1
        <4>1. d = 0
          <5>1. books.fee = FeeRate * bet.filled BY <3>1 DEF Exact
          <5> QED BY <1>4, <2>5, <5>1
        <4>2. d * c = 0 BY <2>1, <4>1
        <4>3. Charged + q = Charged /\ t + d = t BY <1>3, <2>1, <2>2, <4>1, <4>2
        <4> QED BY <1>7, <3>1, <4>3
      <3>2. CASE Exact # 1
        <4>1. Exact = 0 BY <3>2 DEF Exact
        <4>2. Near(Charged, t, c, f, 0) BY <1>7, <4>1
        <4> QED BY <1>1, <1>3, <2>1, <4>2, NearCorrected
      <3> QED BY <3>1, <3>2
    <2>8. c = 0 => Charged + q = 0
      <3> SUFFICES ASSUME c = 0 PROVE Charged + q = 0 OBVIOUS
      <3>1. d * c = 0 BY <1>1
      <3> QED BY <1>7, <2>2, <3>1
    <2> QED BY <1>0, <2>3, <2>4, <2>6, <2>7, <2>8
  <1> QED BY <1>6, <1>8, <1>9 DEF Dirs

\* A correction keeps what the row says, and what it has charged.
LEMMA TrueUpMoves ==
    ASSUME Ground, Ground', CashInv, NEW p \in Workers, TrueUpMoney(p), [Next]_vars
    PROVE  ColumnsFit' /\ BasisCharged'
  <1>0. /\ MInv /\ PInv /\ RowsInv /\ ColumnsFit /\ BasisCharged /\ TrueUp(p) /\ pass[p].at = "fees"
    BY DEF Ground, MInv, AllInv, CashInv, TrueUpMoney, TrueUp
  <1> PICK a \in Attempts : a = pass[p].a BY <1>0, PassCarries DEF PInv
  <1>1. /\ \A b \in Attempts : SameRow(b) /\ fills'[b].amount = fills[b].amount
        /\ \A b \in Attempts : b # a => fills'[b] = fills[b] /\ attempt'[b] = attempt[b]
        /\ attempt[a] # None /\ attempt'[a] # None
        /\ UNCHANGED <<bet, paid, diluted>>
    BY <1>0, TrueUpKeeps
  <1>2. CASE CurrentRead(p) /\ attempt[a].booked > 0
    <2>1. CASE ~Clean' BY <2>1 DEF ColumnsFit, BasisCharged
    <2>2. CASE Clean'
      <3>1. Clean
        <4>1. \A dir \in Dirs : \A b \in Attempts : SharesOf(b, dir)' = SharesOf(b, dir)
          BY <1>1 DEF SameRow, SharesOf, Of
        <4>2. Shares("ENTRY")' = Shares("ENTRY") /\ Shares("EXIT")' = Shares("EXIT")
          BY <4>1, SharesStand DEF Dirs
        <4> QED BY <1>1, <2>2, <4>2 DEF Clean, InLotOne
      <3>2. ColumnsFit' BY <1>2, <3>1, ColumnsCorrected
      <3>3. BasisCharged' BY <1>2, <3>1, BasisCorrected
      <3> QED BY <3>2, <3>3
    <2> QED BY <2>1, <2>2
  <1>3. CASE ~(CurrentRead(p) /\ attempt[a].booked > 0)
    <2>1. UNCHANGED <<fills, books>> BY <1>3 DEF TrueUpMoney
    <2>2. \A b \in Attempts : SameLedger(b)
      BY <1>1, <2>1 DEF SameRow, SameLedger, SharesOf, FeeOf, ValueOf, Of
    <2>3. LedgerStill BY <2>2, LedgerStands
    <2>4. attempt' = attempt
      <3>1. ~(pass[p].terminal /\ pass[p].total >= attempt[a].booked /\ attempt[a].state \in Booked)
        <4>1. attempt[a].state \in Booked => attempt[a].booked > 0 BY <1>0, <1>1 DEF RowsInv, RowOK
        <4> QED BY <1>3, <4>1 DEF CurrentRead
      <3> QED BY <1>0, <3>1 DEF TrueUp
    <2>5. FinalStands BY <2>1, <2>4 DEF FinalStands
    <2> QED BY <1>0, <1>1, <2>1, <2>3, <2>5, SameMoney
  <1> QED BY <1>2, <1>3
\* The settlement charges what is left of the basis.
LEMMA ConsumeMoves ==
    ASSUME Ground, Ground', CashInv, ConsumeMoney, [Next]_vars
    PROVE  ColumnsFit' /\ BasisCharged'
  <1>0. /\ MInv /\ PInv /\ PaidOK /\ ColumnsFit /\ BasisCharged /\ SalesClose
        /\ Consume /\ attempt' = attempt /\ UNCHANGED <<fills, diluted, market>>
    BY DEF Ground, MInv, AllInv, BoundsInv, CashInv, LotInv, ConsumeMoney, Consume
  <1>1. LedgerStill
    <2>1. \A b \in Attempts : SameLedger(b) BY <1>0 DEF SameLedger, SharesOf, FeeOf, ValueOf, Of
    <2> QED BY <2>1, LedgerStands
  <1>2. FinalStands BY <1>0 DEF FinalStands
  <1>3. CASE ~(Remainder(bet) > 0)
    <2>1. UNCHANGED <<bet, paid, books>> BY <1>3 DEF ConsumeMoney, Consume
    <2> QED BY <1>0, <1>1, <1>2, <2>1, SameMoney
  <1>4. CASE Remainder(bet) > 0 /\ ~Clean' BY <1>4 DEF ColumnsFit, BasisCharged
  <1>5. CASE Remainder(bet) > 0 /\ Clean'
    <2>1. bet # None BY <1>5 DEF Remainder
    <2>2. /\ bet \in BetSet /\ bet.filled \in Nat \ {0} /\ bet.closed \in Nat
          /\ (bet.settled => bet.closed = bet.filled) /\ Remainder(bet) = bet.filled - bet.closed
      BY <1>0, <2>1, BetShape
    <2>3. bet'.seq = bet.seq /\ bet'.filled = bet.filled /\ bet'.closed = bet.filled
      <3>1. bet' = [bet EXCEPT !.closed = bet.filled, !.settled = TRUE] BY <1>0, <1>5 DEF Consume
      <3> QED BY <2>2, <3>1 DEF BetSet
    <2>4. /\ Shares("ENTRY")' = Shares("ENTRY") /\ FeesOf("ENTRY")' = FeesOf("ENTRY")
          /\ FeesOf("EXIT")' = FeesOf("EXIT") /\ Value("ENTRY")' = Value("ENTRY")
          /\ Value("EXIT")' = Value("EXIT")
      BY <1>1 DEF LedgerStill, Dirs
    <2>5. InLotOne BY <1>5, <2>1, <2>3, <2>4 DEF Clean, InLotOne
    <2>6. Clean
      <3>1. Shares("EXIT") = bet.closed BY <1>0, <1>5, <2>5 DEF SalesClose
      <3> QED BY <2>2, <2>5, <3>1 DEF Clean
    <2> PICK r : r = Remainder(bet) OBVIOUS
    <2> PICK t : t = books.spend + books.fee OBVIOUS
    <2>7. r \in Nat /\ r >= 1 /\ bet.closed + r = bet.filled BY <1>5, <2>2
    <2>8. books.spend \in Nat /\ books.fee \in Nat /\ books.realized \in Int /\ books \in BookSet
      BY <1>0, ColumnTypes
    <2>9. CostBasis(r) = (t * r) \div bet.filled /\ CostBasis(r) \in Nat
      <3>1. t \in Nat BY <2>8
      <3>2. (t * r) \div bet.filled \in Nat BY <2>2, <2>7, <3>1, Proportion
      <3> QED BY <3>2 DEF CostBasis
    <2> PICK y : y = IF settle.won THEN Payout(r) ELSE 0 OBVIOUS
    <2>10. y \in Nat /\ Payout(paid) = 0 /\ Payout(paid)' = y
      <3>1. paid = 0 BY <1>0, <1>5, <2>2 DEF PaidOK
      <3>2. 0 * Dollar = 0 /\ r * Dollar \in Nat BY <2>7, MoneyAssumption
      <3>3. Payout(paid) = 0 BY <3>1, <3>2 DEF Payout
      <3>4. Payout(r) \in Nat BY <3>2 DEF Payout
      <3>5. paid' = IF settle.won THEN r ELSE 0
        <4>1. paid' = IF settle.won THEN 0 + r ELSE 0 BY <1>0, <1>5, <3>1 DEF Consume
        <4> QED BY <2>7, <4>1
      <3>6. Payout(paid)' = IF settle.won THEN Payout(r) ELSE 0 BY <1>0, <3>2, <3>5 DEF Payout
      <3> QED BY <3>3, <3>4, <3>6
    <2>11. /\ books'.spend = books.spend /\ books'.fee = books.fee /\ books'.closeFee = books.closeFee
           /\ books'.realized = books.realized + y - CostBasis(r)
      <3>1. PICK k : k = CostBasis(r) OBVIOUS
      <3>2. books' = [books EXCEPT !.proceeds = @ + y, !.realized = @ + y - k]
        BY <1>5, <3>1 DEF ConsumeMoney
      <3> QED BY <2>8, <3>1, <3>2 DEF BookSet
    <2>12. ColumnsFit'
      <3>1. /\ books'.spend + books'.fee = Value("ENTRY")'
            /\ books'.fee = FeesOf("ENTRY")' /\ books'.closeFee = FeesOf("EXIT")'
        BY <1>0, <2>4, <2>6, <2>11 DEF ColumnsFit
      <3>2. \A b \in Attempts : attempt'[b] # None /\ attempt'[b].final => fills'[b].fee = FeeRate * attempt'[b].booked
        BY <1>0, <2>6 DEF ColumnsFit
      <3> QED BY <3>1, <3>2 DEF ColumnsFit
    <2>13. Charged' = Charged + CostBasis(r) /\ Charged \in Int
      <3>1. Value("EXIT") \in Int BY <1>0, LedgerTotals DEF Dirs
      <3> QED BY <2>4, <2>8, <2>9, <2>10, <2>11, <3>1 DEF Charged
    <2>14. BasisCharged'
      <3> SUFFICES ASSUME ~diluted'
                   PROVE  /\ Near(Charged', books'.spend + books'.fee, bet'.closed, bet'.filled, Exact')
                          /\ bet'.closed # 0
        BY DEF BasisCharged
      <3>1. Near(Charged, t, bet.closed, bet.filled, Exact) BY <1>0, <2>6 DEF BasisCharged
      <3>2. Exact' = Exact /\ Exact \in Nat BY <2>3, <2>11 DEF Exact
      <3> PICK x : x = Exact OBVIOUS
      <3>3. t \in Nat BY <2>8
      <3>4. Near(Charged + ((t * r) \div bet.filled), t, bet.closed + r, bet.filled, x)
        BY <2>2, <2>7, <2>13, <3>1, <3>2, <3>3, NearSold
      <3>5. books'.spend + books'.fee = t BY <2>11
      <3> QED BY <2>2, <2>3, <2>7, <2>9, <2>13, <3>2, <3>4, <3>5
    <2> QED BY <2>12, <2>14
  <1> QED BY <1>3, <1>4, <1>5

\* Nothing is traded and nothing booked at first.
LEMMA CashInit == MoneyInit => CashInv
  <1> SUFFICES ASSUME MoneyInit PROVE CashInv OBVIOUS
  <1>1. MInv /\ AllInv BY MoneyStart, AllInit DEF MoneyInit
  <1>2. /\ bet = None /\ (\A a \in Attempts : attempt[a] = None /\ fills[a] = [amount |-> 0, fee |-> 0])
        /\ \A p \in Workers : pass[p].at = "idle"
        /\ books.realized = 0
        /\ \A s \in Sides : wallet[s] = 0 /\ burned[s] = 0
    BY DEF MoneyInit, Init, Idle
  <1>3. FinalOK /\ (\A p \in Workers : TotalOK(p) /\ SeenOK(p)) /\ Unmatched /\ OneEntry /\ NothingYet
    BY <1>2 DEF FinalOK, TotalOK, SeenOK, Unmatched, OneEntry, NothingYet, Of
  <1>4. OneFills /\ SalesClose /\ ColumnsFit /\ BasisCharged
    BY <1>2 DEF OneFills, SalesClose, ColumnsFit, BasisCharged, Clean, InLotOne
  <1>5. FillsFit BY <1>2 DEF FillsFit
  <1>6. Conserved
    <2> SUFFICES ASSUME NEW s \in Sides PROVE wallet[s] + burned[s] + SoldShares(s) <= BoughtShares(s)
      BY DEF Conserved
    <2>1. BoughtShares(s) \in Nat BY <1>1, TotalTypes DEF AllInv
    <2>2. SoldShares(s) = 0
      <3>1. IsFiniteSet(Attempts) BY AttemptsAssumption
      <3> DEFINE f == [a \in Attempts |-> SoldOf(a, s)]
      <3>2. f \in [Attempts -> Int] /\ \A a \in Attempts : f[a] = 0 BY <1>2 DEF SoldOf, Sales
      <3>3. SoldShares(s) = SumFunction(f) BY DEF SoldShares
      <3> HIDE DEF f
      <3> QED BY <3>1, <3>2, <3>3, SumZero
    <2> QED BY <1>2, <2>1, <2>2
  <1> QED BY <1>1, <1>3, <1>4, <1>5, <1>6 DEF CashInv, LotInv, Ground

\* And every step keeps it.
LEMMA CashNext == CashInv /\ [MoneyNext]_<<vars, money>> => CashInv'
  <1> SUFFICES ASSUME CashInv, [MoneyNext]_<<vars, money>> PROVE CashInv' OBVIOUS
  <1>0. /\ Ground /\ LotInv /\ FillsFit /\ NothingYet /\ ColumnsFit /\ BasisCharged
        /\ \A p \in Workers : SeenOK(p)
    BY DEF CashInv
  <1>1. [Next]_vars BY MoneyStep
  <1>2. Ground' BY <1>0, <1>1, MoneyNextInv, AllNext DEF Ground
  <1>3. LotInv' BY <1>0, <1>1, <1>2, LotNext
  <1>4. FillsFit' BY <1>0, <1>2, FillsMoves
  <1>5. \A p \in Workers : SeenOK(p)' BY <1>0, <1>2, SeenMoves
  <1>6. NothingYet' BY <1>0, <1>2, NothingMoves
  <1>7. ColumnsFit' /\ BasisCharged'
    <2>1. CASE MoneyStands BY <1>0, <1>1, <2>1, StandMoves
    <2>2. ASSUME NEW p \in Workers, BookMoney(p) PROVE ColumnsFit' /\ BasisCharged'
      BY <1>0, <1>1, <1>2, <2>2, BookMoves
    <2>3. ASSUME NEW p \in Workers, TrueUpMoney(p) PROVE ColumnsFit' /\ BasisCharged'
      BY <1>0, <1>1, <1>2, <2>3, TrueUpMoves
    <2>4. CASE ConsumeMoney BY <1>0, <1>1, <1>2, <2>4, ConsumeMoves
    <2>5. PInv BY <1>0 DEF Ground, MInv
    <2> QED BY <2>1, <2>2, <2>3, <2>4, <2>5, MoneySteps
  <1> QED BY <1>2, <1>3, <1>4, <1>5, <1>6, <1>7 DEF CashInv
-----------------------------------------------------------------------------
(* The profit of a closed position.                                        *)

\* The position is closed, and all that was traded for it is reconciled.
Reconciled ==
    /\ bet # None /\ bet.seq = 0 /\ Remainder(bet) = 0 /\ ~diluted
    /\ bet.filled = BookedShares("ENTRY")
    /\ \A a \in Traded("ENTRY") \cup Traded("EXIT") : attempt[a].final

\* What an order matched is then booked, and nothing else is.
LEMMA TradedBooked ==
    ASSUME Ground, FinalOK, Reconciled, NEW a \in Attempts, NEW dir \in Dirs
    PROVE  /\ SharesOf(a, dir) = IF a \in Traded(dir) THEN matched[a] ELSE 0
           /\ a \in Traded(dir) => /\ Of(a, dir) /\ attempt[a].final /\ attempt[a].booked = matched[a]
                                   /\ matched[a] \in Nat /\ matched[a] > 0
           /\ a \notin Traded(dir) /\ Of(a, dir) => attempt[a].booked = 0
  <1>0. PInv /\ RowsInv BY DEF Ground, MInv, AllInv
  <1>1. matched[a] \in Int /\ indexed[a] \in Nat /\ (attempt[a] # None => attempt[a].booked \in Nat)
    BY <1>0, RowShape
  <1>2. CASE a \in Traded(dir)
    <2>1. Of(a, dir) /\ matched[a] > 0 /\ attempt[a] # None BY <1>2 DEF Traded, Of
    <2>2. attempt[a].final BY <1>2 DEF Reconciled, Dirs
    <2>3. attempt[a].booked = matched[a] BY <2>1, <2>2 DEF FinalOK
    <2> QED BY <1>1, <1>2, <2>1, <2>2, <2>3 DEF SharesOf
  <1>3. CASE a \notin Traded(dir) /\ Of(a, dir)
    <2>1. attempt[a] # None /\ RowOK(a) /\ ~(matched[a] > 0) BY <1>0, <1>3 DEF Traded, Of, RowsInv
    <2>2. attempt[a].booked = 0 BY <1>1, <2>1 DEF RowOK
    <2> QED BY <1>3, <2>2 DEF SharesOf
  <1>4. CASE a \notin Traded(dir) /\ ~Of(a, dir) BY <1>4 DEF SharesOf
  <1> QED BY <1>2, <1>3, <1>4

\* So its lot is clean: no more was sold than was bought, and all of it is closed.
LEMMA ReconciledClean ==
    ASSUME CashInv, Reconciled
    PROVE  Clean /\ bet.closed = bet.filled
  <1>0. /\ Ground /\ FinalOK /\ Conserved /\ MInv /\ PInv /\ RowsInv /\ FirstLotOK /\ HoldingsOK
        /\ bet # None /\ IsFiniteSet(Attempts)
    BY AttemptsAssumption DEF CashInv, LotInv, Ground, MInv, AllInv, RowsInv, BoundsInv, Reconciled
  <1>1. bet.closed = bet.filled /\ bet.side \in Sides /\ bet.filled \in Nat
    BY <1>0, BetShape DEF Reconciled
  <1>2. InLotOne
    <2>1. \A a \in Attempts : (IF a \in Traded("ENTRY") THEN attempt[a].booked ELSE 0) = SharesOf(a, "ENTRY")
      BY <1>0, TradedBooked DEF Dirs
    <2>2. [a \in Attempts |-> IF a \in Traded("ENTRY") THEN attempt[a].booked ELSE 0]
            = [a \in Attempts |-> SharesOf(a, "ENTRY")]
      BY <2>1
    <2>3. BookedShares("ENTRY") = Shares("ENTRY") BY <2>2 DEF BookedShares, Shares
    <2> QED BY <2>3 DEF Reconciled, InLotOne
  <1> PICK s \in Sides : s = bet.side BY <1>1
  <1> DEFINE f == [a \in Attempts |-> SharesOf(a, "EXIT")]
             g == [a \in Attempts |-> SoldOf(a, s)]
             h == [a \in Attempts |-> Bought(a, s)]
             e == [a \in Attempts |-> SharesOf(a, "ENTRY")]
  <1>3. \A a \in Attempts : /\ SharesOf(a, "EXIT") \in Int /\ SharesOf(a, "ENTRY") \in Int
                            /\ SoldOf(a, s) \in Int /\ Bought(a, s) \in Int
                            /\ SharesOf(a, "EXIT") <= SoldOf(a, s)
                            /\ Bought(a, s) <= SharesOf(a, "ENTRY")
    <2> SUFFICES ASSUME NEW a \in Attempts
                 PROVE  /\ SharesOf(a, "EXIT") \in Int /\ SharesOf(a, "ENTRY") \in Int
                        /\ SoldOf(a, s) \in Int /\ Bought(a, s) \in Int
                        /\ SharesOf(a, "EXIT") <= SoldOf(a, s)
                        /\ Bought(a, s) <= SharesOf(a, "ENTRY")
      OBVIOUS
    <2>1. matched[a] \in Int BY <1>0, RowShape
    <2>2. SharesOf(a, "EXIT") = IF a \in Traded("EXIT") THEN matched[a] ELSE 0 BY <1>0, TradedBooked DEF Dirs
    <2>3. SharesOf(a, "ENTRY") = IF a \in Traded("ENTRY") THEN matched[a] ELSE 0 BY <1>0, TradedBooked DEF Dirs
    <2>4. a \in Traded("EXIT") => a \in Sales(s)
      <3>1. attempt[a] # None /\ attempt[a].dir = "EXIT" => attempt[a].side = s
        BY <1>0 DEF FirstLotOK, Reconciled
      <3> QED BY <3>1 DEF Traded, Sales
    <2>5. SoldOf(a, s) = (IF a \in Sales(s) THEN matched[a] ELSE 0) /\ (a \in Sales(s) => matched[a] > 0)
      BY DEF SoldOf, Sales
    <2>6. Bought(a, s) = (IF IsBuy(a, s) THEN matched[a] ELSE 0) /\ (IsBuy(a, s) => a \in Traded("ENTRY"))
      BY DEF Bought, IsBuy, Traded
    <2>7. a \in Traded("ENTRY") => matched[a] > 0 BY DEF Traded
    <2> QED BY <2>1, <2>2, <2>3, <2>4, <2>5, <2>6, <2>7
  <1>4. /\ f \in [Attempts -> Int] /\ g \in [Attempts -> Int] /\ h \in [Attempts -> Int] /\ e \in [Attempts -> Int]
        /\ (\A a \in Attempts : f[a] <= g[a]) /\ (\A a \in Attempts : h[a] <= e[a])
    BY <1>3
  <1>5. /\ Shares("EXIT") = SumFunction(f) /\ SoldShares(s) = SumFunction(g)
        /\ BoughtShares(s) = SumFunction(h) /\ Shares("ENTRY") = SumFunction(e)
    BY DEF Shares, SoldShares, BoughtShares
  <1> HIDE DEF f, g, h, e
  <1>6. SumFunction(f) <= SumFunction(g) BY <1>0, <1>4, SumMonotone
  <1>7. SumFunction(h) <= SumFunction(e) BY <1>0, <1>4, SumMonotone
  <1>8. SoldShares(s) <= BoughtShares(s) /\ SoldShares(s) \in Int /\ BoughtShares(s) \in Int
    <2>1. wallet[s] \in Nat /\ burned[s] \in Nat /\ wallet[s] + burned[s] + SoldShares(s) <= BoughtShares(s)
      BY <1>0 DEF HoldingsOK, Conserved
    <2>2. SoldShares(s) \in Nat BY <1>0, SoldTypes
    <2>3. BoughtShares(s) \in Nat BY <1>0, TotalTypes
    <2> QED BY <2>1, <2>2, <2>3
  <1>9. Shares("EXIT") \in Nat /\ Shares("ENTRY") \in Nat BY <1>0, LedgerTotals DEF Dirs
  <1>10. Shares("EXIT") <= bet.filled BY <1>2, <1>5, <1>6, <1>7, <1>8, <1>9 DEF InLotOne
  <1> QED BY <1>1, <1>2, <1>10 DEF Clean

\* And what the attempts hold is what the wallet spent and got.
LEMMA ReconciledCash ==
    ASSUME CashInv, Reconciled
    PROVE  Cash = Value("EXIT") - Value("ENTRY") + Payout(paid)
  <1>0. Ground /\ MInv /\ FinalOK /\ FillsFit /\ ColumnsFit /\ Clean
    BY ReconciledClean DEF CashInv, LotInv, Ground
  <1>1. ASSUME NEW a \in Attempts
        PROVE  ValueOf(a, "ENTRY") = SpentOn(a) /\ ValueOf(a, "EXIT") = GotFor(a)
    <2>1. /\ price[a] \in Nat /\ FeeRate \in Nat /\ fills[a].fee \in Nat BY <1>0, ColumnTypes
    <2>2. ASSUME NEW dir \in Dirs, a \in Traded(dir)
          PROVE  /\ Of(a, dir) /\ matched[a] \in Nat
                 /\ fills[a].amount = price[a] * matched[a] /\ fills[a].fee = FeeRate * matched[a]
      <3>1. Of(a, dir) /\ attempt[a].final /\ attempt[a].booked = matched[a] /\ matched[a] \in Nat
        BY <1>0, <2>2, TradedBooked
      <3>2. attempt[a] # None BY <3>1 DEF Of
      <3>3. fills[a].amount = price[a] * attempt[a].booked BY <1>0, <3>2 DEF FillsFit
      <3>4. fills[a].fee = FeeRate * attempt[a].booked BY <1>0, <3>1, <3>2 DEF ColumnsFit
      <3> QED BY <3>1, <3>3, <3>4
    <2>3. ASSUME NEW dir \in Dirs, a \notin Traded(dir) PROVE ValueOf(a, dir) = 0
      <3>1. Of(a, dir) => attempt[a].booked = 0 BY <1>0, <2>3, TradedBooked
      <3> QED BY <1>0, <3>1, NothingBooked DEF Nothing
    <2>4. ValueOf(a, "ENTRY") = SpentOn(a)
      <3>1. CASE a \in Traded("ENTRY")
        <4>1. /\ Of(a, "ENTRY") /\ matched[a] \in Nat
              /\ fills[a].amount = price[a] * matched[a] /\ fills[a].fee = FeeRate * matched[a]
          BY <2>2, <3>1 DEF Dirs
        <4>2. price[a] * matched[a] + FeeRate * matched[a] = matched[a] * (price[a] + FeeRate) BY <2>1, <4>1
        <4>3. ValueOf(a, "ENTRY") = fills[a].amount + fills[a].fee BY <4>1 DEF ValueOf
        <4> QED BY <3>1, <4>1, <4>2, <4>3 DEF SpentOn
      <3>2. CASE a \notin Traded("ENTRY") BY <2>3, <3>2 DEF SpentOn, Dirs
      <3> QED BY <3>1, <3>2
    <2>5. ValueOf(a, "EXIT") = GotFor(a)
      <3>1. CASE a \in Traded("EXIT")
        <4>1. /\ Of(a, "EXIT") /\ matched[a] \in Nat
              /\ fills[a].amount = price[a] * matched[a] /\ fills[a].fee = FeeRate * matched[a]
          BY <2>2, <3>1 DEF Dirs
        <4>2. price[a] * matched[a] - FeeRate * matched[a] = matched[a] * (price[a] - FeeRate) BY <2>1, <4>1
        <4>3. ValueOf(a, "EXIT") = fills[a].amount - fills[a].fee BY <4>1 DEF ValueOf
        <4> QED BY <3>1, <4>1, <4>2, <4>3 DEF GotFor
      <3>2. CASE a \notin Traded("EXIT") BY <2>3, <3>2 DEF GotFor, Dirs
      <3> QED BY <3>1, <3>2
    <2> QED BY <2>4, <2>5
  <1>2. /\ [a \in Attempts |-> ValueOf(a, "ENTRY")] = [a \in Attempts |-> SpentOn(a)]
        /\ [a \in Attempts |-> ValueOf(a, "EXIT")] = [a \in Attempts |-> GotFor(a)]
    BY <1>1
  <1> QED BY <1>2 DEF Cash, Value

\* What is realized is the cash that moved, up to what the divisions round.
LEMMA CashImplies == CashInv => PnlIsCash
  <1> SUFFICES ASSUME CashInv, Reconciled PROVE books.realized - Cash \in -Rounding .. Rounding
    BY DEF PnlIsCash, Reconciled
  <1>0. /\ MInv /\ PInv /\ RowsInv /\ FillsOK /\ PaidOK /\ ColumnsFit /\ BasisCharged /\ ~diluted /\ bet # None
    BY DEF CashInv, Ground, MInv, AllInv, BoundsInv, Reconciled
  <1>1. Clean /\ bet.closed = bet.filled BY ReconciledClean
  <1>2. /\ Value("EXIT") \in Int /\ Value("ENTRY") \in Int /\ books.realized \in Int
        /\ books.spend \in Nat /\ books.fee \in Nat
    BY <1>0, LedgerTotals, ColumnTypes DEF Dirs
  <1>3. Payout(paid) \in Nat
    <2>1. paid * Dollar \in Nat BY <1>0, MoneyAssumption DEF PaidOK
    <2> QED BY <2>1 DEF Payout
  <1> PICK k : k = Charged OBVIOUS
  <1> PICK t : t = books.spend + books.fee OBVIOUS
  <1> PICK f : f = bet.filled OBVIOUS
  <1> PICK x : x = Exact OBVIOUS
  <1>4. k \in Int /\ t \in Nat /\ f \in Nat \ {0} /\ x \in Nat /\ x <= 1
    BY <1>0, <1>2, <1>3, BetShape DEF Charged, Exact
  <1>5. Near(k, t, f, f, x) BY <1>0, <1>1 DEF BasisCharged
  <1>6. k - t <= f + x /\ t - k <= f + x BY <1>4, <1>5, NearClosed
  <1>7. f <= Total /\ Total \in Int
    <2>1. BookedEntries \in Nat /\ BookedEntries <= Total BY <1>0, TotalTypes
    <2>2. Total \in Int
      <3>1. Cardinality(Attempts) \in Nat BY AttemptsAssumption, FS_CardinalityType
      <3> QED BY <3>1, TickAssumption DEF Total
    <2> QED BY <1>0, <1>4, <2>1, <2>2 DEF FillsOK
  <1>8. t = Value("ENTRY") BY <1>0, <1>1 DEF ColumnsFit
  <1>9. books.realized - Cash = t - k
    <2>1. Cash = Value("EXIT") - Value("ENTRY") + Payout(paid) BY ReconciledCash
    <2> QED BY <1>2, <1>3, <1>8, <2>1 DEF Charged
  <1> QED BY <1>4, <1>6, <1>7, <1>9 DEF Rounding

\* realizedPnlMicro: the profit of a closed position is the cash that moved, to the rounding.
THEOREM ProfitIsCash == MoneySpec => []PnlIsCash
  <1>1. MoneyInit => CashInv BY CashInit
  <1>2. CashInv /\ [MoneyNext]_<<vars, money>> => CashInv' BY CashNext
  <1>3. CashInv => PnlIsCash BY CashImplies
  <1> QED BY <1>1, <1>2, <1>3, PTL DEF MoneySpec
=============================================================================
