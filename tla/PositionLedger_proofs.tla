------------------------- MODULE PositionLedger_proofs -------------------------
(***************************************************************************)
(* What is proved of PositionLedger for any number of attempts, passes and *)
(* shares, any tick and any lag of the trade index: the row never closes   *)
(* more than it holds, a settled position on a closed market stands, and   *)
(* rows, index, exchange, wallet and payments keep AllInv, the inductive   *)
(* invariant from which the types and the bounds of the instances follow.  *)
(* A second part proves what backs the shares of a lot: tokens in the      *)
(* wallet, tokens the redeemer burned, or sales that are matched and not   *)
(* booked yet; of the first lot for any lag of the trade index, and of     *)
(* every lot as long as a booked row holds all that was matched, which an  *)
(* index that does not lag while the market trades makes sure of.  A third *)
(* part proves that the position implements LotContract.                   *)
(***************************************************************************)
EXTENDS PositionLedger, SumLemmas

Probing == [at : {"probe"}, a : Attempts, row : RowSet]
Booking == [at : {"book"}, a : Attempts, row : RowSet, total : Nat, terminal : BOOLEAN]
Fees    == [at : {"fees"}, a : Attempts, total : Nat, terminal : BOOLEAN]

AttemptsOK == /\ attempt \in [Attempts -> RowSet \cup {None}]
              /\ matched \in [Attempts -> Int]
              /\ indexed \in [Attempts -> Nat]

\* A pass works on a row that exists.
PassesOK == /\ pass \in [Workers -> {Idle} \cup Probing \cup Booking \cup Fees]
            /\ \A p \in Workers : pass[p].at # "idle" => attempt[pass[p].a] \in RowSet

\* What is settled has nothing left.
BetOK == \/ bet = None
         \/ /\ bet \in BetSet
            /\ bet.closed <= bet.filled
            /\ bet.settled => bet.closed = bet.filled

PInv == AttemptsOK /\ PassesOK /\ BetOK

-----------------------------------------------------------------------------
(* The operators of the booking.                                           *)

\* What is left of a position is a number.
LEMMA RemainderIsNat ==
    ASSUME BetOK
    PROVE  Remainder(bet) \in Nat
  BY DEF BetOK, BetSet, Remainder

\* A sale closes something, and no more than is left.
LEMMA ClosingFits ==
    ASSUME BetOK, NEW n \in Int, n > 0
    PROVE  Closing(n) \in Nat /\ Closing(n) <= Remainder(bet)
  BY RemainderIsNat, TickAssumption DEF Closing, Smaller

\* A booked row is a row.
LEMMA StampedRow ==
    ASSUME NEW row \in RowSet, NEW n \in Nat, NEW lot \in {None} \cup Nat
    PROVE  /\ Stamped(row, n, lot) \in RowSet
           /\ KeptAside(row, n) \in RowSet
  BY DEF Stamped, KeptAside, Label, RowSet

\* The step writes the row of attempt a and no other.
Writes(a) == /\ attempt' \in [Attempts -> RowSet \cup {None}]
             /\ attempt'[a] \in RowSet
             /\ \A b \in Attempts : b # a => attempt'[b] = attempt[b]

\* One row is written.
LEMMA OneRowWritten ==
    ASSUME AttemptsOK, NEW a \in Attempts, NEW r \in RowSet, attempt' = [attempt EXCEPT ![a] = r]
    PROVE  Writes(a)
  BY DEF AttemptsOK, Writes

\* An entry that is booked opens a lot or adds to the open one.
LEMMA EntryKeeps ==
    ASSUME AttemptsOK, BetOK, NEW a \in Attempts, NEW row \in RowSet, attempt[a] \in RowSet,
           NEW delta \in Int, delta > 0, EntryBooking(a, row, delta)
    PROVE  BetOK' /\ Writes(a) /\ (bet' = bet \/ bet' \in BetSet)
  <1> DEFINE n == attempt[a].booked + delta
  <1>1. n \in Nat /\ attempt[a].lot \in {None} \cup Nat
    BY DEF RowSet
  <1> HIDE DEF n
  <1>2. \A lot \in {None} \cup Nat : Stamped(attempt[a], n, lot) \in RowSet
    BY <1>1, StampedRow
  <1>3. KeptAside(attempt[a], n) \in RowSet
    BY <1>1, StampedRow
  <1>4. CASE StaleLot(row)
    <2>1. attempt' = [attempt EXCEPT ![a] = KeptAside(attempt[a], n)] /\ bet' = bet
      BY <1>4 DEF EntryBooking, n
    <2> QED BY <2>1, <1>3, OneRowWritten DEF BetOK
  <1>5. CASE ~StaleLot(row) /\ LateFill
    <2>1. attempt' = [attempt EXCEPT ![a] = Stamped(attempt[a], n, attempt[a].lot)] /\ bet' = bet
      BY <1>5 DEF EntryBooking, n
    <2> QED BY <2>1, <1>2, <1>1, OneRowWritten DEF BetOK
  <1>6. CASE ~StaleLot(row) /\ ~LateFill
    <2> DEFINE fresh == [side |-> row.side, filled |-> delta, closed |-> 0,
                         seq |-> IF bet = None THEN 0 ELSE bet.seq + 1, settled |-> FALSE]
    <2>1. /\ bet' = IF bet = None \/ Reopening(bet)
                    THEN fresh ELSE [bet EXCEPT !.filled = @ + delta]
          /\ attempt' = [attempt EXCEPT ![a] = Stamped(attempt[a], n, bet'.seq)]
      BY <1>6 DEF EntryBooking, n
    <2>2. /\ bet' \in BetSet /\ bet'.closed <= bet'.filled
          /\ bet'.settled => bet'.closed = bet'.filled
      <3>1. CASE bet = None \/ Reopening(bet)
        <4>1. fresh \in BetSet /\ fresh.closed <= fresh.filled /\ ~fresh.settled
          BY DEF BetSet, RowSet, BetOK
        <4> QED BY <2>1, <3>1, <4>1
      <3>2. CASE bet # None /\ ~Reopening(bet)
        <4>1. bet' = [bet EXCEPT !.filled = bet.filled + delta] /\ bet \in BetSet
          BY <2>1, <3>2 DEF BetOK
        <4>2. bet.closed <= bet.filled /\ ~bet.settled
          BY <3>2, TickAssumption DEF Reopening, BetOK, BetSet, Remainder
        <4> QED BY <4>1, <4>2 DEF BetSet
      <3> QED BY <3>1, <3>2
    <2>3. bet'.seq \in {None} \cup Nat
      BY <2>2 DEF BetSet
    <2>4. Writes(a)
      BY <2>1, <2>3, <1>2, OneRowWritten
    <2> QED BY <2>2, <2>4 DEF BetOK
  <1> QED BY <1>4, <1>5, <1>6

\* A sale closes no more than is held, and settles the lot it empties.
LEMMA ExitKeeps ==
    ASSUME AttemptsOK, BetOK, NEW a \in Attempts, NEW row \in RowSet, attempt[a] \in RowSet,
           NEW delta \in Int, delta > 0, ExitBooking(a, row, delta)
    PROVE  BetOK' /\ Writes(a) /\ (bet' = bet \/ bet' \in BetSet)
  <1> DEFINE n == attempt[a].booked + delta
  <1>1. n \in Nat
    BY DEF RowSet
  <1> HIDE DEF n
  <1>2. \A lot \in {None} \cup Nat : Stamped(attempt[a], n, lot) \in RowSet
    BY <1>1, StampedRow
  <1>3. KeptAside(attempt[a], n) \in RowSet
    BY <1>1, StampedRow
  <1>4. CASE StaleLot(row)
    <2>1. attempt' = [attempt EXCEPT ![a] = KeptAside(attempt[a], n)] /\ bet' = bet
      BY <1>4 DEF ExitBooking, n
    <2> QED BY <2>1, <1>3, OneRowWritten DEF BetOK
  <1>5. CASE ~StaleLot(row) /\ Remainder(bet) = 0
    <2>1. bet' = bet /\ (\/ attempt' = attempt
                         \/ attempt' = [attempt EXCEPT ![a] = [attempt[a] EXCEPT !.state = "KILLED"]])
      BY <1>5 DEF ExitBooking
    <2>2. [attempt[a] EXCEPT !.state = "KILLED"] \in RowSet
      BY DEF RowSet
    <2>3. CASE attempt' = attempt
      BY <2>1, <2>3 DEF BetOK, Writes, AttemptsOK
    <2>4. CASE attempt' = [attempt EXCEPT ![a] = [attempt[a] EXCEPT !.state = "KILLED"]]
      BY <2>1, <2>2, <2>4, OneRowWritten DEF BetOK
    <2> QED BY <2>1, <2>3, <2>4
  <1>6. CASE ~StaleLot(row) /\ Remainder(bet) # 0
    <2> DEFINE c == Closing(delta)
    <2>1. /\ bet' = [bet EXCEPT !.closed = bet.closed + c,
                                !.settled = bet.settled \/ c = Remainder(bet)]
          /\ attempt' = [attempt EXCEPT ![a] = Stamped(attempt[a], n, bet.seq)]
      BY <1>6 DEF ExitBooking, n
    <2>2. c \in Nat /\ c <= Remainder(bet)
      BY ClosingFits
    <2>3. /\ bet \in BetSet /\ ~bet.settled /\ bet.closed <= bet.filled
          /\ Remainder(bet) = bet.filled - bet.closed
      BY <1>6 DEF BetOK, BetSet, Remainder
    <2> HIDE DEF c
    <2>4. bet' \in BetSet
      <3> DEFINE k == bet.closed + c
      <3>1. k \in Nat
        BY <2>2, <2>3 DEF BetSet
      <3>2. CASE c = Remainder(bet)
        <4>1. bet' = [bet EXCEPT !.closed = k, !.settled = TRUE]
          BY <2>1, <3>2
        <4> HIDE DEF k
        <4> QED BY <2>3, <3>1, <4>1 DEF BetSet
      <3>3. CASE c # Remainder(bet)
        <4>1. bet' = [bet EXCEPT !.closed = k, !.settled = FALSE]
          BY <2>1, <2>3, <3>3
        <4> HIDE DEF k
        <4> QED BY <2>3, <3>1, <4>1 DEF BetSet
      <3> QED BY <3>2, <3>3
    <2>5. /\ bet'.closed <= bet'.filled
          /\ bet'.settled => bet'.closed = bet'.filled
      BY <2>1, <2>2, <2>3 DEF BetSet
    <2>6. bet.seq \in {None} \cup Nat
      BY <2>3 DEF BetSet
    <2>7. Writes(a)
      BY <2>1, <2>6, <1>2, OneRowWritten
    <2> QED BY <2>4, <2>5, <2>7 DEF BetOK
  <1> QED BY <1>4, <1>5, <1>6

-----------------------------------------------------------------------------
(* The invariant.                                                          *)

\* The invariant holds when nothing has been signed.
LEMMA InitInv == Init => PInv
  <1> SUFFICES ASSUME Init PROVE PInv
    OBVIOUS
  <1>1. AttemptsOK
    BY DEF Init, AttemptsOK
  <1>2. pass \in [Workers -> {Idle} \cup Probing \cup Booking \cup Fees]
    BY DEF Init
  <1>3. \A p \in Workers : pass[p].at = "idle"
    BY DEF Init, Idle
  <1> QED BY <1>1, <1>2, <1>3 DEF Init, PInv, PassesOK, BetOK

\* Passes that stay where they are keep their rows, and so does one that goes on
\* with the attempt it had.
LEMMA PassesKept ==
    ASSUME PassesOK, pass' = pass,
           NEW a \in Attempts, Writes(a) \/ attempt' = attempt
    PROVE  PassesOK'
  <1>1. \A b \in Attempts : attempt[b] \in RowSet => attempt'[b] \in RowSet
    BY DEF Writes
  <1>2. \A p \in Workers : pass[p].at # "idle" => pass[p].a \in Attempts
    BY DEF PassesOK, Idle, Probing, Booking, Fees
  <1> QED BY <1>1, <1>2 DEF PassesOK

\* A pass moves from what it read to what it was told.
LEMMA PassMoves ==
    ASSUME PassesOK, NEW p \in Workers, NEW a \in Attempts,
           NEW new \in {Idle} \cup Probing \cup Booking \cup Fees,
           new.at # "idle" => new.a = a, attempt[a] \in RowSet,
           pass' = [pass EXCEPT ![p] = new],
           Writes(a) \/ attempt' = attempt
    PROVE  PassesOK'
  <1>1. \A b \in Attempts : attempt[b] \in RowSet => attempt'[b] \in RowSet
    BY DEF Writes
  <1>2. \A q \in Workers : pass[q].at # "idle" => pass[q].a \in Attempts
    BY DEF PassesOK, Idle, Probing, Booking, Fees
  <1>3. pass' \in [Workers -> {Idle} \cup Probing \cup Booking \cup Fees]
    BY DEF PassesOK
  <1>4. ASSUME NEW q \in Workers, pass'[q].at # "idle"
        PROVE  attempt'[pass'[q].a] \in RowSet
    <2>1. CASE q = p
      BY <1>1, <1>4, <2>1 DEF PassesOK
    <2>2. CASE q # p
      BY <1>1, <1>2, <1>4, <2>2 DEF PassesOK
    <2> QED BY <2>1, <2>2
  <1> QED BY <1>3, <1>4 DEF PassesOK

\* What a pass carries at each of its steps.
LEMMA PassCarries ==
    ASSUME PassesOK, NEW p \in Workers, pass[p].at # "idle"
    PROVE  /\ pass[p].a \in Attempts /\ attempt[pass[p].a] \in RowSet
           /\ pass[p].at = "probe" => pass[p].row \in RowSet
           /\ pass[p].at = "book" => /\ pass[p].row \in RowSet
                                     /\ pass[p].total \in Nat /\ pass[p].terminal \in BOOLEAN
           /\ pass[p].at = "fees" => pass[p].total \in Nat /\ pass[p].terminal \in BOOLEAN
  BY DEF PassesOK, Idle, Probing, Booking, Fees

\* A booking keeps the position within its fills.
LEMMA BookKeeps ==
    ASSUME PInv, NEW p \in Workers, Book(p)
    PROVE  PInv'
  <1> DEFINE a == pass[p].a
             row == pass[p].row
             fees == [at |-> "fees", a |-> a, total |-> pass[p].total,
                      terminal |-> pass[p].terminal /\ Delta(p) = 0]
  <1>1. /\ a \in Attempts /\ attempt[a] \in RowSet /\ row \in RowSet
        /\ pass[p].total \in Nat /\ pass[p].terminal \in BOOLEAN
        /\ AttemptsOK /\ PassesOK /\ BetOK /\ pass[p].at = "book"
    BY PassCarries DEF PInv, Book
  <1>2. Delta(p) \in Int
    BY <1>1 DEF Delta, RowSet
  <1>3. UNCHANGED <<matched, indexed>>
    BY DEF Book
  <1>4. CASE pass[p].total = 0
    <2>1. /\ pass' = [pass EXCEPT ![p] = Idle] /\ bet' = bet
          /\ \/ attempt' = attempt
             \/ attempt' = [attempt EXCEPT ![a] = [attempt[a] EXCEPT !.state = "KILLED"]]
      BY <1>4 DEF Book
    <2>2. [attempt[a] EXCEPT !.state = "KILLED"] \in RowSet
      BY <1>1 DEF RowSet
    <2>3. attempt' = attempt \/ Writes(a)
      BY <1>1, <2>1, <2>2, OneRowWritten
    <2>4. PassesOK'
      BY <1>1, <2>1, <2>3, PassMoves DEF Idle
    <2> QED BY <1>1, <1>3, <2>1, <2>3, <2>4 DEF PInv, AttemptsOK, BetOK, Writes
  <1>5. CASE pass[p].total # 0
    <2>1. pass' = [pass EXCEPT ![p] = fees]
      BY <1>5 DEF Book
    <2>2. fees \in Fees
      BY <1>1 DEF Fees
    <2>3. (attempt' = attempt \/ Writes(a)) /\ BetOK'
      <3>1. CASE Delta(p) <= 0
        BY <1>1, <1>5, <3>1 DEF Book, BetOK
      <3>2. CASE Delta(p) > 0 /\ EntryBooking(a, row, Delta(p))
        BY <1>1, <1>2, <3>2, EntryKeeps
      <3>3. CASE Delta(p) > 0 /\ ExitBooking(a, row, Delta(p))
        BY <1>1, <1>2, <3>3, ExitKeeps
      <3> QED BY <1>2, <1>5, <3>1, <3>2, <3>3 DEF Book
    <2> HIDE DEF fees
    <2>4. fees.a = a
      BY DEF fees
    <2>5. PassesOK'
      BY <1>1, <2>1, <2>2, <2>3, <2>4, PassMoves
    <2> QED BY <1>1, <1>3, <2>3, <2>5 DEF PInv, AttemptsOK, Writes
  <1> QED BY <1>4, <1>5

\* Every step keeps the invariant.
LEMMA NextInv == PInv /\ [Next]_vars => PInv'
  <1> SUFFICES ASSUME PInv, [Next]_vars PROVE PInv'
    OBVIOUS
  <1> USE DEF PInv
  <1>1. ASSUME NEW a \in Attempts, NEW side \in Sides, NEW size \in 1 .. MaxSize, Enter(a, side, size)
        PROVE  PInv'
    <2>1. NewRow("ENTRY", side, size) \in RowSet
      BY TickAssumption DEF NewRow, RowSet
    <2>2. Writes(a)
      BY <1>1, <2>1, OneRowWritten DEF Enter
    <2>3. PassesOK'
      BY <1>1, <2>2, PassesKept DEF Enter
    <2> QED BY <1>1, <2>2, <2>3 DEF Enter, AttemptsOK, BetOK, Writes
  <1>2. ASSUME NEW a \in Attempts, Exit(a) PROVE PInv'
    <2>1. bet \in BetSet
      BY <1>2, TickAssumption DEF Exit, BetOK, Remainder
    <2>2. (Remainder(bet) \div Tick) * Tick \in Int
      BY RemainderIsNat, TickAssumption
    <2>3. NewRow("EXIT", bet.side, (Remainder(bet) \div Tick) * Tick) \in RowSet
      BY <2>1, <2>2 DEF NewRow, RowSet, BetSet
    <2>4. Writes(a)
      BY <1>2, <2>3, OneRowWritten DEF Exit
    <2>5. PassesOK'
      BY <1>2, <2>4, PassesKept DEF Exit
    <2> QED BY <1>2, <2>4, <2>5 DEF Exit, AttemptsOK, BetOK, Writes
  <1>3. ASSUME NEW a \in Attempts, Match(a) PROVE PInv'
    <2>1. PassesOK'
      BY <1>3, PassesKept DEF Match
    <2>2. attempt[a] \in RowSet
      BY <1>3 DEF Match, AttemptsOK
    <2>3. attempt[a].size \in Int
      BY <2>2 DEF RowSet
    <2>4. PICK n \in 0 .. attempt[a].size : matched' = [matched EXCEPT ![a] = n]
      BY <1>3 DEF Match
    <2> QED BY <1>3, <2>1, <2>3, <2>4 DEF Match, AttemptsOK, BetOK
  <1>4. ASSUME NEW a \in Attempts, Index(a) PROVE PInv'
    <2>1. PassesOK'
      BY <1>4, PassesKept DEF Index
    <2> QED BY <1>4, <2>1 DEF Index, AttemptsOK, BetOK
  <1>5. ASSUME NEW p \in Workers, NEW a \in Attempts, Read(p, a) PROVE PInv'
    <2> DEFINE new == [at |-> "probe", a |-> a, row |-> attempt[a]]
    <2>1. attempt[a] \in RowSet
      BY <1>5 DEF Read, AttemptsOK
    <2>2. new \in Probing
      BY <2>1 DEF Probing
    <2>3. new.a = a /\ pass' = [pass EXCEPT ![p] = new]
      BY <1>5 DEF Read
    <2> HIDE DEF new
    <2>4. PassesOK'
      BY <1>5, <2>1, <2>2, <2>3, PassMoves DEF Read
    <2> QED BY <1>5, <2>4 DEF Read, AttemptsOK, BetOK
  <1>6. ASSUME NEW p \in Workers, Probe(p) PROVE PInv'
    <2> DEFINE a == pass[p].a
               new == [at |-> "book", a |-> a, row |-> pass[p].row, total |-> indexed[a],
                       terminal |-> indexed[a] = matched[a]]
    <2>1. a \in Attempts /\ attempt[a] \in RowSet /\ pass[p].row \in RowSet
      BY <1>6, PassCarries DEF Probe
    <2>2. new \in Booking
      BY <2>1 DEF Booking, AttemptsOK
    <2>3. new.a = a /\ pass' = [pass EXCEPT ![p] = new]
      BY <1>6 DEF Probe
    <2> HIDE DEF new
    <2>4. PassesOK'
      BY <1>6, <2>1, <2>2, <2>3, PassMoves DEF Probe
    <2> QED BY <1>6, <2>4 DEF Probe, AttemptsOK, BetOK
  <1>7. ASSUME NEW p \in Workers, Book(p) PROVE PInv'
    BY <1>7, BookKeeps
  <1>8. ASSUME NEW p \in Workers, TrueUp(p) PROVE PInv'
    <2> DEFINE a == pass[p].a
    <2>1. a \in Attempts /\ attempt[a] \in RowSet
      BY <1>8, PassCarries DEF TrueUp
    <2>2. [attempt[a] EXCEPT !.final = TRUE] \in RowSet
      BY <2>1 DEF RowSet
    <2>3. attempt' = attempt \/ attempt' = [attempt EXCEPT ![a] = [attempt[a] EXCEPT !.final = TRUE]]
      BY <1>8 DEF TrueUp
    <2>4. attempt' = attempt \/ Writes(a)
      BY <2>1, <2>2, <2>3, OneRowWritten
    <2>5. PassesOK'
      BY <1>8, <2>1, <2>4, PassMoves DEF TrueUp, Idle
    <2> QED BY <1>8, <2>4, <2>5 DEF TrueUp, AttemptsOK, BetOK, Writes
  <1>9. ASSUME NEW p \in Workers, PassDies(p) PROVE PInv'
    <2>1. pass[p].a \in Attempts /\ attempt[pass[p].a] \in RowSet
      BY <1>9, PassCarries DEF PassDies
    <2>2. PassesOK'
      BY <1>9, <2>1, PassMoves DEF PassDies, Idle
    <2> QED BY <1>9, <2>2 DEF PassDies, AttemptsOK, BetOK
  <1>10. ASSUME NEW side \in Sides, Redeem(side) PROVE PInv'
    BY <1>10 DEF Redeem, AttemptsOK, PassesOK, BetOK
  <1>11. ASSUME Resolve PROVE PInv'
    BY <1>11 DEF Resolve, AttemptsOK, PassesOK, BetOK
  <1>12. ASSUME Consume PROVE PInv'
    <2>1. CASE Remainder(bet) > 0
      <3>1. /\ bet \in BetSet
            /\ bet' = [bet EXCEPT !.closed = bet.filled, !.settled = TRUE]
        BY <1>12, <2>1 DEF Consume, BetOK, Remainder
      <3>2. /\ bet' \in BetSet
            /\ bet'.closed = bet'.filled
        BY <3>1 DEF BetSet
      <3>3. bet'.closed <= bet'.filled
        BY <3>2 DEF BetSet
      <3>4. BetOK'
        BY <3>2, <3>3 DEF BetOK
      <3> QED BY <1>12, <3>4 DEF Consume, AttemptsOK, PassesOK
    <2>2. CASE ~(Remainder(bet) > 0)
      BY <1>12, <2>2 DEF Consume, AttemptsOK, PassesOK, BetOK
    <2> QED BY <2>1, <2>2
  <1>13. ASSUME Scan \/ Plan \/ SettleDies PROVE PInv'
    BY <1>13 DEF Scan, Plan, SettleDies, AttemptsOK, PassesOK, BetOK
  <1>14. ASSUME UNCHANGED vars PROVE PInv'
    BY <1>14 DEF vars, AttemptsOK, PassesOK, BetOK
  <1> QED
    BY <1>1, <1>2, <1>3, <1>4, <1>5, <1>6, <1>7, <1>8, <1>9, <1>10, <1>11, <1>12, <1>13, <1>14
    DEF Next

\* Rows keep their shape, the row of the position never closes more than it holds
\* (the constraint bets_closed_le_filled), and a settled one has nothing left.
THEOREM PositionInv == Spec => []PInv
  BY InitInv, NextInv, PTL DEF Spec

-----------------------------------------------------------------------------
(* A settled position stands.                                              *)

\* Every booking into a settled row on a closed market leaves the row as it is: an
\* entry is a late fill and a sale finds nothing left.
LEMMA SettledStep ==
    ASSUME PInv, [Next]_vars, bet # None, bet.settled, market # "OPEN"
    PROVE  bet' = bet
  <1>1. bet \in BetSet /\ Remainder(bet) = 0
    BY DEF PInv, BetOK, BetSet, Remainder
  <1>2. LateFill
    BY <1>1, TickAssumption DEF LateFill, Reopening
  <1>3. ASSUME NEW p \in Workers, Book(p) PROVE bet' = bet
    <2>1. CASE pass[p].total = 0 \/ Delta(p) <= 0
      BY <1>3, <2>1 DEF Book
    <2>2. CASE EntryBooking(pass[p].a, pass[p].row, Delta(p))
      BY <1>2, <2>2 DEF EntryBooking
    <2>3. CASE ExitBooking(pass[p].a, pass[p].row, Delta(p))
      BY <1>1, <2>3 DEF ExitBooking
    <2> QED BY <1>3, <2>1, <2>2, <2>3 DEF Book
  <1>4. ASSUME Consume PROVE bet' = bet
    BY <1>1, <1>4 DEF Consume
  <1>5. ASSUME NEW a \in Attempts,
               \/ \E side \in Sides, size \in 1 .. MaxSize : Enter(a, side, size)
               \/ Exit(a) \/ Match(a) \/ Index(a)
               \/ \E p \in Workers : Read(p, a)
        PROVE  bet' = bet
    BY <1>5 DEF Enter, Exit, Match, Index, Read
  <1>6. ASSUME NEW p \in Workers, Probe(p) \/ TrueUp(p) \/ PassDies(p) PROVE bet' = bet
    BY <1>6 DEF Probe, TrueUp, PassDies
  <1>7. ASSUME \/ \E side \in Sides : Redeem(side)
               \/ Resolve \/ Scan \/ Plan \/ SettleDies \/ UNCHANGED vars
        PROVE  bet' = bet
    BY <1>7 DEF Redeem, Resolve, Scan, Plan, SettleDies, vars
  <1> QED BY <1>3, <1>4, <1>5, <1>6, <1>7 DEF Next

\* Once settled on a closed market a position stays as it is: bookEntryFills keeps a
\* late fill aside and bookExitFills finds no remainder, however many passes book.
THEOREM SettledStays == Spec => SettledStands
  <1>1. PInv /\ [Next]_vars
          => [bet # None /\ bet.settled /\ market # "OPEN" => bet' = bet]_vars
    BY SettledStep
  <1> QED BY <1>1, PositionInv, PTL DEF Spec, SettledStands

-----------------------------------------------------------------------------
(* What the rows, the passes and the exchange know of each other.          *)

\* A row in flight: its trades are not booked yet.
Live(a) == attempt[a] # None /\ attempt[a].state = "LIVE"

\* A row is booked as far as the index showed its trades, the index as far as the order matched; a
\* row in flight has booked nothing, and one that is not has been decided.
RowOK(a) ==
    IF attempt[a] = None THEN matched[a] = -1 /\ indexed[a] = 0
    ELSE /\ attempt[a].size >= 1
         /\ attempt[a].dir = "ENTRY" => attempt[a].size <= MaxSize
         /\ matched[a] >= -1 /\ matched[a] <= attempt[a].size
         /\ indexed[a] = 0 \/ indexed[a] <= matched[a]
         /\ attempt[a].booked <= indexed[a]
         /\ attempt[a].state = "LIVE" => attempt[a].booked = 0 /\ attempt[a].lot = None
         /\ attempt[a].state # "LIVE" => matched[a] >= 0
         /\ attempt[a].state \in Booked => attempt[a].booked > 0
         /\ attempt[a].dir = "ENTRY" /\ attempt[a].state = "KILLED" => matched[a] = 0
         /\ attempt[a].dir = "EXIT" \/ attempt[a].booked > 0 => bet # None
         /\ attempt[a].lot # None => bet # None /\ attempt[a].lot <= bet.seq

\* At most one row is in flight: the mutex of the real place and exit routes.
OneLive == \A a, b \in Attempts : Live(a) /\ Live(b) => a = b

\* What a pass holds of its row is still true of it, and its total is one the index has shown.
PassOK(p) ==
    pass[p].at # "idle" =>
        /\ attempt[pass[p].a] # None
        /\ pass[p].at \in {"probe", "book"} =>
              /\ pass[p].row.dir = attempt[pass[p].a].dir
              /\ pass[p].row.side = attempt[pass[p].a].side
              /\ pass[p].row.lot # None =>
                    ~Live(pass[p].a) /\ bet # None /\ pass[p].row.lot <= bet.seq
        /\ pass[p].at \in {"book", "fees"} =>
              /\ pass[p].total <= indexed[pass[p].a]
              /\ pass[p].total > 0 \/ matched[pass[p].a] = 0

\* In the first lot of a position nothing is traded but its side, unless it holds only dust.
FirstLotOK ==
    bet # None /\ bet.seq = 0 =>
        \A a \in Attempts : attempt[a] # None =>
            IF attempt[a].dir = "EXIT" THEN attempt[a].side = bet.side
            ELSE Remainder(bet) >= Tick => attempt[a].side = bet.side \/ matched[a] = 0

\* All of it: the rows, the mutex, the passes and the first lot.
RowsInv == /\ \A a \in Attempts : RowOK(a)
           /\ OneLive
           /\ \A p \in Workers : PassOK(p)
           /\ FirstLotOK

-----------------------------------------------------------------------------
(* What a booking does.                                                    *)

\* Only the row of attempt a is written, and what was signed in it stays.
Kept(a) == /\ attempt' \in [Attempts -> RowSet \cup {None}]
           /\ attempt'[a] \in RowSet /\ attempt'[a] # None
           /\ attempt'[a].dir = attempt[a].dir
           /\ attempt'[a].side = attempt[a].side
           /\ attempt'[a].size = attempt[a].size
           /\ \A b \in Attempts : b # a => attempt'[b] = attempt[b]

\* The row books n shares in all, under the given lot.
BookedAs(a, n, lot) ==
    /\ n > attempt[a].booked
    /\ attempt'[a].booked = n /\ attempt'[a].lot = lot
    /\ attempt'[a].state # "LIVE"
    /\ attempt'[a].state = "KILLED" => attempt[a].state = "KILLED"

\* Nothing new, or nothing there to sell from.
Unbooked(a, n) ==
    /\ bet' = bet
    /\ attempt'[a].booked = attempt[a].booked /\ attempt'[a].lot = attempt[a].lot
    /\ \/ attempt'[a].state = attempt[a].state
       \/ /\ attempt'[a].state = "KILLED" /\ matched[a] >= 0
          /\ matched[a] = 0 \/ (attempt[a].dir = "EXIT" /\ Remainder(bet) = 0 /\ n > attempt[a].booked)
\* The trades are written, the position is not touched.
Aside(a, row, n) ==
    /\ bet' = bet /\ bet # None
    /\ BookedAs(a, n, attempt[a].lot)
    /\ StaleLot(row) \/ (attempt[a].dir = "ENTRY" /\ market # "OPEN" /\ Reopening(bet))
\* An entry is added to the open lot.
Merged(a, row, n) ==
    /\ attempt[a].dir = "ENTRY" /\ ~StaleLot(row)
    /\ bet # None /\ Remainder(bet) >= Tick
    /\ BookedAs(a, n, bet.seq)
    /\ bet' = [bet EXCEPT !.filled = @ + (n - attempt[a].booked)]
\* An entry opens a lot.
Opened(a, row, n) ==
    /\ attempt[a].dir = "ENTRY"
    /\ bet = None \/ (Remainder(bet) < Tick /\ market = "OPEN")
    /\ BookedAs(a, n, bet'.seq)
    /\ bet' = [side |-> attempt[a].side, filled |-> n - attempt[a].booked, closed |-> 0,
               seq |-> IF bet = None THEN 0 ELSE bet.seq + 1, settled |-> FALSE]
\* A sale closes a part of the lot.
Sold(a, row, n) ==
    /\ attempt[a].dir = "EXIT" /\ ~StaleLot(row)
    /\ bet # None /\ Remainder(bet) > 0
    /\ BookedAs(a, n, bet.seq)
    /\ bet' = [bet EXCEPT !.closed = @ + Closing(n - attempt[a].booked),
                          !.settled = @ \/ Closing(n - attempt[a].booked) = Remainder(bet)]

\* What a booking of n shares can come to.
Outcome(a, row, n) ==
    \/ Unbooked(a, n) \/ Aside(a, row, n) \/ Merged(a, row, n) \/ Opened(a, row, n) \/ Sold(a, row, n)

\* A row that keeps what was signed is a write of that row alone.
LEMMA RowWritten ==
    ASSUME AttemptsOK, NEW a \in Attempts, attempt[a] \in RowSet,
           NEW r \in RowSet, r.dir = attempt[a].dir, r.side = attempt[a].side, r.size = attempt[a].size,
           attempt' = [attempt EXCEPT ![a] = r]
    PROVE  Kept(a) /\ attempt'[a] = r
  BY NoneAssumption DEF AttemptsOK, Kept

\* A stamped row keeps what was signed and has its shares, its lot and a booked state.
LEMMA StampedFields ==
    ASSUME NEW row \in RowSet, NEW n \in Nat, NEW lot \in {None} \cup Nat, NEW s, s = Stamped(row, n, lot)
    PROVE  /\ s \in RowSet /\ s.dir = row.dir /\ s.side = row.side /\ s.size = row.size
           /\ s.booked = n /\ s.lot = lot /\ s.state \in Booked
  BY DEF Stamped, Label, RowSet, Booked

\* A row kept aside keeps its lot too, and stays killed when it was.
LEMMA KeptFields ==
    ASSUME NEW row \in RowSet, NEW n \in Nat, NEW k, k = KeptAside(row, n)
    PROVE  /\ k \in RowSet /\ k.dir = row.dir /\ k.side = row.side /\ k.size = row.size
           /\ k.booked = n /\ k.lot = row.lot
           /\ IF row.state = "KILLED" THEN k.state = "KILLED" ELSE k.state \in Booked
  BY DEF KeptAside, Stamped, Label, RowSet, Booked

\* A stamped row, written, is booked under its lot.
LEMMA StampedRowWritten ==
    ASSUME AttemptsOK, NEW a \in Attempts, attempt[a] \in RowSet,
           NEW n \in Nat, n > attempt[a].booked, NEW lot \in {None} \cup Nat,
           attempt' = [attempt EXCEPT ![a] = Stamped(attempt[a], n, lot)]
    PROVE  Kept(a) /\ BookedAs(a, n, lot)
  <1> DEFINE s == Stamped(attempt[a], n, lot)
  <1>1. /\ s \in RowSet /\ s.dir = attempt[a].dir /\ s.side = attempt[a].side
        /\ s.size = attempt[a].size
        /\ s.booked = n /\ s.lot = lot /\ s.state \in Booked
    BY StampedFields
  <1> HIDE DEF s
  <1>2. Kept(a) /\ attempt'[a] = s BY <1>1, RowWritten DEF s
  <1> QED BY <1>1, <1>2 DEF BookedAs, Booked

\* A row kept aside, written, is booked under the lot it had.
LEMMA KeptRowWritten ==
    ASSUME AttemptsOK, NEW a \in Attempts, attempt[a] \in RowSet,
           NEW n \in Nat, n > attempt[a].booked,
           attempt' = [attempt EXCEPT ![a] = KeptAside(attempt[a], n)]
    PROVE  Kept(a) /\ BookedAs(a, n, attempt[a].lot)
  <1> DEFINE k == KeptAside(attempt[a], n)
  <1>1. /\ k \in RowSet /\ k.dir = attempt[a].dir /\ k.side = attempt[a].side
        /\ k.size = attempt[a].size
        /\ k.booked = n /\ k.lot = attempt[a].lot
        /\ IF attempt[a].state = "KILLED" THEN k.state = "KILLED" ELSE k.state \in Booked
    BY KeptFields
  <1> HIDE DEF k
  <1>2. Kept(a) /\ attempt'[a] = k BY <1>1, RowWritten DEF k
  <1> QED BY <1>1, <1>2 DEF BookedAs, Booked

\* A booked entry is kept aside, added to the open lot, or opens one.
LEMMA EntryOutcome ==
    ASSUME AttemptsOK, BetOK, NEW a \in Attempts, NEW row \in RowSet, attempt[a] \in RowSet,
           row.dir = attempt[a].dir, row.side = attempt[a].side, attempt[a].dir = "ENTRY",
           NEW n \in Nat, n > attempt[a].booked,
           EntryBooking(a, row, n - attempt[a].booked)
    PROVE  Kept(a) /\ Outcome(a, row, n)
  <1> DEFINE delta == n - attempt[a].booked
  <1>1. attempt[a].booked + delta = n /\ attempt[a].booked \in Nat /\ attempt[a].lot \in {None} \cup Nat
        /\ delta \in Nat \ {0}
    BY DEF RowSet
  <1> HIDE DEF delta
  <1>4. CASE StaleLot(row)
    <2>1. attempt' = [attempt EXCEPT ![a] = KeptAside(attempt[a], n)] /\ bet' = bet
      BY <1>1, <1>4 DEF EntryBooking, delta
    <2>2. Kept(a) BY <2>1, KeptRowWritten
    <2>3. BookedAs(a, n, attempt[a].lot) BY <2>1, KeptRowWritten
    <2>4. Aside(a, row, n)
      BY <1>4, <2>1, <2>3 DEF Aside, StaleLot
    <2> QED BY <2>2, <2>4 DEF Outcome
  <1>5. CASE ~StaleLot(row) /\ LateFill
    <2>1. attempt' = [attempt EXCEPT ![a] = Stamped(attempt[a], n, attempt[a].lot)] /\ bet' = bet
      BY <1>1, <1>5 DEF EntryBooking, delta
    <2>2. Kept(a) BY <1>1, <2>1, StampedRowWritten
    <2>3. BookedAs(a, n, attempt[a].lot) BY <1>1, <2>1, StampedRowWritten
    <2>4. Aside(a, row, n)
      BY <1>5, <2>1, <2>3 DEF Aside, LateFill, Reopening
    <2> QED BY <2>2, <2>4 DEF Outcome
  <1>6. CASE ~StaleLot(row) /\ ~LateFill
    <2> DEFINE fresh == [side |-> row.side, filled |-> delta, closed |-> 0,
                         seq |-> IF bet = None THEN 0 ELSE bet.seq + 1, settled |-> FALSE]
    <2>1. /\ bet' = IF bet = None \/ Reopening(bet)
                    THEN fresh ELSE [bet EXCEPT !.filled = @ + delta]
          /\ attempt' = [attempt EXCEPT ![a] = Stamped(attempt[a], n, bet'.seq)]
      BY <1>1, <1>6 DEF EntryBooking, delta
    <2>2. bet'.seq \in {None} \cup Nat
      <3>1. CASE bet = None \/ Reopening(bet)
        <4>1. bet'.seq = IF bet = None THEN 0 ELSE bet.seq + 1
          BY <2>1, <3>1
        <4> QED BY <4>1 DEF BetOK, BetSet
      <3>2. CASE ~(bet = None \/ Reopening(bet))
        <4>1. bet' = [bet EXCEPT !.filled = bet.filled + delta] /\ bet \in BetSet
          BY <2>1, <3>2 DEF BetOK
        <4> QED BY <4>1 DEF BetSet
      <3> QED BY <3>1, <3>2
    <2>3. Kept(a) /\ BookedAs(a, n, bet'.seq)
      <3> HIDE DEF fresh
      <3>1. \A lot \in {None} \cup Nat : attempt' = [attempt EXCEPT ![a] = Stamped(attempt[a], n, lot)]
              => Kept(a) /\ BookedAs(a, n, lot)
        BY StampedRowWritten
      <3> QED BY <2>1, <2>2, <3>1
    <2>4. BookedAs(a, n, bet'.seq) BY <2>3
    <2>5. CASE bet = None \/ Reopening(bet)
      <3>1. bet' = [side |-> attempt[a].side, filled |-> n - attempt[a].booked, closed |-> 0,
                    seq |-> IF bet = None THEN 0 ELSE bet.seq + 1, settled |-> FALSE]
        BY <2>1, <2>5 DEF delta
      <3>2. bet = None \/ (Remainder(bet) < Tick /\ market = "OPEN")
        BY <1>6, <2>5 DEF LateFill, Reopening
      <3>3. Opened(a, row, n) BY <2>4, <3>1, <3>2 DEF Opened
      <3> QED BY <2>3, <3>3 DEF Outcome
    <2>6. CASE ~(bet = None \/ Reopening(bet))
      <3>1. bet' = [bet EXCEPT !.filled = bet.filled + delta] /\ bet \in BetSet
        BY <2>1, <2>6 DEF BetOK
      <3>2. bet'.seq = bet.seq BY <3>1 DEF BetSet
      <3>3. Remainder(bet) >= Tick
        BY <2>6, RemainderIsNat, TickAssumption DEF Reopening
      <3>4. Merged(a, row, n)
        BY <1>6, <2>4, <2>6, <3>1, <3>2, <3>3 DEF Merged, delta
      <3> QED BY <2>3, <3>4 DEF Outcome
    <2> QED BY <2>5, <2>6
  <1> QED BY <1>4, <1>5, <1>6

\* A booked sale is kept aside, closes a part of the lot, or finds nothing left to close.
LEMMA ExitOutcome ==
    ASSUME AttemptsOK, BetOK, NEW a \in Attempts, NEW row \in RowSet, attempt[a] \in RowSet,
           row.dir = attempt[a].dir, row.side = attempt[a].side, attempt[a].dir = "EXIT",
           attempt[a] # None, bet # None,
           NEW n \in Nat, n > attempt[a].booked, matched[a] >= 0,
           ExitBooking(a, row, n - attempt[a].booked)
    PROVE  Kept(a) /\ Outcome(a, row, n)
  <1> DEFINE delta == n - attempt[a].booked
  <1>1. attempt[a].booked + delta = n /\ attempt[a].booked \in Nat /\ attempt[a].lot \in {None} \cup Nat
        /\ delta \in Nat \ {0}
    BY DEF RowSet
  <1>2. bet \in BetSet /\ bet.seq \in Nat BY DEF BetOK, BetSet
  <1> HIDE DEF delta
  <1>4. CASE StaleLot(row)
    <2>1. attempt' = [attempt EXCEPT ![a] = KeptAside(attempt[a], n)] /\ bet' = bet
      BY <1>1, <1>4 DEF ExitBooking, delta
    <2>2. Kept(a) BY <2>1, KeptRowWritten
    <2>3. BookedAs(a, n, attempt[a].lot) BY <2>1, KeptRowWritten
    <2>4. Aside(a, row, n)
      BY <1>4, <2>1, <2>3 DEF Aside
    <2> QED BY <2>2, <2>4 DEF Outcome
  <1>5. CASE ~StaleLot(row) /\ Remainder(bet) = 0
    <2>1. bet' = bet /\ (\/ attempt' = attempt
                         \/ attempt' = [attempt EXCEPT ![a] = [attempt[a] EXCEPT !.state = "KILLED"]])
      BY <1>5 DEF ExitBooking
    <2> DEFINE r == [attempt[a] EXCEPT !.state = "KILLED"]
    <2>2. /\ r \in RowSet /\ r.dir = attempt[a].dir /\ r.side = attempt[a].side
          /\ r.size = attempt[a].size /\ r.state = "KILLED"
          /\ r.booked = attempt[a].booked /\ r.lot = attempt[a].lot
      BY DEF RowSet
    <2>3. CASE attempt' = attempt
      <3>1. Kept(a) BY <2>3 DEF Kept, AttemptsOK
      <3>2. Unbooked(a, n) BY <2>1, <2>3 DEF Unbooked
      <3> QED BY <3>1, <3>2 DEF Outcome
    <2>4. CASE attempt' = [attempt EXCEPT ![a] = [attempt[a] EXCEPT !.state = "KILLED"]]
      <3> HIDE DEF r
      <3>1. Kept(a) /\ attempt'[a] = r BY <2>2, <2>4, RowWritten DEF r
      <3>2. Unbooked(a, n) BY <1>5, <2>1, <2>2, <3>1 DEF Unbooked
      <3> QED BY <3>1, <3>2 DEF Outcome
    <2> QED BY <2>1, <2>3, <2>4
  <1>6. CASE ~StaleLot(row) /\ Remainder(bet) # 0
    <2>1. /\ bet' = [bet EXCEPT !.closed = @ + Closing(delta),
                                !.settled = @ \/ Closing(delta) = Remainder(bet)]
          /\ attempt' = [attempt EXCEPT ![a] = Stamped(attempt[a], n, bet.seq)]
      BY <1>1, <1>6 DEF ExitBooking, delta
    <2>2. Kept(a) BY <1>2, <2>1, StampedRowWritten
    <2>3. BookedAs(a, n, bet.seq) BY <1>2, <2>1, StampedRowWritten
    <2>4. Sold(a, row, n)
      BY <1>6, <2>1, <2>3, RemainderIsNat DEF Sold, delta
    <2> QED BY <2>2, <2>4 DEF Outcome
  <1> QED BY <1>4, <1>5, <1>6

\* A pass that books writes the row it read, and one of the outcomes follows.
LEMMA BookOutcome ==
    ASSUME PInv, RowsInv, NEW p \in Workers, Book(p), NEW a \in Attempts, a = pass[p].a
    PROVE  /\ Kept(a) /\ Outcome(a, pass[p].row, pass[p].total)
           /\ matched[a] >= 0 /\ pass[p].total \in Nat
  <1> DEFINE row == pass[p].row
             n == pass[p].total
  <1>1. /\ attempt[a] \in RowSet /\ row \in RowSet /\ n \in Nat
        /\ AttemptsOK /\ BetOK /\ pass[p].at = "book"
    BY PassCarries DEF PInv, Book
  <1>2. /\ attempt[a] # None /\ row.dir = attempt[a].dir /\ row.side = attempt[a].side
        /\ n <= indexed[a] /\ (n > 0 \/ matched[a] = 0) /\ RowOK(a)
    BY <1>1 DEF RowsInv, PassOK
  <1>3. /\ matched[a] \in Int /\ indexed[a] \in Nat /\ attempt[a].booked \in Nat
        /\ attempt[a].state \in {"LIVE", "FILLED", "PARTIAL", "KILLED"}
        /\ attempt[a].dir \in {"ENTRY", "EXIT"}
    BY <1>1 DEF AttemptsOK, RowSet
  <1>4. matched[a] >= 0 /\ n <= matched[a]
    BY <1>1, <1>2, <1>3 DEF RowOK
  <1> HIDE DEF row, n
  <1>5. CASE n = 0
    <2>0. matched[a] = 0 BY <1>2, <1>5
    <2>1. /\ bet' = bet
          /\ \/ attempt' = attempt
             \/ attempt' = [attempt EXCEPT ![a] = [attempt[a] EXCEPT !.state = "KILLED"]]
      BY <1>5 DEF Book, n
    <2> DEFINE r == [attempt[a] EXCEPT !.state = "KILLED"]
    <2>2. /\ r \in RowSet /\ r.dir = attempt[a].dir /\ r.side = attempt[a].side
          /\ r.size = attempt[a].size /\ r.state = "KILLED"
          /\ r.booked = attempt[a].booked /\ r.lot = attempt[a].lot
      BY <1>1 DEF RowSet
    <2>3. CASE attempt' = attempt
      <3>1. Kept(a) BY <1>1, <1>2, <2>3 DEF Kept, AttemptsOK
      <3>2. Unbooked(a, n) BY <2>1, <2>3 DEF Unbooked
      <3> QED BY <1>1, <1>4, <3>1, <3>2 DEF Outcome, n
    <2>4. CASE attempt' = [attempt EXCEPT ![a] = [attempt[a] EXCEPT !.state = "KILLED"]]
      <3> HIDE DEF r
      <3>1. Kept(a) /\ attempt'[a] = r BY <1>1, <2>2, <2>4, RowWritten DEF r
      <3>2. Unbooked(a, n) BY <2>0, <2>1, <2>2, <3>1 DEF Unbooked
      <3> QED BY <1>1, <1>4, <3>1, <3>2 DEF Outcome, n
    <2> QED BY <2>1, <2>3, <2>4
  <1>6. CASE n # 0 /\ n <= attempt[a].booked
    <2>1. Delta(p) <= 0 BY <1>1, <1>3, <1>6 DEF Delta, n
    <2>2. bet' = bet /\ attempt' = attempt BY <1>6, <2>1 DEF Book, n
    <2>3. Kept(a) BY <1>1, <1>2, <2>2 DEF Kept, AttemptsOK
    <2>4. Unbooked(a, n) BY <2>2 DEF Unbooked
    <2> QED BY <1>1, <1>4, <2>3, <2>4 DEF Outcome, n
  <1>7. CASE n # 0 /\ n > attempt[a].booked
    <2>1. Delta(p) = n - attempt[a].booked /\ ~(Delta(p) <= 0)
      BY <1>1, <1>3, <1>7 DEF Delta, n
    <2>2. CASE row.dir = "ENTRY"
      <3>1. EntryBooking(a, row, n - attempt[a].booked)
        BY <1>7, <2>1, <2>2 DEF Book, n, row
      <3>2. Kept(a) /\ Outcome(a, row, n)
        BY <1>1, <1>2, <1>7, <2>2, <3>1, EntryOutcome
      <3> QED BY <1>1, <1>4, <3>2 DEF n, row
    <2>3. CASE row.dir = "EXIT"
      <3>1. ExitBooking(a, row, n - attempt[a].booked)
        BY <1>7, <2>1, <2>3 DEF Book, n, row
      <3>2. bet # None
        BY <1>2, <2>3 DEF RowOK
      <3>3. Kept(a) /\ Outcome(a, row, n)
        BY <1>1, <1>2, <1>4, <1>7, <2>3, <3>1, <3>2, ExitOutcome
      <3> QED BY <1>1, <1>4, <3>3 DEF n, row
    <2> QED BY <1>2, <1>3, <2>2, <2>3
  <1> QED BY <1>1, <1>3, <1>5, <1>6, <1>7

-----------------------------------------------------------------------------
(* The invariant of the rows.                                              *)

\* Nothing that is known of a row, a match, the index or the lot number is taken back.
Grows ==
    /\ bet # None => bet' # None /\ bet'.seq >= bet.seq
    /\ \A b \in Attempts :
         /\ attempt[b] # None =>
              /\ attempt'[b] # None
              /\ attempt'[b].dir = attempt[b].dir /\ attempt'[b].side = attempt[b].side
              /\ attempt[b].state # "LIVE" => attempt'[b].state # "LIVE"
         /\ indexed'[b] >= indexed[b]
         /\ matched[b] >= 0 => matched'[b] = matched[b]

\* The row of b, up to its final flag, is as it was.
SameRow(b) ==
    IF attempt[b] = None THEN attempt'[b] = None
    ELSE /\ attempt'[b] # None
         /\ attempt'[b].dir = attempt[b].dir /\ attempt'[b].side = attempt[b].side
         /\ attempt'[b].size = attempt[b].size /\ attempt'[b].state = attempt[b].state
         /\ attempt'[b].lot = attempt[b].lot /\ attempt'[b].booked = attempt[b].booked

\* The rows are as they were, up to their final flag.
Quiet == (\A b \in Attempts : SameRow(b)) /\ UNCHANGED <<bet, matched, indexed>>

\* The fields of a row and their types, as the solver needs them.
LEMMA RowShape ==
    ASSUME PInv, NEW b \in Attempts
    PROVE  /\ matched[b] \in Int /\ indexed[b] \in Nat
           /\ attempt[b] # None =>
                /\ attempt[b] \in RowSet
                /\ attempt[b].dir \in {"ENTRY", "EXIT"} /\ attempt[b].side \in Sides
                /\ attempt[b].size \in Int /\ attempt[b].booked \in Nat
                /\ attempt[b].lot \in {None} \cup Nat
                /\ attempt[b].state \in {"LIVE", "FILLED", "PARTIAL", "KILLED"}
  <1>1. attempt[b] # None => attempt[b] \in RowSet BY DEF PInv, AttemptsOK
  <1> QED BY <1>1 DEF PInv, AttemptsOK, RowSet

\* The fields of the position and their types.
LEMMA BetShape ==
    ASSUME PInv, bet # None
    PROVE  /\ bet \in BetSet /\ bet.side \in Sides /\ bet.filled \in Nat \ {0} /\ bet.closed \in Nat
           /\ bet.seq \in Nat /\ bet.settled \in BOOLEAN /\ bet.closed <= bet.filled
           /\ bet.settled => bet.closed = bet.filled
           /\ Remainder(bet) = bet.filled - bet.closed
  BY DEF PInv, BetOK, BetSet, Remainder

\* A row that is left alone stays as far booked as it was, whatever the position does.
LEMMA RowStays ==
    ASSUME PInv, NEW b \in Attempts, RowOK(b), SameRow(b),
           matched'[b] = matched[b], indexed'[b] = indexed[b],
           bet # None => bet' # None /\ bet'.seq >= bet.seq, PInv'
    PROVE  RowOK(b)'
  <1>1. CASE attempt[b] = None
    BY <1>1 DEF RowOK, SameRow
  <1>2. CASE attempt[b] # None
    <2>1. /\ attempt'[b].dir = attempt[b].dir /\ attempt'[b].side = attempt[b].side
          /\ attempt'[b].size = attempt[b].size /\ attempt'[b].state = attempt[b].state
          /\ attempt'[b].lot = attempt[b].lot /\ attempt'[b].booked = attempt[b].booked
          /\ attempt'[b] # None
      BY <1>2 DEF SameRow
    <2>2. attempt[b].lot # None => bet' # None /\ attempt[b].lot <= bet'.seq
      <3>1. bet' # None => bet'.seq \in Nat BY BetShape DEF PInv, BetOK, BetSet
      <3> QED BY <1>2, <3>1, RowShape, BetShape DEF RowOK
    <2> QED BY <1>2, <2>1, <2>2 DEF RowOK
  <1> QED BY <1>1, <1>2

\* Steps that leave the rows alone leave their invariant alone.
LEMMA QuietRows ==
    ASSUME PInv, RowsInv, Quiet, PInv'
    PROVE  Grows /\ (\A b \in Attempts : RowOK(b)') /\ OneLive' /\ FirstLotOK'
  <1>1. \A b \in Attempts : SameRow(b) /\ matched'[b] = matched[b] /\ indexed'[b] = indexed[b]
    BY DEF Quiet
  <1>2. bet' = bet BY DEF Quiet
  <1>3. bet # None => bet' # None /\ bet'.seq >= bet.seq BY <1>2, BetShape
  <1>4. Grows
    <2>1. ASSUME NEW b \in Attempts
          PROVE  /\ attempt[b] # None =>
                      /\ attempt'[b] # None
                      /\ attempt'[b].dir = attempt[b].dir /\ attempt'[b].side = attempt[b].side
                      /\ attempt[b].state # "LIVE" => attempt'[b].state # "LIVE"
                 /\ indexed'[b] >= indexed[b]
                 /\ matched[b] >= 0 => matched'[b] = matched[b]
      BY <1>1, RowShape DEF SameRow
    <2> QED BY <1>3, <2>1 DEF Grows
  <1>5. \A b \in Attempts : RowOK(b)'
    BY <1>1, <1>3, RowStays DEF RowsInv
  <1>6. OneLive'
    BY <1>1 DEF RowsInv, OneLive, Live, SameRow
  <1>7. FirstLotOK'
    BY <1>1, <1>2 DEF RowsInv, FirstLotOK, SameRow, Remainder
  <1> QED BY <1>4, <1>5, <1>6, <1>7

\* A pass that stays where it is.
LEMMA PassStays ==
    ASSUME PInv, PInv', Grows, NEW p \in Workers, PassOK(p), pass'[p] = pass[p]
    PROVE  PassOK(p)'
  <1> SUFFICES ASSUME pass[p].at # "idle" PROVE PassOK(p)'
    BY DEF PassOK
  <1> PICK a \in Attempts : a = pass[p].a
    BY PassCarries DEF PInv
  <1>1. /\ attempt[a] # None /\ attempt'[a] # None
        /\ attempt'[a].dir = attempt[a].dir /\ attempt'[a].side = attempt[a].side
        /\ attempt[a].state # "LIVE" => attempt'[a].state # "LIVE"
        /\ indexed'[a] >= indexed[a] /\ (matched[a] >= 0 => matched'[a] = matched[a])
    BY DEF PassOK, Grows
  <1>2. ASSUME pass[p].at \in {"probe", "book"}, pass[p].row.lot # None
        PROVE  ~Live(a)' /\ bet' # None /\ pass[p].row.lot <= bet'.seq
    <2>1. ~Live(a) /\ bet # None /\ pass[p].row.lot <= bet.seq BY <1>2 DEF PassOK
    <2>2. pass[p].row.lot \in Nat
      BY <1>2, PassCarries DEF PInv, RowSet
    <2>3. bet' # None /\ bet'.seq >= bet.seq /\ bet'.seq \in Nat /\ bet.seq \in Nat
      <3>1. bet' # None => bet'.seq \in Nat BY DEF PInv, BetOK, BetSet
      <3> QED BY <2>1, <3>1, BetShape DEF Grows
    <2>4. ~Live(a)' BY <1>1, <2>1 DEF Live
    <2>5. pass[p].row.lot <= bet'.seq BY <2>1, <2>2, <2>3
    <2> QED BY <2>3, <2>4, <2>5
  <1>3. ASSUME pass[p].at \in {"book", "fees"}
        PROVE  pass[p].total <= indexed'[a] /\ (pass[p].total > 0 \/ matched'[a] = 0)
    <2>1. pass[p].total <= indexed[a] /\ (pass[p].total > 0 \/ matched[a] = 0) BY <1>3 DEF PassOK
    <2>2. pass[p].total \in Nat BY <1>3, PassCarries DEF PInv
    <2>3. indexed[a] \in Nat /\ indexed'[a] \in Nat BY DEF PInv, AttemptsOK
    <2>4. matched[a] = 0 => matched'[a] = 0 BY <1>1
    <2> QED BY <1>1, <2>1, <2>2, <2>3, <2>4
  <1>4. /\ pass'[p].at = pass[p].at /\ pass'[p].a = a /\ pass'[p].row = pass[p].row
        /\ pass'[p].total = pass[p].total
    OBVIOUS
  <1>5. pass[p].at \in {"probe", "book"} => pass[p].row.dir = attempt[a].dir /\ pass[p].row.side = attempt[a].side
    BY DEF PassOK
  <1> QED BY <1>1, <1>2, <1>3, <1>4, <1>5 DEF PassOK

\* A new row: an entry of a side, or the sale of what is held.
LEMMA CreatedRows ==
    ASSUME PInv, RowsInv, PInv', NEW a \in Attempts, NEW r \in RowSet, MayTrade(a),
           r.state = "LIVE", r.booked = 0, r.lot = None, r.size >= 1,
           \/ r.dir = "ENTRY" /\ r.size <= MaxSize /\ Remainder(bet) < Tick
           \/ r.dir = "EXIT" /\ bet # None /\ r.side = bet.side,
           attempt' = [attempt EXCEPT ![a] = r],
           UNCHANGED <<bet, matched, indexed>>
    PROVE  Grows /\ (\A b \in Attempts : RowOK(b)') /\ OneLive' /\ FirstLotOK'
  <1>1. attempt'[a] = r /\ r # None /\ \A b \in Attempts : b # a => attempt'[b] = attempt[b]
    BY NoneAssumption DEF PInv, AttemptsOK
  <1>2. attempt[a] = None /\ matched[a] = -1 /\ indexed[a] = 0 /\ \A b \in Attempts : ~Live(b)
    BY DEF MayTrade, RowsInv, RowOK, Live, InFlight
  <1>3. bet # None => bet' # None /\ bet'.seq >= bet.seq BY BetShape
  <1>4. Grows
    <2>1. \A b \in Attempts : indexed'[b] >= indexed[b] BY RowShape
    <2> QED BY <1>1, <1>2, <1>3, <2>1 DEF Grows
  <1>5. ASSUME NEW b \in Attempts PROVE RowOK(b)'
    <2>1. CASE b = a
      <3>1. matched'[a] = -1 /\ indexed'[a] = 0 BY <1>2
      <3>2. r.size \in Int BY DEF RowSet
      <3> HIDE <1>2
      <3>3. /\ r.size >= 1 /\ (r.dir = "ENTRY" => r.size <= MaxSize)
            /\ -1 >= -1 /\ -1 <= r.size /\ r.booked <= 0
            /\ (r.dir = "EXIT" \/ r.booked > 0 => bet # None)
            /\ (r.dir = "ENTRY" \/ r.dir = "EXIT")
        BY <3>2, TickAssumption
      <3> QED BY <1>1, <2>1, <3>1, <3>3 DEF RowOK, Booked
    <2>2. CASE b # a
      <3>1. SameRow(b) BY <1>1, <2>2 DEF SameRow
      <3> QED BY <1>3, <3>1, RowStays DEF RowsInv
    <2> QED BY <2>1, <2>2
  <1>6. OneLive' BY <1>1, <1>2 DEF OneLive, Live
  <1>7. FirstLotOK'
    <2> SUFFICES ASSUME bet # None, bet.seq = 0, NEW b \in Attempts, attempt'[b] # None
                 PROVE  IF attempt'[b].dir = "EXIT" THEN attempt'[b].side = bet.side
                        ELSE Remainder(bet) >= Tick => attempt'[b].side = bet.side \/ matched[b] = 0
      BY DEF FirstLotOK, Remainder
    <2>1. CASE b # a BY <1>1, <2>1 DEF RowsInv, FirstLotOK
    <2>2. CASE b = a
      <3>1. Remainder(bet) \in Nat /\ Tick \in Nat BY RemainderIsNat, TickAssumption DEF PInv
      <3> QED BY <1>1, <2>2, <3>1
    <2> QED BY <2>1, <2>2
  <1> QED BY <1>4, <1>5, <1>6, <1>7

\* A match is decided once, and no row of the first lot trades another side by it.
LEMMA MatchedRows ==
    ASSUME PInv, RowsInv, PInv', NEW a \in Attempts, Match(a)
    PROVE  Grows /\ (\A b \in Attempts : RowOK(b)') /\ OneLive' /\ FirstLotOK'
  <1>1. PICK n \in 0 .. attempt[a].size : matched' = [matched EXCEPT ![a] = n]
    BY DEF Match
  <1>2. attempt[a] # None /\ matched[a] = -1 /\ UNCHANGED <<bet, attempt, indexed>>
    BY DEF Match
  <1>3. /\ n \in Nat /\ n <= attempt[a].size /\ attempt[a].size \in Int
        /\ matched'[a] = n /\ \A b \in Attempts : b # a => matched'[b] = matched[b]
    BY <1>1, <1>2, RowShape DEF PInv, AttemptsOK
  <1>4. bet # None => bet' # None /\ bet'.seq >= bet.seq BY <1>2, BetShape
  <1>5. Grows
    <2>1. \A b \in Attempts : indexed'[b] >= indexed[b] BY <1>2, RowShape
    <2>2. \A b \in Attempts : matched[b] >= 0 => matched'[b] = matched[b] BY <1>2, <1>3
    <2> QED BY <1>2, <1>4, <2>1, <2>2 DEF Grows
  <1>6. RowOK(a) /\ indexed[a] = 0
    BY <1>2, RowShape DEF RowsInv, RowOK
  <1>7. ASSUME NEW b \in Attempts PROVE RowOK(b)'
    <2>1. CASE b = a
      <3>1. /\ attempt[a].state = "LIVE"
        BY <1>2, <1>6, RowShape DEF RowOK
      <3> QED BY <1>2, <1>3, <1>6, <2>1, <3>1 DEF RowOK
    <2>2. CASE b # a
      <3>1. SameRow(b) BY <1>2 DEF SameRow
      <3> QED BY <1>2, <1>3, <1>4, <2>2, <3>1, RowStays DEF RowsInv
    <2> QED BY <2>1, <2>2
  <1>8. OneLive' BY <1>2 DEF RowsInv, OneLive, Live
  <1>9. FirstLotOK'
    BY <1>2, <1>3 DEF RowsInv, FirstLotOK, Remainder
  <1> QED BY <1>5, <1>7, <1>8, <1>9

\* The index shows no more than was matched.
LEMMA IndexedRows ==
    ASSUME PInv, RowsInv, PInv', NEW a \in Attempts, Index(a)
    PROVE  Grows /\ (\A b \in Attempts : RowOK(b)') /\ OneLive' /\ FirstLotOK'
  <1>1. PICK n \in (indexed[a] + 1) .. matched[a] : indexed' = [indexed EXCEPT ![a] = n]
    BY DEF Index
  <1>2. UNCHANGED <<bet, attempt, matched>> BY DEF Index
  <1>3. /\ n \in Nat /\ n > indexed[a] /\ n <= matched[a] /\ indexed[a] \in Nat /\ matched[a] \in Int
        /\ indexed'[a] = n /\ \A b \in Attempts : b # a => indexed'[b] = indexed[b]
    BY <1>1, RowShape DEF PInv, AttemptsOK
  <1>4. bet # None => bet' # None /\ bet'.seq >= bet.seq BY <1>2, BetShape
  <1>5. Grows
    <2>1. \A b \in Attempts : indexed'[b] >= indexed[b] BY <1>3, RowShape
    <2> QED BY <1>2, <1>4, <2>1 DEF Grows
  <1>7. ASSUME NEW b \in Attempts PROVE RowOK(b)'
    <2>1. CASE b = a
      <3>1. attempt[a] # None /\ RowOK(a) BY <1>3 DEF RowsInv, RowOK
      <3>2. attempt[a].booked <= n BY <1>3, <3>1, RowShape DEF RowOK
      <3> QED BY <1>2, <1>3, <2>1, <3>1, <3>2 DEF RowOK
    <2>2. CASE b # a
      <3>1. SameRow(b) BY <1>2 DEF SameRow
      <3> QED BY <1>2, <1>3, <1>4, <2>2, <3>1, RowStays DEF RowsInv
    <2> QED BY <2>1, <2>2
  <1>8. OneLive' BY <1>2 DEF RowsInv, OneLive, Live
  <1>9. FirstLotOK' BY <1>2 DEF RowsInv, FirstLotOK, Remainder
  <1> QED BY <1>5, <1>7, <1>8, <1>9

\* The resolution of the market changes no row.
LEMMA ResolvedRows ==
    ASSUME PInv, RowsInv, PInv', Resolve
    PROVE  Grows /\ (\A b \in Attempts : RowOK(b)') /\ OneLive' /\ FirstLotOK'
  <1>1. \A b \in Attempts : matched'[b] = IF matched[b] = -1 /\ attempt[b] # None
                                          THEN 0 ELSE matched[b]
    BY DEF Resolve
  <1>2. UNCHANGED <<bet, attempt, indexed>> BY DEF Resolve
  <1>4. bet # None => bet' # None /\ bet'.seq >= bet.seq BY <1>2, BetShape
  <1>5. Grows
    <2>1. \A b \in Attempts : indexed'[b] >= indexed[b] BY <1>2, RowShape
    <2>2. \A b \in Attempts : matched[b] >= 0 => matched'[b] = matched[b] BY <1>1, RowShape
    <2> QED BY <1>2, <1>4, <2>1, <2>2 DEF Grows
  <1>7. ASSUME NEW b \in Attempts PROVE RowOK(b)'
    <2>1. CASE matched[b] = -1 /\ attempt[b] # None
      <3>1. RowOK(b) /\ indexed[b] = 0 /\ matched'[b] = 0 /\ attempt[b].state = "LIVE"
        BY <1>1, <2>1, RowShape DEF RowsInv, RowOK
      <3>2. attempt[b].size >= 1 /\ attempt[b].size \in Int BY <2>1, <3>1, RowShape DEF RowOK
      <3> QED BY <1>2, <2>1, <3>1, <3>2 DEF RowOK
    <2>2. CASE ~(matched[b] = -1 /\ attempt[b] # None)
      <3>1. SameRow(b) BY <1>2 DEF SameRow
      <3> QED BY <1>1, <1>2, <1>4, <2>2, <3>1, RowStays DEF RowsInv
    <2> QED BY <2>1, <2>2
  <1>8. OneLive' BY <1>2 DEF RowsInv, OneLive, Live
  <1>9. FirstLotOK' BY <1>1, <1>2 DEF RowsInv, FirstLotOK, Remainder
  <1> QED BY <1>5, <1>7, <1>8, <1>9

\* The settlement closes the position and touches no row.
LEMMA ConsumedRows ==
    ASSUME PInv, RowsInv, PInv', Consume
    PROVE  Grows /\ (\A b \in Attempts : RowOK(b)') /\ OneLive' /\ FirstLotOK'
  <1>1. UNCHANGED <<attempt, matched, indexed>> BY DEF Consume
  <1>2. CASE bet' = bet
    <2>1. Quiet BY <1>1, <1>2 DEF Quiet, SameRow
    <2> QED BY <2>1, QuietRows
  <1>3. CASE bet' # bet
    <2>1. bet' = [bet EXCEPT !.closed = bet.filled, !.settled = TRUE] /\ bet # None
      BY <1>3 DEF Consume, Remainder
    <2>2. /\ bet' # None /\ bet'.seq = bet.seq /\ bet'.side = bet.side
          /\ bet'.closed = bet'.filled /\ bet'.filled \in Nat /\ bet.seq \in Nat
      <3>1. bet \in BetSet BY <2>1, BetShape
      <3>2. bet' \in BetSet BY <2>1, <3>1 DEF BetSet
      <3> QED BY <2>1, <3>1, <3>2, NoneAssumption DEF BetSet
    <2>3. bet' # None /\ bet'.seq >= bet.seq BY <2>2
    <2>4. Grows
      <3>1. \A b \in Attempts : indexed'[b] >= indexed[b] BY <1>1, RowShape
      <3> QED BY <1>1, <2>3, <3>1 DEF Grows
    <2>5. ASSUME NEW b \in Attempts PROVE RowOK(b)'
      <3>1. SameRow(b) BY <1>1 DEF SameRow
      <3> QED BY <1>1, <2>3, <3>1, RowStays DEF RowsInv
    <2>6. OneLive' BY <1>1 DEF RowsInv, OneLive, Live
    <2>7. FirstLotOK'
      <3>1. Remainder(bet') = 0 /\ ~(0 >= Tick) BY <2>2, TickAssumption DEF Remainder
      <3> QED BY <1>1, <2>1, <2>2, <3>1 DEF RowsInv, FirstLotOK, Remainder
    <2> QED BY <2>4, <2>5, <2>6, <2>7
  <1> QED BY <1>2, <1>3

\* What the position becomes.
LEMMA BetMoved ==
    ASSUME PInv, NEW a \in Attempts, attempt[a] # None, NEW row, NEW n \in Nat
    PROVE  /\ Merged(a, row, n) =>
                /\ bet' \in BetSet /\ bet'.side = bet.side /\ bet'.seq = bet.seq
                /\ bet'.filled = bet.filled + (n - attempt[a].booked) /\ bet'.closed = bet.closed
                /\ bet'.settled = bet.settled
           /\ Opened(a, row, n) =>
                /\ bet' \in BetSet /\ bet'.side = attempt[a].side
                /\ bet'.seq = IF bet = None THEN 0 ELSE bet.seq + 1
                /\ bet'.filled = n - attempt[a].booked /\ bet'.closed = 0 /\ bet'.settled = FALSE
           /\ Sold(a, row, n) =>
                /\ bet' \in BetSet /\ bet'.side = bet.side /\ bet'.seq = bet.seq
                /\ bet'.filled = bet.filled
                /\ bet'.closed = bet.closed + Closing(n - attempt[a].booked)
                /\ bet'.settled <=> (bet.settled \/ Closing(n - attempt[a].booked) = Remainder(bet))
                /\ Closing(n - attempt[a].booked) \in Nat
                /\ Closing(n - attempt[a].booked) <= Remainder(bet)
  <1> DEFINE d == n - attempt[a].booked
  <1>0. attempt[a].booked \in Nat /\ attempt[a].side \in Sides /\ d \in Int BY RowShape
  <1>1. ASSUME Merged(a, row, n)
        PROVE  /\ bet' \in BetSet /\ bet'.side = bet.side /\ bet'.seq = bet.seq
               /\ bet'.filled = bet.filled + d /\ bet'.closed = bet.closed
               /\ bet'.settled = bet.settled
    <2>1. bet \in BetSet /\ d \in Nat \ {0} BY <1>0, <1>1, BetShape DEF Merged, BookedAs
    <2>2. bet' = [bet EXCEPT !.filled = bet.filled + d] BY <1>1 DEF Merged
    <2> HIDE DEF d
    <2>3. bet.filled + d \in Nat \ {0} BY <2>1 DEF BetSet
    <2> QED BY <2>1, <2>2, <2>3 DEF BetSet
  <1>2. ASSUME Opened(a, row, n)
        PROVE  /\ bet' \in BetSet /\ bet'.side = attempt[a].side
               /\ bet'.seq = IF bet = None THEN 0 ELSE bet.seq + 1
               /\ bet'.filled = d /\ bet'.closed = 0 /\ bet'.settled = FALSE
    <2>1. d \in Nat \ {0} BY <1>0, <1>2 DEF Opened, BookedAs
    <2>2. bet' = [side |-> attempt[a].side, filled |-> d, closed |-> 0,
                  seq |-> IF bet = None THEN 0 ELSE bet.seq + 1, settled |-> FALSE]
      BY <1>2 DEF Opened
    <2> HIDE DEF d
    <2>3. (IF bet = None THEN 0 ELSE bet.seq + 1) \in Nat BY BetShape
    <2> QED BY <1>0, <2>1, <2>2, <2>3 DEF BetSet
  <1>3. ASSUME Sold(a, row, n)
        PROVE  /\ bet' \in BetSet /\ bet'.side = bet.side /\ bet'.seq = bet.seq
               /\ bet'.filled = bet.filled /\ bet'.closed = bet.closed + Closing(d)
               /\ bet'.settled <=> (bet.settled \/ Closing(d) = Remainder(bet))
               /\ Closing(d) \in Nat /\ Closing(d) <= Remainder(bet)
    <2>1. bet \in BetSet /\ d \in Int /\ d > 0 BY <1>0, <1>3, BetShape DEF Sold, BookedAs
    <2>2. Closing(d) \in Nat /\ Closing(d) <= Remainder(bet) BY <2>1, ClosingFits DEF PInv
    <2>3. bet' = [bet EXCEPT !.closed = bet.closed + Closing(d),
                             !.settled = bet.settled \/ Closing(d) = Remainder(bet)]
      BY <1>3 DEF Sold
    <2> DEFINE k == bet.closed + Closing(d)
               f == bet.settled \/ Closing(d) = Remainder(bet)
    <2>4. k \in Nat BY <2>1, <2>2 DEF BetSet
    <2>5. bet' = [bet EXCEPT !.closed = k, !.settled = f] BY <2>3
    <2>6. f \in BOOLEAN BY <2>1 DEF BetSet
    <2> HIDE DEF k, f
    <2>7. /\ bet' \in BetSet /\ bet'.side = bet.side /\ bet'.seq = bet.seq
          /\ bet'.filled = bet.filled /\ bet'.closed = k /\ bet'.settled = f
      <3>1. CASE f = TRUE
        <4>1. bet' = [bet EXCEPT !.closed = k, !.settled = TRUE] BY <2>5, <3>1
        <4> QED BY <2>1, <2>4, <3>1, <4>1 DEF BetSet
      <3>2. CASE f = FALSE
        <4>1. bet' = [bet EXCEPT !.closed = k, !.settled = FALSE] BY <2>5, <3>2
        <4> QED BY <2>1, <2>4, <3>2, <4>1 DEF BetSet
      <3> QED BY <2>6, <3>1, <3>2
    <2>8. bet'.settled <=> (bet.settled \/ Closing(d) = Remainder(bet)) BY <2>7 DEF f
    <2>9. bet'.closed = bet.closed + Closing(d) BY <2>7 DEF k
    <2> QED BY <2>2, <2>7, <2>8, <2>9
  <1> HIDE DEF d
  <1>4. d = n - attempt[a].booked BY DEF d
  <1> QED BY <1>1, <1>2, <1>3, <1>4

\* A booking books no more than the index showed, and leaves the row decided.
LEMMA BookedRows ==
    ASSUME PInv, RowsInv, PInv', NEW p \in Workers, Book(p)
    PROVE  Grows /\ (\A b \in Attempts : RowOK(b)') /\ OneLive' /\ FirstLotOK'
  <1> DEFINE n == pass[p].total
             row == pass[p].row
  <1>0. pass[p].at = "book" BY DEF Book
  <1> PICK a \in Attempts : a = pass[p].a
    BY <1>0, PassCarries DEF PInv
  <1>1. Kept(a) /\ Outcome(a, row, n) /\ matched[a] >= 0 /\ n \in Nat
    BY BookOutcome
  <1>2. /\ UNCHANGED <<matched, indexed>> /\ attempt[a] # None /\ RowOK(a) /\ n <= indexed[a]
    BY <1>0 DEF Book, RowsInv, PassOK
  <1> HIDE DEF n, row
  <1>3. /\ indexed[a] \in Nat /\ matched[a] \in Int /\ attempt[a].booked \in Nat
        /\ attempt[a].state \in {"LIVE", "FILLED", "PARTIAL", "KILLED"}
        /\ attempt[a].dir \in {"ENTRY", "EXIT"} /\ attempt[a].lot \in {None} \cup Nat
    BY <1>2, RowShape
  <1>4. n > attempt[a].booked => n <= matched[a] /\ n > 0
    BY <1>1, <1>2, <1>3 DEF RowOK
  <1>5. /\ bet # None => bet' # None /\ bet'.seq >= bet.seq
        /\ Merged(a, row, n) \/ Opened(a, row, n) \/ Sold(a, row, n) => bet' # None
    <2>1. CASE Unbooked(a, n) \/ Aside(a, row, n)
      <3>1. bet' = bet BY <2>1 DEF Unbooked, Aside
      <3>2. bet # None => bet.seq \in Nat BY BetShape
      <3>3. Opened(a, row, n) => bet' \in BetSet BY <1>1, <1>2, BetMoved
      <3> QED BY <3>1, <3>2, <3>3, NoneAssumption DEF Merged, Sold
    <2>2. CASE Merged(a, row, n) \/ Opened(a, row, n) \/ Sold(a, row, n)
      <3>1. /\ bet' \in BetSet
            /\ bet # None => bet'.seq = bet.seq \/ bet'.seq = bet.seq + 1
        BY <1>1, <1>2, <2>2, BetMoved
      <3>2. bet # None => bet.seq \in Nat BY BetShape
      <3> QED BY <3>1, <3>2, NoneAssumption
    <2> QED BY <1>1, <2>1, <2>2 DEF Outcome
  <1>7. attempt[a].state # "LIVE" => attempt'[a].state # "LIVE"
    BY <1>1 DEF Outcome, Unbooked, Aside, Merged, Opened, Sold, BookedAs
  <1>8. Grows
    <2>1. \A b \in Attempts : indexed'[b] >= indexed[b] BY <1>2, RowShape
    <2>2. ASSUME NEW b \in Attempts, attempt[b] # None
          PROVE  /\ attempt'[b] # None
                 /\ attempt'[b].dir = attempt[b].dir /\ attempt'[b].side = attempt[b].side
                 /\ attempt[b].state # "LIVE" => attempt'[b].state # "LIVE"
      BY <1>1, <1>7, <2>2 DEF Kept
    <2> QED BY <1>2, <1>5, <2>1, <2>2 DEF Grows
  <1>9. ASSUME NEW b \in Attempts PROVE RowOK(b)'
    <2>1. CASE b # a
      <3>1. SameRow(b) BY <1>1, <2>1 DEF SameRow, Kept
      <3> QED BY <1>2, <1>5, <3>1, RowStays DEF RowsInv
    <2>2. CASE b = a /\ Unbooked(a, n)
      <3>1. attempt'[a].booked = attempt[a].booked /\ attempt'[a].lot = attempt[a].lot /\ bet' = bet
        BY <2>2 DEF Unbooked
      <3>2. CASE attempt'[a].state = attempt[a].state
        <4>1. SameRow(a) BY <1>1, <1>2, <3>1, <3>2 DEF SameRow, Kept
        <4> QED BY <1>2, <1>5, <2>2, <4>1, RowStays
      <3>3. CASE attempt'[a].state = "KILLED" /\ (attempt[a].dir = "ENTRY" => matched[a] = 0)
        BY <1>1, <1>2, <2>2, <3>1, <3>3 DEF RowOK, Kept, Booked
      <3> QED BY <2>2, <3>2, <3>3 DEF Unbooked
    <2>3. CASE b = a /\ ~Unbooked(a, n)
      <3>1. \E lot : BookedAs(a, n, lot) /\ (lot # None => bet' # None /\ lot <= bet'.seq)
        <4>1. CASE Aside(a, row, n)
          <5>1. attempt[a].lot # None => bet # None /\ attempt[a].lot <= bet.seq BY <1>2 DEF RowOK
          <5>2. bet' = bet /\ BookedAs(a, n, attempt[a].lot) BY <4>1 DEF Aside
          <5> QED BY <5>1, <5>2
        <4>2. CASE Merged(a, row, n) \/ Opened(a, row, n) \/ Sold(a, row, n)
          <5>1. bet' # None /\ bet'.seq \in Nat
            BY <1>5, <4>2 DEF PInv, BetOK, BetSet
          <5>2. BookedAs(a, n, bet'.seq)
            BY <1>1, <1>2, <4>2, BetMoved DEF Merged, Opened, Sold
          <5> QED BY <5>1, <5>2
        <4> QED BY <1>1, <2>3, <4>1, <4>2 DEF Outcome
      <3>2. PICK lot : BookedAs(a, n, lot) /\ (lot # None => bet' # None /\ lot <= bet'.seq) BY <3>1
      <3>3. bet' # None
        BY <1>1, <1>5, <2>3 DEF Outcome, Aside
      <3>4. attempt[a].dir = "ENTRY" => attempt'[a].state # "KILLED"
        <4>1. n > attempt[a].booked /\ matched[a] # 0 BY <1>1, <1>3, <1>4, <3>2 DEF BookedAs
        <4> QED BY <1>2, <3>2, <4>1 DEF RowOK, BookedAs
      <3>5. n > 0 /\ n <= matched[a] BY <1>4, <3>2 DEF BookedAs
      <3> QED BY <1>1, <1>2, <2>3, <3>2, <3>3, <3>4, <3>5 DEF RowOK, Kept, BookedAs
    <2> QED BY <2>1, <2>2, <2>3
  <1>10. OneLive'
    BY <1>1, <1>7, <1>2 DEF RowsInv, OneLive, Live, Kept
  <1>11. FirstLotOK'
    <2> SUFFICES ASSUME bet' # None, bet'.seq = 0, NEW b \in Attempts, attempt'[b] # None
                 PROVE  IF attempt'[b].dir = "EXIT" THEN attempt'[b].side = bet'.side
                        ELSE Remainder(bet') >= Tick => attempt'[b].side = bet'.side \/ matched[b] = 0
      BY <1>2 DEF FirstLotOK, Remainder
    <2>0. attempt[b] # None /\ attempt'[b].dir = attempt[b].dir /\ attempt'[b].side = attempt[b].side
      BY <1>1, <1>2 DEF Kept
    <2>1. CASE bet # None /\ bet.seq = 0 /\ bet'.side = bet.side
               /\ (Remainder(bet') >= Tick => Remainder(bet) >= Tick)
      BY <2>0, <2>1 DEF RowsInv, FirstLotOK
    <2>2. CASE Unbooked(a, n) \/ Aside(a, row, n)
      <3>1. bet' = bet BY <2>2 DEF Unbooked, Aside
      <3> QED BY <2>1, <3>1
    <2>3. CASE Merged(a, row, n)
      <3>1. bet # None /\ bet'.seq = bet.seq /\ bet'.side = bet.side /\ Remainder(bet) >= Tick
        BY <1>1, <1>2, <2>3, BetMoved DEF Merged
      <3> QED BY <2>1, <3>1
    <2>4. CASE Sold(a, row, n)
      <3>1. /\ bet # None /\ bet'.seq = bet.seq /\ bet'.side = bet.side /\ bet'.filled = bet.filled
            /\ bet'.closed = bet.closed + Closing(n - attempt[a].booked)
            /\ Closing(n - attempt[a].booked) \in Nat
        BY <1>1, <1>2, <2>4, BetMoved DEF Sold
      <3>2. Remainder(bet') = bet.filled - (bet.closed + Closing(n - attempt[a].booked))
        BY <3>1 DEF Remainder
      <3>3. Remainder(bet) = bet.filled - bet.closed /\ bet.filled \in Nat /\ bet.closed \in Nat
        BY <3>1, BetShape
      <3>4. Remainder(bet') >= Tick => Remainder(bet) >= Tick
        BY <3>1, <3>2, <3>3, TickAssumption
      <3> QED BY <2>1, <3>1, <3>4
    <2>5. CASE Opened(a, row, n)
      <3>1. bet'.side = attempt[a].side /\ bet'.seq = IF bet = None THEN 0 ELSE bet.seq + 1
        BY <1>1, <1>2, <2>5, BetMoved
      <3>2. bet = None
        <4>1. bet # None => bet.seq \in Nat BY BetShape
        <4> QED BY <3>1, <4>1
      <3>3. attempt[a].dir = "ENTRY" /\ attempt[a].state = "LIVE"
        <4>1. attempt[a].dir = "ENTRY" /\ n > attempt[a].booked BY <2>5 DEF Opened, BookedAs
        <4>2. matched[a] # 0 BY <1>1, <1>3, <1>4, <4>1
        <4>3. attempt[a].booked > 0 => FALSE BY <1>2, <3>2 DEF RowOK
        <4> QED BY <1>2, <1>3, <4>1, <4>2, <4>3 DEF RowOK, Booked
      <3>4. CASE b = a BY <2>0, <3>1, <3>3, <3>4
      <3>5. CASE b # a
        <4>1. RowOK(b) /\ attempt[b].state # "LIVE"
          BY <1>2, <2>0, <3>3, <3>5 DEF RowsInv, OneLive, Live
        <4>2. attempt[b].dir = "ENTRY" /\ attempt[b].state = "KILLED" /\ matched[b] = 0
          BY <2>0, <3>2, <4>1, RowShape DEF RowOK, Booked
        <4> QED BY <2>0, <4>2
      <3> QED BY <3>4, <3>5
    <2> QED BY <1>1, <2>2, <2>3, <2>4, <2>5 DEF Outcome
  <1> QED BY <1>8, <1>9, <1>10, <1>11

\* Steps that leave the rows as they are.
LEMMA QuietSteps ==
    ASSUME PInv,
           \/ \E p \in Workers : \/ \E a \in Attempts : Read(p, a)
                                 \/ Probe(p) \/ TrueUp(p) \/ PassDies(p)
           \/ (\E side \in Sides : Redeem(side)) \/ Scan \/ Plan \/ SettleDies \/ UNCHANGED vars
    PROVE  Quiet
  <1>1. ASSUME attempt' = attempt, UNCHANGED <<bet, matched, indexed>> PROVE Quiet
    BY <1>1 DEF Quiet, SameRow
  <1>2. ASSUME NEW p \in Workers, TrueUp(p) PROVE Quiet
    <2>0. pass[p].at = "fees" /\ UNCHANGED <<bet, matched, indexed>> BY <1>2 DEF TrueUp
    <2> PICK a \in Attempts : a = pass[p].a BY <2>0, PassCarries DEF PInv
    <2>1. attempt[a] \in RowSet BY <2>0, PassCarries DEF PInv
    <2> DEFINE r == [attempt[a] EXCEPT !.final = TRUE]
    <2>2. attempt' = attempt \/ attempt' = [attempt EXCEPT ![a] = r] BY <1>2 DEF TrueUp
    <2>3. /\ r \in RowSet /\ r.dir = attempt[a].dir /\ r.side = attempt[a].side
          /\ r.size = attempt[a].size /\ r.state = attempt[a].state
          /\ r.lot = attempt[a].lot /\ r.booked = attempt[a].booked
      BY <2>1 DEF RowSet
    <2> HIDE DEF r
    <2>4. CASE attempt' = attempt BY <1>1, <2>0, <2>4
    <2>5. CASE attempt' = [attempt EXCEPT ![a] = r]
      <3>1. attempt'[a] = r /\ \A b \in Attempts : b # a => attempt'[b] = attempt[b]
        BY <2>5 DEF PInv, AttemptsOK
      <3>2. attempt[a] # None /\ r # None BY <2>1, <2>3, NoneAssumption
      <3> QED BY <2>0, <2>3, <3>1, <3>2 DEF Quiet, SameRow
    <2> QED BY <2>2, <2>4, <2>5
  <1>3. ASSUME NEW p \in Workers, (\E a \in Attempts : Read(p, a)) \/ Probe(p) \/ PassDies(p)
        PROVE  Quiet
    BY <1>1, <1>3 DEF Read, Probe, PassDies
  <1>4. ASSUME (\E side \in Sides : Redeem(side)) \/ Scan \/ Plan \/ SettleDies \/ UNCHANGED vars
        PROVE  Quiet
    BY <1>1, <1>4 DEF Redeem, Scan, Plan, SettleDies, vars
  <1> QED BY <1>2, <1>3, <1>4

\* What may be sold is at least a tick.
LEMMA Floored ==
    ASSUME NEW x \in Nat, NEW t \in Nat \ {0}, x >= t
    PROVE  (x \div t) * t \in 1 .. x
  <1> DEFINE q == x \div t
  <1>1. q \in Int /\ t * q <= x /\ x < t * (q + 1) OBVIOUS
  <1> HIDE DEF q
  <1>2. q >= 1
    <2>1. t * (q + 1) = t * q + t BY <1>1
    <2>2. q <= 0 => t * q <= 0 BY <1>1
    <2> QED BY <1>1, <2>1, <2>2
  <1>3. q * t = t * q /\ q * t \in Int BY <1>1
  <1>4. q * t >= 1 BY <1>1, <1>2
  <1> QED BY <1>1, <1>3, <1>4 DEF q

\* The row that a new entry, or a new sale, writes.
LEMMA NewRows ==
    ASSUME PInv, NEW a \in Attempts
    PROVE  /\ \A side \in Sides, size \in 1 .. MaxSize : Enter(a, side, size) =>
                 LET r == NewRow("ENTRY", side, size) IN
                 /\ attempt' = [attempt EXCEPT ![a] = r]
                 /\ r \in RowSet /\ r.state = "LIVE" /\ r.booked = 0 /\ r.lot = None
                 /\ r.dir = "ENTRY" /\ r.size >= 1 /\ r.size <= MaxSize /\ r.side = side
           /\ Exit(a) => LET r == NewRow("EXIT", bet.side, (Remainder(bet) \div Tick) * Tick) IN
                 /\ attempt' = [attempt EXCEPT ![a] = r]
                 /\ r \in RowSet /\ r.state = "LIVE" /\ r.booked = 0 /\ r.lot = None
                 /\ r.dir = "EXIT" /\ r.side = bet.side /\ bet # None
                 /\ r.size >= 1 /\ r.size <= Remainder(bet)
  <1>1. ASSUME NEW side \in Sides, NEW size \in 1 .. MaxSize, Enter(a, side, size)
        PROVE  LET r == NewRow("ENTRY", side, size) IN
               /\ attempt' = [attempt EXCEPT ![a] = r]
               /\ r \in RowSet /\ r.state = "LIVE" /\ r.booked = 0 /\ r.lot = None
               /\ r.dir = "ENTRY" /\ r.size >= 1 /\ r.size <= MaxSize /\ r.side = side
    BY <1>1, TickAssumption DEF Enter, NewRow, RowSet
  <1>2. ASSUME Exit(a)
        PROVE  LET r == NewRow("EXIT", bet.side, (Remainder(bet) \div Tick) * Tick) IN
               /\ attempt' = [attempt EXCEPT ![a] = r]
               /\ r \in RowSet /\ r.state = "LIVE" /\ r.booked = 0 /\ r.lot = None
               /\ r.dir = "EXIT" /\ r.side = bet.side /\ bet # None
               /\ r.size >= 1 /\ r.size <= Remainder(bet)
    <2>1. Remainder(bet) >= Tick /\ Remainder(bet) \in Nat
      BY <1>2, RemainderIsNat DEF Exit, PInv
    <2>2. bet # None BY <2>1, TickAssumption DEF Remainder
    <2> DEFINE n == (Remainder(bet) \div Tick) * Tick
    <2>3. n \in 1 .. Remainder(bet) BY <2>1, Floored, TickAssumption
    <2>4. attempt' = [attempt EXCEPT ![a] = NewRow("EXIT", bet.side, n)] BY <1>2 DEF Exit
    <2> HIDE DEF n
    <2>5. n \in Int /\ n >= 1 /\ n <= Remainder(bet) BY <2>1, <2>3
    <2>6. bet.side \in Sides BY <2>2, BetShape
    <2>7. LET r == NewRow("EXIT", bet.side, n) IN
          /\ attempt' = [attempt EXCEPT ![a] = r]
          /\ r \in RowSet /\ r.state = "LIVE" /\ r.booked = 0 /\ r.lot = None
          /\ r.dir = "EXIT" /\ r.side = bet.side /\ bet # None
          /\ r.size >= 1 /\ r.size <= Remainder(bet)
      BY <2>2, <2>4, <2>5, <2>6 DEF NewRow, RowSet
    <2> QED BY <2>7 DEF n
  <1> QED BY <1>1, <1>2

\* The steps, sorted by what they do to the rows.
LEMMA Steps ==
    ASSUME PInv, [Next]_vars
    PROVE  \/ Quiet
           \/ \E a \in Attempts : \E side \in Sides, size \in 1 .. MaxSize : Enter(a, side, size)
           \/ \E a \in Attempts : Exit(a) \/ Match(a) \/ Index(a)
           \/ \E p \in Workers : Book(p)
           \/ Resolve \/ Consume
  BY QuietSteps DEF Next

\* Every step keeps the invariant of the rows.
LEMMA RowsMove ==
    ASSUME PInv, RowsInv, [Next]_vars, PInv'
    PROVE  Grows /\ (\A b \in Attempts : RowOK(b)') /\ OneLive' /\ FirstLotOK'
  <1>1. CASE Quiet BY <1>1, QuietRows
  <1>2. ASSUME NEW a \in Attempts, NEW side \in Sides, NEW size \in 1 .. MaxSize, Enter(a, side, size)
        PROVE  Grows /\ (\A b \in Attempts : RowOK(b)') /\ OneLive' /\ FirstLotOK'
    <2> DEFINE r == NewRow("ENTRY", side, size)
    <2>1. /\ attempt' = [attempt EXCEPT ![a] = r]
          /\ r \in RowSet /\ r.state = "LIVE" /\ r.booked = 0 /\ r.lot = None
          /\ r.dir = "ENTRY" /\ r.size >= 1 /\ r.size <= MaxSize
      BY <1>2, NewRows
    <2> HIDE DEF r
    <2>2. MayTrade(a) /\ Remainder(bet) < Tick /\ UNCHANGED <<bet, matched, indexed>>
      BY <1>2 DEF Enter
    <2> QED BY <2>1, <2>2, CreatedRows
  <1>3. ASSUME NEW a \in Attempts, Exit(a)
        PROVE  Grows /\ (\A b \in Attempts : RowOK(b)') /\ OneLive' /\ FirstLotOK'
    <2>0. PICK r : r = NewRow("EXIT", bet.side, (Remainder(bet) \div Tick) * Tick) OBVIOUS
    <2>1. /\ attempt' = [attempt EXCEPT ![a] = r]
          /\ r \in RowSet /\ r.state = "LIVE" /\ r.booked = 0 /\ r.lot = None
          /\ r.dir = "EXIT" /\ r.size >= 1 /\ r.side = bet.side /\ bet # None
      BY <1>3, <2>0, NewRows
    <2>2. MayTrade(a) /\ UNCHANGED <<bet, matched, indexed>> BY <1>3 DEF Exit
    <2> QED BY <2>1, <2>2, CreatedRows
  <1>4. ASSUME NEW a \in Attempts, Match(a) \/ Index(a)
        PROVE  Grows /\ (\A b \in Attempts : RowOK(b)') /\ OneLive' /\ FirstLotOK'
    BY <1>4, MatchedRows, IndexedRows
  <1>5. CASE \E p \in Workers : Book(p) BY <1>5, BookedRows
  <1>6. CASE Resolve \/ Consume BY <1>6, ResolvedRows, ConsumedRows
  <1> QED BY <1>1, <1>2, <1>3, <1>4, <1>5, <1>6, Steps

\* What a pass reads, is told and books.
LEMMA PassesMove ==
    ASSUME PInv, RowsInv, [Next]_vars, PInv', Grows, \A b \in Attempts : RowOK(b)',
           NEW q \in Workers
    PROVE  PassOK(q)'
  <1>0. PassOK(q) BY DEF RowsInv
  <1>1. CASE pass'[q] = pass[q] BY <1>0, <1>1, PassStays
  <1>2. CASE pass'[q] = Idle BY <1>2 DEF PassOK, Idle
  <1>3. ASSUME NEW p \in Workers, NEW a \in Attempts, Read(p, a) PROVE PassOK(q)'
    <2>1. CASE q # p BY <1>1, <1>3, <2>1 DEF Read, PInv, PassesOK
    <2>2. CASE q = p
      <3>1. pass'[q] = [at |-> "probe", a |-> a, row |-> attempt[a]]
        BY <1>3, <2>2 DEF Read, PInv, PassesOK
      <3>2. attempt[a] # None /\ attempt' = attempt /\ bet' = bet BY <1>3 DEF Read
      <3>3. attempt[a].lot # None => ~Live(a) /\ bet # None /\ attempt[a].lot <= bet.seq
        BY <3>2 DEF RowsInv, RowOK, Live
      <3> QED BY <3>1, <3>2, <3>3 DEF PassOK, Live
    <2> QED BY <2>1, <2>2
  <1>4. ASSUME NEW p \in Workers, Probe(p) PROVE PassOK(q)'
    <2>1. CASE q # p BY <1>1, <1>4, <2>1 DEF Probe, PInv, PassesOK
    <2>2. CASE q = p
      <3>0. pass[q].at = "probe" BY <1>4, <2>2 DEF Probe
      <3> PICK a \in Attempts : a = pass[q].a BY <3>0, PassCarries DEF PInv
      <3>1. pass'[q] = [at |-> "book", a |-> a, row |-> pass[q].row, total |-> indexed[a],
                        terminal |-> indexed[a] = matched[a]]
        BY <1>4, <2>2 DEF Probe, PInv, PassesOK
      <3>2. UNCHANGED <<attempt, bet, indexed, matched>> /\ (indexed[a] > 0 \/ matched[a] = 0)
        BY <1>4, <2>2 DEF Probe
      <3>3. indexed[a] <= indexed[a] BY DEF PInv, AttemptsOK
      <3> QED BY <1>0, <3>0, <3>1, <3>2, <3>3 DEF PassOK, Live
    <2> QED BY <2>1, <2>2
  <1>5. ASSUME NEW p \in Workers, Book(p) PROVE PassOK(q)'
    <2>1. CASE q # p BY <1>1, <1>5, <2>1 DEF Book, PInv, PassesOK
    <2>2. CASE q = p
      <3>0. pass[q].at = "book" BY <1>5, <2>2 DEF Book
      <3> PICK a \in Attempts : a = pass[q].a BY <3>0, PassCarries DEF PInv
      <3>1. pass'[q] = Idle \/
            pass'[q] = [at |-> "fees", a |-> a, total |-> pass[q].total,
                        terminal |-> pass[q].terminal /\ Delta(p) = 0]
        BY <1>5, <2>2 DEF Book, PInv, PassesOK
      <3>2. UNCHANGED <<indexed, matched>> BY <1>5 DEF Book
      <3>3. attempt'[a] # None BY <1>0, <3>0 DEF PassOK, Grows
      <3> QED BY <1>0, <1>2, <3>0, <3>1, <3>2, <3>3 DEF PassOK
    <2> QED BY <2>1, <2>2
  <1>6. ASSUME NEW p \in Workers, TrueUp(p) \/ PassDies(p) PROVE PassOK(q)'
    <2>1. CASE q # p BY <1>1, <1>6, <2>1 DEF TrueUp, PassDies, PInv, PassesOK
    <2>2. CASE q = p BY <1>2, <1>6, <2>2 DEF TrueUp, PassDies, PInv, PassesOK
    <2> QED BY <2>1, <2>2
  <1>7. CASE pass' = pass BY <1>1, <1>7
  <1>8. ASSUME NEW a \in Attempts,
               \/ \E side \in Sides, size \in 1 .. MaxSize : Enter(a, side, size)
               \/ Exit(a) \/ Match(a) \/ Index(a)
        PROVE  pass' = pass
    BY <1>8 DEF Enter, Exit, Match, Index
  <1>9. ASSUME (\E side \in Sides : Redeem(side)) \/ Resolve \/ Scan \/ Plan \/ Consume \/ SettleDies
               \/ UNCHANGED vars
        PROVE  pass' = pass
    BY <1>9 DEF Redeem, Resolve, Scan, Plan, Consume, SettleDies, vars
  <1> QED BY <1>3, <1>4, <1>5, <1>6, <1>7, <1>8, <1>9 DEF Next

\* The invariant of the rows is inductive, given the types.
LEMMA RowsNext == PInv /\ RowsInv /\ [Next]_vars => RowsInv'
  <1> SUFFICES ASSUME PInv, RowsInv, [Next]_vars PROVE RowsInv'
    OBVIOUS
  <1>1. PInv' BY NextInv
  <1>2. Grows /\ (\A b \in Attempts : RowOK(b)') /\ OneLive' /\ FirstLotOK' BY <1>1, RowsMove
  <1>3. \A q \in Workers : PassOK(q)' BY <1>1, <1>2, PassesMove
  <1> QED BY <1>2, <1>3 DEF RowsInv

\* It holds when nothing has been signed.
LEMMA RowsInit == Init => RowsInv
  <1> SUFFICES ASSUME Init PROVE RowsInv
    OBVIOUS
  <1>1. \A a \in Attempts : attempt[a] = None /\ matched[a] = -1 /\ indexed[a] = 0 BY DEF Init
  <1>2. \A p \in Workers : pass[p].at = "idle" BY DEF Init, Idle
  <1> QED BY <1>1, <1>2 DEF RowsInv, RowOK, OneLive, Live, PassOK, FirstLotOK

\* It is an invariant of the specification, for any lag of the index.
LEMMA RowsInvariance == Spec => [](PInv /\ RowsInv)
  <1>1. Init => PInv /\ RowsInv BY InitInv, RowsInit
  <1>2. PInv /\ RowsInv /\ [Next]_vars => PInv' /\ RowsInv' BY NextInv, RowsNext
  <1> QED BY <1>1, <1>2, PTL DEF Spec

-----------------------------------------------------------------------------
(* Totals over the attempts.                                               *)

\* An entry of side s that matched something.
IsBuy(a, s) == /\ attempt[a] # None /\ attempt[a].dir = "ENTRY"
               /\ attempt[a].side = s /\ matched[a] > 0

\* The shares of one attempt: sold and bought ones the ledger lacks, bought ones, booked ones.
SaleLeft(a, s)  == IF a \in Sales(s) THEN matched[a] - attempt[a].booked ELSE 0
EntryLeft(a, s) == IF IsBuy(a, s) THEN matched[a] - attempt[a].booked ELSE 0
Bought(a, s)    == IF IsBuy(a, s) THEN matched[a] ELSE 0
EntryShares(a)  == IF attempt[a] # None /\ attempt[a].dir = "ENTRY" THEN attempt[a].booked ELSE 0

\* Their totals over the attempts; those of the sales are UnbookedSales.
EntriesLeft(s)  == SumFunction([a \in Attempts |-> EntryLeft(a, s)])
BoughtShares(s) == SumFunction([a \in Attempts |-> Bought(a, s)])
BookedEntries   == SumFunction([a \in Attempts |-> EntryShares(a)])

\* What one attempt adds to a total is a natural number, and an entry adds no more than MaxSize.
LEMMA TermTypes ==
    ASSUME PInv, RowsInv, NEW a \in Attempts
    PROVE  /\ \A s \in Sides : /\ SaleLeft(a, s) \in Nat /\ EntryLeft(a, s) \in Nat
                               /\ Bought(a, s) \in Nat /\ Bought(a, s) <= MaxSize
           /\ EntryShares(a) \in Nat /\ EntryShares(a) <= MaxSize
  <1>1. CASE attempt[a] = None
    BY <1>1, TickAssumption DEF SaleLeft, EntryLeft, Bought, EntryShares, IsBuy, Sales
  <1>2. CASE attempt[a] # None
    <2>1. /\ matched[a] \in Int /\ indexed[a] \in Nat /\ attempt[a].booked \in Nat
          /\ attempt[a].size \in Int /\ matched[a] <= attempt[a].size
          /\ indexed[a] = 0 \/ indexed[a] <= matched[a]
          /\ attempt[a].booked <= indexed[a]
          /\ attempt[a].dir = "ENTRY" => attempt[a].size <= MaxSize
      BY <1>2, RowShape DEF RowsInv, RowOK
    <2>2. matched[a] > 0 => matched[a] - attempt[a].booked \in Nat BY <2>1
    <2>3. attempt[a].dir = "ENTRY" => matched[a] <= MaxSize /\ attempt[a].booked <= MaxSize
      BY <2>1, TickAssumption
    <2>4. matched[a] > 0 => matched[a] \in Nat BY <2>1
    <2> QED BY <2>1, <2>2, <2>3, <2>4, TickAssumption
        DEF SaleLeft, EntryLeft, Bought, EntryShares, IsBuy, Sales
  <1> QED BY <1>1, <1>2

\* The bound on the shares of an instance is a number.
LEMMA TotalType ==
    Total \in Nat /\ Cardinality(Attempts) \in Nat
  <1>1. Cardinality(Attempts) \in Nat BY AttemptsAssumption, FS_CardinalityType
  <1> QED BY <1>1, TickAssumption DEF Total

\* The totals are numbers, no entry total exceeds Total, and each sale is in the total of its side.
LEMMA TotalTypes ==
    ASSUME PInv, RowsInv
    PROVE  /\ \A s \in Sides : /\ UnbookedSales(s) \in Nat /\ EntriesLeft(s) \in Nat
                               /\ BoughtShares(s) \in Nat /\ BoughtShares(s) <= Total
           /\ BookedEntries \in Nat /\ BookedEntries <= Total
           /\ \A s \in Sides : \A a \in Attempts : SaleLeft(a, s) <= UnbookedSales(s)
  <1>0. IsFiniteSet(Attempts) /\ MaxSize \in Int BY AttemptsAssumption, TickAssumption
  <1>1. ASSUME NEW s \in Sides
        PROVE  /\ UnbookedSales(s) \in Nat /\ EntriesLeft(s) \in Nat
               /\ BoughtShares(s) \in Nat /\ BoughtShares(s) <= Total
               /\ \A a \in Attempts : SaleLeft(a, s) <= UnbookedSales(s)
    <2> DEFINE f == [a \in Attempts |-> SaleLeft(a, s)]
               g == [a \in Attempts |-> EntryLeft(a, s)]
               h == [a \in Attempts |-> Bought(a, s)]
    <2>1. /\ f \in [Attempts -> Nat] /\ g \in [Attempts -> Nat] /\ h \in [Attempts -> Nat]
          /\ \A a \in Attempts : h[a] <= MaxSize /\ f[a] = SaleLeft(a, s)
      BY TermTypes
    <2>2. /\ UnbookedSales(s) = SumFunction(f) /\ EntriesLeft(s) = SumFunction(g)
          /\ BoughtShares(s) = SumFunction(h)
      BY DEF UnbookedSales, EntriesLeft, BoughtShares, SaleLeft
    <2> HIDE DEF f, g, h
    <2>3. h \in [Attempts -> Int] BY <2>1
    <2>4. SumFunction(h) <= MaxSize * Cardinality(Attempts) BY <1>0, <2>1, <2>3, SumBound
    <2>5. /\ SumFunction(f) \in Nat /\ \A a \in Attempts : f[a] <= SumFunction(f)
      BY <1>0, <2>1, SumNat
    <2>6. SumFunction(g) \in Nat /\ SumFunction(h) \in Nat BY <1>0, <2>1, SumNat
    <2> QED BY <2>1, <2>2, <2>4, <2>5, <2>6 DEF Total
  <1>2. BookedEntries \in Nat /\ BookedEntries <= Total
    <2> DEFINE f == [a \in Attempts |-> EntryShares(a)]
    <2>1. f \in [Attempts -> Nat] /\ \A a \in Attempts : f[a] <= MaxSize BY TermTypes
    <2>2. BookedEntries = SumFunction(f) BY DEF BookedEntries
    <2> HIDE DEF f
    <2>3. f \in [Attempts -> Int] BY <2>1
    <2>4. SumFunction(f) <= MaxSize * Cardinality(Attempts) BY <1>0, <2>1, <2>3, SumBound
    <2>5. SumFunction(f) \in Nat BY <1>0, <2>1, SumNat
    <2> QED BY <2>2, <2>4, <2>5 DEF Total
  <1> QED BY <1>1, <1>2

\* What attempt b adds to the totals stays.
SameTerms(b) == /\ \A s \in Sides : /\ SaleLeft(b, s)' = SaleLeft(b, s)
                                    /\ EntryLeft(b, s)' = EntryLeft(b, s)
                                    /\ Bought(b, s)' = Bought(b, s)
                /\ EntryShares(b)' = EntryShares(b)

\* Totals of terms that stay, stay.
LEMMA TotalsStand ==
    ASSUME \A b \in Attempts : SameTerms(b)
    PROVE  /\ \A s \in Sides : /\ UnbookedSales(s)' = UnbookedSales(s)
                               /\ EntriesLeft(s)' = EntriesLeft(s)
                               /\ BoughtShares(s)' = BoughtShares(s)
           /\ BookedEntries' = BookedEntries
  <1>1. ASSUME NEW s \in Sides
        PROVE  /\ UnbookedSales(s)' = UnbookedSales(s) /\ EntriesLeft(s)' = EntriesLeft(s)
               /\ BoughtShares(s)' = BoughtShares(s)
    <2> DEFINE f == [b \in Attempts |-> SaleLeft(b, s)]
               F == [b \in Attempts |-> SaleLeft(b, s)']
               g == [b \in Attempts |-> EntryLeft(b, s)]
               G == [b \in Attempts |-> EntryLeft(b, s)']
               h == [b \in Attempts |-> Bought(b, s)]
               H == [b \in Attempts |-> Bought(b, s)']
    <2>1. f = F /\ g = G /\ h = H
      BY DEF SameTerms
    <2>2. /\ UnbookedSales(s) = SumFunction(f) /\ UnbookedSales(s)' = SumFunction(F)
          /\ EntriesLeft(s) = SumFunction(g) /\ EntriesLeft(s)' = SumFunction(G)
          /\ BoughtShares(s) = SumFunction(h) /\ BoughtShares(s)' = SumFunction(H)
      BY DEF UnbookedSales, EntriesLeft, BoughtShares, SaleLeft
    <2> HIDE DEF f, F, g, G, h, H
    <2> QED BY <2>1, <2>2
  <1>2. BookedEntries' = BookedEntries
    <2> DEFINE f == [b \in Attempts |-> EntryShares(b)]
               F == [b \in Attempts |-> EntryShares(b)']
    <2>1. f = F BY DEF SameTerms
    <2>2. BookedEntries = SumFunction(f) /\ BookedEntries' = SumFunction(F) BY DEF BookedEntries
    <2> HIDE DEF f, F
    <2> QED BY <2>1, <2>2
  <1> QED BY <1>1, <1>2

\* The terms are numbers, now and (by the lemmas that follow) after the step.
TermsOK == \A b \in Attempts :
             /\ \A s \in Sides : SaleLeft(b, s) \in Nat /\ EntryLeft(b, s) \in Nat /\ Bought(b, s) \in Nat
             /\ EntryShares(b) \in Nat

\* The terms are numbers in a state of the invariant.
LEMMA TermsNow == PInv /\ RowsInv => TermsOK
  BY TermTypes DEF TermsOK

\* And so they are after the step.
LEMMA TermsNext == PInv' /\ RowsInv' => TermsOK'
  BY TermsNow, PTL

\* When one attempt changes, each total moves by what that attempt adds to it.
LEMMA TotalsMove ==
    ASSUME PInv, RowsInv, PInv', RowsInv', NEW a \in Attempts,
           \A b \in Attempts \ {a} : SameTerms(b)
    PROVE  /\ \A s \in Sides : /\ UnbookedSales(s)' = UnbookedSales(s) + SaleLeft(a, s)' - SaleLeft(a, s)
                               /\ EntriesLeft(s)' = EntriesLeft(s) + EntryLeft(a, s)' - EntryLeft(a, s)
                               /\ BoughtShares(s)' = BoughtShares(s) + Bought(a, s)' - Bought(a, s)
           /\ BookedEntries' = BookedEntries + EntryShares(a)' - EntryShares(a)
  <1>0. IsFiniteSet(Attempts) BY AttemptsAssumption
  <1>1. \A b \in Attempts : /\ \A s \in Sides : /\ SaleLeft(b, s) \in Int /\ SaleLeft(b, s)' \in Int
                                                /\ EntryLeft(b, s) \in Int /\ EntryLeft(b, s)' \in Int
                                                /\ Bought(b, s) \in Int /\ Bought(b, s)' \in Int
                            /\ EntryShares(b) \in Int /\ EntryShares(b)' \in Int
    <2>1. TermsOK /\ TermsOK' BY TermsNow, TermsNext
    <2> QED BY <2>1 DEF TermsOK
  <1>2. ASSUME NEW s \in Sides
        PROVE  /\ UnbookedSales(s)' = UnbookedSales(s) + SaleLeft(a, s)' - SaleLeft(a, s)
               /\ EntriesLeft(s)' = EntriesLeft(s) + EntryLeft(a, s)' - EntryLeft(a, s)
               /\ BoughtShares(s)' = BoughtShares(s) + Bought(a, s)' - Bought(a, s)
    <2> DEFINE f == [b \in Attempts |-> SaleLeft(b, s)]
               F == [b \in Attempts |-> SaleLeft(b, s)']
               g == [b \in Attempts |-> EntryLeft(b, s)]
               G == [b \in Attempts |-> EntryLeft(b, s)']
               h == [b \in Attempts |-> Bought(b, s)]
               H == [b \in Attempts |-> Bought(b, s)']
    <2>1. /\ f \in [Attempts -> Int] /\ F \in [Attempts -> Int]
          /\ g \in [Attempts -> Int] /\ G \in [Attempts -> Int]
          /\ h \in [Attempts -> Int] /\ H \in [Attempts -> Int]
      BY <1>1
    <2>2. /\ \A b \in Attempts \ {a} : F[b] = f[b]
          /\ \A b \in Attempts \ {a} : G[b] = g[b]
          /\ \A b \in Attempts \ {a} : H[b] = h[b]
      BY DEF SameTerms
    <2>3. /\ f[a] = SaleLeft(a, s) /\ F[a] = SaleLeft(a, s)'
          /\ g[a] = EntryLeft(a, s) /\ G[a] = EntryLeft(a, s)'
          /\ h[a] = Bought(a, s) /\ H[a] = Bought(a, s)'
      OBVIOUS
    <2>4. /\ UnbookedSales(s) = SumFunction(f) /\ UnbookedSales(s)' = SumFunction(F)
          /\ EntriesLeft(s) = SumFunction(g) /\ EntriesLeft(s)' = SumFunction(G)
          /\ BoughtShares(s) = SumFunction(h) /\ BoughtShares(s)' = SumFunction(H)
      BY DEF UnbookedSales, EntriesLeft, BoughtShares, SaleLeft
    <2> HIDE DEF f, F, g, G, h, H
    <2>5. SumFunction(F) = SumFunction(f) + F[a] - f[a]
      <3>1. f \in [Attempts -> Int] /\ F \in [Attempts -> Int] BY <2>1
      <3>2. \A b \in Attempts \ {a} : F[b] = f[b] BY <2>2
      <3> QED BY <1>0, <3>1, <3>2, SumChange
    <2>6. SumFunction(G) = SumFunction(g) + G[a] - g[a]
      <3>1. g \in [Attempts -> Int] /\ G \in [Attempts -> Int] BY <2>1
      <3>2. \A b \in Attempts \ {a} : G[b] = g[b] BY <2>2
      <3> QED BY <1>0, <3>1, <3>2, SumChange
    <2>7. SumFunction(H) = SumFunction(h) + H[a] - h[a]
      <3>1. h \in [Attempts -> Int] /\ H \in [Attempts -> Int] BY <2>1
      <3>2. \A b \in Attempts \ {a} : H[b] = h[b] BY <2>2
      <3> QED BY <1>0, <3>1, <3>2, SumChange
    <2> QED BY <2>3, <2>4, <2>5, <2>6, <2>7
  <1>3. BookedEntries' = BookedEntries + EntryShares(a)' - EntryShares(a)
    <2> DEFINE f == [b \in Attempts |-> EntryShares(b)]
               F == [b \in Attempts |-> EntryShares(b)']
    <2>1. f \in [Attempts -> Int] /\ F \in [Attempts -> Int] BY <1>1
    <2>2. \A b \in Attempts \ {a} : F[b] = f[b] BY DEF SameTerms
    <2>3. f[a] = EntryShares(a) /\ F[a] = EntryShares(a)' OBVIOUS
    <2>4. BookedEntries = SumFunction(f) /\ BookedEntries' = SumFunction(F) BY DEF BookedEntries
    <2> HIDE DEF f, F
    <2>5. SumFunction(F) = SumFunction(f) + F[a] - f[a] BY <1>0, <2>1, <2>2, SumChange
    <2> QED BY <2>3, <2>4, <2>5
  <1> QED BY <1>2, <1>3

\* No total moves.
TotalsStill ==
    /\ \A s \in Sides : /\ UnbookedSales(s)' = UnbookedSales(s) /\ EntriesLeft(s)' = EntriesLeft(s)
                        /\ BoughtShares(s)' = BoughtShares(s)
    /\ BookedEntries' = BookedEntries

\* A row and a match that stay add to the totals what they added.
LEMMA SameRowTerms ==
    ASSUME NEW b \in Attempts, SameRow(b), matched'[b] = matched[b]
    PROVE  SameTerms(b)
  <1>1. CASE attempt[b] = None
    BY <1>1 DEF SameRow, SameTerms, SaleLeft, EntryLeft, Bought, EntryShares, IsBuy, Sales
  <1>2. CASE attempt[b] # None
    <2>1. /\ attempt'[b] # None
          /\ attempt'[b].dir = attempt[b].dir /\ attempt'[b].side = attempt[b].side
          /\ attempt'[b].booked = attempt[b].booked
      BY <1>2 DEF SameRow
    <2>2. \A s \in Sides : (b \in Sales(s))' <=> b \in Sales(s) BY <1>2, <2>1 DEF Sales
    <2>3. \A s \in Sides : IsBuy(b, s)' <=> IsBuy(b, s) BY <1>2, <2>1 DEF IsBuy
    <2> QED BY <1>2, <2>1, <2>2, <2>3 DEF SameTerms, SaleLeft, EntryLeft, Bought, EntryShares
  <1> QED BY <1>1, <1>2

\* An attempt with nothing booked of nothing matched adds nothing.
LEMMA NoTerms ==
    ASSUME NEW b \in Attempts, matched[b] \in Int, ~(matched[b] > 0), attempt[b] # None => attempt[b].booked = 0
    PROVE  /\ \A s \in Sides : SaleLeft(b, s) = 0 /\ EntryLeft(b, s) = 0 /\ Bought(b, s) = 0
           /\ EntryShares(b) = 0
  BY DEF SaleLeft, EntryLeft, Bought, EntryShares, IsBuy, Sales

\* New rows, the index, the resolution, the settlement and the idle steps move no total.
LEMMA StillSteps ==
    ASSUME PInv, RowsInv, PInv',
           \/ Quiet
           \/ \E a \in Attempts : \E side \in Sides, size \in 1 .. MaxSize : Enter(a, side, size)
           \/ \E a \in Attempts : Exit(a) \/ Index(a)
           \/ Resolve \/ Consume
    PROVE  TotalsStill
  <1>0. ASSUME \A b \in Attempts : SameTerms(b) PROVE TotalsStill BY <1>0, TotalsStand DEF TotalsStill
  <1>1. CASE Quiet
    BY <1>0, <1>1, SameRowTerms DEF Quiet
  <1>2. ASSUME NEW a \in Attempts, NEW r \in RowSet, MayTrade(a), r.booked = 0,
               attempt' = [attempt EXCEPT ![a] = r], matched' = matched
        PROVE  TotalsStill
    <2>1. attempt'[a] = r /\ r # None /\ \A b \in Attempts : b # a => attempt'[b] = attempt[b]
      BY <1>2, NoneAssumption DEF PInv, AttemptsOK
    <2>2. attempt[a] = None /\ matched[a] = -1 BY <1>2 DEF MayTrade, RowsInv, RowOK
    <2>3. /\ \A s \in Sides : SaleLeft(a, s) = 0 /\ EntryLeft(a, s) = 0 /\ Bought(a, s) = 0
          /\ EntryShares(a) = 0
      BY <2>2 DEF SaleLeft, EntryLeft, Bought, EntryShares, IsBuy, Sales
    <2>4. /\ \A s \in Sides : SaleLeft(a, s)' = 0 /\ EntryLeft(a, s)' = 0 /\ Bought(a, s)' = 0
          /\ EntryShares(a)' = 0
      BY <1>2, <2>1, <2>2 DEF SaleLeft, EntryLeft, Bought, EntryShares, IsBuy, Sales
    <2>5. SameTerms(a) BY <2>3, <2>4 DEF SameTerms
    <2>6. ASSUME NEW b \in Attempts, b # a PROVE SameTerms(b)
      BY <1>2, <2>1, <2>6, SameRowTerms DEF SameRow
    <2> QED BY <1>0, <2>5, <2>6
  <1>3. ASSUME NEW a \in Attempts, NEW side \in Sides, NEW size \in 1 .. MaxSize, Enter(a, side, size)
        PROVE  TotalsStill
    <2>1. PICK r : r = NewRow("ENTRY", side, size) OBVIOUS
    <2>2. attempt' = [attempt EXCEPT ![a] = r] /\ r \in RowSet /\ r.booked = 0
      BY <1>3, <2>1, NewRows
    <2>3. MayTrade(a) /\ matched' = matched BY <1>3 DEF Enter
    <2> QED BY <1>2, <2>2, <2>3
  <1>4. ASSUME NEW a \in Attempts, Exit(a) PROVE TotalsStill
    <2>1. PICK r : r = NewRow("EXIT", bet.side, (Remainder(bet) \div Tick) * Tick) OBVIOUS
    <2>2. attempt' = [attempt EXCEPT ![a] = r] /\ r \in RowSet /\ r.booked = 0
      BY <1>4, <2>1, NewRows
    <2>3. MayTrade(a) /\ matched' = matched BY <1>4 DEF Exit
    <2> QED BY <1>2, <2>2, <2>3
  <1>5. ASSUME (\E a \in Attempts : Index(a)) \/ Consume PROVE TotalsStill
    <2>1. attempt' = attempt /\ matched' = matched BY <1>5 DEF Index, Consume
    <2>2. \A b \in Attempts : SameRow(b) BY <2>1 DEF SameRow
    <2> QED BY <1>0, <2>1, <2>2, SameRowTerms
  <1>6. ASSUME Resolve PROVE TotalsStill
    <2>1. attempt' = attempt
          /\ \A b \in Attempts : matched'[b] = IF matched[b] = -1 /\ attempt[b] # None THEN 0 ELSE matched[b]
      BY <1>6 DEF Resolve
    <2>2. ASSUME NEW b \in Attempts PROVE SameTerms(b)
      <3>1. CASE matched'[b] = matched[b]
        BY <2>1, <3>1, SameRowTerms DEF SameRow
      <3>2. CASE matched'[b] # matched[b]
        <4>1. matched[b] = -1 /\ matched'[b] = 0 BY <2>1, <3>2
        <4>2. attempt'[b] = attempt[b] BY <2>1
        <4> QED BY <4>1, <4>2 DEF SameTerms, SaleLeft, EntryLeft, Bought, EntryShares, IsBuy, Sales
      <3> QED BY <3>1, <3>2
    <2> QED BY <1>0, <2>2
  <1> QED BY <1>1, <1>3, <1>4, <1>5, <1>6

\* A match moves the wallet and the totals of its side by the same shares.
LEMMA MatchTotals ==
    ASSUME PInv, RowsInv, PInv', RowsInv', NEW a \in Attempts, Match(a)
    PROVE  /\ attempt[a].side \in Sides /\ attempt[a].dir \in {"ENTRY", "EXIT"}
           /\ \E n \in Nat :
                /\ attempt[a].dir = "EXIT" => n <= wallet[attempt[a].side]
                /\ wallet' = [wallet EXCEPT ![attempt[a].side] =
                                IF attempt[a].dir = "ENTRY" THEN @ + n ELSE @ - n]
                /\ BookedEntries' = BookedEntries
                /\ \A s \in Sides :
                     IF s = attempt[a].side
                     THEN /\ BoughtShares(s)' = BoughtShares(s) + (IF attempt[a].dir = "ENTRY" THEN n ELSE 0)
                          /\ EntriesLeft(s)' = EntriesLeft(s) + (IF attempt[a].dir = "ENTRY" THEN n ELSE 0)
                          /\ UnbookedSales(s)' = UnbookedSales(s) + (IF attempt[a].dir = "EXIT" THEN n ELSE 0)
                     ELSE /\ BoughtShares(s)' = BoughtShares(s) /\ EntriesLeft(s)' = EntriesLeft(s)
                          /\ UnbookedSales(s)' = UnbookedSales(s)
  <1>1. PICK n \in 0 .. attempt[a].size :
          /\ attempt[a].dir = "EXIT" => n <= wallet[attempt[a].side]
          /\ matched' = [matched EXCEPT ![a] = n]
          /\ wallet' = [wallet EXCEPT ![attempt[a].side] =
                          IF attempt[a].dir = "ENTRY" THEN @ + n ELSE @ - n]
    BY DEF Match
  <1>2. attempt[a] # None /\ matched[a] = -1 /\ UNCHANGED <<bet, attempt, indexed>>
    BY DEF Match
  <1>3. /\ n \in Nat /\ attempt[a].size \in Int /\ attempt[a].booked \in Nat
        /\ attempt[a].side \in Sides /\ attempt[a].dir \in {"ENTRY", "EXIT"}
        /\ matched'[a] = n /\ \A b \in Attempts : b # a => matched'[b] = matched[b]
    BY <1>1, <1>2, RowShape DEF PInv, AttemptsOK
  <1>4. attempt[a].booked = 0
    <2>1. RowOK(a) /\ indexed[a] \in Nat BY RowShape DEF RowsInv
    <2> QED BY <1>2, <1>3, <2>1 DEF RowOK
  <1>5. \A b \in Attempts \ {a} : SameTerms(b)
    BY <1>2, <1>3, SameRowTerms DEF SameRow
  <1>6. /\ \A s \in Sides : SaleLeft(a, s) = 0 /\ EntryLeft(a, s) = 0 /\ Bought(a, s) = 0
        /\ EntryShares(a) = 0
    BY <1>2, <1>4, NoTerms
  <1>7. /\ EntryShares(a)' = 0
        /\ \A s \in Sides :
             /\ SaleLeft(a, s)' = IF s = attempt[a].side /\ attempt[a].dir = "EXIT" THEN n ELSE 0
             /\ EntryLeft(a, s)' = IF s = attempt[a].side /\ attempt[a].dir = "ENTRY" THEN n ELSE 0
             /\ Bought(a, s)' = IF s = attempt[a].side /\ attempt[a].dir = "ENTRY" THEN n ELSE 0
    <2>1. attempt'[a] = attempt[a] BY <1>2
    <2>2. \A s \in Sides : (a \in Sales(s))' <=> (attempt[a].dir = "EXIT" /\ attempt[a].side = s /\ n > 0)
      BY <1>2, <1>3, <2>1 DEF Sales
    <2>3. \A s \in Sides : IsBuy(a, s)' <=> (attempt[a].dir = "ENTRY" /\ attempt[a].side = s /\ n > 0)
      BY <1>2, <1>3, <2>1 DEF IsBuy
    <2> QED BY <1>3, <1>4, <2>1, <2>2, <2>3 DEF SaleLeft, EntryLeft, Bought, EntryShares
  <1>8. /\ \A s \in Sides : /\ UnbookedSales(s)' = UnbookedSales(s) + SaleLeft(a, s)' - SaleLeft(a, s)
                            /\ EntriesLeft(s)' = EntriesLeft(s) + EntryLeft(a, s)' - EntryLeft(a, s)
                            /\ BoughtShares(s)' = BoughtShares(s) + Bought(a, s)' - Bought(a, s)
        /\ BookedEntries' = BookedEntries + EntryShares(a)' - EntryShares(a)
    BY <1>5, TotalsMove
  <1>9. /\ \A s \in Sides : UnbookedSales(s) \in Nat /\ EntriesLeft(s) \in Nat /\ BoughtShares(s) \in Nat
        /\ BookedEntries \in Nat
    BY TotalTypes
  <1>10. BookedEntries' = BookedEntries BY <1>6, <1>7, <1>8, <1>9
  <1>11. ASSUME NEW s \in Sides
         PROVE  IF s = attempt[a].side
                THEN /\ BoughtShares(s)' = BoughtShares(s) + (IF attempt[a].dir = "ENTRY" THEN n ELSE 0)
                     /\ EntriesLeft(s)' = EntriesLeft(s) + (IF attempt[a].dir = "ENTRY" THEN n ELSE 0)
                     /\ UnbookedSales(s)' = UnbookedSales(s) + (IF attempt[a].dir = "EXIT" THEN n ELSE 0)
                ELSE /\ BoughtShares(s)' = BoughtShares(s) /\ EntriesLeft(s)' = EntriesLeft(s)
                     /\ UnbookedSales(s)' = UnbookedSales(s)
    <2>1. /\ UnbookedSales(s)' = UnbookedSales(s) + SaleLeft(a, s)'
          /\ EntriesLeft(s)' = EntriesLeft(s) + EntryLeft(a, s)'
          /\ BoughtShares(s)' = BoughtShares(s) + Bought(a, s)'
      <3>1. SaleLeft(a, s)' \in Int /\ EntryLeft(a, s)' \in Int /\ Bought(a, s)' \in Int
        BY <1>3, <1>7
      <3> QED BY <1>6, <1>8, <1>9, <3>1
    <2> QED BY <1>3, <1>7, <1>9, <2>1
  <1> QED BY <1>1, <1>3, <1>10, <1>11

\* A booking takes what it books out of the totals of what is left to book.
LEMMA BookTotals ==
    ASSUME PInv, RowsInv, PInv', RowsInv', NEW p \in Workers, Book(p), NEW a \in Attempts, a = pass[p].a,
           NEW d, d = attempt'[a].booked - attempt[a].booked
    PROVE  /\ d \in Nat
           /\ BookedEntries' = BookedEntries + (IF attempt[a].dir = "ENTRY" THEN d ELSE 0)
           /\ \A s \in Sides :
                /\ BoughtShares(s)' = BoughtShares(s)
                /\ EntriesLeft(s)' =
                     EntriesLeft(s) - (IF attempt[a].dir = "ENTRY" /\ attempt[a].side = s THEN d ELSE 0)
                /\ UnbookedSales(s)' =
                     UnbookedSales(s) - (IF attempt[a].dir = "EXIT" /\ attempt[a].side = s THEN d ELSE 0)
  <1>1. /\ Kept(a) /\ Outcome(a, pass[p].row, pass[p].total)
        /\ matched[a] >= 0 /\ pass[p].total \in Nat
    BY BookOutcome
  <1>2. attempt[a] # None /\ pass[p].total <= indexed[a] /\ RowOK(a) /\ matched' = matched
    BY DEF Book, RowsInv, PassOK
  <1>3. /\ attempt'[a] \in RowSet /\ attempt'[a] # None /\ attempt'[a].dir = attempt[a].dir
        /\ attempt'[a].side = attempt[a].side /\ \A b \in Attempts : b # a => attempt'[b] = attempt[b]
    BY <1>1 DEF Kept
  <1>4. /\ matched[a] \in Int /\ indexed[a] \in Nat /\ attempt[a].booked \in Nat
        /\ attempt[a].dir \in {"ENTRY", "EXIT"} /\ attempt[a].side \in Sides
        /\ attempt'[a].booked \in Nat
    BY <1>2, <1>3, RowShape DEF RowSet
  <1>5. attempt'[a].booked >= attempt[a].booked
    <2>1. CASE Unbooked(a, pass[p].total) BY <1>4, <2>1 DEF Unbooked
    <2>2. CASE ~Unbooked(a, pass[p].total)
      <3>1. PICK lot : BookedAs(a, pass[p].total, lot)
        BY <1>1, <2>2 DEF Outcome, Aside, Merged, Opened, Sold
      <3> QED BY <1>1, <1>4, <3>1 DEF BookedAs
    <2> QED BY <2>1, <2>2
  <1>6. d \in Nat BY <1>4, <1>5
  <1>7. matched[a] = 0 => attempt'[a].booked = 0 /\ attempt[a].booked = 0
    <2>1. RowOK(a)' /\ indexed'[a] = indexed[a] BY DEF RowsInv, Book
    <2>2. attempt'[a].booked <= indexed[a] /\ (indexed[a] = 0 \/ indexed[a] <= matched[a])
      BY <1>2, <1>3, <2>1 DEF RowOK
    <2>3. attempt[a].booked <= indexed[a] BY <1>2 DEF RowOK
    <2> QED BY <1>4, <2>2, <2>3
  <1>8. \A b \in Attempts \ {a} : SameTerms(b)
    BY <1>2, <1>3, SameRowTerms DEF SameRow
  <1>9. /\ \A s \in Sides : /\ UnbookedSales(s)' = UnbookedSales(s) + SaleLeft(a, s)' - SaleLeft(a, s)
                            /\ EntriesLeft(s)' = EntriesLeft(s) + EntryLeft(a, s)' - EntryLeft(a, s)
                            /\ BoughtShares(s)' = BoughtShares(s) + Bought(a, s)' - Bought(a, s)
        /\ BookedEntries' = BookedEntries + EntryShares(a)' - EntryShares(a)
    BY <1>8, TotalsMove
  <1>10. /\ \A s \in Sides : UnbookedSales(s) \in Nat /\ EntriesLeft(s) \in Nat /\ BoughtShares(s) \in Nat
         /\ BookedEntries \in Nat
    BY TotalTypes
  <1>11. EntryShares(a)' = EntryShares(a) + (IF attempt[a].dir = "ENTRY" THEN d ELSE 0)
         /\ EntryShares(a) \in Nat
    BY <1>2, <1>3, <1>4, <1>6 DEF EntryShares
  <1>12. BookedEntries' = BookedEntries + (IF attempt[a].dir = "ENTRY" THEN d ELSE 0)
    BY <1>6, <1>9, <1>10, <1>11
  <1>13. ASSUME NEW s \in Sides
         PROVE  /\ BoughtShares(s)' = BoughtShares(s)
                /\ EntriesLeft(s)' =
                     EntriesLeft(s) - (IF attempt[a].dir = "ENTRY" /\ attempt[a].side = s THEN d ELSE 0)
                /\ UnbookedSales(s)' =
                     UnbookedSales(s) - (IF attempt[a].dir = "EXIT" /\ attempt[a].side = s THEN d ELSE 0)
    <2>1. (a \in Sales(s))' <=> a \in Sales(s) BY <1>2, <1>3 DEF Sales
    <2>2. IsBuy(a, s)' <=> IsBuy(a, s) BY <1>2, <1>3 DEF IsBuy
    <2>3. Bought(a, s)' = Bought(a, s) /\ Bought(a, s) \in Int BY <1>2, <1>4, <2>2 DEF Bought
    <2>4. /\ EntryLeft(a, s)' = EntryLeft(a, s) - (IF attempt[a].dir = "ENTRY" /\ attempt[a].side = s THEN d ELSE 0)
          /\ EntryLeft(a, s) \in Int
      <3>1. CASE IsBuy(a, s) BY <1>2, <1>3, <1>4, <2>2, <3>1 DEF EntryLeft, IsBuy
      <3>2. CASE ~IsBuy(a, s)
        <4>1. EntryLeft(a, s) = 0 /\ EntryLeft(a, s)' = 0 BY <2>2, <3>2 DEF EntryLeft
        <4>2. attempt[a].dir = "ENTRY" /\ attempt[a].side = s => d = 0
          BY <1>1, <1>2, <1>4, <1>7, <3>2 DEF IsBuy
        <4> QED BY <1>6, <4>1, <4>2
      <3> QED BY <3>1, <3>2
    <2>5. /\ SaleLeft(a, s)' = SaleLeft(a, s) - (IF attempt[a].dir = "EXIT" /\ attempt[a].side = s THEN d ELSE 0)
          /\ SaleLeft(a, s) \in Int
      <3>1. CASE a \in Sales(s) BY <1>2, <1>3, <1>4, <2>1, <3>1 DEF SaleLeft, Sales
      <3>2. CASE a \notin Sales(s)
        <4>1. SaleLeft(a, s) = 0 /\ SaleLeft(a, s)' = 0 BY <2>1, <3>2 DEF SaleLeft
        <4>2. attempt[a].dir = "EXIT" /\ attempt[a].side = s => d = 0
          BY <1>1, <1>2, <1>4, <1>7, <3>2 DEF Sales
        <4> QED BY <1>6, <4>1, <4>2
      <3> QED BY <3>1, <3>2
    <2>6. BoughtShares(s)' = BoughtShares(s) BY <1>9, <1>10, <2>3
    <2>7. EntriesLeft(s)' =
                     EntriesLeft(s) - (IF attempt[a].dir = "ENTRY" /\ attempt[a].side = s THEN d ELSE 0)
      BY <1>6, <1>9, <1>10, <2>4
    <2>8. UnbookedSales(s)' =
                     UnbookedSales(s) - (IF attempt[a].dir = "EXIT" /\ attempt[a].side = s THEN d ELSE 0)
      BY <1>6, <1>9, <1>10, <2>5
    <2> QED BY <2>6, <2>7, <2>8
  <1> QED BY <1>6, <1>12, <1>13

-----------------------------------------------------------------------------
(* The bounds of the holdings, the lots and the payments.                   *)

\* Tokens are held, or were burned, only of shares that were bought.
HoldingsOK == /\ wallet \in [Sides -> Nat] /\ burned \in [Sides -> Nat]
              /\ \A s \in Sides : wallet[s] + burned[s] <= BoughtShares(s)

\* The shares of the position were booked by entries, and each lot took one share at least.
FillsOK == bet # None => bet.filled <= BookedEntries /\ bet.seq + 1 <= BookedEntries

\* Nothing is paid but a settled position, and no more than it was filled with.
PaidOK == /\ paid \in Nat
          /\ paid = 0 \/ (bet # None /\ bet.settled /\ market # "OPEN" /\ paid <= bet.filled)

\* The market has one of its states, and is settled only once it is resolved.
MarketOK == /\ market \in {"OPEN", "YES", "NO", "CANCELED"}
            /\ settle.at # "idle" => market # "OPEN"

\* Nobody signs for more than all the attempts together could buy.
SizesOK == \A a \in Attempts : attempt[a] # None => attempt[a].size <= Total

\* The bounds that the types of the finite instance ask for.
BoundsInv == HoldingsOK /\ FillsOK /\ PaidOK /\ MarketOK /\ SizesOK

\* The inductive invariant of the ledger, for any lag of the index.
AllInv == PInv /\ RowsInv /\ BoundsInv

\* The bounds hold when nothing has been signed.
LEMMA BoundsInit == Init => BoundsInv
  <1> SUFFICES ASSUME Init PROVE BoundsInv
    OBVIOUS
  <1>1. PInv /\ RowsInv BY InitInv, RowsInit
  <1>2. HoldingsOK
    <2>1. \A s \in Sides : BoughtShares(s) \in Nat BY <1>1, TotalTypes
    <2> QED BY <2>1 DEF Init, HoldingsOK
  <1>3. SizesOK BY DEF Init, SizesOK
  <1> QED BY <1>2, <1>3 DEF Init, BoundsInv, FillsOK, PaidOK, MarketOK, Idle

\* The market is resolved once.
LEMMA MarketMoves ==
    ASSUME MarketOK, [Next]_vars
    PROVE  MarketOK' /\ (market # "OPEN" => market' = market)
  <1> USE DEF MarketOK
  <1>1. ASSUME NEW a \in Attempts,
               \/ \E side \in Sides, size \in 1 .. MaxSize : Enter(a, side, size)
               \/ Exit(a) \/ Match(a) \/ Index(a)
               \/ \E p \in Workers : Read(p, a)
        PROVE  MarketOK' /\ market' = market
    BY <1>1 DEF Enter, Exit, Match, Index, Read
  <1>2. ASSUME NEW p \in Workers, Probe(p) \/ Book(p) \/ TrueUp(p) \/ PassDies(p)
        PROVE  MarketOK' /\ market' = market
    BY <1>2 DEF Probe, Book, TrueUp, PassDies
  <1>3. ASSUME (\E side \in Sides : Redeem(side)) \/ UNCHANGED vars PROVE MarketOK' /\ market' = market
    BY <1>3 DEF Redeem, vars
  <1>4. ASSUME Resolve PROVE MarketOK' /\ market = "OPEN"
    BY <1>4, SidesAssumption DEF Resolve
  <1>5. ASSUME Scan \/ Plan \/ Consume \/ SettleDies PROVE MarketOK' /\ market' = market
    BY <1>5 DEF Scan, Plan, Consume, SettleDies, Idle
  <1> QED BY <1>1, <1>2, <1>3, <1>4, <1>5 DEF Next

\* The totals bound the holdings: tokens come from bought shares.
LEMMA HoldingsMove ==
    ASSUME PInv, RowsInv, PInv', RowsInv', HoldingsOK, [Next]_vars
    PROVE  HoldingsOK'
  <1>0. \A s \in Sides : /\ wallet[s] \in Nat /\ burned[s] \in Nat /\ BoughtShares(s) \in Nat
                         /\ wallet[s] + burned[s] <= BoughtShares(s)
    BY TotalTypes DEF HoldingsOK
  <1>1. ASSUME TotalsStill, UNCHANGED <<wallet, burned>> PROVE HoldingsOK'
    BY <1>1 DEF HoldingsOK, TotalsStill
  <1>2. ASSUME NEW a \in Attempts, Match(a) PROVE HoldingsOK'
    <2> DEFINE s == attempt[a].side
               buy == attempt[a].dir = "ENTRY"
    <2>1. PICK n \in Nat :
                /\ ~buy => n <= wallet[s]
                /\ wallet' = [wallet EXCEPT ![s] = IF buy THEN @ + n ELSE @ - n]
                /\ \A t \in Sides : BoughtShares(t)' = IF t = s /\ buy THEN BoughtShares(t) + n ELSE BoughtShares(t)
                /\ s \in Sides
      <3>1. PICK n \in Nat :
                /\ attempt[a].dir = "EXIT" => n <= wallet[attempt[a].side]
                /\ wallet' = [wallet EXCEPT ![attempt[a].side] =
                                IF attempt[a].dir = "ENTRY" THEN @ + n ELSE @ - n]
                /\ \A t \in Sides :
                     IF t = attempt[a].side
                     THEN BoughtShares(t)' = BoughtShares(t) + (IF attempt[a].dir = "ENTRY" THEN n ELSE 0)
                     ELSE BoughtShares(t)' = BoughtShares(t)
        BY <1>2, MatchTotals
      <3>2. attempt[a].side \in Sides /\ attempt[a].dir \in {"ENTRY", "EXIT"} BY <1>2, MatchTotals
      <3>3. \A t \in Sides : BoughtShares(t)' = IF t = s /\ buy THEN BoughtShares(t) + n ELSE BoughtShares(t)
        BY <1>0, <3>1
      <3> QED BY <3>1, <3>2, <3>3
    <2>2. burned' = burned BY <1>2 DEF Match
    <2> HIDE DEF s, buy
    <2>3. ASSUME NEW t \in Sides
          PROVE  wallet'[t] \in Nat /\ wallet'[t] + burned[t] <= BoughtShares(t)'
      <3>1. CASE t # s BY <1>0, <2>1, <3>1 DEF HoldingsOK
      <3>2. CASE t = s
        <4>1. wallet'[t] = IF buy THEN wallet[t] + n ELSE wallet[t] - n BY <2>1, <3>2 DEF HoldingsOK
        <4>2. BoughtShares(t)' = IF buy THEN BoughtShares(t) + n ELSE BoughtShares(t) BY <2>1, <3>2
        <4>3. ~buy => n <= wallet[t] BY <2>1, <3>2
        <4> QED BY <1>0, <2>1, <4>1, <4>2, <4>3
      <3> QED BY <3>1, <3>2
    <2>4. wallet' \in [Sides -> Nat]
      <3>1. wallet' = [t \in Sides |-> wallet'[t]] BY <2>1 DEF HoldingsOK
      <3> QED BY <2>3, <3>1
    <2> QED BY <2>2, <2>3, <2>4 DEF HoldingsOK
  <1>3. ASSUME NEW p \in Workers, Book(p) PROVE HoldingsOK'
    <2>0. pass[p].at = "book" BY <1>3 DEF Book
    <2> PICK a \in Attempts : a = pass[p].a BY <2>0, PassCarries DEF PInv
    <2>1. \A s \in Sides : BoughtShares(s)' = BoughtShares(s) BY <1>3, BookTotals
    <2> QED BY <1>3, <2>1 DEF Book, HoldingsOK
  <1>4. ASSUME NEW side \in Sides, Redeem(side) PROVE HoldingsOK'
    <2>1. /\ burned' = [burned EXCEPT ![side] = @ + wallet[side]]
          /\ wallet' = [wallet EXCEPT ![side] = 0]
      BY <1>4 DEF Redeem
    <2>2. Quiet BY <1>4, QuietSteps
    <2>3. TotalsStill BY <2>2, StillSteps
    <2>4. ASSUME NEW t \in Sides
          PROVE  wallet'[t] \in Nat /\ burned'[t] \in Nat /\ wallet'[t] + burned'[t] = wallet[t] + burned[t]
      BY <1>0, <2>1 DEF HoldingsOK
    <2>5. wallet' \in [Sides -> Nat] /\ burned' \in [Sides -> Nat]
      <3>1. wallet' = [t \in Sides |-> wallet'[t]] /\ burned' = [t \in Sides |-> burned'[t]]
        BY <2>1 DEF HoldingsOK
      <3> QED BY <2>4, <3>1
    <2> QED BY <1>0, <2>3, <2>4, <2>5 DEF HoldingsOK, TotalsStill
  <1>5. ASSUME NEW p \in Workers, \/ \E a \in Attempts : Read(p, a)
                                  \/ Probe(p) \/ TrueUp(p) \/ PassDies(p)
        PROVE  HoldingsOK'
    <2>1. UNCHANGED <<wallet, burned>> BY <1>5 DEF Read, Probe, TrueUp, PassDies
    <2>2. Quiet BY <1>5, QuietSteps
    <2> QED BY <1>1, <2>1, <2>2, StillSteps
  <1>6. ASSUME Scan \/ Plan \/ SettleDies \/ UNCHANGED vars PROVE HoldingsOK'
    <2>1. UNCHANGED <<wallet, burned>> BY <1>6 DEF Scan, Plan, SettleDies, vars
    <2>2. Quiet BY <1>6, QuietSteps
    <2> QED BY <1>1, <2>1, <2>2, StillSteps
  <1>7. ASSUME NEW a \in Attempts,
               \/ \E side \in Sides, size \in 1 .. MaxSize : Enter(a, side, size)
               \/ Exit(a) \/ Index(a)
        PROVE  HoldingsOK'
    <2>1. UNCHANGED <<wallet, burned>> BY <1>7 DEF Enter, Exit, Index
    <2> QED BY <1>1, <1>7, <2>1, StillSteps
  <1>8. ASSUME Resolve \/ Consume PROVE HoldingsOK'
    <2>1. UNCHANGED <<wallet, burned>> BY <1>8 DEF Resolve, Consume
    <2> QED BY <1>1, <1>8, <2>1, StillSteps
  <1> QED BY <1>2, <1>3, <1>4, <1>5, <1>6, <1>7, <1>8 DEF Next

\* The shares and the lots of the position come from booked entries.
LEMMA FillsMove ==
    ASSUME PInv, RowsInv, PInv', RowsInv', FillsOK, [Next]_vars
    PROVE  FillsOK'
  <1>0. BookedEntries \in Nat BY TotalTypes
  <1>1. CASE TotalsStill /\ bet' = bet BY <1>1 DEF FillsOK, TotalsStill
  <1>2. CASE Quiet
    <2>1. TotalsStill BY <1>2, StillSteps
    <2> QED BY <1>1, <1>2, <2>1 DEF Quiet
  <1>3. ASSUME NEW a \in Attempts,
               \/ \E side \in Sides, size \in 1 .. MaxSize : Enter(a, side, size)
               \/ Exit(a) \/ Index(a)
        PROVE  FillsOK'
    <2>1. bet' = bet BY <1>3 DEF Enter, Exit, Index
    <2> QED BY <1>1, <1>3, <2>1, StillSteps
  <1>4. ASSUME NEW a \in Attempts, Match(a) PROVE FillsOK'
    <2>1. bet' = bet BY <1>4 DEF Match
    <2>2. BookedEntries' = BookedEntries BY <1>4, MatchTotals
    <2> QED BY <2>1, <2>2 DEF FillsOK
  <1>5. CASE Resolve
    <2>1. bet' = bet BY <1>5 DEF Resolve
    <2> QED BY <1>1, <1>5, <2>1, StillSteps
  <1>6. CASE Consume
    <2>0. TotalsStill BY <1>6, StillSteps
    <2>1. CASE bet' = bet BY <1>1, <2>0, <2>1
    <2>2. CASE bet' # bet
      <3>1. bet' = [bet EXCEPT !.closed = bet.filled, !.settled = TRUE] /\ bet # None
        BY <1>6, <2>2 DEF Consume, Remainder
      <3>2. bet \in BetSet BY <3>1, BetShape
      <3>3. bet'.filled = bet.filled /\ bet'.seq = bet.seq BY <3>1, <3>2 DEF BetSet
      <3> QED BY <2>0, <3>1, <3>3 DEF FillsOK, TotalsStill
    <2> QED BY <2>1, <2>2
  <1>7. ASSUME NEW p \in Workers, Book(p) PROVE FillsOK'
    <2>0. pass[p].at = "book" BY <1>7 DEF Book
    <2> PICK a \in Attempts : a = pass[p].a BY <2>0, PassCarries DEF PInv
    <2> DEFINE n == pass[p].total
               row == pass[p].row
               e == attempt'[a].booked - attempt[a].booked
    <2>1. Outcome(a, row, n) /\ n \in Nat /\ attempt[a] # None /\ Kept(a)
      BY <1>7, <2>0, BookOutcome DEF RowsInv, PassOK
    <2>1a. attempt[a].booked \in Nat /\ attempt[a].dir \in {"ENTRY", "EXIT"} BY <2>1, RowShape
    <2>2. e \in Nat /\ BookedEntries' = BookedEntries + (IF attempt[a].dir = "ENTRY" THEN e ELSE 0)
      BY <1>7, BookTotals
    <2> HIDE DEF n, row
    <2>3. CASE Unbooked(a, n) \/ Aside(a, row, n)
      <3>1. bet' = bet BY <2>3 DEF Unbooked, Aside
      <3>2. BookedEntries' >= BookedEntries BY <1>0, <2>2
      <3>3. bet # None => bet.filled \in Nat /\ bet.seq \in Nat BY BetShape
      <3>4. BookedEntries' \in Nat BY <1>0, <2>2
      <3> QED BY <1>0, <3>1, <3>2, <3>3, <3>4 DEF FillsOK
    <2>4. CASE Merged(a, row, n)
      <3>1. /\ bet # None /\ bet'.filled = bet.filled + (n - attempt[a].booked) /\ bet'.seq = bet.seq
            /\ attempt[a].dir = "ENTRY" /\ attempt'[a].booked = n /\ n > attempt[a].booked
        BY <2>1, <2>4, BetMoved DEF Merged, BookedAs
      <3>2. bet.filled \in Nat /\ bet.seq \in Nat BY <3>1, BetShape
      <3>3. BookedEntries' = BookedEntries + (n - attempt[a].booked) BY <2>2, <3>1
      <3> QED BY <1>0, <2>1, <2>1a, <3>1, <3>2, <3>3 DEF FillsOK
    <2>5. CASE Opened(a, row, n)
      <3>1. /\ bet'.filled = n - attempt[a].booked /\ bet'.seq = IF bet = None THEN 0 ELSE bet.seq + 1
            /\ attempt[a].dir = "ENTRY" /\ attempt'[a].booked = n /\ n > attempt[a].booked
        BY <2>1, <2>5, BetMoved DEF Opened, BookedAs
      <3>2. bet # None => bet.seq \in Nat BY BetShape
      <3>3. BookedEntries' = BookedEntries + (n - attempt[a].booked) BY <2>2, <3>1
      <3>4. CASE bet = None BY <1>0, <2>1, <2>1a, <3>1, <3>3, <3>4 DEF FillsOK
      <3>5. CASE bet # None BY <1>0, <2>1, <2>1a, <3>1, <3>2, <3>3, <3>5 DEF FillsOK
      <3> QED BY <3>4, <3>5
    <2>6. CASE Sold(a, row, n)
      <3>1. bet # None /\ bet'.filled = bet.filled /\ bet'.seq = bet.seq /\ attempt[a].dir = "EXIT"
        BY <2>1, <2>6, BetMoved DEF Sold
      <3> QED BY <1>0, <2>2, <3>1 DEF FillsOK
    <2> QED BY <2>1, <2>3, <2>4, <2>5, <2>6 DEF Outcome
  <1> QED BY <1>2, <1>3, <1>4, <1>5, <1>6, <1>7, Steps

\* A payment is booked once, with the last shares of the row, and then the row stands.
LEMMA PaidMoves ==
    ASSUME PInv, PInv', PaidOK, MarketOK, [Next]_vars
    PROVE  PaidOK'
  <1>1. CASE paid' = paid
    <2>1. CASE paid = 0 BY <1>1, <2>1 DEF PaidOK
    <2>2. CASE paid # 0
      <3>1. bet # None /\ bet.settled /\ market # "OPEN" BY <2>2 DEF PaidOK
      <3>2. bet' = bet /\ market' = market BY <3>1, SettledStep, MarketMoves
      <3> QED BY <1>1, <3>2 DEF PaidOK
    <2> QED BY <2>1, <2>2
  <1>2. CASE Consume /\ paid' # paid
    <2>1. /\ Remainder(bet) > 0 /\ paid' = paid + Remainder(bet) /\ market' = market
          /\ bet' = [bet EXCEPT !.closed = bet.filled, !.settled = TRUE] /\ bet # None
          /\ market # "OPEN"
      BY <1>2 DEF Consume, Remainder, MarketOK
    <2>2. bet \in BetSet /\ ~bet.settled /\ Remainder(bet) \in Nat /\ Remainder(bet) <= bet.filled
      BY <2>1, BetShape
    <2>3. bet' # None /\ bet'.settled /\ bet'.filled = bet.filled
      <3>1. bet' \in BetSet BY <2>1, <2>2 DEF BetSet
      <3> QED BY <2>1, <2>2, <3>1, NoneAssumption DEF BetSet
    <2>4. paid = 0 BY <2>2 DEF PaidOK
    <2> QED BY <2>1, <2>2, <2>3, <2>4 DEF PaidOK
  <1>3. ASSUME NEW a \in Attempts,
               \/ \E side \in Sides, size \in 1 .. MaxSize : Enter(a, side, size)
               \/ Exit(a) \/ Match(a) \/ Index(a)
               \/ \E p \in Workers : Read(p, a)
        PROVE  paid' = paid
    BY <1>3 DEF Enter, Exit, Match, Index, Read
  <1>4. ASSUME NEW p \in Workers, Probe(p) \/ Book(p) \/ TrueUp(p) \/ PassDies(p) PROVE paid' = paid
    BY <1>4 DEF Probe, Book, TrueUp, PassDies
  <1>5. ASSUME (\E side \in Sides : Redeem(side)) \/ Resolve \/ Scan \/ Plan \/ SettleDies \/ UNCHANGED vars
        PROVE  paid' = paid
    BY <1>5 DEF Redeem, Resolve, Scan, Plan, SettleDies, vars
  <1> QED BY <1>1, <1>2, <1>3, <1>4, <1>5 DEF Next

\* Nobody signs for more than the attempts can have bought.
LEMMA SizesMove ==
    ASSUME PInv, RowsInv, PInv', FillsOK, SizesOK, [Next]_vars
    PROVE  SizesOK'
  <1>0. BookedEntries \in Nat /\ BookedEntries <= Total /\ Total \in Nat BY TotalTypes, TotalType
  <1>1. ASSUME NEW a \in Attempts PROVE MaxSize <= Total
    <2>1. Cardinality(Attempts) \in Nat BY TotalType
    <2>2. Cardinality(Attempts) # 0 BY AttemptsAssumption, FS_EmptySet
    <2> DEFINE c == Cardinality(Attempts)
    <2>3. c \in Nat /\ c # 0 BY <2>1, <2>2
    <2> HIDE DEF c
    <2>4. MaxSize \in Nat BY TickAssumption
    <2>5. MaxSize <= MaxSize * c
      <3>1. c >= 1 BY <2>3
      <3>2. MaxSize * c = MaxSize * (c - 1) + MaxSize BY <2>3, <2>4
      <3>3. MaxSize * (c - 1) >= 0 BY <2>4, <3>1, <2>3
      <3>4. MaxSize * (c - 1) \in Int BY <2>3, <2>4
      <3> QED BY <2>4, <3>2, <3>3, <3>4
    <2> QED BY <2>5 DEF c, Total
  <1>2. ASSUME NEW a \in Attempts, NEW r \in RowSet, r.size <= Total, attempt' = [attempt EXCEPT ![a] = r]
        PROVE  SizesOK'
    BY <1>2 DEF SizesOK, PInv, AttemptsOK
  <1>3. CASE Quiet
    BY <1>3 DEF Quiet, SameRow, SizesOK
  <1>4. ASSUME NEW a \in Attempts, NEW side \in Sides, NEW size \in 1 .. MaxSize, Enter(a, side, size)
        PROVE  SizesOK'
    <2>1. PICK r : r = NewRow("ENTRY", side, size) OBVIOUS
    <2>2. attempt' = [attempt EXCEPT ![a] = r] /\ r \in RowSet /\ r.size <= MaxSize
      BY <1>4, <2>1, NewRows
    <2>3. r.size \in Int /\ MaxSize \in Nat BY <2>2, TickAssumption DEF RowSet
    <2>4. r.size <= Total BY <1>0, <1>1, <2>2, <2>3
    <2> QED BY <1>2, <2>2, <2>4
  <1>5. ASSUME NEW a \in Attempts, Exit(a) PROVE SizesOK'
    <2>1. PICK r : r = NewRow("EXIT", bet.side, (Remainder(bet) \div Tick) * Tick) OBVIOUS
    <2>2. attempt' = [attempt EXCEPT ![a] = r] /\ r \in RowSet /\ r.size <= Remainder(bet) /\ bet # None
      BY <1>5, <2>1, NewRows
    <2>3. r.size \in Int BY <2>2 DEF RowSet
    <2>4. Remainder(bet) <= bet.filled /\ Remainder(bet) \in Nat /\ bet.filled \in Nat BY <2>2, BetShape
    <2>5. bet.filled <= BookedEntries BY <2>2 DEF FillsOK
    <2>6. r.size <= Total BY <1>0, <2>2, <2>3, <2>4, <2>5
    <2> QED BY <1>2, <2>2, <2>6
  <1>6. ASSUME (\E a \in Attempts : Match(a) \/ Index(a)) \/ Resolve \/ Consume PROVE SizesOK'
    BY <1>6 DEF Match, Index, Resolve, Consume, SizesOK
  <1>7. ASSUME NEW p \in Workers, Book(p) PROVE SizesOK'
    <2>0. pass[p].at = "book" BY <1>7 DEF Book
    <2> PICK a \in Attempts : a = pass[p].a BY <2>0, PassCarries DEF PInv
    <2>1. Kept(a) /\ attempt[a] # None
      BY <1>7, <2>0, BookOutcome DEF RowsInv, PassOK
    <2> QED BY <2>1 DEF SizesOK, Kept
  <1> QED BY <1>3, <1>4, <1>5, <1>6, <1>7, Steps

\* The invariant holds at the start.
LEMMA AllInit == Init => AllInv
  BY InitInv, RowsInit, BoundsInit DEF AllInv

\* And every step keeps it.
LEMMA AllNext == AllInv /\ [Next]_vars => AllInv'
  <1> SUFFICES ASSUME AllInv, [Next]_vars PROVE AllInv'
    OBVIOUS
  <1>0. PInv /\ RowsInv /\ HoldingsOK /\ FillsOK /\ PaidOK /\ MarketOK /\ SizesOK BY DEF AllInv, BoundsInv
  <1>1. PInv' /\ RowsInv' BY <1>0, NextInv, RowsNext
  <1>2. HoldingsOK' BY <1>0, <1>1, HoldingsMove
  <1>3. FillsOK' BY <1>0, <1>1, FillsMove
  <1>4. PaidOK' BY <1>0, <1>1, PaidMoves
  <1>5. MarketOK' BY <1>0, MarketMoves
  <1>6. SizesOK' BY <1>0, <1>1, SizesMove
  <1> QED BY <1>1, <1>2, <1>3, <1>4, <1>5, <1>6 DEF AllInv, BoundsInv

\* Rows, passes, position, holdings and payments keep the inductive invariant: the mutex lets one
\* row fly, no row books more than the index showed or than was matched, tokens come from bought
\* shares, and only a settled position is paid (lib/orders.ts, lib/reconcile.ts, lib/real-settle.ts).
THEOREM AllInvariance == Spec => []AllInv
  BY AllInit, AllNext, PTL DEF Spec

\* The invariant bounds every value as the type invariant of the run does.
LEMMA AllImpliesTypes == AllInv => TypeOK
  <1> SUFFICES ASSUME AllInv PROVE TypeOK
    OBVIOUS
  <1>0. PInv /\ RowsInv /\ HoldingsOK /\ FillsOK /\ PaidOK /\ MarketOK /\ SizesOK BY DEF AllInv, BoundsInv
  <1>1. /\ BookedEntries \in Nat /\ BookedEntries <= Total /\ Total \in Nat
        /\ \A s \in Sides : BoughtShares(s) \in Nat /\ BoughtShares(s) <= Total
    BY <1>0, TotalTypes, TotalType
  <1>2. bet # None => /\ bet \in BetSet /\ bet.filled <= Total /\ bet.closed <= bet.filled
                      /\ bet.seq <= Total /\ bet.filled \in Nat /\ bet.closed \in Nat /\ bet.seq \in Nat
    <2> SUFFICES ASSUME bet # None PROVE /\ bet \in BetSet /\ bet.filled <= Total /\ bet.closed <= bet.filled
                                         /\ bet.seq <= Total /\ bet.filled \in Nat /\ bet.closed \in Nat
                                         /\ bet.seq \in Nat
      OBVIOUS
    <2>1. /\ bet \in BetSet /\ bet.filled \in Nat /\ bet.closed \in Nat /\ bet.seq \in Nat
          /\ bet.closed <= bet.filled
      BY <1>0, BetShape
    <2>2. bet.filled <= BookedEntries /\ bet.seq + 1 <= BookedEntries BY <1>0 DEF FillsOK
    <2> QED BY <1>1, <2>1, <2>2
  <1>3. bet \in Bets \cup {None} /\ (bet # None => bet.closed <= bet.filled)
    <2>1. ASSUME bet # None PROVE bet \in Bets
      <3>1. bet.closed <= Total BY <1>1, <1>2, <2>1
      <3> QED BY <1>1, <1>2, <2>1, <3>1 DEF Bets, BetSet
    <2> QED BY <1>2, <2>1
  <1>4. ASSUME NEW a \in Attempts
        PROVE  /\ attempt[a] \in Rows \cup {None} /\ matched[a] \in -1 .. Total /\ indexed[a] \in 0 .. Total
               /\ attempt[a] # None => attempt[a].booked <= attempt[a].size
    <2>0. matched[a] \in Int /\ indexed[a] \in Nat /\ RowOK(a) BY <1>0, RowShape DEF RowsInv
    <2>1. CASE attempt[a] = None BY <1>1, <2>0, <2>1 DEF RowOK
    <2>2. CASE attempt[a] # None
      <3>1. /\ attempt[a] \in RowSet /\ attempt[a].size \in Int /\ attempt[a].booked \in Nat
            /\ attempt[a].lot \in {None} \cup Nat
        BY <1>0, <2>2, RowShape
      <3>2. /\ attempt[a].size >= 1 /\ attempt[a].size <= Total
            /\ matched[a] >= -1 /\ matched[a] <= attempt[a].size
            /\ indexed[a] = 0 \/ indexed[a] <= matched[a]
            /\ attempt[a].booked <= indexed[a]
            /\ attempt[a].lot # None => bet # None /\ attempt[a].lot <= bet.seq
        BY <1>0, <2>0, <2>2 DEF RowOK, SizesOK
      <3>3. matched[a] \in -1 .. Total /\ indexed[a] \in 0 .. Total /\ attempt[a].booked <= attempt[a].size
        BY <1>1, <2>0, <3>1, <3>2
      <3>4. attempt[a].booked \in 0 .. Total /\ attempt[a].size \in 1 .. Total
        BY <1>1, <3>1, <3>2, <3>3
      <3>5. attempt[a].lot \in {None} \cup 0 .. Total
        <4>1. attempt[a].lot # None => attempt[a].lot \in Nat /\ attempt[a].lot <= Total
          BY <1>1, <1>2, <3>1, <3>2
        <4> QED BY <1>1, <4>1
      <3>6. attempt[a] \in Rows BY <3>1, <3>4, <3>5 DEF RowSet, Rows
      <3> QED BY <3>3, <3>6
    <2> QED BY <2>1, <2>2
  <1>5. wallet \in [Sides -> 0 .. Total] /\ burned \in [Sides -> 0 .. Total]
    <2>1. \A s \in Sides : wallet[s] \in 0 .. Total /\ burned[s] \in 0 .. Total
      BY <1>0, <1>1 DEF HoldingsOK
    <2> QED BY <1>0, <2>1 DEF HoldingsOK
  <1>6. paid \in 0 .. Total BY <1>0, <1>1, <1>2 DEF PaidOK
  <1>7. attempt \in [Attempts -> Rows \cup {None}] BY <1>0, <1>4 DEF PInv, AttemptsOK
  <1>8. market \in {"OPEN", "YES", "NO", "CANCELED"} BY <1>0 DEF MarketOK
  <1> QED BY <1>3, <1>4, <1>5, <1>6, <1>7, <1>8 DEF TypeOK

\* TypeOK: every row, total, lot and payment stays in the range the finite instance gives it, for any
\* number of attempts and passes, any tick and any lag of the trade index.
THEOREM Types == Spec => []TypeOK
  BY AllInvariance, AllImpliesTypes, PTL

-----------------------------------------------------------------------------
(* What backs the shares.                                                   *)

\* The shares the position holds on side s.
Net(s) == IF bet # None /\ bet.side = s THEN Remainder(bet) ELSE 0

\* What the position holds on a side, and what entries have still to add to it, the wallet holds or
\* the redeemer burned, but for sales that are matched and not booked.
Tokens == \A s \in Sides :
              Net(s) + EntriesLeft(s) <= wallet[s] + burned[s] + UnbookedSales(s)

\* The quantities of that bound are numbers.
LEMMA Quantities ==
    ASSUME AllInv, NEW s \in Sides
    PROVE  /\ Net(s) \in Nat /\ EntriesLeft(s) \in Nat /\ UnbookedSales(s) \in Nat
           /\ wallet[s] \in Nat /\ burned[s] \in Nat
  <1>0. PInv /\ RowsInv /\ HoldingsOK BY DEF AllInv, BoundsInv
  <1>1. Net(s) \in Nat BY <1>0, RemainderIsNat DEF Net, PInv
  <1> QED BY <1>0, <1>1, TotalTypes DEF HoldingsOK

\* Steps other than a booking keep the bound.
LEMMA TokensStay ==
    ASSUME AllInv, AllInv', Tokens, [Next]_vars, \A p \in Workers : ~Book(p)
    PROVE  Tokens'
  <1>0. PInv /\ RowsInv /\ HoldingsOK /\ PInv' /\ RowsInv' BY DEF AllInv, BoundsInv
  <1>1. ASSUME TotalsStill, UNCHANGED <<bet, wallet, burned>> PROVE Tokens'
    <2>1. \A s \in Sides : Net(s)' = Net(s) BY <1>1 DEF Net, Remainder
    <2> QED BY <1>1, <2>1 DEF TotalsStill, Tokens
  <1>2. ASSUME NEW a \in Attempts,
               \/ \E side \in Sides, size \in 1 .. MaxSize : Enter(a, side, size)
               \/ Exit(a) \/ Index(a)
        PROVE  Tokens'
    <2>1. UNCHANGED <<bet, wallet, burned>> BY <1>2 DEF Enter, Exit, Index
    <2> QED BY <1>0, <1>1, <1>2, <2>1, StillSteps
  <1>3. ASSUME NEW p \in Workers, \/ \E a \in Attempts : Read(p, a)
                                  \/ Probe(p) \/ TrueUp(p) \/ PassDies(p)
        PROVE  Tokens'
    <2>1. UNCHANGED <<bet, wallet, burned>> BY <1>3 DEF Read, Probe, TrueUp, PassDies
    <2>2. Quiet BY <1>0, <1>3, QuietSteps
    <2> QED BY <1>0, <1>1, <2>1, <2>2, StillSteps
  <1>4. ASSUME Scan \/ Plan \/ SettleDies \/ UNCHANGED vars PROVE Tokens'
    <2>1. UNCHANGED <<bet, wallet, burned>> BY <1>4 DEF Scan, Plan, SettleDies, vars
    <2>2. Quiet BY <1>0, <1>4, QuietSteps
    <2> QED BY <1>0, <1>1, <2>1, <2>2, StillSteps
  <1>5. ASSUME Resolve PROVE Tokens'
    <2>1. UNCHANGED <<bet, wallet, burned>> BY <1>5 DEF Resolve
    <2> QED BY <1>0, <1>1, <1>5, <2>1, StillSteps
  <1>6. ASSUME NEW side \in Sides, Redeem(side) PROVE Tokens'
    <2>1. /\ burned' = [burned EXCEPT ![side] = @ + wallet[side]]
          /\ wallet' = [wallet EXCEPT ![side] = 0] /\ bet' = bet
      BY <1>6 DEF Redeem
    <2>2. Quiet BY <1>0, <1>6, QuietSteps
    <2>3. TotalsStill BY <1>0, <2>2, StillSteps
    <2>4. ASSUME NEW s \in Sides PROVE wallet'[s] + burned'[s] = wallet[s] + burned[s]
      BY <1>0, <2>1, Quantities DEF HoldingsOK
    <2>5. ASSUME NEW s \in Sides
          PROVE  Net(s)' + EntriesLeft(s)' <= wallet'[s] + burned'[s] + UnbookedSales(s)'
      <3>1. Net(s)' = Net(s) BY <2>1 DEF Net, Remainder
      <3>2. EntriesLeft(s)' = EntriesLeft(s) /\ UnbookedSales(s)' = UnbookedSales(s) BY <2>3 DEF TotalsStill
      <3>3. Net(s) + EntriesLeft(s) <= wallet[s] + burned[s] + UnbookedSales(s) BY DEF Tokens
      <3> QED BY <2>4, <3>1, <3>2, <3>3
    <2> QED BY <2>5 DEF Tokens
  <1>7. ASSUME Consume PROVE Tokens'
    <2>0. TotalsStill /\ UNCHANGED <<wallet, burned>> BY <1>0, <1>7, StillSteps DEF Consume
    <2>1. CASE bet' = bet BY <1>1, <2>0, <2>1
    <2>2. CASE bet' # bet
      <3>1. bet' = [bet EXCEPT !.closed = bet.filled, !.settled = TRUE] /\ bet # None
        BY <1>7, <2>2 DEF Consume, Remainder
      <3>2. bet \in BetSet BY <1>0, <3>1, BetShape
      <3>3. bet'.closed = bet'.filled /\ bet'.filled \in Nat BY <3>1, <3>2 DEF BetSet
      <3>4. \A s \in Sides : Net(s)' = 0 BY <3>3 DEF Net, Remainder
      <3>5. ASSUME NEW s \in Sides
            PROVE  Net(s)' + EntriesLeft(s)' <= wallet'[s] + burned'[s] + UnbookedSales(s)'
        <4>1. Net(s) + EntriesLeft(s) <= wallet[s] + burned[s] + UnbookedSales(s) BY DEF Tokens
        <4>2. EntriesLeft(s)' = EntriesLeft(s) /\ UnbookedSales(s)' = UnbookedSales(s)
          BY <2>0 DEF TotalsStill
        <4> QED BY <2>0, <3>4, <4>1, <4>2, Quantities
      <3> QED BY <3>5 DEF Tokens
    <2> QED BY <2>1, <2>2
  <1>8. ASSUME NEW a \in Attempts, Match(a) PROVE Tokens'
    <2> DEFINE t == attempt[a].side
               buy == attempt[a].dir = "ENTRY"
    <2>1. PICK n \in Nat :
                /\ ~buy => n <= wallet[t]
                /\ wallet' = [wallet EXCEPT ![t] = IF buy THEN @ + n ELSE @ - n]
                /\ \A s \in Sides :
                     IF s = t
                     THEN /\ EntriesLeft(s)' = EntriesLeft(s) + (IF buy THEN n ELSE 0)
                          /\ UnbookedSales(s)' = UnbookedSales(s) + (IF buy THEN 0 ELSE n)
                     ELSE EntriesLeft(s)' = EntriesLeft(s) /\ UnbookedSales(s)' = UnbookedSales(s)
                /\ t \in Sides
      <3>1. PICK n \in Nat :
                /\ attempt[a].dir = "EXIT" => n <= wallet[attempt[a].side]
                /\ wallet' = [wallet EXCEPT ![attempt[a].side] =
                                IF attempt[a].dir = "ENTRY" THEN @ + n ELSE @ - n]
                /\ \A s \in Sides :
                     IF s = attempt[a].side
                     THEN /\ EntriesLeft(s)' = EntriesLeft(s) + (IF attempt[a].dir = "ENTRY" THEN n ELSE 0)
                          /\ UnbookedSales(s)' = UnbookedSales(s) + (IF attempt[a].dir = "EXIT" THEN n ELSE 0)
                     ELSE EntriesLeft(s)' = EntriesLeft(s) /\ UnbookedSales(s)' = UnbookedSales(s)
        BY <1>0, <1>8, MatchTotals
      <3>2. attempt[a].side \in Sides /\ attempt[a].dir \in {"ENTRY", "EXIT"} BY <1>0, <1>8, MatchTotals
      <3> QED BY <3>1, <3>2
    <2>2. burned' = burned /\ bet' = bet BY <1>8 DEF Match
    <2>2a. \A s \in Sides : Net(s)' = Net(s) BY <2>2 DEF Net, Remainder
    <2> HIDE DEF t, buy
    <2>3. ASSUME NEW s \in Sides
          PROVE  Net(s)' + EntriesLeft(s)' <= wallet'[s] + burned'[s] + UnbookedSales(s)'
      <3>0. Net(s) + EntriesLeft(s) <= wallet[s] + burned[s] + UnbookedSales(s) BY DEF Tokens
      <3>1. CASE s # t BY <1>0, <2>1, <2>2, <2>2a, <3>0, <3>1 DEF HoldingsOK
      <3>2. CASE s = t
        <4>1. wallet'[s] = IF buy THEN wallet[s] + n ELSE wallet[s] - n BY <1>0, <2>1, <3>2 DEF HoldingsOK
        <4>2. EntriesLeft(s)' = EntriesLeft(s) + (IF buy THEN n ELSE 0) BY <2>1, <3>2
        <4>3. UnbookedSales(s)' = UnbookedSales(s) + (IF buy THEN 0 ELSE n) BY <2>1, <3>2
        <4> QED BY <2>1, <2>2, <2>2a, <3>0, <4>1, <4>2, <4>3, Quantities
      <3> QED BY <3>1, <3>2
    <2> QED BY <2>3 DEF Tokens
  <1> QED BY <1>2, <1>3, <1>4, <1>5, <1>6, <1>7, <1>8 DEF Next

\* What a sale closes is no less than it sold, when that much is held.
LEMMA ClosingCovers ==
    ASSUME PInv, NEW n \in Nat, n > 0
    PROVE  IF n <= Remainder(bet) THEN Closing(n) >= n ELSE Closing(n) = Remainder(bet)
  <1>1. Remainder(bet) \in Nat /\ Tick \in Nat \ {0} BY RemainderIsNat, TickAssumption DEF PInv
  <1> QED BY <1>1 DEF Closing, Smaller

\* A booking keeps it when an entry merges into a lot of its own side, and a sale is of that side and
\* of no more than is held.
LEMMA TokensBooked ==
    ASSUME AllInv, AllInv', Tokens, NEW p \in Workers, Book(p), NEW a \in Attempts, a = pass[p].a,
           NEW n, n = pass[p].total, NEW row, row = pass[p].row,
           Aside(a, row, n) => attempt[a].dir = "ENTRY",
           Merged(a, row, n) => attempt[a].side = bet.side,
           Sold(a, row, n) => attempt[a].side = bet.side /\ n - attempt[a].booked <= Remainder(bet)
    PROVE  Tokens'
  <1>0. PInv /\ RowsInv /\ HoldingsOK /\ PInv' /\ RowsInv' BY DEF AllInv, BoundsInv
  <1> DEFINE d == attempt'[a].booked - attempt[a].booked
             t == attempt[a].side
  <1>1. Kept(a) /\ Outcome(a, row, n) /\ n \in Nat /\ attempt[a] # None
    BY <1>0, BookOutcome DEF Book, RowsInv, PassOK
  <1>2. UNCHANGED <<wallet, burned>> BY DEF Book
  <1>3. /\ attempt[a].booked \in Nat /\ attempt[a].dir \in {"ENTRY", "EXIT"} /\ t \in Sides
    BY <1>0, <1>1, RowShape
  <1>4. /\ d \in Nat
        /\ \A s \in Sides :
                /\ EntriesLeft(s)' = EntriesLeft(s) - (IF attempt[a].dir = "ENTRY" /\ t = s THEN d ELSE 0)
                /\ UnbookedSales(s)' = UnbookedSales(s) - (IF attempt[a].dir = "EXIT" /\ t = s THEN d ELSE 0)
    BY <1>0, BookTotals
  <1>5. ASSUME NEW lot, BookedAs(a, n, lot)
        PROVE  d = n - attempt[a].booked /\ d > 0
    BY <1>1, <1>3, <1>5 DEF BookedAs
  <1>6. CASE Unbooked(a, n)
    <2>1. d = 0 /\ bet' = bet BY <1>3, <1>6 DEF Unbooked
    <2>2. \A s \in Sides : Net(s)' = Net(s) BY <2>1 DEF Net, Remainder
    <2> HIDE DEF d
    <2>3. \A s \in Sides : EntriesLeft(s)' = EntriesLeft(s) /\ UnbookedSales(s)' = UnbookedSales(s)
      BY <1>4, <2>1, Quantities
    <2> QED BY <1>2, <2>2, <2>3 DEF Tokens
  <1>7. CASE Aside(a, row, n)
    <2>1. bet' = bet /\ attempt[a].dir = "ENTRY" BY <1>7 DEF Aside
    <2>2. \A s \in Sides : Net(s)' = Net(s) BY <2>1 DEF Net, Remainder
    <2> HIDE DEF d
    <2>3. \A s \in Sides : EntriesLeft(s)' <= EntriesLeft(s) /\ UnbookedSales(s)' = UnbookedSales(s)
                           /\ EntriesLeft(s)' \in Int
      BY <1>4, <2>1, Quantities
    <2>4. ASSUME NEW s \in Sides
          PROVE  Net(s)' + EntriesLeft(s)' <= wallet'[s] + burned'[s] + UnbookedSales(s)'
      <3>0. Net(s) + EntriesLeft(s) <= wallet[s] + burned[s] + UnbookedSales(s) BY DEF Tokens
      <3>1. /\ Net(s)' = Net(s) /\ EntriesLeft(s)' <= EntriesLeft(s) /\ EntriesLeft(s)' \in Int
            /\ UnbookedSales(s)' = UnbookedSales(s) /\ wallet'[s] = wallet[s] /\ burned'[s] = burned[s]
        BY <1>2, <2>2, <2>3
      <3> QED BY <3>0, <3>1, Quantities
    <2> QED BY <2>4 DEF Tokens
  <1>8. CASE Merged(a, row, n)
    <2>1. /\ bet' \in BetSet /\ bet'.side = bet.side /\ bet'.filled = bet.filled + d
          /\ bet'.closed = bet.closed /\ attempt[a].dir = "ENTRY" /\ t = bet.side /\ bet # None
      <3>1. d = n - attempt[a].booked BY <1>5, <1>8 DEF Merged
      <3> HIDE DEF d
      <3>2. /\ bet' \in BetSet /\ bet'.side = bet.side /\ bet'.closed = bet.closed
            /\ bet'.filled = bet.filled + (n - attempt[a].booked)
            /\ attempt[a].dir = "ENTRY" /\ bet # None
        BY <1>0, <1>1, <1>8, BetMoved DEF Merged
      <3>3. t = bet.side BY <1>8
      <3> QED BY <3>1, <3>2, <3>3
    <2> HIDE DEF d
    <2>2. bet.filled \in Nat /\ bet.closed \in Nat BY <1>0, <2>1, BetShape
    <2>3. ASSUME NEW s \in Sides
          PROVE  Net(s)' + EntriesLeft(s)' <= wallet'[s] + burned'[s] + UnbookedSales(s)'
      <3>0. Net(s) + EntriesLeft(s) <= wallet[s] + burned[s] + UnbookedSales(s) BY DEF Tokens
      <3>1. UnbookedSales(s)' = UnbookedSales(s) BY <1>4, <2>1, Quantities
      <3>2. Net(s)' = Net(s) + (IF t = s THEN d ELSE 0)
        BY <1>4, <2>1, <2>2, NoneAssumption DEF Net, Remainder
      <3>3. EntriesLeft(s)' = EntriesLeft(s) - (IF t = s THEN d ELSE 0) BY <1>4, <2>1
      <3> QED BY <1>2, <1>4, <3>0, <3>1, <3>2, <3>3, Quantities
    <2> QED BY <2>3 DEF Tokens
  <1>9. CASE Opened(a, row, n)
    <2>1. /\ bet' \in BetSet /\ bet'.side = t /\ bet'.filled = d
          /\ bet'.closed = 0 /\ attempt[a].dir = "ENTRY"
      <3>1. d = n - attempt[a].booked BY <1>5, <1>9 DEF Opened
      <3> QED BY <1>0, <1>1, <1>9, <3>1, BetMoved DEF Opened
    <2> HIDE DEF d
    <2>3. ASSUME NEW s \in Sides
          PROVE  Net(s)' + EntriesLeft(s)' <= wallet'[s] + burned'[s] + UnbookedSales(s)'
      <3>0. Net(s) + EntriesLeft(s) <= wallet[s] + burned[s] + UnbookedSales(s) BY DEF Tokens
      <3>1. UnbookedSales(s)' = UnbookedSales(s) BY <1>4, <2>1, Quantities
      <3>2. Net(s)' = IF t = s THEN d ELSE 0
        BY <1>4, <2>1, NoneAssumption DEF Net, Remainder
      <3>3. EntriesLeft(s)' = EntriesLeft(s) - (IF t = s THEN d ELSE 0) BY <1>4, <2>1
      <3> QED BY <1>2, <1>4, <3>0, <3>1, <3>2, <3>3, Quantities
    <2> QED BY <2>3 DEF Tokens
  <1>10. CASE Sold(a, row, n)
    <2>0. d = n - attempt[a].booked /\ d > 0 BY <1>5, <1>10 DEF Sold
    <2>1. /\ bet' \in BetSet /\ bet'.side = bet.side /\ bet'.filled = bet.filled
          /\ bet'.closed = bet.closed + Closing(d) /\ Closing(d) \in Nat
          /\ attempt[a].dir = "EXIT" /\ t = bet.side /\ bet # None /\ d <= Remainder(bet)
      <3> HIDE DEF d
      <3>1. /\ bet' \in BetSet /\ bet'.side = bet.side /\ bet'.filled = bet.filled
            /\ bet'.closed = bet.closed + Closing(n - attempt[a].booked)
            /\ Closing(n - attempt[a].booked) \in Nat
            /\ attempt[a].dir = "EXIT" /\ bet # None
        BY <1>0, <1>1, <1>10, BetMoved DEF Sold
      <3>2. t = bet.side /\ n - attempt[a].booked <= Remainder(bet) BY <1>10
      <3> QED BY <2>0, <3>1, <3>2
    <2>2. Closing(d) >= d BY <1>0, <1>4, <2>0, <2>1, ClosingCovers
    <2> HIDE DEF d
    <2>3. bet.filled \in Nat /\ bet.closed \in Nat BY <1>0, <2>1, BetShape
    <2>4. ASSUME NEW s \in Sides
          PROVE  Net(s)' + EntriesLeft(s)' <= wallet'[s] + burned'[s] + UnbookedSales(s)'
      <3>0. Net(s) + EntriesLeft(s) <= wallet[s] + burned[s] + UnbookedSales(s) BY DEF Tokens
      <3>1. EntriesLeft(s)' = EntriesLeft(s) BY <1>4, <2>1, Quantities
      <3>2. Net(s)' = Net(s) - (IF t = s THEN Closing(d) ELSE 0)
        BY <1>4, <2>1, <2>3, NoneAssumption DEF Net, Remainder
      <3>3. UnbookedSales(s)' = UnbookedSales(s) - (IF t = s THEN d ELSE 0) BY <1>4, <2>1
      <3> QED BY <1>2, <1>4, <2>1, <2>2, <3>0, <3>1, <3>2, <3>3, Quantities
    <2> QED BY <2>4 DEF Tokens
  <1> QED BY <1>1, <1>6, <1>7, <1>8, <1>9, <1>10 DEF Outcome

-----------------------------------------------------------------------------
(* The first lot, whatever the index does.                                  *)

\* The bound, as far as it holds however much the index lags: until the first lot is closed.
FirstLotTokens == bet = None \/ (bet.seq = 0 /\ Remainder(bet) > 0) => Tokens

\* It holds of nothing.
LEMMA TokensInit == Init => Tokens
  <1> SUFFICES ASSUME Init PROVE Tokens
    OBVIOUS
  <1>0. AllInv BY AllInit
  <1>1. ASSUME NEW s \in Sides PROVE EntriesLeft(s) = 0
    <2> DEFINE g == [a \in Attempts |-> EntryLeft(a, s)]
    <2>1. \A a \in Attempts : EntryLeft(a, s) = 0 BY DEF Init, EntryLeft, IsBuy
    <2>2. g \in [Attempts -> Int] /\ \A a \in Attempts : g[a] = 0 BY <2>1
    <2>3. EntriesLeft(s) = SumFunction(g) BY DEF EntriesLeft
    <2> HIDE DEF g
    <2> QED BY <2>2, <2>3, SumZero, AttemptsAssumption
  <1>2. \A s \in Sides : Net(s) = 0 BY DEF Init, Net
  <1>3. ASSUME NEW s \in Sides
        PROVE  Net(s) + EntriesLeft(s) <= wallet[s] + burned[s] + UnbookedSales(s)
    BY <1>0, <1>1, <1>2, Quantities
  <1> QED BY <1>3 DEF Tokens

\* What makes the pass that books a sale or an entry of the first lot a lawful one.
LEMMA FirstLotStep ==
    ASSUME AllInv, AllInv', FirstLotTokens, [Next]_vars
    PROVE  FirstLotTokens'
  <1>0. PInv /\ RowsInv /\ HoldingsOK /\ PInv' /\ RowsInv' BY DEF AllInv, BoundsInv
  <1> SUFFICES ASSUME bet' = None \/ (bet'.seq = 0 /\ Remainder(bet') > 0) PROVE Tokens'
    BY DEF FirstLotTokens, Remainder
  <1>1. ASSUME \A p \in Workers : ~Book(p) PROVE Tokens'
    <2>1. bet' = bet \/ (Consume /\ bet' # bet)
      <3>1. Quiet => bet' = bet BY DEF Quiet
      <3>2. \A a \in Attempts : (\E side \in Sides, size \in 1 .. MaxSize : Enter(a, side, size)) => bet' = bet
        BY DEF Enter
      <3>3. \A a \in Attempts : Exit(a) \/ Match(a) \/ Index(a) => bet' = bet BY DEF Exit, Match, Index
      <3>4. Resolve => bet' = bet BY DEF Resolve
      <3> QED BY <1>0, <1>1, <3>1, <3>2, <3>3, <3>4, Steps
    <2>2. CASE bet' = bet
      <3>1. Tokens BY <2>2 DEF FirstLotTokens, Remainder
      <3> QED BY <1>1, <3>1, TokensStay
    <2>3. CASE Consume /\ bet' # bet
      <3>1. bet' = [bet EXCEPT !.closed = bet.filled, !.settled = TRUE] /\ bet # None
        BY <2>3 DEF Consume, Remainder
      <3>2. bet \in BetSet BY <1>0, <3>1, BetShape
      <3>3. bet' \in BetSet /\ bet'.closed = bet'.filled /\ bet'.filled \in Nat BY <3>1, <3>2 DEF BetSet
      <3>4. Remainder(bet') = 0 BY <3>3 DEF Remainder
      <3> QED BY <3>3, <3>4, NoneAssumption
    <2> QED BY <2>1, <2>2, <2>3
  <1>2. ASSUME NEW p \in Workers, Book(p) PROVE Tokens'
    <2>0. pass[p].at = "book" BY <1>2 DEF Book
    <2> PICK a \in Attempts : a = pass[p].a BY <1>0, <2>0, PassCarries DEF PInv
    <2> PICK n : n = pass[p].total OBVIOUS
    <2> PICK row : row = pass[p].row OBVIOUS
    <2>1. Kept(a) /\ Outcome(a, row, n) /\ n \in Nat /\ attempt[a] # None /\ n <= indexed[a]
      BY <1>0, <1>2, <2>0, BookOutcome DEF RowsInv, PassOK
    <2>2. /\ attempt[a].booked \in Nat /\ indexed[a] \in Nat /\ matched[a] \in Int /\ RowOK(a)
      BY <1>0, <2>1, RowShape DEF RowsInv
    <2>3. bet # None => /\ bet \in BetSet /\ bet.seq \in Nat /\ Remainder(bet) \in Nat
      BY <1>0, BetShape, RemainderIsNat DEF PInv
    <2>4. Unbooked(a, n) \/ Aside(a, row, n) => bet' = bet BY DEF Unbooked, Aside
    <2>5. Tokens /\ (bet # None => bet.seq = 0)
      <3>1. CASE bet = None BY <3>1 DEF FirstLotTokens
      <3>2. CASE bet # None /\ (Unbooked(a, n) \/ Aside(a, row, n))
        BY <2>4, <3>2 DEF FirstLotTokens, Remainder
      <3>3. CASE bet # None /\ Merged(a, row, n)
        <4>1. bet' \in BetSet /\ bet'.seq = bet.seq /\ Remainder(bet) >= Tick
          BY <1>0, <2>1, <3>3, BetMoved DEF Merged
        <4>2. bet.seq = 0 /\ Remainder(bet) > 0
          BY <2>3, <3>3, <4>1, NoneAssumption, TickAssumption
        <4> QED BY <4>2 DEF FirstLotTokens
      <3>4. CASE bet # None /\ Opened(a, row, n)
        <4>1. bet' \in BetSet /\ bet'.seq = bet.seq + 1
          BY <1>0, <2>1, <3>4, BetMoved
        <4> QED BY <2>3, <3>4, <4>1, NoneAssumption
      <3>5. CASE bet # None /\ Sold(a, row, n)
        <4>1. /\ bet' \in BetSet /\ bet'.seq = bet.seq /\ bet'.filled = bet.filled
              /\ bet'.closed = bet.closed + Closing(n - attempt[a].booked)
              /\ Closing(n - attempt[a].booked) \in Nat
          BY <1>0, <2>1, <3>5, BetMoved
        <4>2. bet.filled \in Nat /\ bet.closed \in Nat /\ Remainder(bet) = bet.filled - bet.closed
          BY <1>0, <3>5, BetShape
        <4>3. Remainder(bet') = bet.filled - (bet.closed + Closing(n - attempt[a].booked))
          BY <4>1, NoneAssumption DEF Remainder
        <4>4. bet.seq = 0 /\ Remainder(bet') > 0 BY <4>1, NoneAssumption
        <4>5. Remainder(bet) > 0
          <5> DEFINE c == Closing(n - attempt[a].booked)
          <5>1. c \in Nat /\ Remainder(bet') = bet.filled - (bet.closed + c) BY <4>1, <4>3
          <5> HIDE DEF c
          <5> QED BY <4>2, <4>4, <5>1
        <4> QED BY <4>4, <4>5 DEF FirstLotTokens
      <3> QED BY <2>1, <3>1, <3>2, <3>3, <3>4, <3>5 DEF Outcome
    <2>6. Aside(a, row, n) => attempt[a].dir = "ENTRY"
      <3> SUFFICES ASSUME Aside(a, row, n), attempt[a].dir # "ENTRY" PROVE FALSE OBVIOUS
      <3>1. StaleLot(row) /\ bet # None BY DEF Aside
      <3>2. row.lot # None /\ row.lot # bet.seq BY <3>1 DEF StaleLot
      <3>3. row \in RowSet BY <1>0, <2>0, PassCarries DEF PInv
      <3>4. row.lot \in Nat BY <3>2, <3>3 DEF RowSet
      <3>5. row.lot <= bet.seq BY <1>0, <2>0, <3>2 DEF RowsInv, PassOK
      <3> QED BY <2>5, <3>1, <3>2, <3>4, <3>5
    <2>7. Merged(a, row, n) => attempt[a].side = bet.side
      <3> SUFFICES ASSUME Merged(a, row, n) PROVE attempt[a].side = bet.side OBVIOUS
      <3>1. attempt[a].dir = "ENTRY" /\ bet # None /\ Remainder(bet) >= Tick /\ n > attempt[a].booked
        BY DEF Merged, BookedAs
      <3>2. attempt[a].side = bet.side \/ matched[a] = 0
        BY <1>0, <2>1, <2>5, <3>1 DEF RowsInv, FirstLotOK
      <3>3. matched[a] # 0 BY <2>1, <2>2, <3>1 DEF RowOK
      <3> QED BY <3>2, <3>3
    <2>8. Sold(a, row, n) => attempt[a].side = bet.side /\ n - attempt[a].booked <= Remainder(bet)
      <3> SUFFICES ASSUME Sold(a, row, n)
                   PROVE  attempt[a].side = bet.side /\ n - attempt[a].booked <= Remainder(bet)
        OBVIOUS
      <3>1. attempt[a].dir = "EXIT" /\ bet # None /\ n > attempt[a].booked BY DEF Sold, BookedAs
      <3>2. attempt[a].side = bet.side BY <1>0, <2>1, <2>5, <3>1 DEF RowsInv, FirstLotOK
      <3>3. ASSUME ~(n - attempt[a].booked <= Remainder(bet)) PROVE FALSE
        <4> DEFINE d == n - attempt[a].booked
        <4>1. /\ bet' \in BetSet /\ bet'.filled = bet.filled /\ bet'.closed = bet.closed + Closing(d)
          BY <1>0, <2>1, BetMoved
        <4>2. d \in Nat /\ d > 0 BY <2>1, <2>2, <3>1
        <4>3. ~(d <= Remainder(bet)) BY <3>3
        <4> HIDE DEF d
        <4>4. Closing(d) = Remainder(bet) BY <1>0, <4>2, <4>3, ClosingCovers
        <4>5. bet.filled \in Nat /\ bet.closed \in Nat /\ Remainder(bet) = bet.filled - bet.closed
          BY <1>0, <3>1, BetShape
        <4>6. Remainder(bet') = bet.filled - (bet.closed + (bet.filled - bet.closed))
          BY <4>1, <4>4, <4>5, NoneAssumption DEF Remainder
        <4>7. Remainder(bet') = 0 BY <4>5, <4>6
        <4> QED BY <4>1, <4>7, NoneAssumption
      <3> QED BY <3>2, <3>3
    <2> QED BY <1>2, <2>5, <2>6, <2>7, <2>8, TokensBooked
  <1> QED BY <1>1, <1>2

\* The bound is what the property of the runs says of the side that is held.
LEMMA TokensBackTheRow ==
    ASSUME AllInv, Tokens
    PROVE  NoPhantomShares
  <1> SUFFICES ASSUME bet # None
               PROVE  Remainder(bet) <= wallet[bet.side] + burned[bet.side] + UnbookedSales(bet.side)
    BY DEF NoPhantomShares
  <1>1. bet.side \in Sides /\ Net(bet.side) = Remainder(bet) BY BetShape DEF AllInv, Net
  <1>2. Net(bet.side) + EntriesLeft(bet.side)
          <= wallet[bet.side] + burned[bet.side] + UnbookedSales(bet.side)
    BY <1>1 DEF Tokens
  <1> QED BY <1>1, <1>2, Quantities

\* The property, of the first lot of a position.
NoPhantomSharesInFirstLot == bet # None /\ bet.seq = 0 => NoPhantomShares

\* The shares of the first lot of a position are backed by tokens, or by sales still to be booked, for
\* any lag of the trade index, any partial bookings and any order of the passes (lib/trading.ts,
\* bookFill and bookExit): the lot that a user holds before any exit closes it is never a phantom.
THEOREM FirstLotBacked == Spec => []NoPhantomSharesInFirstLot
  <1>1. Init => AllInv /\ FirstLotTokens BY AllInit, TokensInit DEF FirstLotTokens
  <1>2. AllInv /\ FirstLotTokens /\ [Next]_vars => AllInv' /\ FirstLotTokens'
    BY AllNext, FirstLotStep
  <1>3. AllInv /\ FirstLotTokens => NoPhantomSharesInFirstLot
    <2> SUFFICES ASSUME AllInv, FirstLotTokens, bet # None, bet.seq = 0 PROVE NoPhantomShares
      BY DEF NoPhantomSharesInFirstLot
    <2>1. CASE Remainder(bet) > 0 BY <2>1, TokensBackTheRow DEF FirstLotTokens
    <2>2. CASE ~(Remainder(bet) > 0)
      <3>1. Remainder(bet) \in Nat BY RemainderIsNat DEF AllInv, PInv
      <3>2. bet.side \in Sides BY BetShape DEF AllInv
      <3> QED BY <2>2, <3>1, <3>2, Quantities DEF NoPhantomShares
    <2> QED BY <2>1, <2>2
  <1> QED BY <1>1, <1>2, <1>3, PTL DEF Spec

-----------------------------------------------------------------------------
(* Whole bookings.                                                          *)

\* A row that is booked holds all that was matched.
BookedWhole == \A a \in Attempts :
                   attempt[a] # None /\ attempt[a].state \in Booked => attempt[a].booked = matched[a]

\* A row in flight fits the position: a sale is of what is held, an entry finds no lot open.
LiveOK == \A a \in Attempts : Live(a) =>
              IF attempt[a].dir = "EXIT"
              THEN bet # None /\ attempt[a].side = bet.side /\ attempt[a].size <= Remainder(bet)
              ELSE Remainder(bet) < Tick
\* A killed row matched nothing.
KilledOK == \A a \in Attempts : attempt[a] # None /\ attempt[a].state = "KILLED" => matched[a] = 0
\* The settlement starts with nothing in flight, plans for the side that is held, and takes a lot as
\* won once the wallet is empty of it.
SettleOK ==
    /\ settle.at # "idle" => \A a \in Attempts : ~Live(a)
    /\ settle.at = "plan" => bet # None /\ settle.side = bet.side
    /\ settle.at = "consume" /\ settle.won => bet # None /\ wallet[bet.side] = 0

\* The inductive invariant of the ledger whose bookings are whole.
WholeInv == LiveOK /\ KilledOK /\ Tokens /\ SettleOK /\ PaidWereBurned

\* There are finitely many sides.
LEMMA FiniteSides == IsFiniteSet(Sides)
  <1>1. IsFiniteSet({} \cup {"YES"}) BY FS_EmptySet, FS_AddElement
  <1>2. IsFiniteSet(({} \cup {"YES"}) \cup {"NO"}) BY <1>1, FS_AddElement
  <1>3. ({} \cup {"YES"}) \cup {"NO"} = {"YES", "NO"} OBVIOUS
  <1>4. IsFiniteSet({"YES", "NO"}) BY <1>2, <1>3
  <1> QED BY <1>4, SidesAssumption, FS_Subset

\* The burned tokens of a side are among all the burned ones.
LEMMA SumOfBurned ==
    ASSUME HoldingsOK
    PROVE  SumFunction(burned) \in Nat /\ \A s \in Sides : burned[s] <= SumFunction(burned)
  BY FiniteSides, SumNat DEF HoldingsOK

\* It holds when nothing has been signed.
LEMMA WholeInit == Init => WholeInv
  <1> SUFFICES ASSUME Init PROVE WholeInv
    OBVIOUS
  <1>1. HoldingsOK /\ Tokens BY AllInit, TokensInit DEF AllInv, BoundsInv
  <1>2. PaidWereBurned
    <2>1. SumFunction(burned) \in Nat BY <1>1, SumOfBurned
    <2> QED BY <2>1 DEF Init, PaidWereBurned
  <1>3. LiveOK /\ KilledOK BY DEF Init, LiveOK, KilledOK, Live
  <1>4. SettleOK BY DEF Init, SettleOK, Idle
  <1> QED BY <1>1, <1>2, <1>3, <1>4 DEF WholeInv

\* Only a row in flight has something to book.
LEMMA WholeBooking ==
    ASSUME AllInv, BookedWhole, WholeInv, NEW p \in Workers, Book(p), NEW a \in Attempts, a = pass[p].a,
           NEW n, n = pass[p].total, NEW row, row = pass[p].row
    PROVE  /\ Kept(a) /\ attempt[a] # None /\ Outcome(a, row, n)
           /\ n > attempt[a].booked => Live(a) /\ attempt[a].lot = None
           /\ Unbooked(a, n) => attempt'[a].state = attempt[a].state
                                \/ (attempt'[a].state = "KILLED" /\ matched[a] = 0)
           /\ ~Unbooked(a, n) => n > attempt[a].booked /\ \E lot : BookedAs(a, n, lot)
           /\ Aside(a, row, n) => attempt[a].dir = "ENTRY"
           /\ ~Merged(a, row, n)
           /\ Sold(a, row, n) => attempt[a].side = bet.side /\ n - attempt[a].booked <= Remainder(bet)
  <1>0. PInv /\ RowsInv /\ LiveOK /\ KilledOK BY DEF AllInv, WholeInv
  <1>1. /\ Kept(a) /\ Outcome(a, row, n) /\ n \in Nat /\ attempt[a] # None /\ n <= indexed[a]
        /\ row.lot # None => ~Live(a)
    BY <1>0, BookOutcome DEF Book, RowsInv, PassOK
  <1>2. /\ attempt[a].booked \in Nat /\ indexed[a] \in Nat /\ matched[a] \in Int /\ RowOK(a)
        /\ attempt[a].size \in Int /\ attempt[a].dir \in {"ENTRY", "EXIT"}
        /\ attempt[a].state \in {"LIVE", "FILLED", "PARTIAL", "KILLED"}
    BY <1>0, <1>1, RowShape DEF RowsInv
  <1>3. ASSUME n > attempt[a].booked
        PROVE  /\ Live(a) /\ attempt[a].booked = 0 /\ attempt[a].lot = None
               /\ row.lot = None /\ n <= attempt[a].size
    <2>1. n <= matched[a] /\ matched[a] <= attempt[a].size BY <1>1, <1>2, <1>3 DEF RowOK
    <2>2. attempt[a].state \notin Booked
      <3>1. attempt[a].state \in Booked => attempt[a].booked = matched[a] BY <1>1 DEF BookedWhole
      <3> QED BY <1>1, <1>2, <1>3, <2>1, <3>1
    <2>3. attempt[a].state # "KILLED"
      <3>1. attempt[a].state = "KILLED" => matched[a] = 0 BY <1>0, <1>1 DEF KilledOK
      <3> QED BY <1>1, <1>2, <1>3, <2>1, <3>1
    <2>4. attempt[a].state = "LIVE" BY <1>2, <2>2, <2>3 DEF Booked
    <2> QED BY <1>1, <1>2, <2>1, <2>4 DEF Live, RowOK
  <1>4. ASSUME n > attempt[a].booked, attempt[a].dir = "EXIT"
        PROVE  /\ attempt[a].side = bet.side /\ n - attempt[a].booked <= Remainder(bet)
               /\ Remainder(bet) > 0
    <2>1. /\ attempt[a].side = bet.side /\ attempt[a].size <= Remainder(bet)
          /\ n <= attempt[a].size /\ attempt[a].booked = 0
      BY <1>0, <1>3, <1>4 DEF LiveOK
    <2>2. Remainder(bet) \in Nat BY <1>0, RemainderIsNat DEF PInv
    <2> QED BY <1>1, <1>2, <1>4, <2>1, <2>2
  <1>5. ASSUME Unbooked(a, n)
        PROVE  attempt'[a].state = attempt[a].state \/ (attempt'[a].state = "KILLED" /\ matched[a] = 0)
    <2>1. ~(attempt[a].dir = "EXIT" /\ Remainder(bet) = 0 /\ n > attempt[a].booked) BY <1>4
    <2> QED BY <1>5, <2>1 DEF Unbooked
  <1>6. ASSUME ~Unbooked(a, n) PROVE n > attempt[a].booked /\ \E lot : BookedAs(a, n, lot)
    <2>1. \E lot : BookedAs(a, n, lot) BY <1>1, <1>6 DEF Outcome, Aside, Merged, Opened, Sold
    <2> QED BY <2>1 DEF BookedAs
  <1>7. ASSUME Aside(a, row, n) PROVE attempt[a].dir = "ENTRY"
    <2>1. n > attempt[a].booked BY <1>7 DEF Aside, BookedAs
    <2>2. ~StaleLot(row) BY <1>3, <2>1 DEF StaleLot
    <2> QED BY <1>7, <2>2 DEF Aside
  <1>8. ASSUME Merged(a, row, n) PROVE FALSE
    <2>1. n > attempt[a].booked /\ attempt[a].dir = "ENTRY" /\ Remainder(bet) >= Tick
      BY <1>8 DEF Merged, BookedAs
    <2>2. Remainder(bet) < Tick BY <1>0, <1>3, <2>1 DEF LiveOK
    <2>3. Remainder(bet) \in Nat /\ Tick \in Nat BY <1>0, RemainderIsNat, TickAssumption DEF PInv
    <2> QED BY <2>1, <2>2, <2>3
  <1>9. ASSUME Sold(a, row, n)
        PROVE  attempt[a].side = bet.side /\ n - attempt[a].booked <= Remainder(bet)
    <2>1. n > attempt[a].booked /\ attempt[a].dir = "EXIT" BY <1>9 DEF Sold, BookedAs
    <2> QED BY <1>4, <2>1
  <1> QED BY <1>1, <1>3, <1>5, <1>6, <1>7, <1>8, <1>9

\* A whole booking keeps it.
LEMMA WholeBooks ==
    ASSUME AllInv, AllInv', BookedWhole, WholeInv, NEW p \in Workers, Book(p)
    PROVE  WholeInv'
  <1>0. /\ PInv /\ RowsInv /\ LiveOK /\ KilledOK /\ Tokens /\ SettleOK /\ PaidWereBurned
    BY DEF AllInv, WholeInv
  <1>a. pass[p].at = "book" BY DEF Book
  <1> PICK a \in Attempts : a = pass[p].a BY <1>0, <1>a, PassCarries DEF PInv
  <1> PICK n : n = pass[p].total OBVIOUS
  <1> PICK row : row = pass[p].row OBVIOUS
  <1>1. /\ Kept(a) /\ attempt[a] # None
        /\ n > attempt[a].booked => Live(a)
        /\ Unbooked(a, n) => attempt'[a].state = attempt[a].state
                             \/ (attempt'[a].state = "KILLED" /\ matched[a] = 0)
        /\ ~Unbooked(a, n) => n > attempt[a].booked /\ \E lot : BookedAs(a, n, lot)
    BY WholeBooking
  <1>2. UNCHANGED <<market, matched, wallet, burned, settle, paid>> BY DEF Book
  <1>3. Tokens'
    <2>1. /\ Aside(a, row, n) => attempt[a].dir = "ENTRY"
          /\ Merged(a, row, n) => attempt[a].side = bet.side
          /\ Sold(a, row, n) => attempt[a].side = bet.side /\ n - attempt[a].booked <= Remainder(bet)
      BY WholeBooking
    <2> QED BY <1>0, <2>1, TokensBooked
  <1>4. PaidWereBurned' BY <1>0, <1>2 DEF PaidWereBurned
  <1>5. CASE Unbooked(a, n)
    <2>1. bet' = bet BY <1>5 DEF Unbooked
    <2>3. ASSUME NEW b \in Attempts
          PROVE  /\ Live(b)' => Live(b)
                 /\ attempt'[b] # None /\ attempt'[b].state = "KILLED" =>
                      (attempt[b] # None /\ attempt[b].state = "KILLED") \/ matched[b] = 0
                 /\ attempt[b] # None => /\ attempt'[b].dir = attempt[b].dir /\ attempt'[b].side = attempt[b].side
                                         /\ attempt'[b].size = attempt[b].size
      <3>1. CASE b # a BY <1>1, <3>1 DEF Kept, Live
      <3>2. CASE b = a BY <1>1, <1>5, <3>2 DEF Kept, Live
      <3> QED BY <3>1, <3>2
    <2>4. LiveOK'
      <3> SUFFICES ASSUME NEW b \in Attempts, Live(b)'
                   PROVE  IF attempt'[b].dir = "EXIT"
                          THEN bet # None /\ attempt'[b].side = bet.side /\ attempt'[b].size <= Remainder(bet)
                          ELSE Remainder(bet) < Tick
        BY <2>1 DEF LiveOK, Remainder
      <3>1. Live(b) BY <2>3
      <3>2. attempt[b] # None BY <3>1 DEF Live
      <3> QED BY <1>0, <2>3, <3>1, <3>2 DEF LiveOK
    <2>5. KilledOK' BY <1>0, <1>2, <2>3 DEF KilledOK
    <2>6. SettleOK' BY <1>0, <1>2, <2>1, <2>3 DEF SettleOK
    <2> QED BY <1>3, <1>4, <2>4, <2>5, <2>6 DEF WholeInv
  <1>6. CASE ~Unbooked(a, n)
    <2>1. n > attempt[a].booked /\ Live(a) BY <1>1, <1>6
    <2>2. PICK lot : BookedAs(a, n, lot) BY <1>1, <1>6
    <2>3. attempt'[a].state \notin {"LIVE", "KILLED"} BY <2>1, <2>2 DEF BookedAs, Live
    <2>4. ASSUME NEW b \in Attempts PROVE ~Live(b)'
      <3>1. CASE b = a BY <2>3, <3>1 DEF Live
      <3>2. CASE b # a
        <4>1. ~Live(b) BY <1>0, <2>1, <3>2 DEF RowsInv, OneLive
        <4> QED BY <1>1, <3>2, <4>1 DEF Kept, Live
      <3> QED BY <3>1, <3>2
    <2>5. LiveOK' BY <2>4 DEF LiveOK
    <2>6. KilledOK' BY <1>0, <1>1, <1>2, <2>3 DEF KilledOK, Kept
    <2>7. SettleOK'
      <3>1. settle.at = "idle" BY <1>0, <2>1 DEF SettleOK
      <3> QED BY <1>2, <3>1 DEF SettleOK
    <2> QED BY <1>3, <1>4, <2>5, <2>6, <2>7 DEF WholeInv
  <1> QED BY <1>5, <1>6

\* With nothing in flight and every booking whole, no sale is left to book.
LEMMA NoSalesLeft ==
    ASSUME AllInv, BookedWhole, KilledOK, \A a \in Attempts : ~Live(a), NEW s \in Sides
    PROVE  UnbookedSales(s) = 0
  <1> DEFINE f == [a \in Attempts |-> SaleLeft(a, s)]
  <1>1. ASSUME NEW a \in Attempts PROVE SaleLeft(a, s) = 0
    <2>1. CASE a \notin Sales(s) BY <2>1 DEF SaleLeft
    <2>2. CASE a \in Sales(s)
      <3>1. attempt[a] # None /\ matched[a] > 0 BY <2>2 DEF Sales
      <3>2. attempt[a].state \in {"LIVE", "FILLED", "PARTIAL", "KILLED"} /\ matched[a] \in Int
        BY <3>1, RowShape DEF AllInv
      <3>3. attempt[a].state \in Booked BY <3>1, <3>2 DEF Live, KilledOK, Booked
      <3>4. attempt[a].booked = matched[a] BY <3>1, <3>3 DEF BookedWhole
      <3> QED BY <2>2, <3>2, <3>4 DEF SaleLeft
    <2> QED BY <2>1, <2>2
  <1>2. f \in [Attempts -> Int] /\ \A a \in Attempts : f[a] = 0 BY <1>1
  <1>3. UnbookedSales(s) = SumFunction(f) BY DEF UnbookedSales, SaleLeft
  <1> HIDE DEF f
  <1> QED BY <1>2, <1>3, SumZero, AttemptsAssumption

\* What is paid has been burned: the redeemer emptied the wallet before the plan was kept.
LEMMA PaidWereBurnedStep ==
    ASSUME AllInv, AllInv', BookedWhole, WholeInv, [Next]_vars
    PROVE  PaidWereBurned'
  <1>0. /\ PInv /\ HoldingsOK /\ HoldingsOK' /\ PaidOK /\ KilledOK /\ Tokens /\ SettleOK
        /\ PaidWereBurned /\ MarketOK
    BY DEF AllInv, BoundsInv, WholeInv
  <1>1. CASE paid' = paid /\ burned' = burned BY <1>0, <1>1 DEF PaidWereBurned
  <1>2. ASSUME NEW side \in Sides, Redeem(side) PROVE PaidWereBurned'
    <2>1. paid' = paid /\ burned' = [burned EXCEPT ![side] = @ + wallet[side]] BY <1>2 DEF Redeem
    <2>2. /\ burned \in [Sides -> Int] /\ burned' \in [Sides -> Int]
          /\ \A s \in Sides : burned[s] <= burned'[s]
      BY <1>0, <2>1 DEF HoldingsOK
    <2>3. IsFiniteSet(Sides) BY FiniteSides
    <2>4. SumFunction(burned) <= SumFunction(burned') BY <2>2, <2>3, SumMonotone
    <2>5. SumFunction(burned) \in Nat /\ SumFunction(burned') \in Int BY <1>0, <2>2, <2>3, SumOfBurned, SumType
    <2>6. paid \in Nat /\ paid <= SumFunction(burned) BY <1>0 DEF PaidOK, PaidWereBurned
    <2>7. paid <= SumFunction(burned') BY <2>4, <2>5, <2>6
    <2> QED BY <2>1, <2>7 DEF PaidWereBurned
  <1>3. ASSUME Consume PROVE PaidWereBurned'
    <2>1. burned' = burned BY <1>3 DEF Consume
    <2>2. CASE paid' = paid BY <1>1, <2>1, <2>2
    <2>3. CASE paid' # paid
      <3>1. /\ Remainder(bet) > 0 /\ settle.won /\ paid' = paid + Remainder(bet) /\ settle.at = "consume"
        BY <1>3, <2>3 DEF Consume
      <3>2. bet # None BY <3>1 DEF Remainder
      <3>3. /\ bet.side \in Sides /\ bet.closed <= bet.filled /\ Remainder(bet) = bet.filled - bet.closed
            /\ (bet.settled => bet.closed = bet.filled) /\ bet.filled \in Nat /\ bet.closed \in Nat
        BY <1>0, <3>2, BetShape
      <3>4. paid = 0 BY <1>0, <3>1, <3>3 DEF PaidOK
      <3>5. wallet[bet.side] = 0 /\ \A a \in Attempts : ~Live(a) BY <1>0, <3>1 DEF SettleOK
      <3>6. UnbookedSales(bet.side) = 0 BY <1>0, <3>3, <3>5, NoSalesLeft
      <3>7. Net(bet.side) = Remainder(bet) BY <3>2 DEF Net
      <3>8. Net(bet.side) + EntriesLeft(bet.side)
              <= wallet[bet.side] + burned[bet.side] + UnbookedSales(bet.side)
        BY <1>0, <3>3 DEF Tokens
      <3>9. EntriesLeft(bet.side) \in Nat /\ burned[bet.side] \in Nat BY <3>3, Quantities
      <3>10. Remainder(bet) <= burned[bet.side] BY <3>3, <3>5, <3>6, <3>7, <3>8, <3>9
      <3>11. SumFunction(burned) \in Nat /\ burned[bet.side] <= SumFunction(burned)
        BY <1>0, <3>3, SumOfBurned
      <3>12. Remainder(bet) <= SumFunction(burned) BY <3>3, <3>9, <3>10, <3>11
      <3> QED BY <2>1, <3>1, <3>3, <3>4, <3>12 DEF PaidWereBurned
    <2> QED BY <2>2, <2>3
  <1>4. ASSUME NEW a \in Attempts,
               \/ \E side \in Sides, size \in 1 .. MaxSize : Enter(a, side, size)
               \/ Exit(a) \/ Match(a) \/ Index(a)
               \/ \E p \in Workers : Read(p, a)
        PROVE  paid' = paid /\ burned' = burned
    BY <1>4 DEF Enter, Exit, Match, Index, Read
  <1>5. ASSUME NEW p \in Workers, Probe(p) \/ Book(p) \/ TrueUp(p) \/ PassDies(p)
        PROVE  paid' = paid /\ burned' = burned
    BY <1>5 DEF Probe, Book, TrueUp, PassDies
  <1>6. ASSUME Resolve \/ Scan \/ Plan \/ SettleDies \/ UNCHANGED vars
        PROVE  paid' = paid /\ burned' = burned
    BY <1>6 DEF Resolve, Scan, Plan, SettleDies, vars
  <1> QED BY <1>1, <1>2, <1>3, <1>4, <1>5, <1>6 DEF Next

\* Rows that no booking touches.
LEMMA WholeRows ==
    ASSUME AllInv, AllInv', WholeInv, [Next]_vars, \A p \in Workers : ~Book(p)
    PROVE  LiveOK' /\ KilledOK' /\ SettleOK'
  <1>0. /\ PInv /\ RowsInv /\ LiveOK /\ KilledOK /\ SettleOK /\ MarketOK /\ HoldingsOK
    BY DEF AllInv, BoundsInv, WholeInv
  <1>1. ASSUME Quiet PROVE LiveOK' /\ KilledOK' /\ \A b \in Attempts : Live(b)' <=> Live(b)
    <2>1. bet' = bet /\ matched' = matched /\ \A b \in Attempts : SameRow(b) BY <1>1 DEF Quiet
    <2>2. \A b \in Attempts : Live(b)' <=> Live(b) BY <2>1 DEF SameRow, Live
    <2>3. LiveOK' BY <1>0, <2>1 DEF LiveOK, SameRow, Live, Remainder
    <2>4. KilledOK' BY <1>0, <2>1 DEF KilledOK, SameRow
    <2> QED BY <2>2, <2>3, <2>4
  <1>2. ASSUME NEW a \in Attempts, NEW r \in RowSet, MayTrade(a), attempt' = [attempt EXCEPT ![a] = r],
               r.state = "LIVE", UNCHANGED <<bet, matched, settle, market, wallet>>,
               IF r.dir = "EXIT" THEN bet # None /\ r.side = bet.side /\ r.size <= Remainder(bet)
               ELSE Remainder(bet) < Tick
        PROVE  LiveOK' /\ KilledOK' /\ SettleOK'
    <2>1. attempt'[a] = r /\ r # None /\ \A b \in Attempts : b # a => attempt'[b] = attempt[b]
      BY <1>0, <1>2, NoneAssumption DEF PInv, AttemptsOK
    <2>2. LiveOK' BY <1>0, <1>2, <2>1 DEF LiveOK, Live, Remainder
    <2>3. KilledOK' BY <1>0, <1>2, <2>1 DEF KilledOK
    <2>4. settle.at = "idle" BY <1>0, <1>2 DEF MarketOK, MayTrade
    <2>5. SettleOK' BY <1>2, <2>4 DEF SettleOK
    <2> QED BY <2>2, <2>3, <2>5
  <1>3. ASSUME NEW a \in Attempts, NEW side \in Sides, NEW size \in 1 .. MaxSize, Enter(a, side, size)
        PROVE  LiveOK' /\ KilledOK' /\ SettleOK'
    <2>1. PICK r : r = NewRow("ENTRY", side, size) OBVIOUS
    <2>2. attempt' = [attempt EXCEPT ![a] = r] /\ r \in RowSet /\ r.state = "LIVE" /\ r.dir = "ENTRY"
      BY <1>0, <1>3, <2>1, NewRows
    <2>3. MayTrade(a) /\ Remainder(bet) < Tick /\ UNCHANGED <<bet, matched, settle, market, wallet>>
      BY <1>3 DEF Enter
    <2> QED BY <1>2, <2>2, <2>3
  <1>4. ASSUME NEW a \in Attempts, Exit(a) PROVE LiveOK' /\ KilledOK' /\ SettleOK'
    <2>1. PICK r : r = NewRow("EXIT", bet.side, (Remainder(bet) \div Tick) * Tick) OBVIOUS
    <2>2. /\ attempt' = [attempt EXCEPT ![a] = r] /\ r \in RowSet /\ r.state = "LIVE" /\ r.dir = "EXIT"
          /\ r.side = bet.side /\ bet # None /\ r.size <= Remainder(bet)
      BY <1>0, <1>4, <2>1, NewRows
    <2>3. MayTrade(a) /\ UNCHANGED <<bet, matched, settle, market, wallet>> BY <1>4 DEF Exit
    <2> QED BY <1>2, <2>2, <2>3
  <1>5. ASSUME NEW a \in Attempts, Match(a) PROVE LiveOK' /\ KilledOK' /\ SettleOK'
    <2>1. UNCHANGED <<bet, attempt, settle>> /\ market = "OPEN" /\ attempt[a] # None /\ matched[a] = -1
          /\ \A b \in Attempts : b # a => matched'[b] = matched[b]
      BY <1>0, <1>5 DEF Match, PInv, AttemptsOK
    <2>2. attempt[a].state # "KILLED" BY <1>0, <2>1 DEF KilledOK
    <2>3. settle.at = "idle" BY <1>0, <2>1 DEF MarketOK
    <2> QED BY <1>0, <2>1, <2>2, <2>3 DEF LiveOK, KilledOK, SettleOK, Live, Remainder
  <1>6. ASSUME NEW a \in Attempts, Index(a) PROVE LiveOK' /\ KilledOK' /\ SettleOK'
    BY <1>0, <1>6 DEF Index, LiveOK, KilledOK, SettleOK, Live, Remainder
  <1>7. ASSUME Resolve PROVE LiveOK' /\ KilledOK' /\ SettleOK'
    <2>1. UNCHANGED <<bet, attempt, settle>> /\ market = "OPEN"
          /\ \A b \in Attempts : matched'[b] = matched[b] \/ matched'[b] = 0
      BY <1>7 DEF Resolve
    <2>2. settle.at = "idle" BY <1>0, <2>1 DEF MarketOK
    <2> QED BY <1>0, <2>1, <2>2 DEF LiveOK, KilledOK, SettleOK, Live, Remainder
  <1>8. ASSUME Consume PROVE LiveOK' /\ KilledOK' /\ SettleOK'
    <2>1. UNCHANGED <<attempt, matched>> /\ settle' = Idle /\ settle.at = "consume" BY <1>8 DEF Consume
    <2>2. \A a \in Attempts : ~Live(a) BY <1>0, <2>1 DEF SettleOK
    <2> QED BY <1>0, <2>1, <2>2 DEF LiveOK, KilledOK, SettleOK, Live, Idle
  <1>9. ASSUME NEW p \in Workers, \/ \E a \in Attempts : Read(p, a)
                                  \/ Probe(p) \/ TrueUp(p) \/ PassDies(p)
        PROVE  LiveOK' /\ KilledOK' /\ SettleOK'
    <2>1. UNCHANGED <<bet, wallet, settle>> BY <1>9 DEF Read, Probe, TrueUp, PassDies
    <2>2. Quiet BY <1>0, <1>9, QuietSteps
    <2> QED BY <1>0, <1>1, <2>1, <2>2 DEF SettleOK
  <1>10. ASSUME SettleDies \/ UNCHANGED vars PROVE LiveOK' /\ KilledOK' /\ SettleOK'
    <2>1. UNCHANGED <<bet, wallet>> /\ (settle' = settle \/ settle' = Idle) BY <1>10 DEF SettleDies, vars
    <2>2. Quiet BY <1>0, <1>10, QuietSteps
    <2> QED BY <1>0, <1>1, <2>1, <2>2 DEF SettleOK, Idle
  <1>11. ASSUME NEW side \in Sides, Redeem(side) PROVE LiveOK' /\ KilledOK' /\ SettleOK'
    <2>1. UNCHANGED <<bet, settle>> /\ wallet' = [wallet EXCEPT ![side] = 0] BY <1>11 DEF Redeem
    <2>2. Quiet BY <1>0, <1>11, QuietSteps
    <2>3. \A s \in Sides : wallet[s] = 0 => wallet'[s] = 0 BY <1>0, <2>1 DEF HoldingsOK
    <2>4. bet # None => bet.side \in Sides BY <1>0, BetShape
    <2> QED BY <1>0, <1>1, <2>1, <2>2, <2>3, <2>4 DEF SettleOK
  <1>12. ASSUME Scan PROVE LiveOK' /\ KilledOK' /\ SettleOK'
    <2>1. /\ settle' = [at |-> "plan", side |-> bet.side, rem |-> Remainder(bet)]
          /\ bet # None /\ bet' = bet /\ \A a \in Attempts : ~Live(a)
      BY <1>12 DEF Scan, Live, InFlight
    <2>2. Quiet BY <1>0, <1>12, QuietSteps
    <2> QED BY <1>1, <2>1, <2>2 DEF SettleOK
  <1>13. ASSUME Plan PROVE LiveOK' /\ KilledOK' /\ SettleOK'
    <2>1. /\ settle.at = "plan" /\ UNCHANGED <<bet, wallet>>
          /\ \/ settle' = Idle
             \/ settle' = [at |-> "consume", won |-> FALSE]
             \/ settle' = [at |-> "consume", won |-> TRUE] /\ ~TokenHeld(settle.side)
      BY <1>13 DEF Plan
    <2>2. Quiet BY <1>0, <1>13, QuietSteps
    <2>3. bet # None /\ settle.side = bet.side /\ \A a \in Attempts : ~Live(a) BY <1>0, <2>1 DEF SettleOK
    <2>4. ~TokenHeld(settle.side) => wallet[bet.side] = 0
      <3>1. bet.side \in Sides BY <1>0, <2>3, BetShape
      <3>2. wallet[bet.side] \in Nat BY <1>0, <3>1 DEF HoldingsOK
      <3> QED BY <2>3, <3>2 DEF TokenHeld
    <2> QED BY <1>1, <2>1, <2>2, <2>3, <2>4 DEF SettleOK, Idle
  <1> QED BY <1>3, <1>4, <1>5, <1>6, <1>7, <1>8, <1>9, <1>10, <1>11, <1>12, <1>13 DEF Next

\* So does every step from a state whose bookings are whole.
LEMMA WholeNext ==
    AllInv /\ AllInv' /\ BookedWhole /\ WholeInv /\ [Next]_vars => WholeInv'
  <1> SUFFICES ASSUME AllInv, AllInv', BookedWhole, WholeInv, [Next]_vars PROVE WholeInv'
    OBVIOUS
  <1>1. CASE \E p \in Workers : Book(p) BY <1>1, WholeBooks
  <1>2. CASE \A p \in Workers : ~Book(p)
    <2>1. Tokens' BY <1>2, TokensStay DEF WholeInv
    <2>2. LiveOK' /\ KilledOK' /\ SettleOK' BY <1>2, WholeRows
    <2> QED BY <2>1, <2>2, PaidWereBurnedStep DEF WholeInv
  <1> QED BY <1>1, <1>2

\* As long as every booking is whole, rows, tokens and settlement agree.
THEOREM WholeInvariance == Spec /\ []BookedWhole => []WholeInv
  <1>1. Init => WholeInv BY WholeInit
  <1> QED BY <1>1, WholeNext, AllInvariance, PTL DEF Spec

\* No share is a phantom as long as bookings are whole: what the position holds is backed by tokens in
\* the wallet, tokens burned for it or sales on their way (lib/trading.ts, lib/settlement.ts).
THEOREM NoPhantoms == Spec /\ []BookedWhole => []NoPhantomShares
  <1>1. AllInv /\ WholeInv => NoPhantomShares BY TokensBackTheRow DEF WholeInv
  <1> QED BY <1>1, WholeInvariance, AllInvariance, PTL

\* Nothing is booked as paid that the redeemer did not burn, as long as bookings are whole: finding 5
\* needs a booking in parts.
THEOREM PaidBacked == Spec /\ []BookedWhole => []PaidWereBurned
  <1>1. WholeInv => PaidWereBurned BY DEF WholeInv
  <1> QED BY <1>1, WholeInvariance, PTL

\* A booking that moves the position, or nothing but its own attempt.
LEMMA OwnLotStep ==
    ASSUME AllInv, BookedWhole, WholeInv, [Next]_vars, bet # None, bet' # bet,
           NEW x \in Attempts, attempt'[x] # attempt[x]
    PROVE  /\ attempt[x] # None => attempt[x].lot = None
           /\ bet'.filled > bet.filled => bet'.seq # bet.seq
  <1>0. PInv /\ RowsInv BY DEF AllInv
  <1>1. ASSUME NEW p \in Workers, Book(p)
        PROVE  /\ attempt[x] # None => attempt[x].lot = None
               /\ bet'.filled > bet.filled => bet'.seq # bet.seq
    <2>0. pass[p].at = "book" BY <1>1 DEF Book
    <2> PICK a \in Attempts : a = pass[p].a BY <1>0, <2>0, PassCarries DEF PInv
    <2> PICK n : n = pass[p].total OBVIOUS
    <2> PICK row : row = pass[p].row OBVIOUS
    <2>1. /\ Kept(a) /\ attempt[a] # None /\ Outcome(a, row, n)
          /\ n > attempt[a].booked => Live(a) /\ attempt[a].lot = None
          /\ ~Unbooked(a, n) => n > attempt[a].booked
          /\ ~Merged(a, row, n)
      BY <1>1, WholeBooking
    <2>2. x = a BY <2>1 DEF Kept
    <2>3. ~Unbooked(a, n) /\ ~Aside(a, row, n) BY DEF Unbooked, Aside
    <2>4. attempt[a].lot = None BY <2>1, <2>3
    <2>5. n \in Nat BY <1>0, <2>0, PassCarries DEF PInv
    <2>6. bet'.filled > bet.filled => bet'.seq # bet.seq
      <3>1. bet.filled \in Nat /\ bet.seq \in Nat BY <1>0, BetShape
      <3>2. Opened(a, row, n) => bet'.seq = bet.seq + 1 BY <1>0, <2>1, <2>5, BetMoved
      <3>3. Sold(a, row, n) => bet'.filled = bet.filled BY <1>0, <2>1, <2>5, BetMoved
      <3> QED BY <2>1, <2>3, <3>1, <3>2, <3>3 DEF Outcome
    <2> QED BY <2>2, <2>4, <2>6
  <1>2. CASE \A p \in Workers : ~Book(p)
    <2>1. Consume => attempt' = attempt BY DEF Consume
    <2>2. Quiet => bet' = bet BY DEF Quiet
    <2>3. \A a \in Attempts : (\E side \in Sides, size \in 1 .. MaxSize : Enter(a, side, size)) => bet' = bet
      BY DEF Enter
    <2>4. \A a \in Attempts : Exit(a) \/ Match(a) \/ Index(a) => bet' = bet BY DEF Exit, Match, Index
    <2>5. Resolve => bet' = bet BY DEF Resolve
    <2> QED BY <1>0, <1>2, <2>1, <2>2, <2>3, <2>4, <2>5, Steps
  <1> QED BY <1>1, <1>2

\* A lot grows only by entries of its own side, as long as bookings are whole: finding 3 needs one in
\* parts.
THEOREM OneSide == Spec /\ []BookedWhole => OneSidePerLot
  <1>1. AllInv /\ BookedWhole /\ WholeInv /\ [Next]_vars =>
          [\A a \in Attempts :
             bet # None /\ bet'.filled > bet.filled /\ bet'.seq = bet.seq /\ attempt'[a] # attempt[a]
               => attempt[a].side = bet.side]_vars
    <2> SUFFICES ASSUME AllInv, BookedWhole, WholeInv, [Next]_vars, NEW a \in Attempts,
                        bet # None, bet'.filled > bet.filled, bet'.seq = bet.seq, attempt'[a] # attempt[a]
                 PROVE  FALSE
      OBVIOUS
    <2>1. bet' # bet
      <3>1. bet.filled \in Nat BY BetShape DEF AllInv
      <3> QED BY <3>1
    <2> QED BY <2>1, OwnLotStep
  <1> QED BY <1>1, WholeInvariance, AllInvariance, PTL DEF Spec, OneSidePerLot

\* A booking that moves the position is of a row with no lot yet or with the current one, as long as
\* bookings are whole: finding 4 needs one in parts.
THEOREM OwnLot == Spec /\ []BookedWhole => LotKeepsItsOwn
  <1>1. AllInv /\ BookedWhole /\ WholeInv /\ [Next]_vars =>
          [\A a \in Attempts :
             attempt[a] # None /\ bet # None /\ bet' # bet /\ attempt'[a] # attempt[a]
               => attempt[a].lot \in {None, bet.seq}]_vars
    BY OwnLotStep
  <1> QED BY <1>1, WholeInvariance, AllInvariance, PTL DEF Spec, LotKeepsItsOwn

-----------------------------------------------------------------------------
(* An index that is prompt while the market trades.                         *)

\* While the market trades, the index shows a match in one piece or not at all.
IndexWhole ==
    /\ \A a \in Attempts : indexed[a] = 0 \/ indexed[a] = matched[a]
    /\ \A p \in Workers : pass[p].at \in {"book", "fees"} => pass[p].total = matched[pass[p].a]

\* At the start nothing is matched.
LEMMA PromptInit == Init => IndexWhole /\ BookedWhole
  <1> SUFFICES ASSUME Init PROVE IndexWhole /\ BookedWhole
    OBVIOUS
  <1>1. /\ \A a \in Attempts : attempt[a] = None /\ indexed[a] = 0
        /\ \A p \in Workers : pass[p].at = "idle"
    BY DEF Init, Idle
  <1> QED BY <1>1 DEF IndexWhole, BookedWhole

\* With an index that does not lag while the market trades, a pass is told all of a match or nothing.
LEMMA PromptNext ==
    ASSUME "trading" \notin Lag, AllInv, AllInv', IndexWhole, BookedWhole, [Next]_vars
    PROVE  IndexWhole' /\ BookedWhole'
  <1>0. PInv /\ RowsInv /\ PInv' /\ RowsInv' BY DEF AllInv
  <1>g. Grows BY <1>0, RowsMove
  <1>d. ASSUME NEW a \in Attempts, attempt[a] # None, attempt[a].state \in Booked
        PROVE  matched[a] >= 0 /\ matched'[a] = matched[a]
    <2>1. attempt[a].state # "LIVE" BY <1>d DEF Booked
    <2>2. matched[a] >= 0 BY <1>0, <1>d, <2>1 DEF RowsInv, RowOK
    <2> QED BY <1>g, <2>2 DEF Grows
  <1>1. \A a \in Attempts : indexed'[a] = 0 \/ indexed'[a] = matched'[a]
    <2> SUFFICES ASSUME NEW a \in Attempts PROVE indexed'[a] = 0 \/ indexed'[a] = matched'[a]
      OBVIOUS
    <2>0. /\ matched[a] \in Int /\ indexed[a] \in Nat /\ (indexed[a] = 0 \/ indexed[a] = matched[a])
          /\ matched[a] >= 0 => matched'[a] = matched[a]
      BY <1>0, <1>g, RowShape DEF IndexWhole, Grows
    <2>1. CASE indexed'[a] = indexed[a] BY <2>0, <2>1
    <2>2. ASSUME NEW b \in Attempts, Index(b) PROVE indexed'[a] = 0 \/ indexed'[a] = matched'[a]
      <3>1. CASE b # a BY <1>0, <2>1, <2>2, <3>1 DEF Index, PInv, AttemptsOK
      <3>2. CASE b = a
        <4>1. indexed' = [indexed EXCEPT ![a] = matched[a]] /\ matched' = matched BY <2>2, <3>2 DEF Index
        <4> QED BY <1>0, <4>1 DEF PInv, AttemptsOK
      <3> QED BY <3>1, <3>2
    <2>3. ASSUME NEW b \in Attempts,
                 \/ \E side \in Sides, size \in 1 .. MaxSize : Enter(b, side, size)
                 \/ Exit(b) \/ Match(b) \/ \E p \in Workers : Read(p, b)
          PROVE  indexed'[a] = indexed[a]
      BY <2>3 DEF Enter, Exit, Match, Read
    <2>4. ASSUME NEW p \in Workers, Probe(p) \/ Book(p) \/ TrueUp(p) \/ PassDies(p)
          PROVE  indexed'[a] = indexed[a]
      BY <2>4 DEF Probe, Book, TrueUp, PassDies
    <2>5. ASSUME \/ \E side \in Sides : Redeem(side)
                 \/ Resolve \/ Scan \/ Plan \/ Consume \/ SettleDies \/ UNCHANGED vars
          PROVE  indexed'[a] = indexed[a]
      BY <2>5 DEF Redeem, Resolve, Scan, Plan, Consume, SettleDies, vars
    <2> QED BY <2>1, <2>2, <2>3, <2>4, <2>5 DEF Next
  <1>2. ASSUME NEW q \in Workers, pass'[q].at \in {"book", "fees"}
        PROVE  pass'[q].total = matched'[pass'[q].a]
    <2>1. ASSUME pass'[q] = pass[q] PROVE pass'[q].total = matched'[pass'[q].a]
      <3>0. pass[q].at \in {"book", "fees"} BY <1>2, <2>1
      <3> PICK a \in Attempts : a = pass[q].a BY <1>0, <3>0, PassCarries DEF PInv
      <3>1. pass[q].total = matched[a] /\ pass[q].total \in Nat
        BY <1>0, <3>0, PassCarries DEF IndexWhole, PInv
      <3>2. matched'[a] = matched[a] BY <1>g, <3>1 DEF Grows
      <3> QED BY <2>1, <3>1, <3>2
    <2>2. ASSUME NEW p \in Workers, Probe(p) PROVE pass'[q].total = matched'[pass'[q].a]
      <3>1. CASE q # p BY <1>0, <2>1, <2>2, <3>1 DEF Probe, PInv, PassesOK
      <3>2. CASE q = p
        <4>0. pass[q].at = "probe" BY <2>2, <3>2 DEF Probe
        <4> PICK a \in Attempts : a = pass[q].a BY <1>0, <4>0, PassCarries DEF PInv
        <4>1. /\ pass'[q] = [at |-> "book", a |-> a, row |-> pass[q].row, total |-> indexed[a],
                             terminal |-> indexed[a] = matched[a]]
              /\ indexed[a] > 0 \/ matched[a] = 0
              /\ matched' = matched
          BY <1>0, <2>2, <3>2 DEF Probe, PInv, PassesOK
        <4>2. indexed[a] = matched[a]
          <5>1. indexed[a] \in Nat /\ (indexed[a] = 0 \/ indexed[a] = matched[a])
            BY <1>0, RowShape DEF IndexWhole
          <5> QED BY <4>1, <5>1
        <4> QED BY <4>1, <4>2
      <3> QED BY <3>1, <3>2
    <2>3. ASSUME NEW p \in Workers, Book(p) PROVE pass'[q].total = matched'[pass'[q].a]
      <3>1. CASE q # p BY <1>0, <2>1, <2>3, <3>1 DEF Book, PInv, PassesOK
      <3>2. CASE q = p
        <4>0. pass[q].at = "book" BY <2>3, <3>2 DEF Book
        <4> PICK a \in Attempts : a = pass[q].a BY <1>0, <4>0, PassCarries DEF PInv
        <4>1. /\ pass'[q].a = a /\ pass'[q].total = pass[q].total
              /\ matched' = matched
          <5>1. pass'[q] = Idle \/
                pass'[q] = [at |-> "fees", a |-> a, total |-> pass[q].total,
                            terminal |-> pass[q].terminal /\ Delta(p) = 0]
            BY <1>0, <2>3, <3>2 DEF Book, PInv, PassesOK
          <5>2. pass'[q] # Idle BY <1>2 DEF Idle
          <5> QED BY <2>3, <5>1, <5>2 DEF Book
        <4> QED BY <4>0, <4>1 DEF IndexWhole
      <3> QED BY <3>1, <3>2
    <2>4. ASSUME NEW p \in Workers, NEW a \in Attempts, Read(p, a)
          PROVE  pass'[q].total = matched'[pass'[q].a]
      <3>1. CASE q # p BY <1>0, <2>1, <2>4, <3>1 DEF Read, PInv, PassesOK
      <3>2. CASE q = p BY <1>0, <1>2, <2>4, <3>2 DEF Read, PInv, PassesOK
      <3> QED BY <3>1, <3>2
    <2>5. ASSUME NEW p \in Workers, TrueUp(p) \/ PassDies(p) PROVE pass'[q].total = matched'[pass'[q].a]
      <3>1. CASE q # p BY <1>0, <2>1, <2>5, <3>1 DEF TrueUp, PassDies, PInv, PassesOK
      <3>2. CASE q = p BY <1>0, <1>2, <2>5, <3>2 DEF TrueUp, PassDies, PInv, PassesOK, Idle
      <3> QED BY <3>1, <3>2
    <2>6. ASSUME NEW a \in Attempts,
                 \/ \E side \in Sides, size \in 1 .. MaxSize : Enter(a, side, size)
                 \/ Exit(a) \/ Match(a) \/ Index(a)
          PROVE  pass' = pass
      BY <2>6 DEF Enter, Exit, Match, Index
    <2>7. ASSUME \/ \E side \in Sides : Redeem(side)
                 \/ Resolve \/ Scan \/ Plan \/ Consume \/ SettleDies \/ UNCHANGED vars
          PROVE  pass' = pass
      BY <2>7 DEF Redeem, Resolve, Scan, Plan, Consume, SettleDies, vars
    <2> QED BY <2>1, <2>2, <2>3, <2>4, <2>5, <2>6, <2>7 DEF Next
  <1>3. BookedWhole'
    <2> SUFFICES ASSUME NEW b \in Attempts, attempt'[b] # None, attempt'[b].state \in Booked
                 PROVE  attempt'[b].booked = matched'[b]
      BY DEF BookedWhole
    <2>1. ASSUME SameRow(b) PROVE attempt'[b].booked = matched'[b]
      <3>1. attempt[b] # None /\ attempt[b].state \in Booked /\ attempt'[b].booked = attempt[b].booked
        BY <2>1 DEF SameRow
      <3> QED BY <1>d, <3>1 DEF BookedWhole
    <2>2. CASE Quiet BY <2>1, <2>2 DEF Quiet
    <2>3. ASSUME NEW a \in Attempts, NEW r \in RowSet, r.state = "LIVE", attempt' = [attempt EXCEPT ![a] = r]
          PROVE  attempt'[b].booked = matched'[b]
      <3>1. CASE b = a BY <1>0, <2>3, <3>1 DEF PInv, AttemptsOK, Booked
      <3>2. CASE b # a BY <1>0, <2>1, <2>3, <3>2 DEF PInv, AttemptsOK, SameRow
      <3> QED BY <3>1, <3>2
    <2>4. ASSUME NEW a \in Attempts, NEW side \in Sides, NEW size \in 1 .. MaxSize, Enter(a, side, size)
          PROVE  attempt'[b].booked = matched'[b]
      <3>1. PICK r : r = NewRow("ENTRY", side, size) OBVIOUS
      <3>2. attempt' = [attempt EXCEPT ![a] = r] /\ r \in RowSet /\ r.state = "LIVE"
        BY <1>0, <2>4, <3>1, NewRows
      <3> QED BY <2>3, <3>2
    <2>5. ASSUME NEW a \in Attempts, Exit(a) PROVE attempt'[b].booked = matched'[b]
      <3>1. PICK r : r = NewRow("EXIT", bet.side, (Remainder(bet) \div Tick) * Tick) OBVIOUS
      <3>2. attempt' = [attempt EXCEPT ![a] = r] /\ r \in RowSet /\ r.state = "LIVE"
        BY <1>0, <2>5, <3>1, NewRows
      <3> QED BY <2>3, <3>2
    <2>6. ASSUME (\E a \in Attempts : Match(a) \/ Index(a)) \/ Resolve \/ Consume
          PROVE  attempt'[b].booked = matched'[b]
      <3>1. attempt' = attempt BY <2>6 DEF Match, Index, Resolve, Consume
      <3> QED BY <2>1, <3>1 DEF SameRow
    <2>7. ASSUME NEW p \in Workers, Book(p) PROVE attempt'[b].booked = matched'[b]
      <3>0. pass[p].at = "book" BY <2>7 DEF Book
      <3> PICK a \in Attempts : a = pass[p].a BY <1>0, <3>0, PassCarries DEF PInv
      <3> PICK n : n = pass[p].total OBVIOUS
      <3> PICK row : row = pass[p].row OBVIOUS
      <3>1. Kept(a) /\ Outcome(a, row, n) /\ attempt[a] # None
        BY <1>0, <2>7, <3>0, BookOutcome DEF RowsInv, PassOK
      <3>2. matched' = matched /\ n = matched[a] BY <2>7, <3>0 DEF Book, IndexWhole
      <3>3. CASE b # a BY <2>1, <3>1, <3>3 DEF Kept, SameRow
      <3>4. CASE b = a /\ Unbooked(a, n)
        <4>1. attempt[a].state = attempt'[a].state /\ attempt'[a].booked = attempt[a].booked
          BY <3>4 DEF Unbooked, Booked
        <4> QED BY <3>1, <3>2, <3>4, <4>1 DEF BookedWhole
      <3>5. CASE b = a /\ ~Unbooked(a, n)
        <4>1. attempt'[a].booked = n BY <3>1, <3>5 DEF Outcome, Aside, Merged, Opened, Sold, BookedAs
        <4> QED BY <3>2, <3>5, <4>1
      <3> QED BY <3>3, <3>4, <3>5
    <2> QED BY <1>0, <2>2, <2>4, <2>5, <2>6, <2>7, Steps
  <1> QED BY <1>1, <1>2, <1>3 DEF IndexWhole

\* Bookings are whole, for any number of attempts and passes and any lag after the market has closed,
\* if the index shows the trades of a match at once while it trades (lib/polymarket.ts, the total of
\* the maker and taker trades that a pass sums up).
THEOREM PromptIndexBooksWhole ==
    ASSUME "trading" \notin Lag
    PROVE  Spec => []BookedWhole
  <1>1. AllInv /\ AllInv' /\ IndexWhole /\ BookedWhole /\ [Next]_vars => IndexWhole' /\ BookedWhole'
    BY PromptNext
  <1> QED BY <1>1, PromptInit, AllInvariance, PTL DEF Spec

\* Then no share is a phantom, no payment is of tokens that were not burned, no lot grows by
\* the other side and no fill lands on a lot its row is not of: the four properties of the runs, with
\* no assumption on the bookings.
THEOREM PromptIndexBacked ==
    ASSUME "trading" \notin Lag
    PROVE  /\ Spec => []NoPhantomShares
           /\ Spec => []PaidWereBurned
           /\ Spec => OneSidePerLot
           /\ Spec => LotKeepsItsOwn
  BY PromptIndexBooksWhole, NoPhantoms, PaidBacked, OneSide, OwnLot, PTL

-----------------------------------------------------------------------------
(* The contract of a lot.                                                   *)

\* The sweep and the bookings may alternate.  On a closed market a lot neither grows past a tick
\* nor shrinks below it, so what the sweep planned is still right when it is carried out.
PlanHolds ==
    /\ settle.at \in {"idle", "plan", "consume"}
    /\ settle.at # "idle" => market # "OPEN" /\ bet # None
    /\ settle.at = "plan" =>
          /\ settle.side = bet.side
          /\ Remainder(bet) > 0 => (settle.rem >= Tick <=> Remainder(bet) >= Tick)
    /\ settle.at = "consume" /\ Remainder(bet) > 0 =>
          (settle.won <=> Remainder(bet) >= Tick /\ market \in {bet.side, "CANCELED"})

\* A booking of the contract: nothing, a new lot, or more or less of the one there is.
LotMoves == \/ bet' = bet
            \/ Contract!Open /\ (market = "OPEN" \/ bet = None)
            \/ /\ Contract!Grow /\ bet' # None /\ bet'.side = bet.side
               /\ Remainder(bet) >= Tick /\ Remainder(bet') >= Tick
            \/ /\ Contract!Sell /\ bet' # None /\ bet'.side = bet.side
               /\ Remainder(bet') = 0 \/ (Remainder(bet) >= Tick /\ Remainder(bet') >= Tick)

\* The contract counts what is left as the ledger does.
LEMMA SameRemainder == \A b : Contract!Held(b) = Remainder(b)
  BY DEF Contract!Held, Remainder

\* An entry adds to a lot of a tick or more.
LEMMA MergedGrows ==
    ASSUME PInv, NEW a \in Attempts, attempt[a] \in RowSet, NEW row, NEW n \in Nat,
           n > attempt[a].booked, Merged(a, row, n), UNCHANGED <<market, paid>>
    PROVE  /\ Contract!Grow /\ bet' # None /\ bet'.side = bet.side
           /\ Remainder(bet) >= Tick /\ Remainder(bet') >= Tick
  <1> DEFINE f == bet.filled + (n - attempt[a].booked)
  <1>1. bet # None /\ Remainder(bet) >= Tick /\ bet' = [bet EXCEPT !.filled = f] /\ bet \in BetSet
    BY BetShape DEF Merged
  <1>2. attempt[a].booked \in Nat /\ f \in Nat /\ f > bet.filled
    BY <1>1 DEF RowSet, BetSet
  <1> HIDE DEF f
  <1>3. /\ bet'.filled = f /\ bet'.closed = bet.closed /\ bet'.side = bet.side
        /\ bet' \in BetSet
    BY <1>1, <1>2 DEF BetSet
  <1>4. bet' = [bet EXCEPT !.filled = bet'.filled]
    BY <1>1, <1>3
  <1>5. bet' # None
    BY <1>3, NoneAssumption
  <1>6. Remainder(bet') >= Remainder(bet)
    BY <1>1, <1>2, <1>3, <1>5 DEF Remainder, BetSet
  <1>7. Remainder(bet) \in Int /\ Remainder(bet') \in Int
    BY <1>1, <1>3, <1>5 DEF Remainder, BetSet
  <1>8. Contract!Grow
    BY <1>1, <1>2, <1>3, <1>4, SameRemainder DEF Contract!Grow
  <1> QED BY <1>1, <1>3, <1>5, <1>6, <1>7, <1>8, TickAssumption

\* An entry opens a lot.
LEMMA OpenedOpens ==
    ASSUME PInv, NEW a \in Attempts, attempt[a] \in RowSet, NEW row, NEW n \in Nat,
           n > attempt[a].booked, Opened(a, row, n), UNCHANGED <<market, paid>>
    PROVE  Contract!Open /\ (market = "OPEN" \/ bet = None)
  <1> DEFINE f == n - attempt[a].booked
             q == IF bet = None THEN 0 ELSE bet.seq + 1
  <1>1. attempt[a].side \in Sides /\ attempt[a].booked \in Nat /\ f \in Nat /\ f > 0
    BY DEF RowSet
  <1>2. bet' = [side |-> attempt[a].side, filled |-> f, closed |-> 0, seq |-> q, settled |-> FALSE]
    BY DEF Opened
  <1>3. bet = None \/ (Remainder(bet) < Tick /\ market = "OPEN")
    BY DEF Opened
  <1>4. bet' \in BetSet
    BY <1>1, <1>2, BetShape DEF BetSet
  <1> HIDE DEF f
  <1>5. bet'.side = attempt[a].side /\ bet'.filled = f /\ bet' # None
    BY <1>2, <1>4, NoneAssumption
  <1>6. Contract!Open
    BY <1>1, <1>2, <1>3, <1>5, SameRemainder DEF Contract!Open
  <1> QED BY <1>3, <1>6

\* A sale leaves nothing of the lot, or a tick at least.
LEMMA SoldSells ==
    ASSUME PInv, NEW a \in Attempts, attempt[a] \in RowSet, NEW row, NEW n \in Nat,
           n > attempt[a].booked, Sold(a, row, n), UNCHANGED <<market, paid>>
    PROVE  /\ Contract!Sell /\ bet' # None /\ bet'.side = bet.side
           /\ Remainder(bet') = 0 \/ (Remainder(bet) >= Tick /\ Remainder(bet') >= Tick)
  <1> DEFINE c == Closing(n - attempt[a].booked)
             k == bet.closed + c
  <1>1. /\ bet # None /\ bet \in BetSet
        /\ bet.filled \in Nat /\ bet.closed \in Nat /\ bet.closed <= bet.filled
        /\ bet.settled \in BOOLEAN
        /\ bet.settled => bet.closed = bet.filled
    BY BetShape DEF Sold, BetSet
  <1>2. attempt[a].booked \in Nat /\ n - attempt[a].booked \in Nat /\ n - attempt[a].booked > 0
    BY DEF RowSet
  <1>3. Remainder(bet) = bet.filled - bet.closed /\ Remainder(bet) \in Nat
    BY <1>1 DEF Remainder
  <1>4. /\ c \in Nat /\ c <= Remainder(bet)
        /\ Remainder(bet) > 0 => c > 0
        /\ Remainder(bet) - c = 0 \/ Remainder(bet) - c >= Tick
    BY <1>2, <1>3, TickAssumption DEF Closing, Smaller
  <1>5. /\ bet' \in BetSet /\ bet'.side = bet.side /\ bet'.seq = bet.seq
        /\ bet'.filled = bet.filled /\ bet'.closed = k
        /\ bet'.settled <=> (bet.settled \/ c = Remainder(bet))
    BY BetMoved, NoneAssumption
  <1> HIDE DEF c
  <1>6. k \in Nat /\ bet' # None /\ Remainder(bet') = Remainder(bet) - c
    BY <1>1, <1>3, <1>4, <1>5, NoneAssumption DEF Remainder
  <1>7. ~bet.settled /\ k > bet.closed
    BY <1>1, <1>3, <1>4 DEF Sold
  <1>8. Remainder(bet') = 0 \/ (Remainder(bet) >= Tick /\ Remainder(bet') >= Tick)
    BY <1>3, <1>4, <1>6, TickAssumption
  <1>9. bet' = [bet EXCEPT !.closed = bet'.closed, !.settled = (bet'.closed = bet.filled)]
    <2>1. bet'.settled <=> (k = bet.filled)
      BY <1>1, <1>3, <1>4, <1>5, <1>7
    <2>2. bet' = [bet EXCEPT !.closed = k, !.settled = bet'.settled]
      BY <1>1, <1>5 DEF BetSet
    <2>3. CASE k = bet.filled
      <3>1. bet'.settled = TRUE
        BY <2>1, <2>3, <1>5 DEF BetSet
      <3> QED BY <1>5, <2>2, <2>3, <3>1
    <2>4. CASE k # bet.filled
      <3>1. bet'.settled = FALSE
        BY <2>1, <2>4, <1>5 DEF BetSet
      <3> QED BY <1>5, <2>2, <2>4, <3>1
    <2> QED BY <2>3, <2>4
  <1>10. Contract!Sell
    <2>1. Contract!Held(bet') = 0 \/ Contract!Held(bet') >= Tick
      BY <1>8, SameRemainder
    <2>2. bet'.closed > bet.closed
      BY <1>5, <1>7
    <2> QED BY <1>1, <1>9, <2>1, <2>2 DEF Contract!Sell
  <1> QED BY <1>5, <1>6, <1>8, <1>10

\* A booking keeps the contract.
LEMMA BookingOnLot ==
    ASSUME PInv, RowsInv, NEW p \in Workers, Book(p)
    PROVE  LotMoves
  <1> DEFINE a == pass[p].a
             row == pass[p].row
             n == pass[p].total
  <1>1. a \in Attempts /\ attempt[a] \in RowSet /\ pass[p].total \in Nat
    BY PassCarries, BookOutcome DEF PInv, Book
  <1>2. Outcome(a, row, n) /\ UNCHANGED <<market, paid>>
    BY <1>1, BookOutcome DEF Book
  <1>3. n > attempt[a].booked \/ Unbooked(a, n)
    BY <1>2 DEF Outcome, Aside, Merged, Opened, Sold, BookedAs
  <1> HIDE DEF a, row, n
  <1>4. CASE Unbooked(a, n) \/ Aside(a, row, n)
    BY <1>4 DEF Unbooked, Aside, LotMoves
  <1>5. CASE Merged(a, row, n)
    <2>1. n > attempt[a].booked BY <1>5 DEF Merged, BookedAs
    <2> QED BY <1>1, <1>2, <1>5, <2>1, MergedGrows DEF LotMoves, n
  <1>6. CASE Opened(a, row, n)
    <2>1. n > attempt[a].booked BY <1>6 DEF Opened, BookedAs
    <2> QED BY <1>1, <1>2, <1>6, <2>1, OpenedOpens DEF LotMoves, n
  <1>7. CASE Sold(a, row, n)
    <2>1. n > attempt[a].booked BY <1>7 DEF Sold, BookedAs
    <2> QED BY <1>1, <1>2, <1>7, <2>1, SoldSells DEF LotMoves, n
  <1> QED BY <1>2, <1>4, <1>5, <1>6, <1>7 DEF Outcome

\* The settlement carries out what the contract says.
LEMMA ConsumeSettles ==
    ASSUME PInv, PlanHolds, Consume, bet' # bet \/ paid' # paid
    PROVE  Contract!Settle
  <1>1. /\ settle.at = "consume" /\ market # "OPEN" /\ bet # None
        /\ Remainder(bet) > 0
        /\ bet' = [bet EXCEPT !.closed = bet.filled, !.settled = TRUE]
        /\ paid' = IF settle.won THEN paid + Remainder(bet) ELSE paid
        /\ UNCHANGED market
    BY DEF Consume, PlanHolds
  <1>2. settle.won <=> Remainder(bet) >= Tick /\ market \in {bet.side, "CANCELED"}
    BY <1>1 DEF PlanHolds
  <1>3. paid' = IF Remainder(bet) >= Tick /\ market \in {bet.side, "CANCELED"}
                THEN paid + Remainder(bet) ELSE paid
    BY <1>1, <1>2
  <1> QED BY <1>1, <1>3, SameRemainder DEF Contract!Settle

\* Bookings and the sweep leave the plan of the sweep right.
LEMMA SettleStays ==
    ASSUME PInv, RowsInv, PlanHolds, [Next]_vars
    PROVE  PlanHolds'
  <1>1. ASSUME NEW p \in Workers, Book(p) PROVE PlanHolds'
    <2>0. UNCHANGED <<market, settle>>
      BY <1>1 DEF Book
    <2>1. LotMoves
      BY <1>1, BookingOnLot
    <2>2. CASE settle.at = "idle" \/ bet' = bet
      BY <2>0, <2>2 DEF PlanHolds, Remainder
    <2>3. CASE settle.at # "idle" /\ bet' # bet
      <3>1. market # "OPEN" /\ bet # None
        BY <2>3 DEF PlanHolds
      <3>2. /\ bet'.side = bet.side
            /\ \/ Remainder(bet') = 0
               \/ Remainder(bet) >= Tick /\ Remainder(bet') >= Tick
        BY <2>1, <2>3, <3>1 DEF LotMoves
      <3>3. bet' # None
        BY <2>1, <2>3, <3>1 DEF LotMoves
      <3>4. Remainder(bet)' = Remainder(bet')
        BY DEF Remainder
      <3>5. Remainder(bet)' > 0 => Remainder(bet) > 0 /\ (Remainder(bet)' >= Tick <=> Remainder(bet) >= Tick)
        BY <3>2, <3>4, TickAssumption, RemainderIsNat DEF PInv
      <3> QED BY <2>0, <2>3, <3>1, <3>2, <3>3, <3>5 DEF PlanHolds
    <2> QED BY <2>2, <2>3
  <1>2. ASSUME Scan PROVE PlanHolds'
    <2>1. settle' = [at |-> "plan", side |-> bet.side, rem |-> Remainder(bet)]
          /\ market # "OPEN" /\ bet # None /\ UNCHANGED <<market, bet>>
      BY <1>2 DEF Scan
    <2> QED BY <2>1 DEF PlanHolds, Remainder
  <1>3. ASSUME Plan PROVE PlanHolds'
    <2>1. settle.at = "plan" /\ UNCHANGED <<market, bet>>
      BY <1>3 DEF Plan
    <2>2. market # "OPEN" /\ bet # None /\ settle.side = bet.side
          /\ (Remainder(bet) > 0 => (settle.rem >= Tick <=> Remainder(bet) >= Tick))
      BY <2>1 DEF PlanHolds
    <2>3. CASE settle' = Idle
      BY <2>3 DEF PlanHolds, Idle
    <2>4. CASE settle' # Idle
      <3>1. settle' = [at |-> "consume",
                       won |-> market \in {settle.side, "CANCELED"} /\ settle.rem >= Tick]
        BY <1>3, <2>4 DEF Plan
      <3>2. settle'.at = "consume"
            /\ (settle'.won <=> market \in {settle.side, "CANCELED"} /\ settle.rem >= Tick)
        BY <3>1
      <3> QED BY <2>1, <2>2, <3>2 DEF PlanHolds, Remainder
    <2> QED BY <2>3, <2>4
  <1>4. ASSUME Consume \/ SettleDies PROVE PlanHolds'
    BY <1>4 DEF Consume, SettleDies, PlanHolds, Idle
  <1>5. ASSUME Resolve PROVE PlanHolds'
    <2>1. settle.at = "idle" /\ settle' = settle
      BY <1>5 DEF Resolve, PlanHolds
    <2> QED BY <2>1 DEF PlanHolds
  <1>6. ASSUME NEW a \in Attempts,
               \/ \E side \in Sides, size \in 1 .. MaxSize : Enter(a, side, size)
               \/ Exit(a) \/ Match(a) \/ Index(a)
               \/ \E p \in Workers : Read(p, a)
        PROVE  PlanHolds'
    <2>1. UNCHANGED <<market, bet, settle>>
      BY <1>6 DEF Enter, Exit, Match, Index, Read
    <2> QED BY <2>1 DEF PlanHolds, Remainder
  <1>7. ASSUME NEW p \in Workers, Probe(p) \/ TrueUp(p) \/ PassDies(p) PROVE PlanHolds'
    <2>1. UNCHANGED <<market, bet, settle>>
      BY <1>7 DEF Probe, TrueUp, PassDies
    <2> QED BY <2>1 DEF PlanHolds, Remainder
  <1>8. ASSUME (\E side \in Sides : Redeem(side)) \/ UNCHANGED vars PROVE PlanHolds'
    <2>1. UNCHANGED <<market, bet, settle>>
      BY <1>8 DEF Redeem, vars
    <2> QED BY <2>1 DEF PlanHolds, Remainder
  <1> QED BY <1>1, <1>2, <1>3, <1>4, <1>5, <1>6, <1>7, <1>8 DEF Next

\* Every step is a step of the contract or changes nothing it speaks of.
LEMMA LotStep ==
    ASSUME PInv, RowsInv, PlanHolds, [Next]_vars
    PROVE  [Contract!Next]_Contract!lotVars
  <1> DEFINE Still == UNCHANGED <<market, bet, paid>>
  <1>1. ASSUME NEW p \in Workers, Book(p) PROVE Contract!Next \/ Still
    <2>1. UNCHANGED <<market, paid>>
      BY <1>1 DEF Book
    <2>2. LotMoves
      BY <1>1, BookingOnLot
    <2> QED BY <2>1, <2>2 DEF LotMoves, Contract!Next
  <1>2. ASSUME Consume PROVE Contract!Next \/ Still
    <2>1. CASE bet' # bet \/ paid' # paid
      BY <1>2, <2>1, ConsumeSettles DEF Contract!Next
    <2>2. CASE bet' = bet /\ paid' = paid
      BY <1>2, <2>2 DEF Consume
    <2> QED BY <2>1, <2>2
  <1>3. ASSUME Resolve PROVE Contract!Next
    <2>1. Contract!Close
      BY <1>3 DEF Resolve, Contract!Close
    <2> QED BY <2>1 DEF Contract!Next
  <1>4. ASSUME NEW a \in Attempts,
               \/ \E side \in Sides, size \in 1 .. MaxSize : Enter(a, side, size)
               \/ Exit(a) \/ Match(a) \/ Index(a)
               \/ \E p \in Workers : Read(p, a)
        PROVE  Still
    BY <1>4 DEF Enter, Exit, Match, Index, Read
  <1>5. ASSUME NEW p \in Workers, Probe(p) \/ TrueUp(p) \/ PassDies(p) PROVE Still
    BY <1>5 DEF Probe, TrueUp, PassDies
  <1>6. ASSUME \/ \E side \in Sides : Redeem(side)
               \/ Scan \/ Plan \/ SettleDies \/ UNCHANGED vars
        PROVE  Still
    BY <1>6 DEF Redeem, Scan, Plan, SettleDies, vars
  <1>7. Contract!Next \/ Still
    BY <1>1, <1>2, <1>3, <1>4, <1>5, <1>6 DEF Next
  <1> QED BY <1>7 DEF Contract!lotVars

\* orders.ts, reconcile.ts, real-settle.ts: whatever passes book and however the trade index lags,
\* the position goes through the life of a lot, and the sweep that reads, plans and closes it in
\* separate steps pays the winner's remainder in full and once, dust and losers nothing.
THEOREM ImplementsLot == Spec => KeepsLotContract
  <1>1. Init => PlanHolds /\ Contract!Init
    BY DEF Init, PlanHolds, Idle, Contract!Init
  <1>2. PInv /\ RowsInv /\ PlanHolds /\ [Next]_vars => PlanHolds'
    BY SettleStays
  <1>3. PInv /\ RowsInv /\ PlanHolds /\ [Next]_vars => [Contract!Next]_Contract!lotVars
    BY LotStep
  <1> QED BY <1>1, <1>2, <1>3, RowsInvariance, PTL DEF Spec, KeepsLotContract, Contract!Spec
=============================================================================
