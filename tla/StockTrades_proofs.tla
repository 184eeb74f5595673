--------------------------- MODULE StockTrades_proofs ---------------------------
(***************************************************************************)
(* Proofs about StockTrades, for any number of attempts, wallet refreshes, *)
(* transfers outside the app and handlers under way, and any validity.     *)
(*                                                                         *)
(* None of the properties is inductive.  That only a stale read writes off *)
(* a landed trade needs what an unstamped sponsored row says of the chain, *)
(* and that an expired one can no longer land.  That a lot is sold once,   *)
(* besides the sales that were lost, needs that it has at most one sale    *)
(* which is pending or confirmed and was not lost, and that a confirmed    *)
(* sale closed it.  That a refresh keeps fresh lots needs that each booked *)
(* buy has left its slot in the wallet's clock.  That no token is on the   *)
(* books twice needs that a buy still to be booked landed after the        *)
(* accepted snapshot, and that a sale which waits for a human keeps doing  *)
(* so.                                                                     *)
(*                                                                         *)
(* The last part proves that the trades implement TradeContract, from what *)
(* a confirmed trade leaves behind.                                        *)
(***************************************************************************)
EXTENDS StockTrades, SequenceTheorems, SumLemmas

IsSell(a) == attempts[a].kind = "SELL"
Alive(a) == attempts[a].status \in {"PENDING", "CONFIRMED"}

\* Rows get their ids in order.
IdsInOrder == \E n \in 0..MaxAttempts : {a \in Ids : attempts[a].status # "none"} = 1..n

\* A sale holds its lot: it is in flight or done, and was not lost.
Holds(a) == Alive(a) /\ a \notin lost

\* What a row says of its transaction.  A trade that was lost had landed; a sale that waits
\* for a human has landed, and its lot went to another sale.
RowOK(a) ==
    /\ attempts[a].status = "none" => tx[a].state = "none"
    /\ attempts[a].sponsored /\ ~attempts[a].stamped => tx[a].state = "none"
    /\ attempts[a].sponsored /\ attempts[a].status = "EXPIRED" =>
         /\ tx[a].state = "landed" => a \in lost
         /\ tx[a].state = "sent" => height > attempts[a].lastValid
    /\ attempts[a].status = "FAILED" => tx[a].state = "failed"
    /\ attempts[a].kind = "SELL" => attempts[a].sponsored /\ attempts[a].lot \in DOMAIN lots
    /\ attempts[a].kind = "SELL" /\ attempts[a].status = "CONFIRMED" =>
         lots[attempts[a].lot].closed
    /\ a \in lost => tx[a].state = "landed" /\ attempts[a].status \in {"EXPIRED", "CONFIRMED"}
    /\ attempts[a].review =>
         /\ attempts[a].kind = "SELL" /\ attempts[a].status = "PENDING"
         /\ tx[a].state = "landed"
         /\ lots[attempts[a].lot].soldBy # 0 /\ lots[attempts[a].lot].soldBy # a

\* One buy is in flight, and one sale holds a lot.
LiveOK ==
    \A a, b \in Ids :
        attempts[a].kind = attempts[b].kind =>
          /\ attempts[a].status = "PENDING" /\ attempts[b].status = "PENDING"
               /\ attempts[a].kind = "BUY" => a = b
          /\ Holds(a) /\ Holds(b) /\ IsSell(a) /\ attempts[a].lot = attempts[b].lot => a = b

\* What a lot says of the trades that made and closed it.
LotOK(l) ==
    /\ lots[l].by # 0 => tx[lots[l].by].state = "landed" /\ tx[lots[l].by].slot <= receiptSlot
    /\ lots[l].soldBy # 0 => lots[l].closed
    /\ lots[l].reason = "sold" => lots[l].soldBy # 0

RowsOK == \A a \in Ids : RowOK(a)
LotsOK == \A l \in DOMAIN lots : LotOK(l)

Inv == TypeOK /\ IdsInOrder /\ LiveOK /\ RowsOK /\ LotsOK

\* Lots stay, closed ones stay closed, and a sale that was noted stays noted.
LotsMoveOn ==
    \A l \in DOMAIN lots :
        /\ l \in DOMAIN lots' /\ (lots[l].closed => lots'[l].closed)
        /\ lots[l].soldBy # 0 => lots'[l].soldBy = lots[l].soldBy

-----------------------------------------------------------------------------
(* The types the steps start from.                                          *)

LEMMA Numbers ==
  /\ MaxAttempts \in Nat /\ MaxHeight \in Nat /\ Validity \in Nat
  /\ Ids \subseteq Nat /\ 0 \notin Ids /\ \A a \in Ids : a \in 0..MaxAttempts
  BY TradeAssumption DEF Ids

LEMMA Typed ==
  ASSUME Inv
  PROVE  /\ attempts \in [Ids -> Attempt]
         /\ lots \in Seq(Lot) /\ DOMAIN lots = 1..Len(lots) /\ Len(lots) \in Nat
         /\ \A l \in DOMAIN lots : lots[l] \in Lot /\ l \in Nat
         /\ holdings \in Seq(Nat) /\ Now \in Nat /\ DOMAIN holdings = 1..Now
         /\ tx \in [Ids -> [state : {"none", "sent", "landed", "failed"}, slot : 0..Now]]
         /\ height \in 1..MaxHeight /\ height \in Nat
         /\ receiptSlot \in Nat /\ acceptedSlot \in Nat
<1>1. TypeOK BY DEF Inv
<1>2. /\ DOMAIN lots = 1..Len(lots) /\ Len(lots) \in Nat
      /\ \A l \in DOMAIN lots : lots[l] \in Lot /\ l \in Nat
  BY <1>1, LenProperties, ElementOfSeq DEF TypeOK
<1>3. Now \in Nat /\ DOMAIN holdings = 1..Now BY <1>1, LenProperties DEF TypeOK, Now
<1>4. height \in Nat /\ receiptSlot \in Nat /\ acceptedSlot \in Nat
  BY <1>1, <1>3, Numbers DEF TypeOK
<1> QED BY <1>1, <1>2, <1>3, <1>4 DEF TypeOK

\* The id of the next row is free, and the rows stay in order with it.
LEMMA NextIdIsFree ==
  ASSUME Inv, NextId \in Ids
  PROVE  /\ attempts[NextId].status = "none"
         /\ \E n \in 0..MaxAttempts :
              {a \in Ids : attempts[a].status # "none"} \cup {NextId} = 1..n
<1>1. PICK n \in 0..MaxAttempts : {a \in Ids : attempts[a].status # "none"} = 1..n
  BY DEF Inv, IdsInOrder
<1>2. n \in Nat /\ Cardinality(1..n) = n BY Numbers, FS_Interval
<1>3. NextId = n + 1 BY <1>1, <1>2 DEF NextId
<1>4. NextId \notin 1..n /\ (1..n) \cup {NextId} = 1..(n + 1) BY <1>2, <1>3
<1>5. n + 1 \in 0..MaxAttempts BY <1>2, <1>3, Numbers DEF Ids
<1> QED BY <1>1, <1>3, <1>4, <1>5

\* A row that has left the flight.
Expired(row) == [row EXCEPT !.status = "EXPIRED"]

\* Retiring the one row of a set that is in flight expires it and leaves the others.
LEMMA RetiredIs ==
  ASSUME NEW live \in SUBSET Ids, NEW rows \in [Ids -> Attempt], \A a, b \in live : a = b
  PROVE  /\ Retired(live, rows) \in [Ids -> Attempt]
         /\ \A a \in Ids : Retired(live, rows)[a] =
              IF a \in live THEN Expired(rows[a]) ELSE rows[a]
<1>1. CASE live = {} BY <1>1 DEF Retired
<1>2. ASSUME NEW b \in live PROVE live = {b} /\ Max(live) = b
  <2>1. live = {b} BY <1>2
  <2>2. b >= b BY Numbers, <1>2
  <2> QED BY <2>1, <2>2 DEF Max
<1>3. ASSUME NEW b \in live
      PROVE  Retired(live, rows) = [rows EXCEPT ![b].status = "EXPIRED"]
  BY <1>2, <1>3 DEF Retired
<1>4. ASSUME NEW b \in live
      PROVE  Expired(rows[b]) \in Attempt
  BY <1>4 DEF Attempt, Expired
<1>5. ASSUME NEW b \in live
      PROVE  /\ Retired(live, rows) \in [Ids -> Attempt]
             /\ \A a \in Ids : Retired(live, rows)[a] =
                  IF a \in live THEN Expired(rows[a]) ELSE rows[a]
  BY <1>2, <1>3, <1>4, <1>5 DEF Expired
<1> QED BY <1>1, <1>5

\* A row that a build may replace was not stamped.
LEMMA ReplacedIsBare ==
  ASSUME NEW live \in SUBSET Ids, \A a, b \in live : a = b, NEW h \in Nat, MayReplace(live, h)
  PROVE  \A b \in live : ~attempts[b].stamped
<1>1. ASSUME NEW b \in live PROVE Max(live) = b
  <2>1. live = {b} BY <1>1
  <2>2. b >= b BY Numbers, <1>1
  <2> QED BY <2>1, <2>2 DEF Max
<1> QED BY <1>1 DEF MayReplace, Retirable

\* One buy is in flight, and one sale of a lot.
LEMMA OneInFlight ==
  ASSUME Inv
  PROVE  /\ \A a, b \in PendingBuys : a = b
         /\ \A l \in DOMAIN lots : \A a, b \in PendingSells(l) : a = b
         /\ PendingBuys \in SUBSET Ids
         /\ \A l \in DOMAIN lots : PendingSells(l) \in SUBSET Ids
<1>1. \A a, b \in PendingBuys : a = b BY DEF Inv, LiveOK, PendingBuys, Pending
<1>2. ASSUME NEW l \in DOMAIN lots, NEW a \in PendingSells(l), NEW b \in PendingSells(l)
      PROVE  a = b
  BY DEF Inv, LiveOK, PendingSells, SellsOf, Pending, Alive, IsSell, Holds, RowsOK, RowOK
<1> QED BY <1>1, <1>2 DEF PendingBuys, PendingSells, SellsOf

-----------------------------------------------------------------------------
(* Steps that change no row, lot or transaction.                            *)

LEMMA Frame ==
  ASSUME Inv, TypeOK', UNCHANGED <<attempts, lots, tx, lost, receiptSlot>>, height' >= height
  PROVE  Inv'
<1>1. IdsInOrder' /\ LiveOK' BY DEF Inv, IdsInOrder, LiveOK, Holds, Alive, IsSell
<1>2. \A a \in Ids : attempts[a].lastValid \in Nat BY Typed DEF Attempt
<1>3. height \in Nat /\ height' \in Nat BY Typed, Numbers DEF TypeOK
<1>4. ASSUME NEW a \in Ids PROVE RowOK(a)'
  <2>1. RowOK(a) BY DEF Inv, RowsOK
  <2>2. height > attempts[a].lastValid => height' > attempts[a].lastValid BY <1>2, <1>3
  <2> QED BY <2>1, <2>2 DEF RowOK
<1>5. LotsOK' BY DEF Inv, LotsOK, LotOK
<1> QED BY <1>1, <1>4, <1>5 DEF Inv, RowsOK

LEMMA SubmitterStep ==
  ASSUME Inv, NEW a \in Ids, SubmitCheck(a) \/ SubmitRefused(a)
  PROVE  Inv'
<1>1. /\ submitting' \subseteq submitting \cup {a}
      /\ UNCHANGED <<attempts, lots, funding, receiptSlot, acceptedSlot, fenced, height, holdings,
                     tx, ata, moves, lost, confirming, refresh, sweep>>
  BY DEF SubmitCheck, SubmitRefused, db, clock, chain
<1>2. TypeOK' BY <1>1 DEF Inv, TypeOK, Now
<1>3. height' >= height BY <1>1, Typed
<1> QED BY <1>1, <1>2, <1>3, Frame

LEMMA ReaderStep ==
  ASSUME Inv,
         \/ \E a \in Ids : ClientConfirms(a) \/ SweepConfirms(a)
         \/ PollerRestarts \/ ClientLeaves
  PROVE  Inv'
<1>1. /\ UNCHANGED <<attempts, lots, funding, receiptSlot, acceptedSlot, fenced, height, holdings,
                     tx, ata, moves, lost, submitting, refresh>>
      /\ confirming \in [Confirmers -> 0..MaxAttempts]
      /\ sweep \in [rows : SUBSET Ids, bare : SUBSET Ids, height : 0..height]
  BY DEF ClientConfirms, SweepConfirms, PollerRestarts, ClientLeaves, db, clock, chain, Inv, TypeOK
<1>2. 0 \in 0..MaxAttempts /\ \A a \in Ids : a \in 0..MaxAttempts BY Numbers
<1>3. confirming' \in [Confirmers -> 0..MaxAttempts]
  BY <1>1, <1>2
     DEF ClientConfirms, SweepConfirms, PollerRestarts, ClientLeaves, ConfirmRead, Confirmers
<1>4. 0 \in 0..height BY Typed
<1>5. NoSweep \in [rows : SUBSET Ids, bare : SUBSET Ids, height : 0..height] BY <1>4 DEF NoSweep
<1>6. sweep' \in [rows : SUBSET Ids, bare : SUBSET Ids, height : 0..height]
  BY <1>1, <1>5 DEF ClientConfirms, SweepConfirms, PollerRestarts, ClientLeaves
<1>7. TypeOK' BY <1>1, <1>3, <1>6 DEF Inv, TypeOK, Now
<1>8. height' >= height BY <1>1, Typed
<1> QED BY <1>1, <1>7, <1>8, Frame

LEMMA SweepDoneTyped ==
  ASSUME Inv
  PROVE  \A a : SweepDone(a) \in [rows : SUBSET Ids, bare : SUBSET Ids, height : 0..height]
<1>1. sweep \in [rows : SUBSET Ids, bare : SUBSET Ids, height : 0..height] BY DEF Inv, TypeOK
<1>2. 0 \in 0..height BY Typed
<1>3. NoSweep \in [rows : SUBSET Ids, bare : SUBSET Ids, height : 0..height] BY <1>2 DEF NoSweep
<1>4. ASSUME NEW a
      PROVE  SweepDone(a) \in [rows : SUBSET Ids, bare : SUBSET Ids, height : 0..height]
  <2>1. PICK R \in SUBSET Ids, B \in SUBSET Ids : R = sweep.rows \ {a} /\ B = sweep.bare \ {a}
    BY <1>1
  <2>2. [sweep EXCEPT !.rows = R, !.bare = B]
          \in [rows : SUBSET Ids, bare : SUBSET Ids, height : 0..height]
    BY <1>1
  <2>3. SweepDone(a) = NoSweep \/ SweepDone(a) = [sweep EXCEPT !.rows = R, !.bare = B]
    BY <2>1 DEF SweepDone
  <2> QED BY <1>3, <2>2, <2>3
<1> QED BY <1>4

LEMMA SweepReadStep ==
  ASSUME Inv, SweepRead \/ SweepHeight \/ \E a \in Ids : SweepSkips(a)
  PROVE  Inv'
<1>1. /\ UNCHANGED <<attempts, lots, funding, receiptSlot, acceptedSlot, fenced, height, holdings,
                     tx, ata, moves, lost, submitting, confirming, refresh>>
      /\ sweep \in [rows : SUBSET Ids, bare : SUBSET Ids, height : 0..height]
  BY DEF SweepRead, SweepHeight, SweepSkips, db, clock, chain, Inv, TypeOK
<1>2. 0 \in 0..height /\ height \in 0..height BY Typed
<1>3. sweep' \in [rows : SUBSET Ids, bare : SUBSET Ids, height : 0..height]
  BY <1>1, <1>2, SweepDoneTyped DEF SweepRead, SweepHeight, SweepSkips
<1>4. TypeOK' BY <1>1, <1>3 DEF Inv, TypeOK, Now
<1>5. height' >= height BY <1>1, Typed
<1> QED BY <1>1, <1>4, <1>5, Frame

LEMMA RefreshStep ==
  ASSUME Inv, NEW r \in Refreshers, RefreshFence(r) \/ RefreshRejected(r)
  PROVE  Inv'
<1>1. /\ UNCHANGED <<attempts, lots, funding, receiptSlot, acceptedSlot, height, holdings,
                     tx, ata, moves, lost, submitting, confirming, sweep>>
      /\ refresh \in [Refreshers -> Nat \cup {Idle}]
      /\ fenced \subseteq {q \in Refreshers : refresh[q] # Idle}
  BY DEF RefreshFence, RefreshRejected, db, chain, Inv, TypeOK
<1>2. RequiredSlot \in Nat /\ RequiredSlot # Idle BY Typed DEF RequiredSlot, LargerOf, Idle
<1>3. /\ refresh' \in [Refreshers -> Nat \cup {Idle}]
      /\ fenced' \subseteq {q \in Refreshers : refresh'[q] # Idle}
  BY <1>1, <1>2 DEF RefreshFence, RefreshRejected
<1>4. TypeOK' BY <1>1, <1>3 DEF Inv, TypeOK, Now
<1>5. height' >= height BY <1>1, Typed
<1> QED BY <1>1, <1>4, <1>5, Frame

LEMMA OutsideStep ==
  ASSUME Inv, Tick \/ Moves
  PROVE  Inv'
<1>1. UNCHANGED <<attempts, lots, funding, receiptSlot, acceptedSlot, fenced, tx, lost, submitting,
                  confirming, refresh, sweep>>
  BY DEF Tick, Moves, db, clock, locals
<1>2. CASE Tick
  <2>1. height' = height + 1 /\ height < MaxHeight /\ UNCHANGED <<holdings, ata, moves, lost>>
    BY <1>2 DEF Tick
  <2>2. height' \in 1..MaxHeight /\ 0..height \subseteq 0..height' /\ height' >= height
    BY <2>1, Typed, Numbers
  <2>3. TypeOK' BY <1>1, <2>1, <2>2 DEF Inv, TypeOK, Now
  <2> QED BY <1>1, <2>2, <2>3, Frame
<1>3. CASE Moves
  <2>1. UNCHANGED height /\ moves' \in 0..MaxMoves
    <3>1. moves \in 0..MaxMoves /\ MaxMoves \in Nat BY TradeAssumption DEF Inv, TypeOK
    <3>2. moves < MaxMoves /\ moves' = moves + 1 /\ UNCHANGED height BY <1>3 DEF Moves
    <3> QED BY <3>1, <3>2
  <2>2. holdings[Now] \in Nat => holdings[Now] + 1 \in Nat OBVIOUS
  <2>3. Now # 0 => holdings[Now] \in Nat BY Typed, ElementOfSeq DEF Now
  <2>4. Now # 0 BY Typed DEF Inv, TypeOK
  <2>5. \E m \in Nat : holdings' = Append(holdings, m)
    <3>1. CASE holdings' = Append(holdings, holdings[Now] + 1) BY <2>2, <2>3, <2>4, <3>1
    <3>2. CASE holdings[Now] > 0 /\ holdings' = Append(holdings, holdings[Now] - 1)
      BY <2>3, <2>4, <3>2
    <3> QED BY <1>3, <3>1, <3>2 DEF Moves
  <2>6. holdings' \in Seq(Nat) /\ Now' = Now + 1 BY <2>5, Typed, AppendProperties DEF Now
  <2>7. ata' \in {"none", "sponsor", "wallet"} BY <1>3 DEF Moves, Inv, TypeOK
  <2>8. 0..Now \subseteq 0..Now' /\ 1..Now \subseteq 1..Now' BY <2>6, Typed
  <2>9. TypeOK'
    <3>1. tx' \in [Ids -> [state : {"none", "sent", "landed", "failed"}, slot : 0..Now']]
      BY <1>1, <2>8 DEF Inv, TypeOK
    <3> QED BY <1>1, <2>1, <2>6, <2>7, <2>8, <3>1 DEF Inv, TypeOK
  <2>10. height' >= height BY <2>1, Typed
  <2> QED BY <1>1, <2>9, <2>10, Frame
<1> QED BY <1>2, <1>3

-----------------------------------------------------------------------------
(* Building, retiring, stamping and expiring rows.                          *)

FundingRows == [by : 0..MaxAttempts, confirmed : BOOLEAN, closed : BOOLEAN]

LEMMA FundingTyped ==
  ASSUME Inv
  PROVE  /\ funding \in FundingRows /\ NoFunding \in FundingRows
         /\ \A a : WithoutFunding(a) \in FundingRows
         /\ \A live : FundingWithout(live) \in FundingRows
         /\ \A a \in Ids : [NoFunding EXCEPT !.by = a] \in FundingRows
<1>1. funding \in FundingRows BY DEF Inv, TypeOK, FundingRows
<1>2. NoFunding \in FundingRows BY Numbers DEF NoFunding, FundingRows
<1>3. \A a : WithoutFunding(a) \in FundingRows BY <1>1, <1>2 DEF WithoutFunding
<1>4. \A live : FundingWithout(live) \in FundingRows BY <1>1, <1>3 DEF FundingWithout
<1>5. \A a \in Ids : [NoFunding EXCEPT !.by = a] \in FundingRows
  BY <1>2, Numbers DEF FundingRows
<1> QED BY <1>1, <1>2, <1>3, <1>4, <1>5

\* The types after a step that changes rows only, and may move the generation.
LEMMA RowsTyped ==
  ASSUME Inv, attempts' \in [Ids -> Attempt], funding' \in FundingRows,
         fenced' = {} \/ fenced' = fenced,
         UNCHANGED <<lots, receiptSlot, acceptedSlot, height, holdings, tx, ata, moves,
                     confirming, refresh>>,
         submitting' \subseteq submitting, lost' \subseteq Ids,
         sweep' \in [rows : SUBSET Ids, bare : SUBSET Ids, height : 0..height]
  PROVE  TypeOK'
  BY DEF Inv, TypeOK, FundingRows, Now

\* Rows that leave the flight unsent keep what is said of the others.
LEMMA RetireKeeps ==
  ASSUME Inv, NEW live \in SUBSET Ids, \A a \in live : Pending(a) /\ ~attempts[a].stamped,
         \A a \in Ids : attempts'[a] =
            IF a \in live THEN Expired(attempts[a]) ELSE attempts[a],
         UNCHANGED <<lots, tx, lost, receiptSlot, height>>
  PROVE  IdsInOrder' /\ LiveOK' /\ RowsOK' /\ LotsOK'
<1>1. attempts \in [Ids -> Attempt] BY Typed
<1>2. \A a \in live : /\ attempts'[a].status = "EXPIRED" /\ attempts'[a].kind = attempts[a].kind
                      /\ attempts'[a].lot = attempts[a].lot
                      /\ attempts'[a].sponsored = attempts[a].sponsored
                      /\ attempts'[a].stamped = attempts[a].stamped
                      /\ attempts'[a].lastValid = attempts[a].lastValid
                      /\ attempts'[a].review = attempts[a].review
  BY <1>1 DEF Attempt, Expired
<1>3. \A a \in Ids : attempts'[a].status # "none" <=> attempts[a].status # "none"
  BY <1>2 DEF Pending
<1>4. {a \in Ids : attempts'[a].status # "none"} = {a \in Ids : attempts[a].status # "none"}
  BY <1>3
<1>5. IdsInOrder' BY <1>4 DEF Inv, IdsInOrder
<1>6. \A a \in Ids \ live : attempts'[a] = attempts[a] OBVIOUS
<1>7. LiveOK' BY <1>2, <1>6 DEF Inv, LiveOK, Holds, Alive, IsSell
<1>8. ASSUME NEW a \in Ids PROVE RowOK(a)'
  <2>1. RowOK(a) BY DEF Inv, RowsOK
  <2>2. CASE a \in live BY <1>2, <2>1, <2>2 DEF RowOK
  <2>3. CASE a \notin live BY <1>6, <2>1, <2>3 DEF RowOK
  <2> QED BY <2>2, <2>3
<1>9. LotsOK' BY DEF Inv, LotsOK, LotOK
<1> QED BY <1>5, <1>7, <1>8, <1>9 DEF RowsOK

LEMMA ReserveBuyStep ==
  ASSUME Inv, ReserveBuy
  PROVE  Inv'
<1>1. PICK h \in 1..height :
        /\ MayReplace(PendingBuys, h)
        /\ attempts' = Retired(PendingBuys, attempts)
        /\ funding' = FundingWithout(PendingBuys)
        /\ UNCHANGED <<lots, clock, chain, locals>>
  BY DEF ReserveBuy
<1>2. h \in Nat BY Typed
<1>3. PendingBuys \in SUBSET Ids /\ \A a, b \in PendingBuys : a = b BY OneInFlight
<1>4. /\ attempts' \in [Ids -> Attempt]
      /\ \A a \in Ids : attempts'[a] =
           IF a \in PendingBuys THEN Expired(attempts[a]) ELSE attempts[a]
  <2>1. attempts \in [Ids -> Attempt] BY Typed
  <2>2. Retired(PendingBuys, attempts) \in [Ids -> Attempt] BY <1>3, <2>1, RetiredIs
  <2>3. \A a \in Ids : Retired(PendingBuys, attempts)[a] =
           IF a \in PendingBuys THEN Expired(attempts[a]) ELSE attempts[a]
    BY <1>3, <2>1, RetiredIs
  <2> QED BY <1>1, <2>2, <2>3
<1>5. \A a \in PendingBuys : Pending(a) /\ ~attempts[a].stamped
  BY <1>1, <1>2, <1>3, ReplacedIsBare DEF PendingBuys
<1>6. UNCHANGED <<lots, receiptSlot, acceptedSlot, fenced, height, holdings, tx, ata, moves, lost,
                  submitting, confirming, refresh, sweep>>
  BY <1>1 DEF clock, chain, locals
<1>7. TypeOK'
  <2>1. lost' \subseteq Ids /\ sweep' \in [rows : SUBSET Ids, bare : SUBSET Ids, height : 0..height]
    BY <1>6 DEF Inv, TypeOK
  <2> QED BY <1>1, <1>4, <1>6, <2>1, FundingTyped, RowsTyped
<1>8. IdsInOrder' /\ LiveOK' /\ RowsOK' /\ LotsOK' BY <1>3, <1>4, <1>5, <1>6, RetireKeeps
<1> QED BY <1>7, <1>8 DEF Inv

Added(n, row) == [attempts EXCEPT ![n] = row]

\* A new row joins, and the rows of its kind, and of its lot, that were in flight leave.
Builds(live, h, n, row) ==
    /\ (\A a, b \in live : a = b) /\ (\A a \in live : Pending(a))
    /\ MayReplace(live, h) /\ n = NextId
    /\ row.status = "PENDING" /\ row.stamped = FALSE /\ row.review = FALSE
    /\ row.kind = "SELL" => row.sponsored /\ IsOpen(row.lot)
    /\ attempts' = Retired(live, Added(n, row))
    /\ \A a \in Ids \ live : Pending(a) /\ attempts[a].kind = row.kind =>
          row.kind = "SELL" /\ attempts[a].lot # row.lot
    /\ UNCHANGED <<lots, tx, receiptSlot, acceptedSlot, height, holdings, ata, moves, lost,
                   submitting, confirming, refresh, sweep>>
    /\ fenced' = {} /\ funding' \in FundingRows

LEMMA BuildKeeps ==
  ASSUME Inv, NEW live \in SUBSET Ids, NEW h \in Nat, NEW n \in Ids, NEW row \in Attempt,
         Builds(live, h, n, row)
  PROVE  Inv'
<1> USE DEF Builds
<1>1. attempts \in [Ids -> Attempt] BY Typed
<1>2. attempts[n].status = "none" /\ n \notin live BY NextIdIsFree DEF Pending
<1>3. /\ attempts' \in [Ids -> Attempt] /\ attempts'[n] = row
      /\ \A a \in live : attempts'[a] = Expired(attempts[a])
      /\ \A a \in Ids \ live : a # n => attempts'[a] = attempts[a]
  <2>1. PICK more \in [Ids -> Attempt] : more = Added(n, row) BY <1>1 DEF Added
  <2>2. attempts' = Retired(live, more) BY <2>1
  <2>3. Retired(live, more) \in [Ids -> Attempt] BY RetiredIs
  <2>4. \A a \in Ids : Retired(live, more)[a] =
          IF a \in live THEN Expired(more[a]) ELSE more[a]
    BY RetiredIs
  <2>5. more[n] = row /\ \A a \in Ids : a # n => more[a] = attempts[a]
    BY <1>1, <2>1 DEF Added
  <2>6. ASSUME NEW a \in live PROVE attempts'[a] = Expired(attempts[a])
    <3>1. more[a] = attempts[a] BY <1>2, <2>5
    <3> QED BY <2>2, <2>4, <3>1
  <2> QED BY <1>2, <2>2, <2>3, <2>4, <2>5, <2>6
<1>4. \A a \in live : ~attempts[a].stamped BY ReplacedIsBare
<1>5. ASSUME NEW a \in live
      PROVE  /\ attempts'[a].status = "EXPIRED" /\ attempts'[a].kind = attempts[a].kind
             /\ attempts'[a].lot = attempts[a].lot
             /\ attempts'[a].sponsored = attempts[a].sponsored
             /\ attempts'[a].stamped = attempts[a].stamped
             /\ attempts'[a].lastValid = attempts[a].lastValid
             /\ attempts'[a].review = attempts[a].review
  <2>1. attempts[a] \in Attempt BY <1>1
  <2>2. attempts'[a] = Expired(attempts[a]) BY <1>3
  <2> QED BY <2>1, <2>2 DEF Attempt, Expired
<1>6. TypeOK'
  <2>1. lost' \subseteq Ids /\ sweep' \in [rows : SUBSET Ids, bare : SUBSET Ids, height : 0..height]
    BY DEF Inv, TypeOK
  <2> QED BY <1>3, <2>1, RowsTyped
<1>7. IdsInOrder'
  <2>1. {a \in Ids : attempts'[a].status # "none"}
          = {a \in Ids : attempts[a].status # "none"} \cup {n}
    BY <1>2, <1>3, <1>5 DEF Pending
  <2> QED BY <2>1, NextIdIsFree DEF IdsInOrder
<1>8. LiveOK'
  <2>1. ASSUME NEW a \in Ids \ {n}, Alive(a)', attempts'[a].kind = row.kind
        PROVE  /\ row.kind = "BUY" => attempts'[a].status # "PENDING"
               /\ row.kind = "SELL" => attempts'[a].lot # row.lot
    <3>1. a \notin live /\ attempts'[a] = attempts[a] BY <1>3, <1>5, <2>1 DEF Alive
    <3>2. CASE attempts[a].status = "PENDING" BY <2>1, <3>1, <3>2 DEF Pending
    <3>3. CASE attempts[a].status = "CONFIRMED"
      BY <2>1, <3>1, <3>3 DEF Inv, RowsOK, RowOK, IsOpen
    <3> QED BY <2>1, <3>1, <3>2, <3>3 DEF Alive
  <2>2. \A a \in Ids : a # n => \/ attempts'[a] = attempts[a]
                                \/ attempts'[a].status = "EXPIRED"
    BY <1>3, <1>5
  <2>3. ASSUME NEW a \in Ids, NEW b \in Ids, attempts'[a].kind = attempts'[b].kind,
               \/ /\ attempts'[a].status = "PENDING" /\ attempts'[b].status = "PENDING"
                  /\ attempts'[a].kind = "BUY"
               \/ /\ Holds(a)' /\ Holds(b)' /\ IsSell(a)' /\ attempts'[a].lot = attempts'[b].lot
        PROVE  a = b
    <3>1. Alive(a)' /\ Alive(b)' BY <2>3 DEF Holds, Alive
    <3>2. CASE a # n /\ b # n BY <2>2, <2>3, <3>1, <3>2 DEF Inv, LiveOK, Holds, Alive, IsSell
    <3>3. CASE a = n /\ b # n BY <1>3, <2>1, <2>3, <3>1, <3>3 DEF IsSell
    <3>4. CASE a # n /\ b = n BY <1>3, <2>1, <2>3, <3>1, <3>4 DEF IsSell
    <3> QED BY <3>2, <3>3, <3>4
  <2> QED BY <2>3 DEF LiveOK
<1>9. ASSUME NEW a \in Ids PROVE RowOK(a)'
  <2>1. RowOK(a) BY DEF Inv, RowsOK
  <2>2. CASE a \in live
    BY <1>4, <1>5, <2>1, <2>2 DEF RowOK, Pending
  <2>3. CASE a = n
    <3>1. tx[a].state = "none" /\ a \notin lost BY <1>2, <2>1, <2>3 DEF RowOK
    <3> QED BY <1>3, <2>3, <3>1 DEF RowOK, IsOpen
  <2>4. CASE a \notin live /\ a # n BY <1>3, <2>1, <2>4 DEF RowOK
  <2> QED BY <2>2, <2>3, <2>4
<1>10. LotsOK' BY DEF Inv, LotsOK, LotOK
<1> QED BY <1>6, <1>7, <1>8, <1>9, <1>10 DEF Inv, RowsOK

LEMMA BuildBuyStep ==
  ASSUME Inv, NEW sponsored \in BuyKinds, BuildBuy(sponsored)
  PROVE  Inv'
<1>1. PICK h \in 1..height :
        /\ NextId \in Ids
        /\ MayReplace(PendingBuys, h)
        /\ attempts' = Retired(PendingBuys,
               [attempts EXCEPT ![NextId] = Row("BUY", 0, sponsored, FALSE)])
        /\ funding' = IF sponsored /\ ata = "none"
                      THEN [NoFunding EXCEPT !.by = NextId]
                      ELSE FundingWithout(PendingBuys)
        /\ Bump
        /\ UNCHANGED <<lots, chain, locals>>
  BY DEF BuildBuy
<1> DEFINE row == Row("BUY", 0, sponsored, FALSE)
<1>2. h \in Nat /\ height + Validity \in Nat BY Typed, Numbers
<1>3. row \in Attempt /\ row.status = "PENDING" /\ row.stamped = FALSE /\ row.review = FALSE /\ row.kind = "BUY"
  BY <1>2, TradeAssumption DEF Row, Attempt
<1>4. funding' \in FundingRows BY <1>1, FundingTyped
<1>5. \A a \in Ids \ PendingBuys : ~(Pending(a) /\ attempts[a].kind = "BUY") BY DEF PendingBuys
<1>6. \A a \in PendingBuys : Pending(a) BY DEF PendingBuys
<1>7. UNCHANGED <<lots, tx, receiptSlot, acceptedSlot, height, holdings, ata, moves, lost,
                  submitting, confirming, refresh, sweep>> /\ fenced' = {}
  BY <1>1 DEF Bump, chain, locals
<1>8. PICK q \in Attempt : q = row BY <1>3
<1>9. q.status = "PENDING" /\ q.stamped = FALSE /\ q.review = FALSE /\ q.kind = "BUY" BY <1>3, <1>8
<1>10. attempts' = Retired(PendingBuys, [attempts EXCEPT ![NextId] = q]) BY <1>1, <1>8
<1>11. PendingBuys \in SUBSET Ids /\ \A a, b \in PendingBuys : a = b BY OneInFlight
<1>12. PICK live \in SUBSET Ids : live = PendingBuys BY <1>11
<1>13. PICK n \in Ids : n = NextId BY <1>1
<1>14. (\A a, b \in live : a = b) /\ MayReplace(live, h) BY <1>1, <1>11, <1>12
<1>15. \A a \in live : Pending(a) BY <1>6, <1>12
<1>16. attempts' = Retired(live, Added(n, q)) BY <1>10, <1>12, <1>13 DEF Added
<1>17. \A a \in Ids \ live : Pending(a) /\ attempts[a].kind = q.kind =>
          q.kind = "SELL" /\ attempts[a].lot # q.lot
  BY <1>9, <1>5, <1>12
<1>18. /\ q.status = "PENDING" /\ q.stamped = FALSE /\ q.review = FALSE
       /\ q.kind = "SELL" => q.sponsored /\ IsOpen(q.lot)
  BY <1>9
<1> HIDE DEF row
<1>19. Builds(live, h, n, q)
  BY <1>4, <1>7, <1>13, <1>14, <1>15, <1>16, <1>17, <1>18 DEF Builds
<1> QED BY <1>2, <1>19, BuildKeeps

LEMMA BuildSellStep ==
  ASSUME Inv, NEW l \in DOMAIN lots, BuildSell(l)
  PROVE  Inv'
<1>1. PICK h \in 1..height, s \in Slots :
        /\ NextId \in Ids
        /\ IsOpen(l)
        /\ MayReplace(PendingSells(l), h)
        /\ attempts' = Retired(PendingSells(l),
               [attempts EXCEPT ![NextId] = Row("SELL", l, TRUE, holdings[s] = lots[l].qty)])
        /\ funding' = FundingWithout(PendingSells(l))
        /\ Bump
        /\ UNCHANGED <<lots, chain, locals>>
  BY DEF BuildSell
<1>2. h \in Nat /\ height + Validity \in Nat /\ l \in Nat BY Typed, Numbers
<1>3. PICK q \in Attempt :
        /\ q = Row("SELL", l, TRUE, holdings[s] = lots[l].qty)
        /\ q.status = "PENDING" /\ q.stamped = FALSE /\ q.review = FALSE /\ q.kind = "SELL" /\ q.sponsored /\ q.lot = l
  <2> DEFINE row == Row("SELL", l, TRUE, holdings[s] = lots[l].qty)
  <2>1. row \in Attempt BY <1>2 DEF Row, Attempt
  <2>2. row.status = "PENDING" /\ row.stamped = FALSE /\ row.review = FALSE /\ row.kind = "SELL" /\ row.sponsored
        /\ row.lot = l
    BY DEF Row
  <2> QED BY <2>1, <2>2
<1>4. funding' \in FundingRows BY <1>1, FundingTyped
<1>5. \A a \in Ids \ PendingSells(l) : Pending(a) /\ attempts[a].kind = "SELL" =>
         attempts[a].lot # l
  BY DEF PendingSells, SellsOf
<1>6. \A a \in PendingSells(l) : Pending(a) BY DEF PendingSells
<1>7. UNCHANGED <<lots, tx, receiptSlot, acceptedSlot, height, holdings, ata, moves, lost,
                  submitting, confirming, refresh, sweep>> /\ fenced' = {}
  BY <1>1 DEF Bump, chain, locals
<1>8. attempts' = Retired(PendingSells(l), [attempts EXCEPT ![NextId] = q])
  BY <1>1, <1>3
<1>9. PendingSells(l) \in SUBSET Ids /\ \A a, b \in PendingSells(l) : a = b BY OneInFlight
<1>10. PICK live \in SUBSET Ids : live = PendingSells(l) BY <1>9
<1>11. PICK n \in Ids : n = NextId BY <1>1
<1>12. (\A a, b \in live : a = b) /\ MayReplace(live, h) BY <1>1, <1>9, <1>10
<1>13. \A a \in live : Pending(a) BY <1>6, <1>10
<1>14. attempts' = Retired(live, Added(n, q)) BY <1>8, <1>10, <1>11 DEF Added
<1>15. \A a \in Ids \ live : Pending(a) /\ attempts[a].kind = q.kind =>
          q.kind = "SELL" /\ attempts[a].lot # q.lot
  <2>1. q.kind = "SELL" /\ q.lot = l BY <1>3
  <2> QED BY <1>5, <1>10, <2>1
<1>16. /\ q.status = "PENDING" /\ q.stamped = FALSE /\ q.review = FALSE
       /\ q.kind = "SELL" => q.sponsored /\ IsOpen(q.lot)
  BY <1>1, <1>3
<1>17. Builds(live, h, n, q)
  BY <1>4, <1>7, <1>11, <1>12, <1>13, <1>14, <1>15, <1>16 DEF Builds
<1> QED BY <1>2, <1>17, BuildKeeps

-----------------------------------------------------------------------------
(* Steps that move one row.                                                 *)

\* A row that stays in its trade leaves the order of the ids and the flight as they are.
LEMMA RowMoves ==
  ASSUME Inv, NEW a \in Ids, attempts[a].status # "none", attempts'[a].status # "none",
         attempts'[a].kind = attempts[a].kind, attempts'[a].lot = attempts[a].lot,
         Holds(a)' => Holds(a), Pending(a)' => Pending(a),
         \A b \in Ids \ {a} : attempts'[b] = attempts[b] /\ (b \in lost => b \in lost')
  PROVE  IdsInOrder' /\ LiveOK'
<1>1. {b \in Ids : attempts'[b].status # "none"} = {b \in Ids : attempts[b].status # "none"}
  OBVIOUS
<1>2. IdsInOrder' BY <1>1 DEF Inv, IdsInOrder
<1>3. \A b \in Ids : /\ attempts'[b].kind = attempts[b].kind /\ attempts'[b].lot = attempts[b].lot
                     /\ Holds(b)' => Holds(b)
                     /\ attempts'[b].status = "PENDING" => attempts[b].status = "PENDING"
  BY DEF Holds, Alive, Pending
<1>4. LiveOK' BY <1>3 DEF Inv, LiveOK, IsSell
<1> QED BY <1>2, <1>4

\* What is said of a row stays true when the lots and the height only move on.
LEMMA RowKept ==
  ASSUME Inv, NEW b \in Ids, attempts'[b] = attempts[b], tx'[b] = tx[b],
         b \in lost' <=> b \in lost, height' \in Nat, height' >= height, LotsMoveOn
  PROVE  RowOK(b)'
<1>1. RowOK(b) BY DEF Inv, RowsOK
<1>2. attempts[b].lastValid \in Nat /\ height \in Nat BY Typed DEF Attempt
<1>3. height > attempts[b].lastValid => height' > attempts[b].lastValid BY <1>2
<1> QED BY <1>1, <1>3 DEF RowOK, LotsMoveOn

LEMMA StampIs ==
  ASSUME Inv, NEW a \in Ids, StampWire(a)
  PROVE  /\ attempts' \in [Ids -> Attempt]
         /\ \A b \in Ids \ {a} : attempts'[b] = attempts[b]
         /\ attempts[a].status = "PENDING" /\ attempts'[a].status = "PENDING"
         /\ attempts'[a].stamped
         /\ attempts'[a].kind = attempts[a].kind /\ attempts'[a].lot = attempts[a].lot
         /\ attempts'[a].sponsored = attempts[a].sponsored
         /\ attempts'[a].review = attempts[a].review
         /\ UNCHANGED <<lots, funding, receiptSlot, acceptedSlot>>
         /\ fenced' = {} \/ fenced' = fenced
<1>1. attempts \in [Ids -> Attempt] BY Typed
<1>2. CASE attempts[a].stamped BY <1>1, <1>2 DEF StampWire, Pending, clock
<1>3. CASE ~attempts[a].stamped
  <2>1. attempts' = [attempts EXCEPT ![a].stamped = TRUE] BY <1>3 DEF StampWire
  <2>2. [attempts[a] EXCEPT !.stamped = TRUE] \in Attempt BY <1>1 DEF Attempt
  <2>3. attempts[a] \in Attempt BY <1>1
  <2>4. attempts' \in [Ids -> Attempt] BY <1>1, <2>1, <2>2
  <2>5. attempts'[a] = [attempts[a] EXCEPT !.stamped = TRUE] BY <1>1, <2>1
  <2>6. \A b \in Ids \ {a} : attempts'[b] = attempts[b] BY <1>1, <2>1
  <2>7. /\ attempts'[a].status = attempts[a].status /\ attempts'[a].stamped
        /\ attempts'[a].kind = attempts[a].kind /\ attempts'[a].lot = attempts[a].lot
        /\ attempts'[a].sponsored = attempts[a].sponsored
        /\ attempts'[a].review = attempts[a].review
    BY <2>3, <2>5 DEF Attempt
  <2> QED BY <1>3, <2>4, <2>6, <2>7 DEF StampWire, Pending, Bump
<1> QED BY <1>2, <1>3

\* A stamp, and a wire that is sent with it, keep what is said of every row.
LEMMA StampKeeps ==
  ASSUME Inv, NEW a \in Ids, StampWire(a),
         tx' = tx \/ (tx[a].state = "none" /\ tx' = [tx EXCEPT ![a].state = "sent"]),
         UNCHANGED <<height, holdings, ata, moves, lost, confirming, refresh, sweep>>,
         submitting' \subseteq submitting
  PROVE  Inv'
<1>1. /\ attempts' \in [Ids -> Attempt]
      /\ \A b \in Ids \ {a} : attempts'[b] = attempts[b]
      /\ attempts[a].status = "PENDING" /\ attempts'[a].status = "PENDING"
      /\ attempts'[a].stamped
      /\ attempts'[a].kind = attempts[a].kind /\ attempts'[a].lot = attempts[a].lot
      /\ attempts'[a].sponsored = attempts[a].sponsored
      /\ attempts'[a].review = attempts[a].review
      /\ UNCHANGED <<lots, funding, receiptSlot, acceptedSlot>>
      /\ fenced' = {} \/ fenced' = fenced
  BY StampIs
<1>2. IdsInOrder' /\ LiveOK' BY <1>1, RowMoves DEF Holds, Alive, Pending
<1>3. /\ tx' \in [Ids -> [state : {"none", "sent", "landed", "failed"}, slot : 0..Now]]
      /\ \A b \in Ids \ {a} : tx'[b] = tx[b]
      /\ tx'[a].slot = tx[a].slot
      /\ tx'[a].state = tx[a].state \/ (tx[a].state = "none" /\ tx'[a].state = "sent")
  BY Typed
<1>4. height' \in Nat /\ height' >= height BY Typed
<1>5. ASSUME NEW b \in Ids PROVE RowOK(b)'
  <2>1. CASE b # a
    <3>1. attempts'[b] = attempts[b] /\ tx'[b] = tx[b] BY <1>1, <1>3, <2>1
    <3>2. LotsMoveOn BY <1>1 DEF LotsMoveOn
    <3> QED BY <1>4, <3>1, <3>2, RowKept
  <2>2. CASE b = a
    <3>1. RowOK(a) BY DEF Inv, RowsOK
    <3> QED BY <1>1, <1>3, <2>2, <3>1 DEF RowOK
  <2> QED BY <2>1, <2>2
<1>6. ASSUME NEW l \in DOMAIN lots PROVE LotOK(l)'
  <2>1. LotOK(l) BY DEF Inv, LotsOK
  <2>2. lots[l].by # 0 => lots[l].by \in Ids BY Typed DEF Lot, Ids
  <2>3. CASE lots[l].by = a BY <1>1, <1>3, <2>1, <2>3 DEF LotOK
  <2>4. CASE lots[l].by # a BY <1>1, <1>3, <2>1, <2>2, <2>4 DEF LotOK
  <2> QED BY <2>3, <2>4
<1>7. TypeOK' BY <1>1, <1>3 DEF Inv, TypeOK, Now
<1> QED BY <1>1, <1>2, <1>5, <1>6, <1>7 DEF Inv, RowsOK, LotsOK

LEMMA StampStep ==
  ASSUME Inv, NEW a \in Ids, SubmitStamp(a) \/ MarkSent(a)
  PROVE  Inv'
<1>1. CASE SubmitStamp(a)
  <2>1. tx' = tx \/ (tx[a].state = "none" /\ tx' = [tx EXCEPT ![a].state = "sent"])
    BY <1>1 DEF SubmitStamp
  <2> QED BY <1>1, <2>1, StampKeeps DEF SubmitStamp
<1>2. CASE MarkSent(a) BY <1>2, StampKeeps DEF MarkSent, chain, locals
<1> QED BY <1>1, <1>2

\* A row the sweep expires is past its height.
LEMMA ExpiredIsDead ==
  ASSUME Inv, NEW a \in Ids, SweepExpires(a)
  PROVE  height > attempts[a].lastValid
<1>1. sweep.height > attempts[a].lastValid /\ sweep.height \in 0..height
  BY DEF SweepExpires, Dead, Inv, TypeOK
<1>2. attempts[a].lastValid \in Nat BY Typed DEF Attempt
<1> QED BY <1>1, <1>2, Typed

LEMMA SweepExpiresStep ==
  ASSUME Inv, NEW a \in Ids, SweepExpires(a)
  PROVE  Inv'
<1>1. attempts \in [Ids -> Attempt] /\ attempts[a] \in Attempt BY Typed
<1>2. /\ UNCHANGED <<lots, receiptSlot, acceptedSlot, height, holdings, tx, ata, moves,
                     submitting, confirming, refresh>>
      /\ fenced' = {} /\ funding' = WithoutFunding(a) /\ sweep' = SweepDone(a)
  BY DEF SweepExpires, Expire, Bump
<1>3. sweep' \in [rows : SUBSET Ids, bare : SUBSET Ids, height : 0..height]
  BY <1>2, SweepDoneTyped
<1>4. funding' \in FundingRows BY <1>2, FundingTyped
<1>5. height' \in Nat /\ height' >= height BY <1>2, Typed
<1>6. CASE ~Pending(a) \/ attempts[a].review
  <2>1. attempts' = attempts /\ lost' = lost BY <1>6 DEF SweepExpires, Expire
  <2>2. TypeOK'
    <3>1. lost' \subseteq Ids BY <2>1 DEF Inv, TypeOK
    <3> QED BY <1>1, <1>2, <1>3, <1>4, <2>1, <3>1, RowsTyped
  <2> QED BY <1>2, <1>5, <2>1, <2>2, Frame
<1>7. CASE Pending(a) /\ ~attempts[a].review
  <2>1. /\ attempts' = [attempts EXCEPT ![a].status = "EXPIRED"]
        /\ lost' = IF Landed(a) THEN lost \union {a} ELSE lost
    BY <1>7 DEF SweepExpires, Expire
  <2>2. [attempts[a] EXCEPT !.status = "EXPIRED"] \in Attempt BY <1>1 DEF Attempt
  <2>3. attempts' \in [Ids -> Attempt] BY <1>1, <2>1, <2>2
  <2>4. attempts'[a] = [attempts[a] EXCEPT !.status = "EXPIRED"] BY <1>1, <2>1
  <2>5. /\ \A b \in Ids \ {a} : attempts'[b] = attempts[b] /\ (b \in lost' <=> b \in lost)
        /\ Landed(a) => a \in lost'
        /\ a \in lost' => a \in lost \/ Landed(a)
    BY <1>1, <2>1
  <2>6. /\ attempts'[a].status = "EXPIRED" /\ attempts'[a].stamped = attempts[a].stamped
        /\ attempts'[a].kind = attempts[a].kind /\ attempts'[a].lot = attempts[a].lot
        /\ attempts'[a].sponsored = attempts[a].sponsored
        /\ attempts'[a].lastValid = attempts[a].lastValid
        /\ attempts'[a].review = attempts[a].review
    BY <1>1, <2>4 DEF Attempt
  <2>7. TypeOK'
    <3>1. lost' \subseteq Ids BY <2>1 DEF Inv, TypeOK
    <3> QED BY <1>2, <1>3, <1>4, <2>3, <3>1, RowsTyped
  <2>8. IdsInOrder' /\ LiveOK' BY <1>7, <2>5, <2>6, RowMoves DEF Holds, Alive, Pending
  <2>9. ASSUME NEW b \in Ids PROVE RowOK(b)'
    <3>1. CASE b # a
      <4>1. /\ attempts'[b] = attempts[b] /\ tx'[b] = tx[b]
            /\ b \in lost' <=> b \in lost
        BY <1>2, <2>5, <3>1
      <4>2. LotsMoveOn BY <1>2 DEF LotsMoveOn
      <4> QED BY <1>5, <4>1, <4>2, RowKept
    <3>2. CASE b = a
      <4>1. RowOK(a) BY DEF Inv, RowsOK
      <4>2. height > attempts[a].lastValid BY ExpiredIsDead
      <4> QED BY <1>2, <1>7, <2>5, <2>6, <3>2, <4>1, <4>2 DEF RowOK, Landed
    <3> QED BY <3>1, <3>2
  <2>10. LotsOK' BY <1>2 DEF Inv, LotsOK, LotOK
  <2> QED BY <2>7, <2>8, <2>9, <2>10 DEF Inv, RowsOK
<1> QED BY <1>6, <1>7

-----------------------------------------------------------------------------
(* Confirming.                                                              *)

LEMMA SettleIs ==
  ASSUME Inv, NEW a \in Ids, NEW st \in {"CONFIRMED", "FAILED"}, Settle(a, st)
  PROVE  /\ attempts' \in [Ids -> Attempt]
         /\ \A b \in Ids \ {a} : attempts'[b] = attempts[b]
         /\ attempts'[a].status = st /\ attempts'[a].stamped /\ ~attempts'[a].review
         /\ attempts'[a].kind = attempts[a].kind /\ attempts'[a].lot = attempts[a].lot
         /\ attempts'[a].sponsored = attempts[a].sponsored
<1>1. attempts \in [Ids -> Attempt] /\ attempts[a] \in Attempt BY Typed
<1>2. PICK row : row = [attempts[a] EXCEPT !.status = st, !.stamped = TRUE, !.review = FALSE] OBVIOUS
<1>3. /\ row \in Attempt /\ row.status = st /\ row.stamped /\ ~row.review
      /\ row.kind = attempts[a].kind /\ row.lot = attempts[a].lot
      /\ row.sponsored = attempts[a].sponsored
  BY <1>1, <1>2 DEF Attempt
<1>4. attempts' = [attempts EXCEPT ![a] = row] BY <1>1, <1>2 DEF Settle
<1>5. attempts' \in [Ids -> Attempt] /\ attempts'[a] = row BY <1>1, <1>3, <1>4
<1>6. \A b \in Ids \ {a} : attempts'[b] = attempts[b] BY <1>1, <1>4
<1> QED BY <1>3, <1>5, <1>6

LEMMA BumpIs ==
  ASSUME Inv, NEW a \in Ids, BumpAt(tx[a].slot)
  PROVE  /\ fenced' = {} /\ UNCHANGED acceptedSlot
         /\ receiptSlot' \in 0..Now /\ receiptSlot' >= receiptSlot
         /\ receiptSlot' >= tx[a].slot
<1>1. receiptSlot \in 0..Now /\ tx[a].slot \in 0..Now BY Typed DEF Inv, TypeOK
<1>2. Now \in Nat BY Typed
<1> QED BY <1>1, <1>2 DEF BumpAt, LargerOf

LEMMA FundingSettled ==
  ASSUME Inv, NEW a \in Ids
  PROVE  /\ FundingClosed(a) \in FundingRows
         /\ (IF funding.by = a THEN [funding EXCEPT !.confirmed = TRUE] ELSE funding)
              \in FundingRows
<1>1. funding \in FundingRows BY FundingTyped
<1> QED BY <1>1 DEF FundingClosed, FundingRows

\* The types after a confirmation.
LEMMA BookTyped ==
  ASSUME Inv, attempts' \in [Ids -> Attempt], lots' \in Seq(Lot),
         \A l \in DOMAIN lots' : lots'[l].closed <=> lots'[l].reason # "none",
         funding' \in FundingRows, receiptSlot' \in 0..Now, UNCHANGED acceptedSlot,
         fenced' = {} \/ fenced' = fenced, confirming' \in [Confirmers -> 0..MaxAttempts],
         UNCHANGED <<height, holdings, tx, ata, moves, lost, submitting, refresh>>,
         sweep' \in [rows : SUBSET Ids, bare : SUBSET Ids, height : 0..height]
  PROVE  TypeOK'
  BY DEF Inv, TypeOK, FundingRows, Now

\* What is said of the lots stays true of those a step leaves alone.
LEMMA LotKept ==
  ASSUME Inv, NEW l \in DOMAIN lots, lots'[l] = lots[l], UNCHANGED tx,
         receiptSlot' \in Nat, receiptSlot' >= receiptSlot
  PROVE  LotOK(l)'
<1>1. LotOK(l) BY DEF Inv, LotsOK
<1>2. lots[l].by # 0 => lots[l].by \in Ids BY Typed DEF Lot, Ids
<1>3. \A a \in Ids : tx[a].slot \in Nat BY Typed
<1>4. receiptSlot \in Nat BY Typed
<1> QED BY <1>1, <1>2, <1>3, <1>4 DEF LotOK

LEMMA ConfirmFailedStep ==
  ASSUME Inv, NEW a \in Ids, ConfirmFailed(a), confirming' \in [Confirmers -> 0..MaxAttempts],
         UNCHANGED <<chain, submitting, refresh>>,
         sweep' \in [rows : SUBSET Ids, bare : SUBSET Ids, height : 0..height]
  PROVE  Inv'
<1>1. /\ attempts' \in [Ids -> Attempt]
      /\ \A b \in Ids \ {a} : attempts'[b] = attempts[b]
      /\ attempts'[a].status = "FAILED" /\ attempts'[a].stamped /\ ~attempts'[a].review
      /\ attempts'[a].kind = attempts[a].kind /\ attempts'[a].lot = attempts[a].lot
      /\ attempts'[a].sponsored = attempts[a].sponsored
  <2>1. Settle(a, "FAILED") BY DEF ConfirmFailed
  <2> QED BY <2>1, SettleIs
<1>2. /\ fenced' = {} /\ UNCHANGED acceptedSlot
      /\ receiptSlot' \in 0..Now /\ receiptSlot' >= receiptSlot
  <2>1. BumpAt(tx[a].slot) BY DEF ConfirmFailed
  <2> QED BY <2>1, BumpIs
<1>3. /\ UNCHANGED <<lots, height, holdings, tx, ata, moves, lost, submitting, refresh>>
      /\ funding' \in FundingRows
  BY FundingTyped DEF ConfirmFailed, chain
<1>4. TypeOK'
  <2>1. lots' \in Seq(Lot) /\ \A l \in DOMAIN lots' : lots'[l].closed <=> lots'[l].reason # "none"
    BY <1>3 DEF Inv, TypeOK
  <2> QED BY <1>1, <1>2, <1>3, <2>1, BookTyped
<1>5. RowOK(a) /\ tx[a].state = "failed" BY DEF Inv, RowsOK, ConfirmFailed
<1>6. IdsInOrder' /\ LiveOK'
  <2>1. attempts[a].status # "none" BY <1>5 DEF RowOK
  <2> QED BY <1>1, <1>3, <2>1, RowMoves DEF Holds, Alive, Pending
<1>7. ASSUME NEW b \in Ids PROVE RowOK(b)'
  <2>1. CASE b # a
    <3>1. attempts'[b] = attempts[b] /\ tx'[b] = tx[b] BY <1>1, <1>3, <2>1
    <3>2. height' \in Nat /\ height' >= height BY <1>3, Typed
    <3>3. LotsMoveOn BY <1>3 DEF LotsMoveOn
    <3> QED BY <1>3, <3>1, <3>2, <3>3, RowKept
  <2>2. CASE b = a BY <1>1, <1>3, <1>5, <2>2 DEF RowOK
  <2> QED BY <2>1, <2>2
<1>8. ASSUME NEW l \in DOMAIN lots PROVE LotOK(l)'
  <2>1. lots'[l] = lots[l] /\ UNCHANGED tx BY <1>3
  <2>2. receiptSlot' \in Nat BY <1>2, Typed
  <2> QED BY <1>2, <2>1, <2>2, LotKept
<1> QED BY <1>3, <1>4, <1>6, <1>7, <1>8 DEF Inv, RowsOK, LotsOK

LEMMA ConfirmBuyStep ==
  ASSUME Inv, NEW a \in Ids, ConfirmBuy(a), confirming' \in [Confirmers -> 0..MaxAttempts],
         UNCHANGED <<chain, submitting, refresh>>,
         sweep' \in [rows : SUBSET Ids, bare : SUBSET Ids, height : 0..height]
  PROVE  Inv'
<1>1. UNCHANGED <<height, holdings, tx, ata, moves, lost, submitting, refresh>> BY DEF chain
<1>2. RowOK(a) /\ tx[a].state = "landed" /\ attempts[a].kind = "BUY"
  BY DEF Inv, RowsOK, ConfirmBuy, Landed
<1>3. height' \in Nat /\ height' >= height BY <1>1, Typed
<1>4. CASE ~MayBook(a)
  <2>1. UNCHANGED <<attempts, lots, funding>> BY <1>4 DEF ConfirmBuy, db
  <2>2. /\ fenced' = {} /\ UNCHANGED acceptedSlot
        /\ receiptSlot' \in 0..Now /\ receiptSlot' >= receiptSlot
    <3>1. BumpAt(tx[a].slot) BY DEF ConfirmBuy
    <3> QED BY <3>1, BumpIs
  <2>3. TypeOK'
    <3>1. /\ attempts' \in [Ids -> Attempt] /\ lots' \in Seq(Lot)
          /\ \A l \in DOMAIN lots' : lots'[l].closed <=> lots'[l].reason # "none"
      BY <2>1 DEF Inv, TypeOK
    <3>2. funding' \in FundingRows BY <2>1, FundingTyped
    <3> QED BY <1>1, <2>2, <3>1, <3>2, BookTyped
  <2>4. IdsInOrder' /\ LiveOK' BY <1>1, <2>1 DEF Inv, IdsInOrder, LiveOK, Holds, Alive, IsSell
  <2>5. RowsOK' BY <1>1, <2>1 DEF Inv, RowsOK, RowOK
  <2>6. ASSUME NEW l \in DOMAIN lots PROVE LotOK(l)'
    <3>1. lots'[l] = lots[l] /\ UNCHANGED tx BY <1>1, <2>1
    <3>2. receiptSlot' \in Nat BY <2>2, Typed
    <3> QED BY <2>2, <3>1, <3>2, LotKept
  <2> QED BY <2>1, <2>3, <2>4, <2>5, <2>6 DEF Inv, LotsOK
<1>5. CASE MayBook(a)
  <2>1. /\ attempts' \in [Ids -> Attempt]
        /\ \A b \in Ids \ {a} : attempts'[b] = attempts[b]
        /\ attempts'[a].status = "CONFIRMED" /\ attempts'[a].stamped /\ ~attempts'[a].review
        /\ attempts'[a].kind = attempts[a].kind /\ attempts'[a].lot = attempts[a].lot
        /\ attempts'[a].sponsored = attempts[a].sponsored
    <3>1. Settle(a, "CONFIRMED") BY <1>5 DEF ConfirmBuy
    <3> QED BY <3>1, SettleIs
  <2>2. /\ fenced' = {} /\ UNCHANGED acceptedSlot
        /\ receiptSlot' \in 0..Now /\ receiptSlot' >= receiptSlot
        /\ receiptSlot' >= tx[a].slot
    <3>1. BumpAt(tx[a].slot) BY DEF ConfirmBuy
    <3> QED BY <3>1, BumpIs
  <2>3. funding' \in FundingRows
    <3>1. funding' = IF funding.by = a THEN [funding EXCEPT !.confirmed = TRUE] ELSE funding
      BY <1>5 DEF ConfirmBuy
    <3> QED BY <3>1, FundingSettled
  <2>4. PICK lot \in Lot : lot = BuyLot(a)
    <3>1. a \in 0..MaxAttempts /\ 0 \in 0..MaxAttempts BY Numbers
    <3>2. BuyLot(a) \in Lot BY <3>1 DEF BuyLot, Lot
    <3> QED BY <3>2
  <2>5. lot.by = a /\ ~lot.closed /\ lot.reason = "none" /\ lot.soldBy = 0 BY <2>4 DEF BuyLot
  <2>6. /\ lots' \in Seq(Lot) /\ DOMAIN lots' = 1..(Len(lots) + 1)
        /\ lots'[Len(lots) + 1] = lot /\ \A l \in DOMAIN lots : lots'[l] = lots[l]
    <3>1. lots' = Append(lots, lot) BY <1>5, <2>4 DEF ConfirmBuy
    <3>2. lots' \in Seq(Lot) /\ Len(lots') = Len(lots) + 1 BY <3>1, Typed, AppendProperties
    <3>3. lots'[Len(lots) + 1] = lot BY <3>1, Typed, AppendProperties
    <3>4. \A l \in 1..Len(lots) : lots'[l] = lots[l] BY <3>1, Typed, AppendProperties
    <3> QED BY <3>2, <3>3, <3>4, Typed, LenProperties
  <2>7. \A l \in DOMAIN lots' : l \in DOMAIN lots \/ l = Len(lots) + 1 BY <2>6, Typed
  <2>8. TypeOK'
    <3>1. \A l \in DOMAIN lots' : lots'[l].closed <=> lots'[l].reason # "none"
      BY <2>5, <2>6, <2>7 DEF Inv, TypeOK
    <3> QED BY <1>1, <2>1, <2>2, <2>3, <2>6, <3>1, BookTyped
  <2>9. IdsInOrder' /\ LiveOK'
    <3>1. attempts[a].status = "PENDING" BY <1>5 DEF MayBook, Pending
    <3> QED BY <1>1, <2>1, <3>1, RowMoves DEF Holds, Alive, Pending
  <2>10. ASSUME NEW b \in Ids PROVE RowOK(b)'
    <3>1. \A l \in DOMAIN lots : l \in DOMAIN lots' BY <2>6, Typed
    <3>2. CASE b # a
      <4>1. attempts'[b] = attempts[b] /\ tx'[b] = tx[b] BY <1>1, <2>1, <3>2
      <4>2. LotsMoveOn BY <2>6, <3>1 DEF LotsMoveOn
      <4> QED BY <1>1, <1>3, <4>1, <4>2, RowKept
    <3>3. CASE b = a BY <1>1, <1>2, <2>1, <3>3 DEF RowOK
    <3> QED BY <3>2, <3>3
  <2>11. ASSUME NEW l \in DOMAIN lots' PROVE LotOK(l)'
    <3>1. CASE l \in DOMAIN lots
      <4>1. lots'[l] = lots[l] /\ UNCHANGED tx BY <1>1, <2>6, <3>1
      <4>2. receiptSlot' \in Nat BY <2>2, Typed
      <4> QED BY <2>2, <3>1, <4>1, <4>2, LotKept
    <3>2. CASE l = Len(lots) + 1
      <4>1. tx[a].slot \in Nat /\ receiptSlot' \in Nat BY <2>2, Typed
      <4> QED BY <1>1, <1>2, <2>2, <2>5, <2>6, <3>2, <4>1 DEF LotOK
    <3> QED BY <2>7, <3>1, <3>2
  <2> QED BY <2>8, <2>9, <2>10, <2>11 DEF Inv, RowsOK, LotsOK
<1> QED BY <1>4, <1>5

LEMMA ConfirmSellStep ==
  ASSUME Inv, NEW a \in Ids, ConfirmSell(a), confirming' \in [Confirmers -> 0..MaxAttempts],
         UNCHANGED <<chain, submitting, refresh>>,
         sweep' \in [rows : SUBSET Ids, bare : SUBSET Ids, height : 0..height]
  PROVE  Inv'
<1> DEFINE l == attempts[a].lot
<1>1. UNCHANGED <<height, holdings, tx, ata, moves, lost, submitting, refresh>> BY DEF chain
<1>2. RowOK(a) /\ tx[a].state = "landed" /\ attempts[a].kind = "SELL"
  BY DEF Inv, RowsOK, ConfirmSell, Landed
<1>3. height' \in Nat /\ height' >= height BY <1>1, Typed
<1>4. /\ l \in DOMAIN lots /\ lots[l] \in Lot
      /\ attempts[a].status # "none" /\ (a \notin lost => Holds(a))
  <2>1. attempts[a].status \in {"none", "PENDING", "CONFIRMED", "EXPIRED", "FAILED"}
    BY Typed DEF Attempt
  <2>2. l \in DOMAIN lots /\ attempts[a].status # "none" /\ (a \notin lost => Holds(a))
    BY <1>2, <2>1 DEF RowOK, Holds, Alive
  <2> QED BY <2>2, Typed
<1>5. PICK k \in DOMAIN lots : k = l BY <1>4
<1>6. CASE SellCloses(l)
  <2>1. /\ attempts' \in [Ids -> Attempt]
        /\ \A b \in Ids \ {a} : attempts'[b] = attempts[b]
        /\ attempts'[a].status = "CONFIRMED" /\ attempts'[a].stamped /\ ~attempts'[a].review
        /\ attempts'[a].kind = attempts[a].kind /\ attempts'[a].lot = attempts[a].lot
        /\ attempts'[a].sponsored = attempts[a].sponsored
    <3>1. Settle(a, "CONFIRMED") BY <1>6 DEF ConfirmSell
    <3> QED BY <3>1, SettleIs
  <2>2. /\ fenced' = {} /\ UNCHANGED acceptedSlot
        /\ receiptSlot' \in 0..Now /\ receiptSlot' >= receiptSlot
    <3>1. BumpAt(tx[a].slot) BY DEF ConfirmSell
    <3> QED BY <3>1, BumpIs
  <2>3. funding' \in FundingRows BY <1>6, FundingSettled DEF ConfirmSell
  <2>4. PICK lot : lot = SoldLot(lots[k], a) OBVIOUS
  <2>5. /\ lot \in Lot /\ lot.closed /\ lot.reason = "sold" /\ lot.by = lots[k].by
        /\ lot.soldBy = a /\ a # 0 /\ lots[k].soldBy = 0
    <3>1. lots[k] \in Lot /\ a \in 0..MaxAttempts /\ a # 0 BY <1>4, <1>5, Numbers
    <3>2. lots[k].soldBy = 0 BY <1>5, <1>6, <3>1 DEF SellCloses, Inv, LotsOK, LotOK
    <3> QED BY <2>4, <3>1, <3>2 DEF SoldLot, Lot
  <2>6. /\ lots' \in Seq(Lot) /\ DOMAIN lots' = DOMAIN lots
        /\ lots'[k] = lot /\ \A m \in DOMAIN lots \ {k} : lots'[m] = lots[m]
    <3>1. lots' = [lots EXCEPT ![k] = lot]
      <4>1. lots' = [lots EXCEPT ![l] = SoldLot(@, a)] BY <1>6 DEF ConfirmSell
      <4> QED BY <1>5, <2>4, <4>1
    <3>2. lots \in Seq(Lot) /\ k \in 1..Len(lots) BY <1>5, Typed
    <3>3. lots' \in Seq(Lot) BY <2>5, <3>1, <3>2, ExceptSeq
    <3> QED BY <3>1, <3>2, <3>3, Typed
  <2>7. TypeOK'
    <3>1. \A m \in DOMAIN lots' : lots'[m].closed <=> lots'[m].reason # "none"
      <4>1. \A m \in DOMAIN lots \ {k} : lots'[m].closed <=> lots'[m].reason # "none"
        BY <2>6 DEF Inv, TypeOK
      <4>2. lots'[k].closed <=> lots'[k].reason # "none" BY <2>5, <2>6
      <4> QED BY <2>6, <4>1, <4>2
    <3> QED BY <1>1, <2>1, <2>2, <2>3, <2>6, <3>1, BookTyped
  <2>8. IdsInOrder' /\ LiveOK' BY <1>1, <1>4, <2>1, RowMoves DEF Holds, Pending
  <2>9. ASSUME NEW b \in Ids PROVE RowOK(b)'
    <3>1. CASE b # a
      <4>1. attempts'[b] = attempts[b] /\ tx'[b] = tx[b] BY <1>1, <2>1, <3>1
      <4>2. LotsMoveOn BY <2>5, <2>6 DEF LotsMoveOn
      <4> QED BY <1>1, <1>3, <4>1, <4>2, RowKept
    <3>2. CASE b = a BY <1>1, <1>2, <1>5, <2>1, <2>5, <2>6, <3>2 DEF RowOK
    <3> QED BY <3>1, <3>2
  <2>10. ASSUME NEW m \in DOMAIN lots PROVE LotOK(m)'
    <3>1. CASE m # k
      <4>1. lots'[m] = lots[m] /\ UNCHANGED tx BY <1>1, <2>6, <3>1
      <4>2. receiptSlot' \in Nat BY <2>2, Typed
      <4> QED BY <2>2, <4>1, <4>2, LotKept
    <3>2. CASE m = k
      <4>1. LotOK(k) BY DEF Inv, LotsOK
      <4>2. lots[k].by # 0 => lots[k].by \in Ids BY Typed DEF Lot, Ids
      <4>3. \A b \in Ids : tx[b].slot \in Nat BY Typed
      <4>4. receiptSlot \in Nat /\ receiptSlot' \in Nat BY <2>2, Typed
      <4> QED BY <1>1, <2>2, <2>5, <2>6, <3>2, <4>1, <4>2, <4>3, <4>4 DEF LotOK
    <3> QED BY <3>1, <3>2
  <2> QED BY <2>6, <2>7, <2>8, <2>9, <2>10 DEF Inv, RowsOK, LotsOK
<1>7. CASE ~SellCloses(l)
  <2>1. UNCHANGED <<lots, funding>> BY <1>7 DEF ConfirmSell, db
  <2>2. /\ fenced' = {} /\ UNCHANGED acceptedSlot
        /\ receiptSlot' \in 0..Now /\ receiptSlot' >= receiptSlot
    <3>1. BumpAt(tx[a].slot) BY DEF ConfirmSell
    <3> QED BY <3>1, BumpIs
  <2>3. funding' \in FundingRows BY <2>1, FundingTyped
  <2>4. lots' \in Seq(Lot) /\ \A m \in DOMAIN lots' : lots'[m].closed <=> lots'[m].reason # "none"
    BY <2>1 DEF Inv, TypeOK
  <2>5. ASSUME NEW m \in DOMAIN lots PROVE LotOK(m)'
    <3>1. lots'[m] = lots[m] /\ UNCHANGED tx BY <1>1, <2>1
    <3>2. receiptSlot' \in Nat BY <2>2, Typed
    <3> QED BY <2>2, <3>1, <3>2, LotKept
  <2>6. CASE UNCHANGED attempts
    <3>1. attempts' \in [Ids -> Attempt] BY <2>6, Typed
    <3>2. TypeOK' BY <1>1, <2>2, <2>3, <2>4, <3>1, BookTyped
    <3>3. IdsInOrder' /\ LiveOK' BY <1>1, <2>6 DEF Inv, IdsInOrder, LiveOK, Holds, Alive, IsSell
    <3>4. RowsOK' BY <1>1, <2>1, <2>6 DEF Inv, RowsOK, RowOK
    <3> QED BY <2>1, <2>5, <3>2, <3>3, <3>4 DEF Inv, LotsOK
  <2>7. CASE Settle(a, "CONFIRMED") /\ lots[l].soldBy = a
    <3>1. /\ attempts' \in [Ids -> Attempt]
          /\ \A b \in Ids \ {a} : attempts'[b] = attempts[b]
          /\ attempts'[a].status = "CONFIRMED" /\ attempts'[a].stamped /\ ~attempts'[a].review
          /\ attempts'[a].kind = attempts[a].kind /\ attempts'[a].lot = attempts[a].lot
          /\ attempts'[a].sponsored = attempts[a].sponsored
      BY <2>7, SettleIs
    <3>2. TypeOK' BY <1>1, <2>2, <2>3, <2>4, <3>1, BookTyped
    <3>3. IdsInOrder' /\ LiveOK'
      BY <1>1, <1>4, <3>1, RowMoves DEF Holds, Pending
    <3>4. lots[l].closed BY <1>4, <2>7, Numbers DEF Inv, LotsOK, LotOK
    <3>5. ASSUME NEW b \in Ids PROVE RowOK(b)'
      <4>1. CASE b # a
        <5>1. attempts'[b] = attempts[b] /\ tx'[b] = tx[b] BY <1>1, <3>1, <4>1
        <5>2. LotsMoveOn BY <2>1 DEF LotsMoveOn
        <5> QED BY <1>1, <1>3, <5>1, <5>2, RowKept
      <4>2. CASE b = a BY <1>1, <1>2, <2>1, <3>1, <3>4, <4>2 DEF RowOK
      <4> QED BY <4>1, <4>2
    <3> QED BY <2>1, <2>5, <3>2, <3>3, <3>5 DEF Inv, RowsOK, LotsOK
  <2>8. UNCHANGED attempts \/ (Settle(a, "CONFIRMED") /\ lots[l].soldBy = a)
    BY <1>7 DEF ConfirmSell, db
  <2> QED BY <2>6, <2>7, <2>8
<1> QED BY <1>6, <1>7

\* The lot of a refused sale went to another one.
LEMMA RefusedIs ==
  ASSUME Inv, NEW a \in Ids, Refused(a), Pending(a)
  PROVE  /\ attempts[a].kind = "SELL" /\ attempts[a].lot \in DOMAIN lots /\ Landed(a)
         /\ lots[attempts[a].lot].soldBy # 0 /\ lots[attempts[a].lot].soldBy # a
<1>1. attempts[a].kind # "BUY" BY DEF Refused, MayBook
<1>2. attempts[a].kind = "SELL" BY <1>1, Typed DEF Attempt
<1>3. PICK l \in DOMAIN lots : l = attempts[a].lot BY <1>2 DEF Inv, RowsOK, RowOK
<1>4. /\ lots[l] \in Lot /\ LotOK(l) /\ (lots[l].closed => lots[l].reason # "none")
  BY Typed DEF Inv, LotsOK, TypeOK
<1>5. ~SellCloses(l) /\ lots[l].soldBy # a /\ Landed(a) BY <1>1, <1>3 DEF Refused
<1>6. lots[l].soldBy # 0 BY <1>4, <1>5 DEF SellCloses, LotOK, Lot
<1> QED BY <1>2, <1>3, <1>5, <1>6

LEMMA ReviewIs ==
  ASSUME Inv, NEW a \in Ids, Review(a), Pending(a)
  PROVE  /\ attempts' \in [Ids -> Attempt]
         /\ \A b \in Ids \ {a} : attempts'[b] = attempts[b]
         /\ attempts'[a].status = "PENDING" /\ attempts'[a].stamped = attempts[a].stamped
         /\ attempts'[a].kind = attempts[a].kind /\ attempts'[a].lot = attempts[a].lot
         /\ attempts'[a].sponsored = attempts[a].sponsored /\ attempts'[a].review
<1>1. attempts \in [Ids -> Attempt] /\ attempts[a] \in Attempt BY Typed
<1>2. PICK row : row = [attempts[a] EXCEPT !.review = TRUE] OBVIOUS
<1>3. /\ row \in Attempt /\ row.status = "PENDING" /\ row.stamped = attempts[a].stamped
      /\ row.kind = attempts[a].kind /\ row.lot = attempts[a].lot
      /\ row.sponsored = attempts[a].sponsored /\ row.review
  BY <1>1, <1>2 DEF Attempt, Pending
<1>4. attempts' = [attempts EXCEPT ![a] = row] BY <1>1, <1>2 DEF Review
<1>5. attempts' \in [Ids -> Attempt] /\ attempts'[a] = row BY <1>1, <1>3, <1>4
<1>6. \A b \in Ids \ {a} : attempts'[b] = attempts[b] BY <1>1, <1>4
<1> QED BY <1>3, <1>5, <1>6

LEMMA RefusedStep ==
  ASSUME Inv, NEW a \in Ids, Refused(a), Review(a) \/ UNCHANGED attempts,
         confirming' \in [Confirmers -> 0..MaxAttempts],
         UNCHANGED <<lots, funding, clock, chain, submitting, refresh>>,
         sweep' \in [rows : SUBSET Ids, bare : SUBSET Ids, height : 0..height]
  PROVE  Inv'
<1>1. UNCHANGED <<lots, funding, receiptSlot, acceptedSlot, fenced, height, holdings, tx, ata,
                  moves, lost, submitting, refresh>>
  BY DEF clock, chain
<1>2. height' \in Nat /\ height' >= height BY <1>1, Typed
<1>3. ASSUME attempts' \in [Ids -> Attempt] PROVE TypeOK'
  BY <1>1, <1>3 DEF Inv, TypeOK, Now
<1>4. CASE UNCHANGED attempts
  <2>1. TypeOK' BY <1>3, <1>4, Typed
  <2> QED BY <1>1, <1>2, <1>4, <2>1, Frame
<1>5. CASE Review(a) /\ Pending(a)
  <2>1. /\ attempts' \in [Ids -> Attempt]
        /\ \A b \in Ids \ {a} : attempts'[b] = attempts[b]
        /\ attempts'[a].status = "PENDING" /\ attempts'[a].stamped = attempts[a].stamped
        /\ attempts'[a].kind = attempts[a].kind /\ attempts'[a].lot = attempts[a].lot
        /\ attempts'[a].sponsored = attempts[a].sponsored /\ attempts'[a].review
    BY <1>5, ReviewIs
  <2>2. TypeOK' BY <1>3, <2>1
  <2>3. IdsInOrder' /\ LiveOK' BY <1>1, <1>5, <2>1, RowMoves DEF Holds, Alive, Pending
  <2>4. ASSUME NEW b \in Ids PROVE RowOK(b)'
    <3>1. CASE b # a
      <4>1. attempts'[b] = attempts[b] /\ tx'[b] = tx[b] BY <1>1, <2>1, <3>1
      <4>2. LotsMoveOn BY <1>1 DEF LotsMoveOn
      <4> QED BY <1>1, <1>2, <4>1, <4>2, RowKept
    <3>2. CASE b = a
      <4>1. RowOK(a) BY DEF Inv, RowsOK
      <4>2. /\ attempts[a].kind = "SELL" /\ attempts[a].lot \in DOMAIN lots
            /\ tx[a].state = "landed"
            /\ lots[attempts[a].lot].soldBy # 0 /\ lots[attempts[a].lot].soldBy # a
        BY <1>5, RefusedIs DEF Landed
      <4> QED BY <1>1, <1>5, <2>1, <3>2, <4>1, <4>2 DEF RowOK, Pending
    <3> QED BY <3>1, <3>2
  <2>5. LotsOK' BY <1>1 DEF Inv, LotsOK, LotOK
  <2> QED BY <2>2, <2>3, <2>4, <2>5 DEF Inv, RowsOK
<1>6. UNCHANGED attempts \/ (Review(a) /\ Pending(a)) BY DEF Review
<1> QED BY <1>4, <1>5, <1>6

\* What a confirmer may do with the row it read.
LEMMA ConfirmBookIs ==
  ASSUME Inv, NEW p \in Confirmers, ConfirmBook(p)
  PROVE  \E a \in Ids :
           /\ a = confirming[p] /\ confirming' \in [Confirmers -> 0..MaxAttempts]
           /\ UNCHANGED <<chain, submitting, refresh>>
           /\ sweep' = sweep \/ sweep' = SweepDone(a)
           /\ \/ ConfirmFailed(a) \/ ConfirmBuy(a) \/ ConfirmSell(a)
              \/ /\ Refused(a) /\ (Review(a) \/ UNCHANGED attempts)
                 /\ UNCHANGED <<lots, funding, clock>>
<1>1. confirming \in [Confirmers -> 0..MaxAttempts] BY DEF Inv, TypeOK
<1>2. confirming' \in [Confirmers -> 0..MaxAttempts] BY <1>1, Numbers DEF ConfirmBook
<1>3. PICK a \in Ids : a = confirming[p] BY <1>1, Numbers DEF ConfirmBook, Ids
<1>4. UNCHANGED <<chain, submitting, refresh>> BY DEF ConfirmBook
<1>5. sweep' = sweep \/ sweep' = SweepDone(a) BY <1>3 DEF ConfirmBook
<1>6. \/ ConfirmFailed(a) \/ ConfirmBuy(a) \/ ConfirmSell(a)
      \/ /\ Refused(a) /\ (Review(a) \/ UNCHANGED attempts)
         /\ UNCHANGED <<lots, funding, clock>>
  BY <1>3 DEF ConfirmBook
<1> QED BY <1>2, <1>3, <1>4, <1>5, <1>6

LEMMA ConfirmBookStep ==
  ASSUME Inv, NEW p \in Confirmers, ConfirmBook(p)
  PROVE  Inv'
<1>1. PICK a \in Ids :
        /\ a = confirming[p] /\ confirming' \in [Confirmers -> 0..MaxAttempts]
        /\ UNCHANGED <<chain, submitting, refresh>>
        /\ sweep' = sweep \/ sweep' = SweepDone(a)
        /\ \/ ConfirmFailed(a) \/ ConfirmBuy(a) \/ ConfirmSell(a)
           \/ /\ Refused(a) /\ (Review(a) \/ UNCHANGED attempts)
              /\ UNCHANGED <<lots, funding, clock>>
  BY ConfirmBookIs
<1>2. sweep' \in [rows : SUBSET Ids, bare : SUBSET Ids, height : 0..height]
  BY <1>1, SweepDoneTyped DEF Inv, TypeOK
<1>3. CASE ConfirmFailed(a) BY <1>1, <1>2, <1>3, ConfirmFailedStep
<1>4. CASE ConfirmBuy(a) BY <1>1, <1>2, <1>4, ConfirmBuyStep
<1>5. CASE ConfirmSell(a) BY <1>1, <1>2, <1>5, ConfirmSellStep
<1>6. CASE /\ Refused(a) /\ (Review(a) \/ UNCHANGED attempts)
           /\ UNCHANGED <<lots, funding, clock>>
  BY <1>1, <1>2, <1>6, RefusedStep
<1> QED BY <1>1, <1>3, <1>4, <1>5, <1>6

-----------------------------------------------------------------------------
(* The wallet refresh.                                                      *)

\* What an accepted snapshot makes of the lots.
LEMMA RefreshIs ==
  ASSUME Inv, NEW r \in Refreshers, RefreshAccepts(r)
  PROVE  /\ acceptedSlot' \in Slots /\ acceptedSlot' >= RequiredSlot
         /\ lots' \in Seq(Lot)
         /\ \A l \in DOMAIN lots :
              l \in DOMAIN lots' /\ (lots'[l] = lots[l] \/ lots'[l] = GoneLot(lots[l]))
         /\ \A l \in DOMAIN lots' \ DOMAIN lots :
              /\ ~lots'[l].closed /\ lots'[l].reason = "none"
              /\ lots'[l].by = 0 /\ lots'[l].soldBy = 0
<1>0. PICK s \in Answers(r) :
        /\ Acceptable(r, s) /\ acceptedSlot' = s
        /\ \E gone, kept :
             /\ kept = [l \in DOMAIN lots |-> IF l \in gone THEN GoneLot(lots[l]) ELSE lots[l]]
             /\ \/ lots' = kept
                \/ \E excess \in 1..holdings[s] : lots' = Append(kept, WalletLot(excess))
  <2>1. PICK s \in Answers(r) :
          LET gone == ClosedBy(holdings[s])
              kept == [l \in DOMAIN lots |-> IF l \in gone THEN GoneLot(lots[l]) ELSE lots[l]]
          IN
          /\ Acceptable(r, s)
          /\ \/ lots' = IF UnderReview THEN lots ELSE kept
             \/ \E excess \in 1..holdings[s] :
                  /\ ~UnderReview
                  /\ QtyOf(OpenLots \ gone) + excess = holdings[s]
                  /\ lots' = Append(kept, WalletLot(excess))
          /\ acceptedSlot' = s
    BY DEF RefreshAccepts
  <2>2. PICK gone : gone = IF UnderReview THEN {} ELSE ClosedBy(holdings[s]) OBVIOUS
  <2>3. PICK kept :
          kept = [l \in DOMAIN lots |-> IF l \in gone THEN GoneLot(lots[l]) ELSE lots[l]]
    OBVIOUS
  <2>4. lots' = kept \/ \E excess \in 1..holdings[s] : lots' = Append(kept, WalletLot(excess))
    <3>1. CASE UnderReview
      <4>1. lots' = lots BY <2>1, <3>1
      <4>2. lots \in [1..Len(lots) -> Lot] BY Typed, LenProperties
      <4>3. lots = kept BY <2>2, <2>3, <3>1, <4>2
      <4> QED BY <4>1, <4>3
    <3>2. CASE ~UnderReview BY <2>1, <2>2, <2>3, <3>2
    <3> QED BY <3>1, <3>2
  <2> QED BY <2>1, <2>3, <2>4
<1>1. PICK gone, kept :
        /\ kept = [l \in DOMAIN lots |-> IF l \in gone THEN GoneLot(lots[l]) ELSE lots[l]]
        /\ \/ lots' = kept
           \/ \E excess \in 1..holdings[s] : lots' = Append(kept, WalletLot(excess))
  BY <1>0
<1>2. s \in Slots /\ s >= RequiredSlot BY <1>0 DEF Answers, Acceptable
<1>3. \A l \in DOMAIN lots : GoneLot(lots[l]) \in Lot BY Typed DEF GoneLot, Lot
<1>4. /\ kept \in Seq(Lot) /\ Len(kept) = Len(lots) /\ DOMAIN kept = DOMAIN lots
      /\ \A l \in DOMAIN lots : kept[l] = lots[l] \/ kept[l] = GoneLot(lots[l])
  <2>1. \A l \in DOMAIN lots : kept[l] = lots[l] \/ kept[l] = GoneLot(lots[l]) BY <1>1
  <2>2. \A l \in DOMAIN lots : kept[l] \in Lot BY <1>3, <2>1, Typed
  <2>3. DOMAIN kept = 1..Len(lots) /\ Len(lots) \in Nat /\ DOMAIN lots = 1..Len(lots)
    BY <1>1, Typed
  <2>4. kept \in [1..Len(lots) -> Lot] BY <1>1, <2>2, <2>3
  <2>5. kept \in Seq(Lot) BY <2>3, <2>4, SeqDef
  <2>6. Len(kept) = Len(lots) BY <2>3, <2>5, LenProperties
  <2> QED BY <2>1, <2>3, <2>5, <2>6
<1>5. CASE lots' = kept BY <1>0, <1>2, <1>4, <1>5
<1>6. ASSUME NEW excess \in 1..holdings[s], lots' = Append(kept, WalletLot(excess))
      PROVE  /\ lots' \in Seq(Lot) /\ DOMAIN lots' = 1..(Len(lots) + 1)
             /\ lots'[Len(lots) + 1] = WalletLot(excess)
             /\ \A l \in DOMAIN lots : lots'[l] = kept[l]
  <2>1. holdings[s] \in Nat
    <3>1. s \in 1..Len(holdings) BY <1>2, Typed DEF Slots, Now
    <3> QED BY <3>1, Typed, ElementOfSeq
  <2>2. excess \in Nat \ {0} BY <2>1
  <2>3. WalletLot(excess) \in Lot BY <2>2, Numbers DEF WalletLot, Lot
  <2>4. PICK lot \in Lot : lot = WalletLot(excess) BY <2>3
  <2>5. lots' = Append(kept, lot) BY <1>6, <2>4
  <2>6. lots' \in Seq(Lot) /\ Len(lots') = Len(lots) + 1 BY <1>4, <2>5, AppendProperties
  <2>7. lots'[Len(lots) + 1] = lot BY <1>4, <2>5, AppendProperties
  <2>8. \A l \in 1..Len(lots) : lots'[l] = kept[l] BY <1>4, <2>5, AppendProperties
  <2> QED BY <2>4, <2>6, <2>7, <2>8, Typed, LenProperties
<1>7. ASSUME NEW excess \in 1..holdings[s], lots' = Append(kept, WalletLot(excess))
      PROVE  /\ lots' \in Seq(Lot)
             /\ \A l \in DOMAIN lots :
                  l \in DOMAIN lots' /\ (lots'[l] = lots[l] \/ lots'[l] = GoneLot(lots[l]))
             /\ \A l \in DOMAIN lots' \ DOMAIN lots :
                  /\ ~lots'[l].closed /\ lots'[l].reason = "none"
                  /\ lots'[l].by = 0 /\ lots'[l].soldBy = 0
  <2>1. /\ lots' \in Seq(Lot) /\ DOMAIN lots' = 1..(Len(lots) + 1)
        /\ lots'[Len(lots) + 1] = WalletLot(excess)
        /\ \A l \in DOMAIN lots : lots'[l] = kept[l]
    BY <1>6, <1>7
  <2>2. /\ \A l \in DOMAIN lots' : l \in DOMAIN lots \/ l = Len(lots) + 1
        /\ \A l \in DOMAIN lots : l \in DOMAIN lots'
    BY <2>1, Typed
  <2>3. ~WalletLot(excess).closed /\ WalletLot(excess).reason = "none"
        /\ WalletLot(excess).by = 0 /\ WalletLot(excess).soldBy = 0
    BY DEF WalletLot
  <2> QED BY <1>4, <2>1, <2>2, <2>3
<1> QED BY <1>0, <1>1, <1>2, <1>5, <1>7

LEMMA RefreshAcceptsStep ==
  ASSUME Inv, NEW r \in Refreshers, RefreshAccepts(r)
  PROVE  Inv'
<1>1. /\ UNCHANGED <<attempts, funding, receiptSlot, height, holdings, tx, ata, moves, lost,
                     submitting, confirming, sweep>>
      /\ fenced' = {} /\ refresh' = [refresh EXCEPT ![r] = Idle]
  BY DEF RefreshAccepts, chain
<1>2. /\ acceptedSlot' \in Slots /\ lots' \in Seq(Lot)
      /\ \A l \in DOMAIN lots :
           l \in DOMAIN lots' /\ (lots'[l] = lots[l] \/ lots'[l] = GoneLot(lots[l]))
      /\ \A l \in DOMAIN lots' \ DOMAIN lots :
           /\ ~lots'[l].closed /\ lots'[l].reason = "none"
           /\ lots'[l].by = 0 /\ lots'[l].soldBy = 0
  BY RefreshIs
<1>3. ASSUME NEW l \in DOMAIN lots
      PROVE  /\ l \in DOMAIN lots' /\ (lots[l].closed => lots'[l].closed)
             /\ lots'[l].by = lots[l].by /\ lots'[l].soldBy = lots[l].soldBy
             /\ lots'[l].reason = "sold" => lots[l].reason = "sold"
             /\ lots'[l].closed <=> lots'[l].reason # "none"
  <2>1. lots[l] \in Lot /\ (lots[l].closed <=> lots[l].reason # "none")
    BY Typed DEF Inv, TypeOK
  <2>2. CASE lots'[l] = lots[l] BY <1>2, <2>1, <2>2
  <2>3. CASE lots'[l] = GoneLot(lots[l]) BY <1>2, <2>1, <2>3 DEF GoneLot, Lot
  <2> QED BY <1>2, <2>2, <2>3
<1>4. TypeOK'
  <2>1. refresh' \in [Refreshers -> Nat \cup {Idle}] BY <1>1 DEF Inv, TypeOK
  <2>2. acceptedSlot' \in 1..Now'
    <3>1. Now' = Now BY <1>1 DEF Now
    <3> QED BY <1>2, <3>1, Typed DEF Slots
  <2>3. \A l \in DOMAIN lots' : lots'[l].closed <=> lots'[l].reason # "none" BY <1>2, <1>3
  <2> QED BY <1>1, <1>2, <2>1, <2>2, <2>3 DEF Inv, TypeOK, Now
<1>5. IdsInOrder' /\ LiveOK' BY <1>1 DEF Inv, IdsInOrder, LiveOK, Holds, Alive, IsSell
<1>6. ASSUME NEW b \in Ids PROVE RowOK(b)'
  <2>1. height' \in Nat /\ height' >= height BY <1>1, Typed
  <2>2. attempts'[b] = attempts[b] /\ tx'[b] = tx[b] BY <1>1
  <2>3. LotsMoveOn BY <1>3 DEF LotsMoveOn
  <2> QED BY <1>1, <2>1, <2>2, <2>3, RowKept
<1>7. ASSUME NEW l \in DOMAIN lots' PROVE LotOK(l)'
  <2>1. CASE l \in DOMAIN lots
    <3>1. LotOK(l) BY <2>1 DEF Inv, LotsOK
    <3> QED BY <1>1, <1>3, <2>1, <3>1 DEF LotOK
  <2>2. CASE l \notin DOMAIN lots BY <1>2, <2>2 DEF LotOK
  <2> QED BY <2>1, <2>2
<1> QED BY <1>4, <1>5, <1>6, <1>7 DEF Inv, RowsOK, LotsOK

-----------------------------------------------------------------------------
(* The chain.                                                               *)

\* What is said of the rows and the lots after one transaction moved on.
LEMMA TxMoves ==
  ASSUME Inv, NEW a \in Ids, \A b \in Ids \ {a} : tx'[b] = tx[b], tx[a].state # "landed",
         attempts[a].status # "none", attempts[a].status # "FAILED",
         attempts[a].sponsored => attempts[a].stamped /\ attempts[a].status # "EXPIRED",
         UNCHANGED <<attempts, lots, lost, receiptSlot, height>>, TypeOK'
  PROVE  Inv'
<1>1. IdsInOrder' /\ LiveOK' BY DEF Inv, IdsInOrder, LiveOK, Holds, Alive, IsSell
<1>2. ASSUME NEW b \in Ids PROVE RowOK(b)'
  <2>1. RowOK(b) BY DEF Inv, RowsOK
  <2>2. CASE b = a BY <2>1, <2>2 DEF RowOK
  <2>3. CASE b # a BY <2>1, <2>3 DEF RowOK
  <2> QED BY <2>2, <2>3
<1>3. ASSUME NEW l \in DOMAIN lots PROVE LotOK(l)'
  <2>1. LotOK(l) BY DEF Inv, LotsOK
  <2>2. lots[l].by # 0 => lots[l].by \in Ids BY Typed DEF Lot, Ids
  <2>3. lots[l].by # 0 => tx'[lots[l].by] = tx[lots[l].by] BY <2>1, <2>2 DEF LotOK
  <2> QED BY <2>1, <2>3 DEF LotOK
<1> QED BY <1>1, <1>2, <1>3 DEF Inv, RowsOK, LotsOK

LEMMA WalletSendsStep ==
  ASSUME Inv, NEW a \in Ids, WalletSends(a)
  PROVE  Inv'
<1>1. /\ UNCHANGED <<attempts, lots, funding, receiptSlot, acceptedSlot, fenced, height, holdings,
                     ata, moves, lost, submitting, confirming, refresh, sweep>>
      /\ tx' = [tx EXCEPT ![a].state = "sent"]
      /\ ~attempts[a].sponsored /\ attempts[a].status # "none" /\ tx[a].state = "none"
  BY DEF WalletSends, db, clock, locals
<1>2. RowOK(a) BY DEF Inv, RowsOK
<1>3. /\ tx' \in [Ids -> [state : {"none", "sent", "landed", "failed"}, slot : 0..Now]]
      /\ \A b \in Ids \ {a} : tx'[b] = tx[b]
  BY <1>1, Typed
<1>4. TypeOK' BY <1>1, <1>3 DEF Inv, TypeOK, Now
<1>5. attempts[a].status # "FAILED" BY <1>1, <1>2 DEF RowOK
<1> QED BY <1>1, <1>3, <1>4, <1>5, TxMoves

LEMMA ExecutesStep ==
  ASSUME Inv, NEW a \in Ids, Executes(a)
  PROVE  Inv'
<1>1. /\ UNCHANGED <<attempts, lots, funding, receiptSlot, acceptedSlot, fenced, height,
                     moves, lost, submitting, confirming, refresh, sweep>>
      /\ tx[a].state = "sent" /\ height <= attempts[a].lastValid
  BY DEF Executes, db, clock, locals
<1>2. RowOK(a) BY DEF Inv, RowsOK
<1>3. attempts[a] \in Attempt /\ attempts[a].lastValid \in Nat BY Typed DEF Attempt
<1>4. /\ attempts[a].status # "none" /\ attempts[a].status # "FAILED"
      /\ attempts[a].sponsored => attempts[a].stamped
  BY <1>1, <1>2 DEF RowOK
<1>5. attempts[a].sponsored => attempts[a].status # "EXPIRED"
  BY <1>1, <1>2, <1>3, Typed DEF RowOK
<1>6. Now \in Nat /\ Now # 0 /\ holdings[Now] \in Nat
  <2>1. Now \in Nat /\ Now # 0 BY Typed DEF Inv, TypeOK
  <2> QED BY <2>1, Typed, ElementOfSeq DEF Now
<1>7. /\ \A b \in Ids \ {a} : tx'[b] = tx[b]
      /\ tx' \in [Ids -> [state : {"none", "sent", "landed", "failed"}, slot : 0..Now']]
      /\ holdings' \in Seq(Nat) /\ Now' \in Nat /\ Now' >= Now
      /\ ata' \in {"none", "sponsor", "wallet"}
  <2>1. CASE /\ Fits(a)
             /\ tx' = [tx EXCEPT ![a] = [state |-> "landed", slot |-> Now + 1]]
             /\ IF attempts[a].kind = "BUY"
                THEN /\ holdings' = Append(holdings, holdings[Now] + 1)
                     /\ ata' = IF ata # "none" THEN ata
                               ELSE IF attempts[a].sponsored THEN "sponsor" ELSE "wallet"
                ELSE /\ holdings' = Append(holdings, holdings[Now] - lots[attempts[a].lot].qty)
                     /\ ata' = IF attempts[a].closeAta THEN "none" ELSE ata
    <3>1. \E m \in Nat : holdings' = Append(holdings, m)
      <4>1. CASE attempts[a].kind = "BUY"
        <5>1. holdings[Now] + 1 \in Nat BY <1>6
        <5> QED BY <2>1, <4>1, <5>1
      <4>2. CASE attempts[a].kind # "BUY"
        <5>1. attempts[a].kind = "SELL" BY <1>3, <4>2 DEF Attempt
        <5>2. lots[attempts[a].lot].qty \in Nat BY <1>2, <5>1, Typed DEF RowOK, Lot
        <5>3. holdings[Now] >= lots[attempts[a].lot].qty BY <2>1, <4>2 DEF Fits
        <5>4. holdings[Now] - lots[attempts[a].lot].qty \in Nat BY <1>6, <5>2, <5>3
        <5> QED BY <2>1, <4>2, <5>4
      <4> QED BY <4>1, <4>2
    <3>2. holdings' \in Seq(Nat) /\ Now' = Now + 1 BY <3>1, Typed, AppendProperties DEF Now
    <3>3. ata' \in {"none", "sponsor", "wallet"} BY <2>1 DEF Inv, TypeOK
    <3>4. PICK q : q = [state |-> "landed", slot |-> Now + 1] OBVIOUS
    <3>5. q \in [state : {"none", "sent", "landed", "failed"}, slot : 0..Now']
      BY <1>6, <3>2, <3>4
    <3>6. tx' = [tx EXCEPT ![a] = q] BY <2>1, <3>4
    <3>7. tx \in [Ids -> [state : {"none", "sent", "landed", "failed"}, slot : 0..Now']]
      <4>1. 0..Now \subseteq 0..Now' BY <1>6, <3>2
      <4> QED BY <4>1, Typed
    <3>8. \A b \in Ids \ {a} : tx'[b] = tx[b] BY <3>6, <3>7
    <3>9. tx' \in [Ids -> [state : {"none", "sent", "landed", "failed"}, slot : 0..Now']]
      BY <3>5, <3>6, <3>7
    <3> QED BY <1>6, <3>2, <3>3, <3>8, <3>9
  <2>2. CASE /\ tx' = [tx EXCEPT ![a] = [state |-> "failed", slot |-> Now]]
             /\ UNCHANGED <<holdings, ata>>
    <3>1. Now' = Now BY <2>2 DEF Now
    <3>2. holdings' \in Seq(Nat) /\ ata' \in {"none", "sponsor", "wallet"}
      BY <2>2 DEF Inv, TypeOK
    <3>3. PICK q : q = [state |-> "failed", slot |-> Now] OBVIOUS
    <3>4. q \in [state : {"none", "sent", "landed", "failed"}, slot : 0..Now'] BY <1>6, <3>1, <3>3
    <3>5. tx' = [tx EXCEPT ![a] = q] BY <2>2, <3>3
    <3>6. tx \in [Ids -> [state : {"none", "sent", "landed", "failed"}, slot : 0..Now']]
      BY <3>1, Typed
    <3>7. \A b \in Ids \ {a} : tx'[b] = tx[b] BY <3>5, <3>6
    <3>8. tx' \in [Ids -> [state : {"none", "sent", "landed", "failed"}, slot : 0..Now']]
      BY <3>4, <3>5, <3>6
    <3> QED BY <1>6, <3>1, <3>2, <3>7, <3>8
  <2> QED BY <2>1, <2>2 DEF Executes
<1>8. TypeOK'
  <2>1. 0..Now \subseteq 0..Now' /\ 1..Now \subseteq 1..Now' BY <1>6, <1>7
  <2> QED BY <1>1, <1>7, <2>1 DEF Inv, TypeOK
<1> QED BY <1>1, <1>4, <1>5, <1>7, <1>8, TxMoves

-----------------------------------------------------------------------------
(* The invariant.                                                           *)

LEMMA InitInv == Init => Inv
<1> SUFFICES ASSUME Init PROVE Inv OBVIOUS
<1>1. Held \in Nat BY TradeAssumption
<1>2. holdings \in Seq(Nat) /\ Now = 1 BY <1>1 DEF Init, Now
<1>3. lots \in Seq(Lot) /\ \A l \in DOMAIN lots :
        ~lots[l].closed /\ lots[l].reason = "none" /\ lots[l].by = 0 /\ lots[l].soldBy = 0
  <2>1. CASE Held = 0 BY <2>1 DEF Init
  <2>2. CASE Held # 0
    <3>1. PICK lot \in Lot : lot = WalletLot(Held)
      <4>1. WalletLot(Held) \in Lot BY <1>1, <2>2, Numbers DEF WalletLot, Lot
      <4> QED BY <4>1
    <3>2. lots = <<lot>> BY <2>2, <3>1 DEF Init
    <3>3. ~lot.closed /\ lot.reason = "none" /\ lot.by = 0 /\ lot.soldBy = 0
      BY <3>1 DEF WalletLot
    <3> QED BY <3>2, <3>3
  <2> QED BY <2>1, <2>2
<1>4. /\ attempts \in [Ids -> Attempt]
      /\ \A a \in Ids : /\ attempts[a].status = "none" /\ attempts[a].kind = "BUY"
                        /\ ~attempts[a].sponsored /\ ~attempts[a].review /\ a \notin lost
  BY DEF Init, Attempt
<1>5. /\ tx \in [Ids -> [state : {"none", "sent", "landed", "failed"}, slot : 0..Now]]
      /\ \A a \in Ids : tx[a].state = "none"
  BY <1>2 DEF Init
<1>6. TypeOK
  <2>1. \A l \in DOMAIN lots : lots[l].closed <=> lots[l].reason # "none" BY <1>3
  <2>2. funding \in [by : 0..MaxAttempts, confirmed : BOOLEAN, closed : BOOLEAN]
    BY Numbers DEF Init, NoFunding
  <2>3. height \in 1..MaxHeight BY TradeAssumption DEF Init
  <2>4. sweep \in [rows : SUBSET Ids, bare : SUBSET Ids, height : 0..height]
    BY DEF Init, NoSweep
  <2>5. moves \in 0..MaxMoves BY TradeAssumption DEF Init
  <2>6. confirming \in [Confirmers -> 0..MaxAttempts] BY Numbers DEF Init
  <2>7. receiptSlot \in 0..Now /\ acceptedSlot \in 1..Now BY <1>2 DEF Init
  <2>8. ata \in {"none", "sponsor", "wallet"} BY DEF Init
  <2>9. /\ fenced \subseteq {r \in Refreshers : refresh[r] # Idle} /\ submitting \subseteq Ids
        /\ refresh \in [Refreshers -> Nat \union {Idle}]
    BY DEF Init
  <2>10. lost \subseteq Ids BY DEF Init
  <2> QED BY <1>2, <1>3, <1>4, <1>5, <2>1, <2>2, <2>3, <2>4, <2>5, <2>6, <2>7, <2>8, <2>9, <2>10
          DEF TypeOK
<1>7. IdsInOrder
  <2>1. {a \in Ids : attempts[a].status # "none"} = 1..0 BY <1>4
  <2> QED BY <2>1, Numbers DEF IdsInOrder
<1>8. LiveOK BY <1>4 DEF LiveOK, Holds, Alive
<1>9. RowsOK BY <1>4, <1>5 DEF RowsOK, RowOK
<1>10. LotsOK BY <1>3 DEF LotsOK, LotOK
<1> QED BY <1>6, <1>7, <1>8, <1>9, <1>10 DEF Inv

LEMMA StepInv == Inv /\ [Next]_vars => Inv'
<1> SUFFICES ASSUME Inv, [Next]_vars PROVE Inv' OBVIOUS
<1>1. CASE UNCHANGED vars
  <2>1. UNCHANGED <<attempts, lots, funding, receiptSlot, acceptedSlot, fenced, height, holdings,
                    tx, ata, moves, lost, submitting, confirming, refresh, sweep>>
    BY <1>1 DEF vars, db, clock, chain, locals
  <2>2. TypeOK' BY <2>1 DEF Inv, TypeOK, Now
  <2>3. height' >= height BY <2>1, Typed
  <2> QED BY <2>1, <2>2, <2>3, Frame
<1>2. CASE Build
  BY <1>2, ReserveBuyStep, BuildBuyStep, BuildSellStep DEF Build
<1>3. ASSUME NEW a \in Ids, Submit(a) \/ ClientConfirms(a)
      PROVE  Inv'
  BY <1>3, SubmitterStep, StampStep, ReaderStep DEF Submit
<1>4. ASSUME NEW p \in Confirmers, ConfirmBook(p) PROVE Inv'
  BY <1>4, ConfirmBookStep
<1>5. CASE Sweep
  BY <1>5, SweepReadStep, ReaderStep, SweepExpiresStep DEF Sweep
<1>6. CASE PollerRestarts \/ ClientLeaves BY <1>6, ReaderStep
<1>7. ASSUME NEW r \in Refreshers, Refresh(r) PROVE Inv'
  BY <1>7, RefreshStep, RefreshAcceptsStep DEF Refresh
<1>8. CASE Chain
  BY <1>8, OutsideStep, WalletSendsStep, ExecutesStep DEF Chain
<1> QED BY <1>1, <1>2, <1>3, <1>4, <1>5, <1>6, <1>7, <1>8 DEF Next

LEMMA Invariance == Spec => []Inv
<1>1. Init => Inv BY InitInv
<1>2. Inv /\ [Next]_vars => Inv' BY StepInv
<1> QED BY <1>1, <1>2, PTL DEF Spec

\* The rows, the lots and what the handlers hold keep their shape; a lot is closed
\* exactly when it has a reason, and a current fence belongs to a refresh that runs
\* (stocks-real.ts, wallet-sync.ts).
THEOREM TradeTypes == Spec => []TypeOK
<1>1. Inv => TypeOK BY DEF Inv
<1> QED BY <1>1, Invariance, PTL

\* A build retires rows that were not stamped, adds one, and leaves the others alone.
LEMMA BuiltRows ==
  ASSUME Inv, Build, NEW b \in Ids, attempts[b].status # "none"
  PROVE  \/ attempts'[b] = attempts[b]
         \/ attempts'[b] = Expired(attempts[b]) /\ ~attempts[b].stamped
<1>1. attempts \in [Ids -> Attempt] /\ attempts[b] \in Attempt BY Typed
<1>2. PICK live, rows, h :
        /\ attempts' = Retired(live, rows) /\ rows[b] = attempts[b] /\ MayReplace(live, h)
        /\ \E row : rows = attempts \/ rows = [attempts EXCEPT ![NextId] = row]
  <2>1. CASE ReserveBuy BY <2>1 DEF ReserveBuy
  <2>2. ASSUME NEW row, NEW live, NEW h, NextId \in Ids, MayReplace(live, h),
               attempts' = Retired(live, [attempts EXCEPT ![NextId] = row])
        PROVE  \E rows : /\ attempts' = Retired(live, rows) /\ rows[b] = attempts[b]
                         /\ \E r : rows = attempts \/ rows = [attempts EXCEPT ![NextId] = r]
    <3>1. b # NextId BY <2>2, NextIdIsFree
    <3>2. [attempts EXCEPT ![NextId] = row][b] = attempts[b] BY <1>1, <3>1
    <3> QED BY <2>2, <3>2
  <2>3. ASSUME NEW s \in BuyKinds, BuildBuy(s)
        PROVE  \E live, row, h : /\ NextId \in Ids /\ MayReplace(live, h)
                                 /\ attempts' = Retired(live, [attempts EXCEPT ![NextId] = row])
    BY <2>3 DEF BuildBuy
  <2>4. ASSUME NEW l \in DOMAIN lots, BuildSell(l)
        PROVE  \E live, row, h : /\ NextId \in Ids /\ MayReplace(live, h)
                                 /\ attempts' = Retired(live, [attempts EXCEPT ![NextId] = row])
    BY <2>4 DEF BuildSell
  <2>5. CASE ~ReserveBuy
    <3>1. PICK live, row, h : /\ NextId \in Ids /\ MayReplace(live, h)
                              /\ attempts' = Retired(live, [attempts EXCEPT ![NextId] = row])
      BY <2>3, <2>4, <2>5 DEF Build
    <3> QED BY <2>2, <3>1
  <2> QED BY <2>1, <2>5
<1>3. DOMAIN rows = Ids BY <1>1, <1>2
<1>4. CASE live = {} BY <1>2, <1>4 DEF Retired
<1>5. CASE live # {}
  <2>1. attempts' = [rows EXCEPT ![Max(live)].status = "EXPIRED"] BY <1>2, <1>5 DEF Retired
  <2>2. ~attempts[Max(live)].stamped BY <1>2, <1>5 DEF MayReplace, Retirable
  <2>3. CASE b = Max(live) BY <1>2, <1>3, <2>1, <2>2, <2>3 DEF Expired
  <2>4. CASE b # Max(live) BY <1>2, <1>3, <2>1, <2>4
  <2> QED BY <2>3, <2>4
<1> QED BY <1>4, <1>5

\* What a step may make of a row.
LEMMA RowSteps ==
  ASSUME Inv, Next, NEW a \in Ids, attempts[a].status # "none"
  PROVE  /\ attempts'[a].sponsored = attempts[a].sponsored
         /\ \/ /\ attempts'[a].status = attempts[a].status
               /\ attempts[a].review => attempts'[a].review
            \/ /\ attempts'[a].status = "EXPIRED"
               /\ ~attempts[a].stamped \/ (SweepExpires(a) /\ ~attempts[a].review)
            \/ ConfirmFailed(a) /\ attempts'[a].status = "FAILED"
            \/ ConfirmBuy(a) /\ attempts'[a].status = "CONFIRMED"
            \/ /\ ConfirmSell(a) /\ attempts'[a].status = "CONFIRMED"
               /\ SellCloses(attempts[a].lot) \/ lots[attempts[a].lot].soldBy = a
<1> DEFINE Moved ==
      /\ attempts'[a].sponsored = attempts[a].sponsored
      /\ \/ /\ attempts'[a].status = attempts[a].status
            /\ attempts[a].review => attempts'[a].review
         \/ /\ attempts'[a].status = "EXPIRED"
            /\ ~attempts[a].stamped \/ (SweepExpires(a) /\ ~attempts[a].review)
         \/ ConfirmFailed(a) /\ attempts'[a].status = "FAILED"
         \/ ConfirmBuy(a) /\ attempts'[a].status = "CONFIRMED"
         \/ /\ ConfirmSell(a) /\ attempts'[a].status = "CONFIRMED"
            /\ SellCloses(attempts[a].lot) \/ lots[attempts[a].lot].soldBy = a
<1>1. attempts \in [Ids -> Attempt] /\ attempts[a] \in Attempt BY Typed
<1>2. ASSUME attempts'[a] = attempts[a] PROVE Moved BY <1>2
<1>3. ASSUME Build PROVE Moved
  <2>1. CASE attempts'[a] = Expired(attempts[a]) /\ ~attempts[a].stamped
    BY <1>1, <2>1 DEF Expired, Attempt
  <2> QED BY <1>2, <1>3, <2>1, BuiltRows
<1>4. ASSUME NEW b \in Ids, Submit(b) \/ ClientConfirms(b) PROVE Moved
  <2>1. CASE SubmitStamp(b) \/ MarkSent(b)
    <3>1. StampWire(b) BY <2>1 DEF SubmitStamp, MarkSent
    <3>2. CASE a = b BY <3>1, <3>2, StampIs
    <3>3. CASE a # b BY <1>2, <3>1, <3>3, StampIs
    <3> QED BY <3>2, <3>3
  <2>2. CASE SubmitCheck(b) \/ SubmitRefused(b) \/ ClientConfirms(b)
    BY <1>2, <2>2 DEF SubmitCheck, SubmitRefused, ClientConfirms, db
  <2> QED BY <1>4, <2>1, <2>2 DEF Submit
<1>5. ASSUME NEW p \in Confirmers, ConfirmBook(p) PROVE Moved
  <2>1. PICK b \in Ids :
          \/ ConfirmFailed(b) \/ ConfirmBuy(b) \/ ConfirmSell(b)
          \/ Refused(b) /\ (Review(b) \/ UNCHANGED attempts)
    BY <1>5, ConfirmBookIs
  <2>2. ASSUME NEW st \in {"CONFIRMED", "FAILED"}, Settle(b, st)
        PROVE  /\ a # b => attempts'[a] = attempts[a]
               /\ a = b => /\ attempts'[a].status = st
                           /\ attempts'[a].sponsored = attempts[a].sponsored
    BY <2>2, SettleIs
  <2>3. CASE UNCHANGED attempts BY <1>2, <2>3
  <2>4. CASE ConfirmFailed(b)
    <3>1. Settle(b, "FAILED") BY <2>4 DEF ConfirmFailed
    <3> QED BY <1>2, <2>2, <2>4, <3>1
  <2>5. CASE ConfirmBuy(b)
    <3>1. Settle(b, "CONFIRMED") \/ UNCHANGED attempts BY <2>5 DEF ConfirmBuy, db
    <3> QED BY <1>2, <2>2, <2>3, <2>5, <3>1
  <2>6. CASE ConfirmSell(b)
    <3>1. Settle(b, "CONFIRMED") \/ UNCHANGED attempts BY <2>6 DEF ConfirmSell
    <3>2. SellCloses(attempts[b].lot) \/ lots[attempts[b].lot].soldBy = b BY <2>6 DEF ConfirmSell
    <3> QED BY <1>2, <2>2, <2>3, <2>6, <3>1, <3>2
  <2>7. CASE Refused(b) /\ Review(b)
    <3>1. CASE Pending(b)
      <4>1. CASE a = b BY <2>7, <3>1, <4>1, ReviewIs DEF Pending
      <4>2. CASE a # b BY <1>2, <2>7, <3>1, <4>2, ReviewIs
      <4> QED BY <4>1, <4>2
    <3>2. CASE ~Pending(b) BY <2>3, <2>7, <3>2 DEF Review
    <3> QED BY <3>1, <3>2
  <2> QED BY <2>1, <2>3, <2>4, <2>5, <2>6, <2>7
<1>6. ASSUME Sweep PROVE Moved
  <2>1. ASSUME NEW b \in Ids, SweepExpires(b) PROVE Moved
    <3>1. \/ attempts' = attempts
          \/ attempts' = [attempts EXCEPT ![b].status = "EXPIRED"] /\ ~attempts[b].review
      BY <2>1 DEF SweepExpires, Expire
    <3>2. CASE attempts' = attempts BY <1>2, <3>2
    <3>3. CASE attempts' = [attempts EXCEPT ![b].status = "EXPIRED"] /\ ~attempts[b].review
      <4>1. CASE a = b
        <5>1. attempts'[a] = [attempts[a] EXCEPT !.status = "EXPIRED"] BY <1>1, <3>3, <4>1
        <5>2. attempts'[a].status = "EXPIRED" /\ attempts'[a].sponsored = attempts[a].sponsored
          BY <1>1, <5>1 DEF Attempt
        <5> QED BY <2>1, <3>3, <4>1, <5>2
      <4>2. CASE a # b BY <1>1, <1>2, <3>3, <4>2
      <4> QED BY <4>1, <4>2
    <3> QED BY <3>1, <3>2, <3>3
  <2>2. CASE SweepRead \/ SweepHeight \/ \E b \in Ids : SweepConfirms(b) \/ SweepSkips(b)
    BY <1>2, <2>2 DEF SweepRead, SweepHeight, SweepConfirms, SweepSkips, db
  <2> QED BY <1>6, <2>1, <2>2 DEF Sweep
<1>7. ASSUME PollerRestarts \/ ClientLeaves PROVE Moved
  BY <1>2, <1>7 DEF PollerRestarts, ClientLeaves, db
<1>8. ASSUME NEW r \in Refreshers, Refresh(r) PROVE Moved
  BY <1>2, <1>8 DEF Refresh, RefreshFence, RefreshAccepts, RefreshRejected, db
<1>9. ASSUME Chain PROVE Moved
  BY <1>2, <1>9 DEF Chain, Tick, Moves, WalletSends, Executes, db
<1> HIDE DEF Moved
<1>10. Moved BY <1>3, <1>4, <1>5, <1>6, <1>7, <1>8, <1>9 DEF Next
<1> QED BY <1>10 DEF Moved

\* Only a block makes a transaction land.
LEMMA LandsBy ==
  ASSUME Inv, Next, NEW a \in Ids, Landed(a)', ~Landed(a)
  PROVE  Executes(a)
<1>1. tx \in [Ids -> [state : {"none", "sent", "landed", "failed"}, slot : 0..Now]] BY Typed
<1>2. tx' # tx BY DEF Landed
<1>3. ~Build BY <1>2 DEF Build, ReserveBuy, BuildBuy, BuildSell, chain
<1>4. ASSUME NEW b \in Ids, tx' = [tx EXCEPT ![b].state = "sent"] PROVE FALSE
  BY <1>1, <1>4 DEF Landed
<1>5. ASSUME NEW b \in Ids, Submit(b) \/ ClientConfirms(b) PROVE FALSE
  BY <1>2, <1>4, <1>5 DEF Submit, SubmitCheck, SubmitStamp, SubmitRefused, MarkSent,
                        ClientConfirms, chain
<1>6. ASSUME NEW p \in Confirmers PROVE ~ConfirmBook(p) BY <1>2 DEF ConfirmBook, chain
<1>7. ~(Sweep \/ PollerRestarts \/ ClientLeaves)
  BY <1>2 DEF Sweep, SweepRead, SweepHeight, SweepConfirms, SweepExpires, SweepSkips,
              PollerRestarts, ClientLeaves, chain
<1>8. ASSUME NEW r \in Refreshers PROVE ~Refresh(r)
  BY <1>2 DEF Refresh, RefreshFence, RefreshAccepts, RefreshRejected, chain
<1>9. ~(Tick \/ Moves) BY <1>2 DEF Tick, Moves
<1>10. ASSUME NEW b \in Ids PROVE ~WalletSends(b) BY <1>4 DEF WalletSends
<1>11. ASSUME NEW b \in Ids, Executes(b) PROVE b = a
  <2>1. b # a => tx'[a] = tx[a] BY <1>1, <1>11 DEF Executes
  <2> QED BY <2>1 DEF Landed
<1>12. \E b \in Ids : Executes(b)
  BY <1>3, <1>5, <1>6, <1>7, <1>8, <1>9, <1>10 DEF Next, Chain
<1> QED BY <1>11, <1>12

-----------------------------------------------------------------------------
(* What is given up, and sold.                                              *)

\* A sponsored trade never lands once it was written off, and one that landed is written off
\* only by a sweep that read its row before it was stamped: a build retires no stamped row, a
\* later sweep reads the stamp, and a refused confirm leaves the row to a human
\* (reservePendingBuy, stampSignedWire, sweepAttempts).
THEOREM NotWrittenOff == Spec => OnlyAStaleReadLoses
<1> DEFINE Lost(a) ==
      ~GivenUp(a) /\ GivenUp(a)' => Landed(a) /\ attempts[a].stamped /\ a \in sweep.bare
<1>1. ASSUME Inv, Next, NEW a \in Ids, ~GivenUp(a), GivenUp(a)'
      PROVE  Landed(a) /\ attempts[a].stamped /\ a \in sweep.bare
  <2>1. RowOK(a) BY <1>1 DEF Inv, RowsOK
  <2>2. Landed(a)' /\ attempts'[a].sponsored /\ attempts'[a].status = "EXPIRED"
    BY <1>1 DEF GivenUp
  <2>3. Landed(a)
    <3>1. SUFFICES ASSUME ~Landed(a) PROVE FALSE OBVIOUS
    <3>2. Executes(a) BY <1>1, <2>2, <3>1, LandsBy
    <3>3. /\ attempts[a].sponsored /\ attempts[a].status = "EXPIRED"
          /\ tx[a].state = "sent" /\ height <= attempts[a].lastValid
      BY <2>2, <3>2 DEF Executes, db
    <3>4. attempts[a].lastValid \in Nat /\ height \in Nat BY <1>1, Typed DEF Attempt
    <3> QED BY <2>1, <3>3, <3>4 DEF RowOK
  <2>4. attempts[a].status # "none" BY <2>1, <2>3 DEF RowOK, Landed
  <2>5. attempts'[a].sponsored = attempts[a].sponsored BY <1>1, <2>4, RowSteps
  <2>6. attempts[a].stamped BY <2>1, <2>2, <2>3, <2>5 DEF RowOK, Landed
  <2>7. attempts[a].status # "EXPIRED" BY <1>1, <2>2, <2>3, <2>5 DEF GivenUp
  <2>8. SweepExpires(a) BY <1>1, <2>2, <2>4, <2>6, <2>7, RowSteps
  <2> QED BY <2>3, <2>6, <2>8 DEF SweepExpires
<1>2. ASSUME UNCHANGED vars, NEW a \in Ids PROVE ~GivenUp(a) => ~GivenUp(a)'
  BY <1>2 DEF vars, db, chain, GivenUp, Landed
<1>3. Inv /\ [Next]_vars => [\A a \in Ids : Lost(a)]_vars BY <1>1
<1> HIDE DEF Lost
<1>4. Spec => [][\A a \in Ids : Lost(a)]_vars BY <1>3, Invariance, PTL DEF Spec
<1> QED BY <1>4 DEF OnlyAStaleReadLoses, Lost

\* At most one sale of a lot lands, besides those that were written off: a build is refused
\* while another sale of the lot is pending, under review or not, and a sale that was
\* confirmed has closed the lot (buildSellAttempt, stampSignedWire, confirmSell).
THEOREM LotSoldOnce == Spec => []OneSaleUnlessLost
<1>1. ASSUME Inv, NEW l \in DOMAIN lots
      PROVE  Cardinality({a \in SellsOf(l) : Landed(a)} \ lost) <= 1
  <2> DEFINE S == {a \in SellsOf(l) : Landed(a)} \ lost
  <2>1. ASSUME NEW a \in S PROVE a \in Ids /\ Holds(a) /\ IsSell(a) /\ attempts[a].lot = l
    <3>1. /\ a \in Ids /\ attempts[a].kind = "SELL" /\ attempts[a].lot = l
          /\ tx[a].state = "landed" /\ a \notin lost
      BY DEF SellsOf, Landed
    <3>2. attempts[a].status \in {"none", "PENDING", "CONFIRMED", "EXPIRED", "FAILED"}
      BY <1>1, <3>1, Typed DEF Attempt
    <3>3. RowOK(a) BY <1>1, <3>1 DEF Inv, RowsOK
    <3> QED BY <3>1, <3>2, <3>3 DEF RowOK, Holds, Alive, IsSell
  <2>2. \A a, b \in S : a = b BY <1>1, <2>1 DEF Inv, LiveOK, IsSell
  <2>3. CASE S = {}
    <3>1. Cardinality(S) = 0 BY <2>3, FS_EmptySet
    <3> QED BY <3>1
  <2>4. ASSUME NEW a \in S PROVE Cardinality(S) = 1
    <3>1. S = {a} BY <2>2, <2>4
    <3> HIDE DEF S
    <3> QED BY <3>1, FS_Singleton
  <2> QED BY <2>3, <2>4
<1>2. Inv => OneSaleUnlessLost BY <1>1 DEF OneSaleUnlessLost
<1> QED BY <1>2, Invariance, PTL

-----------------------------------------------------------------------------
(* Fresh lots.                                                              *)

\* What a confirmation makes of a lot that was open.
LEMMA ConfirmLots ==
  ASSUME Inv, NEW p \in Confirmers, ConfirmBook(p), NEW l \in DOMAIN lots
  PROVE  lots'[l] = lots[l] \/ lots'[l].reason = "sold"
<1>1. PICK a \in Ids :
        ConfirmFailed(a) \/ ConfirmBuy(a) \/ ConfirmSell(a) \/ UNCHANGED lots
  BY ConfirmBookIs
<1>2. CASE UNCHANGED lots BY <1>2
<1>3. CASE ConfirmFailed(a) BY <1>3 DEF ConfirmFailed
<1>4. CASE ConfirmBuy(a)
  <2>1. CASE lots' = lots BY <2>1
  <2>2. CASE lots' = Append(lots, BuyLot(a))
    <3>1. PICK lot \in Lot : lot = BuyLot(a)
      <4>1. a \in 0..MaxAttempts /\ 0 \in 0..MaxAttempts BY Numbers
      <4>2. BuyLot(a) \in Lot BY <4>1 DEF BuyLot, Lot
      <4> QED BY <4>2
    <3>2. lots' = Append(lots, lot) BY <2>2, <3>1
    <3>3. \A k \in 1..Len(lots) : lots'[k] = lots[k] BY <3>2, Typed, AppendProperties
    <3> QED BY <3>3, Typed
  <2> QED BY <1>4, <2>1, <2>2 DEF ConfirmBuy, db
<1>5. CASE ConfirmSell(a)
  <2>1. CASE lots' = lots BY <2>1
  <2>2. CASE lots' = [lots EXCEPT ![attempts[a].lot] = SoldLot(@, a)]
    <3>1. lots[l] \in Lot BY Typed
    <3>2. SoldLot(lots[l], a).reason = "sold" BY <3>1 DEF SoldLot, Lot
    <3> QED BY <2>2, <3>2
  <2> QED BY <1>5, <2>1, <2>2 DEF ConfirmSell, db
<1> QED BY <1>1, <1>2, <1>3, <1>4, <1>5

\* A refresh never closes a lot whose buy its snapshot could not show: a booked buy has
\* left its slot in the wallet's clock, and a snapshot older than that is rejected
\* (bumpWalletGeneration, refreshWalletHoldings).
THEOREM FreshLotsStay == Spec => FreshLotsKept
<1> DEFINE Kept == \A l \in DOMAIN lots :
             IsOpen(l) /\ lots'[l].reason = "wallet" /\ lots[l].by # 0
                 => tx[lots[l].by].slot <= acceptedSlot'
<1>1. ASSUME Inv, NEW l \in DOMAIN lots, IsOpen(l), lots'[l] = lots[l] \/ lots'[l].reason = "sold"
      PROVE  lots'[l].reason # "wallet"
  <2>1. lots[l].reason = "none" BY <1>1 DEF Inv, TypeOK, IsOpen
  <2> QED BY <1>1, <2>1
<1>2. ASSUME Inv, NEW r \in Refreshers, RefreshAccepts(r) PROVE Kept
  <2>1. acceptedSlot' \in Nat /\ acceptedSlot' >= RequiredSlot
    BY <1>2, RefreshIs, Typed DEF Slots
  <2>2. RequiredSlot \in Nat /\ RequiredSlot >= receiptSlot /\ receiptSlot \in Nat
    BY <1>2, Typed DEF RequiredSlot, LargerOf
  <2>3. ASSUME NEW l \in DOMAIN lots, lots[l].by # 0
        PROVE  tx[lots[l].by].slot <= acceptedSlot'
    <3>1. tx[lots[l].by].slot <= receiptSlot BY <1>2, <2>3 DEF Inv, LotsOK, LotOK
    <3>2. lots[l].by \in Ids BY <1>2, <2>3, Typed DEF Lot, Ids
    <3>3. tx[lots[l].by].slot \in Nat BY <1>2, <3>2, Typed
    <3> QED BY <2>1, <2>2, <3>1, <3>3
  <2> QED BY <2>3
<1>3. ASSUME Inv, UNCHANGED lots PROVE Kept BY <1>1, <1>3
<1>4. ASSUME Inv, NEW p \in Confirmers, ConfirmBook(p) PROVE Kept
  <2>1. \A l \in DOMAIN lots : lots'[l] = lots[l] \/ lots'[l].reason = "sold"
    BY <1>4, ConfirmLots
  <2> QED BY <1>1, <1>4, <2>1
<1>5. ASSUME Next
      PROVE  \/ UNCHANGED lots
             \/ \E p \in Confirmers : ConfirmBook(p)
             \/ \E r \in Refreshers : RefreshAccepts(r)
  <2>1. CASE Build BY <2>1 DEF Build, ReserveBuy, BuildBuy, BuildSell
  <2>2. ASSUME NEW a \in Ids, Submit(a) \/ ClientConfirms(a) PROVE UNCHANGED lots
    BY <2>2 DEF Submit, SubmitCheck, SubmitStamp, SubmitRefused, MarkSent, StampWire,
               ClientConfirms, db
  <2>3. CASE Sweep \/ PollerRestarts \/ ClientLeaves
    BY <2>3 DEF Sweep, SweepRead, SweepHeight, SweepConfirms, SweepExpires, SweepSkips, Expire,
               PollerRestarts, ClientLeaves, db
  <2>4. ASSUME NEW r \in Refreshers, Refresh(r) PROVE UNCHANGED lots \/ RefreshAccepts(r)
    BY <2>4 DEF Refresh, RefreshFence, RefreshRejected, db
  <2>5. CASE Chain BY <2>5 DEF Chain, Tick, Moves, WalletSends, Executes, db
  <2> QED BY <1>5, <2>1, <2>2, <2>3, <2>4, <2>5 DEF Next
<1>6. Inv /\ [Next]_vars => [Kept]_vars
  BY <1>2, <1>3, <1>4, <1>5
<1> HIDE DEF Kept
<1>7. Spec => [][Kept]_vars BY <1>6, Invariance, PTL DEF Spec
<1> QED BY <1>7 DEF FreshLotsKept, Kept

-----------------------------------------------------------------------------
(* Tokens on the books.                                                     *)

\* The tokens of the lots L of the list ls: QtyOf(L), before or after a step.
Tokens(ls, L) == SumFunction([l \in L |-> ls[l].qty])

\* There are finitely many, each of a number of tokens.
Priced(ls, L) == IsFiniteSet(L) /\ \A l \in L : ls[l].qty \in Nat

\* The tokens of some lots are a number.
LEMMA TokensType ==
  ASSUME NEW ls, NEW L, Priced(ls, L)
  PROVE  Tokens(ls, L) \in Nat
<1> DEFINE f == [l \in L |-> ls[l].qty]
<1>1. f \in [L -> Nat] BY DEF Priced
<1>2. f \in [L -> Int] /\ \A l \in L : f[l] >= 0 BY <1>1
<1>3. IsFiniteSet(L) BY DEF Priced
<1> HIDE DEF f
<1>4. SumFunction(f) \in Nat BY <1>2, <1>3, SumNat
<1> QED BY <1>4 DEF Tokens, f

\* They are the same in two lists that give the lots the same quantities.
LEMMA TokensSame ==
  ASSUME NEW ls, NEW ms, NEW L, \A l \in L : ls[l].qty = ms[l].qty
  PROVE  Tokens(ls, L) = Tokens(ms, L)
<1>1. [l \in L |-> ls[l].qty] = [l \in L |-> ms[l].qty] OBVIOUS
<1> QED BY <1>1 DEF Tokens

\* One more lot adds its tokens.
LEMMA TokensAdded ==
  ASSUME NEW ls, NEW L, NEW x, x \notin L, Priced(ls, L \cup {x})
  PROVE  /\ Priced(ls, L) /\ Tokens(ls, L \cup {x}) = Tokens(ls, L) + ls[x].qty
<1> DEFINE f == [l \in L |-> ls[l].qty]
           g == [l \in L \cup {x} |-> ls[l].qty]
<1>1. IsFiniteSet(L) /\ Priced(ls, L) BY FS_Subset DEF Priced
<1>2. f \in [L -> Int] /\ g \in [L \cup {x} -> Int] BY DEF Priced
<1>3. (\A y \in L : g[y] = f[y]) /\ g[x] = ls[x].qty OBVIOUS
<1> HIDE DEF f, g
<1>4. SumFunction(g) = SumFunction(f) + g[x] BY <1>1, <1>2, <1>3, SumAdded
<1> QED BY <1>1, <1>3, <1>4 DEF Tokens, f, g

\* Some of the lots have no more tokens than all of them.
LEMMA TokensPart ==
  ASSUME NEW ls, NEW M, NEW L, L \subseteq M, Priced(ls, M)
  PROVE  Priced(ls, L) /\ Tokens(ls, L) <= Tokens(ls, M)
<1> DEFINE f == [l \in M |-> ls[l].qty]
           g == [l \in L |-> ls[l].qty]
<1>1. IsFiniteSet(M) /\ Priced(ls, L) BY FS_Subset DEF Priced
<1>2. f \in [M -> Nat] /\ g \in [L -> Nat] BY <1>1 DEF Priced
<1>3. \A x \in L : g[x] = f[x] OBVIOUS
<1> HIDE DEF f, g
<1>4. SumFunction(g) <= SumFunction(f) BY <1>1, <1>2, <1>3, SumPart
<1> QED BY <1>1, <1>4 DEF Tokens, f, g

\* The lots have tokens.
LEMMA AllPriced ==
  ASSUME Inv, NEW L, L \subseteq DOMAIN lots
  PROVE  Priced(lots, L)
<1>1. IsFiniteSet(DOMAIN lots) 
  <2>1. IsFiniteSet(1..Len(lots)) BY Typed, FS_Interval
  <2> QED BY <2>1, Typed
<1>2. \A l \in L : lots[l].qty \in Nat BY Typed DEF Lot
<1> QED BY <1>1, <1>2, FS_Subset DEF Priced

\* A set of naturals with a bound has a greatest element.
LEMMA Greatest ==
  ASSUME NEW n \in Nat, NEW T, T \subseteq 1..n, T # {}
  PROVE  \E m \in T : \A k \in T : k <= m
<1> DEFINE U == {n - k : k \in T}
<1>1. U \subseteq Nat /\ U # {}
  <2>1. \A k \in T : k \in Nat /\ n - k \in Nat OBVIOUS
  <2>2. \A u \in U : u \in Nat BY <2>1
  <2>3. PICK k \in T : TRUE OBVIOUS
  <2>4. n - k \in U OBVIOUS
  <2> QED BY <2>2, <2>4
<1> HIDE DEF U
<1>2. PICK u \in U : \A v \in U : u <= v BY <1>1, NatLeast
<1>3. PICK m \in T : u = n - m BY DEF U
<1>4. ASSUME NEW k \in T PROVE k <= m
  <2>1. n - k \in U BY DEF U
  <2>2. n - m <= n - k BY <1>2, <1>3, <2>1
  <2>3. k \in Nat /\ m \in Nat BY <1>3
  <2> QED BY <2>2, <2>3
<1> QED BY <1>3, <1>4

\* Of some lots there is one that would be closed first.
LEMMA FirstToGo ==
  ASSUME Inv, NEW R, R \subseteq DOMAIN lots, R # {}
  PROVE  \E l \in R : \A k \in R : k = l \/ Before(l, k)
<1>0. R \subseteq 1..Len(lots) /\ Len(lots) \in Nat BY Typed
<1> DEFINE W == {l \in R : lots[l].source = "WALLET"}
<1>1. CASE W # {}
  <2>1. W \subseteq 1..Len(lots) BY <1>0
  <2>2. PICK m \in W : \A k \in W : k <= m BY <1>0, <1>1, <2>1, Greatest
  <2>3. ASSUME NEW k \in R PROVE k = m \/ Before(m, k)
    <3>1. CASE k \in W
      <4>1. k <= m /\ k \in Nat /\ m \in Nat BY <1>0, <2>2, <3>1
      <4> QED BY <3>1, <4>1 DEF Before
    <3>2. CASE k \notin W BY <3>2 DEF Before
    <3> QED BY <3>1, <3>2
  <2> QED BY <2>3
<1>2. CASE W = {}
  <2>1. PICK m \in R : \A k \in R : k <= m BY <1>0, Greatest
  <2>2. ASSUME NEW k \in R PROVE k = m \/ Before(m, k)
    <3>1. lots[k].source = "DECK" /\ lots[m].source = "DECK" BY <1>2, Typed DEF Lot
    <3>2. k <= m /\ k \in Nat /\ m \in Nat BY <1>0, <2>1
    <3> QED BY <3>1, <3>2 DEF Before
  <2> QED BY <2>2
<1> QED BY <1>1, <1>2

\* No lot, no token.
LEMMA NoTokens == ASSUME NEW ls PROVE Tokens(ls, {}) = 0
<1> PICK R : R = {} OBVIOUS
<1>1. IsFiniteSet(R) BY FS_EmptySet
<1> DEFINE f == [l \in R |-> ls[l].qty]
<1>2. f \in [R -> Int] /\ \A l \in R : f[l] = 0 OBVIOUS
<1> HIDE DEF f
<1>3. SumFunction(f) = 0 BY <1>1, <1>2, SumZero
<1> QED BY <1>3 DEF Tokens, f

\* What a snapshot leaves open fits into its balance.
LEMMA RestFits ==
  ASSUME Inv, NEW balance \in Nat
  PROVE  Tokens(lots, OpenLots \ ClosedBy(balance)) <= balance
<1> DEFINE R == OpenLots \ ClosedBy(balance)
<1>0. R \subseteq OpenLots /\ OpenLots \subseteq DOMAIN lots BY DEF OpenLots
<1>1. CASE R = {}
  <2>1. Tokens(lots, R) = 0 BY <1>1, NoTokens
  <2> QED BY <2>1
<1>2. CASE R # {}
  <2>1. PICK l \in R : \A k \in R : k = l \/ Before(l, k)
    <3> HIDE DEF R
    <3> QED BY <1>0, <1>2, FirstToGo
  <2> DEFINE M == {k \in OpenLots : k = l \/ Before(l, k)}
  <2>2. R \subseteq M /\ M \subseteq DOMAIN lots BY <1>0, <2>1
  <2>3. ~(QtyOf(M) > balance) BY <2>1 DEF ClosedBy
  <2>4. QtyOf(M) = Tokens(lots, M) BY DEF QtyOf, Tokens
  <2> HIDE DEF M, R
  <2>5. Priced(lots, M) BY <2>2, AllPriced
  <2>6. Priced(lots, R) /\ Tokens(lots, R) <= Tokens(lots, M) BY <2>2, <2>5, TokensPart
  <2>7. Tokens(lots, R) \in Nat /\ Tokens(lots, M) \in Nat BY <2>5, <2>6, TokensType
  <2>8. Tokens(lots, R) <= balance BY <2>3, <2>4, <2>6, <2>7
  <2> QED BY <2>8 DEF R
<1> QED BY <1>1, <1>2

-----------------------------------------------------------------------------
(* What the steps do to the books.                                          *)

\* A buy that landed and is not booked yet landed after the accepted snapshot.
FreshBuys == \A a \in Ids : Pending(a) /\ Landed(a) => tx[a].slot > acceptedSlot

\* The open lots of buys that landed after the accepted snapshot.
Fresh == {l \in OpenLots : lots[l].by # 0 /\ tx[lots[l].by].slot > acceptedSlot}

\* The books fit: what is open is at most what the accepted snapshot held and fresh buys.
Fit == QtyOf(OpenLots) <= holdings[acceptedSlot] + QtyOf(BookedAfter(acceptedSlot))

\* The same, with the tokens of the two sides as numbers.
BooksView ==
    /\ Fit <=> Tokens(lots, OpenLots) <= holdings[acceptedSlot] + Tokens(lots, Fresh)
    /\ OpenLots \subseteq DOMAIN lots /\ Fresh \subseteq OpenLots
    /\ Priced(lots, OpenLots) /\ Priced(lots, Fresh)
    /\ Tokens(lots, OpenLots) \in Nat /\ Tokens(lots, Fresh) \in Nat
    /\ holdings[acceptedSlot] \in Nat /\ acceptedSlot \in 1..Now

\* The two sides are numbers in every state of the invariant.
LEMMA BooksAre == Inv => BooksView
<1> SUFFICES ASSUME Inv PROVE BooksView OBVIOUS
<1>1. Fit <=> Tokens(lots, OpenLots) <= holdings[acceptedSlot] + Tokens(lots, Fresh)
  BY DEF Fit, QtyOf, Tokens, Fresh, BookedAfter
<1>2. OpenLots \subseteq DOMAIN lots /\ Fresh \subseteq OpenLots /\ Fresh \subseteq DOMAIN lots
  BY DEF OpenLots, Fresh
<1>3. Priced(lots, OpenLots) /\ Priced(lots, Fresh) BY <1>2, AllPriced
<1>4. acceptedSlot \in 1..Now BY DEF Inv, TypeOK
<1>5. holdings[acceptedSlot] \in Nat
  <2>1. acceptedSlot \in 1..Len(holdings) BY <1>4 DEF Now
  <2> QED BY <2>1, Typed, ElementOfSeq
<1> QED BY <1>1, <1>2, <1>3, <1>4, <1>5, TokensType DEF BooksView

\* And so after a step.
LEMMA BooksAreNext == Inv' => BooksView'
  BY BooksAre, PTL

\* Steps that leave the lots, the clock and the slots of the booked buys.
LEMMA BooksStay ==
  ASSUME Inv, Inv', Fit, lots' = lots, acceptedSlot' = acceptedSlot,
         holdings'[acceptedSlot] = holdings[acceptedSlot],
         \A l \in DOMAIN lots : lots[l].by # 0 => tx'[lots[l].by].slot = tx[lots[l].by].slot
  PROVE  Fit'
<1>1. OpenLots' = OpenLots BY DEF OpenLots
<1>2. OpenLots \subseteq DOMAIN lots BY DEF OpenLots
<1>3. BookedAfter(acceptedSlot)' = BookedAfter(acceptedSlot)
  BY <1>1, <1>2 DEF BookedAfter
<1>4. QtyOf(OpenLots)' = QtyOf(OpenLots) BY <1>1 DEF QtyOf
<1>5. QtyOf(BookedAfter(acceptedSlot))' = QtyOf(BookedAfter(acceptedSlot)) BY <1>3 DEF QtyOf
<1> QED BY <1>4, <1>5 DEF Fit

\* A booked buy that landed after the accepted snapshot.
LEMMA BooksBought ==
  ASSUME Inv, Inv', Fit, NEW a \in Ids, tx[a].slot > acceptedSlot,
         lots' = Append(lots, BuyLot(a)), UNCHANGED <<acceptedSlot, holdings, tx>>
  PROVE  Fit'
<1>1. PICK n : n = Len(lots) + 1 OBVIOUS
<1>2. /\ DOMAIN lots' = DOMAIN lots \cup {n} /\ n \notin DOMAIN lots
      /\ lots'[n] = BuyLot(a) /\ \A l \in DOMAIN lots : lots'[l] = lots[l]
  <2>1. PICK lot \in Lot : lot = BuyLot(a)
    <3>1. a \in 0..MaxAttempts /\ 0 \in 0..MaxAttempts BY Numbers
    <3>2. BuyLot(a) \in Lot BY <3>1 DEF BuyLot, Lot
    <3> QED BY <3>2
  <2>2. lots' = Append(lots, lot) BY <2>1
  <2>3. \A l \in 1..Len(lots) : lots'[l] = lots[l] BY <2>2, Typed, AppendProperties
  <2>4. Len(lots') = Len(lots) + 1 /\ lots'[Len(lots) + 1] = lot BY <2>2, Typed, AppendProperties
  <2>5. DOMAIN lots' = 1..n BY <1>1, <2>4, LenProperties DEF Inv, TypeOK
  <2> QED BY <1>1, <2>1, <2>3, <2>4, <2>5, Typed
<1>3. BuyLot(a).by = a /\ BuyLot(a).qty = 1 /\ ~BuyLot(a).closed /\ a # 0 BY Numbers DEF BuyLot
<1>4. OpenLots' = OpenLots \cup {n} /\ Fresh' = Fresh \cup {n} /\ n \notin OpenLots /\ n \notin Fresh
  BY <1>2, <1>3 DEF OpenLots, Fresh
<1>5. /\ OpenLots \subseteq DOMAIN lots /\ Fresh \subseteq OpenLots
      /\ Tokens(lots, OpenLots) <= holdings[acceptedSlot] + Tokens(lots, Fresh)
      /\ Tokens(lots, OpenLots) \in Nat /\ Tokens(lots, Fresh) \in Nat
      /\ holdings[acceptedSlot] \in Nat
  BY BooksAre DEF BooksView
<1>6. /\ Fit' <=>
           Tokens(lots', OpenLots') <= holdings'[acceptedSlot'] + Tokens(lots', Fresh')
      /\ Priced(lots', OpenLots') /\ Priced(lots', Fresh')
  BY BooksAreNext DEF BooksView
<1>7. Tokens(lots', OpenLots') = Tokens(lots', OpenLots) + 1
  <2>1. Tokens(lots', OpenLots') = Tokens(lots', OpenLots) + lots'[n].qty
    BY <1>4, <1>6, TokensAdded
  <2> QED BY <1>2, <1>3, <2>1
<1>8. Tokens(lots', Fresh') = Tokens(lots', Fresh) + 1
  <2>1. Tokens(lots', Fresh') = Tokens(lots', Fresh) + lots'[n].qty
    BY <1>4, <1>6, TokensAdded
  <2> QED BY <1>2, <1>3, <2>1
<1>9. Tokens(lots', OpenLots) = Tokens(lots, OpenLots) /\ Tokens(lots', Fresh) = Tokens(lots, Fresh)
  <2>1. \A l \in OpenLots : lots'[l].qty = lots[l].qty BY <1>2, <1>5
  <2>2. \A l \in Fresh : lots'[l].qty = lots[l].qty BY <1>5, <2>1
  <2> QED BY <2>1, <2>2, TokensSame
<1>10. holdings'[acceptedSlot'] = holdings[acceptedSlot] OBVIOUS
<1> QED BY <1>5, <1>6, <1>7, <1>8, <1>9, <1>10

\* A lot that a sale closes.
LEMMA BooksSold ==
  ASSUME Inv, Inv', Fit, NEW x \in DOMAIN lots, NEW a,
         lots' = [lots EXCEPT ![x] = SoldLot(@, a)], UNCHANGED <<acceptedSlot, holdings, tx>>
  PROVE  Fit'
<1>1. /\ DOMAIN lots' = DOMAIN lots /\ \A l \in DOMAIN lots : l # x => lots'[l] = lots[l]
      /\ lots'[x].closed /\ lots'[x].qty = lots[x].qty
  BY Typed DEF SoldLot, Lot
<1>2. OpenLots' = OpenLots \ {x} /\ Fresh' = Fresh \ {x}
  BY <1>1 DEF OpenLots, Fresh
<1>3. /\ OpenLots \subseteq DOMAIN lots /\ Fresh \subseteq OpenLots
      /\ Priced(lots, OpenLots) /\ Priced(lots, Fresh)
      /\ Tokens(lots, OpenLots) <= holdings[acceptedSlot] + Tokens(lots, Fresh)
      /\ Tokens(lots, OpenLots) \in Nat /\ Tokens(lots, Fresh) \in Nat
      /\ holdings[acceptedSlot] \in Nat
  BY BooksAre DEF BooksView
<1>4. /\ Fit' <=>
           Tokens(lots', OpenLots') <= holdings'[acceptedSlot'] + Tokens(lots', Fresh')
  BY BooksAreNext DEF BooksView
<1>5. Tokens(lots', OpenLots') = Tokens(lots, OpenLots \ {x}) /\ Tokens(lots', Fresh') = Tokens(lots, Fresh \ {x})
  <2>1. ASSUME NEW L, L \subseteq OpenLots
        PROVE  Tokens(lots', L \ {x}) = Tokens(lots, L \ {x})
    <3>1. PICK K : K = L \ {x} OBVIOUS
    <3>2. \A l \in K : lots'[l].qty = lots[l].qty BY <1>1, <1>3, <2>1, <3>1
    <3>3. Tokens(lots', K) = Tokens(lots, K) BY <3>2, TokensSame
    <3> QED BY <3>1, <3>3
  <2> QED BY <1>2, <1>3, <2>1
<1>6. holdings'[acceptedSlot'] = holdings[acceptedSlot] OBVIOUS
<1>7. lots[x].qty \in Nat BY Typed DEF Lot
<1>8. ASSUME NEW L, Priced(lots, L)
      PROVE  /\ Tokens(lots, L \ {x}) \in Nat
             /\ IF x \in L THEN Tokens(lots, L) = Tokens(lots, L \ {x}) + lots[x].qty
                ELSE Tokens(lots, L \ {x}) = Tokens(lots, L)
  <2>1. CASE x \in L
    <3>1. L = (L \ {x}) \cup {x} /\ x \notin L \ {x} BY <2>1
    <3>2. Priced(lots, L \ {x}) /\ Tokens(lots, (L \ {x}) \cup {x}) = Tokens(lots, L \ {x}) + lots[x].qty
      BY <1>8, <3>1, TokensAdded
    <3> QED BY <2>1, <3>1, <3>2, TokensType
  <2>2. CASE x \notin L
    <3>1. L \ {x} = L BY <2>2
    <3> QED BY <1>8, <2>2, <3>1, TokensType
  <2> QED BY <2>1, <2>2
<1> PICK o : o = Tokens(lots, OpenLots \ {x}) OBVIOUS
<1> PICK f : f = Tokens(lots, Fresh \ {x}) OBVIOUS
<1>9. /\ o \in Nat /\ f \in Nat
      /\ IF x \in OpenLots THEN Tokens(lots, OpenLots) = o + lots[x].qty
         ELSE o = Tokens(lots, OpenLots)
      /\ IF x \in Fresh THEN Tokens(lots, Fresh) = f + lots[x].qty
         ELSE f = Tokens(lots, Fresh)
  BY <1>3, <1>8
<1>10. o <= holdings[acceptedSlot] + f BY <1>3, <1>7, <1>9
<1> QED BY <1>4, <1>5, <1>6, <1>10

\* The list with an adopted lot.
LEMMA AdoptedLots ==
  ASSUME Inv, NEW gone, NEW kept, NEW b \in Nat, NEW excess \in 1..b,
         kept = [l \in DOMAIN lots |-> IF l \in gone THEN GoneLot(lots[l]) ELSE lots[l]],
         lots' = Append(kept, WalletLot(excess))
  PROVE  /\ DOMAIN lots' = 1..(Len(lots) + 1)
         /\ lots'[Len(lots) + 1] = WalletLot(excess)
         /\ \A l \in DOMAIN lots : lots'[l] = kept[l]
<1>1. \A l \in DOMAIN lots : GoneLot(lots[l]) \in Lot BY Typed DEF GoneLot, Lot
<1>2. kept \in Seq(Lot) /\ Len(kept) = Len(lots)
  <2>1. \A l \in DOMAIN lots : kept[l] \in Lot BY <1>1, Typed
  <2>2. DOMAIN kept = 1..Len(lots) /\ Len(lots) \in Nat /\ DOMAIN lots = 1..Len(lots) BY Typed
  <2>3. kept \in [1..Len(lots) -> Lot] BY <2>1, <2>2
  <2>4. kept \in Seq(Lot) BY <2>2, <2>3, SeqDef
  <2> QED BY <2>2, <2>4, LenProperties
<1>3. PICK lot \in Lot : lot = WalletLot(excess)
  <2>1. WalletLot(excess) \in Lot BY Numbers DEF WalletLot, Lot
  <2> QED BY <2>1
<1>4. lots' = Append(kept, lot) BY <1>3
<1>5. lots' \in Seq(Lot) /\ Len(lots') = Len(lots) + 1 BY <1>2, <1>4, AppendProperties
<1>6. lots'[Len(lots) + 1] = lot BY <1>2, <1>4, AppendProperties
<1>7. \A l \in 1..Len(lots) : lots'[l] = kept[l] BY <1>2, <1>4, AppendProperties
<1> QED BY <1>3, <1>5, <1>6, <1>7, Typed, LenProperties

\* An accepted snapshot: what it leaves open it holds.
LEMMA BooksAccepted ==
  ASSUME Inv, Inv', ~UnderReview, NEW r \in Refreshers, RefreshAccepts(r)
  PROVE  Fit'
<1>1. PICK s, gone, kept :
        /\ s \in Answers(r)
        /\ gone = ClosedBy(holdings[s])
        /\ kept = [l \in DOMAIN lots |-> IF l \in gone THEN GoneLot(lots[l]) ELSE lots[l]]
        /\ acceptedSlot' = s
        /\ \/ lots' = kept
           \/ \E excess \in 1..holdings[s] :
                /\ QtyOf(OpenLots \ gone) + excess = holdings[s]
                /\ lots' = Append(kept, WalletLot(excess))
  <2>1. PICK s \in Answers(r) :
          LET gone == ClosedBy(holdings[s])
              kept == [l \in DOMAIN lots |-> IF l \in gone THEN GoneLot(lots[l]) ELSE lots[l]]
          IN
          /\ Acceptable(r, s)
          /\ \/ lots' = IF UnderReview THEN lots ELSE kept
             \/ \E excess \in 1..holdings[s] :
                  /\ ~UnderReview
                  /\ QtyOf(OpenLots \ gone) + excess = holdings[s]
                  /\ lots' = Append(kept, WalletLot(excess))
          /\ acceptedSlot' = s
    BY DEF RefreshAccepts
  <2>2. PICK gone : gone = ClosedBy(holdings[s]) OBVIOUS
  <2>3. PICK kept :
          kept = [l \in DOMAIN lots |-> IF l \in gone THEN GoneLot(lots[l]) ELSE lots[l]]
    OBVIOUS
  <2> QED BY <2>1, <2>2, <2>3
<1>2. holdings' = holdings BY DEF RefreshAccepts, chain
<1>3. s \in 1..Now /\ holdings[s] \in Nat
  <2>1. s \in Slots BY <1>1 DEF Answers
  <2>2. s \in 1..Len(holdings) BY <2>1, Typed DEF Slots, Now
  <2> QED BY <2>2, Typed, ElementOfSeq DEF Now
<1> DEFINE R == OpenLots \ gone
<1>4. /\ R \subseteq OpenLots /\ OpenLots \subseteq DOMAIN lots /\ R \subseteq DOMAIN lots
      /\ QtyOf(R) = Tokens(lots, R)
      /\ R = {l \in DOMAIN lots : ~lots[l].closed /\ l \notin gone}
  BY DEF OpenLots, QtyOf, Tokens
<1>5. Tokens(lots, R) <= holdings[s] BY <1>1, <1>3, RestFits
<1>6. DOMAIN kept = DOMAIN lots
      /\ \A l \in DOMAIN lots : /\ kept[l].qty = lots[l].qty
                                /\ ~kept[l].closed <=> (~lots[l].closed /\ l \notin gone)
  BY <1>1, Typed DEF GoneLot, Lot
<1>7. /\ Fit' <=>
           Tokens(lots', OpenLots') <= holdings'[acceptedSlot'] + Tokens(lots', Fresh')
      /\ Priced(lots', OpenLots') /\ Tokens(lots', OpenLots') \in Nat /\ Tokens(lots', Fresh') \in Nat
  BY BooksAreNext DEF BooksView
<1>8. Tokens(lots', OpenLots') <= holdings[s]
  <2>1. CASE lots' = kept
    <3>1. OpenLots' = R BY <1>4, <1>6, <2>1 DEF OpenLots
    <3>2. \A l \in R : lots'[l].qty = lots[l].qty BY <1>4, <1>6, <2>1
    <3> HIDE DEF R
    <3>3. Tokens(lots', R) = Tokens(lots, R) BY <3>2, TokensSame
    <3> QED BY <1>5, <3>1, <3>3
  <2>2. ASSUME NEW excess \in 1..holdings[s], QtyOf(R) + excess = holdings[s],
               lots' = Append(kept, WalletLot(excess))
        PROVE  Tokens(lots', OpenLots') <= holdings[s]
    <3>1. PICK n : n = Len(lots) + 1 OBVIOUS
    <3>2. /\ DOMAIN lots' = DOMAIN lots \cup {n} /\ n \notin DOMAIN lots
          /\ lots'[n] = WalletLot(excess) /\ \A l \in DOMAIN lots : lots'[l] = kept[l]
      <4>1. /\ DOMAIN lots' = 1..(Len(lots) + 1)
            /\ lots'[Len(lots) + 1] = WalletLot(excess)
            /\ \A l \in DOMAIN lots : lots'[l] = kept[l]
        BY <1>1, <1>3, <2>2, AdoptedLots
      <4> QED BY <3>1, <4>1, Typed
    <3>3. WalletLot(excess).qty = excess /\ ~WalletLot(excess).closed BY DEF WalletLot
    <3>4. OpenLots' = R \cup {n} /\ n \notin R
      BY <1>4, <1>6, <3>2, <3>3 DEF OpenLots
    <3>5. \A l \in R : lots'[l].qty = lots[l].qty BY <1>4, <1>6, <3>2
    <3>6. QtyOf(R) = Tokens(lots, R) BY <1>4
    <3>7. QtyOf(R) + excess = holdings[s] BY <2>2
    <3> HIDE DEF R
    <3>8. Tokens(lots', R) = Tokens(lots, R) BY <3>5, TokensSame
    <3>9. Tokens(lots', OpenLots') = Tokens(lots', R) + lots'[n].qty
      BY <1>7, <3>4, TokensAdded
    <3>10. Tokens(lots', OpenLots') = holdings[s] BY <3>2, <3>3, <3>6, <3>7, <3>8, <3>9
    <3> QED BY <1>3, <3>10
  <2> QED BY <1>1, <2>1, <2>2
<1> QED BY <1>1, <1>2, <1>3, <1>7, <1>8

\* The invariant of the books: a sale that waits for a human freezes them.
BooksInv == Inv /\ (UnderReview \/ (FreshBuys /\ Fit))

\* No step takes a sale away from the human it waits for.
LEMMA ReviewStays ==
  ASSUME Inv, [Next]_vars, UnderReview
  PROVE  UnderReview'
<1>1. PICK a \in Ids : Pending(a) /\ attempts[a].review BY DEF UnderReview
<1>2. CASE UNCHANGED vars BY <1>2 DEF vars, db, UnderReview, Pending
<1>3. CASE Next
  <2>1. RowOK(a) BY DEF Inv, RowsOK
  <2>2. PICK l \in DOMAIN lots :
          /\ l = attempts[a].lot /\ lots[l].soldBy # 0 /\ lots[l].soldBy # a
          /\ attempts[a].kind = "SELL" /\ attempts[a].sponsored /\ tx[a].state = "landed"
    BY <1>1, <2>1 DEF RowOK
  <2>3. attempts[a].stamped BY <2>1, <2>2 DEF RowOK
  <2>4. ~SellCloses(l) BY <2>2 DEF Inv, LotsOK, LotOK, SellCloses
  <2>5. ~ConfirmFailed(a) /\ ~ConfirmBuy(a) BY <2>2 DEF ConfirmFailed, ConfirmBuy
  <2>6. attempts'[a].status = attempts[a].status /\ attempts'[a].review
    BY <1>1, <1>3, <2>2, <2>3, <2>4, <2>5, RowSteps DEF Pending
  <2> QED BY <1>1, <2>6 DEF UnderReview, Pending
<1> QED BY <1>2, <1>3

\* A landed trade that is pending after a step was so before it.
LEMMA LandedWas ==
  ASSUME Inv, Next, NEW a \in Ids, Pending(a)', Landed(a)
  PROVE  Pending(a)
<1>1. attempts[a].status # "none" BY DEF Inv, RowsOK, RowOK, Landed
<1>2. attempts'[a].status = "PENDING" BY DEF Pending
<1>3. attempts'[a].status = attempts[a].status BY <1>1, <1>2, RowSteps
<1> QED BY <1>2, <1>3 DEF Pending

\* A confirmed buy was pending, so it landed after the accepted snapshot.
LEMMA BooksConfirmed ==
  ASSUME Inv, Inv', FreshBuys, Fit, NEW p \in Confirmers, ConfirmBook(p)
  PROVE  FreshBuys' /\ Fit'
<1>1. PICK a \in Ids :
        /\ UNCHANGED <<chain, submitting, refresh>>
        /\ \/ ConfirmFailed(a) \/ ConfirmBuy(a) \/ ConfirmSell(a)
           \/ UNCHANGED <<lots, funding, clock>>
  BY ConfirmBookIs
<1>2. Next BY DEF Next
<1>3. UNCHANGED <<holdings, tx>> BY <1>1 DEF chain
<1>5. acceptedSlot' = acceptedSlot
  BY <1>1 DEF ConfirmFailed, ConfirmBuy, ConfirmSell, BumpAt, clock
<1>6. \A b \in Ids : Pending(b)' /\ Landed(b) => Pending(b) BY <1>2, LandedWas
<1>7. FreshBuys' BY <1>3, <1>5, <1>6 DEF FreshBuys, Landed
<1>8. CASE lots' = lots BY <1>3, <1>5, <1>7, <1>8, BooksStay
<1>9. CASE lots' # lots
  <2>1. CASE ConfirmBuy(a)
    <3>1. Pending(a) /\ Landed(a) /\ lots' = Append(lots, BuyLot(a))
      BY <1>9, <2>1 DEF ConfirmBuy, MayBook, db
    <3>2. tx[a].slot > acceptedSlot BY <3>1 DEF FreshBuys
    <3> QED BY <1>3, <1>5, <1>7, <3>1, <3>2, BooksBought
  <2>2. CASE ConfirmSell(a)
    <3>1. attempts[a].lot \in DOMAIN lots BY <2>2 DEF Inv, RowsOK, RowOK, ConfirmSell
    <3>2. lots' = [lots EXCEPT ![attempts[a].lot] = SoldLot(@, a)]
      BY <1>9, <2>2 DEF ConfirmSell, db
    <3> QED BY <1>3, <1>5, <1>7, <3>1, <3>2, BooksSold
  <2>3. ~ConfirmFailed(a) BY <1>9 DEF ConfirmFailed
  <2> QED BY <1>1, <1>9, <2>1, <2>2, <2>3
<1> QED BY <1>7, <1>8, <1>9

\* A build retires rows and adds one whose transaction is not sent.
LEMMA BooksBuilt ==
  ASSUME Inv, Inv', FreshBuys, Fit, Build
  PROVE  FreshBuys' /\ Fit'
<1>1. /\ UNCHANGED <<lots, holdings, tx, acceptedSlot>>
  BY DEF Build, ReserveBuy, BuildBuy, BuildSell, Bump, clock, chain
<1>2. ASSUME NEW b \in Ids, Pending(b)', Landed(b) PROVE Pending(b)
  <2>1. Next BY DEF Next
  <2> QED BY <1>2, <2>1, LandedWas
<1>3. FreshBuys' BY <1>1, <1>2 DEF FreshBuys, Landed
<1> QED BY <1>1, <1>3, BooksStay

\* A transaction that lands appends to the balances.
LEMMA ExecutedHoldings ==
  ASSUME Inv, NEW a \in Ids, Executes(a)
  PROVE  holdings' = holdings \/ \E m \in Nat : holdings' = Append(holdings, m)
<1>0. Now \in 1..Len(holdings) BY Typed DEF Inv, TypeOK, Now
<1>1. holdings[Now] \in Nat BY <1>0, Typed, ElementOfSeq
<1>2. CASE holdings' = holdings BY <1>2
<1>3. CASE Fits(a) /\ attempts[a].kind = "BUY" /\ holdings' = Append(holdings, holdings[Now] + 1)
  <2>1. holdings[Now] + 1 \in Nat BY <1>1
  <2> QED BY <1>3, <2>1
<1>4. CASE Fits(a) /\ attempts[a].kind # "BUY"
           /\ holdings' = Append(holdings, holdings[Now] - lots[attempts[a].lot].qty)
  <2>1. attempts[a].kind = "SELL" BY <1>4, Typed DEF Attempt
  <2>2. lots[attempts[a].lot].qty \in Nat BY <2>1, Typed DEF Inv, RowsOK, RowOK, Lot
  <2>3. holdings[Now] >= lots[attempts[a].lot].qty BY <1>4 DEF Fits
  <2>4. holdings[Now] - lots[attempts[a].lot].qty \in Nat BY <1>1, <2>2, <2>3
  <2> QED BY <1>4, <2>4
<1> QED BY <1>2, <1>3, <1>4 DEF Executes

\* A transaction lands after every slot there is.
LEMMA BooksExecuted ==
  ASSUME Inv, Inv', FreshBuys, Fit, NEW a \in Ids, Executes(a)
  PROVE  FreshBuys' /\ Fit'
<1>1. UNCHANGED <<attempts, lots, acceptedSlot>> /\ tx[a].state = "sent"
  BY DEF Executes, db, clock
<1>2. acceptedSlot \in 1..Len(holdings) /\ Len(holdings) \in Nat /\ holdings \in Seq(Nat)
      /\ Now = Len(holdings)
  BY Typed DEF Inv, TypeOK, Now
<1>3. tx \in [Ids -> [state : {"none", "sent", "landed", "failed"}, slot : 0..Now]] BY Typed
<1>4. /\ \A b \in Ids \ {a} : tx'[b] = tx[b]
      /\ tx'[a].state = "landed" => tx'[a].slot = Now + 1
  BY <1>3 DEF Executes
<1>5. holdings'[acceptedSlot] = holdings[acceptedSlot]
  <2>1. holdings' = holdings \/ \E m \in Nat : holdings' = Append(holdings, m) BY ExecutedHoldings
  <2>2. ASSUME NEW m \in Nat, holdings' = Append(holdings, m) PROVE holdings'[acceptedSlot] = holdings[acceptedSlot]
    BY <1>2, <2>2, AppendProperties
  <2> QED BY <2>1, <2>2
<1>6. FreshBuys'
  <2> SUFFICES ASSUME NEW b \in Ids, Pending(b)', Landed(b)' PROVE tx'[b].slot > acceptedSlot
    BY <1>1 DEF FreshBuys
  <2>1. Pending(b) BY <1>1 DEF Pending
  <2>2. CASE b = a BY <1>2, <1>4, <2>2 DEF Landed
  <2>3. CASE b # a BY <1>4, <2>1, <2>3 DEF FreshBuys, Landed
  <2> QED BY <2>2, <2>3
<1>7. ASSUME NEW l \in DOMAIN lots, lots[l].by # 0
      PROVE  tx'[lots[l].by].slot = tx[lots[l].by].slot
  <2>1. lots[l].by \in Ids BY <1>7, Typed DEF Lot, Ids
  <2>2. tx[lots[l].by].state = "landed" BY <1>7 DEF Inv, LotsOK, LotOK
  <2>3. lots[l].by # a BY <1>1, <2>2
  <2> QED BY <1>4, <2>1, <2>3
<1> QED BY <1>1, <1>5, <1>6, <1>7, BooksStay

\* Other steps book nothing, and send or land nothing.
LEMMA BooksIdle ==
  ASSUME Inv, Inv', FreshBuys, Fit, lots' = lots, acceptedSlot' = acceptedSlot,
         holdings'[acceptedSlot] = holdings[acceptedSlot],
         \A a \in Ids : /\ Pending(a)' => Pending(a)
                        /\ Landed(a)' => Landed(a)
                        /\ tx'[a].slot = tx[a].slot
  PROVE  FreshBuys' /\ Fit'
<1>1. FreshBuys' BY DEF FreshBuys
<1>2. \A l \in DOMAIN lots : lots[l].by # 0 => tx'[lots[l].by].slot = tx[lots[l].by].slot
  <2>1. \A l \in DOMAIN lots : lots[l].by # 0 => lots[l].by \in Ids BY Typed DEF Lot, Ids
  <2> QED BY <2>1
<1> QED BY <1>1, <1>2, BooksStay

\* Every step keeps the books.
LEMMA BooksNext ==
  ASSUME Inv, Inv', ~UnderReview, FreshBuys, Fit, [Next]_vars
  PROVE  FreshBuys' /\ Fit'
<1>0. attempts \in [Ids -> Attempt]
      /\ tx \in [Ids -> [state : {"none", "sent", "landed", "failed"}, slot : 0..Now]]
  BY Typed
<1>1. CASE UNCHANGED vars
  <2>1. UNCHANGED <<attempts, lots, acceptedSlot, holdings, tx>>
    BY <1>1 DEF vars, db, clock, chain
  <2> QED BY <2>1, BooksIdle DEF Pending, Landed
<1>2. CASE Build BY <1>2, BooksBuilt
<1>3. ASSUME NEW a \in Ids, Submit(a) \/ ClientConfirms(a) PROVE FreshBuys' /\ Fit'
  <2>1. UNCHANGED <<lots, acceptedSlot, holdings>>
    BY <1>3 DEF Submit, SubmitCheck, SubmitStamp, SubmitRefused, MarkSent, ClientConfirms,
                StampWire, Bump, db, clock, chain
  <2>2. attempts' = attempts \/ attempts' = [attempts EXCEPT ![a].stamped = TRUE]
    BY <1>3 DEF Submit, SubmitCheck, SubmitStamp, SubmitRefused, MarkSent, ClientConfirms,
                StampWire, db
  <2>3. tx' = tx \/ (tx[a].state = "none" /\ tx' = [tx EXCEPT ![a].state = "sent"])
    <3>1. CASE SubmitStamp(a) BY <3>1 DEF SubmitStamp
    <3>2. CASE SubmitCheck(a) \/ SubmitRefused(a) \/ MarkSent(a) \/ ClientConfirms(a)
      <4>1. chain' = chain BY <3>2 DEF SubmitCheck, SubmitRefused, MarkSent, ClientConfirms
      <4> QED BY <4>1 DEF chain
    <3> QED BY <1>3, <3>1, <3>2 DEF Submit
  <2>4. ASSUME NEW b \in Ids, Pending(b)' PROVE Pending(b)
    <3>1. attempts[b] \in Attempt BY <1>0
    <3>2. attempts'[b] = attempts[b] \/ attempts'[b] = [attempts[b] EXCEPT !.stamped = TRUE]
      BY <1>0, <2>2
    <3>3. attempts'[b].status = attempts[b].status BY <3>1, <3>2 DEF Attempt
    <3> QED BY <2>4, <3>3 DEF Pending
  <2>5. \A b \in Ids : (Landed(b)' => Landed(b)) /\ tx'[b].slot = tx[b].slot
    BY <1>0, <2>3 DEF Landed
  <2> QED BY <2>1, <2>4, <2>5, BooksIdle
<1>4. ASSUME NEW p \in Confirmers, ConfirmBook(p) PROVE FreshBuys' /\ Fit'
  BY <1>4, BooksConfirmed
<1>5. CASE Sweep \/ PollerRestarts \/ ClientLeaves
  <2>1. UNCHANGED <<lots, acceptedSlot, holdings, tx>>
    BY <1>5 DEF Sweep, SweepRead, SweepHeight, SweepConfirms, SweepExpires, SweepSkips, Expire,
                PollerRestarts, ClientLeaves, Bump, db, clock, chain
  <2>2. attempts' = attempts \/ \E a \in Ids : attempts' = [attempts EXCEPT ![a].status = "EXPIRED"]
    BY <1>5 DEF Sweep, SweepRead, SweepHeight, SweepConfirms, SweepExpires, SweepSkips, Expire,
                PollerRestarts, ClientLeaves, db
  <2>3. \A b \in Ids : Pending(b)' => Pending(b) BY <1>0, <2>2 DEF Pending, Attempt
  <2> QED BY <2>1, <2>3, BooksIdle DEF Landed
<1>6. ASSUME NEW r \in Refreshers, Refresh(r) PROVE FreshBuys' /\ Fit'
  <2>1. CASE RefreshFence(r) \/ RefreshRejected(r)
    <3>1. UNCHANGED <<attempts, lots, acceptedSlot, holdings, tx>>
      BY <2>1 DEF RefreshFence, RefreshRejected, db, chain
    <3> QED BY <3>1, BooksIdle DEF Pending, Landed
  <2>2. CASE RefreshAccepts(r)
    <3>1. ~InFlight /\ attempts' = attempts BY <2>2 DEF RefreshAccepts, Acceptable
    <3>2. FreshBuys' BY <3>1 DEF FreshBuys, InFlight, UnderReview, Pending
    <3> QED BY <2>2, <3>2, BooksAccepted
  <2> QED BY <1>6, <2>1, <2>2 DEF Refresh
<1>7. CASE Chain
  <2>1. ASSUME NEW a \in Ids, Executes(a) PROVE FreshBuys' /\ Fit'
    BY <2>1, BooksExecuted
  <2>2. CASE Tick
    <3>1. UNCHANGED <<attempts, lots, acceptedSlot, holdings, tx>> BY <2>2 DEF Tick, db, clock
    <3> QED BY <3>1, BooksIdle DEF Pending, Landed
  <2>3. CASE Moves
    <3>1. UNCHANGED <<attempts, lots, acceptedSlot, tx>> BY <2>3 DEF Moves, db, clock
    <3>2. acceptedSlot \in 1..Len(holdings) /\ holdings \in Seq(Nat) /\ Now = Len(holdings)
          /\ Now \in 1..Len(holdings)
      BY Typed DEF Inv, TypeOK, Now
    <3>3. holdings[Now] \in Nat BY <3>2, ElementOfSeq
    <3>4. \E m \in Nat : holdings' = Append(holdings, m) BY <2>3, <3>3 DEF Moves
    <3>5. holdings'[acceptedSlot] = holdings[acceptedSlot] BY <3>2, <3>4, AppendProperties
    <3> QED BY <3>1, <3>5, BooksIdle DEF Pending, Landed
  <2>4. ASSUME NEW a \in Ids, WalletSends(a) PROVE FreshBuys' /\ Fit'
    <3>1. UNCHANGED <<attempts, lots, acceptedSlot, holdings>> BY <2>4 DEF WalletSends, db, clock
    <3>2. tx[a].state = "none" /\ tx' = [tx EXCEPT ![a].state = "sent"] BY <2>4 DEF WalletSends
    <3>3. \A b \in Ids : (Landed(b)' => Landed(b)) /\ tx'[b].slot = tx[b].slot
      BY <1>0, <3>2 DEF Landed
    <3> QED BY <3>1, <3>3, BooksIdle DEF Pending
  <2> QED BY <1>7, <2>1, <2>2, <2>3, <2>4 DEF Chain
<1> QED BY <1>1, <1>2, <1>3, <1>4, <1>5, <1>6, <1>7 DEF Next

\* They hold when the wallet is linked.
LEMMA BooksInit == Init => FreshBuys /\ Fit
<1> SUFFICES ASSUME Init PROVE FreshBuys /\ Fit OBVIOUS
<1>1. FreshBuys BY DEF Init, FreshBuys, Landed
<1>2. Inv BY InitInv
<1>3. BooksView BY <1>2, BooksAre
<1>4. holdings[acceptedSlot] = Held /\ Held \in Nat BY TradeAssumption DEF Init
<1>5. Tokens(lots, OpenLots) <= Held
  <2>1. CASE Held = 0
    <3>1. OpenLots = {}
      <4>1. lots = << >> BY <2>1 DEF Init
      <4> QED BY <4>1 DEF OpenLots
    <3> QED BY <2>1, <3>1, NoTokens
  <2>2. CASE Held # 0
    <3>1. lots = <<WalletLot(Held)>> BY <2>2 DEF Init
    <3>2. OpenLots = {} \cup {1} /\ lots[1].qty = Held
      BY <3>1 DEF OpenLots, WalletLot
    <3>3. Priced(lots, {} \cup {1}) BY <1>3, <3>2 DEF BooksView
    <3>4. Tokens(lots, {} \cup {1}) = Tokens(lots, {}) + lots[1].qty BY <3>3, TokensAdded
    <3> QED BY <1>4, <3>2, <3>4, NoTokens
  <2> QED BY <2>1, <2>2
<1> QED BY <1>1, <1>3, <1>4, <1>5 DEF BooksView

\* No token is on the books twice, however trades, sweeps, snapshots and transfers interleave: a
\* snapshot is accepted with no trade in flight and leaves open what it holds, and a buy that is
\* booked after it landed after it.  A sale that waits for a human ends the promise, and keeps
\* waiting (refreshWalletHoldings, confirmAttempt, sweepAttempts).
THEOREM BooksFit == Spec => []NoTokenTwice
<1>1. Init => BooksInv BY BooksInit, InitInv DEF BooksInv
<1>2. BooksInv /\ [Next]_vars => BooksInv' BY BooksNext, ReviewStays, StepInv DEF BooksInv
<1>3. BooksInv => NoTokenTwice BY DEF BooksInv, NoTokenTwice, Fit
<1> QED BY <1>1, <1>2, <1>3, PTL DEF Spec

-----------------------------------------------------------------------------
(* TradeContract.                                                           *)

\* What a booked trade leaves behind: a sale is noted at its lot, and no one else's is.
RowDone(a) ==
    /\ attempts[a].kind = "BUY" => attempts[a].lot = 0
    /\ attempts[a].status = "CONFIRMED" =>
         Landed(a) /\ (IsSell(a) => lots[attempts[a].lot].soldBy = a)
LotDone(l) == lots[l].soldBy # 0 => attempts[lots[l].soldBy].status = "CONFIRMED"
Done == (\A a \in Ids : RowDone(a)) /\ (\A l \in DOMAIN lots : LotDone(l))

\* What the contract sees of a trade.
LEMMA TradeSeen ==
  ASSUME Inv, NEW a \in Ids
  PROVE  /\ Trade(a).kind = attempts[a].kind /\ Trade(a).lot = attempts[a].lot
         /\ Trade(a).sponsored = attempts[a].sponsored
         /\ Trade(a).stage = "none" <=> attempts[a].status = "none"
         /\ Trade(a).stage = "open" <=> Pending(a)
         /\ Trade(a).stage = "booked" <=> attempts[a].status = "CONFIRMED"
         /\ Trade(a).stage = "void" <=> attempts[a].status \in {"EXPIRED", "FAILED"}
         /\ Trade(a).fate = "landed" <=> Landed(a)
         /\ Trade(a).fate = "out" <=> tx[a].state \in {"none", "sent"}
<1>1. attempts[a].status \in {"none", "PENDING", "CONFIRMED", "EXPIRED", "FAILED"}
  BY Typed DEF Attempt
<1>2. tx[a].state \in {"none", "sent", "landed", "failed"} BY Typed
<1> QED BY <1>1, <1>2 DEF Trade, Stage, Fate, Pending, Landed

\* A trade whose row and transaction say the same is the same.
LEMMA TradeStays ==
  ASSUME NEW a \in Ids, attempts'[a].kind = attempts[a].kind, attempts'[a].lot = attempts[a].lot,
         attempts'[a].sponsored = attempts[a].sponsored,
         Stage[attempts'[a].status] = Stage[attempts[a].status],
         Fate[tx'[a].state] = Fate[tx[a].state]
  PROVE  Trade(a)' = Trade(a)
BY DEF Trade, Stage, Fate

\* A trade that changes its stage only.
LEMMA TradeGoes ==
  ASSUME NEW a \in Ids, attempts'[a].kind = attempts[a].kind, attempts'[a].lot = attempts[a].lot,
         attempts'[a].sponsored = attempts[a].sponsored, tx'[a].state = tx[a].state,
         \A b \in Ids \ {a} : attempts'[b] = attempts[b] /\ tx'[b] = tx[b]
  PROVE  Contract!Goes(a, Stage[attempts'[a].status])
<1>1. \A b \in Ids \ {a} : Trade(b)' = Trade(b) BY TradeStays
<1>2. Trade(a)' = [Trade(a) EXCEPT !.stage = Stage[attempts'[a].status]] BY DEF Trade, Stage, Fate
<1> QED BY <1>1, <1>2 DEF Contract!Goes

\* A trade that changes its stage moves.
LEMMA GoneMoves ==
  ASSUME NEW a \in Ids, NEW stage, Contract!Goes(a, stage), Trade(a).stage # stage
  PROVE  [b \in Ids |-> Trade(b)]'[a] # [b \in Ids |-> Trade(b)][a]
<1>1. [b \in Ids |-> Trade(b)]'[a] = [Trade(a) EXCEPT !.stage = stage] BY DEF Contract!Goes
<1>2. [Trade(a) EXCEPT !.stage = stage].stage = stage BY DEF Trade
<1> QED BY <1>1, <1>2

\* What the contract sees: a step of a trade, of the lots alone, or nothing.
Maps == Contract!Trading

\* A step that leaves every trade and the lots alone is a stutter of the contract.
LEMMA MapsStay ==
  ASSUME \A a \in Ids : Trade(a)' = Trade(a), lots' = lots
  PROVE  Maps
<1>1. [a \in Ids |-> Trade(a)]' = [a \in Ids |-> Trade(a)] OBVIOUS
<1> QED BY <1>1 DEF Maps, Contract!Trading

\* A pending trade that did not land, or that its wallet pays for, may be given up; another
\* one only by a sweep that had read it bare.
LEMMA MapsVoid ==
  ASSUME Inv, NEW a \in Ids, Pending(a),
         (attempts[a].sponsored => ~Landed(a)) \/ a \in sweep.bare,
         Contract!Goes(a, "void"), lots' = lots
  PROVE  Maps
<1>1. Trade(a).stage = "open" /\ Trade(a).stage # "void"
      /\ ((Trade(a).sponsored => Trade(a).fate # "landed") \/ a \in sweep.bare)
  BY TradeSeen
<1>2. Contract!Void(a) BY <1>1 DEF Contract!Void, Contract!Loose
<1>3. [b \in Ids |-> Trade(b)]'[a] # [b \in Ids |-> Trade(b)][a] BY <1>1, GoneMoves
<1> QED BY <1>2, <1>3 DEF Maps, Contract!Trading

\* A step that confirms no trade and sells no lot leaves what the trades left behind.
LEMMA DoneKept ==
  ASSUME Inv, Done,
         \A a \in Ids :
            /\ attempts'[a].kind = "BUY" => attempts'[a].lot = 0
            /\ attempts'[a].status = "CONFIRMED" =>
                 /\ attempts[a].status = "CONFIRMED"
                 /\ attempts'[a].kind = attempts[a].kind /\ attempts'[a].lot = attempts[a].lot
            /\ attempts[a].status = "CONFIRMED" => attempts'[a].status = "CONFIRMED"
            /\ Landed(a) => Landed(a)',
         \A l \in DOMAIN lots : l \in DOMAIN lots' /\ lots'[l].soldBy = lots[l].soldBy,
         \A l \in DOMAIN lots' \ DOMAIN lots : lots'[l].soldBy = 0
  PROVE  Done'
<1>1. ASSUME NEW a \in Ids PROVE RowDone(a)'
  <2>1. RowDone(a) /\ RowOK(a) BY DEF Done, Inv, RowsOK
  <2> QED BY <2>1 DEF RowDone, RowOK, IsSell
<1>2. ASSUME NEW l \in DOMAIN lots' PROVE LotDone(l)'
  <2>1. CASE l \in DOMAIN lots
    <3>1. LotDone(l) BY <2>1 DEF Done
    <3>2. lots[l].soldBy # 0 => lots[l].soldBy \in Ids BY <2>1, Typed DEF Lot, Ids
    <3> QED BY <2>1, <3>1, <3>2 DEF LotDone
  <2>2. CASE l \notin DOMAIN lots BY <2>2 DEF LotDone
  <2> QED BY <2>1, <2>2
<1> QED BY <1>1, <1>2 DEF Done

\* A step that moves no stage, no fate and no lot.
LEMMA MapsIdle ==
  ASSUME Inv, Inv', Done, lots' = lots,
         \A a \in Ids :
            /\ attempts'[a].kind = attempts[a].kind /\ attempts'[a].lot = attempts[a].lot
            /\ attempts'[a].sponsored = attempts[a].sponsored
            /\ attempts'[a].status = attempts[a].status
            /\ Fate[tx'[a].state] = Fate[tx[a].state]
  PROVE  Maps /\ Done'
<1>1. \A a \in Ids : Trade(a)' = Trade(a) BY TradeStays
<1>2. ASSUME NEW a \in Ids PROVE Landed(a) => Landed(a)'
  <2>1. /\ tx[a].state \in {"none", "sent", "landed", "failed"}
        /\ tx'[a].state \in {"none", "sent", "landed", "failed"}
    BY Typed DEF Inv, TypeOK
  <2> QED BY <2>1 DEF Landed, Fate
<1>3. \A a \in Ids : attempts'[a].kind = "BUY" => attempts'[a].lot = 0
  BY DEF Done, RowDone
<1>4. Done' BY <1>2, <1>3, DoneKept
<1> QED BY <1>1, <1>4, MapsStay

-----------------------------------------------------------------------------
(* Confirmations.                                                           *)

\* A confirmed purchase books its lot.
LEMMA MapsBookBuy ==
  ASSUME Inv, NEW a \in Ids, Pending(a), Landed(a), attempts[a].kind = "BUY",
         Contract!Goes(a, "booked"), lots' = Append(lots, BuyLot(a))
  PROVE  Maps
<1>1. Trade(a).stage = "open" /\ Trade(a).stage # "booked" /\ Trade(a).fate = "landed"
      /\ Trade(a).kind = "BUY"
  BY TradeSeen
<1>2. PICK lot \in Lot : lot = BuyLot(a)
  <2>1. a \in 0..MaxAttempts /\ 0 \in 0..MaxAttempts BY Numbers
  <2>2. BuyLot(a) \in Lot BY <2>1 DEF BuyLot, Lot
  <2> QED BY <2>2
<1>3. lots' = Append(lots, lot) BY <1>2
<1>4. lots'[Len(lots) + 1] = lot BY <1>3, Typed, AppendProperties
<1>5. Len(lots) + 1 \in DOMAIN lots' \ DOMAIN lots
  <2>1. lots' \in Seq(Lot) /\ Len(lots') = Len(lots) + 1 BY <1>3, Typed, AppendProperties
  <2>2. DOMAIN lots' = 1..(Len(lots) + 1) BY <2>1, LenProperties
  <2> QED BY <2>2, Typed
<1>6. lot.by = a /\ ~lot.closed BY <1>2 DEF BuyLot
<1>7. lot \in {lots'[l] : l \in DOMAIN lots' \ DOMAIN lots} BY <1>4, <1>5
<1>8. Contract!Lands(a, "BUY", {"open"}) BY <1>1 DEF Contract!Lands
<1>9. Contract!BookBuy(a) BY <1>3, <1>6, <1>7, <1>8 DEF Contract!BookBuy
<1>10. [b \in Ids |-> Trade(b)]'[a] # [b \in Ids |-> Trade(b)][a] BY <1>1, GoneMoves
<1> QED BY <1>9, <1>10 DEF Maps, Contract!Trading

\* A confirmed sale ends its lot, also one that was lost.
LEMMA MapsBookSale ==
  ASSUME Inv, NEW a \in Ids, Pending(a) \/ attempts[a].status = "EXPIRED", Landed(a),
         attempts[a].kind = "SELL",
         Contract!Goes(a, "booked"), NEW l \in DOMAIN lots, attempts[a].lot = l,
         lots[l].soldBy = 0, lots' = [lots EXCEPT ![l] = SoldLot(@, a)]
  PROVE  Maps
<1>1. Trade(a).stage \in {"open", "void"} /\ Trade(a).stage # "booked"
      /\ Trade(a).fate = "landed" /\ Trade(a).kind = "SELL" /\ Trade(a).lot = l
  BY TradeSeen
<1>2. lots' = [lots EXCEPT ![l].closed = TRUE, ![l].reason = "sold", ![l].soldBy = a]
  BY DEF SoldLot
<1>3. Contract!Lands(a, "SELL", {"open", "void"}) BY <1>1 DEF Contract!Lands
<1>4. Contract!BookSale(a) BY <1>1, <1>2, <1>3 DEF Contract!BookSale
<1>5. [b \in Ids |-> Trade(b)]'[a] # [b \in Ids |-> Trade(b)][a] BY <1>1, GoneMoves
<1> QED BY <1>4, <1>5 DEF Maps, Contract!Trading

\* A trade that failed on chain is given up, if it was not before.
LEMMA MapsFailed ==
  ASSUME Inv, Done, NEW a \in Ids, ConfirmFailed(a), UNCHANGED chain
  PROVE  Maps /\ Done'
<1>1. UNCHANGED <<lots, tx>> /\ tx[a].state = "failed" BY DEF ConfirmFailed, chain
<1>2. /\ \A b \in Ids \ {a} : attempts'[b] = attempts[b]
      /\ attempts'[a].status = "FAILED"
      /\ attempts'[a].kind = attempts[a].kind /\ attempts'[a].lot = attempts[a].lot
      /\ attempts'[a].sponsored = attempts[a].sponsored
  BY SettleIs DEF ConfirmFailed
<1>3. ~Landed(a) /\ attempts[a].status \in {"PENDING", "EXPIRED", "FAILED"}
  <2>1. RowOK(a) /\ RowDone(a) BY DEF Inv, RowsOK, Done
  <2>2. attempts[a].status \in {"none", "PENDING", "CONFIRMED", "EXPIRED", "FAILED"}
    BY Typed DEF Attempt
  <2> QED BY <1>1, <2>1, <2>2 DEF RowOK, RowDone, Landed
<1>4. Maps
  <2>1. CASE Pending(a)
    <3>1. Contract!Goes(a, Stage[attempts'[a].status]) BY <1>1, <1>2, TradeGoes
    <3>2. Stage[attempts'[a].status] = "void" BY <1>2 DEF Stage
    <3>3. Contract!Goes(a, "void") BY <3>1, <3>2
    <3> QED BY <1>1, <1>3, <2>1, <3>3, MapsVoid
  <2>2. CASE ~Pending(a)
    <3>1. Stage[attempts'[a].status] = Stage[attempts[a].status]
      BY <1>2, <1>3, <2>2 DEF Pending, Stage
    <3>2. \A b \in Ids : Trade(b)' = Trade(b) BY <1>1, <1>2, <3>1, TradeStays
    <3> QED BY <1>1, <3>2, MapsStay
  <2> QED BY <2>1, <2>2
<1>5. \A b \in Ids : attempts'[b].kind = "BUY" => attempts'[b].lot = 0
  BY <1>2 DEF Done, RowDone
<1>6. Done' BY <1>1, <1>2, <1>3, <1>5, DoneKept DEF Landed
<1> QED BY <1>4, <1>6

\* A purchase is booked while it is pending, and never again.
LEMMA MapsBought ==
  ASSUME Inv, Inv', Done, NEW a \in Ids, ConfirmBuy(a), UNCHANGED chain
  PROVE  Maps /\ Done'
<1>1. UNCHANGED tx /\ Landed(a) /\ attempts[a].kind = "BUY" BY DEF ConfirmBuy, chain
<1>2. CASE ~Pending(a)
  <2>1. UNCHANGED <<attempts, lots>> BY <1>2 DEF ConfirmBuy, MayBook, db
  <2> QED BY <1>1, <2>1, MapsIdle
<1>3. CASE Pending(a)
  <2>1. /\ \A b \in Ids \ {a} : attempts'[b] = attempts[b]
        /\ attempts'[a].status = "CONFIRMED"
        /\ attempts'[a].kind = attempts[a].kind /\ attempts'[a].lot = attempts[a].lot
        /\ attempts'[a].sponsored = attempts[a].sponsored
    <3>1. Settle(a, "CONFIRMED") BY <1>3 DEF ConfirmBuy, MayBook
    <3> QED BY <3>1, SettleIs
  <2>2. lots' = Append(lots, BuyLot(a)) BY <1>3 DEF ConfirmBuy, MayBook
  <2>3. Contract!Goes(a, "booked")
    <3>1. Contract!Goes(a, Stage[attempts'[a].status]) BY <1>1, <2>1, TradeGoes
    <3>2. Stage[attempts'[a].status] = "booked" BY <2>1 DEF Stage
    <3> QED BY <3>1, <3>2
  <2>4. Maps BY <1>1, <1>3, <2>2, <2>3, MapsBookBuy
  <2>5. /\ \A l \in DOMAIN lots : l \in DOMAIN lots' /\ lots'[l] = lots[l]
        /\ \A l \in DOMAIN lots' \ DOMAIN lots : lots'[l].soldBy = 0
    <3>1. PICK lot \in Lot : lot = BuyLot(a)
      <4>1. a \in 0..MaxAttempts /\ 0 \in 0..MaxAttempts BY Numbers
      <4>2. BuyLot(a) \in Lot BY <4>1 DEF BuyLot, Lot
      <4> QED BY <4>2
    <3>2. lots' = Append(lots, lot) /\ lot.soldBy = 0 BY <2>2, <3>1 DEF BuyLot
    <3>3. /\ lots' \in Seq(Lot) /\ Len(lots') = Len(lots) + 1
          /\ lots'[Len(lots) + 1] = lot /\ \A l \in 1..Len(lots) : lots'[l] = lots[l]
      BY <3>2, Typed, AppendProperties
    <3>4. DOMAIN lots' = 1..(Len(lots) + 1) BY <3>3, LenProperties
    <3> QED BY <3>2, <3>3, <3>4, Typed
  <2>6. ASSUME NEW b \in Ids PROVE RowDone(b)'
    <3>1. RowDone(b) /\ RowOK(b) BY DEF Done, Inv, RowsOK
    <3>2. CASE b = a BY <1>1, <2>1, <3>1, <3>2 DEF RowDone, Landed, IsSell
    <3>3. CASE b # a BY <1>1, <2>1, <2>5, <3>1, <3>3 DEF RowDone, RowOK, Landed, IsSell
    <3> QED BY <3>2, <3>3
  <2>7. ASSUME NEW l \in DOMAIN lots' PROVE LotDone(l)'
    <3>1. CASE l \in DOMAIN lots
      <4>1. LotDone(l) BY <3>1 DEF Done
      <4>2. lots[l].soldBy # 0 => lots[l].soldBy \in Ids BY <3>1, Typed DEF Lot, Ids
      <4> QED BY <2>1, <2>5, <3>1, <4>1, <4>2 DEF LotDone
    <3>2. CASE l \notin DOMAIN lots BY <2>5, <3>2 DEF LotDone
    <3> QED BY <3>1, <3>2
  <2> QED BY <2>4, <2>6, <2>7 DEF Done
<1> QED BY <1>2, <1>3

\* A sale is booked while it is pending, or was lost: once confirmed, its lot names it.
LEMMA MapsSold ==
  ASSUME Inv, Inv', Done, NEW a \in Ids, ConfirmSell(a), UNCHANGED chain
  PROVE  Maps /\ Done'
<1>1. UNCHANGED tx /\ Landed(a) /\ IsSell(a) BY DEF ConfirmSell, chain, IsSell
<1>2. RowOK(a) /\ RowDone(a) BY DEF Inv, RowsOK, Done
<1>3. attempts[a].status \in {"PENDING", "CONFIRMED", "EXPIRED"}
  <2>1. attempts[a].status \in {"none", "PENDING", "CONFIRMED", "EXPIRED", "FAILED"}
    BY Typed DEF Attempt
  <2> QED BY <1>1, <1>2, <2>1 DEF RowOK, Landed
<1>4. PICK l \in DOMAIN lots : l = attempts[a].lot BY <1>1, <1>2 DEF RowOK, IsSell
<1>5. LotOK(l) /\ LotDone(l) BY DEF Inv, LotsOK, Done
<1>6. CASE SellCloses(l)
  <2>1. /\ \A b \in Ids \ {a} : attempts'[b] = attempts[b]
        /\ attempts'[a].status = "CONFIRMED"
        /\ attempts'[a].kind = attempts[a].kind /\ attempts'[a].lot = attempts[a].lot
        /\ attempts'[a].sponsored = attempts[a].sponsored
    <3>1. Settle(a, "CONFIRMED") BY <1>4, <1>6 DEF ConfirmSell
    <3> QED BY <3>1, SettleIs
  <2>2. lots' = [lots EXCEPT ![l] = SoldLot(@, a)] BY <1>4, <1>6 DEF ConfirmSell
  <2>3. lots[l].soldBy = 0 BY <1>5, <1>6 DEF LotOK, SellCloses
  <2>4. Pending(a) \/ attempts[a].status = "EXPIRED"
    <3>1. attempts[a].status # "CONFIRMED" BY <1>1, <1>2, <1>4, <2>3, Numbers DEF RowDone
    <3> QED BY <1>3, <3>1 DEF Pending
  <2>5. Contract!Goes(a, "booked")
    <3>1. Contract!Goes(a, Stage[attempts'[a].status]) BY <1>1, <2>1, TradeGoes
    <3>2. Stage[attempts'[a].status] = "booked" BY <2>1 DEF Stage
    <3> QED BY <3>1, <3>2
  <2>6. Maps BY <1>1, <1>4, <2>2, <2>3, <2>4, <2>5, MapsBookSale DEF IsSell
  <2>7. /\ DOMAIN lots' = DOMAIN lots /\ lots'[l].soldBy = a
        /\ \A m \in DOMAIN lots \ {l} : lots'[m] = lots[m]
    <3>1. lots[l] \in Lot BY Typed
    <3>2. SoldLot(lots[l], a).soldBy = a BY <3>1 DEF SoldLot, Lot
    <3> QED BY <2>2, <3>2
  <2>8. ASSUME NEW b \in Ids PROVE RowDone(b)'
    <3>1. RowDone(b) /\ RowOK(b) BY DEF Done, Inv, RowsOK
    <3>2. CASE b = a BY <1>1, <1>4, <2>1, <2>7, <3>1, <3>2 DEF RowDone, Landed, IsSell
    <3>3. CASE b # a
      <4>1. ~(attempts[b].status = "CONFIRMED" /\ IsSell(b) /\ attempts[b].lot = l)
        BY <2>3, <3>1, Numbers DEF RowDone
      <4> QED BY <1>1, <2>1, <2>7, <3>1, <3>3, <4>1 DEF RowDone, RowOK, Landed, IsSell
    <3> QED BY <3>2, <3>3
  <2>9. ASSUME NEW m \in DOMAIN lots PROVE LotDone(m)'
    <3>1. CASE m = l BY <2>1, <2>7, <3>1 DEF LotDone
    <3>2. CASE m # l
      <4>1. LotDone(m) BY DEF Done
      <4>2. lots[m].soldBy # 0 => lots[m].soldBy \in Ids BY Typed DEF Lot, Ids
      <4> QED BY <2>1, <2>7, <3>2, <4>1, <4>2 DEF LotDone
    <3> QED BY <3>1, <3>2
  <2> QED BY <2>6, <2>7, <2>8, <2>9 DEF Done
<1>7. CASE ~SellCloses(l)
  <2>1. lots[l].soldBy = a /\ UNCHANGED lots BY <1>4, <1>7 DEF ConfirmSell
  <2>2. attempts[a].status = "CONFIRMED" BY <1>5, <2>1, Numbers DEF LotDone
  <2>3. UNCHANGED attempts BY <1>4, <1>7, <2>2 DEF ConfirmSell, Pending
  <2> QED BY <1>1, <2>1, <2>3, MapsIdle
<1> QED BY <1>6, <1>7

\* Whoever confirms, the receipt moves its trade once.
LEMMA MapsConfirmed ==
  ASSUME Inv, Inv', Done, NEW p \in Confirmers, ConfirmBook(p)
  PROVE  Maps /\ Done'
<1>1. PICK a \in Ids :
        /\ UNCHANGED <<chain, submitting, refresh>>
        /\ \/ ConfirmFailed(a) \/ ConfirmBuy(a) \/ ConfirmSell(a)
           \/ /\ Refused(a) /\ (Review(a) \/ UNCHANGED attempts)
              /\ UNCHANGED <<lots, funding, clock>>
  BY ConfirmBookIs
<1>2. UNCHANGED chain BY <1>1
<1>3. CASE /\ Refused(a) /\ (Review(a) \/ UNCHANGED attempts)
           /\ UNCHANGED <<lots, funding, clock>>
  <2>1. UNCHANGED <<lots, tx>> BY <1>2, <1>3 DEF chain
  <2>2. CASE UNCHANGED attempts BY <2>1, <2>2, MapsIdle
  <2>3. CASE Review(a) /\ Pending(a)
    <3>1. ASSUME NEW b \in Ids
          PROVE  /\ attempts'[b].kind = attempts[b].kind /\ attempts'[b].lot = attempts[b].lot
                 /\ attempts'[b].sponsored = attempts[b].sponsored
                 /\ attempts'[b].status = attempts[b].status
      BY <2>3, ReviewIs DEF Pending
    <3> QED BY <2>1, <3>1, MapsIdle
  <2> QED BY <1>3, <2>2, <2>3 DEF Review
<1> QED BY <1>1, <1>2, <1>3, MapsFailed, MapsBought, MapsSold

-----------------------------------------------------------------------------
(* The wallet refresh and the chain.                                        *)

\* A snapshot ends lots that were open.
LEMMA OnlyOpenGo ==
  ASSUME Inv, ~UnderReview, NEW r \in Refreshers, RefreshAccepts(r)
  PROVE  \A l \in DOMAIN lots : lots[l].closed => lots'[l] = lots[l]
<1>1. PICK s \in Answers(r) :
        LET gone == ClosedBy(holdings[s])
            kept == [l \in DOMAIN lots |-> IF l \in gone THEN GoneLot(lots[l]) ELSE lots[l]]
        IN
        \/ lots' = IF UnderReview THEN lots ELSE kept
        \/ \E excess \in 1..holdings[s] : lots' = Append(kept, WalletLot(excess))
  BY DEF RefreshAccepts
<1>2. PICK gone : gone = ClosedBy(holdings[s]) OBVIOUS
<1>3. PICK kept :
        kept = [l \in DOMAIN lots |-> IF l \in gone THEN GoneLot(lots[l]) ELSE lots[l]]
  OBVIOUS
<1>4. lots' = kept \/ \E excess \in 1..holdings[s] : lots' = Append(kept, WalletLot(excess))
  BY <1>1, <1>2, <1>3
<1>5. \A l \in DOMAIN lots : lots[l].closed => kept[l] = lots[l]
  <2>1. gone \subseteq OpenLots BY <1>2 DEF ClosedBy
  <2> QED BY <1>3, <2>1 DEF OpenLots
<1>6. holdings[s] \in Nat
  <2>1. s \in 1..Len(holdings) BY Typed DEF Answers, Slots, Now
  <2> QED BY <2>1, Typed, ElementOfSeq
<1>7. \A l \in DOMAIN lots : lots'[l] = kept[l]
  <2>1. PICK balance \in Nat : balance = holdings[s] BY <1>6
  <2>2. ASSUME NEW excess \in 1..balance, lots' = Append(kept, WalletLot(excess))
        PROVE  \A l \in DOMAIN lots : lots'[l] = kept[l]
    BY <1>3, <2>2, AdoptedLots
  <2> QED BY <1>4, <2>1, <2>2
<1> QED BY <1>5, <1>7

\* An accepted snapshot finds no trade open, ends open lots and adopts new ones; while a sale
\* waits for a human it leaves the lots alone.
LEMMA MapsRefreshed ==
  ASSUME Inv, Inv', Done, NEW r \in Refreshers, RefreshAccepts(r)
  PROVE  Maps /\ Done'
<1>1. UNCHANGED <<attempts, tx>> BY DEF RefreshAccepts, chain
<1>2. CASE UnderReview
  <2>1. UNCHANGED lots BY <1>2 DEF RefreshAccepts
  <2> QED BY <1>1, <2>1, MapsIdle
<1>3. /\ \A l \in DOMAIN lots :
           l \in DOMAIN lots' /\ (lots'[l] = lots[l] \/ lots'[l] = GoneLot(lots[l]))
      /\ \A l \in DOMAIN lots' \ DOMAIN lots :
           ~lots'[l].closed /\ lots'[l].by = 0 /\ lots'[l].soldBy = 0
  BY RefreshIs
<1>4. \A a \in Ids : Trade(a)' = Trade(a) BY <1>1, TradeStays
<1>5. ~UnderReview => \A a \in Ids : Trade(a).stage # "open"
  BY TradeSeen DEF RefreshAccepts, Acceptable, InFlight, UnderReview
<1>6. ~UnderReview => \A l \in DOMAIN lots :
        \/ lots'[l] = lots[l]
        \/ ~lots[l].closed /\ lots'[l] = [lots[l] EXCEPT !.closed = TRUE, !.reason = "wallet"]
  BY <1>3, OnlyOpenGo DEF GoneLot
<1>7. ~UnderReview => Contract!Sync BY <1>3, <1>4, <1>5, <1>6 DEF Contract!Sync
<1>8. ~UnderReview => Maps
  <2>1. CASE lots' = lots BY <1>4, <2>1, MapsStay
  <2>2. CASE lots' # lots BY <1>7, <2>2 DEF Maps, Contract!Trading
  <2> QED BY <2>1, <2>2
<1>9. Done'
  <2>1. \A l \in DOMAIN lots : lots'[l].soldBy = lots[l].soldBy
    BY <1>3, Typed DEF GoneLot, Lot
  <2>2. \A a \in Ids : attempts'[a].kind = "BUY" => attempts'[a].lot = 0
    BY <1>1 DEF Done, RowDone
  <2> QED BY <1>1, <1>3, <2>1, <2>2, DoneKept DEF Landed
<1> QED BY <1>2, <1>8, <1>9

\* A block takes a transaction that was sent: a sponsored one only while it is pending.
LEMMA MapsExecuted ==
  ASSUME Inv, Done, NEW a \in Ids, Executes(a)
  PROVE  Maps /\ Done'
<1>1. /\ UNCHANGED <<attempts, lots>>
      /\ tx[a].state = "sent" /\ height <= attempts[a].lastValid
  BY DEF Executes, db
<1>2. RowOK(a) /\ RowDone(a) BY DEF Inv, RowsOK, Done
<1>3. attempts[a] \in Attempt /\ attempts[a].lastValid \in Nat BY Typed DEF Attempt
<1>4. /\ attempts[a].status # "none"
      /\ attempts[a].sponsored => Pending(a)
  <2>1. attempts[a].sponsored => attempts[a].status # "EXPIRED" BY <1>1, <1>2, <1>3, Typed DEF RowOK
  <2>2. attempts[a].status \notin {"none", "FAILED", "CONFIRMED"}
    BY <1>1, <1>2 DEF RowOK, RowDone, Landed
  <2> QED BY <1>3, <2>1, <2>2 DEF Attempt, Pending
<1>5. PICK fate \in {"landed", "failed"} : tx'[a].state = fate /\ \A b \in Ids \ {a} : tx'[b] = tx[b]
  <2>1. tx \in [Ids -> [state : {"none", "sent", "landed", "failed"}, slot : 0..Now]] BY Typed
  <2>2. \/ tx' = [tx EXCEPT ![a] = [state |-> "landed", slot |-> Now + 1]]
        \/ tx' = [tx EXCEPT ![a] = [state |-> "failed", slot |-> Now]]
    BY DEF Executes
  <2> QED BY <2>1, <2>2
<1>6. Trade(a).stage # "none" /\ Trade(a).fate = "out"
      /\ (Trade(a).sponsored => Trade(a).stage = "open")
  BY <1>1, <1>4, TradeSeen
<1>7. \A b \in Ids \ {a} : Trade(b)' = Trade(b) BY <1>1, <1>5, TradeStays
<1>8. Trade(a)' = [Trade(a) EXCEPT !.fate = fate]
  <2>1. Fate[tx'[a].state] = fate BY <1>5 DEF Fate
  <2> QED BY <1>1, <2>1 DEF Trade
<1>9. [b \in Ids |-> Trade(b)]' = [[b \in Ids |-> Trade(b)] EXCEPT ![a].fate = fate]
  BY <1>7, <1>8
<1>10. Contract!Execute(a) BY <1>1, <1>6, <1>9 DEF Contract!Execute
<1>11. [b \in Ids |-> Trade(b)]'[a] # [b \in Ids |-> Trade(b)][a]
  <2>1. [Trade(a) EXCEPT !.fate = fate].fate = fate BY DEF Trade
  <2> QED BY <1>6, <1>8, <2>1
<1>12. Maps BY <1>10, <1>11 DEF Maps, Contract!Trading
<1>13. Done'
  <2>1. \A b \in Ids : attempts'[b].kind = "BUY" => attempts'[b].lot = 0
    BY <1>1 DEF Done, RowDone
  <2>2. \A b \in Ids : Landed(b) => Landed(b)' BY <1>1, <1>5 DEF Landed
  <2> QED BY <1>1, <2>1, <2>2, DoneKept
<1> QED BY <1>12, <1>13

-----------------------------------------------------------------------------
(* Builds and the sweep.                                                    *)

\* A trade is built in the place of the one of its order that was open.
LEMMA MapsBuilt ==
  ASSUME Inv, Done, NEW live \in SUBSET Ids, \A a, b \in live : a = b,
         NEW h \in Nat, MayReplace(live, h),
         NEW n \in Ids, n = NextId, NEW row \in Attempt, row.status = "PENDING",
         IF row.kind = "BUY" THEN row.lot = 0 ELSE IsOpen(row.lot),
         \A a \in Ids : a \in live <=>
            Pending(a) /\ attempts[a].kind = row.kind /\ attempts[a].lot = row.lot,
         attempts' = Retired(live, Added(n, row)),
         UNCHANGED <<lots, tx>>
  PROVE  Maps /\ Done'
<1>1. attempts \in [Ids -> Attempt] BY Typed
<1>2. attempts[n].status = "none" /\ n \notin live BY NextIdIsFree DEF Pending
<1>3. /\ attempts'[n] = row
      /\ \A a \in live : attempts'[a] = Expired(attempts[a])
      /\ \A a \in Ids \ live : a # n => attempts'[a] = attempts[a]
  <2>1. PICK more \in [Ids -> Attempt] : more = Added(n, row) BY <1>1 DEF Added
  <2>2. attempts' = Retired(live, more) BY <2>1
  <2>3. \A a \in Ids : Retired(live, more)[a] = IF a \in live THEN Expired(more[a]) ELSE more[a]
    BY RetiredIs
  <2>4. more[n] = row /\ \A a \in Ids : a # n => more[a] = attempts[a]
    BY <1>1, <2>1 DEF Added
  <2> QED BY <1>2, <2>2, <2>3, <2>4
<1>4. ASSUME NEW a \in live
      PROVE  /\ Trade(a).stage = "open"
             /\ Trade(a).sponsored => Trade(a).fate # "landed"
             /\ Trade(a)' = [Trade(a) EXCEPT !.stage = "void"]
  <2>1. ~attempts[a].stamped /\ RowOK(a) BY ReplacedIsBare DEF Inv, RowsOK
  <2>2. attempts[a].sponsored => ~Landed(a) BY <2>1 DEF RowOK, Landed
  <2>3. attempts[a] \in Attempt /\ attempts'[a] = Expired(attempts[a]) BY <1>1, <1>3
  <2>4. /\ attempts'[a].status = "EXPIRED" /\ attempts'[a].kind = attempts[a].kind
        /\ attempts'[a].lot = attempts[a].lot /\ attempts'[a].sponsored = attempts[a].sponsored
    BY <2>3 DEF Attempt, Expired
  <2>5. Stage[attempts'[a].status] = "void" BY <2>4 DEF Stage
  <2>6. Trade(a)' = [Trade(a) EXCEPT !.stage = "void"] BY <2>4, <2>5 DEF Trade
  <2> QED BY <2>2, <2>6, TradeSeen
<1>5. \A a \in Ids \ live : a # n => Trade(a)' = Trade(a) BY <1>3, TradeStays
<1>6. Trade(n)' = [kind |-> row.kind, lot |-> row.lot, sponsored |-> row.sponsored,
                  stage |-> "open", fate |-> "out"]
  <2>1. Stage[attempts'[n].status] = "open" BY <1>3 DEF Stage
  <2>2. tx[n].state = "none" BY <1>2 DEF Inv, RowsOK, RowOK
  <2>3. Fate[tx'[n].state] = "out" BY <2>2 DEF Fate
  <2> QED BY <1>3, <2>1, <2>3 DEF Trade
<1>7. \A a \in Ids : a \in live <=>
         Trade(a).stage = "open" /\ Trade(a).kind = row.kind /\ Trade(a).lot = row.lot
  BY TradeSeen
<1>8. Trade(n).stage = "none" BY <1>2, TradeSeen
<1>9. row.lot \in {0} \union DOMAIN lots /\ row.kind \in {"BUY", "SELL"} /\ row.sponsored \in BOOLEAN
  BY DEF IsOpen, Attempt
<1>10. Contract!Start(n, row.kind, row.lot, row.sponsored)
  <2> DEFINE given == {b \in Ids : /\ [x \in Ids |-> Trade(x)][b].stage = "open"
                                   /\ [x \in Ids |-> Trade(x)][b].kind = row.kind
                                   /\ [x \in Ids |-> Trade(x)][b].lot = row.lot}
  <2>1. given = live BY <1>7
  <2>2. \A b \in live : Contract!Loose(b) BY <1>4 DEF Contract!Loose
  <2>3. [x \in Ids |-> Trade(x)]' = [b \in Ids |->
          IF b = n THEN [kind |-> row.kind, lot |-> row.lot, sponsored |-> row.sponsored,
                         stage |-> "open", fate |-> "out"]
          ELSE IF b \in live THEN [[x \in Ids |-> Trade(x)][b] EXCEPT !.stage = "void"]
          ELSE [x \in Ids |-> Trade(x)][b]]
    BY <1>2, <1>4, <1>5, <1>6
  <2> QED BY <1>8, <2>1, <2>2, <2>3 DEF Contract!Start, IsOpen
<1>11. [b \in Ids |-> Trade(b)]'[n] # [b \in Ids |-> Trade(b)][n] BY <1>6, <1>8
<1>12. Maps BY <1>9, <1>10, <1>11 DEF Maps, Contract!Trading, Contract!Kinds
<1>13. ASSUME NEW a \in Ids
       PROVE  /\ attempts'[a].kind = "BUY" => attempts'[a].lot = 0
              /\ attempts'[a].status = "CONFIRMED" =>
                   /\ attempts[a].status = "CONFIRMED"
                   /\ attempts'[a].kind = attempts[a].kind /\ attempts'[a].lot = attempts[a].lot
              /\ attempts[a].status = "CONFIRMED" => attempts'[a].status = "CONFIRMED"
  <2>1. RowDone(a) /\ attempts[a] \in Attempt BY <1>1 DEF Done
  <2>2. CASE a = n BY <1>2, <1>3, <2>2
  <2>3. CASE a \in live BY <1>3, <2>1, <2>3 DEF Expired, Attempt, RowDone, Pending
  <2>4. CASE a # n /\ a \notin live BY <1>3, <2>1, <2>4 DEF RowDone
  <2> QED BY <2>2, <2>3, <2>4
<1>14. Done' BY <1>13, DoneKept DEF Landed
<1> QED BY <1>12, <1>14

\* Every build gives up what it has to answer with, and nothing else.
LEMMA MapsBuild ==
  ASSUME Inv, Done, Build
  PROVE  Maps /\ Done'
<1>1. CASE ReserveBuy
  <2>1. PICK h \in Nat :
          /\ MayReplace(PendingBuys, h)
          /\ attempts' = Retired(PendingBuys, attempts)
          /\ PendingBuys # {} /\ UNCHANGED <<lots, chain>>
    BY <1>1, Typed DEF ReserveBuy
  <2>2. UNCHANGED tx BY <2>1 DEF chain
  <2>3. PICK live \in SUBSET Ids : live = PendingBuys BY OneInFlight
  <2>4. PICK a \in live : live = {a} BY <2>1, <2>3, OneInFlight
  <2>5. /\ attempts'[a] = Expired(attempts[a])
        /\ \A b \in Ids \ {a} : attempts'[b] = attempts[b]
    <3>1. attempts \in [Ids -> Attempt] /\ \A x, y \in live : x = y BY <2>4, Typed
    <3>2. \A b \in Ids : Retired(live, attempts)[b] =
             IF b \in live THEN Expired(attempts[b]) ELSE attempts[b]
      BY <3>1, RetiredIs
    <3>3. attempts' = Retired(live, attempts) BY <2>1, <2>3
    <3> QED BY <2>4, <3>2, <3>3
  <2>6. /\ attempts'[a].status = "EXPIRED" /\ attempts'[a].kind = attempts[a].kind
        /\ attempts'[a].lot = attempts[a].lot /\ attempts'[a].sponsored = attempts[a].sponsored
    BY <2>5, Typed DEF Attempt, Expired
  <2>7. Pending(a) BY <2>3 DEF PendingBuys
  <2>8. attempts[a].sponsored => ~Landed(a)
    <3>1. ~attempts[a].stamped /\ RowOK(a) BY <2>1, <2>3, OneInFlight, ReplacedIsBare DEF Inv, RowsOK
    <3> QED BY <3>1 DEF RowOK, Landed
  <2>9. Contract!Goes(a, "void")
    <3>1. Contract!Goes(a, Stage[attempts'[a].status]) BY <2>2, <2>5, <2>6, TradeGoes
    <3>2. Stage[attempts'[a].status] = "void" BY <2>6 DEF Stage
    <3> QED BY <3>1, <3>2
  <2>10. Maps BY <2>1, <2>7, <2>8, <2>9, MapsVoid
  <2>11. \A b \in Ids : attempts'[b].kind = "BUY" => attempts'[b].lot = 0
    BY <2>5, <2>6 DEF Done, RowDone
  <2>12. Done' BY <2>1, <2>2, <2>5, <2>6, <2>7, <2>11, DoneKept DEF Landed, Pending
  <2> QED BY <2>10, <2>12
<1>2. ASSUME NEW sponsored \in BuyKinds, BuildBuy(sponsored) PROVE Maps /\ Done'
  <2>1. PICK h \in 1..height :
          /\ NextId \in Ids
          /\ MayReplace(PendingBuys, h)
          /\ attempts' = Retired(PendingBuys,
                 [attempts EXCEPT ![NextId] = Row("BUY", 0, sponsored, FALSE)])
          /\ UNCHANGED <<lots, chain>>
    BY <1>2 DEF BuildBuy
  <2>2. h \in Nat /\ height + Validity \in Nat BY Typed, Numbers
  <2>3. PICK q \in Attempt :
          /\ q = Row("BUY", 0, sponsored, FALSE)
          /\ q.status = "PENDING" /\ q.kind = "BUY" /\ q.lot = 0
    <3> DEFINE row == Row("BUY", 0, sponsored, FALSE)
    <3>1. row \in Attempt BY <2>2, TradeAssumption DEF Row, Attempt
    <3>2. row.status = "PENDING" /\ row.kind = "BUY" /\ row.lot = 0 BY DEF Row
    <3> QED BY <3>1, <3>2
  <2>4. PICK live \in SUBSET Ids : live = PendingBuys BY OneInFlight
  <2>5. PICK n \in Ids : n = NextId BY <2>1
  <2>6. attempts' = Retired(live, Added(n, q)) BY <2>1, <2>3, <2>4, <2>5 DEF Added
  <2>7. (\A a, b \in live : a = b) /\ MayReplace(live, h) BY <2>1, <2>4, OneInFlight
  <2>8. \A a \in Ids : a \in live <=>
           Pending(a) /\ attempts[a].kind = q.kind /\ attempts[a].lot = q.lot
    BY <2>3, <2>4 DEF PendingBuys, Done, RowDone
  <2>9. UNCHANGED <<lots, tx>> BY <2>1 DEF chain
  <2> QED BY <2>2, <2>3, <2>5, <2>6, <2>7, <2>8, <2>9, MapsBuilt
<1>3. ASSUME NEW l \in DOMAIN lots, BuildSell(l) PROVE Maps /\ Done'
  <2>1. PICK h \in 1..height, s \in Slots :
          /\ NextId \in Ids
          /\ IsOpen(l)
          /\ MayReplace(PendingSells(l), h)
          /\ attempts' = Retired(PendingSells(l),
                 [attempts EXCEPT ![NextId] = Row("SELL", l, TRUE, holdings[s] = lots[l].qty)])
          /\ UNCHANGED <<lots, chain>>
    BY <1>3 DEF BuildSell
  <2>2. h \in Nat /\ height + Validity \in Nat /\ l \in Nat BY Typed, Numbers
  <2>3. PICK q \in Attempt :
          /\ q = Row("SELL", l, TRUE, holdings[s] = lots[l].qty)
          /\ q.status = "PENDING" /\ q.kind = "SELL" /\ q.lot = l
    <3> DEFINE row == Row("SELL", l, TRUE, holdings[s] = lots[l].qty)
    <3>1. row \in Attempt BY <2>2 DEF Row, Attempt
    <3>2. row.status = "PENDING" /\ row.kind = "SELL" /\ row.lot = l BY DEF Row
    <3> QED BY <3>1, <3>2
  <2>4. PICK live \in SUBSET Ids : live = PendingSells(l) BY OneInFlight
  <2>5. PICK n \in Ids : n = NextId BY <2>1
  <2>6. attempts' = Retired(live, Added(n, q)) BY <2>1, <2>3, <2>4, <2>5 DEF Added
  <2>7. (\A a, b \in live : a = b) /\ MayReplace(live, h) BY <2>1, <2>4, OneInFlight
  <2>8. \A a \in Ids : a \in live <=>
           Pending(a) /\ attempts[a].kind = q.kind /\ attempts[a].lot = q.lot
    BY <2>3, <2>4 DEF PendingSells, SellsOf
  <2>9. UNCHANGED <<lots, tx>> BY <2>1 DEF chain
  <2> QED BY <2>1, <2>2, <2>3, <2>5, <2>6, <2>7, <2>8, <2>9, MapsBuilt
<1> QED BY <1>1, <1>2, <1>3 DEF Build

\* The sweep gives up a pending trade that it read bare and whose transaction it missed.
LEMMA MapsExpired ==
  ASSUME Inv, Inv', Done, NEW a \in Ids, SweepExpires(a)
  PROVE  Maps /\ Done'
<1>1. UNCHANGED <<lots, tx>> BY DEF SweepExpires
<1>2. CASE ~(Pending(a) /\ ~attempts[a].review)
  <2>1. UNCHANGED attempts BY <1>2 DEF SweepExpires, Expire
  <2> QED BY <1>1, <2>1, MapsIdle
<1>3. CASE Pending(a) /\ ~attempts[a].review
  <2>1. a \in sweep.bare BY DEF SweepExpires
  <2>2. attempts \in [Ids -> Attempt] /\ attempts[a] \in Attempt BY Typed
  <2>3. attempts' = [attempts EXCEPT ![a].status = "EXPIRED"] BY <1>3 DEF SweepExpires, Expire
  <2>4. attempts'[a] = [attempts[a] EXCEPT !.status = "EXPIRED"]
        /\ \A b \in Ids \ {a} : attempts'[b] = attempts[b]
    BY <2>2, <2>3
  <2>5. /\ attempts'[a].status = "EXPIRED" /\ attempts'[a].kind = attempts[a].kind
        /\ attempts'[a].lot = attempts[a].lot /\ attempts'[a].sponsored = attempts[a].sponsored
    BY <2>2, <2>4 DEF Attempt
  <2>6. Contract!Goes(a, "void")
    <3>1. Contract!Goes(a, Stage[attempts'[a].status]) BY <1>1, <2>4, <2>5, TradeGoes
    <3>2. Stage[attempts'[a].status] = "void" BY <2>5 DEF Stage
    <3> QED BY <3>1, <3>2
  <2>7. Maps BY <1>1, <1>3, <2>1, <2>6, MapsVoid
  <2>8. \A b \in Ids : attempts'[b].kind = "BUY" => attempts'[b].lot = 0
    BY <2>4, <2>5 DEF Done, RowDone
  <2>9. Done' BY <1>1, <1>3, <2>4, <2>5, <2>8, DoneKept DEF Landed, Pending
  <2> QED BY <2>7, <2>9
<1> QED BY <1>2, <1>3

-----------------------------------------------------------------------------
(* The refinement.                                                          *)

\* Every step keeps the contract, and what the trades left behind.
LEMMA MapsNext == Inv /\ Inv' /\ Done /\ [Next]_vars => Maps /\ Done'
<1> SUFFICES ASSUME Inv, Inv', Done, [Next]_vars PROVE Maps /\ Done' OBVIOUS
<1>1. CASE UNCHANGED vars
  <2>1. UNCHANGED <<attempts, lots, tx>> BY <1>1 DEF vars, db, chain
  <2> QED BY <2>1, MapsIdle
<1>2. CASE Build BY <1>2, MapsBuild
<1>3. ASSUME NEW a \in Ids, Submit(a) \/ ClientConfirms(a) PROVE Maps /\ Done'
  <2>1. CASE SubmitStamp(a) \/ MarkSent(a)
    <3>1. StampWire(a) BY <2>1 DEF SubmitStamp, MarkSent
    <3>2. /\ \A b \in Ids \ {a} : attempts'[b] = attempts[b]
          /\ attempts'[a].status = attempts[a].status
          /\ attempts'[a].kind = attempts[a].kind /\ attempts'[a].lot = attempts[a].lot
          /\ attempts'[a].sponsored = attempts[a].sponsored
          /\ UNCHANGED lots
      BY <3>1, StampIs
    <3>3. tx' = tx \/ (tx[a].state = "none" /\ tx' = [tx EXCEPT ![a].state = "sent"])
      BY <2>1 DEF SubmitStamp, MarkSent, chain
    <3>4. \A b \in Ids : Fate[tx'[b].state] = Fate[tx[b].state] BY <3>3, Typed DEF Fate
    <3> QED BY <3>2, <3>4, MapsIdle
  <2>2. CASE SubmitCheck(a) \/ SubmitRefused(a) \/ ClientConfirms(a)
    <3>1. UNCHANGED <<attempts, lots, tx>>
      BY <2>2 DEF SubmitCheck, SubmitRefused, ClientConfirms, db, chain
    <3> QED BY <3>1, MapsIdle
  <2> QED BY <1>3, <2>1, <2>2 DEF Submit
<1>4. ASSUME NEW p \in Confirmers, ConfirmBook(p) PROVE Maps /\ Done'
  BY <1>4, MapsConfirmed
<1>5. CASE Sweep \/ PollerRestarts \/ ClientLeaves
  <2>1. ASSUME NEW a \in Ids, SweepExpires(a) PROVE Maps /\ Done' BY <2>1, MapsExpired
  <2>2. CASE \/ SweepRead \/ SweepHeight \/ PollerRestarts \/ ClientLeaves
             \/ \E a \in Ids : SweepConfirms(a) \/ SweepSkips(a)
    <3>1. UNCHANGED <<attempts, lots, tx>>
      BY <2>2 DEF SweepRead, SweepHeight, SweepConfirms, SweepSkips, PollerRestarts, ClientLeaves,
                  db, chain
    <3> QED BY <3>1, MapsIdle
  <2> QED BY <1>5, <2>1, <2>2 DEF Sweep
<1>6. ASSUME NEW r \in Refreshers, Refresh(r) PROVE Maps /\ Done'
  <2>1. CASE RefreshAccepts(r) BY <2>1, MapsRefreshed
  <2>2. CASE RefreshFence(r) \/ RefreshRejected(r)
    <3>1. UNCHANGED <<attempts, lots, tx>> BY <2>2 DEF RefreshFence, RefreshRejected, db, chain
    <3> QED BY <3>1, MapsIdle
  <2> QED BY <1>6, <2>1, <2>2 DEF Refresh
<1>7. CASE Chain
  <2>1. ASSUME NEW a \in Ids, Executes(a) PROVE Maps /\ Done' BY <2>1, MapsExecuted
  <2>2. CASE Tick \/ Moves
    <3>1. UNCHANGED <<attempts, lots, tx>> BY <2>2 DEF Tick, Moves, db
    <3> QED BY <3>1, MapsIdle
  <2>3. ASSUME NEW a \in Ids, WalletSends(a) PROVE Maps /\ Done'
    <3>1. UNCHANGED <<attempts, lots>> BY <2>3 DEF WalletSends, db
    <3>2. tx[a].state = "none" /\ tx' = [tx EXCEPT ![a].state = "sent"] BY <2>3 DEF WalletSends
    <3>3. \A b \in Ids : Fate[tx'[b].state] = Fate[tx[b].state] BY <3>2, Typed DEF Fate
    <3> QED BY <3>1, <3>3, MapsIdle
  <2> QED BY <1>7, <2>1, <2>2, <2>3 DEF Chain
<1> QED BY <1>1, <1>2, <1>3, <1>4, <1>5, <1>6, <1>7 DEF Next

\* A sweep that is done with a row takes up no other.
LEMMA DoneTakesNone ==
  ASSUME Inv, NEW a, sweep' = SweepDone(a)
  PROVE  sweep'.bare \subseteq sweep.bare
<1>1. sweep \in [rows : SUBSET Ids, bare : SUBSET Ids, height : 0..height] BY DEF Inv, TypeOK
<1>2. CASE sweep' = NoSweep BY <1>2 DEF NoSweep
<1>3. CASE sweep' = [sweep EXCEPT !.rows = @ \ {a}, !.bare = @ \ {a}] BY <1>1, <1>3
<1> QED BY <1>2, <1>3 DEF SweepDone

\* A sweep takes up pending rows that are not stamped, so the sponsor's have not been sent.
LEMMA LooksNext ==
  ASSUME Inv, [Next]_vars
  PROVE  Contract!Looks
<1> DEFINE Shrinks == sweep'.bare \subseteq sweep.bare
<1>1. CASE SweepRead
  <2>1. ASSUME NEW a \in sweep'.bare
        PROVE  a \in Ids /\ Pending(a) /\ ~attempts[a].stamped
    BY <1>1 DEF SweepRead, Due
  <2>2. ASSUME NEW a \in sweep'.bare
        PROVE  Trade(a).stage = "open" /\ (Trade(a).sponsored => Trade(a).fate = "out")
    <3>1. RowOK(a) BY <2>1 DEF Inv, RowsOK
    <3>2. attempts[a].sponsored => tx[a].state = "none" BY <2>1, <3>1 DEF RowOK
    <3> QED BY <2>1, <3>2, TradeSeen
  <2>3. \A a \in sweep'.bare : a \in Ids BY <2>1
  <2> QED BY <2>2, <2>3 DEF Contract!Looks
<1>2. ASSUME Shrinks PROVE Contract!Looks BY <1>2 DEF Contract!Looks
<1>3. ASSUME sweep' = sweep PROVE Shrinks BY <1>3
<1>4. ASSUME UNCHANGED vars PROVE Shrinks BY <1>4 DEF vars, locals
<1>5. ASSUME Build PROVE Shrinks
  BY <1>5 DEF Build, ReserveBuy, BuildBuy, BuildSell, locals
<1>6. ASSUME NEW a \in Ids, Submit(a) \/ ClientConfirms(a) PROVE Shrinks
  BY <1>6 DEF Submit, SubmitCheck, SubmitStamp, SubmitRefused, MarkSent, ClientConfirms, locals
<1>7. ASSUME NEW p \in Confirmers, ConfirmBook(p) PROVE Shrinks
  <2>1. PICK a \in Ids : sweep' = sweep \/ sweep' = SweepDone(a) BY <1>7, ConfirmBookIs
  <2> QED BY <2>1, DoneTakesNone
<1>8. ASSUME SweepHeight PROVE Shrinks
  <2>1. sweep \in [rows : SUBSET Ids, bare : SUBSET Ids, height : 0..height] BY DEF Inv, TypeOK
  <2> QED BY <1>8, <2>1 DEF SweepHeight
<1>9. ASSUME NEW a \in Ids, SweepConfirms(a) \/ SweepExpires(a) \/ SweepSkips(a) PROVE Shrinks
  <2>1. sweep' = sweep \/ sweep' = SweepDone(a)
    BY <1>9 DEF SweepConfirms, SweepExpires, SweepSkips
  <2> QED BY <2>1, DoneTakesNone
<1>10. ASSUME PollerRestarts \/ ClientLeaves PROVE Shrinks
  BY <1>10 DEF PollerRestarts, ClientLeaves, NoSweep
<1>11. ASSUME NEW r \in Refreshers, Refresh(r) PROVE Shrinks
  BY <1>11 DEF Refresh, RefreshFence, RefreshAccepts, RefreshRejected
<1>12. ASSUME Chain PROVE Shrinks
  BY <1>12 DEF Chain, Tick, Moves, WalletSends, Executes, locals
<1> HIDE DEF Shrinks
<1>13. SweepRead \/ Shrinks
  BY <1>4, <1>5, <1>6, <1>7, <1>8, <1>9, <1>10, <1>11, <1>12 DEF Next, Sweep
<1> QED BY <1>1, <1>2, <1>13

\* The wallet is linked with no trade, and lots that were adopted.
LEMMA MapsInit == Init => Done /\ Contract!Init
<1> SUFFICES ASSUME Init PROVE Done /\ Contract!Init OBVIOUS
<1>1. Inv BY InitInv
<1>2. \A a \in Ids : /\ attempts[a].kind = "BUY" /\ attempts[a].lot = 0
                     /\ attempts[a].status = "none" /\ attempts[a].sponsored = FALSE
                     /\ tx[a].state = "none"
  BY DEF Init
<1>3. \A l \in DOMAIN lots : lots[l].by = 0 /\ ~lots[l].closed /\ lots[l].soldBy = 0
  BY DEF Init, WalletLot
<1>4. Done BY <1>2, <1>3 DEF Done, RowDone, LotDone
<1>5. ASSUME NEW a \in Ids
      PROVE  Trade(a) \in [kind : {"BUY", "SELL"}, lot : {0}, sponsored : BOOLEAN,
                           stage : {"none"}, fate : {"out"}]
  <2>1. Stage["none"] = "none" /\ Fate["none"] = "out" BY DEF Stage, Fate
  <2> QED BY <1>2, <2>1 DEF Trade
<1>6. [a \in Ids |-> Trade(a)] \in
        [Ids -> [kind : {"BUY", "SELL"}, lot : {0}, sponsored : BOOLEAN,
                 stage : {"none"}, fate : {"out"}]]
  BY <1>5
<1>7. sweep.bare = {} BY DEF Init, NoSweep
<1>8. Contract!Init BY <1>3, <1>6, <1>7 DEF Contract!Init, Contract!Kinds
<1> QED BY <1>4, <1>8

\* Builds, confirms, sweeps and wallet refreshes together do what TradeContract promises: each
\* step is one of its steps or leaves its trades and lots alone, and a sweep takes up only rows
\* whose transaction has not landed, or is the wallet's to pay for.
THEOREM ImplementsTrades == Spec => KeepsTradeContract
<1>1. Init => Done /\ Contract!Init BY MapsInit
<1>2. Inv /\ Inv' /\ Done /\ [Next]_vars => Maps /\ Done' BY MapsNext
<1>3. Inv /\ [Next]_vars /\ Maps => [Contract!Next]_Contract!contractVars
  <2>1. Maps /\ Contract!Looks => Contract!Next BY DEF Maps, Contract!Next
  <2> QED BY <2>1, LooksNext
<1> HIDE DEF Maps
<1> QED BY <1>1, <1>2, <1>3, Invariance, PTL DEF Spec, KeepsTradeContract, Contract!Spec
=============================================================================
