--------------------------- MODULE PaperGame_proofs ---------------------------
(***************************************************************************)
(* Proofs about PaperGame and the streak it extends, for any number of      *)
(* days, markets, lots and open streak transactions, and any caps, stakes   *)
(* and prices.                                                             *)
(*                                                                         *)
(* That a missed day burns first is not inductive by itself: a GM tap and   *)
(* a burn sweep write from a row they read earlier.  ReadIsCurrent adds     *)
(* what makes it so: while the streak is one that missed a day, everybody   *)
(* who has read it today has read the present row, because only a tap or a  *)
(* recovery makes a streak ACTIVE, and then it counts for today.            *)
(*                                                                         *)
(* The books are sums over markets and lots, so each action gets a lemma    *)
(* that says by how much the one row it writes moves them (BetMoves,        *)
(* LotMoves, CountMoves, from SumLemmas).  BookInv is what they need        *)
(* besides themselves: the types of the rows the sums range over, the       *)
(* balance never below what is locked, and LevelBound, since a level is     *)
(* bounded by the days there were only as long as every open streak         *)
(* transaction has read a row of its past.                                 *)
(***************************************************************************)
EXTENDS PaperGame, SumLemmas

\* The rows of a streak, without the bounds of a finite instance.
StreakRows == [state : States, level : Int, last : {Never} \union Days, until : Int]

StreakTypes ==
    /\ day \in Days
    /\ streak \in StreakRows
    /\ reading \in [Sweepers -> {Idle} \union [kind : {"sweep", "tap"}, row : StreakRows]]

ReadIsCurrent ==
    \A w \in Sweepers : reading[w] # Idle /\ Missed(streak) => reading[w].row = streak

MarketTypes ==
    /\ market = [m \in Markets |-> market[m]]
    /\ bet = [m \in Markets |-> bet[m]]

\* The inductive invariant of this module.
GameInv == StreakTypes /\ ReadIsCurrent /\ MarketTypes

-----------------------------------------------------------------------------
(* The streak.                                                             *)

\* What the burn sweep makes of a row is a row, and it makes no row ACTIVE.
LEMMA EvaluatedRow ==
  ASSUME day \in Days, NEW row \in StreakRows
  PROVE  /\ Evaluated(row) \in StreakRows
         /\ Evaluated(row).state = row.state \/ Evaluated(row).state # "ACTIVE"
<1>1. day + RecoveryDays \in Int BY StreakAssumption DEF Days
<1>2. CASE Missed(row)
  <2>1. Evaluated(row) = [row EXCEPT !.state = "BURNED_RECOVERABLE", !.until = day + RecoveryDays]
    BY <1>2 DEF Evaluated
  <2> QED BY <1>1, <2>1 DEF StreakRows, States
<1>3. CASE ~Missed(row) /\ Lapsed(row)
  <2>1. Evaluated(row) = [row EXCEPT !.state = "LOST", !.until = Never, !.level = 0]
    BY <1>3 DEF Evaluated
  <2>2. Never \in Int BY DEF Never
  <2>3. Evaluated(row) = [state |-> "LOST", level |-> 0, last |-> row.last, until |-> Never]
    BY <2>1 DEF StreakRows
  <2> QED BY <2>2, <2>3 DEF StreakRows, States
<1>4. CASE ~Missed(row) /\ ~Lapsed(row) BY <1>4 DEF Evaluated
<1> QED BY <1>2, <1>3, <1>4

\* A row that missed a day is burned with its level, and its window is open.
LEMMA MissedBurns ==
  ASSUME day \in Days, NEW row \in StreakRows, Missed(row)
  PROVE  /\ Evaluated(row).state = "BURNED_RECOVERABLE"
         /\ Evaluated(row).level = row.level
         /\ Evaluated(row).until >= day + 1
  BY StreakAssumption DEF Evaluated, Missed, StreakRows, Days

\* The update of a sweep writes a row, which is the old one or is not ACTIVE.
LEMMA OverwrittenRow ==
  ASSUME day \in Days, streak \in StreakRows, NEW row \in StreakRows
  PROVE  /\ Overwritten(row) \in StreakRows
         /\ Overwritten(row) = streak \/ Overwritten(row).state # "ACTIVE"
  BY EvaluatedRow DEF Overwritten, StreakRows, States

\* A row that is qualified is a row, and counts for today.
LEMMA QualifiedRow ==
  ASSUME day \in Days, NEW level \in Int
  PROVE  Qualified(level) \in StreakRows /\ ~Missed(Qualified(level))
  BY DEF Qualified, StreakRows, States, Days, Never, Missed

\* A transaction that closes leaves the others with what they had read.
LEMMA ReadingCloses ==
  ASSUME StreakTypes, NEW w \in Sweepers, reading' = [reading EXCEPT ![w] = Idle],
         day' = day, streak' \in StreakRows, streak' = streak \/ ~Missed(streak'),
         ReadIsCurrent
  PROVE  StreakTypes' /\ ReadIsCurrent'
<1>1. StreakTypes' BY DEF StreakTypes
<1>2. \A v \in Sweepers : reading'[v] # Idle => reading'[v] = reading[v] BY DEF StreakTypes
<1>3. ~Missed(streak') => ~Missed(streak)' BY DEF Missed
<1>4. streak' = streak => (Missed(streak)' <=> Missed(streak)) BY DEF Missed
<1> QED BY <1>1, <1>2, <1>3, <1>4 DEF ReadIsCurrent

\* A transaction that opens has read the present row.
LEMMA ReadingOpens ==
  ASSUME StreakTypes, NEW w \in Sweepers, NEW k \in {"sweep", "tap"},
         reading' = [reading EXCEPT ![w] = [kind |-> k, row |-> streak]],
         day' = day, streak' = streak, ReadIsCurrent
  PROVE  StreakTypes' /\ ReadIsCurrent'
<1>1. StreakTypes' BY DEF StreakTypes
<1>2. Missed(streak)' <=> Missed(streak) BY DEF Missed
<1>3. \A v \in Sweepers : v # w => reading'[v] = reading[v] BY DEF StreakTypes
<1>4. reading'[w].row = streak BY DEF StreakTypes
<1> QED BY <1>1, <1>2, <1>3, <1>4 DEF ReadIsCurrent

\* What a transaction has read is a row.
LEMMA ReadRow ==
  ASSUME StreakTypes, NEW w \in Sweepers, reading[w].kind \in {"sweep", "tap"}
  PROVE  reading[w].row \in StreakRows /\ reading[w] # Idle
  BY DEF StreakTypes, Idle

\* Every step of the streak keeps the invariant, and burns a missed day first.
LEMMA StreakStep ==
  ASSUME StreakTypes, ReadIsCurrent, StreakNext
  PROVE  /\ StreakTypes' /\ ReadIsCurrent'
         /\ Missed(streak) /\ streak' # streak
              => /\ streak'.state = "BURNED_RECOVERABLE"
                 /\ streak'.level = streak.level
                 /\ streak'.until >= day + 1
<1> DEFINE Burns == Missed(streak) /\ streak' # streak
                      => /\ streak'.state = "BURNED_RECOVERABLE"
                         /\ streak'.level = streak.level
                         /\ streak'.until >= day + 1
<1>1. ASSUME NEW w \in Sweepers, NEW row \in StreakRows, reading[w] # Idle, row = reading[w].row,
             streak' = Overwritten(row)
      PROVE  Burns /\ (streak' = streak \/ ~Missed(streak')) /\ streak' \in StreakRows
  <2>1. streak' \in StreakRows /\ (streak' = streak \/ streak'.state # "ACTIVE")
    BY <1>1, OverwrittenRow DEF StreakTypes
  <2>2. ASSUME Missed(streak) PROVE Burns
    <3>1. row = streak BY <1>1, <2>2 DEF ReadIsCurrent
    <3>2. streak.state = "ACTIVE" BY <2>2 DEF Missed
    <3>3. /\ Evaluated(streak).state = "BURNED_RECOVERABLE"
          /\ Evaluated(streak).level = streak.level
          /\ Evaluated(streak).until >= day + 1
      BY <2>2, MissedBurns DEF StreakTypes
    <3>4. streak' = [streak EXCEPT !.state = Evaluated(streak).state,
                                   !.until = Evaluated(streak).until,
                                   !.level = Evaluated(streak).level]
      BY <1>1, <3>1, <3>2, <3>3 DEF Overwritten
    <3> QED BY <3>3, <3>4 DEF StreakTypes, StreakRows
  <2> QED BY <2>1, <2>2 DEF Missed
<1>2. ASSUME NEW w \in Sweepers, EvaluateRead(w) PROVE StreakTypes' /\ ReadIsCurrent' /\ Burns
  BY <1>2, ReadingOpens DEF EvaluateRead
<1>3. ASSUME NEW w \in Sweepers, EvaluateWrite(w) PROVE StreakTypes' /\ ReadIsCurrent' /\ Burns
  <2>1. reading[w].row \in StreakRows /\ reading[w] # Idle BY <1>3, ReadRow DEF EvaluateWrite
  <2>2. Burns /\ (streak' = streak \/ ~Missed(streak')) /\ streak' \in StreakRows
    BY <1>1, <1>3, <2>1 DEF EvaluateWrite
  <2>3. day' = day /\ reading' = [reading EXCEPT ![w] = Idle] BY <1>3 DEF EvaluateWrite
  <2> QED BY <2>2, <2>3, ReadingCloses
<1>4. ASSUME NEW w \in Sweepers, QualifyRead(w) PROVE StreakTypes' /\ ReadIsCurrent' /\ Burns
  BY <1>4, ReadingOpens DEF QualifyRead
<1>5. ASSUME NEW w \in Sweepers, QualifyWrite(w) PROVE StreakTypes' /\ ReadIsCurrent' /\ Burns
  <2> DEFINE row == SweptFirst(reading[w].row)
  <2>1. reading[w].row \in StreakRows /\ reading[w] # Idle BY <1>5, ReadRow DEF QualifyWrite
  <2>2. row \in StreakRows BY <2>1, EvaluatedRow DEF SweptFirst, StreakTypes
  <2>3. day' = day /\ reading' = [reading EXCEPT ![w] = Idle] BY <1>5 DEF QualifyWrite
  <2>4. CASE Stays(row)
    <3>1. streak' = Overwritten(reading[w].row) BY <1>5, <2>4 DEF QualifyWrite
    <3>2. Burns /\ (streak' = streak \/ ~Missed(streak')) /\ streak' \in StreakRows
      BY <1>1, <2>1, <3>1
    <3> QED BY <2>3, <3>2, ReadingCloses
  <2>5. CASE ~Stays(row)
    <3>1. streak' = Qualified(NextLevel(row)) BY <1>5, <2>5 DEF QualifyWrite
    <3>2. NextLevel(row) \in Int BY <2>2 DEF NextLevel, StreakRows
    <3>3. streak' \in StreakRows /\ ~Missed(streak') 
      BY <3>1, <3>2, QualifiedRow DEF StreakTypes
    <3>4. ~Missed(streak)
      <4>1. SUFFICES ASSUME Missed(streak) PROVE FALSE OBVIOUS
      <4>2. reading[w].row = streak BY <2>1, <4>1 DEF ReadIsCurrent
      <4>3. row.state = "BURNED_RECOVERABLE"
        BY <4>1, <4>2, MissedBurns DEF SweptFirst, StreakTypes
      <4> QED BY <2>5, <4>3 DEF Stays
    <3> QED BY <2>3, <3>3, <3>4, ReadingCloses
  <2> QED BY <2>4, <2>5
<1>6. ASSUME Recover PROVE StreakTypes' /\ ReadIsCurrent' /\ Burns
  <2>1. streak' = Qualified(streak.level + 1) /\ day' = day /\ reading' = reading
    BY <1>6 DEF Recover
  <2>2. streak.level + 1 \in Int BY DEF StreakTypes, StreakRows
  <2>3. streak' \in StreakRows /\ ~Missed(streak')
    BY <2>1, <2>2, QualifiedRow DEF StreakTypes
  <2>4. ~Missed(streak)' BY <2>1, <2>3 DEF Missed
  <2>5. ~Missed(streak) BY <1>6 DEF Recover, Missed
  <2> QED BY <2>1, <2>3, <2>4, <2>5 DEF StreakTypes, ReadIsCurrent
<1>7. ASSUME NewDay PROVE StreakTypes' /\ ReadIsCurrent' /\ Burns
  <2>1. day' \in Days BY <1>7, StreakAssumption DEF NewDay, StreakTypes, Days
  <2>2. streak' = streak /\ reading' = reading /\ \A w \in Sweepers : reading[w] = Idle
    BY <1>7 DEF NewDay
  <2> QED BY <2>1, <2>2 DEF StreakTypes, ReadIsCurrent
<1> QED BY <1>2, <1>3, <1>4, <1>5, <1>6, <1>7 DEF StreakNext

-----------------------------------------------------------------------------
(* How high a streak can climb.                                            *)

\* A level is bought with a day each: it is at most one more than the last day that counted, and
\* a burned level is one that today can still resume.
RowBound(row) ==
    /\ row.level \in Nat /\ row.level <= row.last + 1
    /\ row.last <= day
    /\ row.until \in {Never} \union (0 .. day + RecoveryDays)
    /\ row.state = "BURNED_RECOVERABLE" => row.level < day

\* A transaction has read a bounded row, and no later one than the present.
LevelBound ==
    /\ RowBound(streak)
    /\ \A w \in Sweepers : reading[w] # Idle
          => RowBound(reading[w].row) /\ reading[w].row.last <= streak.last

\* The burn sweep keeps the bound and the last day.
LEMMA EvaluatedBound ==
  ASSUME day \in Days, NEW row \in StreakRows, RowBound(row)
  PROVE  RowBound(Evaluated(row)) /\ Evaluated(row).last = row.last
<1>1. CASE Missed(row)
  <2>1. Evaluated(row) = [row EXCEPT !.state = "BURNED_RECOVERABLE", !.until = day + RecoveryDays]
    BY <1>1 DEF Evaluated
  <2>2. row.level < day BY <1>1 DEF Missed, RowBound, StreakRows, Days, Never
  <2> QED BY <2>1, <2>2, StreakAssumption DEF RowBound, StreakRows, Days
<1>2. CASE ~Missed(row) /\ Lapsed(row)
  <2>1. Evaluated(row) = [row EXCEPT !.state = "LOST", !.until = Never, !.level = 0]
    BY <1>2 DEF Evaluated
  <2>2. row.last >= -1 /\ row.last \in Int BY DEF StreakRows, Days, Never
  <2>3. Evaluated(row) = [state |-> "LOST", level |-> 0, last |-> row.last, until |-> Never]
    BY <2>1 DEF StreakRows
  <2>4. 0 <= row.last + 1 /\ row.last <= day BY <2>2 DEF RowBound
  <2> QED BY <2>3, <2>4 DEF RowBound
<1>3. CASE ~Missed(row) /\ ~Lapsed(row) BY <1>3 DEF Evaluated
<1> QED BY <1>1, <1>2, <1>3

\* So does the row a sweep writes from one it read earlier.
LEMMA OverwrittenBound ==
  ASSUME day \in Days, streak \in StreakRows, NEW row \in StreakRows, RowBound(streak),
         RowBound(row), row.last <= streak.last
  PROVE  RowBound(Overwritten(row)) /\ Overwritten(row).last = streak.last
<1> DEFINE v == Evaluated(row)
<1>1. RowBound(v) /\ v.last = row.last /\ v \in StreakRows BY EvaluatedBound, EvaluatedRow
<1> HIDE DEF v
<1>2. Overwritten(row) = IF v.state = row.state THEN streak
                         ELSE [streak EXCEPT !.state = v.state, !.until = v.until, !.level = v.level]
  BY DEF Overwritten, v
<1>3. CASE v.state = row.state BY <1>2, <1>3
<1>4. CASE v.state # row.state
  <2>1. v.level <= streak.last + 1 BY <1>1 DEF RowBound, StreakRows, Days, Never
  <2> QED BY <1>1, <1>2, <1>4, <2>1 DEF RowBound, StreakRows
<1> QED BY <1>3, <1>4

\* A row that is qualified counts for today.
LEMMA QualifiedBound ==
  ASSUME day \in Days, NEW level \in Nat, level <= day + 1
  PROVE  RowBound(Qualified(level)) /\ Qualified(level).last = day
BY DEF RowBound, Qualified, Days, Never

\* The level of a tap: one more than yesterday's, or one.
LEMMA NextLevelBound ==
  ASSUME day \in Days, NEW row \in StreakRows, RowBound(row)
  PROVE  NextLevel(row) \in Nat /\ NextLevel(row) <= day + 1
BY DEF RowBound, NextLevel, StreakRows, Days, Never

\* Where the row moves on, what the others have read stays behind it.
LEMMA BoundCloses ==
  ASSUME StreakTypes, LevelBound, NEW w \in Sweepers, reading' = [reading EXCEPT ![w] = Idle],
         day' = day, RowBound(streak'), streak'.last \in Int, streak'.last >= streak.last
  PROVE  LevelBound'
<1>1. RowBound(streak)' BY DEF RowBound
<1>2. ASSUME NEW v \in Sweepers, reading'[v] # Idle
      PROVE  RowBound(reading[v].row)' /\ reading'[v].row.last <= streak'.last
  <2>1. reading'[v] = reading[v] /\ reading[v] # Idle BY <1>2 DEF StreakTypes
  <2>2. RowBound(reading[v].row) /\ reading[v].row.last <= streak.last BY <2>1 DEF LevelBound
  <2>3. reading[v].row.last \in Int /\ streak.last \in Int
    BY <2>1 DEF StreakTypes, StreakRows, Days, Never
  <2> QED BY <2>1, <2>2, <2>3 DEF RowBound
<1> QED BY <1>1, <1>2 DEF LevelBound

LEMMA BoundOpens ==
  ASSUME StreakTypes, LevelBound, NEW w \in Sweepers, NEW k \in {"sweep", "tap"},
         reading' = [reading EXCEPT ![w] = [kind |-> k, row |-> streak]],
         day' = day, streak' = streak
  PROVE  LevelBound'
<1>1. RowBound(streak)' BY DEF RowBound, LevelBound
<1>2. ASSUME NEW v \in Sweepers, reading'[v] # Idle
      PROVE  RowBound(reading[v].row)' /\ reading'[v].row.last <= streak'.last
  <2>1. CASE v = w
    <3>1. reading'[v].row = streak BY <2>1 DEF StreakTypes
    <3>2. streak.last \in Int BY DEF StreakTypes, StreakRows, Days, Never
    <3> QED BY <3>1, <3>2 DEF RowBound, LevelBound
  <2>2. CASE v # w
    <3>1. reading'[v] = reading[v] BY <2>2 DEF StreakTypes
    <3> QED BY <1>2, <3>1 DEF RowBound, LevelBound
  <2> QED BY <2>1, <2>2
<1> QED BY <1>1, <1>2 DEF LevelBound

\* Every step of the streak keeps the bound.
LEMMA BoundStep ==
  ASSUME StreakTypes, LevelBound, StreakNext
  PROVE  LevelBound'
<1>1. streak.last \in Int /\ day \in Int BY DEF StreakTypes, StreakRows, Days, Never
<1>2. ASSUME NEW w \in Sweepers, reading[w].kind \in {"sweep", "tap"}
      PROVE  /\ reading[w].row \in StreakRows /\ RowBound(reading[w].row)
             /\ RowBound(Overwritten(reading[w].row))
             /\ Overwritten(reading[w].row).last = streak.last
             /\ Overwritten(reading[w].row).last \in Int
             /\ Overwritten(reading[w].row).last >= streak.last
  <2>1. reading[w].row \in StreakRows /\ reading[w] # Idle BY <1>2, ReadRow
  <2>2. RowBound(reading[w].row) /\ reading[w].row.last <= streak.last BY <2>1 DEF LevelBound
  <2> QED BY <1>1, <2>1, <2>2, OverwrittenBound DEF StreakTypes, LevelBound
<1>3. ASSUME NEW w \in Sweepers, EvaluateRead(w) \/ QualifyRead(w) PROVE LevelBound'
  BY <1>3, BoundOpens DEF EvaluateRead, QualifyRead
<1>4. ASSUME NEW w \in Sweepers, EvaluateWrite(w) PROVE LevelBound'
  <2>1. /\ streak' = Overwritten(reading[w].row) /\ day' = day
        /\ reading' = [reading EXCEPT ![w] = Idle] /\ reading[w].kind \in {"sweep", "tap"}
    BY <1>4 DEF EvaluateWrite
  <2>2. RowBound(streak') /\ streak'.last \in Int /\ streak'.last >= streak.last BY <1>2, <2>1
  <2> QED BY <2>1, <2>2, BoundCloses
<1>5. ASSUME NEW w \in Sweepers, QualifyWrite(w) PROVE LevelBound'
  <2> DEFINE row == SweptFirst(reading[w].row)
  <2>1. /\ day' = day /\ reading' = [reading EXCEPT ![w] = Idle]
        /\ reading[w].kind \in {"sweep", "tap"}
    BY <1>5 DEF QualifyWrite
  <2>2. row \in StreakRows /\ RowBound(row)
    BY <1>2, <2>1, EvaluatedRow, EvaluatedBound DEF SweptFirst, StreakTypes
  <2>3. CASE streak' = Overwritten(reading[w].row)
    <3>1. RowBound(streak') /\ streak'.last \in Int /\ streak'.last >= streak.last
      BY <1>2, <2>1, <2>3
    <3> QED BY <2>1, <3>1, BoundCloses
  <2>4. CASE streak' = Qualified(NextLevel(row))
    <3>1. RowBound(streak') /\ streak'.last = day
      BY <2>2, <2>4, NextLevelBound, QualifiedBound DEF StreakTypes
    <3>2. streak.last <= day BY DEF LevelBound, RowBound
    <3> QED BY <1>1, <2>1, <3>1, <3>2, BoundCloses
  <2> QED BY <1>5, <2>3, <2>4 DEF QualifyWrite
<1>6. CASE Recover
  <2>1. /\ streak' = Qualified(streak.level + 1) /\ day' = day /\ reading' = reading
        /\ streak.state = "BURNED_RECOVERABLE"
    BY <1>6 DEF Recover
  <2>2. streak.level + 1 \in Nat /\ streak.level + 1 <= day + 1
    BY <1>1, <2>1 DEF LevelBound, RowBound
  <2>3. RowBound(streak') /\ streak'.last = day
    BY <2>1, <2>2, QualifiedBound DEF StreakTypes
  <2>4. ASSUME NEW w \in Sweepers, reading[w] # Idle
        PROVE  RowBound(reading[w].row) /\ reading[w].row.last <= day
    <3>1. RowBound(reading[w].row) BY <2>4 DEF LevelBound
    <3> QED BY <3>1 DEF RowBound
  <2> QED BY <2>1, <2>3, <2>4 DEF LevelBound, RowBound
<1>7. CASE NewDay
  <2>1. /\ day' = day + 1 /\ streak' = streak /\ reading' = reading
        /\ \A w \in Sweepers : reading[w] = Idle
    BY <1>7 DEF NewDay
  <2>2. RowBound(streak)' BY <1>1, <2>1, StreakAssumption DEF LevelBound, RowBound, Never
  <2> QED BY <2>1, <2>2 DEF LevelBound
<1> QED BY <1>3, <1>4, <1>5, <1>6, <1>7 DEF StreakNext

\* A bounded row is a row of the finite instance.
LEMMA BoundedRows ==
  ASSUME StreakTypes, LevelBound
  PROVE  streak \in Rows /\ reading \in [Sweepers -> Readings]
<1>1. ASSUME NEW row \in StreakRows, RowBound(row) PROVE row \in Rows
  <2>1. row.level \in 0 .. LastDay + 1
    BY <1>1, StreakAssumption DEF RowBound, StreakRows, StreakTypes, Days, Never
  <2>2. row.until \in {Never} \union (0 .. LastDay + RecoveryDays)
    BY <1>1, StreakAssumption DEF RowBound, StreakTypes, Days, Never
  <2> QED BY <2>1, <2>2 DEF StreakRows, Rows
<1>2. ASSUME NEW w \in Sweepers PROVE reading[w] \in Readings
  <2>1. CASE reading[w] = Idle BY <2>1 DEF Readings
  <2>2. CASE reading[w] # Idle
    <3>1. reading[w] \in [kind : {"sweep", "tap"}, row : StreakRows] BY <2>2 DEF StreakTypes
    <3>2. reading[w].row \in Rows BY <1>1, <2>2, <3>1 DEF LevelBound
    <3> QED BY <3>1, <3>2 DEF Readings
  <2> QED BY <2>1, <2>2
<1> QED BY <1>1, <1>2 DEF StreakTypes, LevelBound

-----------------------------------------------------------------------------
(* The bets.                                                               *)

\* A market and a bet of which a step says nothing are as they were.
LEMMA Strands ==
  ASSUME MarketTypes, Next
  PROVE  /\ MarketTypes'
         /\ \A m \in Markets : ~Stranded(m) /\ Stranded(m)'
                => request.market = m /\ request' = NoRequest
<1> DEFINE Late == \A m \in Markets : ~Stranded(m) /\ Stranded(m)'
                       => request.market = m /\ request' = NoRequest
<1>1. ASSUME UNCHANGED <<market, bet>> PROVE MarketTypes' /\ Late
  BY <1>1 DEF MarketTypes, Stranded
<1>2. ASSUME NEW m \in Markets, RecordSwipe(m) PROVE MarketTypes' /\ Late
  <2>1. /\ bet' = [bet EXCEPT ![m] = NewBet(request.source, Stake)]
        /\ market' = market /\ request.market = m /\ request' = NoRequest
    BY <1>2 DEF RecordSwipe
  <2> QED BY <2>1 DEF MarketTypes, Stranded
<1>3. ASSUME NEW m \in Markets, NEW proposed \in Proposals, AcceptHedge(m, proposed)
      PROVE  MarketTypes' /\ Late
  <2>1. /\ market[m] = "OPEN" /\ market' = market
        /\ bet' = [bet EXCEPT ![m] = NewBet("HEDGE", Min({proposed, Cash}))]
    BY <1>3 DEF AcceptHedge
  <2> QED BY <2>1 DEF MarketTypes, Stranded
<1>4. ASSUME NEW m \in Markets, NEW verdict \in {"RESOLVED", "CANCELED"}, Settle(m, verdict)
      PROVE  MarketTypes' /\ Late
  <2>1. market' = [market EXCEPT ![m] = verdict] BY <1>4 DEF Settle
  <2>2. \A n \in Markets : n # m => market'[n] = market[n] BY <2>1 DEF MarketTypes
  <2>3. CASE bet[m].status # "PENDING" /\ Untouched
    BY <2>1, <2>2, <2>3 DEF MarketTypes, Stranded, Untouched
  <2>4. CASE \E ended : bet' = [bet EXCEPT ![m] = ended] /\ ended.status # "PENDING"
    BY <2>1, <2>2, <2>4 DEF MarketTypes, Stranded
  <2>5. CASE Void(m)
    <3>1. bet' = [bet EXCEPT ![m] = Ended("VOID", 0, "none")] BY <2>5 DEF Void
    <3>2. Ended("VOID", 0, "none").status = "VOID" BY DEF Ended
    <3> QED BY <2>4, <3>1, <3>2
  <2>6. CASE Lost(m)
    <3>1. bet' = [bet EXCEPT ![m] = Ended("SETTLED", -bet[m].stake, "none")] BY <2>6 DEF Lost
    <3>2. Ended("SETTLED", -bet[m].stake, "none").status = "SETTLED" BY DEF Ended
    <3> QED BY <2>4, <3>1, <3>2
  <2>7. ASSUME NEW profit \in Profits, Won(m, profit) PROVE MarketTypes' /\ Late
    <3> DEFINE row == Ended("SETTLED", profit, IF Counts(m) THEN "counted" ELSE "over")
    <3>1. bet' = [bet EXCEPT ![m] = row] BY <2>7 DEF Won
    <3>2. row.status = "SETTLED" BY DEF Ended
    <3> QED BY <2>4, <3>1, <3>2
  <2> QED BY <1>4, <2>3, <2>5, <2>6, <2>7 DEF Settle
<1>5. ASSUME NEW m \in Markets, NEW src \in {"DECK", "FEED"}, RouteChecks(m, src)
      PROVE  MarketTypes' /\ Late
  BY <1>1, <1>5 DEF RouteChecks
<1>6. CASE RouteRefuses BY <1>1, <1>6 DEF RouteRefuses
<1>7. ASSUME NEW l \in Lots, NEW stake, BuyLot(l, stake) \/ SellLot(l, stake)
      PROVE  MarketTypes' /\ Late
  BY <1>1, <1>7 DEF BuyLot, SellLot
<1>8. CASE TopUpFree \/ TopUpArtifact \/ \E s \in Skins : UnlockSkin(s)
  BY <1>1, <1>8 DEF TopUpFree, TopUpArtifact, UnlockSkin
<1>9. CASE Streaks BY <1>1, <1>9 DEF Streaks, gameVars
<1> QED BY <1>2, <1>3, <1>4, <1>5, <1>6, <1>7, <1>8, <1>9 DEF Next

-----------------------------------------------------------------------------
(* The rows of bets and lots, and the sums over them.                      *)

\* The rows of bets and lots, for any stake and profit.
BetRows == {NoBet}
  \union [status : {"PENDING"}, source : {"DECK", "FEED", "HEDGE"}, stake : Nat, day : Days]
  \union [status : {"SETTLED", "VOID"}, pnl : Int, grant : {"counted", "over", "none"}]

LotRows == {NoLot} \union [status : {"open"}, cost : Nat] \union [status : {"closed"}, pnl : Int]

\* The bets that gave a shard.
Counted(b) == b.status = "SETTLED" /\ b.grant = "counted"

\* What the books take from a row of bets.
LEMMA BetRow ==
  ASSUME NEW b \in BetRows
  PROVE  /\ b.status \in {"none", "PENDING", "SETTLED", "VOID"}
         /\ StakeOf(b) \in Nat /\ PnlOf(b) \in Int
         /\ b.status = "PENDING" => /\ b.day \in Days /\ StakeOf(b) = b.stake /\ PnlOf(b) = 0
                                    /\ b.source \in {"DECK", "FEED", "HEDGE"}
         /\ b.status \notin {"SETTLED", "VOID"} => ~Counted(b) /\ PnlOf(b) = 0
<1>1. CASE b = NoBet BY <1>1 DEF NoBet, StakeOf, PnlOf, Counted
<1>2. CASE b \in [status : {"PENDING"}, source : {"DECK", "FEED", "HEDGE"}, stake : Nat, day : Days]
  BY <1>2 DEF StakeOf, PnlOf, Counted
<1>3. CASE b \in [status : {"SETTLED", "VOID"}, pnl : Int, grant : {"counted", "over", "none"}]
  BY <1>3 DEF StakeOf, PnlOf, Counted
<1> QED BY <1>1, <1>2, <1>3 DEF BetRows

\* What the books take from a lot.
LEMMA LotRow ==
  ASSUME NEW l \in LotRows
  PROVE  /\ l.status \in {"none", "open", "closed"}
         /\ CostOf(l) \in Nat /\ PnlOf(l) \in Int
         /\ l.status = "open" => CostOf(l) = l.cost /\ PnlOf(l) = 0
<1>1. CASE l = NoLot BY <1>1 DEF NoLot, CostOf, PnlOf
<1>2. CASE l \in [status : {"open"}, cost : Nat] BY <1>2 DEF CostOf, PnlOf
<1>3. CASE l \in [status : {"closed"}, pnl : Int] BY <1>3 DEF CostOf, PnlOf
<1> QED BY <1>1, <1>2, <1>3 DEF LotRows

\* The rows that a step writes.
LEMMA WrittenRows ==
  /\ \A src \in {"DECK", "FEED", "HEDGE"}, n \in Nat : day \in Days =>
        /\ NewBet(src, n) \in BetRows
        /\ StakeOf(NewBet(src, n)) = n /\ PnlOf(NewBet(src, n)) = 0 /\ ~Counted(NewBet(src, n))
  /\ \A s \in {"SETTLED", "VOID"}, n \in Int, grant \in {"counted", "over", "none"} :
        /\ Ended(s, n, grant) \in BetRows
        /\ StakeOf(Ended(s, n, grant)) = 0 /\ PnlOf(Ended(s, n, grant)) = n
        /\ Counted(Ended(s, n, grant)) <=> s = "SETTLED" /\ grant = "counted"
  /\ \A n \in Nat : LET row == [status |-> "open", cost |-> n] IN
        row \in LotRows /\ CostOf(row) = n /\ PnlOf(row) = 0
  /\ \A n \in Int : LET row == [status |-> "closed", pnl |-> n] IN
        row \in LotRows /\ CostOf(row) = 0 /\ PnlOf(row) = n
<1>1. ASSUME NEW src \in {"DECK", "FEED", "HEDGE"}, NEW n \in Nat, day \in Days
      PROVE  /\ NewBet(src, n) \in BetRows
             /\ StakeOf(NewBet(src, n)) = n /\ PnlOf(NewBet(src, n)) = 0 /\ ~Counted(NewBet(src, n))
  BY <1>1 DEF NewBet, BetRows, StakeOf, PnlOf, Counted
<1>2. ASSUME NEW s \in {"SETTLED", "VOID"}, NEW n \in Int, NEW grant \in {"counted", "over", "none"}
      PROVE  /\ Ended(s, n, grant) \in BetRows
             /\ StakeOf(Ended(s, n, grant)) = 0 /\ PnlOf(Ended(s, n, grant)) = n
             /\ Counted(Ended(s, n, grant)) <=> s = "SETTLED" /\ grant = "counted"
  BY DEF Ended, BetRows, StakeOf, PnlOf, Counted
<1>3. ASSUME NEW n \in Nat
      PROVE  LET row == [status |-> "open", cost |-> n] IN
             row \in LotRows /\ CostOf(row) = n /\ PnlOf(row) = 0
  BY DEF LotRows, CostOf, PnlOf
<1>4. ASSUME NEW n \in Int
      PROVE  LET row == [status |-> "closed", pnl |-> n] IN
             row \in LotRows /\ CostOf(row) = 0 /\ PnlOf(row) = n
  BY DEF LotRows, CostOf, PnlOf
<1> QED BY <1>1, <1>2, <1>3, <1>4

\* The sums of the books are numbers, and no stake exceeds what is staked, no cost what is spent.
LEMMA Sums ==
  ASSUME bet \in [Markets -> BetRows], lot \in [Lots -> LotRows]
  PROVE  /\ Staked \in Nat /\ Spent \in Nat /\ BetPnl \in Int /\ LotPnl \in Int
         /\ \A m \in Markets : StakeOf(bet[m]) <= Staked
         /\ \A l \in Lots : CostOf(lot[l]) <= Spent
<1> DEFINE f == [m \in Markets |-> StakeOf(bet[m])]
           g == [l \in Lots |-> CostOf(lot[l])]
           h == [m \in Markets |-> PnlOf(bet[m])]
           k == [l \in Lots |-> PnlOf(lot[l])]
<1>1. f \in [Markets -> Nat] /\ h \in [Markets -> Int] BY BetRow
<1>2. g \in [Lots -> Nat] /\ k \in [Lots -> Int] BY LotRow
<1>3. IsFiniteSet(Markets) /\ IsFiniteSet(Lots) BY GameAssumption
<1>4. /\ \A m \in Markets : f[m] = StakeOf(bet[m])
      /\ \A l \in Lots : g[l] = CostOf(lot[l])
      /\ Staked = SumFunction(f) /\ Spent = SumFunction(g)
      /\ BetPnl = SumFunction(h) /\ LotPnl = SumFunction(k)
  BY DEF Staked, Spent, BetPnl, LotPnl
<1> HIDE DEF f, g, h, k
<1>5. SumFunction(f) \in Nat /\ \A m \in Markets : f[m] <= SumFunction(f) BY <1>1, <1>3, SumNat
<1>6. SumFunction(g) \in Nat /\ \A l \in Lots : g[l] <= SumFunction(g) BY <1>2, <1>3, SumNat
<1>7. SumFunction(h) \in Int /\ SumFunction(k) \in Int BY <1>1, <1>2, <1>3, SumType
<1> QED BY <1>4, <1>5, <1>6, <1>7

\* One bet moves: the sums move by what it was and what it has become.
LEMMA BetMoves ==
  ASSUME bet \in [Markets -> BetRows], NEW m \in Markets, NEW row \in BetRows,
         bet' = [bet EXCEPT ![m] = row]
  PROVE  /\ bet' \in [Markets -> BetRows]
         /\ Staked' = Staked + StakeOf(row) - StakeOf(bet[m])
         /\ BetPnl' = BetPnl + PnlOf(row) - PnlOf(bet[m])
<1> DEFINE f == [n \in Markets |-> StakeOf(bet[n])]   fp == [n \in Markets |-> StakeOf(bet'[n])]
           h == [n \in Markets |-> PnlOf(bet[n])]     hp == [n \in Markets |-> PnlOf(bet'[n])]
<1>1. bet' \in [Markets -> BetRows] /\ bet'[m] = row /\ \A n \in Markets \ {m} : bet'[n] = bet[n]
  OBVIOUS
<1>2. f \in [Markets -> Int] /\ h \in [Markets -> Int] BY BetRow
<1>3. fp \in [Markets -> Int] /\ hp \in [Markets -> Int] BY <1>1, BetRow
<1>4. /\ f[m] = StakeOf(bet[m]) /\ h[m] = PnlOf(bet[m])
      /\ fp[m] = StakeOf(row) /\ hp[m] = PnlOf(row)
      /\ \A n \in Markets \ {m} : fp[n] = f[n] /\ hp[n] = h[n]
  BY <1>1
<1>5. /\ Staked = SumFunction(f) /\ Staked' = SumFunction(fp)
      /\ BetPnl = SumFunction(h) /\ BetPnl' = SumFunction(hp)
  BY DEF Staked, BetPnl, StakeOf, PnlOf
<1>6. IsFiniteSet(Markets) BY GameAssumption
<1> HIDE DEF f, fp, h, hp
<1>7. SumFunction(fp) = SumFunction(f) + fp[m] - f[m]
  <2>1. f \in [Markets -> Int] /\ fp \in [Markets -> Int] BY <1>2, <1>3
  <2>2. \A n \in Markets \ {m} : fp[n] = f[n] BY <1>4
  <2> QED BY <1>6, <2>1, <2>2, SumChange
<1>8. SumFunction(hp) = SumFunction(h) + hp[m] - h[m] BY <1>2, <1>3, <1>4, <1>6, SumChange
<1> QED BY <1>1, <1>4, <1>5, <1>7, <1>8

\* One lot moves.
LEMMA LotMoves ==
  ASSUME lot \in [Lots -> LotRows], NEW l \in Lots, NEW row \in LotRows,
         lot' = [lot EXCEPT ![l] = row]
  PROVE  /\ lot' \in [Lots -> LotRows]
         /\ Spent' = Spent + CostOf(row) - CostOf(lot[l])
         /\ LotPnl' = LotPnl + PnlOf(row) - PnlOf(lot[l])
<1> DEFINE f == [n \in Lots |-> CostOf(lot[n])]   fp == [n \in Lots |-> CostOf(lot'[n])]
           h == [n \in Lots |-> PnlOf(lot[n])]    hp == [n \in Lots |-> PnlOf(lot'[n])]
<1>1. lot' \in [Lots -> LotRows] /\ lot'[l] = row /\ \A n \in Lots \ {l} : lot'[n] = lot[n]
  OBVIOUS
<1>2. f \in [Lots -> Int] /\ h \in [Lots -> Int] BY LotRow
<1>3. fp \in [Lots -> Int] /\ hp \in [Lots -> Int] BY <1>1, LotRow
<1>4. /\ f[l] = CostOf(lot[l]) /\ h[l] = PnlOf(lot[l])
      /\ fp[l] = CostOf(row) /\ hp[l] = PnlOf(row)
      /\ \A n \in Lots \ {l} : fp[n] = f[n] /\ hp[n] = h[n]
  BY <1>1
<1>5. /\ Spent = SumFunction(f) /\ Spent' = SumFunction(fp)
      /\ LotPnl = SumFunction(h) /\ LotPnl' = SumFunction(hp)
  BY DEF Spent, LotPnl, CostOf, PnlOf
<1>6. IsFiniteSet(Lots) BY GameAssumption
<1> HIDE DEF f, fp, h, hp
<1>7. SumFunction(fp) = SumFunction(f) + fp[l] - f[l]
  <2>1. f \in [Lots -> Int] /\ fp \in [Lots -> Int] BY <1>2, <1>3
  <2>2. \A n \in Lots \ {l} : fp[n] = f[n] BY <1>4
  <2> QED BY <1>6, <2>1, <2>2, SumChange
<1>8. SumFunction(hp) = SumFunction(h) + hp[l] - h[l] BY <1>2, <1>3, <1>4, <1>6, SumChange
<1> QED BY <1>1, <1>4, <1>5, <1>7, <1>8

\* A bet that was not counted and ends: the counted bets are one more if it is counted now.
LEMMA CountMoves ==
  ASSUME bet \in [Markets -> BetRows], NEW m \in Markets, NEW row \in BetRows,
         bet' = [bet EXCEPT ![m] = row], ~Counted(bet[m])
  PROVE  /\ Cardinality(CountedBets) \in Nat
         /\ Cardinality(CountedBets)' = Cardinality(CountedBets) + (IF Counted(row) THEN 1 ELSE 0)
<1>1. IsFiniteSet(CountedBets) BY GameAssumption, FS_Subset DEF CountedBets
<1>2. m \notin CountedBets BY DEF CountedBets, Counted
<1>3. CountedBets' = IF Counted(row) THEN CountedBets \union {m} ELSE CountedBets
  BY <1>2 DEF CountedBets, Counted
<1> QED BY <1>1, <1>2, <1>3, FS_AddElement, FS_CardinalityType

-----------------------------------------------------------------------------
(* The balance row.                                                        *)

\* What the books of the balance row rest on.
RowTypes == bet \in [Markets -> BetRows] /\ lot \in [Lots -> LotRows]

CashTypes ==
    /\ balance \in Int /\ locked \in 0 .. balance
    /\ freeUsed \in BOOLEAN /\ topups \in Nat

CashInv == RowTypes /\ CashTypes /\ CashBooks

TopUpsGiven == TopUps \in Nat /\ Grant * TopUps \in Nat

\* What is granted is a number.
LEMMA Granted == ASSUME CashTypes PROVE TopUpsGiven
<1>1. TopUps \in Nat BY DEF TopUps, CashTypes
<1> QED BY <1>1, GameAssumption DEF TopUpsGiven

\* A step that moves no money keeps the books.
LEMMA CashStands ==
  ASSUME CashInv, UNCHANGED <<bet, lot, balance, locked, freeUsed, topups>>
  PROVE  CashInv'
BY DEF CashInv, RowTypes, CashTypes, CashBooks, Staked, Spent, BetPnl, LotPnl, TopUps

\* A bet is placed: what is locked grows by its stake, and no more than what was free.
LEMMA CashPlaced ==
  ASSUME CashInv, day \in Days, NEW m \in Markets, bet[m] = NoBet,
         NEW src \in {"DECK", "FEED", "HEDGE"}, NEW stake \in Nat, Hold(stake),
         bet' = [bet EXCEPT ![m] = NewBet(src, stake)],
         UNCHANGED <<lot, freeUsed, topups>>
  PROVE  CashInv'
<1> DEFINE row == NewBet(src, stake)
<1>1. row \in BetRows /\ StakeOf(row) = stake /\ PnlOf(row) = 0 BY WrittenRows
<1>2. StakeOf(bet[m]) = 0 /\ PnlOf(bet[m]) = 0 BY DEF NoBet, StakeOf, PnlOf
<1> HIDE DEF row
<1>3. /\ bet' \in [Markets -> BetRows]
      /\ Staked' = Staked + StakeOf(row) - StakeOf(bet[m])
      /\ BetPnl' = BetPnl + PnlOf(row) - PnlOf(bet[m])
  BY <1>1, BetMoves DEF CashInv, RowTypes, row
<1>4. Spent' = Spent /\ LotPnl' = LotPnl /\ TopUps' = TopUps BY DEF Spent, LotPnl, TopUps
<1>5. Staked \in Nat /\ Spent \in Nat /\ BetPnl \in Int /\ LotPnl \in Int
  BY Sums DEF CashInv, RowTypes
<1>6. locked' = locked + stake /\ balance' = balance /\ balance - locked >= stake BY DEF Hold, Cash
<1>7. CashTypes' BY <1>6 DEF CashInv, CashTypes
<1>8. CashBooks' BY <1>1, <1>2, <1>3, <1>4, <1>5, <1>6 DEF CashInv, CashBooks
<1>9. RowTypes' BY <1>3 DEF RowTypes, CashInv
<1> QED BY <1>7, <1>8, <1>9 DEF CashInv

\* A bet ends: its stake is released and its P&L, no worse than the stake, applied.
LEMMA CashReleased ==
  ASSUME CashInv, NEW m \in Markets, bet[m].status = "PENDING",
         NEW s \in {"SETTLED", "VOID"}, NEW n \in Int, NEW grant \in {"counted", "over", "none"},
         n >= -bet[m].stake, Release(bet[m].stake, n),
         bet' = [bet EXCEPT ![m] = Ended(s, n, grant)],
         UNCHANGED <<lot, freeUsed, topups>>
  PROVE  CashInv'
<1> DEFINE row == Ended(s, n, grant)
<1>1. row \in BetRows /\ StakeOf(row) = 0 /\ PnlOf(row) = n BY WrittenRows
<1>2. StakeOf(bet[m]) = bet[m].stake /\ StakeOf(bet[m]) \in Nat /\ PnlOf(bet[m]) = 0
  BY BetRow DEF CashInv, RowTypes
<1> HIDE DEF row
<1>3. /\ bet' \in [Markets -> BetRows]
      /\ Staked' = Staked + StakeOf(row) - StakeOf(bet[m])
      /\ BetPnl' = BetPnl + PnlOf(row) - PnlOf(bet[m])
  BY <1>1, BetMoves DEF CashInv, RowTypes, row
<1>4. Spent' = Spent /\ LotPnl' = LotPnl /\ TopUps' = TopUps BY DEF Spent, LotPnl, TopUps
<1>5. /\ Staked \in Nat /\ Spent \in Nat /\ BetPnl \in Int /\ LotPnl \in Int
      /\ StakeOf(bet[m]) <= Staked
  BY Sums DEF CashInv, RowTypes
<1>6. locked' = locked - bet[m].stake /\ balance' = balance + n BY DEF Release
<1>7. locked = Staked + Spent BY DEF CashInv, CashBooks
<1>8. CashTypes'
  <2>1. PICK k \in Nat : k = bet[m].stake BY <1>2
  <2>2. k <= locked /\ locked \in Int /\ balance \in Int /\ locked <= balance
    BY <1>2, <1>5, <1>7, <2>1 DEF CashInv, CashTypes
  <2>3. locked' = locked - k /\ balance' = balance + n /\ n >= -k BY <1>6, <2>1
  <2>4. locked' \in 0 .. balance' /\ balance' \in Int BY <2>2, <2>3
  <2> QED BY <2>4 DEF CashInv, CashTypes
<1>9. CashBooks'
  <2>1. TopUps \in Nat /\ Grant * TopUps \in Nat
    BY Granted DEF CashInv, TopUpsGiven
  <2> DEFINE G == Grant * TopUps
  <2>2. balance = Start + G + BetPnl + LotPnl BY DEF CashInv, CashBooks
  <2>3. Grant * TopUps' = G BY <1>4
  <2>4. G \in Int /\ Start \in Int BY <2>1, GameAssumption
  <2> HIDE DEF G
  <2>5. balance' = Start + G + BetPnl' + LotPnl'
    BY <1>1, <1>2, <1>3, <1>4, <1>5, <1>6, <2>2, <2>4
  <2>6. locked' = Staked' + Spent' BY <1>1, <1>2, <1>3, <1>4, <1>5, <1>6, <1>7
  <2>7. balance' = Start + Grant * TopUps' + BetPnl' + LotPnl' BY <2>3, <2>5
  <2> QED BY <2>6, <2>7 DEF CashBooks
<1>10. RowTypes' BY <1>3 DEF RowTypes, CashInv
<1> QED BY <1>8, <1>9, <1>10 DEF CashInv

\* A lot is bought.
LEMMA CashBought ==
  ASSUME CashInv, NEW l \in Lots, NEW stake \in Proposals, BuyLot(l, stake)
  PROVE  CashInv'
<1> DEFINE row == [status |-> "open", cost |-> stake]
<1>0. stake \in Nat BY GameAssumption
<1>1. row \in LotRows /\ CostOf(row) = stake /\ PnlOf(row) = 0 BY <1>0, WrittenRows
<1>2. CostOf(lot[l]) = 0 /\ PnlOf(lot[l]) = 0 BY DEF BuyLot, NoLot, CostOf, PnlOf
<1>3. lot' = [lot EXCEPT ![l] = row] /\ Hold(stake) /\ UNCHANGED <<bet, freeUsed, topups>>
  BY DEF BuyLot, boosts
<1> HIDE DEF row
<1>4. /\ lot' \in [Lots -> LotRows]
      /\ Spent' = Spent + CostOf(row) - CostOf(lot[l])
      /\ LotPnl' = LotPnl + PnlOf(row) - PnlOf(lot[l])
  BY <1>1, <1>3, LotMoves DEF CashInv, RowTypes
<1>5. Staked' = Staked /\ BetPnl' = BetPnl /\ TopUps' = TopUps
  BY <1>3 DEF Staked, BetPnl, TopUps
<1>6. Staked \in Nat /\ Spent \in Nat /\ BetPnl \in Int /\ LotPnl \in Int
  BY Sums DEF CashInv, RowTypes
<1>7. locked' = locked + stake /\ balance' = balance /\ balance - locked >= stake
  BY <1>3 DEF Hold, Cash
<1>8. CashTypes' BY <1>0, <1>3, <1>7 DEF CashInv, CashTypes
<1>9. CashBooks' BY <1>0, <1>1, <1>2, <1>4, <1>5, <1>6, <1>7 DEF CashInv, CashBooks
<1>10. RowTypes' BY <1>3, <1>4 DEF RowTypes, CashInv
<1> QED BY <1>8, <1>9, <1>10 DEF CashInv

\* A lot is sold: its cost is released and its P&L applied.
LEMMA CashSold ==
  ASSUME CashInv, NEW l \in Lots, NEW n \in Int, SellLot(l, n)
  PROVE  CashInv'
<1> DEFINE row == [status |-> "closed", pnl |-> n]
<1>1. row \in LotRows /\ CostOf(row) = 0 /\ PnlOf(row) = n BY WrittenRows
<1>2. /\ CostOf(lot[l]) = lot[l].cost /\ CostOf(lot[l]) \in Nat /\ PnlOf(lot[l]) = 0
  BY LotRow DEF CashInv, RowTypes, SellLot
<1>3. /\ lot' = [lot EXCEPT ![l] = row] /\ Release(lot[l].cost, n) /\ n >= -lot[l].cost
      /\ UNCHANGED <<bet, freeUsed, topups>>
  BY DEF SellLot, boosts
<1> HIDE DEF row
<1>4. /\ lot' \in [Lots -> LotRows]
      /\ Spent' = Spent + CostOf(row) - CostOf(lot[l])
      /\ LotPnl' = LotPnl + PnlOf(row) - PnlOf(lot[l])
  BY <1>1, <1>3, LotMoves DEF CashInv, RowTypes
<1>5. Staked' = Staked /\ BetPnl' = BetPnl /\ TopUps' = TopUps
  BY <1>3 DEF Staked, BetPnl, TopUps
<1>6. /\ Staked \in Nat /\ Spent \in Nat /\ BetPnl \in Int /\ LotPnl \in Int
      /\ CostOf(lot[l]) <= Spent
  BY Sums DEF CashInv, RowTypes
<1>7. locked' = locked - lot[l].cost /\ balance' = balance + n BY <1>3 DEF Release
<1>8. locked = Staked + Spent BY DEF CashInv, CashBooks
<1>9. CashTypes'
  <2>1. PICK k \in Nat : k = lot[l].cost BY <1>2
  <2>2. k <= locked /\ locked \in Int /\ balance \in Int /\ locked <= balance
    BY <1>2, <1>6, <1>8, <2>1 DEF CashInv, CashTypes
  <2>3. locked' = locked - k /\ balance' = balance + n /\ n >= -k BY <1>3, <1>7, <2>1
  <2>4. locked' \in 0 .. balance' /\ balance' \in Int BY <2>2, <2>3
  <2> QED BY <1>3, <2>4 DEF CashInv, CashTypes
<1>10. CashBooks'
  <2>1. TopUps \in Nat /\ Grant * TopUps \in Nat BY Granted DEF CashInv, TopUpsGiven
  <2> DEFINE G == Grant * TopUps
  <2>2. balance = Start + G + BetPnl + LotPnl BY DEF CashInv, CashBooks
  <2>3. Grant * TopUps' = G BY <1>5
  <2>4. G \in Int /\ Start \in Int BY <2>1, GameAssumption
  <2> HIDE DEF G
  <2>5. balance' = Start + G + BetPnl' + LotPnl'
    BY <1>1, <1>2, <1>4, <1>5, <1>6, <1>7, <2>2, <2>4
  <2>6. locked' = Staked' + Spent' BY <1>1, <1>2, <1>4, <1>5, <1>6, <1>7, <1>8
  <2>7. balance' = Start + Grant * TopUps' + BetPnl' + LotPnl' BY <2>3, <2>5
  <2> QED BY <2>6, <2>7 DEF CashBooks
<1>11. RowTypes' BY <1>3, <1>4 DEF RowTypes, CashInv
<1> QED BY <1>9, <1>10, <1>11 DEF CashInv

\* A top-up adds its grant.
LEMMA CashToppedUp ==
  ASSUME CashInv, TopUpFree \/ TopUpArtifact
  PROVE  CashInv'
<1>1. UNCHANGED <<bet, lot, locked>> /\ balance' = balance + Grant
  BY DEF TopUpFree, TopUpArtifact
<1>2. /\ freeUsed' \in BOOLEAN /\ topups' \in Nat /\ TopUps' = TopUps + 1
  <2>1. CASE TopUpFree BY <2>1 DEF TopUpFree, TopUps, CashInv, CashTypes
  <2>2. CASE TopUpArtifact BY <2>2 DEF TopUpArtifact, TopUps, CashInv, CashTypes
  <2> QED BY <2>1, <2>2
<1>3. RowTypes' /\ Staked' = Staked /\ Spent' = Spent /\ BetPnl' = BetPnl /\ LotPnl' = LotPnl
  BY <1>1 DEF CashInv, RowTypes, Staked, Spent, BetPnl, LotPnl
<1>4. CashTypes' BY <1>1, <1>2, GameAssumption DEF CashInv, CashTypes
<1>5. CashBooks'
  <2>1. TopUps \in Nat BY Granted DEF CashInv, TopUpsGiven
  <2>2. Grant * (TopUps + 1) = Grant * TopUps + Grant /\ Grant * TopUps \in Nat
    BY <2>1, GameAssumption
  <2>3. Grant * TopUps' = Grant * TopUps + Grant BY <1>2, <2>2
  <2> DEFINE G == Grant * TopUps
             Gp == Grant * TopUps'
  <2>4. balance = Start + G + BetPnl + LotPnl /\ locked = Staked + Spent BY DEF CashInv, CashBooks
  <2>5. Gp = G + Grant /\ G \in Int /\ Gp \in Int /\ Grant \in Int /\ Start \in Int
    BY <2>2, <2>3, GameAssumption
  <2>6. BetPnl \in Int /\ LotPnl \in Int BY Sums DEF CashInv, RowTypes
  <2> HIDE DEF G, Gp
  <2>7. balance' = Start + Gp + BetPnl' + LotPnl' BY <1>1, <1>3, <2>4, <2>5, <2>6
  <2> USE DEF Gp
  <2>8. locked' = Staked' + Spent' BY <1>1, <1>3, <2>4
  <2> QED BY <2>7, <2>8 DEF CashBooks
<1> QED BY <1>3, <1>4, <1>5 DEF CashInv

\* Every step keeps the books of the balance row.
LEMMA CashStep ==
  ASSUME CashInv, day \in Days, request \in {NoRequest} \union [market : Markets, source : {"DECK", "FEED"}],
         Next
  PROVE  CashInv'
<1>1. ASSUME NEW m \in Markets, NEW src, RouteChecks(m, src) PROVE CashInv'
  BY <1>1, CashStands DEF RouteChecks, money, boosts
<1>2. ASSUME NEW m \in Markets, RecordSwipe(m) PROVE CashInv'
  <2>1. request.source \in {"DECK", "FEED", "HEDGE"} BY <1>2 DEF RecordSwipe
  <2>2. Stake \in Nat BY GameAssumption
  <2>3. /\ bet[m] = NoBet /\ Hold(Stake) /\ UNCHANGED <<lot, freeUsed, topups>>
        /\ bet' = [bet EXCEPT ![m] = NewBet(request.source, Stake)]
    BY <1>2 DEF RecordSwipe, boosts
  <2> QED BY <2>1, <2>2, <2>3, CashPlaced
<1>3. ASSUME NEW m \in Markets, NEW proposed \in Proposals, AcceptHedge(m, proposed) PROVE CashInv'
  <2> DEFINE stake == Min({proposed, Cash})
  <2>1. /\ bet[m] = NoBet /\ Hold(stake) /\ UNCHANGED <<lot, freeUsed, topups>>
        /\ bet' = [bet EXCEPT ![m] = NewBet("HEDGE", stake)] /\ stake >= MinStake
    BY <1>3 DEF AcceptHedge, boosts
  <2>2. stake \in Nat
    <3>1. proposed \in Nat /\ Cash \in Int BY GameAssumption DEF CashInv, CashTypes, Cash
    <3>2. stake \in Int BY <3>1 DEF Min
    <3> HIDE DEF stake
    <3> QED BY <2>1, <3>2, GameAssumption
  <2> HIDE DEF stake
  <2> QED BY <2>1, <2>2, CashPlaced
<1>4. ASSUME NEW m \in Markets, NEW verdict, Settle(m, verdict) PROVE CashInv'
  <2>1. UNCHANGED <<lot, freeUsed, topups>> BY <1>4 DEF Settle, boosts
  <2>2. CASE Untouched BY <2>1, <2>2, CashStands DEF Untouched, money
  <2>3. CASE bet[m].status = "PENDING" /\ (Void(m) \/ Lost(m) \/ \E profit \in Profits : Won(m, profit))
    <3>1. PICK k \in Nat : k = bet[m].stake BY <2>3, BetRow DEF CashInv, RowTypes
    <3>2. CASE Void(m)
      <4>1. 0 >= -bet[m].stake /\ 0 \in Int BY <3>1
      <4> QED BY <2>1, <2>3, <3>2, <4>1, CashReleased DEF Void
    <3>3. CASE Lost(m)
      <4>1. -bet[m].stake >= -bet[m].stake /\ -bet[m].stake \in Int BY <3>1
      <4> QED BY <2>1, <2>3, <3>3, <4>1, CashReleased DEF Lost
    <3>4. ASSUME NEW profit \in Profits, Won(m, profit) PROVE CashInv'
      <4> DEFINE grant == IF Counts(m) THEN "counted" ELSE "over"
      <4>1. profit \in Int /\ profit >= -bet[m].stake BY <3>1, GameAssumption
      <4>2. grant \in {"counted", "over", "none"} OBVIOUS
      <4>3. bet' = [bet EXCEPT ![m] = Ended("SETTLED", profit, grant)] /\ Release(bet[m].stake, profit)
        BY <3>4 DEF Won
      <4> HIDE DEF grant
      <4> QED BY <2>1, <2>3, <4>1, <4>2, <4>3, CashReleased
    <3> QED BY <2>3, <3>2, <3>3, <3>4
  <2> QED BY <1>4, <2>2, <2>3 DEF Settle
<1>5. CASE RouteRefuses BY <1>5, CashStands DEF RouteRefuses, money, boosts
<1>6. ASSUME NEW l \in Lots, NEW stake \in Proposals, BuyLot(l, stake) PROVE CashInv'
  BY <1>6, CashBought
<1>7. ASSUME NEW l \in Lots, NEW pnl \in Profits \union {-p : p \in Proposals}, SellLot(l, pnl)
      PROVE  CashInv'
  <2>1. pnl \in Int BY GameAssumption
  <2> QED BY <1>7, <2>1, CashSold
<1>8. CASE TopUpFree \/ TopUpArtifact BY <1>8, CashToppedUp
<1>9. ASSUME NEW s \in Skins, UnlockSkin(s) PROVE CashInv'
  BY <1>9, CashStands DEF UnlockSkin, money
<1>10. CASE Streaks BY <1>10, CashStands DEF Streaks, gameVars
<1> QED BY <1>1, <1>2, <1>3, <1>4, <1>5, <1>6, <1>7, <1>8, <1>9, <1>10 DEF Next

-----------------------------------------------------------------------------
(* Counters, shards and artifacts.                                         *)

\* What the counters, shards and artifacts rest on.
PlayTypes ==
    /\ market \in [Markets -> {"OPEN", "RESOLVED", "CANCELED"}]
    /\ request \in {NoRequest} \union [market : Markets, source : {"DECK", "FEED"}]
    /\ swiped \in [Days -> 0 .. SwipeCap] /\ points = swiped
    /\ doubled \in [Days -> Nat]

ShardTypes ==
    /\ sharded \in [Days -> 0 .. ShardCap]
    /\ shards \in 0 .. ShardsPerArtifact - 1
    /\ artifacts \in Nat /\ recovered \in Nat /\ topups \in Nat
    /\ owned \subseteq Skins /\ IsFiniteSet(owned)

ShardInv == RowTypes /\ ShardTypes /\ ArtifactBooks

\* A full set of shards for every artifact there is or was.
Made == artifacts + topups + recovered + Cardinality(owned)

\* It is a number.
LEMMA MadeType ==
  ASSUME ShardTypes
  PROVE  Made \in Nat /\ Cardinality(owned) \in Nat /\ ShardsPerArtifact * Made \in Nat
<1>1. Cardinality(owned) \in Nat BY FS_CardinalityType DEF ShardTypes
<1>2. Made \in Nat BY <1>1 DEF ShardTypes, Made
<1> QED BY <1>1, <1>2, GameAssumption

\* A step that makes no artifact and counts no bet keeps the books, also one that spends one.
LEMMA ShardsStand ==
  ASSUME ShardInv, ShardTypes', RowTypes', UNCHANGED shards, CountedBets' = CountedBets, Made' = Made
  PROVE  ShardInv'
BY DEF ShardInv, ArtifactBooks, Made

\* The same bets are counted where bets stand, or where one that was not counted is not counted now.
LEMMA CountStands ==
  ASSUME bet \in [Markets -> BetRows],
         \/ bet' = bet
         \/ \E m \in Markets, row \in BetRows :
               /\ bet' = [bet EXCEPT ![m] = row]
               /\ ~Counted(bet[m]) /\ ~Counted(row)
  PROVE  bet' \in [Markets -> BetRows] /\ CountedBets' = CountedBets
<1>1. CASE bet' = bet BY <1>1 DEF CountedBets
<1>2. ASSUME NEW m \in Markets, NEW row \in BetRows, bet' = [bet EXCEPT ![m] = row],
             ~Counted(bet[m]), ~Counted(row)
      PROVE  bet' \in [Markets -> BetRows] /\ CountedBets' = CountedBets
  BY <1>2 DEF CountedBets, Counted
<1> QED BY <1>1, <1>2

\* The award of a win makes no shard and no artifact out of nothing.
LEMMA ShardsAwarded ==
  ASSUME ShardInv, NEW m \in Markets, bet[m].status = "PENDING", NEW profit \in Profits, Won(m, profit),
         UNCHANGED <<lot, recovered, topups, owned>>
  PROVE  ShardInv'
<1> DEFINE row == Ended("SETTLED", profit, IF Counts(m) THEN "counted" ELSE "over")
<1>1. profit \in Int BY GameAssumption
<1>2. row \in BetRows /\ (Counted(row) <=> Counts(m)) BY <1>1, WrittenRows
<1>3. ~Counted(bet[m]) /\ bet[m].day \in Days BY BetRow DEF ShardInv, RowTypes
<1>4. bet' = [bet EXCEPT ![m] = row] BY DEF Won
<1> HIDE DEF row
<1>5. RowTypes' BY <1>2, <1>4, BetMoves DEF ShardInv, RowTypes
<1>6. /\ Cardinality(CountedBets) \in Nat
      /\ Cardinality(CountedBets)' = Cardinality(CountedBets) + (IF Counts(m) THEN 1 ELSE 0)
  BY <1>2, <1>3, <1>4, CountMoves DEF ShardInv, RowTypes
<1>7. sharded' \in [Days -> 0 .. ShardCap]
  <2>1. AwardShard(m) BY DEF Won
  <2>2. CASE Counts(m) /\ bet[m].source # "FEED"
    <3>1. sharded[bet[m].day] < ShardCap BY <2>2 DEF Counts
    <3>2. sharded' = [sharded EXCEPT ![bet[m].day] = @ + 1] BY <2>1, <2>2 DEF AwardShard
    <3>3. sharded[bet[m].day] + 1 \in 0 .. ShardCap
      BY <1>3, <3>1, GameAssumption DEF ShardInv, ShardTypes
    <3> QED BY <3>2, <3>3 DEF ShardInv, ShardTypes
  <2>3. CASE ~(Counts(m) /\ bet[m].source # "FEED")
    BY <2>1, <2>3 DEF AwardShard, ShardInv, ShardTypes
  <2> QED BY <2>2, <2>3
<1> DEFINE K == ShardsPerArtifact
           C == Cardinality(CountedBets)
<1>8. K \in Nat \ {0} /\ shards \in 0 .. K - 1 /\ artifacts \in Nat /\ Made \in Nat /\ K * Made \in Nat
  BY GameAssumption, MadeType DEF ShardInv, ShardTypes
<1>9. C = shards + K * Made BY DEF ShardInv, ArtifactBooks, Made
<1>10. /\ shards' \in 0 .. K - 1 /\ artifacts' \in Nat
       /\ C' = shards' + K * Made'
  <2>1. AwardShard(m) BY DEF Won
  <2>2. CASE ~Counts(m)
    <3>1. shards' = shards /\ artifacts' = artifacts BY <2>1, <2>2 DEF AwardShard
    <3>2. Made' = Made BY <3>1 DEF Made
    <3> QED BY <1>6, <1>8, <1>9, <2>2, <3>1, <3>2
  <2>3. CASE Counts(m) /\ shards' = shards + 1 /\ artifacts' = artifacts /\ shards + 1 < K
    <3>1. Made' = Made BY <2>3 DEF Made
    <3> DEFINE N == K * Made
    <3>2. N \in Int BY <1>8
    <3>3. C' = C + 1 BY <1>6, <2>3
    <3>4. C = shards + N /\ K * Made' = N BY <1>9, <3>1
    <3> HIDE DEF N
    <3>5. C' = shards' + N BY <1>8, <2>3, <3>2, <3>3, <3>4
    <3> QED BY <1>8, <2>3, <3>4, <3>5
  <2>4. CASE Counts(m) /\ shards' = shards + 1 - K /\ artifacts' = artifacts + 1 /\ shards + 1 >= K
    <3>1. Made' = Made + 1
      <4>1. Cardinality(owned) \in Nat BY MadeType DEF ShardInv
      <4> QED BY <2>4, <4>1 DEF Made, ShardInv, ShardTypes
    <3> DEFINE N == K * Made
               Np == K * Made'
    <3>2. N \in Int /\ Np = N + K BY <1>8, <3>1
    <3>3. C' = C + 1 BY <1>6, <2>4
    <3>4. C = shards + N BY <1>9
    <3> HIDE DEF N, Np
    <3>5. C' = shards' + Np BY <1>8, <2>4, <3>2, <3>3, <3>4
    <3>6. shards' \in 0 .. K - 1 BY <1>8, <2>4
    <3> QED BY <1>8, <2>4, <3>5, <3>6 DEF Np
  <2> QED BY <2>1, <2>2, <2>3, <2>4 DEF AwardShard
<1>11. ShardTypes' BY <1>7, <1>10 DEF ShardInv, ShardTypes
<1>12. ArtifactBooks' BY <1>10 DEF ArtifactBooks, Made
<1> QED BY <1>5, <1>11, <1>12 DEF ShardInv

\* An artifact spent on a top-up, a recovery or a skin is still counted as made.
LEMMA ArtifactSpent ==
  ASSUME ShardInv, artifacts >= 1, artifacts' = artifacts - 1,
         UNCHANGED <<bet, lot, sharded, shards>>,
         \/ topups' = topups + 1 /\ UNCHANGED <<recovered, owned>>
         \/ recovered' = recovered + 1 /\ UNCHANGED <<topups, owned>>
         \/ \E s \in Skins : s \notin owned /\ owned' = owned \union {s} /\ UNCHANGED <<topups, recovered>>
  PROVE  ShardInv'
<1>1. Cardinality(owned) \in Nat BY MadeType DEF ShardInv
<1>2. Made' = Made /\ ShardTypes'
  <2>1. CASE topups' = topups + 1 /\ UNCHANGED <<recovered, owned>>
    BY <1>1, <2>1 DEF ShardInv, ShardTypes, Made
  <2>2. CASE recovered' = recovered + 1 /\ UNCHANGED <<topups, owned>>
    BY <1>1, <2>2 DEF ShardInv, ShardTypes, Made
  <2>3. ASSUME NEW s \in Skins, s \notin owned, owned' = owned \union {s},
               UNCHANGED <<topups, recovered>>
        PROVE  Made' = Made /\ ShardTypes'
    <3>1. IsFiniteSet(owned') /\ Cardinality(owned)' = Cardinality(owned) + 1
      BY <2>3, FS_AddElement DEF ShardInv, ShardTypes
    <3>2. Made' = Made BY <1>1, <2>3, <3>1 DEF ShardInv, ShardTypes, Made
    <3>3. owned' \subseteq Skins BY <2>3 DEF ShardInv, ShardTypes
    <3> QED BY <2>3, <3>1, <3>2, <3>3 DEF ShardInv, ShardTypes
  <2> QED BY <2>1, <2>2, <2>3
<1>3. RowTypes' /\ CountedBets' = CountedBets BY DEF ShardInv, RowTypes, CountedBets
<1> QED BY <1>2, <1>3, ShardsStand

\* A bet is placed, or ends without a grant that counts, and no artifact moves.
LEMMA ShardsUncounted ==
  ASSUME ShardInv, UNCHANGED <<sharded, shards, artifacts, recovered, topups, owned>>,
         lot' \in [Lots -> LotRows],
         \/ bet' = bet
         \/ \E m \in Markets, row \in BetRows :
               /\ bet' = [bet EXCEPT ![m] = row]
               /\ ~Counted(bet[m]) /\ ~Counted(row)
  PROVE  ShardInv'
<1>1. bet' \in [Markets -> BetRows] /\ CountedBets' = CountedBets
  BY CountStands DEF ShardInv, RowTypes
<1>2. ShardTypes' /\ Made' = Made BY DEF ShardInv, ShardTypes, Made
<1> QED BY <1>1, <1>2, ShardsStand DEF RowTypes

\* Every step keeps the books of shards and artifacts.
LEMMA ShardStep ==
  ASSUME ShardInv, day \in Days, request \in {NoRequest} \union [market : Markets, source : {"DECK", "FEED"}],
         RowTypes', Next
  PROVE  ShardInv'
<1> DEFINE still == <<sharded, shards, artifacts, recovered, topups, owned>>
<1>0. lot' \in [Lots -> LotRows] BY DEF RowTypes
<1>1. ASSUME UNCHANGED still, bet' = bet PROVE ShardInv' BY <1>0, <1>1, ShardsUncounted
<1>2. ASSUME NEW m \in Markets, NEW row \in BetRows, UNCHANGED still, ~Counted(bet[m]), ~Counted(row),
             bet' = [bet EXCEPT ![m] = row]
      PROVE  ShardInv'
  BY <1>0, <1>2, ShardsUncounted
<1>3. ~Counted(NoBet) BY DEF NoBet, Counted
<1>4. ASSUME NEW m \in Markets, NEW src, RouteChecks(m, src) PROVE ShardInv'
  BY <1>1, <1>4 DEF RouteChecks, boosts, counts, streakVars
<1>5. ASSUME NEW m \in Markets, RecordSwipe(m) PROVE ShardInv'
  <2>1. request.source \in {"DECK", "FEED", "HEDGE"} /\ Stake \in Nat
    BY <1>5, GameAssumption DEF RecordSwipe
  <2>2. NewBet(request.source, Stake) \in BetRows /\ ~Counted(NewBet(request.source, Stake))
    BY <2>1, WrittenRows
  <2>3. /\ bet[m] = NoBet /\ UNCHANGED still
        /\ bet' = [bet EXCEPT ![m] = NewBet(request.source, Stake)]
    BY <1>5 DEF RecordSwipe, boosts
  <2> QED BY <1>2, <1>3, <2>2, <2>3
<1>6. ASSUME NEW m \in Markets, NEW proposed \in Proposals, AcceptHedge(m, proposed) PROVE ShardInv'
  <2> DEFINE row == NewBet("HEDGE", Min({proposed, Cash}))
  <2>1. bet[m] = NoBet /\ UNCHANGED still /\ bet' = [bet EXCEPT ![m] = row]
    BY <1>6 DEF AcceptHedge, boosts, counts, streakVars
  <2>2. row \in BetRows
    <3>1. bet' \in [Markets -> BetRows] BY DEF RowTypes
    <3>2. bet'[m] = row BY <2>1 DEF ShardInv, RowTypes
    <3> QED BY <3>1, <3>2
  <2>3. ~Counted(row) BY DEF NewBet, Counted
  <2> HIDE DEF row
  <2> QED BY <1>2, <1>3, <2>1, <2>2, <2>3
<1>7. ASSUME NEW m \in Markets, NEW verdict, Settle(m, verdict) PROVE ShardInv'
  <2>1. UNCHANGED <<lot, recovered, topups, owned>> BY <1>7 DEF Settle, boosts
  <2>2. CASE Untouched BY <1>1, <2>1, <2>2 DEF Untouched
  <2>3. CASE bet[m].status = "PENDING" /\ (Void(m) \/ Lost(m))
    <3>1. ~Counted(bet[m]) BY <2>3 DEF Counted
    <3>2. PICK row : bet' = [bet EXCEPT ![m] = row] /\ row.grant = "none"
      <4>1. Ended("VOID", 0, "none").grant = "none" BY DEF Ended
      <4>2. Ended("SETTLED", -bet[m].stake, "none").grant = "none" BY DEF Ended
      <4>3. CASE Void(m) BY <4>1, <4>3 DEF Void
      <4>4. CASE Lost(m) BY <4>2, <4>4 DEF Lost
      <4> QED BY <2>3, <4>3, <4>4
    <3>3. row \in BetRows
      <4>1. bet' \in [Markets -> BetRows] BY DEF RowTypes
      <4>2. bet'[m] = row BY <3>2 DEF ShardInv, RowTypes
      <4> QED BY <4>1, <4>2
    <3>4. ~Counted(row) BY <3>2 DEF Counted
    <3>5. UNCHANGED still BY <2>1, <2>3 DEF Void, Lost
    <3> QED BY <1>2, <3>1, <3>2, <3>3, <3>4, <3>5
  <2>4. ASSUME bet[m].status = "PENDING", NEW profit \in Profits, Won(m, profit) PROVE ShardInv'
    BY <2>1, <2>4, ShardsAwarded
  <2> QED BY <1>7, <2>2, <2>3, <2>4 DEF Settle
<1>8. CASE RouteRefuses BY <1>1, <1>8 DEF RouteRefuses, boosts, counts, streakVars
<1>9. ASSUME NEW l \in Lots, NEW stake, BuyLot(l, stake) \/ SellLot(l, stake) PROVE ShardInv'
  BY <1>1, <1>9 DEF BuyLot, SellLot, boosts, counts, streakVars
<1>10. CASE TopUpFree BY <1>1, <1>10 DEF TopUpFree, counts, streakVars
<1>11. CASE TopUpArtifact BY <1>11, ArtifactSpent DEF TopUpArtifact, SpendArtifact, counts
<1>12. ASSUME NEW s \in Skins, UnlockSkin(s) PROVE ShardInv'
  BY <1>12, ArtifactSpent DEF UnlockSkin, SpendArtifact, counts
<1>13. CASE Streaks
  <2>1. UNCHANGED <<bet, lot, sharded, shards, topups, owned>> BY <1>13 DEF Streaks, gameVars
  <2>2. CASE Recover BY <2>1, <2>2, ArtifactSpent DEF Recover
  <2>3. CASE UNCHANGED <<artifacts, recovered>> BY <1>1, <2>1, <2>3
  <2>4. Recover \/ UNCHANGED <<artifacts, recovered>>
    BY <1>13 DEF Streaks, StreakNext, EvaluateRead, EvaluateWrite, QualifyRead, QualifyWrite, NewDay
  <2> QED BY <2>2, <2>3, <2>4
<1> QED BY <1>4, <1>5, <1>6, <1>7, <1>8, <1>9, <1>10, <1>11, <1>12, <1>13 DEF Next

\* Every step keeps the counters: no day has more points or swipes than the cap.
LEMMA PlayStep ==
  ASSUME PlayTypes, StreakTypes, Next
  PROVE  PlayTypes'
<1>1. CASE UNCHANGED <<market, request, swiped, points, doubled>> BY <1>1 DEF PlayTypes
<1>2. ASSUME NEW m \in Markets, NEW src \in {"DECK", "FEED"}, RouteChecks(m, src) PROVE PlayTypes'
  BY <1>2 DEF RouteChecks, PlayTypes, counts, streakVars
<1>3. ASSUME NEW m \in Markets, RecordSwipe(m) PROVE PlayTypes'
  <2>1. market' = market /\ request' = NoRequest /\ doubled' = doubled BY <1>3 DEF RecordSwipe
  <2>2. CASE UNCHANGED <<swiped, points>> BY <2>1, <2>2 DEF PlayTypes
  <2>3. CASE /\ swiped[day] < SwipeCap
             /\ swiped' = [swiped EXCEPT ![day] = @ + 1] /\ points' = [points EXCEPT ![day] = @ + 1]
    <3>1. swiped[day] + 1 \in 0 .. SwipeCap BY <2>3, GameAssumption DEF PlayTypes, StreakTypes
    <3> QED BY <2>1, <2>3, <3>1 DEF PlayTypes, StreakTypes
  <2> QED BY <1>3, <2>2, <2>3 DEF RecordSwipe
<1>4. ASSUME NEW m \in Markets, NEW proposed, AcceptHedge(m, proposed) PROVE PlayTypes'
  BY <1>1, <1>4 DEF AcceptHedge, counts, streakVars
<1>5. ASSUME NEW m \in Markets, NEW verdict \in {"RESOLVED", "CANCELED"}, Settle(m, verdict)
      PROVE  PlayTypes'
  BY <1>5 DEF Settle, PlayTypes
<1>6. CASE RouteRefuses BY <1>6 DEF RouteRefuses, PlayTypes, counts, streakVars
<1>7. ASSUME NEW l \in Lots, NEW stake, BuyLot(l, stake) \/ SellLot(l, stake) PROVE PlayTypes'
  BY <1>1, <1>7 DEF BuyLot, SellLot, counts, streakVars
<1>8. CASE TopUpFree \/ TopUpArtifact \/ \E s \in Skins : UnlockSkin(s)
  BY <1>1, <1>8 DEF TopUpFree, TopUpArtifact, UnlockSkin, SpendArtifact, counts, streakVars
<1>9. CASE Streaks
  <2>1. UNCHANGED <<market, request, swiped, points>>
    BY <1>9 DEF Streaks, gameVars, StreakNext, EvaluateRead, EvaluateWrite, QualifyRead, QualifyWrite,
                Recover, NewDay, counts
  <2>2. doubled' = doubled \/ \E level : Award(level)
    BY <1>9 DEF Streaks, StreakNext, EvaluateRead, EvaluateWrite, QualifyRead, QualifyWrite, Recover, NewDay
  <2>3. doubled' \in [Days -> Nat] BY <2>2 DEF Award, PlayTypes
  <2> QED BY <2>1, <2>3 DEF PlayTypes
<1> QED BY <1>2, <1>3, <1>4, <1>5, <1>6, <1>7, <1>8, <1>9 DEF Next

-----------------------------------------------------------------------------
(* The invariant and the theorems.                                         *)

\* Only the streak's own steps move the streak and the day.
LEMMA StreakStands ==
  ASSUME Next
  PROVE  StreakNext \/ UNCHANGED <<day, streak, reading>>
<1>1. ASSUME NEW m \in Markets, NEW src, RouteChecks(m, src) \/ AcceptHedge(m, src)
      PROVE  UNCHANGED <<day, streak, reading>>
  BY <1>1 DEF RouteChecks, AcceptHedge, streakVars
<1>2. ASSUME NEW m \in Markets, NEW verdict, RecordSwipe(m) \/ Settle(m, verdict)
      PROVE  UNCHANGED <<day, streak, reading>>
  BY <1>2 DEF RecordSwipe, Settle
<1>3. ASSUME NEW l \in Lots, NEW stake, BuyLot(l, stake) \/ SellLot(l, stake)
      PROVE  UNCHANGED <<day, streak, reading>>
  BY <1>3 DEF BuyLot, SellLot, streakVars
<1>4. CASE RouteRefuses \/ TopUpFree \/ TopUpArtifact \/ \E s \in Skins : UnlockSkin(s)
  BY <1>4 DEF RouteRefuses, TopUpFree, TopUpArtifact, UnlockSkin, SpendArtifact, streakVars
<1>5. CASE Streaks BY <1>5 DEF Streaks
<1> QED BY <1>1, <1>2, <1>3, <1>4, <1>5 DEF Next

\* Every step keeps the invariant, burns a missed day first, and strands a bet only late.
LEMMA GameStep ==
  ASSUME GameInv, [Next]_vars
  PROVE  /\ GameInv'
         /\ streakVars' # streakVars /\ Missed(streak) /\ streak' # streak
              => /\ streak'.state = "BURNED_RECOVERABLE"
                 /\ streak'.level = streak.level
                 /\ streak'.until >= day + 1
<1>1. CASE UNCHANGED vars
  BY <1>1 DEF GameInv, StreakTypes, ReadIsCurrent, Missed, MarketTypes, vars, gameVars, streakVars
<1>2. CASE Next /\ StreakNext
  BY <1>2, StreakStep, Strands DEF GameInv
<1>3. CASE Next /\ UNCHANGED <<day, streak, reading>>
  <2>1. StreakTypes' /\ ReadIsCurrent' BY <1>3 DEF GameInv, StreakTypes, ReadIsCurrent, Missed
  <2> QED BY <1>3, <2>1, Strands DEF GameInv
<1> QED BY <1>1, <1>2, <1>3, StreakStands

\* The invariant holds in every reachable state.
LEMMA GameInvariance == Spec => []GameInv
<1>1. Init => GameInv
  <2> SUFFICES ASSUME Init PROVE GameInv OBVIOUS
  <2>1. StreakTypes
    BY StreakAssumption
    DEF Init, StreakInit, StreakTypes, StreakRows, NewStreak, Days, States, Never
  <2>2. ReadIsCurrent BY DEF Init, StreakInit, ReadIsCurrent
  <2>3. MarketTypes BY DEF Init, MarketTypes
  <2> QED BY <2>1, <2>2, <2>3 DEF GameInv
<1>2. GameInv /\ [Next]_vars => GameInv' BY GameStep
<1> QED BY <1>1, <1>2, PTL DEF Spec

-----------------------------------------------------------------------------
(* The books.                                                              *)

\* The inductive invariant behind the types and the books.
BookInv == StreakTypes /\ LevelBound /\ PlayTypes /\ CashInv /\ ShardInv

\* The books start balanced.
LEMMA BookInit == Init => BookInv
<1> SUFFICES ASSUME Init PROVE BookInv OBVIOUS
<1>1. StreakTypes
  BY StreakAssumption DEF Init, StreakInit, StreakTypes, StreakRows, NewStreak, Days, States, Never
<1>2. LevelBound
  <2>1. RowBound(streak)
    BY StreakAssumption DEF Init, StreakInit, RowBound, NewStreak, Never
  <2>2. \A w \in Sweepers : reading[w] = Idle BY DEF Init, StreakInit
  <2> QED BY <2>1, <2>2 DEF LevelBound
<1>3. PlayTypes BY GameAssumption DEF Init, StreakInit, PlayTypes
<1>4. RowTypes BY DEF Init, RowTypes, BetRows, LotRows
<1>5. \A m \in Markets : StakeOf(bet[m]) = 0 /\ PnlOf(bet[m]) = 0
  BY DEF Init, NoBet, StakeOf, PnlOf
<1>6. \A l \in Lots : CostOf(lot[l]) = 0 /\ PnlOf(lot[l]) = 0
  BY DEF Init, NoLot, CostOf, PnlOf
<1>7. Staked = 0 /\ Spent = 0 /\ BetPnl = 0 /\ LotPnl = 0
  <2> DEFINE f == [m \in Markets |-> StakeOf(bet[m])]
             g == [l \in Lots |-> CostOf(lot[l])]
             h == [m \in Markets |-> PnlOf(bet[m])]
             k == [l \in Lots |-> PnlOf(lot[l])]
  <2>1. /\ f \in [Markets -> Int] /\ h \in [Markets -> Int]
        /\ \A m \in Markets : f[m] = 0 /\ h[m] = 0
    BY <1>5
  <2>2. /\ g \in [Lots -> Int] /\ k \in [Lots -> Int]
        /\ \A l \in Lots : g[l] = 0 /\ k[l] = 0
    BY <1>6
  <2>3. /\ Staked = SumFunction(f) /\ Spent = SumFunction(g)
        /\ BetPnl = SumFunction(h) /\ LotPnl = SumFunction(k)
    BY DEF Staked, Spent, BetPnl, LotPnl
  <2>4. IsFiniteSet(Markets) /\ IsFiniteSet(Lots) BY GameAssumption
  <2> HIDE DEF f, g, h, k
  <2>5. SumFunction(f) = 0 /\ SumFunction(h) = 0 BY <2>1, <2>4, SumZero
  <2>6. SumFunction(g) = 0 /\ SumFunction(k) = 0 BY <2>2, <2>4, SumZero
  <2> QED BY <2>3, <2>5, <2>6
<1>8. CashTypes
  <2>1. balance = Start /\ locked = 0 /\ freeUsed = FALSE /\ topups = 0 BY DEF Init
  <2>2. Start \in Nat BY GameAssumption
  <2>3. balance \in Int /\ locked \in 0 .. balance BY <2>1, <2>2
  <2> QED BY <2>1, <2>3 DEF CashTypes
<1>9. CashBooks
  <2>1. TopUps = 0 /\ balance = Start /\ locked = 0 BY DEF Init, TopUps
  <2>2. Grant * 0 = 0 BY GameAssumption
  <2> QED BY <1>7, <2>1, <2>2, GameAssumption DEF CashBooks
<1>10. ShardTypes BY GameAssumption, FS_EmptySet DEF Init, StreakInit, ShardTypes
<1>11. ArtifactBooks
  <2>1. CountedBets = {} BY DEF Init, CountedBets, NoBet
  <2>2. /\ shards = 0 /\ artifacts + topups + recovered + Cardinality(owned) = 0
    BY FS_EmptySet DEF Init, StreakInit
  <2>3. ShardsPerArtifact * 0 = 0 BY GameAssumption
  <2> QED BY <2>1, <2>2, <2>3, FS_EmptySet DEF ArtifactBooks
<1> QED BY <1>1, <1>2, <1>3, <1>4, <1>8, <1>9, <1>10, <1>11 DEF BookInv, CashInv, ShardInv

\* Every step keeps them balanced.
LEMMA BookStep == BookInv /\ GameInv /\ [Next]_vars => BookInv'
<1> SUFFICES ASSUME BookInv, GameInv, [Next]_vars PROVE BookInv' OBVIOUS
<1>1. CASE UNCHANGED vars
  <2>1. StreakTypes' /\ LevelBound'
    BY <1>1 DEF BookInv, StreakTypes, LevelBound, RowBound, vars, streakVars
  <2>2. PlayTypes' BY <1>1 DEF BookInv, PlayTypes, vars, gameVars, streakVars
  <2>3. CashInv' BY <1>1, CashStands DEF BookInv, vars, gameVars
  <2>4. ShardInv'
    BY <1>1, ShardsUncounted DEF BookInv, ShardInv, RowTypes, vars, gameVars, streakVars
  <2> QED BY <2>1, <2>2, <2>3, <2>4 DEF BookInv
<1>2. CASE Next
  <2>1. StreakTypes' BY GameStep DEF GameInv
  <2>2. LevelBound'
    <3>1. CASE StreakNext BY <3>1, BoundStep DEF BookInv
    <3>2. CASE UNCHANGED <<day, streak, reading>>
      BY <3>2 DEF BookInv, LevelBound, RowBound
    <3> QED BY <1>2, <3>1, <3>2, StreakStands
  <2>3. PlayTypes' BY <1>2, PlayStep DEF BookInv
  <2>4. CashInv' BY <1>2, CashStep DEF BookInv, PlayTypes, StreakTypes
  <2>5. ShardInv' BY <1>2, <2>4, ShardStep DEF BookInv, PlayTypes, StreakTypes, CashInv
  <2> QED BY <2>1, <2>2, <2>3, <2>4, <2>5 DEF BookInv
<1> QED BY <1>1, <1>2

\* The books are balanced in every reachable state.
LEMMA BookInvariance == Spec => []BookInv
<1>1. BookInv /\ GameInv /\ [Next]_vars => BookInv' BY BookStep
<1> QED BY <1>1, BookInit, GameInvariance, PTL DEF Spec

\* The rows are what the schema and its writers make them: no day over a cap, no balance below what
\* is locked, no streak longer than its days (prisma/schema.prisma, lib/streak.ts, lib/shards.ts).
THEOREM Types == Spec => []TypeOK
<1>1. BookInv => TypeOK
  <2> SUFFICES ASSUME BookInv PROVE TypeOK OBVIOUS
  <2>1. streak \in Rows /\ reading \in [Sweepers -> Readings] /\ day \in Days
    BY BoundedRows DEF BookInv, StreakTypes
  <2>2. /\ artifacts \in Nat /\ recovered \in Nat /\ topups \in Nat /\ owned \subseteq Skins
        /\ sharded \in [Days -> 0 .. ShardCap] /\ shards \in 0 .. ShardsPerArtifact - 1
    BY DEF BookInv, ShardInv, ShardTypes
  <2>3. /\ points \in [Days -> 0 .. SwipeCap] /\ swiped \in [Days -> 0 .. SwipeCap]
        /\ doubled \in [Days -> Nat] /\ market \in [Markets -> {"OPEN", "RESOLVED", "CANCELED"}]
        /\ request \in {NoRequest} \union [market : Markets, source : {"DECK", "FEED"}]
    BY DEF BookInv, PlayTypes
  <2>4. /\ \A m \in Markets : bet[m].status \in {"none", "PENDING", "SETTLED", "VOID"}
        /\ \A l \in Lots : lot[l].status \in {"none", "open", "closed"}
    BY BetRow, LotRow DEF BookInv, CashInv, RowTypes
  <2>5. balance \in Nat /\ locked \in 0 .. balance /\ freeUsed \in BOOLEAN
    BY DEF BookInv, CashInv, CashTypes
  <2> QED BY <2>1, <2>2, <2>3, <2>4, <2>5 DEF TypeOK
<1> QED BY <1>1, BookInvariance, PTL

\* Every cent of the balance row is accounted for, whatever the markets, lots, stakes and profits
\* (scripts/settle.ts, "Balance model").
THEOREM CashIsAccounted == Spec => []CashBooks
<1>1. BookInv => CashBooks BY DEF BookInv, CashInv
<1> QED BY <1>1, BookInvariance, PTL

\* No shard or artifact is minted or lost, however wins, top-ups, recoveries and skins interleave
\* (lib/shards.ts, lib/topup.ts, lib/skins-store.ts, lib/streak.ts).
THEOREM ArtifactsAreAccounted == Spec => []ArtifactBooks
<1>1. BookInv => ArtifactBooks BY DEF BookInv, ShardInv
<1> QED BY <1>1, BookInvariance, PTL

\* A streak that missed a day is burned, with its level and with its recovery window open, before
\* a tap, a sweep or a recovery makes anything else of it (lib/streak.ts).
THEOREM MissedDayBurnsFirst == Spec => BurnBeforeRestart
<1>1. GameInv /\ [Next]_vars
        => [Missed(streak) /\ streak' # streak
              => /\ streak'.state = "BURNED_RECOVERABLE"
                 /\ streak'.level = streak.level
                 /\ streak'.until >= day + 1]_streakVars
  BY GameStep
<1> QED BY <1>1, GameInvariance, PTL DEF Spec, BurnBeforeRestart

\* Neither the settlement that ends a market nor a hedge accepted meanwhile strands a bet: only a
\* swipe whose market was open when its route looked does (lib/swipe.ts, scripts/settle.ts).
THEOREM OnlyLateSwipes == Spec => OnlyALateSwipeStrands
<1>1. GameInv /\ [Next]_vars
        => [\A m \in Markets : ~Stranded(m) /\ Stranded(m)'
              => request.market = m /\ request' = NoRequest]_vars
  BY Strands DEF GameInv
<1> QED BY <1>1, GameInvariance, PTL DEF Spec, OnlyALateSwipeStrands
=============================================================================
