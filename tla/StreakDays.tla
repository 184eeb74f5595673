------------------------------ MODULE StreakDays ------------------------------
(***************************************************************************)
(* One player's streak (lib/streak.ts): the GM tap that qualifies a day,    *)
(* the burn sweep that the poller and GET /api/me both run, the recovery    *)
(* bought with an artifact, and the x2 bonus written when a window of       *)
(* WindowDays levels completes.                                            *)
(*                                                                         *)
(* The burn sweep and the GM tap are Read Committed transactions that read  *)
(* the row and then update it unconditionally, so each is a Read and a      *)
(* Write step and a write may be made from a row that has changed since.    *)
(* The recovery is Serializable and is one step.                            *)
(*                                                                         *)
(* Abstractions: instants are whole days, so the recovery window runs to    *)
(* the end of its last day; a transaction does not span midnight; points    *)
(* earned on a day are a count, written by the module that swipes.          *)
(***************************************************************************)
EXTENDS Integers, FiniteSets

CONSTANTS
    LastDay,        \* bound: the days are 0 .. LastDay
    WindowDays,     \* levels in an x2 window (7 in the code)
    RecoveryDays,   \* RECOVERY_WINDOW_DAYS
    Sweepers        \* transactions of the player that may run at the same time

ASSUME StreakAssumption ==
    /\ LastDay \in Nat
    /\ WindowDays \in Nat \ {0}
    /\ RecoveryDays \in Nat \ {0}

VARIABLES
    day,            \* today
    streak,         \* the Streak row
    reading,        \* what each open transaction has read
    artifacts,      \* CollectibleBalance.artifacts
    recovered,      \* Streak.recoveredCount
    points,         \* SWIPE points earned on each day
    doubled         \* how often each day's SWIPE points entered a STREAK_X2 row

streakVars == <<day, streak, reading, artifacts, recovered, points, doubled>>

Never == -1
Days == 0 .. LastDay
States == {"ACTIVE", "BURNED_RECOVERABLE", "LOST"}
Rows == [state : States, level : 0 .. LastDay + 1, last : {Never} \union Days,
         until : {Never} \union (0 .. LastDay + RecoveryDays)]
Idle == [kind |-> "idle"]
Readings == {Idle} \union [kind : {"sweep", "tap"}, row : Rows]

NewStreak == [state |-> "ACTIVE", level |-> 0, last |-> Never, until |-> Never]

----------------------------------------------------------------------------
\* evaluateBurn: a whole day skipped burns the streak and opens its recovery window; a window
\* that has run out loses it.
Missed(row) == row.state = "ACTIVE" /\ row.last # Never /\ day - row.last >= 2
Lapsed(row) == row.state = "BURNED_RECOVERABLE" /\ row.until # Never /\ day > row.until

Evaluated(row) ==
    IF Missed(row) THEN [row EXCEPT !.state = "BURNED_RECOVERABLE", !.until = day + RecoveryDays]
    ELSE IF Lapsed(row) THEN [row EXCEPT !.state = "LOST", !.until = Never, !.level = 0]
    ELSE row

\* The update a sweep makes from the row it read: every field it sets is absolute,
\* lastQualifiedDay is not among them, and no condition is checked again.
Overwritten(row) ==
    LET verdict == Evaluated(row) IN
    IF verdict.state = row.state THEN streak
    ELSE [streak EXCEPT !.state = verdict.state, !.until = verdict.until, !.level = verdict.level]

\* applyQualify, for a row that is not already qualified today.
NextLevel(row) ==
    IF row.state = "ACTIVE" /\ row.last # Never /\ day - row.last = 1 THEN row.level + 1 ELSE 1

Qualified(level) == [state |-> "ACTIVE", level |-> level, last |-> day, until |-> Never]

\* awardX2Window sums the latest WindowDays days that have SWIPE points, whichever days they are.
LatestSwipeDays ==
    {d \in Days : /\ d <= day
                  /\ points[d] > 0
                  /\ Cardinality({e \in Days : e > d /\ e <= day /\ points[e] > 0}) < WindowDays}

Award(level) ==
    doubled' = [d \in Days |-> IF level % WindowDays = 0 /\ d \in LatestSwipeDays
                               THEN doubled[d] + 1 ELSE doubled[d]]

----------------------------------------------------------------------------
\* evaluateStreak: a row with nothing to change ends the transaction at its read.
EvaluateRead(w) ==
    /\ reading[w] = Idle
    /\ Evaluated(streak) # streak
    /\ reading' = [reading EXCEPT ![w] = [kind |-> "sweep", row |-> streak]]
    /\ UNCHANGED <<day, streak, artifacts, recovered, points, doubled>>

EvaluateWrite(w) ==
    /\ reading[w].kind = "sweep"
    /\ streak' = Overwritten(reading[w].row)
    /\ reading' = [reading EXCEPT ![w] = Idle]
    /\ UNCHANGED <<day, artifacts, recovered, points, doubled>>

\* Mutant: the tap qualifies the row as it finds it.
NotSwept(row) == row

\* The GM tap: qualifyDay runs the burn sweep first, in its own transaction.
SweptFirst(row) == Evaluated(row)

\* A row that is burned, or that today already counts for, is left as the sweep left it.
Stays(row) == row.state = "BURNED_RECOVERABLE" \/ row.last = day

QualifyRead(w) ==
    /\ reading[w] = Idle
    /\ ~Stays(streak) \/ Evaluated(streak) # streak
    /\ reading' = [reading EXCEPT ![w] = [kind |-> "tap", row |-> streak]]
    /\ UNCHANGED <<day, streak, artifacts, recovered, points, doubled>>

QualifyWrite(w) ==
    /\ reading[w].kind = "tap"
    /\ LET row == SweptFirst(reading[w].row)
           level == NextLevel(row)
       IN  \/ /\ Stays(row)
              /\ streak' = Overwritten(reading[w].row)
              /\ UNCHANGED doubled
           \/ /\ ~Stays(row)
              /\ streak' = Qualified(level)
              /\ Award(level)
    /\ reading' = [reading EXCEPT ![w] = Idle]
    /\ UNCHANGED <<day, artifacts, recovered, points>>

\* recoverStreak: one artifact, inside the window, resumes at the next level.
Recover ==
    /\ streak.state = "BURNED_RECOVERABLE"
    /\ ~Lapsed(streak)
    /\ artifacts >= 1
    /\ artifacts' = artifacts - 1
    /\ recovered' = recovered + 1
    /\ streak' = Qualified(streak.level + 1)
    /\ Award(streak.level + 1)
    /\ UNCHANGED <<day, reading, points>>

\* Midnight (UTC).
NewDay ==
    /\ day < LastDay
    /\ \A w \in Sweepers : reading[w] = Idle
    /\ day' = day + 1
    /\ UNCHANGED <<streak, reading, artifacts, recovered, points, doubled>>

StreakInit ==
    /\ day = 0
    /\ streak = NewStreak
    /\ reading = [w \in Sweepers |-> Idle]
    /\ artifacts = 0
    /\ recovered = 0
    /\ points = [d \in Days |-> 0]
    /\ doubled = [d \in Days |-> 0]

StreakNext ==
    \/ \E w \in Sweepers : \/ EvaluateRead(w) \/ EvaluateWrite(w)
                           \/ QualifyRead(w) \/ QualifyWrite(w)
    \/ Recover
    \/ NewDay

----------------------------------------------------------------------------
\* A streak that missed a day is burned, with its level kept and its recovery window open, before
\* anything else happens to it: no tap, sweep or recovery restarts it or takes it straight to
\* LOST, whatever the order in which the tap, the poller and /api/me get to it.
BurnBeforeRestart ==
    [][Missed(streak) /\ streak' # streak
         => /\ streak'.state = "BURNED_RECOVERABLE"
            /\ streak'.level = streak.level
            /\ streak'.until >= day + 1]_streakVars

\* The x2 bonus pays the points of one completed window once more: a day's points enter at most
\* one bonus.
DoubledOnce == \A d \in Days : doubled[d] <= 1
=============================================================================
