--------------------------- MODULE SweepWalk_proofs ---------------------------
(***************************************************************************)
(* What the two cursor walks keep for any number of rows, calls and        *)
(* faults, and any size of a batch: the order of the rows, cursors that    *)
(* are points of it, and batches the cursor covers.  That every row is     *)
(* asked about again and again is a liveness property, left to TLC; the    *)
(* two facts about a single batch that it rests on are proved here.        *)
(***************************************************************************)
EXTENDS SweepWalk, SumLemmas

\* The order and the points of it, for any assignment of the rows before a row.
PresentIn(up) == {r \in Rows : r \in up[r]}
OrderIn(up) ==
    /\ up \in [Rows -> SUBSET Rows]
    /\ \A q, r \in PresentIn(up) : (q \in up[r] \/ r \in up[q]) /\ (up[q] = up[r] => q = r)
    /\ \A r \in Rows : \A q \in up[r] :
          r \in PresentIn(up) /\ q \in PresentIn(up) /\ up[q] \subseteq up[r]
PastIn(up, point) ==
    point # NoCursor => point \subseteq PresentIn(up) /\ \A r \in point : up[r] \subseteq point

\* A call that keeps to the order.
CallIn(up, k) ==
    /\ PastIn(up, k.next)
    /\ k.batch \subseteq PresentIn(up)
    /\ k.next # NoCursor => k.batch \subseteq k.next
    /\ k.stage = "idle" => k = NoCall

Points == (SUBSET Rows) \cup {NoCursor}

\* The record of a call.
CallSet == [walk : Walks, stage : {"idle", "mark", "save", "ask"},
            batch : SUBSET Rows, next : Points]

\* The inductive invariant: TypeOK, the types it does not name, and finitely many rows.
Inv ==
    /\ OrderIn(upto) /\ IsFiniteSet(PresentIn(upto))
    /\ state \in [Rows -> Walks \cup {"new"}]
    /\ cursor \in [Walks -> Points]
    /\ \A w \in Walks : PastIn(upto, cursor[w])
    /\ mark \in Points /\ PastIn(upto, mark)
    /\ call \in [Calls -> CallSet] /\ \A c \in Calls : CallIn(upto, call[c])
    /\ faults \in 0 .. MaxFaults

\* The invariant implies the type invariant.
LEMMA InvGivesTypes == Inv => TypeOK
  BY DEF Inv, TypeOK, OrderIn, PastIn, CallIn, PresentIn, InOrder, IsPast, Present

-----------------------------------------------------------------------------
(* The order.                                                               *)

\* A new row is the last one, and stays so: what was a point in time still is one.
LEMMA AppendOrder ==
    ASSUME NEW up, OrderIn(up), NEW r \in Rows, r \notin PresentIn(up),
           NEW new \in [Rows -> SUBSET Rows], new[r] = PresentIn(up) \cup {r},
           \A q \in Rows \ {r} : new[q] = up[q]
    PROVE  /\ OrderIn(new)
           /\ PresentIn(new) = PresentIn(up) \cup {r}
           /\ \A q \in PresentIn(up) : new[q] = up[q]
  <1>1. new[r] = PresentIn(up) \cup {r} /\ \A q \in Rows \ {r} : new[q] = up[q]
    OBVIOUS
  <1>2. PresentIn(new) = PresentIn(up) \cup {r}
    BY <1>1 DEF PresentIn
  <1>3. \A q \in Rows : up[q] \subseteq PresentIn(up) /\ (q \notin PresentIn(up) => up[q] = {})
    BY DEF OrderIn
  <1>4. \A p, q \in PresentIn(new) : (p \in new[q] \/ q \in new[p]) /\ (new[p] = new[q] => p = q)
    <2> SUFFICES ASSUME NEW p \in PresentIn(new), NEW q \in PresentIn(new)
                 PROVE  (p \in new[q] \/ q \in new[p]) /\ (new[p] = new[q] => p = q)
      OBVIOUS
    <2>1. CASE p = r /\ q = r
      BY <2>1, <1>1
    <2>2. CASE p = r /\ q # r
      BY <2>2, <1>1, <1>2, <1>3 DEF PresentIn
    <2>3. CASE p # r /\ q = r
      BY <2>3, <1>1, <1>2, <1>3 DEF PresentIn
    <2>4. CASE p # r /\ q # r
      BY <2>4, <1>1, <1>2 DEF OrderIn, PresentIn
    <2> QED BY <2>1, <2>2, <2>3, <2>4
  <1>5. \A p \in Rows : \A q \in new[p] :
           p \in PresentIn(new) /\ q \in PresentIn(new) /\ new[q] \subseteq new[p]
    <2> SUFFICES ASSUME NEW p \in Rows, NEW q \in new[p]
                 PROVE  p \in PresentIn(new) /\ q \in PresentIn(new) /\ new[q] \subseteq new[p]
      OBVIOUS
    <2>1. CASE p = r
      BY <2>1, <1>1, <1>2, <1>3 DEF PresentIn
    <2>2. CASE p # r
      BY <2>2, <1>1, <1>2, <1>3 DEF OrderIn, PresentIn
    <2> QED BY <2>1, <2>2
  <1> QED BY <1>1, <1>2, <1>4, <1>5 DEF OrderIn, PresentIn

\* What was a point in time before a row came is one after it.
LEMMA AppendPast ==
    ASSUME NEW up, NEW new, NEW r,
           PresentIn(new) = PresentIn(up) \cup {r}, \A q \in PresentIn(up) : new[q] = up[q],
           NEW point, PastIn(up, point)
    PROVE  PastIn(new, point)
  BY DEF PastIn

\* A row that is gone leaves the order of the others.
LEMMA ForgetOrder ==
    ASSUME NEW up, OrderIn(up), NEW r \in Rows,
           NEW new \in [Rows -> SUBSET Rows], new[r] = {},
           \A q \in Rows \ {r} : new[q] = up[q] \ {r}
    PROVE  /\ OrderIn(new)
           /\ PresentIn(new) = PresentIn(up) \ {r}
           /\ \A q \in PresentIn(new) : new[q] = up[q] \ {r}
  <1>1. new[r] = {} /\ \A q \in Rows \ {r} : new[q] = up[q] \ {r}
    OBVIOUS
  <1>2. PresentIn(new) = PresentIn(up) \ {r}
    BY <1>1 DEF PresentIn
  <1>3. \A q \in Rows : up[q] \subseteq PresentIn(up)
    BY DEF OrderIn
  <1>4. \A p, q \in PresentIn(new) : (p \in new[q] \/ q \in new[p]) /\ (new[p] = new[q] => p = q)
    <2> SUFFICES ASSUME NEW p \in PresentIn(new), NEW q \in PresentIn(new)
                 PROVE  (p \in new[q] \/ q \in new[p]) /\ (new[p] = new[q] => p = q)
      OBVIOUS
    <2>1. /\ p \in PresentIn(up) /\ q \in PresentIn(up) /\ p # r /\ q # r
          /\ new[p] = up[p] \ {r} /\ new[q] = up[q] \ {r}
      BY <1>1, <1>2 DEF PresentIn
    <2>2. (p \in up[q] \/ q \in up[p]) /\ p \in up[p] /\ q \in up[q]
      BY <2>1 DEF OrderIn, PresentIn
    <2>3. p \in up[q] /\ q \in up[p] => p = q
      <3>1. p \in up[q] => up[p] \subseteq up[q]
        BY <2>1 DEF OrderIn, PresentIn
      <3>2. q \in up[p] => up[q] \subseteq up[p]
        BY <2>1 DEF OrderIn, PresentIn
      <3>3. up[p] = up[q] => p = q
        BY <2>1 DEF OrderIn
      <3> QED BY <3>1, <3>2, <3>3
    <2> QED BY <2>1, <2>2, <2>3
  <1>5. \A p \in Rows : \A q \in new[p] :
           p \in PresentIn(new) /\ q \in PresentIn(new) /\ new[q] \subseteq new[p]
    BY <1>1, <1>2, <1>3 DEF OrderIn, PresentIn
  <1> QED BY <1>1, <1>2, <1>4, <1>5 DEF OrderIn, PresentIn

\* A point in time less the row that is gone.
LEMMA ForgetPast ==
    ASSUME NEW up, NEW new, NEW r,
           PresentIn(new) = PresentIn(up) \ {r}, \A q \in PresentIn(new) : new[q] = up[q] \ {r},
           NEW point, PastIn(up, point)
    PROVE  PastIn(new, Without(r, point))
  BY DEF PastIn, Without

\* The rows up to the last of some present rows are a point in time that covers them.
LEMMA LastIsPast ==
    ASSUME OrderIn(upto), NEW rows, rows \subseteq PresentIn(upto)
    PROVE  /\ PastIn(upto, LastOf(rows))
           /\ LastOf(rows) # NoCursor => rows \subseteq LastOf(rows)
           /\ LastOf(rows) \in Points
  <1>1. CASE rows = {}
    <2>1. LastOf(rows) = NoCursor
      BY <1>1 DEF LastOf
    <2> QED BY <2>1, <1>1 DEF PastIn, Points
  <1>2. CASE rows # {}
    <2>1. LastOf(rows) = UNION {upto[r] : r \in rows}
      BY <1>2 DEF LastOf, UpTo
    <2>2. \A r \in rows : r \in Rows /\ r \in upto[r]
      BY DEF PresentIn
    <2>3. \A r \in rows : upto[r] \subseteq PresentIn(upto) /\ \A q \in upto[r] : upto[q] \subseteq upto[r]
      BY <2>2 DEF OrderIn
    <2> QED BY <2>1, <2>2, <2>3 DEF PastIn, PresentIn, Points
  <1> QED BY <1>1, <1>2

\* All present rows are a point in time.
LEMMA NowIsPast ==
    ASSUME OrderIn(upto)
    PROVE  PastIn(upto, Present) /\ Present \in SUBSET Rows
  BY DEF OrderIn, PastIn, Present, PresentIn

\* A batch is made of present rows.
LEMMA BatchIsPresent ==
    ASSUME NEW w, NEW after, NEW high
    PROVE  Batch(w, after, high) \subseteq PresentIn(upto)
  BY DEF Batch, Matching, Present, PresentIn

-----------------------------------------------------------------------------
(* The calls.                                                               *)

\* What a call is after a batch has been worked through keeps to the order.
LEMMA WorkedThroughKeeps ==
    ASSUME NEW up, NEW k \in CallSet, CallIn(up, k)
    PROVE  WorkedThrough(k) \in CallSet /\ CallIn(up, WorkedThrough(k))
  <1>1. NoCall \in CallSet /\ CallIn(up, NoCall)
    BY DEF NoCall, CallSet, CallIn, PastIn, Walks, Points
  <1>2. [k EXCEPT !.stage = "save"] \in CallSet
        /\ (k.stage # "idle" => CallIn(up, [k EXCEPT !.stage = "save"]))
    BY DEF CallSet, CallIn, PastIn
  <1> QED BY <1>1, <1>2 DEF WorkedThrough

\* A smaller batch is one, too.
LEMMA SmallerBatch ==
    ASSUME NEW up, NEW k \in CallSet, CallIn(up, k), NEW r, k.stage # "idle"
    PROVE  /\ [k EXCEPT !.batch = @ \ {r}] \in CallSet
           /\ CallIn(up, [k EXCEPT !.batch = @ \ {r}])
  BY DEF CallSet, CallIn, PastIn

\* A batch of the orphan walk, and of the reconcile walk.
LEMMA OrphanFoundKeeps ==
    ASSUME OrderIn(upto), NEW after, NEW high
    PROVE  LET k == OrphanFound(Batch("orphan", after, high)) IN k \in CallSet /\ CallIn(upto, k)
  <1> DEFINE rows == Batch("orphan", after, high)
             k == OrphanFound(rows)
  <1>1. rows \subseteq PresentIn(upto)
    BY BatchIsPresent
  <1> HIDE DEF rows
  <1>2. /\ WrapWhenShort(rows) \in Points
        /\ PastIn(upto, WrapWhenShort(rows))
        /\ WrapWhenShort(rows) # NoCursor => rows \subseteq WrapWhenShort(rows)
    BY <1>1, LastIsPast DEF WrapWhenShort, PastIn, Points
  <1>3. k \in CallSet /\ k.stage = "save" /\ k.batch = rows /\ k.next = WrapWhenShort(rows)
    BY <1>1, <1>2 DEF OrphanFound, NoCall, CallSet, Walks, PresentIn
  <1> HIDE DEF k
  <1>4. k \in CallSet /\ CallIn(upto, k)
    BY <1>1, <1>2, <1>3 DEF CallIn
  <1> QED BY <1>4 DEF k, rows

LEMMA PostedFoundKeeps ==
    ASSUME OrderIn(upto), NEW after
    PROVE  PostedFound(after) \in CallSet /\ CallIn(upto, PostedFound(after))
  <1> DEFINE rows == Batch("posted", after, NoCursor)
             k == [walk |-> "posted", stage |-> "ask", batch |-> rows, next |-> NextAfter(rows, after)]
  <1>1. rows \subseteq PresentIn(upto)
    BY BatchIsPresent
  <1> HIDE DEF rows
  <1>2. /\ NextAfter(rows, after) \in Points
        /\ PastIn(upto, NextAfter(rows, after))
        /\ NextAfter(rows, after) # NoCursor => rows \subseteq NextAfter(rows, after)
    BY <1>1, LastIsPast DEF NextAfter
  <1>3. k \in CallSet /\ CallIn(upto, k)
    BY <1>1, <1>2 DEF CallSet, CallIn, Walks, PresentIn
  <1>4. PostedFound(after) = WorkedThrough(k)
    BY DEF PostedFound, k, rows
  <1> QED BY <1>3, <1>4, WorkedThroughKeeps

\* One call changes, the order does not.
LEMMA OneCall ==
    ASSUME NEW up, call \in [Calls -> CallSet], \A c \in Calls : CallIn(up, call[c]),
           NEW c \in Calls, NEW k \in CallSet, CallIn(up, k)
    PROVE  /\ [call EXCEPT ![c] = k] \in [Calls -> CallSet]
           /\ \A d \in Calls : CallIn(up, [call EXCEPT ![c] = k][d])
  OBVIOUS

\* A new cycle and a call that is over.
LEMMA EmptyCalls == \A up : /\ NoCall \in CallSet /\ CallIn(up, NoCall)
                            /\ NewCycle \in CallSet /\ CallIn(up, NewCycle)
  BY DEF NoCall, NewCycle, CallSet, CallIn, PastIn, Walks, Points

-----------------------------------------------------------------------------
(* The steps.                                                               *)

LEMMA InitInv == Init => Inv
  <1> SUFFICES ASSUME Init PROVE Inv
    OBVIOUS
  <1>1. PresentIn(upto) = {}
    BY DEF Init, PresentIn
  <1>2. OrderIn(upto)
    BY <1>1 DEF Init, OrderIn
  <1>3. IsFiniteSet(PresentIn(upto))
    BY <1>1, FS_EmptySet
  <1>4. call \in [Calls -> CallSet] /\ \A c \in Calls : CallIn(upto, call[c])
    BY EmptyCalls DEF Init
  <1>5. PastIn(upto, NoCursor) /\ NoCursor \in Points
    BY DEF PastIn, Points
  <1>6. /\ cursor \in [Walks -> Points] /\ \A w \in Walks : PastIn(upto, cursor[w])
        /\ mark \in Points /\ PastIn(upto, mark)
    BY <1>5 DEF Init
  <1>7. state \in [Rows -> Walks \cup {"new"}] /\ faults \in 0 .. MaxFaults
    BY WalkAssumption DEF Init
  <1> QED BY <1>2, <1>3, <1>4, <1>6, <1>7 DEF Inv

\* Rows come and age.
LEMMA CreateKeeps == ASSUME Inv, NEW r \in Rows, Create(r) PROVE Inv'
  <1>1. r \notin PresentIn(upto) /\ OrderIn(upto)
    BY DEF Create, Inv, Present, PresentIn
  <1>2. /\ upto' \in [Rows -> SUBSET Rows]
        /\ upto'[r] = PresentIn(upto) \cup {r}
        /\ \A q \in Rows \ {r} : upto'[q] = upto[q]
    BY <1>1 DEF Create, Present, PresentIn, OrderIn
  <1>3. /\ OrderIn(upto')
        /\ PresentIn(upto') = PresentIn(upto) \cup {r}
        /\ \A q \in PresentIn(upto) : upto'[q] = upto[q]
    BY <1>1, <1>2, AppendOrder
  <1>4. IsFiniteSet(PresentIn(upto'))
    BY <1>3, FS_AddElement DEF Inv
  <1>5. \A point : PastIn(upto, point) => PastIn(upto', point)
    BY <1>3, AppendPast
  <1>6. \A k : CallIn(upto, k) => CallIn(upto', k)
    BY <1>3, <1>5 DEF CallIn
  <1> QED BY <1>3, <1>4, <1>5, <1>6 DEF Create, Inv

LEMMA AgeKeeps == ASSUME Inv, NEW r \in Rows, Age(r) PROVE Inv'
  <1>1. state' \in [Rows -> Walks \cup {"new"}]
    BY DEF Inv, Age
  <1> QED BY <1>1 DEF Inv, Age

\* One call goes on, and may write its cursor or a new mark.
LEMMA CallSteps ==
    ASSUME Inv, NEW c \in Calls, NEW k \in CallSet, CallIn(upto, k),
           UNCHANGED upto, call' = [call EXCEPT ![c] = k],
           state' \in [Rows -> Walks \cup {"new"}],
           \/ UNCHANGED cursor
           \/ \E w \in Walks, point \in Points :
                 PastIn(upto, point) /\ cursor' = [cursor EXCEPT ![w] = point],
           UNCHANGED mark \/ mark' = Present,
           Works \/ Fails
    PROVE  Inv'
  <1>1. call' \in [Calls -> CallSet] /\ \A d \in Calls : CallIn(upto', call'[d])
    BY OneCall DEF Inv
  <1>2. cursor' \in [Walks -> Points] /\ \A w \in Walks : PastIn(upto', cursor'[w])
    BY DEF Inv
  <1>3. mark' \in Points /\ PastIn(upto', mark')
    BY NowIsPast DEF Inv, Points
  <1>4. faults' \in 0 .. MaxFaults
    BY WalkAssumption DEF Inv, Works, Fails
  <1> QED BY <1>1, <1>2, <1>3, <1>4 DEF Inv

LEMMA OrphanReadKeeps == ASSUME Inv, NEW c \in Calls, OrphanRead(c) PROVE Inv'
  <1>1. OrderIn(upto)
    BY DEF Inv
  <1>2. PICK k \in CallSet : CallIn(upto, k) /\ call' = [call EXCEPT ![c] = k]
    BY <1>1, EmptyCalls, OrphanFoundKeeps DEF OrphanRead
  <1>3. Works \/ Fails
    BY DEF OrphanRead
  <1>4. UNCHANGED <<upto, state, cursor, mark>>
    BY DEF OrphanRead
  <1> QED BY <1>2, <1>3, <1>4, CallSteps DEF Inv

LEMMA OrphanMarkKeeps == ASSUME Inv, NEW c \in Calls, OrphanMark(c) PROVE Inv'
  <1>1. OrderIn(upto)
    BY DEF Inv
  <1>2. PICK k \in CallSet : CallIn(upto, k) /\ call' = [call EXCEPT ![c] = k]
    BY <1>1, OrphanFoundKeeps DEF OrphanMark
  <1>3. (UNCHANGED mark \/ mark' = Present) /\ (Works \/ Fails)
    BY DEF OrphanMark, NewMark
  <1>4. UNCHANGED <<upto, state, cursor>>
    BY DEF OrphanMark
  <1> QED BY <1>2, <1>3, <1>4, CallSteps DEF Inv

LEMMA OrphanSaveKeeps == ASSUME Inv, NEW c \in Calls, OrphanSave(c) PROVE Inv'
  <1> DEFINE ask == [NoCall EXCEPT !.stage = "ask", !.batch = call[c].batch]
  <1>1. call[c] \in CallSet /\ CallIn(upto, call[c])
    BY DEF Inv
  <1>2. ask \in CallSet /\ ask.stage = "ask" /\ ask.batch = call[c].batch /\ ask.next = NoCursor
    BY <1>1 DEF NoCall, CallSet, Walks, Points
  <1> HIDE DEF ask
  <1>3. ask \in CallSet /\ CallIn(upto, ask)
    BY <1>1, <1>2 DEF CallIn, PastIn
  <1>4. WorkedThrough(ask) \in CallSet /\ CallIn(upto, WorkedThrough(ask))
    BY <1>3, WorkedThroughKeeps
  <1>5. call' = [call EXCEPT ![c] = WorkedThrough(ask)]
    BY DEF OrphanSave, ask
  <1>6. \/ UNCHANGED cursor
        \/ cursor' = [cursor EXCEPT !["orphan"] = call[c].next]
    BY DEF OrphanSave
  <1>7. call[c].next \in Points /\ PastIn(upto, call[c].next) /\ "orphan" \in Walks
    BY <1>1 DEF CallSet, CallIn, Walks
  <1>8. Works \/ Fails
    BY DEF OrphanSave
  <1>9. UNCHANGED <<upto, state, mark>>
    BY DEF OrphanSave
  <1> QED BY <1>4, <1>5, <1>6, <1>7, <1>8, <1>9, CallSteps DEF Inv

LEMMA PostedReadKeeps == ASSUME Inv, NEW c \in Calls, PostedRead(c) PROVE Inv'
  <1>1. OrderIn(upto)
    BY DEF Inv
  <1>2. PICK k \in CallSet : CallIn(upto, k) /\ call' = [call EXCEPT ![c] = k]
    BY <1>1, PostedFoundKeeps DEF PostedRead
  <1>3. Works \/ Fails
    BY DEF PostedRead
  <1>4. UNCHANGED <<upto, state, cursor, mark>>
    BY DEF PostedRead
  <1> QED BY <1>2, <1>3, <1>4, CallSteps DEF Inv

LEMMA PostedSaveKeeps == ASSUME Inv, NEW c \in Calls, PostedSave(c) PROVE Inv'
  <1>1. call[c] \in CallSet /\ CallIn(upto, call[c])
    BY DEF Inv
  <1>2. call' = [call EXCEPT ![c] = NoCall] /\ NoCall \in CallSet /\ CallIn(upto, NoCall)
    BY EmptyCalls DEF PostedSave
  <1>3. \/ UNCHANGED cursor
        \/ cursor' = [cursor EXCEPT !["posted"] = call[c].next]
    BY DEF PostedSave
  <1>4. call[c].next \in Points /\ PastIn(upto, call[c].next) /\ "posted" \in Walks
    BY <1>1 DEF CallSet, CallIn, Walks
  <1>5. Works \/ Fails
    BY DEF PostedSave
  <1>6. UNCHANGED <<upto, state, mark>>
    BY DEF PostedSave
  <1> QED BY <1>2, <1>3, <1>4, <1>5, <1>6, CallSteps DEF Inv

\* A call goes over to the next row of its batch.
LEMMA GoOnKeeps ==
    ASSUME Inv, NEW c \in Calls, NEW r, AskedBy(c, r), GoOn(c, r),
           UNCHANGED <<upto, cursor, mark, faults>>, state' \in [Rows -> Walks \cup {"new"}]
    PROVE  Inv'
  <1> DEFINE k == [call[c] EXCEPT !.batch = @ \ {r}]
  <1>1. call[c] \in CallSet /\ CallIn(upto, call[c]) /\ call[c].stage # "idle"
    BY DEF Inv, AskedBy
  <1>2. k \in CallSet /\ CallIn(upto, k)
    BY <1>1, SmallerBatch
  <1> HIDE DEF k
  <1>3. WorkedThrough(k) \in CallSet /\ CallIn(upto, WorkedThrough(k))
    BY <1>2, WorkedThroughKeeps
  <1>4. call' = [call EXCEPT ![c] = WorkedThrough(k)]
    BY DEF GoOn, k
  <1> QED BY <1>3, <1>4, CallSteps DEF Works

\* A row is resolved and leaves every batch and every point in time.
LEMMA ForgetKeeps ==
    ASSUME Inv, NEW r \in Rows, Forget(r), UNCHANGED <<state, faults>>
    PROVE  Inv'
  <1>1. /\ upto' \in [Rows -> SUBSET Rows]
        /\ upto'[r] = {}
        /\ \A q \in Rows \ {r} : upto'[q] = upto[q] \ {r}
    BY DEF Forget, Inv, OrderIn
  <1>2. /\ OrderIn(upto')
        /\ PresentIn(upto') = PresentIn(upto) \ {r}
        /\ \A q \in PresentIn(upto') : upto'[q] = upto[q] \ {r}
    BY <1>1, ForgetOrder DEF Inv
  <1>3. IsFiniteSet(PresentIn(upto'))
    BY <1>2, FS_RemoveElement DEF Inv
  <1>4. \A point : PastIn(upto, point) => PastIn(upto', Without(r, point))
    BY <1>2, ForgetPast
  <1>5. \A point \in Points : Without(r, point) \in Points
    BY DEF Without, Points
  <1>6. cursor' \in [Walks -> Points] /\ \A w \in Walks : PastIn(upto', cursor'[w])
    BY <1>4, <1>5 DEF Forget, Inv
  <1>7. mark' \in Points /\ PastIn(upto', mark')
    BY <1>4, <1>5 DEF Forget, Inv
  <1>8. ASSUME NEW c \in Calls
        PROVE  call'[c] \in CallSet /\ CallIn(upto', call'[c])
    <2> DEFINE k == [call[c] EXCEPT !.next = Without(r, @), !.batch = @ \ {r}]
    <2>1. call[c] \in CallSet /\ CallIn(upto, call[c])
      BY DEF Inv
    <2>2. k \in CallSet /\ k.walk = call[c].walk /\ k.stage = call[c].stage
          /\ k.batch = call[c].batch \ {r} /\ k.next = Without(r, call[c].next)
      BY <2>1, <1>5 DEF CallSet
    <2>3. call'[c] = WorkedThrough(k)
      BY DEF Forget
    <2> HIDE DEF k
    <2>4. PastIn(upto', k.next)
      BY <2>1, <2>2, <1>4 DEF CallIn
    <2>5. k.batch \subseteq PresentIn(upto')
      BY <2>1, <2>2, <1>2 DEF CallIn
    <2>6. k.next # NoCursor => k.batch \subseteq k.next
      BY <2>1, <2>2 DEF CallIn, Without
    <2>7. k.stage = "idle" => k = NoCall
      <3> SUFFICES ASSUME k.stage = "idle" PROVE k = NoCall
        OBVIOUS
      <3>1. call[c] = NoCall
        BY <2>1, <2>2 DEF CallIn
      <3>2. k.walk = "orphan" /\ k.batch = {} /\ k.next = NoCursor
        BY <3>1, <2>2 DEF NoCall, Without
      <3> QED BY <3>2, <2>2 DEF CallSet, NoCall
    <2>8. CallIn(upto', k)
      BY <2>4, <2>5, <2>6, <2>7 DEF CallIn
    <2> QED BY <2>2, <2>3, <2>8, WorkedThroughKeeps
  <1>9. call' \in [Calls -> CallSet]
    BY <1>8 DEF Forget
  <1> QED BY <1>2, <1>3, <1>6, <1>7, <1>8, <1>9 DEF Inv

\* Every step keeps the invariant.
LEMMA StepInv == Inv /\ [Next]_vars => Inv'
  <1> SUFFICES ASSUME Inv, [Next]_vars PROVE Inv'
    OBVIOUS
  <1>1. ASSUME NEW r \in Rows, Create(r) PROVE Inv'
    BY <1>1, CreateKeeps
  <1>2. ASSUME NEW r \in Rows, Age(r) PROVE Inv'
    BY <1>2, AgeKeeps
  <1>3. ASSUME NEW c \in Calls, OrphanRead(c) PROVE Inv'
    BY <1>3, OrphanReadKeeps
  <1>4. ASSUME NEW c \in Calls, PostedRead(c) PROVE Inv'
    BY <1>4, PostedReadKeeps
  <1>5. ASSUME NEW c \in Calls, OrphanMark(c) PROVE Inv'
    BY <1>5, OrphanMarkKeeps
  <1>6. ASSUME NEW c \in Calls, OrphanSave(c) PROVE Inv'
    BY <1>6, OrphanSaveKeeps
  <1>7. ASSUME NEW c \in Calls, PostedSave(c) PROVE Inv'
    BY <1>7, PostedSaveKeeps
  <1>8. ASSUME NEW c \in Calls, NEW r \in Rows, AskUnknown(c, r) PROVE Inv'
    BY <1>8, GoOnKeeps DEF AskUnknown, Inv
  <1>9. ASSUME NEW c \in Calls, NEW r \in Rows, AskAdopts(c, r) PROVE Inv'
    <2>1. state' \in [Rows -> Walks \cup {"new"}]
      BY <1>9 DEF AskAdopts, Inv, Walks
    <2> QED BY <2>1, <1>9, GoOnKeeps DEF AskAdopts
  <1>10. ASSUME NEW c \in Calls, NEW r \in Rows, AskResolves(c, r) PROVE Inv'
    BY <1>10, ForgetKeeps DEF AskResolves
  <1>11. ASSUME NEW c \in Calls, Dies(c) PROVE Inv'
    BY <1>11, EmptyCalls, CallSteps DEF Dies, Inv
  <1>12. CASE Cool
    BY <1>12 DEF Cool, Inv
  <1>13. CASE UNCHANGED vars
    BY <1>13 DEF vars, Inv
  <1> QED BY <1>1, <1>2, <1>3, <1>4, <1>5, <1>6, <1>7, <1>8, <1>9, <1>10, <1>11, <1>12, <1>13
       DEF Next, Step

\* The invariant holds throughout.
LEMMA AlwaysInv == Spec => []Inv
  BY InitInv, StepInv, PTL DEF Spec

\* sweep-cursor.ts, reconcile.ts: whatever calls overlap and whatever reads and writes
\* fail, a cursor is a point in the order of the rows that are there, and a batch is
\* made of rows that are there and lie behind the cursor to be written.
THEOREM SweepTypes == Spec => []TypeOK
  BY AlwaysInv, InvGivesTypes, PTL

-----------------------------------------------------------------------------
(* A batch leaves no row out.                                               *)

\* Some rows that are there have an oldest among them: a call that holds a batch always
\* has a row to ask about.
LEMMA OldestRow ==
    ASSUME OrderIn(upto), IsFiniteSet(PresentIn(upto)),
           NEW rows, rows \subseteq PresentIn(upto), rows # {}
    PROVE  \E r \in rows : rows \cap upto[r] = {r}
  <1> DEFINE F == {rows \cap upto[r] : r \in rows}
  <1>1. IsFiniteSet(rows)
    BY FS_Subset
  <1>2. F # {} /\ \A s \in F : IsFiniteSet(s)
    <2>1. \A r \in rows : IsFiniteSet(rows \cap upto[r])
      <3> TAKE r \in rows
      <3>1. rows \cap upto[r] \subseteq rows
        OBVIOUS
      <3> QED BY <1>1, <3>1, FS_Subset
    <2> QED BY <2>1
  <1>3. PICK s \in F : \A t \in F : Cardinality(s) <= Cardinality(t)
    BY <1>2, SmallestSet
  <1>4. PICK r \in rows : s = rows \cap upto[r]
    OBVIOUS
  <1>5. r \in s
    BY <1>4 DEF PresentIn
  <1>6. ASSUME NEW q \in s, q # r PROVE FALSE
    <2>1. q \in rows /\ q \in PresentIn(upto) /\ r \in PresentIn(upto) /\ q \in upto[r]
      BY <1>6, <1>4
    <2>2. upto[q] \subseteq upto[r] /\ upto[q] # upto[r]
      BY <2>1, <1>6 DEF OrderIn, PresentIn
    <2>3. r \notin upto[q]
      BY <2>1, <2>2 DEF OrderIn, PresentIn
    <2> DEFINE t == rows \cap upto[q]
    <2>4. t \in F /\ t \subseteq s /\ t # s
      BY <2>1, <2>2, <2>3, <1>4, <1>5
    <2>5. IsFiniteSet(s) /\ IsFiniteSet(t)
      BY <1>2, <2>4
    <2> HIDE DEF t
    <2>6. Cardinality(t) <= Cardinality(s) /\ Cardinality(t) # Cardinality(s)
      BY <2>4, <2>5, FS_Subset
    <2>7. Cardinality(s) <= Cardinality(t)
      BY <1>3, <2>4
    <2> QED BY <2>5, <2>6, <2>7, FS_CardinalityType
  <1> QED BY <1>4, <1>5, <1>6

\* Of two rows the batch takes the older one first.
LEMMA BatchIsOldest ==
    ASSUME OrderIn(upto), IsFiniteSet(PresentIn(upto)), NEW w, NEW after, NEW high,
           NEW q \in Batch(w, after, high), NEW r \in Matching(w, after, high), r \in upto[q]
    PROVE  r \in Batch(w, after, high)
  <1> DEFINE M == Matching(w, after, high)
  <1>1. q \in M /\ M \subseteq PresentIn(upto) /\ Cardinality(M \cap upto[q]) <= Limit
    BY DEF Batch, Matching, Present, PresentIn
  <1>2. IsFiniteSet(M)
    BY <1>1, FS_Subset
  <1> HIDE DEF M
  <1>3. upto[r] \subseteq upto[q]
    BY <1>1 DEF OrderIn, PresentIn
  <1>4. IsFiniteSet(M \cap upto[q]) /\ M \cap upto[r] \subseteq M \cap upto[q]
    BY <1>2, <1>3, FS_Subset
  <1>5. Cardinality(M \cap upto[r]) <= Cardinality(M \cap upto[q])
        /\ Cardinality(M \cap upto[r]) \in Nat /\ Cardinality(M \cap upto[q]) \in Nat
    BY <1>4, FS_Subset, FS_CardinalityType
  <1>6. Cardinality(M \cap upto[r]) <= Limit
    BY <1>1, <1>5, WalkAssumption
  <1> QED BY <1>6 DEF Batch, M

\* A batch that leaves a row out is full.
LEMMA ShortBatchIsAll ==
    ASSUME OrderIn(upto), IsFiniteSet(PresentIn(upto)), NEW w, NEW after, NEW high,
           NEW r \in Matching(w, after, high), r \notin Batch(w, after, high)
    PROVE  Cardinality(Batch(w, after, high)) >= Limit
  <1> DEFINE M == Matching(w, after, high)
             B == Batch(w, after, high)
  <1>1. M \subseteq PresentIn(upto) /\ B \subseteq M /\ M \ B # {}
        /\ \A p \in M \ B : ~(Cardinality(M \cap upto[p]) <= Limit)
    BY DEF Batch, Matching, Present, PresentIn
  <1>2. IsFiniteSet(M) /\ IsFiniteSet(B)
    BY <1>1, FS_Subset
  <1> HIDE DEF M, B
  <1>3. PICK p \in M \ B : (M \ B) \cap upto[p] = {p}
    BY <1>1, OldestRow
  <1>4. (M \cap upto[p]) \ {p} \subseteq B
    BY <1>3
  <1>5. p \in M \cap upto[p] /\ IsFiniteSet(M \cap upto[p])
    BY <1>3, <1>1, <1>2, FS_Subset DEF PresentIn
  <1>6. Cardinality((M \cap upto[p]) \ {p}) = Cardinality(M \cap upto[p]) - 1
    BY <1>5, FS_RemoveElement
  <1>7. Cardinality((M \cap upto[p]) \ {p}) <= Cardinality(B)
    BY <1>2, <1>4, FS_Subset
  <1>8. Cardinality(M \cap upto[p]) \in Nat /\ Cardinality(B) \in Nat
    BY <1>2, <1>5, FS_CardinalityType
  <1>9. Cardinality(M \cap upto[p]) > Limit
    BY <1>1, <1>3, <1>8, WalkAssumption
  <1>10. Cardinality(B) >= Limit
    BY <1>6, <1>7, <1>8, <1>9, WalkAssumption
  <1> QED BY <1>10 DEF B

\* A row of the walk is in the batch, or ahead of the last row of a full one.
LEMMA InOrAhead ==
    ASSUME OrderIn(upto), IsFiniteSet(PresentIn(upto)), NEW w, NEW after, NEW high,
           NEW r \in Matching(w, after, high), r \notin Batch(w, after, high)
    PROVE  LET rows == Batch(w, after, high) IN
           /\ Cardinality(rows) >= Limit
           /\ rows # {}
           /\ LastOf(rows) # NoCursor
           /\ r \notin LastOf(rows)
  <1> DEFINE rows == Batch(w, after, high)
  <1>1. Cardinality(rows) >= Limit
    BY ShortBatchIsAll
  <1>2. \A q \in rows : r \notin upto[q]
    BY BatchIsOldest
  <1>3. rows \subseteq PresentIn(upto)
    BY BatchIsPresent
  <1> HIDE DEF rows
  <1>4. rows # {}
    BY <1>1, FS_EmptySet, WalkAssumption
  <1>5. LastOf(rows) = UNION {upto[q] : q \in rows}
    BY <1>4 DEF LastOf, UpTo
  <1>6. LastOf(rows) \in SUBSET Rows
    BY <1>3, <1>5 DEF OrderIn, PresentIn
  <1>7. LastOf(rows) # NoCursor /\ r \notin LastOf(rows)
    BY <1>2, <1>5, <1>6, WalkAssumption
  <1> QED BY <1>1, <1>4, <1>7 DEF rows
\* What call k makes of the rows that were ahead: none is left out.
Leaves(after, high, k) ==
    \A r \in Matching(k.walk, after, high) :
        r \in k.batch \/ (k.next # NoCursor /\ r \notin k.next)

\* The batches of the two walks.
LEMMA OrphanLeaves ==
    ASSUME OrderIn(upto), IsFiniteSet(PresentIn(upto)), NEW after, NEW high
    PROVE  Leaves(after, high, OrphanFound(Batch("orphan", after, high)))
  <1> DEFINE rows == Batch("orphan", after, high)
             k == OrphanFound(rows)
  <1>1. k.walk = "orphan" /\ k.batch = rows /\ k.next = WrapWhenShort(rows)
    BY DEF OrphanFound, NoCall
  <1>2. ASSUME NEW r \in Matching("orphan", after, high), r \notin rows
        PROVE  k.next # NoCursor /\ r \notin k.next
    <2>1. Cardinality(rows) >= Limit /\ LastOf(rows) # NoCursor /\ r \notin LastOf(rows)
      BY <1>2, InOrAhead
    <2> QED BY <2>1, <1>1 DEF WrapWhenShort
  <1> HIDE DEF k, rows
  <1>3. Leaves(after, high, k)
    BY <1>1, <1>2 DEF Leaves
  <1> QED BY <1>3 DEF k, rows

LEMMA PostedLeaves ==
    ASSUME OrderIn(upto), IsFiniteSet(PresentIn(upto)), NEW after
    PROVE  Leaves(after, NoCursor, PostedFound(after)) /\ PostedFound(after).walk = "posted"
  <1> DEFINE rows == Batch("posted", after, NoCursor)
             k == [walk |-> "posted", stage |-> "ask", batch |-> rows, next |-> NextAfter(rows, after)]
  <1>1. PostedFound(after) = WorkedThrough(k)
    BY DEF PostedFound
  <1>2. ASSUME NEW r \in Matching("posted", after, NoCursor), r \notin rows
        PROVE  k.next # NoCursor /\ r \notin k.next
    <2>1. LastOf(rows) # NoCursor /\ r \notin LastOf(rows)
      BY <1>2, InOrAhead
    <2> QED BY <2>1 DEF NextAfter
  <1>3. k.walk = "posted" /\ k.batch = rows /\ k.stage = "ask"
    OBVIOUS
  <1>4. WorkedThrough(k).walk = "posted" /\ WorkedThrough(k).batch = rows
        /\ WorkedThrough(k).next = k.next
    BY DEF WorkedThrough
  <1> HIDE DEF k, rows
  <1>5. Leaves(after, NoCursor, WorkedThrough(k))
    BY <1>2, <1>4 DEF Leaves, rows
  <1> QED BY <1>1, <1>4, <1>5

\* The property of one call in a step.
PassesOver(c) ==
    LET k     == call'[c]
        after == IF call[c].stage = "idle" THEN cursor[k.walk] ELSE NoCursor
        high  == IF call[c].stage = "idle" /\ k.walk = "orphan" THEN mark ELSE NoCursor
    IN
    call[c].stage \in {"idle", "mark"} /\ k.stage \in {"save", "ask"} =>
        \A r \in Present :
            /\ state[r] = k.walk
            /\ after # NoCursor => r \notin after
            /\ high # NoCursor => r \in high
            => r \in k.batch \/ (k.next # NoCursor /\ r \notin k.next)

\* A call that takes no batch in the step.
LEMMA TakesNone ==
    ASSUME NEW c, \/ call[c].stage \notin {"idle", "mark"}
                  \/ call'[c].stage \notin {"save", "ask"}
    PROVE  PassesOver(c)
  BY DEF PassesOver

\* A call that leaves nothing of what it had to take passes over nothing.
LEMMA LeavesEnough ==
    ASSUME NEW c, NEW after, NEW high, Leaves(after, high, call'[c]),
           call[c].stage = "idle" =>
               /\ after \in {NoCursor, cursor[call'[c].walk]}
               /\ high = IF call'[c].walk = "orphan" THEN mark ELSE NoCursor,
           call[c].stage # "idle" => after = NoCursor /\ high \in {NoCursor, Present}
    PROVE  PassesOver(c)
  BY DEF PassesOver, Leaves, Matching

LEMMA OrphanReadPasses == ASSUME Inv, NEW c \in Calls, OrphanRead(c) PROVE PassesOver(c)
  <1> DEFINE rows == Batch("orphan", cursor["orphan"], mark)
  <1>1. OrderIn(upto) /\ IsFiniteSet(PresentIn(upto)) /\ call[c].stage = "idle"
    BY DEF Inv, OrphanRead
  <1>2. call'[c] = NewCycle \/ call'[c] = OrphanFound(rows)
    BY DEF OrphanRead, Inv
  <1>3. CASE call'[c] = NewCycle
    <2>1. call'[c].stage = "mark"
      BY <1>3 DEF NewCycle, NoCall
    <2> QED BY <2>1, TakesNone
  <1>4. CASE call'[c] = OrphanFound(rows)
    <2>1. Leaves(cursor["orphan"], mark, call'[c])
      BY <1>1, <1>4, OrphanLeaves
    <2>2. call'[c].walk = "orphan"
      BY <1>4 DEF OrphanFound, NoCall
    <2> QED BY <1>1, <2>1, <2>2, LeavesEnough
  <1> QED BY <1>2, <1>3, <1>4

LEMMA OrphanMarkPasses == ASSUME Inv, NEW c \in Calls, OrphanMark(c) PROVE PassesOver(c)
  <1>1. OrderIn(upto) /\ IsFiniteSet(PresentIn(upto)) /\ call[c].stage = "mark"
    BY DEF Inv, OrphanMark
  <1>2. call'[c] = OrphanFound(Batch("orphan", NoCursor, Present))
    BY DEF OrphanMark, Inv, NewMark
  <1>3. Leaves(NoCursor, Present, call'[c])
    BY <1>1, <1>2, OrphanLeaves
  <1> QED BY <1>1, <1>3, LeavesEnough

LEMMA PostedReadPasses == ASSUME Inv, NEW c \in Calls, PostedRead(c) PROVE PassesOver(c)
  <1>1. OrderIn(upto) /\ IsFiniteSet(PresentIn(upto)) /\ call[c].stage = "idle"
    BY DEF Inv, PostedRead
  <1>2. PICK after \in {NoCursor, cursor["posted"]} : call'[c] = PostedFound(after)
    BY DEF PostedRead, Inv
  <1>3. Leaves(after, NoCursor, call'[c]) /\ call'[c].walk = "posted"
    BY <1>1, <1>2, PostedLeaves
  <1> QED BY <1>1, <1>2, <1>3, LeavesEnough

\* A call that is asking, or that is not the one that takes the step, takes no batch.
LEMMA AskingPasses ==
    ASSUME Inv, NEW r \in Rows, NEW d \in Calls, NEW c \in Calls,
           AskUnknown(d, r) \/ AskAdopts(d, r)
    PROVE  PassesOver(c)
  <1>1. CASE c = d
    <2>1. call[c].stage \notin {"idle", "mark"}
      BY <1>1 DEF AskUnknown, AskAdopts, AskedBy
    <2> QED BY <2>1, TakesNone
  <1>2. CASE c # d
    <2>1. call'[c] = call[c]
      BY <1>2 DEF AskUnknown, AskAdopts, GoOn, Inv
    <2> QED BY <2>1, TakesNone
  <1> QED BY <1>1, <1>2

LEMMA ForgettingPasses ==
    ASSUME Inv, NEW r \in Rows, NEW c \in Calls, Forget(r) PROVE PassesOver(c)
  <1> DEFINE k == [call[c] EXCEPT !.next = Without(r, @), !.batch = @ \ {r}]
  <1>1. call[c] \in CallSet
    BY DEF Inv
  <1>2. k.stage = call[c].stage
    BY <1>1 DEF CallSet
  <1>3. call'[c] = WorkedThrough(k)
    BY DEF Forget
  <1> HIDE DEF k
  <1>4. k.stage # "ask" => call'[c] = k
    BY <1>3 DEF WorkedThrough
  <1>5. \/ call[c].stage \notin {"idle", "mark"}
        \/ call'[c].stage \notin {"save", "ask"}
    BY <1>2, <1>4
  <1> QED BY <1>5, TakesNone

\* A step of call d, which takes no batch itself.
LEMMA OtherPasses ==
    ASSUME Inv, NEW d \in Calls, NEW c \in Calls,
           \E k : call' = [call EXCEPT ![d] = k],
           c = d => call[c].stage \notin {"idle", "mark"} \/ call'[c].stage \notin {"save", "ask"}
    PROVE  PassesOver(c)
  <1>1. c # d => call'[c] = call[c]
    BY DEF Inv
  <1> QED BY <1>1, TakesNone

\* reconcile.ts, cursorBatch and reconcileStuckAttempts: no row of a walk is passed over,
\* whatever calls overlap, whatever reads and writes fail and whatever size a batch has.
THEOREM NoRowLeftOut == Spec => NothingPassedOver
  <1>1. ASSUME Inv, [Next]_vars, NEW c \in Calls PROVE PassesOver(c)
    <2>1. ASSUME NEW r \in Rows, Create(r) \/ Age(r) PROVE PassesOver(c)
      BY <2>1, TakesNone DEF Create, Age
    <2>2. ASSUME NEW d \in Calls, OrphanRead(d) PROVE PassesOver(c)
      <3>1. c # d => PassesOver(c)
        BY <1>1, <2>2, OtherPasses DEF OrphanRead
      <3> QED BY <3>1, <1>1, <2>2, OrphanReadPasses
    <2>3. ASSUME NEW d \in Calls, PostedRead(d) PROVE PassesOver(c)
      <3>1. c # d => PassesOver(c)
        BY <1>1, <2>3, OtherPasses DEF PostedRead
      <3> QED BY <3>1, <1>1, <2>3, PostedReadPasses
    <2>4. ASSUME NEW d \in Calls, OrphanMark(d) PROVE PassesOver(c)
      <3>1. c # d => PassesOver(c)
        BY <1>1, <2>4, OtherPasses DEF OrphanMark
      <3> QED BY <3>1, <1>1, <2>4, OrphanMarkPasses
    <2>5. ASSUME NEW d \in Calls, OrphanSave(d) PROVE PassesOver(c)
      BY <1>1, <2>5, OtherPasses DEF OrphanSave
    <2>6. ASSUME NEW d \in Calls, PostedSave(d) PROVE PassesOver(c)
      BY <1>1, <2>6, OtherPasses DEF PostedSave
    <2>7. ASSUME NEW d \in Calls, NEW r \in Rows, AskUnknown(d, r) \/ AskAdopts(d, r)
          PROVE  PassesOver(c)
      BY <1>1, <2>7, AskingPasses
    <2>8. ASSUME NEW d \in Calls, NEW r \in Rows, AskResolves(d, r) PROVE PassesOver(c)
      BY <1>1, <2>8, ForgettingPasses DEF AskResolves
    <2>9. ASSUME NEW d \in Calls, Dies(d) PROVE PassesOver(c)
      <3>1. c = d => call'[c].stage \notin {"save", "ask"}
        BY <1>1, <2>9 DEF Dies, NoCall, Inv
      <3> QED BY <1>1, <2>9, <3>1, OtherPasses DEF Dies
    <2>10. CASE Cool \/ UNCHANGED vars
      BY <2>10, TakesNone DEF Cool, vars
    <2> QED BY <1>1, <2>1, <2>2, <2>3, <2>4, <2>5, <2>6, <2>7, <2>8, <2>9, <2>10 DEF Next, Step
  <1>2. Inv /\ [Next]_vars => [\A c \in Calls : PassesOver(c)]_vars
    BY <1>1
  <1>3. Spec => [][\A c \in Calls : PassesOver(c)]_vars
    BY <1>2, AlwaysInv, PTL DEF Spec
  <1> QED BY <1>3 DEF NothingPassedOver, PassesOver
=============================================================================
