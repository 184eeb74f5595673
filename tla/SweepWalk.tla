------------------------------ MODULE SweepWalk ------------------------------
(***************************************************************************)
(* The two cursor walks of order reconciliation, as the poller has them    *)
(* run: src/src/lib/reconcile.ts over sweep-cursor.ts, called through      *)
(* POST /api/real/reconcile.                                               *)
(*                                                                         *)
(* Both ask about rows they may have to leave as they are, a batch at a    *)
(* time, and remember in a cursor how far they came.  The orphan walk      *)
(* bounds a cycle by a high-water mark and wraps after a short batch; the  *)
(* reconcile walk goes on while there is a row ahead of it.  The poller    *)
(* stops waiting for a call after twenty seconds and a tick may outlast    *)
(* its lease, so calls overlap; the cursor is last-writer-wins.            *)
(*                                                                         *)
(* A point in time is the set of the present rows created up to it, so     *)
(* that a stream of rows without end needs finitely many states: a row     *)
(* that is resolved leaves every such set, and its name may come back as   *)
(* that of a new row at the end.                                           *)
(***************************************************************************)
EXTENDS Integers, FiniteSets

CONSTANTS
    Rows,       \* names of order attempts
    Limit,      \* rows a batch takes
    Calls,      \* calls of the route that may be under way together
    MaxFaults,  \* bound on the reads and writes of a cursor that fail and the calls that die
    NoCursor    \* a cursor that is null, or not written yet

ASSUME WalkAssumption ==
    /\ Limit \in Nat \ {0}
    /\ MaxFaults \in Nat
    /\ \A S \in SUBSET Rows : NoCursor # S

VARIABLES
    upto,     \* the order (createdAt, id): [Rows -> present rows created up to the row],
              \* nothing for a row that is not there
    state,    \* "new": too young; "orphan": SUBMITTING, no id; "posted": awaiting a verdict
    cursor,   \* sweep_cursors: [Walks -> rows up to the cursor]
    mark,     \* sweep_cursors "<name>:hw" of the orphan walk
    cooling,  \* the reconcile cursor was set to null less than minAgeMs ago
    call,     \* what each call is doing
    faults    \* faults so far

vars == <<upto, state, cursor, mark, cooling, call, faults>>

Walks == {"orphan", "posted"}
Present == {r \in Rows : r \in upto[r]}

NoCall == [walk |-> "orphan", stage |-> "idle", batch |-> {}, next |-> NoCursor]

\* A storage error is caught and counts against the bound.
Fails == faults < MaxFaults /\ faults' = faults + 1
Works == UNCHANGED faults

-----------------------------------------------------------------------------
(* Rows.                                                                    *)

\* A user submits an order: /api/real/submit.
Create(r) ==
    /\ r \notin Present
    /\ upto' = [upto EXCEPT ![r] = Present \cup {r}]
    /\ state' = [state EXCEPT ![r] = "new"]
    /\ UNCHANGED <<cursor, mark, cooling, call, faults>>

\* The row passes the age floor of the sweeps: its phone died, or it was posted.
Age(r) ==
    /\ r \in Present /\ state[r] = "new"
    /\ \E s \in Walks : state' = [state EXCEPT ![r] = s]
    /\ UNCHANGED <<upto, cursor, mark, cooling, call, faults>>

\* A batch that is worked through ends an orphan call; a reconcile call has its cursor
\* to write.
WorkedThrough(k) ==
    IF k.stage # "ask" \/ k.batch # {} THEN k
    ELSE IF k.walk = "orphan" THEN NoCall
    ELSE [k EXCEPT !.stage = "save"]

\* A row that is resolved is behind no cursor and in no batch any more.
Without(r, point) == IF point = NoCursor THEN NoCursor ELSE point \ {r}
Forget(r) ==
    /\ upto' = [q \in Rows |-> IF q = r THEN {} ELSE upto[q] \ {r}]
    /\ cursor' = [w \in Walks |-> Without(r, cursor[w])]
    /\ mark' = Without(r, mark)
    /\ call' = [c \in Calls |->
           WorkedThrough([call[c] EXCEPT !.next = Without(r, @), !.batch = @ \ {r}])]

-----------------------------------------------------------------------------
(* The batches.                                                             *)

\* Mutant: the rows that came after the cycle began belong to it as well.
MatchingAnyAge(w, after, high) ==
    {r \in Present : state[r] = w /\ (after # NoCursor => r \notin after)}

\* The rows of a walk after its cursor and up to its high-water mark.
Matching(w, after, high) ==
    {r \in Present : /\ state[r] = w
                     /\ after # NoCursor => r \notin after
                     /\ high # NoCursor => r \in high}

\* Mutant: the newest of them come first.
BatchNewest(w, after, high) ==
    LET rows == Matching(w, after, high) IN
    {r \in rows : Cardinality(rows \ (upto[r] \ {r})) <= Limit}

\* The oldest of them, Limit at most.
Batch(w, after, high) ==
    LET rows == Matching(w, after, high) IN
    {r \in rows : Cardinality(rows \cap upto[r]) <= Limit}

\* The present rows created up to row r, and up to the last of a batch.
UpTo(r) == upto[r]
LastOf(rows) == IF rows = {} THEN NoCursor ELSE UNION {UpTo(r) : r \in rows}

\* The orphan walk wraps after a short batch.
WrapWhenShort(rows) == IF Cardinality(rows) >= Limit THEN LastOf(rows) ELSE NoCursor

\* A new cycle takes every row there is.
NewMark == Present

-----------------------------------------------------------------------------
(* cursorBatch: the orphan walk.  The rows are read right after the cursor   *)
(* or the mark they go by, and nothing but rows is read there.              *)

OrphanFound(rows) ==
    [NoCall EXCEPT !.stage = "save", !.batch = rows, !.next = WrapWhenShort(rows)]
NewCycle == [NoCall EXCEPT !.stage = "mark"]

\* The cursor and the mark are read.  Without both a new cycle starts, and a cycle
\* that ended on a full batch goes over to the next one at once.
OrphanRead(c) ==
    /\ call[c].stage = "idle"
    /\ \/ /\ cursor["orphan"] # NoCursor /\ mark # NoCursor
          /\ LET rows == Batch("orphan", cursor["orphan"], mark) IN
             call' = [call EXCEPT ![c] = IF rows = {} THEN NewCycle ELSE OrphanFound(rows)]
          /\ Works
       \/ /\ cursor["orphan"] = NoCursor \/ mark = NoCursor
          /\ call' = [call EXCEPT ![c] = NewCycle]
          /\ Works
       \/ /\ call' = [call EXCEPT ![c] = NewCycle]
          /\ Fails
    /\ UNCHANGED <<upto, state, cursor, mark, cooling>>

\* The mark is written; the call goes by its own whether or not that succeeds.
OrphanMark(c) ==
    /\ call[c].stage = "mark"
    /\ call' = [call EXCEPT ![c] = OrphanFound(Batch("orphan", NoCursor, NewMark))]
    /\ \/ mark' = NewMark /\ Works
       \/ UNCHANGED mark /\ Fails
    /\ UNCHANGED <<upto, state, cursor, cooling>>

\* The cursor is written before the batch is worked through.
OrphanSave(c) ==
    /\ call[c].walk = "orphan" /\ call[c].stage = "save"
    /\ call' = [call EXCEPT ![c] =
           WorkedThrough([NoCall EXCEPT !.stage = "ask", !.batch = call[c].batch])]
    /\ \/ cursor' = [cursor EXCEPT !["orphan"] = call[c].next] /\ Works
       \/ UNCHANGED cursor /\ Fails
    /\ UNCHANGED <<upto, state, mark, cooling>>

-----------------------------------------------------------------------------
(* reconcileStuckAttempts: the reconcile walk.                              *)

\* Mutant: a batch without a row leaves the cursor where it is.
NextOfBatch(rows, after) == IF rows = {} THEN after ELSE LastOf(rows)

\* Only a batch without a row ends a cycle.
NextAfter(rows, after) == LastOf(rows)

PostedFound(after) ==
    LET rows == Batch("posted", after, NoCursor) IN
    WorkedThrough([walk |-> "posted", stage |-> "ask", batch |-> rows,
                   next |-> NextAfter(rows, after)])

\* A null cursor rests for minAgeMs; an unreadable one never holds the pass back.
PostedRead(c) ==
    /\ call[c].stage = "idle"
    /\ \/ /\ cursor["posted"] = NoCursor => ~cooling
          /\ call' = [call EXCEPT ![c] = PostedFound(cursor["posted"])]
          /\ Works
       \/ call' = [call EXCEPT ![c] = PostedFound(NoCursor)] /\ Fails
    /\ UNCHANGED <<upto, state, cursor, mark, cooling>>

\* The cursor advances past every row of the batch, whatever became of it.
PostedSave(c) ==
    /\ call[c].walk = "posted" /\ call[c].stage = "save"
    /\ call' = [call EXCEPT ![c] = NoCall]
    /\ \/ /\ cursor' = [cursor EXCEPT !["posted"] = call[c].next]
          /\ cooling' = (call[c].next = NoCursor)
          /\ Works
       \/ UNCHANGED <<cursor, cooling>> /\ Fails
    /\ UNCHANGED <<upto, state, mark>>

-----------------------------------------------------------------------------
(* A row is asked about, and stays, moves on or is resolved.                *)

\* The batch is worked through from its oldest row on.
AskedBy(c, r) == call[c].stage = "ask" /\ call[c].batch \cap upto[r] = {r}
Asked(r) == \E c \in Calls : AskedBy(c, r)
GoOn(c, r) == call' = [call EXCEPT ![c] = WorkedThrough([call[c] EXCEPT !.batch = @ \ {r}])]

\* Nobody knows, or another call was faster: the row is not written.
AskUnknown(c, r) ==
    /\ AskedBy(c, r)
    /\ GoOn(c, r)
    /\ UNCHANGED <<upto, state, cursor, mark, cooling, faults>>

\* An orphan is adopted, and from then on belongs to the other walk.
AskAdopts(c, r) ==
    /\ AskedBy(c, r)
    /\ call[c].walk = "orphan" /\ state[r] = "orphan"
    /\ state' = [state EXCEPT ![r] = "posted"]
    /\ GoOn(c, r)
    /\ UNCHANGED <<upto, cursor, mark, cooling, faults>>

\* Killed, or booked with its final fee.
AskResolves(c, r) ==
    /\ AskedBy(c, r)
    /\ state[r] = call[c].walk
    /\ Forget(r)
    /\ UNCHANGED <<state, cooling, faults>>

-----------------------------------------------------------------------------
\* The server is restarted under the call.
Dies(c) ==
    /\ call[c].stage # "idle"
    /\ call' = [call EXCEPT ![c] = NoCall]
    /\ Fails
    /\ UNCHANGED <<upto, state, cursor, mark, cooling>>

\* minAgeMs pass after the reconcile cursor was set to null.
Cool ==
    /\ cooling
    /\ cooling' = FALSE
    /\ UNCHANGED <<upto, state, cursor, mark, call, faults>>

Init ==
    /\ upto = [r \in Rows |-> {}]
    /\ state = [r \in Rows |-> "new"]
    /\ cursor = [w \in Walks |-> NoCursor]
    /\ mark = NoCursor
    /\ cooling = FALSE
    /\ call = [c \in Calls |-> NoCall]
    /\ faults = 0

Step(c) ==
    \/ OrphanMark(c) \/ OrphanSave(c) \/ PostedSave(c)
    \/ \E r \in Rows : AskUnknown(c, r) \/ AskAdopts(c, r) \/ AskResolves(c, r)

Next ==
    \/ \E r \in Rows : Create(r) \/ Age(r)
    \/ \E c \in Calls : OrphanRead(c) \/ PostedRead(c) \/ Step(c) \/ Dies(c)
    \/ Cool

Spec == Init /\ [][Next]_vars

\* The poller posts to the route again and again, a call under way goes on, and
\* time passes.  Which rows come, and what the exchange answers, is left open.
FairSpec ==
    /\ Spec
    /\ WF_vars(Cool)
    /\ \A c \in Calls : WF_vars(Step(c))
    /\ SF_vars(\E c \in Calls : OrphanRead(c))
    /\ SF_vars(\E c \in Calls : PostedRead(c))

-----------------------------------------------------------------------------
\* The rows are in one order, and a point in time holds with a row all before it.
InOrder ==
    /\ \A q, r \in Present : (q \in upto[r] \/ r \in upto[q]) /\ (upto[q] = upto[r] => q = r)
    /\ \A r \in Rows : \A q \in upto[r] : r \in Present /\ q \in Present /\ upto[q] \subseteq upto[r]
IsPast(point) ==
    point # NoCursor => point \subseteq Present /\ \A r \in point : upto[r] \subseteq point

\* A batch is made of present rows, and the cursor that will be written covers it.
TypeOK ==
    /\ upto \in [Rows -> SUBSET Rows] /\ InOrder
    /\ state \in [Rows -> Walks \union {"new"}]
    /\ \A w \in Walks : IsPast(cursor[w])
    /\ IsPast(mark)
    /\ \A c \in Calls :
        /\ IsPast(call[c].next)
        /\ call[c].batch \subseteq Present
        /\ call[c].next # NoCursor => call[c].batch \subseteq call[c].next
        /\ call[c].stage = "idle" => call[c] = NoCall
    /\ faults \in 0..MaxFaults

\* "They walk the set with a stored (createdAt, id) cursor": and leave no row behind.
\* A row of the walk that lay ahead of the cursor when a call took its batch is in the
\* batch, or is ahead of the cursor the call will write; a walk wraps only at the end.
NothingPassedOver ==
    [][\A c \in Calls :
         LET k     == call'[c]
             after == IF call[c].stage = "idle" THEN cursor[k.walk] ELSE NoCursor
             high  == IF call[c].stage = "idle" /\ k.walk = "orphan" THEN mark ELSE NoCursor
         IN
         call[c].stage \in {"idle", "mark"} /\ k.stage \in {"save", "ask"} =>
             \A r \in Present :
                 /\ state[r] = k.walk
                 /\ after # NoCursor => r \notin after
                 /\ high # NoCursor => r \in high
                 => r \in k.batch \/ (k.next # NoCursor /\ r \notin k.next)]_vars

\* An orphan is asked about again and again until it is none any more, whatever
\* stream of new rows arrives.
OrphansAsked == \A r \in Rows : []<>(r \notin Present \/ state[r] # "orphan" \/ Asked(r))

\* "An unresolved order remains money state even when it is 49 days old": a posted
\* row is asked about again and again.
PostedAsked == \A r \in Rows : []<>(r \notin Present \/ state[r] # "posted" \/ Asked(r))

\* That is so once no new order comes.
PostedAskedWhenQuiet ==
    <>[](\A r \in Present : state[r] # "new") /\ <>[][Present' \subseteq Present]_upto
        => PostedAsked

=============================================================================
