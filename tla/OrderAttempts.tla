---------------------------- MODULE OrderAttempts ----------------------------
(***************************************************************************)
(* The lifecycle of one user's real-money order attempts: the intent,      *)
(* submit and posted routes, the exchange, the phone, and the sweeps of    *)
(* the poller that finish what a route left undone (orphan discovery, the  *)
(* reported-id fast pass, the reconciliation of stuck attempts).           *)
(*                                                                         *)
(* The database row of an attempt is split into one function per column    *)
(* the code branches on.  A submit request and a reconciliation pass are   *)
(* processes with a program counter, because each reads the exchange and   *)
(* writes the row in different steps and anything may run in between.      *)
(***************************************************************************)
EXTENDS Naturals, FiniteSets

CONSTANTS
    Attempts,    \* order_attempts rows that may be created
    Markets,     \* markets of the user
    Orders,      \* signed orders; the exchange id of an order is its hash
    Workers,     \* requests and poller passes that can be under way at once
    Loci,        \* REAL_ORDER_LOCUS: a subset of {"browser", "server"}
    Nameless,    \* whether a matched receipt may come without its order id
    SwipeCap,    \* SWIPE_CAP, the daily cap shared with paper swipes
    LastDay,     \* bound: days are 0 .. LastDay
    SignedSize,  \* shares the order was signed for
    MaxMatched,  \* bound: shares an order can match
    None         \* the null of a nullable column

ASSUME CapAssumption   == SwipeCap \in Nat
ASSUME DaysAssumption  == LastDay \in Nat
ASSUME SizeAssumption  == SignedSize \in Nat \ {0} /\ MaxMatched \in Nat
ASSUME RowsAssumption  == IsFiniteSet(Attempts)
ASSUME LociAssumption  == Loci \subseteq {"browser", "server"} /\ Nameless \in BOOLEAN

VARIABLES
    state,     \* OrderAttempt.state, "NONE" before the row exists
    intent,    \* market, dir and creation day: fixed when the row is created
    hash,      \* signedOrderHash
    ext,       \* externalOrderId
    note,      \* what the sweeps read in OrderAttempt.error
    booked,    \* sum of the attempt's Fill rows, in shares
    final,     \* reconciledAt is set
    aged,      \* SUBMITTING rows untouched for the orphan sweep's 15 minutes
    request,   \* the submit request that holds the attempt's claim
    browser,   \* what the phone knows of the attempt
    phase,     \* of an order at the exchange
    matched,   \* shares the exchange matched for an order
    indexed,   \* how many of them its trade index shows
    readable,  \* the exchange answers for the order record itself
    pass,      \* reconciliation passes: routes and poller sweeps
    today,     \* the UTC day
    swipes,    \* daily_counters.swipeCount
    paper      \* paper deck bets of the day, the counter's other users

rowVars      == <<state, intent, hash, ext, note, booked, final, aged>>
orderVars    == <<phase, matched, indexed, readable>>
counterVars  == <<today, swipes, paper>>
vars         == <<rowVars, request, browser, orderVars, pass, counterVars>>

States    == {"NONE", "ISSUED", "SUBMITTING", "POSTED",
              "FILLED", "PARTIAL", "KILLED", "FAILED"}
InFlight  == {"ISSUED", "SUBMITTING", "POSTED"}
Booked    == {"FILLED", "PARTIAL"}
\* An ENTRY in one of these states has spent a swipe of its day.
Holding   == {"SUBMITTING", "POSTED", "FILLED", "PARTIAL"}
Days      == 0 .. LastDay
Shares    == 0 .. MaxMatched
Intents   == [market : Markets, dir : {"ENTRY", "EXIT"}, day : Days]

ASSUME NoneAssumption == None \notin Orders \cup Attempts \cup Intents

\* What a pass is doing: "adopt" (posted route) and "confirm" (fast pass) are
\* verifying a reported id, "orphan" has found an unreported order, "absent"
\* has been told there is none; "probe", "book" and "fees" are reconcileAttempt.
Doing(stage, a, n, t) == [at |-> stage, attempt |-> a, total |-> n, terminal |-> t]
At(stage, a) == Doing(stage, a, 0, FALSE)
Idle      == At("idle", None)
Stages    == {"idle", "adopt", "confirm", "orphan", "absent", "probe", "book", "fees"}
Passes    == [at : Stages, attempt : Attempts \cup {None},
              total : Shares, terminal : BOOLEAN]

RowTypes ==
    /\ state \in [Attempts -> States]
    /\ intent \in [Attempts -> Intents \cup {None}]
    /\ \A a \in Attempts : intent[a] = None <=> state[a] = "NONE"
    /\ hash \in [Attempts -> Orders \cup {None}]
    /\ ext \in [Attempts -> Orders \cup {None}]
    /\ note \in [Attempts -> {"null", "reported", "other"}]
    /\ booked \in [Attempts -> Shares]
    /\ final \in [Attempts -> BOOLEAN]
    /\ aged \subseteq Attempts

OrderTypes ==
    /\ phase \in [Orders -> {"unposted", "transit", "gone", "live", "done"}]
    /\ matched \in [Orders -> Shares]
    /\ indexed \in [Orders -> Shares]
    /\ readable \in [Orders -> BOOLEAN]

PassTypes ==
    /\ pass \in [Workers -> Passes]
    /\ \A p \in Workers : pass[p].at # "idle" => pass[p].attempt \in Attempts

CounterTypes ==
    /\ today \in Days
    /\ swipes \in [Days -> Nat]
    /\ paper \in [Days -> Nat]

ClientTypes ==
    /\ request \in [Attempts -> {"none", "claimed", "sent", "booking", "killing"}]
    /\ browser \in [Attempts -> {"idle", "approved", "sent", "knows"}]

\* Every column, counter and process variable holds a value its code can write.
TypeOK == RowTypes /\ OrderTypes /\ PassTypes /\ CounterTypes /\ ClientTypes

Init ==
    /\ state = [a \in Attempts |-> "NONE"]
    /\ intent = [a \in Attempts |-> None]
    /\ hash = [a \in Attempts |-> None]
    /\ ext = [a \in Attempts |-> None]
    /\ note = [a \in Attempts |-> "null"]
    /\ booked = [a \in Attempts |-> 0]
    /\ final = [a \in Attempts |-> FALSE]
    /\ aged = {}
    /\ request = [a \in Attempts |-> "none"]
    /\ browser = [a \in Attempts |-> "idle"]
    /\ phase = [o \in Orders |-> "unposted"]
    /\ matched = [o \in Orders |-> 0]
    /\ indexed = [o \in Orders |-> 0]
    /\ readable = [o \in Orders |-> FALSE]
    /\ pass = [p \in Workers |-> Idle]
    /\ today = 0
    /\ swipes = [d \in Days |-> 0]
    /\ paper = [d \in Days |-> 0]

-----------------------------------------------------------------------------
(* The daily counter.                                                      *)

\* releaseSwipeSlot: give the day's slot back, floored at zero.
Released(d) == [swipes EXCEPT ![d] = IF @ > 0 THEN @ - 1 ELSE @]

\* Mutant: the slot is given back to the day on the wall clock.
ReleaseToday(a) ==
    swipes' = IF intent[a].dir = "ENTRY" THEN Released(today) ELSE swipes

\* Only an ENTRY reserved a slot, under its creation day.
ReleaseSlotOf(a) ==
    swipes' = IF intent[a].dir = "ENTRY" THEN Released(intent[a].day) ELSE swipes

\* Mutant: the count before the increment is compared.
BelowOrAtCap(d) == swipes[d] <= SwipeCap

\* The count after the increment is compared, and past the cap rolled back.
WithinCap(d) == swipes[d] + 1 <= SwipeCap

\* A paper deck swipe: the increment is the gate, an increment past the cap
\* rolls back.  Cash and points of the bet are not part of this module.
PaperSwipe ==
    /\ WithinCap(today)
    /\ swipes' = [swipes EXCEPT ![today] = @ + 1]
    /\ paper' = [paper EXCEPT ![today] = @ + 1]
    /\ UNCHANGED <<rowVars, request, browser, orderVars, pass, today>>

Midnight ==
    /\ today < LastDay
    /\ today' = today + 1
    /\ UNCHANGED <<rowVars, request, browser, orderVars, pass, swipes, paper>>

-----------------------------------------------------------------------------
(* POST /api/real/intent                                                   *)

\* A new intent.  The cap is only read here; the partial unique index admits
\* one in-flight attempt per market.  Whether the position allows this
\* direction is the business of PositionLedger.
Intent(a, m, dir) ==
    /\ state[a] = "NONE"
    /\ dir = "ENTRY" => swipes[today] < SwipeCap
    /\ \A b \in Attempts : state[b] \in InFlight => intent[b].market # m
    /\ state' = [state EXCEPT ![a] = "ISSUED"]
    /\ intent' = [intent EXCEPT ![a] = [market |-> m, dir |-> dir, day |-> today]]
    /\ UNCHANGED <<hash, ext, note, booked, final, aged, request, browser,
                   orderVars, pass, counterVars>>

\* An unsigned intent past its lifetime, closed by the submit route, by the
\* next intent on the market or by expireStaleIntents.
ExpireIntent(a) ==
    /\ state[a] = "ISSUED"
    /\ state' = [state EXCEPT ![a] = "FAILED"]
    /\ note' = [note EXCEPT ![a] = "other"]
    /\ UNCHANGED <<intent, hash, ext, booked, final, aged, request, browser,
                   orderVars, pass, counterVars>>

-----------------------------------------------------------------------------
(* POST /api/real/submit                                                   *)

\* Mutant: the hash is unique among the attempts in flight only.
UnclaimedInFlight(o) == \A b \in Attempts : hash[b] = o => state[b] \notin InFlight

\* signedOrderHash is unique.
Unclaimed(o) == \A b \in Attempts : hash[b] # o

\* The claim, one transaction: ISSUED -> SUBMITTING with the signed order's
\* hash (unique), and for an ENTRY a slot of the attempt's own day, whose
\* increment past the cap rolls everything back.
SubmitClaim(a, o) ==
    /\ state[a] = "ISSUED"
    /\ Unclaimed(o)
    /\ intent[a].dir = "ENTRY" => WithinCap(intent[a].day)
    /\ state' = [state EXCEPT ![a] = "SUBMITTING"]
    /\ hash' = [hash EXCEPT ![a] = o]
    /\ swipes' = IF intent[a].dir = "ENTRY"
                 THEN [swipes EXCEPT ![intent[a].day] = @ + 1]
                 ELSE swipes
    /\ request' = [request EXCEPT ![a] = "claimed"]
    /\ UNCHANGED <<intent, ext, note, booked, final, aged, browser,
                   orderVars, pass, today, paper>>

\* No exchange client for this user: nothing was posted, the claim and its
\* slot are undone in one transaction.
SubmitRollback(a) ==
    /\ request[a] = "claimed"
    /\ request' = [request EXCEPT ![a] = "none"]
    /\ IF state[a] = "SUBMITTING"
       THEN /\ state' = [state EXCEPT ![a] = "ISSUED"]
            /\ hash' = [hash EXCEPT ![a] = None]
            /\ note' = [note EXCEPT ![a] = "other"]
            /\ ReleaseSlotOf(a)
       ELSE UNCHANGED <<state, hash, note, swipes>>
    /\ UNCHANGED <<intent, ext, booked, final, aged, browser, orderVars, pass,
                   today, paper>>

\* Browser locus: the post goes back to the client.
SubmitApprove(a) ==
    /\ request[a] = "claimed"
    /\ "browser" \in Loci
    /\ request' = [request EXCEPT ![a] = "none"]
    /\ browser' = [browser EXCEPT ![a] = "approved"]
    /\ UNCHANGED <<rowVars, orderVars, pass, counterVars>>

\* Server locus: the order leaves for the exchange.
SubmitPost(a) ==
    /\ request[a] = "claimed"
    /\ "server" \in Loci
    /\ request' = [request EXCEPT ![a] = "sent"]
    /\ phase' = [phase EXCEPT ![hash[a]] = "transit"]
    /\ UNCHANGED <<rowVars, browser, matched, indexed, readable, pass, counterVars>>

\* The exchange refuses: no order exists, the attempt fails and its slot goes
\* back in the same transaction, gated on the row still being SUBMITTING.
SubmitRefused(a) ==
    /\ request[a] = "sent"
    /\ phase[hash[a]] \in {"transit", "gone"}
    /\ phase' = [phase EXCEPT ![hash[a]] = "gone"]
    /\ request' = [request EXCEPT ![a] = "none"]
    /\ IF state[a] = "SUBMITTING"
       THEN /\ state' = [state EXCEPT ![a] = "FAILED"]
            /\ note' = [note EXCEPT ![a] = "other"]
            /\ ReleaseSlotOf(a)
       ELSE UNCHANGED <<state, note, swipes>>
    /\ UNCHANGED <<intent, hash, ext, booked, final, aged, browser, matched,
                   indexed, readable, pass, today, paper>>

\* A timeout, or an accepted order answered without an id: the row stays
\* SUBMITTING, with a text in its error column, and orphan discovery owns it.
SubmitAmbiguous(a) ==
    /\ request[a] = "sent"
    /\ request' = [request EXCEPT ![a] = "none"]
    /\ note' = [note EXCEPT ![a] = IF state[a] = "SUBMITTING" THEN "other" ELSE @]
    /\ UNCHANGED <<state, intent, hash, ext, booked, final, aged, browser,
                   orderVars, pass, counterVars>>

\* The POSTED write, a CAS on SUBMITTING; the request goes on in any case.
WritePosted(a, o) ==
    IF state[a] = "SUBMITTING"
    THEN /\ state' = [state EXCEPT ![a] = "POSTED"]
         /\ ext' = [ext EXCEPT ![a] = o]
         /\ aged' = aged \ {a}
    ELSE UNCHANGED <<state, ext, aged>>

\* An accepted order: live, delayed or unrecognised, with an id, it stays POSTED
\* for reconciliation; matched, even without an id, its receipt is booked next.
SubmitAccepted(a) ==
    /\ request[a] = "sent"
    /\ phase[hash[a]] \in {"live", "done"}
    /\ \/ /\ WritePosted(a, hash[a])
          /\ request' = [request EXCEPT ![a] = "none"]
       \/ /\ matched[hash[a]] > 0
          /\ \/ WritePosted(a, hash[a])
             \/ Nameless /\ WritePosted(a, None)
          /\ request' = [request EXCEPT ![a] = "booking"]
    /\ UNCHANGED <<intent, hash, note, booked, final, browser, orderVars, pass,
                   counterVars>>

\* { ok: false }: POSTED without an id, on the way to the zero-fill kill.
SubmitRejected(a) ==
    /\ request[a] = "sent"
    /\ phase[hash[a]] \in {"transit", "gone"}
    /\ phase' = [phase EXCEPT ![hash[a]] = "gone"]
    /\ WritePosted(a, None)
    /\ request' = [request EXCEPT ![a] = "killing"]
    /\ UNCHANGED <<intent, hash, note, booked, final, browser, matched, indexed,
                   readable, pass, counterVars>>

\* The server restarts, or the request's answer never reaches the client.
SubmitDies(a) ==
    /\ request[a] # "none"
    /\ request' = [request EXCEPT ![a] = "none"]
    /\ UNCHANGED <<rowVars, browser, orderVars, pass, counterVars>>

-----------------------------------------------------------------------------
(* Booking (bookEntryFills and bookExitFills, as far as the attempt goes). *)

\* Mutant: an order that matched exactly what was signed is called partial.
LabelStrictly(n) == IF n > SignedSize THEN "FILLED" ELSE "PARTIAL"

Label(n) == IF n >= SignedSize THEN "FILLED" ELSE "PARTIAL"

\* Zero fills: SUBMITTING or POSTED -> KILLED, the slot in the same transaction.
Kill(a) ==
    /\ state' = [state EXCEPT ![a] = "KILLED"]
    /\ aged' = aged \ {a}
    /\ ReleaseSlotOf(a)

\* Mutant: a running total is booked as if it were one more trade.
BookAgain(a, n) ==
    /\ booked' = [booked EXCEPT ![a] = @ + n]
    /\ state' = [state EXCEPT ![a] = Label(booked[a] + n)]
    /\ UNCHANGED note

\* Mutant: the total booked last wins, however old the observation.
BookLatest(a, n) ==
    /\ booked' = [booked EXCEPT ![a] = n]
    /\ state' = [state EXCEPT ![a] = Label(n)]
    /\ UNCHANGED note

\* A receipt carries the order's running total n: only what the attempt does
\* not hold yet is written, and the label is judged on the cumulative total.
\* Nothing new refreshes the label of a booked or POSTED row and no other.
\* The position is assumed to take the whole fill: the clamp of a sale and its
\* no_position and no_remainder endings belong to PositionLedger.
BookTotal(a, n) ==
    IF n > booked[a]
    THEN /\ booked' = [booked EXCEPT ![a] = n]
         /\ state' = [state EXCEPT ![a] = Label(n)]
         /\ note' = IF intent[a].dir = "EXIT" THEN [note EXCEPT ![a] = "null"] ELSE note
    ELSE /\ state' = IF booked[a] > 0 /\ state[a] \in {"POSTED"} \cup Booked
                     THEN [state EXCEPT ![a] = Label(booked[a])]
                     ELSE state
         /\ UNCHANGED <<booked, note>>

\* The submit request books its receipt.
SubmitBook(a) ==
    /\ request[a] = "booking"
    /\ BookTotal(a, matched[hash[a]])
    /\ request' = [request EXCEPT ![a] = "none"]
    /\ UNCHANGED <<intent, hash, ext, final, aged, browser, orderVars, pass,
                   counterVars>>

\* The submit request books a rejection.
SubmitKill(a) ==
    /\ request[a] = "killing"
    /\ request' = [request EXCEPT ![a] = "none"]
    /\ IF state[a] \in {"SUBMITTING", "POSTED"}
       THEN Kill(a)
       ELSE UNCHANGED <<state, aged, swipes>>
    /\ UNCHANGED <<intent, hash, ext, note, booked, final, browser, orderVars,
                   pass, today, paper>>

-----------------------------------------------------------------------------
(* The phone, in the browser locus.                                        *)

BrowserPost(a) ==
    /\ browser[a] = "approved"
    /\ browser' = [browser EXCEPT ![a] = "sent"]
    /\ phase' = [phase EXCEPT ![hash[a]] = "transit"]
    /\ UNCHANGED <<rowVars, request, matched, indexed, readable, pass, counterVars>>

\* The exchange's answer names the order.
BrowserLearns(a) ==
    /\ browser[a] = "sent"
    /\ phase[hash[a]] \in {"live", "done"}
    /\ browser' = [browser EXCEPT ![a] = "knows"]
    /\ UNCHANGED <<rowVars, request, orderVars, pass, counterVars>>

\* The app is closed, the post is refused, or its answer is lost.
BrowserQuits(a) ==
    /\ browser[a] # "idle"
    /\ browser' = [browser EXCEPT ![a] = "idle"]
    /\ UNCHANGED <<rowVars, request, orderVars, pass, counterVars>>

-----------------------------------------------------------------------------
(* The exchange.                                                           *)

Accept(o) ==
    /\ phase[o] = "transit"
    /\ phase' = [phase EXCEPT ![o] = "live"]
    /\ \E r \in BOOLEAN : readable' = [readable EXCEPT ![o] = r]
    /\ UNCHANGED <<rowVars, request, browser, matched, indexed, pass, counterVars>>

\* The post never arrives, or is refused.
Drop(o) ==
    /\ phase[o] = "transit"
    /\ phase' = [phase EXCEPT ![o] = "gone"]
    /\ UNCHANGED <<rowVars, request, browser, matched, indexed, readable, pass,
                   counterVars>>

\* Fill-and-kill: the order takes what it can at once and is over.
Match(o) ==
    /\ phase[o] = "live"
    /\ phase' = [phase EXCEPT ![o] = "done"]
    /\ \E n \in Shares : matched' = [matched EXCEPT ![o] = n]
    /\ UNCHANGED <<rowVars, request, browser, indexed, readable, pass, counterVars>>

\* The trade index catches up with the match.
Index(o) ==
    /\ indexed[o] < matched[o]
    /\ indexed' = [indexed EXCEPT ![o] = @ + 1]
    /\ UNCHANGED <<rowVars, request, browser, phase, matched, readable, pass,
                   counterVars>>

\* Mutant: a decided order counts as settled before its trades are all shown.
DecidedOnly(o) == phase[o] \notin {"transit", "live"}

\* The index has had the quiet minutes the code waits for.
Settled(o) == phase[o] \notin {"transit", "live"} /\ indexed[o] = matched[o]

\* Mutant: the floor only outlasts the request.
FloorOfRequest(a) == request[a] = "none"

\* Fifteen minutes after the row's last write.  The floor is taken to cover
\* what it was chosen for: the request and the phone are done with the
\* attempt, and whatever was posted has been matched and indexed.
FloorCovers(a) ==
    /\ request[a] = "none"
    /\ browser[a] \notin {"approved", "sent"}
    /\ Settled(hash[a])

Age(a) ==
    /\ state[a] = "SUBMITTING"
    /\ FloorCovers(a)
    /\ aged' = aged \cup {a}
    /\ UNCHANGED <<state, intent, hash, ext, note, booked, final, request, browser,
                   orderVars, pass, counterVars>>

-----------------------------------------------------------------------------
(* Passes: POST /api/real/posted and the poller's sweeps.                  *)

StartPass(p, stage, a) ==
    /\ pass[p].at = "idle"
    /\ pass' = [pass EXCEPT ![p] = At(stage, a)]

EndPass(p) == pass' = [pass EXCEPT ![p] = Idle]

\* The phone reports its order id.  The marker is durable before any exchange
\* read, and rewriting the same marker does not refresh the row.
Report(p, a) ==
    /\ browser[a] = "knows"
    /\ state[a] \in {"SUBMITTING", "POSTED"}
    /\ StartPass(p, "adopt", a)
    /\ IF state[a] = "SUBMITTING" /\ ext[a] = None /\ note[a] # "reported"
       THEN /\ note' = [note EXCEPT ![a] = "reported"]
            /\ aged' = aged \ {a}
       ELSE UNCHANGED <<note, aged>>
    /\ UNCHANGED <<state, intent, hash, ext, booked, final, request, browser,
                   orderVars, counterVars>>

\* Somebody reports an id that is not this signed order's hash: refused, and
\* written down, but never over the marker of the right id.
ReportForeign(a, o) ==
    /\ state[a] = "SUBMITTING"
    /\ o # hash[a]
    /\ note[a] # "reported"
    /\ note' = [note EXCEPT ![a] = "other"]
    /\ aged' = aged \ {a}
    /\ UNCHANGED <<state, intent, hash, ext, booked, final, request, browser,
                   orderVars, pass, counterVars>>

\* The fast pass picks a reported row that is still unproven.
FastPass(p, a) ==
    /\ state[a] = "SUBMITTING"
    /\ ext[a] = None
    /\ note[a] = "reported"
    /\ StartPass(p, "confirm", a)
    /\ UNCHANGED <<rowVars, request, browser, orderVars, counterVars>>

\* The exchange vouches for the order: its record, or a trade naming it.
Evidence(o) == readable[o] \/ indexed[o] > 0

\* Discovery for an old unbound row: the order is resting or has trades, or
\* every read succeeded and none of them knows it.
OrphanLook(p, a) ==
    /\ state[a] = "SUBMITTING"
    /\ ext[a] = None
    /\ a \in aged
    /\ IF phase[hash[a]] = "live" \/ indexed[hash[a]] > 0
       THEN StartPass(p, "orphan", a)
       ELSE StartPass(p, "absent", a)
    /\ UNCHANGED <<rowVars, request, browser, orderVars, counterVars>>

\* Mutant: the marker of a reported id is not looked at.
KillWhereUnbound(a) == state[a] = "SUBMITTING" /\ ext[a] = None

\* Mutant: the comparison with the marker is NULL for an empty error column.
KillWhereNotNull(a) == state[a] = "SUBMITTING" /\ ext[a] = None /\ note[a] = "other"

\* orphanKillWhere: still unbound, and nobody has reported its id.
OrphanKillWhere(a) == state[a] = "SUBMITTING" /\ ext[a] = None /\ note[a] # "reported"

\* The kill of an absent order re-checks the row in its own statement.
OrphanKill(p) ==
    LET a == pass[p].attempt IN
    /\ pass[p].at = "absent"
    /\ EndPass(p)
    /\ IF OrphanKillWhere(a)
       THEN Kill(a)
       ELSE UNCHANGED <<state, aged, swipes>>
    /\ UNCHANGED <<intent, hash, ext, note, booked, final, request, browser,
                   orderVars, today, paper>>

\* Binding the proven id: a CAS on an unbound SUBMITTING row (the fast pass
\* also wants its marker unchanged), with the unique index as backstop.
CanBind(p, a) ==
    /\ state[a] = "SUBMITTING"
    /\ ext[a] = None
    /\ pass[p].at = "confirm" => note[a] = "reported"
    /\ \A b \in Attempts : ext[b] # hash[a]

Adopt(p) ==
    LET a == pass[p].attempt IN
    /\ pass[p].at \in {"adopt", "confirm", "orphan"}
    /\ Evidence(hash[a])
    /\ IF CanBind(p, a)
       THEN /\ state' = [state EXCEPT ![a] = "POSTED"]
            /\ ext' = [ext EXCEPT ![a] = hash[a]]
            /\ note' = [note EXCEPT ![a] = "null"]
            /\ aged' = aged \ {a}
            /\ pass' = [pass EXCEPT ![p] = At("probe", a)]
       ELSE /\ UNCHANGED <<state, ext, note, aged>>
            /\ pass' = [pass EXCEPT ![p] =
                          IF @.at = "adopt" /\ state[a] = "POSTED" /\ ext[a] = hash[a]
                          THEN At("probe", a) ELSE Idle]
    /\ UNCHANGED <<intent, hash, booked, final, request, browser, orderVars,
                   counterVars>>

\* Mutant: a booked row is done with.
StuckInFlight(a) == state[a] = "POSTED" /\ ext[a] # None

\* Unresolved, or booked and not yet reconciled.
Stuck(a) == /\ state[a] = "POSTED" \/ (state[a] \in Booked /\ ~final[a])
            /\ ext[a] # None

\* reconcileStuckAttempts picks a row.
ReconcilePick(p, a) ==
    /\ Stuck(a)
    /\ StartPass(p, "probe", a)
    /\ UNCHANGED <<rowVars, request, browser, orderVars, counterVars>>

\* The probe's answer: the order record with a trade set that accounts for
\* exactly what matched, or the trades alone, final once they have settled.
Probe(p) ==
    LET a == pass[p].attempt
        o == ext[a]
    IN
    /\ pass[p].at = "probe"
    /\ o # None
    /\ \E n \in Shares, t \in BOOLEAN :
         /\ \/ readable[o] /\ phase[o] = "done" /\ n = matched[o] /\ n = indexed[o] /\ t
            \/ n > 0 /\ n = indexed[o] /\ (t => Settled(o))
         /\ pass' = [pass EXCEPT ![p] = Doing("book", a, n, t)]
    /\ UNCHANGED <<rowVars, request, browser, orderVars, counterVars>>

\* reconcileAttempt books the verdict it holds, however old it is by now.
\* "terminal" then says that this very total had been booked before.  The code
\* reads that a statement earlier; as what is booked only grows, reading it at
\* the booking allows every stamp the code makes.
Book(p) ==
    LET a == pass[p].attempt
        n == pass[p].total
    IN
    /\ pass[p].at = "book"
    /\ IF n = 0
       THEN /\ EndPass(p)
            /\ IF state[a] \in {"SUBMITTING", "POSTED"}
               THEN Kill(a)
               ELSE UNCHANGED <<state, aged, swipes>>
            /\ UNCHANGED <<booked, note>>
       ELSE /\ BookTotal(a, n)
            /\ pass' = [pass EXCEPT ![p] =
                          Doing("fees", a, n, pass[p].terminal /\ booked[a] = n)]
            /\ UNCHANGED <<aged, swipes>>
    /\ UNCHANGED <<intent, hash, ext, final, request, browser, orderVars,
                   today, paper>>

\* trueUpAttemptFee, as far as the attempt goes: the stamp that ends the
\* sweeps, unless the observation is older than what is booked.
TrueUp(p) ==
    LET a == pass[p].attempt IN
    /\ pass[p].at = "fees"
    /\ EndPass(p)
    /\ final' = [final EXCEPT ![a] =
                   @ \/ /\ pass[p].terminal
                        /\ pass[p].total >= booked[a]
                        /\ state[a] \in Booked]
    /\ UNCHANGED <<state, intent, hash, ext, note, booked, aged, request, browser,
                   orderVars, counterVars>>

\* A read fails or stays inconclusive, a deadline passes, the process dies.
PassDies(p) ==
    /\ pass[p].at # "idle"
    /\ EndPass(p)
    /\ UNCHANGED <<rowVars, request, browser, orderVars, counterVars>>

-----------------------------------------------------------------------------
SubmitStep(a) ==
    \/ \E o \in Orders : SubmitClaim(a, o)
    \/ SubmitRollback(a) \/ SubmitApprove(a) \/ SubmitPost(a)
    \/ SubmitRefused(a) \/ SubmitAmbiguous(a) \/ SubmitAccepted(a)
    \/ SubmitRejected(a) \/ SubmitBook(a) \/ SubmitKill(a) \/ SubmitDies(a)

BrowserStep(a) == BrowserPost(a) \/ BrowserLearns(a) \/ BrowserQuits(a)

ExchangeStep(o) == Accept(o) \/ Drop(o) \/ Match(o) \/ Index(o)

PassStep(p) ==
    \/ \E a \in Attempts : \/ Report(p, a) \/ FastPass(p, a)
                           \/ OrphanLook(p, a) \/ ReconcilePick(p, a)
    \/ OrphanKill(p) \/ Adopt(p) \/ Probe(p) \/ Book(p) \/ TrueUp(p) \/ PassDies(p)

Next ==
    \/ \E a \in Attempts :
         \/ \E m \in Markets, dir \in {"ENTRY", "EXIT"} : Intent(a, m, dir)
         \/ ExpireIntent(a) \/ SubmitStep(a) \/ BrowserStep(a) \/ Age(a)
         \/ \E o \in Orders : ReportForeign(a, o)
    \/ \E o \in Orders : ExchangeStep(o)
    \/ \E p \in Workers : PassStep(p)
    \/ PaperSwipe \/ Midnight

Spec == Init /\ [][Next]_vars

-----------------------------------------------------------------------------
(* Properties.                                                             *)

\* The slots of a day: one for each paper bet and one for each ENTRY whose
\* order was claimed and did not come to nothing.  It relates the claim, the
\* rollback, the refusal and the two kinds of kill: a path that forgets to
\* give a slot back, gives it back twice or under another day breaks it.
Held(d) == {a \in Attempts : /\ state[a] \in Holding
                             /\ intent[a].dir = "ENTRY"
                             /\ intent[a].day = d}
SlotAccounting == \A d \in Days : swipes[d] = paper[d] + Cardinality(Held(d))

\* However many intents pass the cap's read together, claims never exceed it.
DailyCap == \A d \in Days : paper[d] + Cardinality(Held(d)) <= SwipeCap

\* An attempt is only ever bound to the order it signed, and an exchange order
\* to one attempt: bound twice it would be booked twice.
OneBinding ==
    \A a \in Attempts : ext[a] # None =>
        /\ ext[a] = hash[a]
        /\ \A b \in Attempts \ {a} : ext[b] # ext[a] /\ hash[b] # hash[a]

\* What the exchange matched for an attempt.
Charged(a) == IF hash[a] = None THEN 0 ELSE matched[hash[a]]

\* An attempt that was closed without a position never cost money, and no
\* process can still make it do so.
NoMoneyLost ==
    \A a \in Attempts : state[a] \in {"KILLED", "FAILED"} /\ hash[a] # None =>
        /\ Charged(a) = 0
        /\ phase[hash[a]] \notin {"transit", "live"}
        /\ browser[a] # "approved" /\ request[a] # "claimed"

\* Concurrent receipts, probes and stale verdicts never book a share twice.
NeverOverbooked == \A a \in Attempts : booked[a] <= Charged(a)

\* reconciledAt ends the sweeps, so it is only set on a complete booking.
FinalIsComplete == \A a \in Attempts :
    final[a] => state[a] \in Booked /\ booked[a] = Charged(a)

\* The phone says it posted this order: its absence at the exchange never
\* closes the attempt, whatever a sweep had read before the report.
ReportedNeverKilled == \A a \in Attempts : state[a] = "KILLED" => note[a] # "reported"

\* The label is judged on everything booked, never on the batch at hand.
LabelMatchesLedger == \A a \in Attempts :
    /\ state[a] = "FILLED" => booked[a] >= SignedSize
    /\ state[a] = "PARTIAL" => booked[a] \in 1 .. (SignedSize - 1)

\* KILLED and FAILED are decisions: nothing ever leaves them, and a booked
\* attempt never goes back in flight nor loses a FILLED label.
DecisionsStand == [][\A a \in Attempts :
    /\ state[a] \in {"KILLED", "FAILED", "FILLED"} => state'[a] = state[a]
    /\ state[a] = "PARTIAL" => state'[a] \in Booked]_vars

\* What an attempt has come to, for the ledger.
Status(a) == CASE state[a] \in Booked -> "credited"
               [] state[a] \in {"KILLED", "FAILED"} -> "void"
               [] OTHER -> "open"

\* The ledger contract this protocol implements: the exchange charges an open
\* attempt at most once, the ledger credits no more than that, and a closed
\* attempt was never charged.
Contract == INSTANCE OrderContract WITH
    status   <- [a \in Attempts |-> Status(a)],
    charged  <- [a \in Attempts |-> Charged(a)],
    credited <- booked
KeepsContract == Contract!Spec

-----------------------------------------------------------------------------
(* Liveness.  Passes are restarted for ever by the poller, so a step of a  *)
(* pass that is possible again and again is taken; the exchange decides    *)
(* and indexes what reached it; time passes; requests and phones end one   *)
(* way or another.  No user action is fair.                                *)

Fairness ==
    /\ \A o \in Orders : /\ WF_vars(Accept(o) \/ Drop(o))
                         /\ WF_vars(Match(o)) /\ WF_vars(Index(o))
    /\ \A a \in Attempts : /\ WF_vars(SubmitDies(a)) /\ WF_vars(BrowserQuits(a))
                           /\ WF_vars(Age(a)) /\ SF_vars(ExpireIntent(a))
    /\ \A p \in Workers :
         /\ \A a \in Attempts : SF_vars(OrphanLook(p, a)) /\ SF_vars(ReconcilePick(p, a))
         /\ SF_vars(OrphanKill(p)) /\ SF_vars(Adopt(p)) /\ SF_vars(Probe(p))
         /\ SF_vars(Book(p)) /\ SF_vars(TrueUp(p)) /\ WF_vars(PassDies(p))

FairSpec == Spec /\ Fairness

\* Money that left for the exchange reaches the ledger in full, whoever dies
\* on the way: the phone before reporting, the server before writing the id.
MoneyBooked == \A a \in Attempts :
    Charged(a) > 0 ~> booked[a] = Charged(a)

\* An unreported submission does not hold its market for ever.
OrphanResolved == \A a \in Attempts :
    state[a] = "SUBMITTING" /\ note[a] # "reported"
        ~> state[a] # "SUBMITTING" \/ note[a] = "reported"
=============================================================================
