----------------------------- MODULE StockTrades -----------------------------
(***************************************************************************)
(* Real tokenized-stock trades of one user, one wallet and one stock:      *)
(* src/src/lib/stocks-real.ts over the wallet clock of wallet-sync.ts.     *)
(*                                                                         *)
(* An attempt is a row for one transaction the server built.  It is built  *)
(* under the user's lock, signed by the wallet, stamped with its signed    *)
(* wire before it is sent, and settled from the receipt it leaves on       *)
(* chain, by the client's confirm request or by the poller's sweep.  A     *)
(* lot is the position a landed buy leaves behind; the wallet refresh      *)
(* closes lots whose tokens are gone and adopts tokens nobody booked.      *)
(*                                                                         *)
(* One lot is one unit of the token, except an adopted lot, which is       *)
(* whatever the wallet holds above the books.  Every handler that awaits   *)
(* between its read and its write is split there, and keeps what it read   *)
(* in a variable of its own; what runs in one database transaction under   *)
(* the payer's advisory lock is one action.                                *)
(***************************************************************************)
EXTENDS Integers, Sequences, FiniteSets, FiniteSetsExt, Functions

CONSTANTS
    MaxAttempts,  \* rows of stock_buy_attempts, created in the order of their ids
    Validity,     \* blocks a built transaction may still land in
    MaxHeight,    \* bound on the block height
    MaxBusy,      \* bound on the handlers that are between a read and a write
    MaxMoves,     \* bound on the transfers the user makes outside the app
    Held,         \* tokens the wallet holds, and has on the books, when it is linked
    Refreshers,   \* concurrent wallet refreshes: the portfolio page, the poller
    BuyKinds      \* the fee payer of a buy: TRUE sponsored, FALSE the wallet itself

ASSUME TradeAssumption ==
    /\ {MaxAttempts, MaxHeight} \subseteq Nat \ {0}
    /\ {Validity, MaxBusy, MaxMoves, Held} \subseteq Nat
    /\ BuyKinds \subseteq BOOLEAN

VARIABLES
    attempts,      \* stock_buy_attempts: [Ids -> row], status "none" before it is built
    lots,          \* stock_positions in the order they were created
    funding,       \* sponsor_funded_accounts row of this wallet's token account
    receiptSlot,   \* stock_wallet_states.latestConfirmedReceiptSlot
    acceptedSlot,  \* stock_wallet_states.lastAcceptedSlot
    fenced,        \* the refreshes that captured the present value of .generation
    height,        \* block height of the chain
    holdings,      \* token balance of the wallet after each slot that changed it
    tx,            \* what has become of each attempt's transaction on chain
    ata,           \* the token account: "none", or who paid its rent
    moves,         \* transfers made outside the app so far
    lost,          \* history: the attempts that were written off though they had landed
    submitting,    \* submitSigned calls past their checks, before the stamp
    confirming,    \* the attempt whose receipt a confirmer has read, 0 for none
    refresh,       \* the slot a refresh's fence requires, Idle when none runs
    sweep          \* the sweep's snapshot of the pending rows and of the height

db == <<attempts, lots, funding>>
clock == <<receiptSlot, acceptedSlot, fenced>>
chain == <<height, holdings, tx, ata, moves, lost>>
locals == <<submitting, confirming, refresh, sweep>>
vars == <<db, clock, chain, locals>>

Ids == 1..MaxAttempts
Confirmers == {"client", "sweep"}
Slots == DOMAIN holdings
Now == Len(holdings)

NoFunding == [by |-> 0, confirmed |-> FALSE, closed |-> FALSE]
NoSweep == [rows |-> {}, bare |-> {}, height |-> 0]
Idle == -1

\* What the rows say.
Pending(a) == attempts[a].status = "PENDING"
Landed(a) == tx[a].state = "landed"
HasReceipt(a) == tx[a].state \in {"landed", "failed"}
IsOpen(l) == l \in DOMAIN lots /\ ~lots[l].closed
SellsOf(l) == {a \in Ids : attempts[a].kind = "SELL" /\ attempts[a].lot = l}
LargerOf(m, n) == IF m > n THEN m ELSE n
RequiredSlot == LargerOf(receiptSlot, acceptedSlot)

\* Handlers between a read and the write that goes by it.
SweepRuns == sweep # NoSweep
Busy == Cardinality(submitting)
        + (IF confirming["client"] # 0 THEN 1 ELSE 0)
        + (IF SweepRuns THEN 1 ELSE 0)
        + Cardinality({r \in Refreshers : refresh[r] # Idle})
MayStart == Busy < MaxBusy

-----------------------------------------------------------------------------
(* The wallet clock.                                                        *)

\* bumpWalletGeneration: no refresh that is under way still holds the generation.
\* The counter is compared for equality only, so the refreshes that hold its
\* present value are kept instead of the value.
Bump == fenced' = {} /\ UNCHANGED <<receiptSlot, acceptedSlot>>

\* Mutant: the slot of the receipt is not kept.
BumpOnly(slot) == Bump

BumpAt(slot) ==
    /\ fenced' = {}
    /\ receiptSlot' = LargerOf(receiptSlot, slot)
    /\ UNCHANGED acceptedSlot

-----------------------------------------------------------------------------
(* Build.                                                                   *)

NextId == Cardinality({a \in Ids : attempts[a].status # "none"}) + 1

Row(kind, lot, sponsored, closeAta) ==
    [kind |-> kind, lot |-> lot, sponsored |-> sponsored, closeAta |-> closeAta,
     status |-> "PENDING", stamped |-> FALSE, review |-> FALSE,
     lastValid |-> height + Validity]

\* dropUnconfirmedFunding
WithoutFunding(a) ==
    IF funding.by = a /\ ~funding.confirmed THEN NoFunding ELSE funding

\* Mutant: a sale whose wire was stamped no longer holds its lot.
UnsentSells(l) == {a \in SellsOf(l) : Pending(a) /\ ~attempts[a].stamped}

\* The rows a build must answer with before it may add one of its own.
PendingBuys == {a \in Ids : attempts[a].kind = "BUY" /\ Pending(a)}
PendingSells(l) == {a \in SellsOf(l) : Pending(a)}

\* Mutant: a build past its height is retired though its wire was stamped.
RetirableByHeight(a, h) == h > attempts[a].lastValid

\* A build no wallet signed and no block can take any more may be retired.
Retirable(a, h) == ~attempts[a].stamped /\ h > attempts[a].lastValid

\* The locked decision: a live build is served again, a dead one is retired.
MayReplace(live, h) == live # {} => Retirable(Max(live), h)
Retired(live, rows) ==
    IF live = {} THEN rows ELSE [rows EXCEPT ![Max(live)].status = "EXPIRED"]
FundingWithout(live) == IF live = {} THEN funding ELSE WithoutFunding(Max(live))

\* reservePendingBuy on its own: the quote that follows may fail.
ReserveBuy ==
    \E h \in 1..height :
        /\ PendingBuys # {}
        /\ MayReplace(PendingBuys, h)
        /\ attempts' = Retired(PendingBuys, attempts)
        /\ funding' = FundingWithout(PendingBuys)
        /\ UNCHANGED <<lots, clock, chain, locals>>

\* buildAttempt: the height is read before the lock.  A sponsored build for a
\* wallet that has no token account puts the sponsor's rent behind the new one.
BuildBuy(sponsored) ==
    \E h \in 1..height :
        /\ NextId \in Ids
        /\ sponsored \in BuyKinds
        /\ MayReplace(PendingBuys, h)
        /\ attempts' = Retired(PendingBuys,
               [attempts EXCEPT ![NextId] = Row("BUY", 0, sponsored, FALSE)])
        /\ funding' = IF sponsored /\ ata = "none"
                      THEN [NoFunding EXCEPT !.by = NextId]
                      ELSE FundingWithout(PendingBuys)
        /\ Bump
        /\ UNCHANGED <<lots, chain, locals>>

\* buildSellAttempt: the wallet must hold the lot, as of a read that may be one
\* slot old.  Emptying the only account closes it in the same transaction.  A sale
\* that waits for a human keeps its lot.
BuildSell(l) ==
    \E h \in 1..height, s \in {n \in Slots : n + 1 >= Now} :
        /\ NextId \in Ids
        /\ IsOpen(l)
        /\ holdings[s] >= lots[l].qty
        /\ MayReplace(PendingSells(l), h)
        /\ \A a \in PendingSells(l) : ~attempts[a].review
        /\ attempts' = Retired(PendingSells(l),
               [attempts EXCEPT ![NextId] =
                   Row("SELL", l, TRUE, holdings[s] = lots[l].qty)])
        /\ funding' = FundingWithout(PendingSells(l))
        /\ Bump
        /\ UNCHANGED <<lots, chain, locals>>

-----------------------------------------------------------------------------
(* Sign, stamp, send.                                                       *)

\* The lot is still ours to sell and no other sale of it has settled.
StillSellable(a) ==
    attempts[a].kind = "SELL" =>
        /\ IsOpen(attempts[a].lot)
        /\ \A b \in SellsOf(attempts[a].lot) \ {a} : attempts[b].status # "CONFIRMED"

\* submitSigned up to the stamp: an unstamped build is refused past its height.
SubmitCheck(a) ==
    /\ MayStart
    /\ Pending(a)
    /\ attempts[a].stamped \/ height <= attempts[a].lastValid
    /\ StillSellable(a)
    /\ submitting' = submitting \union {a}
    /\ UNCHANGED <<db, clock, chain, confirming, refresh, sweep>>

\* stampSignedWire: one transaction under the payer's lock.
StampWire(a) ==
    /\ Pending(a)
    /\ IF attempts[a].stamped
       THEN UNCHANGED <<attempts, clock>>
       ELSE /\ StillSellable(a)
            /\ attempts' = [attempts EXCEPT ![a].stamped = TRUE]
            /\ Bump
    /\ UNCHANGED <<lots, funding>>

\* The stamped wire is sent at once, unless the server stops in between or the
\* wire has already left a receipt; the same bytes may be sent again later.
SubmitStamp(a) ==
    /\ a \in submitting
    /\ submitting' = submitting \ {a}
    /\ StampWire(a)
    /\ \/ tx' = IF tx[a].state = "none" THEN [tx EXCEPT ![a].state = "sent"] ELSE tx
       \/ UNCHANGED tx
    /\ UNCHANGED <<height, holdings, ata, moves, lost, confirming, refresh, sweep>>

\* The row was decided between the checks and the stamp, or its lot was sold.
SubmitRefused(a) ==
    /\ a \in submitting
    /\ ~Pending(a) \/ (~attempts[a].stamped /\ ~StillSellable(a))
    /\ submitting' = submitting \ {a}
    /\ UNCHANGED <<db, clock, chain, confirming, refresh, sweep>>

\* markSent: a self-paid signature is bound once its receipt can be read.
MarkSent(a) ==
    /\ ~attempts[a].sponsored
    /\ HasReceipt(a)
    /\ StampWire(a)
    /\ UNCHANGED <<chain, locals>>

-----------------------------------------------------------------------------
(* Confirm.                                                                 *)

\* confirmAttempt and confirmSell up to the receipt: the row they go by is the
\* one read here.
ConfirmRead(p, a) ==
    /\ confirming[p] = 0
    /\ Pending(a)
    /\ HasReceipt(a)
    /\ confirming' = [confirming EXCEPT ![p] = a]

\* The client asks with a signature it was given, or made itself.
ClientConfirms(a) ==
    /\ MayStart
    /\ attempts[a].stamped \/ ~attempts[a].sponsored
    /\ ConfirmRead("client", a)
    /\ UNCHANGED <<db, clock, chain, submitting, refresh, sweep>>

Settle(a, status) ==
    attempts' = [attempts EXCEPT ![a].status = status, ![a].stamped = TRUE,
                                 ![a].review = FALSE]

\* A failed transaction books nothing.
ConfirmFailed(a) ==
    /\ tx[a].state = "failed"
    /\ BumpAt(tx[a].slot)
    /\ Settle(a, "FAILED")
    /\ funding' = WithoutFunding(a)
    /\ UNCHANGED lots

BuyLot(a) == [source |-> "DECK", by |-> a, qty |-> 1, closed |-> FALSE,
              reason |-> "none", soldBy |-> 0]

\* A landed buy is booked once, unless the row was decided in between.
MayBook(a) == Pending(a)
Booked(a) == \E l \in DOMAIN lots : lots[l].by = a

ConfirmBuy(a) ==
    /\ Landed(a)
    /\ attempts[a].kind = "BUY"
    /\ IF MayBook(a)
       THEN /\ lots' = Append(lots, BuyLot(a))
            /\ Settle(a, "CONFIRMED")
            /\ funding' = IF funding.by = a THEN [funding EXCEPT !.confirmed = TRUE]
                          ELSE funding
       ELSE Booked(a) /\ UNCHANGED db
    /\ BumpAt(tx[a].slot)

\* The first confirm closes the lot, or takes over a close the wallet refresh
\* made when it saw the tokens leave.
SellCloses(l) ==
    \/ ~lots[l].closed
    \/ lots[l].reason = "wallet" /\ lots[l].soldBy = 0

\* Mutant: the sale is noted and the lot stays open.
SoldLotOnly(lot, a) == [lot EXCEPT !.reason = "sold", !.soldBy = a]

SoldLot(lot, a) == [lot EXCEPT !.closed = TRUE, !.reason = "sold", !.soldBy = a]

\* The account the sale emptied is gone, and its funding row retires with it.
FundingClosed(a) ==
    IF attempts[a].closeAta /\ funding.by # 0 THEN [funding EXCEPT !.closed = TRUE]
    ELSE funding

\* The row itself is settled whatever has become of it since it was read.
ConfirmSell(a) ==
    LET l == attempts[a].lot IN
    /\ Landed(a)
    /\ attempts[a].kind = "SELL"
    /\ IF SellCloses(l)
       THEN /\ lots' = [lots EXCEPT ![l] = SoldLot(@, a)]
            /\ funding' = FundingClosed(a)
            /\ Settle(a, "CONFIRMED")
       ELSE /\ lots[l].soldBy = a
            /\ IF Pending(a) THEN Settle(a, "CONFIRMED") ELSE UNCHANGED attempts
            /\ UNCHANGED <<lots, funding>>
    /\ BumpAt(tx[a].slot)

\* not_this_buy: the row was decided without a lot, or its lot went to another sale.
Refused(a) ==
    /\ Landed(a)
    /\ IF attempts[a].kind = "BUY" THEN ~MayBook(a) /\ ~Booked(a)
       ELSE LET l == attempts[a].lot IN ~SellCloses(l) /\ lots[l].soldBy # a

\* A row the sweep read stamped is left to a human.
Review(a) ==
    attempts' = IF Pending(a) THEN [attempts EXCEPT ![a].review = TRUE] ELSE attempts

SweepDone(a) ==
    IF sweep.rows = {a} THEN NoSweep
    ELSE [sweep EXCEPT !.rows = @ \ {a}, !.bare = @ \ {a}]

\* A refusal changes nothing, unless it was the sweep that asked: it is done with a
\* row it read stamped, and looks on for another transaction of a bare one.
ConfirmBook(p) ==
    LET a == confirming[p] IN
    /\ a # 0
    /\ confirming' = [confirming EXCEPT ![p] = 0]
    /\ \/ /\ ConfirmFailed(a) \/ ConfirmBuy(a) \/ ConfirmSell(a)
          /\ sweep' = IF p = "sweep" THEN SweepDone(a) ELSE sweep
       \/ /\ Refused(a)
          /\ IF p = "sweep" /\ a \notin sweep.bare
             THEN Review(a) /\ sweep' = SweepDone(a)
             ELSE UNCHANGED <<attempts, sweep>>
          /\ UNCHANGED <<lots, funding, clock>>
    /\ UNCHANGED <<chain, submitting, refresh>>

-----------------------------------------------------------------------------
(* The sweep.                                                               *)

\* Mutant: a row whose wire was stamped is left to its client.
DueUnsent(a) == Pending(a) /\ ~attempts[a].stamped

Due(a) == Pending(a)

\* sweepAttempts reads the pending rows that are old enough, oldest first.
SweepRead ==
    /\ MayStart
    /\ ~SweepRuns
    /\ \E cutoff \in Ids :
        LET rows == {a \in Ids : a <= cutoff /\ Due(a)} IN
        /\ rows # {}
        /\ sweep' = [rows |-> rows, bare |-> {a \in rows : ~attempts[a].stamped}, height |-> 0]
    /\ UNCHANGED <<db, clock, chain, submitting, confirming, refresh>>

\* One block-height read for the whole batch, after the rows.
SweepHeight ==
    /\ sweep.rows # {} /\ sweep.height = 0
    /\ sweep' = [sweep EXCEPT !.height = height]
    /\ UNCHANGED <<db, clock, chain, submitting, confirming, refresh>>

SweepAt(a) == a \in sweep.rows /\ sweep.height # 0 /\ confirming["sweep"] = 0
Dead(a) == sweep.height > attempts[a].lastValid

\* A stamped row is confirmed from its own receipt.  A bare row past its height
\* is matched with a transaction the payer is found to have landed.
SweepConfirms(a) ==
    /\ SweepAt(a)
    /\ a \in sweep.bare => Dead(a) /\ Landed(a)
    /\ ConfirmRead("sweep", a)
    /\ UNCHANGED <<db, clock, chain, submitting, refresh, sweep>>

\* expire: only a row that is still pending; the generation moves either way.
Expire(a) ==
    LET now == Pending(a) /\ ~attempts[a].review IN
    /\ attempts' = IF now THEN [attempts EXCEPT ![a].status = "EXPIRED"] ELSE attempts
    /\ funding' = WithoutFunding(a)
    /\ Bump
    /\ lost' = IF now /\ Landed(a) THEN lost \union {a} ELSE lost

\* A bare row past its height is expired if the search matched nothing.  The search
\* may always miss: it takes the payer's last 25 signatures, and an RPC that lags
\* returns none of them, or no transaction, or no receipt when it is confirmed.  By
\* then the row may have been stamped and sent, and may have landed.
SweepExpires(a) ==
    /\ SweepAt(a)
    /\ a \in sweep.bare /\ Dead(a)
    /\ Expire(a)
    /\ sweep' = SweepDone(a)
    /\ UNCHANGED <<lots, height, holdings, tx, ata, moves, submitting, confirming, refresh>>

\* A row is passed over: it is bare within its height, its receipt was missed or is
\* not there yet, it was decided since, or the RPC failed.  A stamped row stays
\* pending, since its bytes can be sent again.
SweepSkips(a) ==
    /\ SweepAt(a)
    /\ sweep' = SweepDone(a)
    /\ UNCHANGED <<db, clock, chain, submitting, confirming, refresh>>

-----------------------------------------------------------------------------
(* The wallet refresh.                                                      *)

\* captureWalletSnapshotFence
RefreshFence(r) ==
    /\ MayStart
    /\ refresh[r] = Idle
    /\ refresh' = [refresh EXCEPT ![r] = RequiredSlot]
    /\ fenced' = fenced \union {r}
    /\ UNCHANGED <<db, receiptSlot, acceptedSlot, chain, submitting, confirming, sweep>>

\* The RPC answers from any slot that is not older than the one asked for.
Answers(r) == {s \in Slots : s >= refresh[r]}

\* inFlight: any attempt of the payer that is pending and waits for no human.  One
\* that does keeps the refresh from the lots of its stock, and from nothing else.
InFlight == \E a \in Ids : Pending(a) /\ ~attempts[a].review
UnderReview == \E a \in Ids : Pending(a) /\ attempts[a].review

\* Mutant: a trade in flight does not hold the snapshot back.
AcceptableByFence(r, s) == r \in fenced /\ s >= RequiredSlot

\* A snapshot may be applied if nothing moved since the fence, it is no older than
\* what is known by now, and nothing is in flight.
Acceptable(r, s) ==
    /\ r \in fenced
    /\ s >= RequiredSlot
    /\ ~InFlight

\* Adopted lots go first, then the newest; whole lots until the books fit.
Before(k, l) ==
    \/ lots[k].source = "WALLET" /\ lots[l].source # "WALLET"
    \/ lots[k].source = lots[l].source /\ k > l

WalletLot(qty) == [source |-> "WALLET", by |-> 0, qty |-> qty, closed |-> FALSE,
                   reason |-> "none", soldBy |-> 0]

GoneLot(lot) == [lot EXCEPT !.closed = TRUE, !.reason = "wallet"]

OpenLots == {l \in DOMAIN lots : ~lots[l].closed}
QtyOf(L) == SumFunction([l \in L |-> lots[l].qty])
\* Mutant: the books may stand one token above the wallet.
ClosedByMargin(balance) ==
    {l \in OpenLots : QtyOf({k \in OpenLots : k = l \/ Before(l, k)}) > balance + 1}

ClosedBy(balance) ==
    {l \in OpenLots : QtyOf({k \in OpenLots : k = l \/ Before(l, k)}) > balance}

\* The tokens the books do not explain become a lot of their own, unless the stock
\* has no fresh price to enter it at.
RefreshAccepts(r) ==
    /\ refresh[r] # Idle
    /\ \E s \in Answers(r) :
        LET gone == ClosedBy(holdings[s])
            kept == [l \in DOMAIN lots |-> IF l \in gone THEN GoneLot(lots[l]) ELSE lots[l]]
        IN
        /\ Acceptable(r, s)
        /\ \/ lots' = IF UnderReview THEN lots ELSE kept
           \/ \E excess \in 1..holdings[s] :
                /\ ~UnderReview
                /\ QtyOf(OpenLots \ gone) + excess = holdings[s]
                /\ lots' = Append(kept, WalletLot(excess))
        /\ acceptedSlot' = s
    /\ fenced' = {}
    /\ refresh' = [refresh EXCEPT ![r] = Idle]
    /\ UNCHANGED <<attempts, funding, receiptSlot, chain, submitting, confirming, sweep>>

\* Rejected: the next try captures a new fence.
RefreshRejected(r) ==
    /\ refresh[r] # Idle
    /\ \E s \in Answers(r) : ~Acceptable(r, s)
    /\ refresh' = [refresh EXCEPT ![r] = Idle]
    /\ fenced' = fenced \ {r}
    /\ UNCHANGED <<db, receiptSlot, acceptedSlot, chain, submitting, confirming, sweep>>

\* The poller restarts, or the client goes away: what it had read is lost.
PollerRestarts ==
    /\ SweepRuns
    /\ sweep' = NoSweep
    /\ confirming' = [confirming EXCEPT !["sweep"] = 0]
    /\ UNCHANGED <<db, clock, chain, submitting, refresh>>

ClientLeaves ==
    /\ confirming["client"] # 0
    /\ confirming' = [confirming EXCEPT !["client"] = 0]
    /\ UNCHANGED <<db, clock, chain, submitting, refresh, sweep>>

-----------------------------------------------------------------------------
(* The chain and the wallet: outside src/.                                  *)

Tick ==
    /\ height < MaxHeight
    /\ height' = height + 1
    /\ UNCHANGED <<db, clock, holdings, tx, ata, moves, lost, locals>>

\* A self-paid buy is signed and sent by the wallet itself.
WalletSends(a) ==
    /\ attempts[a].kind = "BUY" /\ ~attempts[a].sponsored
    /\ attempts[a].status # "none"
    /\ tx[a].state = "none"
    /\ tx' = [tx EXCEPT ![a].state = "sent"]
    /\ UNCHANGED <<db, clock, height, holdings, ata, moves, lost, locals>>

\* A transaction lands within its height, succeeds only if the balance allows
\* it, and may fail.
Fits(a) ==
    IF attempts[a].kind = "BUY" THEN TRUE
    ELSE LET qty == lots[attempts[a].lot].qty IN
         /\ holdings[Now] >= qty
         /\ attempts[a].closeAta => holdings[Now] = qty

Executes(a) ==
    /\ tx[a].state = "sent"
    /\ height <= attempts[a].lastValid
    /\ \/ /\ Fits(a)
          /\ tx' = [tx EXCEPT ![a] = [state |-> "landed", slot |-> Now + 1]]
          /\ IF attempts[a].kind = "BUY"
             THEN /\ holdings' = Append(holdings, holdings[Now] + 1)
                  /\ ata' = IF ata # "none" THEN ata
                            ELSE IF attempts[a].sponsored THEN "sponsor" ELSE "wallet"
             ELSE /\ holdings' = Append(holdings, holdings[Now] - lots[attempts[a].lot].qty)
                  /\ ata' = IF attempts[a].closeAta THEN "none" ELSE ata
       \/ /\ tx' = [tx EXCEPT ![a] = [state |-> "failed", slot |-> Now]]
          /\ UNCHANGED <<holdings, ata>>
    /\ UNCHANGED <<db, clock, height, moves, lost, locals>>

\* The user's own transfers in and out of the wallet.
Moves ==
    /\ moves < MaxMoves
    /\ moves' = moves + 1
    /\ \/ /\ holdings' = Append(holdings, holdings[Now] + 1)
          /\ ata' = IF ata = "none" THEN "wallet" ELSE ata
       \/ /\ holdings[Now] > 0
          /\ holdings' = Append(holdings, holdings[Now] - 1)
          /\ UNCHANGED ata
    /\ UNCHANGED <<db, clock, height, tx, lost, locals>>

-----------------------------------------------------------------------------
\* The wallet is linked: it is empty, or what it held has been adopted.
Init ==
    /\ holdings = <<Held>>
    /\ lots = IF Held = 0 THEN <<>> ELSE <<WalletLot(Held)>>
    /\ ata = IF Held = 0 THEN "none" ELSE "wallet"
    /\ acceptedSlot = 1
    /\ attempts = [a \in Ids |-> [kind |-> "BUY", lot |-> 0, sponsored |-> FALSE,
                                  closeAta |-> FALSE, status |-> "none",
                                  stamped |-> FALSE, review |-> FALSE, lastValid |-> 0]]
    /\ funding = NoFunding
    /\ receiptSlot = 0
    /\ fenced = {}
    /\ height = 1
    /\ tx = [a \in Ids |-> [state |-> "none", slot |-> 0]]
    /\ moves = 0
    /\ lost = {}
    /\ submitting = {}
    /\ confirming = [p \in Confirmers |-> 0]
    /\ refresh = [r \in Refreshers |-> Idle]
    /\ sweep = NoSweep

Build == ReserveBuy \/ (\E s \in BuyKinds : BuildBuy(s)) \/ (\E l \in DOMAIN lots : BuildSell(l))

Submit(a) ==
    SubmitCheck(a) \/ SubmitStamp(a) \/ SubmitRefused(a) \/ MarkSent(a)

Sweep ==
    \/ SweepRead \/ SweepHeight
    \/ \E a \in Ids : SweepConfirms(a) \/ SweepExpires(a) \/ SweepSkips(a)

Refresh(r) == RefreshFence(r) \/ RefreshAccepts(r) \/ RefreshRejected(r)

Chain == Tick \/ Moves \/ \E a \in Ids : WalletSends(a) \/ Executes(a)

Next ==
    \/ Build
    \/ \E a \in Ids : Submit(a) \/ ClientConfirms(a)
    \/ \E p \in Confirmers : ConfirmBook(p)
    \/ Sweep \/ PollerRestarts \/ ClientLeaves
    \/ \E r \in Refreshers : Refresh(r)
    \/ Chain

Spec == Init /\ [][Next]_vars

-----------------------------------------------------------------------------
Lot == [source : {"DECK", "WALLET"}, by : 0..MaxAttempts, qty : Nat \ {0},
        closed : BOOLEAN, reason : {"none", "sold", "wallet"}, soldBy : 0..MaxAttempts]

Attempt == [kind : {"BUY", "SELL"}, lot : Nat, sponsored : BOOLEAN, closeAta : BOOLEAN,
            status : {"none", "PENDING", "CONFIRMED", "EXPIRED", "FAILED"},
            stamped : BOOLEAN, review : BOOLEAN, lastValid : Nat]

\* The shape of the rows, and what every row says of itself: a closed lot has a
\* reason, a fence that is current belongs to a refresh that runs.
TypeOK ==
    /\ attempts \in [Ids -> Attempt]
    /\ lots \in Seq(Lot)
    /\ \A l \in DOMAIN lots : lots[l].closed <=> lots[l].reason # "none"
    /\ funding \in [by : 0..MaxAttempts, confirmed : BOOLEAN, closed : BOOLEAN]
    /\ receiptSlot \in 0..Now /\ acceptedSlot \in 1..Now
    /\ fenced \subseteq {r \in Refreshers : refresh[r] # Idle}
    /\ height \in 1..MaxHeight
    /\ holdings \in Seq(Nat)
    /\ tx \in [Ids -> [state : {"none", "sent", "landed", "failed"}, slot : 0..Now]]
    /\ ata \in {"none", "sponsor", "wallet"}
    /\ moves \in 0..MaxMoves
    /\ lost \subseteq Ids
    /\ submitting \subseteq Ids
    /\ confirming \in [Confirmers -> 0..MaxAttempts]
    /\ refresh \in [Refreshers -> Nat \union {Idle}]
    /\ sweep \in [rows : SUBSET Ids, bare : SUBSET Ids, height : 0..height]

\* No token is on the books twice: what is open is at most what the last accepted
\* snapshot held, plus the booked buys that landed after that snapshot.  A sale that
\* waits for a human freezes the books of its stock, which the wallet may leave.
BookedAfter(slot) == {l \in OpenLots : lots[l].by # 0 /\ tx[lots[l].by].slot > slot}
NoTokenTwice ==
    \/ UnderReview
    \/ QtyOf(OpenLots) <= holdings[acceptedSlot] + QtyOf(BookedAfter(acceptedSlot))

\* Of the sales of a lot at most one lands, besides those that were written off after
\* they had landed: any other second sale would sell another lot's tokens.
OneSaleUnlessLost ==
    \A l \in DOMAIN lots : Cardinality({a \in SellsOf(l) : Landed(a)} \ lost) <= 1

\* A sponsored trade never lands once it was written off, and one that landed is written
\* off only by a sweep that had read its row before it was stamped: no build, no refresh
\* and no later sweep gives it up, whoever stamps and sends it in between.
GivenUp(a) == attempts[a].sponsored /\ Landed(a) /\ attempts[a].status = "EXPIRED"
OnlyAStaleReadLoses ==
    [][\A a \in Ids :
        ~GivenUp(a) /\ GivenUp(a)' => Landed(a) /\ attempts[a].stamped /\ a \in sweep.bare]_vars

\* A wallet refresh never closes a lot whose buy its snapshot could not show.
FreshLotsKept ==
    [][\A l \in DOMAIN lots :
        IsOpen(l) /\ lots'[l].reason = "wallet" /\ lots[l].by # 0
            => tx[lots[l].by].slot <= acceptedSlot']_vars

\* The contract's view of a row and of its transaction.
Stage == [none |-> "none", PENDING |-> "open", CONFIRMED |-> "booked",
          EXPIRED |-> "void", FAILED |-> "void"]

Fate == [none |-> "out", sent |-> "out", landed |-> "landed", failed |-> "failed"]

Trade(a) ==
    [kind |-> attempts[a].kind, lot |-> attempts[a].lot, sponsored |-> attempts[a].sponsored,
     stage |-> Stage[attempts[a].status], fate |-> Fate[tx[a].state]]

Contract == INSTANCE TradeContract WITH
    Trades <- Ids, trade <- [a \in Ids |-> Trade(a)], looked <- sweep.bare

\* Builds, submits, confirms, sweeps and wallet refreshes together keep TradeContract: a landed
\* trade is booked once, whoever settles it, a sponsored one is given up after it landed only
\* by a look that began before it was sent, and a refresh corrects no lot while a trade is open.
KeepsTradeContract == Contract!Spec

-----------------------------------------------------------------------------
(***************************************************************************)
(* Fairness.  The poller sweeps every minute and a restart only delays it, *)
(* so what it can do again and again it does in the end: an RPC that fails *)
(* or misses a receipt does not do so for ever.  Stale wallets are         *)
(* refreshed in turn, by an RPC that catches up and at a price that is     *)
(* fresh again.  Requests end, and time passes.  Nothing is assumed of the *)
(* client.                                                                 *)
(***************************************************************************)
SweepsAll == SweepRead /\ \A a \in Ids : Pending(a) => a \in sweep'.rows
CatchesUp(r) ==
    RefreshAccepts(r) /\ acceptedSlot' = Now /\ QtyOf(OpenLots)' = holdings[Now]

FairSpec ==
    /\ Spec
    /\ WF_vars(Tick)
    /\ SF_vars(SweepsAll) /\ SF_vars(SweepHeight) /\ SF_vars(ConfirmBook("sweep"))
    /\ \A a \in Ids :
        /\ SF_vars(SweepConfirms(a))
        /\ SF_vars(SweepConfirms(a) \/ SweepExpires(a))
        /\ SF_vars(SweepConfirms(a) \/ SweepExpires(a) \/ SweepSkips(a))
    /\ \A r \in Refreshers :
        SF_vars(RefreshFence(r)) /\ SF_vars(RefreshRejected(r)) /\ SF_vars(CatchesUp(r))

\* A sponsored trade that landed is settled, though its client never asked, unless a
\* stale read has written it off, or another sale of the same lot.
WrittenOff(a) == (lost \cap ({a} \union SellsOf(attempts[a].lot))) # {}
LandedSettled ==
    \A a \in Ids :
        attempts[a].sponsored /\ Landed(a) ~> attempts[a].status = "CONFIRMED" \/ WrittenOff(a)

\* The books meet the wallet again and again, whatever was missed or written off,
\* unless an attempt stays pending for ever.
BooksMeetWallet ==
    \/ <>[](\E a \in Ids : Pending(a))
    \/ []<>(QtyOf(OpenLots) = holdings[Now])

=============================================================================
