# Hedge-Fun: a TLA+ verification project

Hedge-Fun is a swipe game on prediction markets. Paper swipes use play money. Real swipes place
fill-and-kill orders on Polymarket through the user's deposit wallet, and tokenized stocks are bought
and sold on Solana. The program is a Next.js server (`src/src`), a poller (`src/scripts/poller.ts`),
a web client and a mobile app, over one Postgres database. The exchange, the chains and the phones
are outside its control, so the code that matters is the code that keeps the database true to what
happened outside while requests, sweeps and phones come and go.

The modules here model that code, TLC checks them on small instances, and TLAPS proves the central
results for every size of the system.

## 1. Inventory

| Component | State it keeps | Operations | Talks to | Hard behaviour | What makes it correct |
|---|---|---|---|---|---|
| Real-money orders (`app/api/real/*`, `lib/orders.ts`, `lib/reconcile.ts`, `lib/order-probe.ts`) | `order_attempts`, `fills` | intent, submit, posted; orphan discovery, reported-id fast pass, reconciliation of stuck rows | exchange, phone, daily counter, position | answer lost after the post; phone dies; index lags; several passes on one row; stop between two writes | money that left is booked once and in full; a closed attempt cost nothing; one order binds to one attempt |
| Position and settlement (`lib/orders.ts`, `lib/real-settle.ts`) | REAL row of `bets`: side, filled, closed, lot, settled | entry and exit booking, reopening, dust write-off, settlement | attempts, outcome tokens, redeemer | late trades, stale rows, dust, resolution during a sale | shares shown exist; paid shares were redeemed; a lot has one side |
| Daily counter (`lib/swipe.ts`, `lib/orders.ts`) | `daily_counters.swipeCount` | paper swipe, claim, release | orders, paper game | midnight, concurrent claims, release on every failing path | the counter equals the slots in use, never past the cap |
| Sweep cursors (`lib/sweep-cursor.ts`, `lib/reconcile.ts`) | `(createdAt, id)` cursor, high-water mark | next batch, wrap | sweeps | rows that never resolve, steady arrivals | every eligible row is visited |
| Poller and lease (`scripts/poller.ts`, `lib/poller-lease.ts`) | `poller_lease` row | acquire, renew, release | all sweeps | a tick that outlives the lease | two ticks at once do no harm |
| Tokenized stocks (`lib/stocks-real.ts`, `lib/sponsor.ts`) | `stock_buy_attempts`, lots, sponsor-funded accounts | reserve, build, sign, stamp, confirm, sweep | Solana RPC, wallet | a signed transaction that lands after a timeout; sweep against confirm | a landed transaction becomes one lot; an expired attempt cannot land (a stale look can expire one that has, finding 13) |
| Wallet snapshots (`lib/wallet-sync.ts`) | generation, slots per wallet | capture fence, accept snapshot, bump | stocks | snapshot read before a trade and applied after it | no lot is closed or adopted from an old view |
| Paper game (`lib/swipe.ts`, `skip.ts`, `streak.ts`, `shards.ts`, `points.ts`, `scripts/settle.ts`) | bets, cash, streak, shards, points | swipe, skip, settle, burn and recover | counter, referrals | double settlement, day boundaries | cash is conserved, a point is earned once |
| Referrals | referral rows, rewards | capture, qualify, accrue | points | repeated accrual | a reward is paid once |
| Wallet workflows, funding, withdrawal (`lib/workflow.ts`, `lib/wallet-ops.ts`, `lib/funding.ts`, `lib/bridge*.ts`) | workflow rows, funding rows | start, answer, converge, watch | relayer, chain, phone | answers lost, a run abandoned half way | one live run per kind; a withdrawal happens once |
| Quotes, fees, depth | none | pure functions | exchange book | rounding | limits hold |
| Deck and market data | caches | fetch, rank | upstream APIs | outages | none of money |
| Authentication | sessions of a provider | verify | Privy | none here | none here |
| Mobile app, web UI | local state | post, report, render | API | dies at any moment | its part in an order is modelled |
| Operations | none | deploy, backup, watch | hosts | none here | none here |

`PROJECT.json` lists the same components with the files they are made of, and every hazard with the
line where it bites.

## 2. Plan

Done in this order, the most important behaviour first:

1. `OrderAttempts`: the lifecycle of an order attempt, all actors. Checked and proved.
2. `OrderContract`: what that protocol promises about the ledger; `OrderAttempts` implements it. Proved.
3. `PositionLedger`: booking into the position, lots, dust, settlement. `PositionMoney` adds what each
   step does to the money of the row. Checked, and its safety proved.
4. `StockTrades`: tokenized stocks, from the build to the confirmed lot, with the wallet snapshots
   that correct the books. The two were planned as modules of their own. They write the same lots
   under the same lock, and the fence means nothing without the trades it fences, so they are one.
   Checked, and its safety proved.
5. `SweepWalk`: the two progressing cursors of order reconciliation. Checked, and its safety proved.
6. `WithdrawalRuns`: the signing workflow where it moves money out. Checked, and its safety proved.
7. `StreakDays`, and `PaperGame` on top of it: the paper half of the game. Checked, and its safety
   proved.

8. `LotContract`: what the ledger promises about the position on one market; `PositionLedger` implements
   it. Checked and proved.
9. `TradeContract`: what the server promises about the trades of a stock and their lots; `StockTrades`
   implements it. Checked and proved.

Every safety property that a passing run checks is proved for all sizes. Left for later, in this order:
the poller's lease; two accounts on one Solana wallet; deposits (`funding.ts`).

## 3. Modules

### OrderAttempts

One user's attempts. Each column of `order_attempts` on which the code branches is a function on
attempts: `state`, `intent` (market, direction, creation day), `hash` (`signedOrderHash`), `ext`
(`externalOrderId`), `note` (the class of the `error` text: null, the reported-id marker, other),
`booked` (the sum of the `fills` rows), `final` (`reconciledAt`). `aged` stands for the age filter of
the orphan sweep.

| Actor | Variables | Actions | Code |
|---|---|---|---|
| intent route, expiry | `state`, `intent` | `Intent`, `ExpireIntent` | `intent/route.ts`, `expireStaleIntents` |
| submit route | `request` | `SubmitClaim` ... `SubmitDies`, `SubmitBook`, `SubmitKill` | `submit/route.ts` |
| phone | `browser` | `BrowserPost`, `BrowserLearns`, `BrowserQuits`, `Report` | `real-client.ts`, `posted/route.ts` |
| exchange (external) | `phase`, `matched`, `indexed`, `readable` | `Accept`, `Drop`, `Match`, `Index` | as the probes use it |
| passes | `pass` | `Report`, `FastPass`, `OrphanLook`, `OrphanKill`, `Adopt`, `ReconcilePick`, `Probe`, `Book`, `TrueUp`, `PassDies` | `posted/route.ts`, `reconcile.ts`, `order-probe.ts` |
| counter | `today`, `swipes`, `paper` | `PaperSwipe`, `Midnight` | `swipe.ts` |

An action is one database transaction or one read of the exchange. A request or a pass that does
several of them has a program counter, keeps what it read, and may stop anywhere. `SIGNED` is not a
state of the model: no code writes it. Refusals that change nothing (a bad body, a wrong user, a
stale quote) are left out. So is a report
whose own order record does not match the row: it replaces the marker with an error text
(`reconcile.ts:361`, `posted/route.ts:158`) and leaves the row to the orphan sweep. The position guard of
the intent route is left to `PositionLedger`, so that here an intent is admitted more often than in the code.

The routes of the two loci (`REAL_ORDER_LOCUS`) are both in the model; the constant `Loci` says which
may be in use, and with both an attempt takes either.

### OrderContract

The promise, in three actions. The exchange charges an open attempt at most once (`Charge`), the
ledger credits what was charged, perhaps in steps, never more (`Credit`), and an attempt is closed
empty only if it was never charged (`Void`). `OrderAttempts` maps its state to it: `charged` is what
the exchange matched, `credited` is `booked`, `status` is the class of `state`.

### OrderInvariant

The inductive invariant of `OrderAttempts` (section 6), in a module of its own so that TLC checks it.

### PositionLedger

One user on one market. Attempts are born in flight (how they get there is `OrderAttempts`) and the
booking is complete: what `bookEntryFills` and `bookExitFills` do with the position under its lock
(stale lot, late fill, reopening, adding, clamping, dust), the attempt row a pass read before it
asked the exchange, the tokens of both sides, resolution, redemption and the three steps of
`settleResolvedRealPositions`. Sizes are counted in units of which `Tick` make the smallest sellable
amount, so that dust exists when `Tick` is 2. Orphan discovery, the submit request's own receipt and
the zero-fill kill of an unposted row are not repeated here. The submit request books a receipt
before any pass, which is a pass that reads and books early.

A no_position ending cannot be reached here, since an exit is admitted only on a row that exists and
rows are never deleted.

### LotContract

The promise about a position, in five actions on the market, the lot and what has been paid. The market
closes once (`Close`). A lot opens (`Open`) if there is none, or if less than a tick is left of the last one
and the market trades. It grows while a tick or more of it is held (`Grow`), and a sale leaves nothing of it
or a tick at least (`Sell`). After the close the settlement closes what is left, in one step, and pays all
of it if it is a tick or more and its side has won or the market was canceled (`Settle`). `PositionLedger`
maps `lot` to the bets row `bet`. Its settlement reads, plans and closes in three steps with bookings in
between, and its bookings work from rows read earlier, so that it keeps this promise is not plain.

### PositionMoney

The money of the same position. Shares and money are written in one transaction, so each action
conjoins the one of `PositionLedger` with its effect on `fills` (amount and fee of an attempt's rows)
and `books` (spend, fee, proceeds, close fee and realized profit of the bets row).

| Code | Operators and actions |
|---|---|
| `classifyPostResponse`, `reconcileAttempt` | `ReadAs`, `ProbeFee`: the submit request's receipt has an estimated fee, a reconciliation the charged one |
| `receiptDelta` | `AmountDelta`, `FeeDelta` |
| `bookEntryFills`, `bookExitFills`, `costBasisMicro` | `EntryMoney`, `ExitMoney`, `CostBasis`, `BookMoney` |
| `trueUpAttemptFee` | `CurrentRead`, `Applied`, `Repriced`, `TrueUpMoney` |
| `consumeResolvedPosition` | `Payout`, `ConsumeMoney` |

`Cash` is what the wallet spent and got outside, which no code computes. `PnlIsCash` compares it with the
realized profit, once every order is reconciled and the position is closed. It speaks of a row in its
first lot that took every fill of its entries: a true-up for a lot that was closed and reopened corrects
the `fills` rows and leaves the row's history as it was, and a fill kept aside never reaches the row. And
it leaves out the rows that grew, at an estimated fee, after a part of them was sold (the auxiliary variable
`diluted`, finding 11). An order trades at one price here. The stamped verdict (`result`, `pnlCents`) and the shard of a win
follow from the realized profit and are left out.

### StockTrades

One user, one wallet, one stock. One lot is one token, except an adopted lot, which is whatever the
wallet holds above the books.

| Code | State | Actions |
|---|---|---|
| `buildAttempt`, `reservePendingBuy`, `buildSellAttempt` | `attempts`, `funding` | `ReserveBuy`, `BuildBuy`, `BuildSell` |
| `submitSigned`, `stampSignedWire`, `markSent` | `attempts[a].stamped`, `submitting` | `SubmitCheck`, `SubmitStamp`, `SubmitRefused`, `MarkSent` |
| `confirmAttempt`, `confirmSell` | `lots`, `confirming` | `ClientConfirms`, `ConfirmBook` (`ConfirmBuy`, `ConfirmSell`, `ConfirmFailed`) |
| `sweepAttempts` | `sweep` | `SweepRead`, `SweepHeight`, `SweepConfirms`, `SweepExpires`, `SweepSkips`, `PollerRestarts` |
| `refreshWalletHoldings`, `wallet-sync.ts` | `receiptSlot`, `acceptedSlot`, `fenced`, `refresh` | `RefreshFence`, `RefreshAccepts`, `RefreshRejected` |
| Solana, the wallet (external) | `height`, `holdings`, `tx`, `ata` | `Tick`, `WalletSends`, `Executes`, `Moves` |

What runs in one transaction under the payer's advisory lock is one action. A handler that awaits
between its read and its write keeps what it read (`submitting`, `confirming`, `sweep`, `refresh`).
The generation counter is compared for equality only, so the model keeps the set `fenced` of the
refreshes that hold its present value, which needs no bound. A slot is an index into `holdings`, the
history of the wallet's balance, so an answer of the RPC may be old. An attempt has one signature, and a
send follows its stamp at once unless the server stops in between.

A receipt may be missed by anyone who looks, the sweep included. It reads its rows first, the block height
after them, and then takes the rows one by one. A row that it read stamped is confirmed, or passed over when
the receipt is missed (`SweepSkips`). A row that it read unsigned (`sweep.bare`) and that is past its height
is confirmed if the search of the payer's signatures finds its transaction, and expired if it does not
(`SweepExpires`). The search may miss a transaction that landed, and then `Expire` writes it off, as
`sweepAttempts` does: 25 signatures, a `getTransaction` of null, a receipt that is not there when it is
confirmed. `expire` looks at the status of the row and not at its signature, so it also expires a row that was
stamped and sent after the sweep had read it. `lost` is a history variable: the attempts that were written
off though they had landed. No action reads it.

A late confirm can meet a row that was decided without a lot, or a lot that another sale has ended
(`Refused`). The client gets an error. The sweep leaves a row that it read stamped to a human (`Review`),
and goes on searching for one that it read unsigned. A sale under review keeps its lot from a new sale
(`BuildSell`) and its stock from the wallet refresh (`UnderReview`), but does not hold the other refreshes
back (`InFlight`). What the human decides is not modelled.

### TradeContract

The promise about the trades of one stock, in six actions on the trades and the lots. A trade starts in the
place of the open one of the same order (`Start`: one purchase, or one sale of a lot). A block takes it
(`Execute`). An open trade that landed is booked, a purchase as a new lot (`BookBuy`) and a sale as the
end of its lot, which must not have been sold before (`BookSale`). An open trade may be given up (`Void`);
a sponsored one only if it has not landed, and it never lands afterwards. The exception is what the code
does: a look for dead trades takes some up while they are out (`Looks`), and may give them up later,
whatever has become of them. A sale lost so may still end its lot. While no trade is open the lots may
follow the wallet (`Sync`): open ones end and new ones are adopted. `StockTrades` maps `trade` to the row's
kind, lot and payer, to its status (`Stage`) and to the state of its transaction (`Fate`), and `looked` to
`sweep.bare`; stamps, sends, other reads and rejected snapshots are stutters.

### SweepWalk

The two walks that `reconcile.ts` keeps in `sweep_cursors`: orphan discovery (with a high-water mark,
wrapping after a short batch) and reconciliation (no mark, wrapping on an empty batch, a rest of
`minAgeMs` after it). The order of the rows is kept as `upto[r]`, the set of the rows created up to `r`, and a
point in time is the set of the present rows created up to it: a row that is
resolved leaves every such set, and its name may return as a new row at the end, so that an endless
stream of rows has finitely many states. A batch is the set of the `Limit` oldest rows that match. Calls overlap, because the poller stops waiting after twenty
seconds while the route goes on, and because two ticks can overlap. Any read or write of a cursor may
fail and any call may die, `MaxFaults` times.

### WithdrawalRuns

The engine of `workflow.ts` under the routes that withdraw. `row` is the one `wallet_workflows` row,
`live` the map of parked generators in the server's memory, `ledger` the status in `relayer_txs`, `tx`
what the relayer made of a run's transfer and `sent` how often it was handed over. A request (`call`)
carries the stage it will take next and what it read; each stage is one transaction or one outside
call. `WithdrawRead` to `MintFails` are `withdraw/route.ts`; `DriveRead`, `AnswerRoute` and `Answer`
are `workflow/route.ts` and `answerWorkflow`; `StartRead`, `Fresh`, `Fence`, `Prepare`, `Park`,
`Submit`, `Throws` and `Record` are `startWorkflow`, `freshRun`, `run` and `park`; `AskVerdict`,
`MarkDone`, `Confirm` and `Release` are `tryConverge` and the release of an overdue run; `CardPolls` is
GET `/api/real/withdraw`; `Resolve` is the operator's script. Amounts are left out, and a retry with
the same inputs as a run that is DONE is any retry. A verdict reads the handle and asks the relayer in
one step. A request to drive a run carries the inputs its route read; when `startWorkflow` finds the row
DONE and the inputs differ, it starts a fresh run with the old ones (`workflow.ts:276-278`), which is in
`StartRead`. Legacy rows without a run id and the operators' alert are left out. The operator is assumed
not to declare a run dead while an advance of it is under way.

### StreakDays and PaperGame

`StreakDays` is `streak.ts`. The burn sweep (poller, `/api/me`) and the GM tap are Read Committed
transactions that read the row and then update it without a condition, so each is a `Read` and a
`Write` step, and two may be open at once; the tap upserts first with an empty update, which reads
without locking. The recovery is Serializable and is one step. Instants are whole days, and a
transaction does not span midnight. `doubled` counts how often a day's swipe points entered a bonus.

`PaperGame` extends it with one player's money: `RouteChecks` and `RecordSwipe` are the two halves of
POST `/api/swipe` and `/api/feed/bet` with the network re-quote between them, `AcceptHedge` is
`acceptSuggestion`, `BuyLot` and `SellLot` are the paper stocks, `Settle` is `settleMarket`,
`AwardShard` is in it, and `TopUpFree`, `TopUpArtifact` and `UnlockSkin` spend. Each of these
transactions either is Serializable or checks and writes the balance row in one conditional update, so
each is one step. Money is counted in stakes. Artifacts are shared with the streak's recovery, which is
why the two modules share one specification. The skip counter, login points, referrals, developer
accounts and the share of real bets in the caps are left out.

## 4. Runs

| Run | Expect | Properties | Instance |
|---|---|---|---|
| OrderPasses | pass | SlotAccounting, NoMoneyLost, NeverOverbooked, FinalIsComplete, ReportedNeverKilled, LabelMatchesLedger, DecisionsStand, KeepsContract | 1 attempt, 2 orders (one foreign), 3 passes, 2 days, both loci |
| OrderCap | pass | IInv (with TypeOK in it), DailyCap, OneBinding | 2 attempts, 2 orders, 2 markets, 1 pass, cap 1 |
| OrderLive | pass | MoneyBooked, OrphanResolved | 1 attempt, 1 pass, fair |
| Position | pass | PaidWereBurned, OneSidePerLot | 3 attempts, 2 sides, dust, size 3, index at once |
| PositionLag | pass | KeepsLotContract, LotKeepsItsOwn | 3 attempts, 1 side, dust, lagging index |
| PositionRace | pass | TypeOK, NoPhantomShares, PnlIsCash | `PositionMoney`: 2 attempts, 2 passes or receipts, size 3 without dust, lagging index, estimates that are too high |
| StockTrades | pass | NoTokenTwice, OneSaleUnlessLost, OnlyAStaleReadLoses, FreshLotsKept | 2 attempts, sponsored or self-paid, 1 adopted token, 1 outside transfer, 2 blocks, any 2 handlers at once |
| StockLive | pass | KeepsTradeContract, LandedSettled, BooksMeetWallet | 1 attempt, sponsored or self-paid, 1 adopted token, 1 outside transfer, all handlers at once, fair |
| Sweeps | pass | NothingPassedOver, OrphansAsked, PostedAskedWhenQuiet | 2 rows that come and go, batches of 1, 2 calls, 1 fault, fair |
| Withdraw | pass | TypeOK, DoneMeansLanded, OneSubmissionPerRun, ReplacedOnlySettled, LandedReported | 2 requests, 2 runs, 2 forwarders, 1 fault, fair |
| Paper | pass | TypeOK, CashBooks, ArtifactBooks, BurnBeforeRestart, OnlyALateSwipeStrands | 2 markets, 1 lot, 1 skin, 5 days (2 with play), 2 streak transactions |
| X2Window | violation | DoubledOnce | 1 market, 4 days, windows of 2 |

What the properties say:

- **Positions.** The row shows no share that does not exist, pays none that was not redeemed, goes through
  the life of a lot and no other (`KeepsLotContract`: a settled lot stays settled, a late fill never reopens a
  lot once the market is closed), and in the end its profit is the cash that moved, whatever order estimates,
  partial reads, sales, corrections and the settlement came in (`PnlIsCash`).
- **Stocks.** Whatever requests, sweeps and snapshots meet, a trade goes from the build to one booking or to
  none, and a lot from its purchase to one end (`KeepsTradeContract`). No token is on the books twice
  (`NoTokenTwice`), unless a sale waits for a human; a sponsored transaction never lands on a row that was
  written off, and one that landed is written off by nothing but a sweep that had read its row unsigned
  (`OnlyAStaleReadLoses`); no lot is sold by two transactions that land, but beside a sale that was written
  off so (`OneSaleUnlessLost`); a snapshot closes no lot whose buy it could not show (`FreshLotsKept`); a
  landed trade is settled without its client, unless it or another sale of its lot was written off so
  (`LandedSettled`); and the books come back to the wallet's balance whatever was missed or written off
  (`BooksMeetWallet`), unless an attempt stays pending for ever. The stronger forms, that a landed
  trade is never written off and that a lot is sold once, do not hold: finding 13.
- **Sweeps.** A batch leaves no row behind the cursor it will write (`NothingPassedOver`). A row is asked about again and again, under any stream of new rows (`OrphansAsked`) or
  once it dries up (`PostedAskedWhenQuiet`).
- **Withdrawals.** One submission per run; a run is replaced only when its transfer is settled; the
  card's "Sent" is true; a landed transfer is reported by the open card alone.
- **Paper.** The balance row equals its history to the cent, artifacts equal the counted grants, a
  missed day burns before anything else, and nothing but a late swipe leaves a bet without settlement.

**Bounds.** An order matches 0, 1 or 2 shares of 2, so that nothing, a part and everything happen, and
the index shows 0, 1 or 2 of them, so that a verdict can be older than a booking. Three passes are
enough for a sweep, the fast pass and the posted route on one row; the rows interact only through the
counter, the unique indexes and the one-in-flight rule, for which two attempts are enough. Two days
make midnight between creation, claim and release. Three attempts on a position make entry, exit and
re-entry; in money two make a purchase and its sale, three shares leave a part of it unsold, and a fee
that does not divide evenly makes the roundings happen (with dust, size 4 and one pass the properties of
that run hold as well). Two stock attempts make a buy and a sale, two sales of one lot, or two buys, and with
`Validity` 0 each block height may be the last valid one. `MaxBusy` 2 lets every pair of handlers
interleave (the liveness run needs no bound). `StockLive` has one trade, so what a second one adds to
`KeepsTradeContract`, a build in the place of an open one, is in the theorem `ImplementsTrades`; the constants
of `StockTrades` pass as well, in a longer run. Two rows and batches of one make a batch full, short and
empty; a second call and a fault make a cursor go back. Two runs and two requests are a run and its
replacement, each driven from a device. In `Paper`, windows of two days, a set of two shards and caps of
one reach each limit, and play ends after the second day so that the streak can burn, recover and be
lost in the days that remain. `CHECK_DEADLOCK FALSE` is set everywhere: with no attempt left, no day to
come and no bound unused the system really stops.

**What the passing runs on positions assume.** `Position` checks one side per lot and paid shares with
an index that is complete as soon as the order matched; `PositionLag` checks lots with one pass at a
time. Section 5 says what is lost without those assumptions.

## 5. Findings

**The x2 bonus pays a window twice** (`X2Window`). `awardX2Window` sums the latest seven days that have
SWIPE rows. A streak is kept by the GM tap, with or without a swipe, so a player who swiped in the first
window and only tapped in the second is paid the first window's points again at level 14. The
specification (`docs/hedge-fun-july-mvp-spec.md:126`, `:130`) and the comment above the function mean
the points of the window that has just completed, once.

The following were met while modelling. They have no run of their own; each is seen by changing the
constants or the property of a passing run as stated.

1. **A reported order can wedge its market.** The phone reports the id of an order that matched nothing
   and whose record the exchange no longer returns. The marker keeps the orphan sweep away for good and
   the row stays SUBMITTING. `orders.ts:290-294` accepts that and pages a human; `real-settle.ts:142-143`
   relies on every attempt reaching a terminal label. (`OrderLive` with: every attempt gets a terminal
   label.)
2. **A stop after the POSTED write loses the row.** `submit/route.ts` writes POSTED with a null id when
   the verdict is terminal, and books in a later statement. A row that is POSTED without an id is
   selected by neither sweep. (`OrderPasses` with: a POSTED row without an id belongs to a request that
   still runs.)
3. **A late trade of a sold position mixes sides.** The first entry is booked in part, the holding is
   sold, an entry on the other side is admitted, the rest of the first entry arrives and reopens the row
   under the old side, and the new entry is added to it. (`Position` with `Lag = {"trading"}`,
   `Tick = 1`, `MaxSize = 2`: OneSidePerLot.)
4. **The lot check uses an old row.** `attempt.lotSeq` comes from the row read before the exchange was
   asked. A pass that read it before the first booking carries null and books into whatever lot is open.
   (`PositionLag` with two workers and `Lag = {"trading"}`: LotKeepsItsOwn.)
5. **A sale can be settled as a redemption.** Settlement waits for attempts up to POSTED. A sale with its
   first trade booked is PARTIAL, the remaining trades are on their way, the token balance is zero, and
   the remainder is paid at one dollar. (`Position` with `Lag = {"trading", "resolved"}`:
   PaidWereBurned.)
6. **A self-paid stock buy can land on a retired row.** The comment at `stocks-real.ts:259` says that an
   unsigned build past its block height cannot land. A self-paid buy is sent by the wallet before any
   stamp, so it can be retired although it has landed; its confirm is refused and the tokens come back
   only as an adopted lot. (`StockTrades` with OnlyAStaleReadLoses for every attempt, sponsored or not.)
7. **A steady stream starves the reconcile walk.** It has no high-water mark and returns to the head only
   on an empty batch, so while new posted rows keep arriving a head row is not asked about again. The
   comments at `reconcile.ts:433-436` and `:475-476` mean it to be. (`Sweeps` with `PostedAsked`.)
8. **A withdrawal that failed may hold the slot.** `withdraw/route.ts:129-130` says that only a run that
   is genuinely still in flight keeps the 409. A run whose advance threw, or whose transaction failed
   before the expiry, keeps it as well, in the first case until an operator resolves it.
9. **A late swipe strands its bet.** The route reads the market as open and re-quotes; settlement commits;
   `recordSwipe` does not read the market again and writes a pending bet on a market outside the poller's
   scan. The stake stays locked. `hedge/accept.ts:132-146` reads the market again for this reason.
   (`Paper` with the invariant `\A m \in Markets : ~Stranded(m)`.)
10. **A burn from an old read.** `evaluateStreak` updates the row by its id alone. A sweep that read the
    burned row before a recovery and writes after it makes a recovered streak LOST or burned again.
    (`Paper` with: a streak qualified today is ACTIVE.)
11. **A position that grows after a sale keeps the old basis of the sale.** `bookExitFills` takes the
    basis of a sale from the average of the row at that time (`costBasisMicro`, `quote.ts:327-335`,
    `orders.ts:935`). Trades of the entry that the index shows later, at another fee or price per share,
    move the average, and the last sale is charged the new average for its part alone. If those trades were
    booked at an estimate, the correction is charged to the closed fraction of the row (`orders.ts:1087-1091`),
    which never bore it. The profit of the closed position is then not the cash that moved. (`PositionRace`
    with `PnlIsCash` without `~diluted`: 25 micro-dollars of 3 shares.)
12. **Two lock orders.** `recordSwipe` locks the counter before the balance, settlement the balance before
    the counter (`swipe.ts:83`, `settle.ts:154`, `shards.ts:65`). Postgres breaks the cycle by aborting
    one of them, which is an error for that request and a retry for the poller.
13. **A sweep can write off a sponsored trade that landed, and its lot can be sold again.** The sweep reads a
    row that has no signature. The row is then stamped, sent and landed, and the chain passes its last valid
    height. The sweep reads the height, and its search misses the transaction: it is not among the 25
    signatures (`stocks-real.ts:1201`), `getTransaction` answers null (`:1207-1208`), or the receipt is not
    there when it is confirmed and the signature in the sweep's old copy of the row is null (`:1226-1233`).
    `expire` (`:1172-1183`) asks for PENDING and not for a null signature, and the trade is EXPIRED for good:
    a client that confirms the purchase now gets `attempt_expired`. If it was a sale, its lot is open until a
    confirm under way or the wallet refresh closes it, and meanwhile a second sale of it can be built and
    lands if the wallet holds enough of other lots. The comment at `:1228-1231` gives this as the reason
    not to expire a stamped row ("Expiring it would let a SELL build a second transaction for the same
    lot"), and `api-types.ts:639` says that "two sells of one lot are never built". (`StockTrades` with the
    invariant that no sponsored row is both EXPIRED and landed, nine states deep; with the invariant that at
    most one sale of a lot lands, fourteen.)

## 6. Proofs

Each proof module extends the module it is about, and no other module depends on it.
`OrderAttempts_proofs` proves, for any number of attempts, orders, markets, passes, days, shares and
any cap:

| Theorem | Statement |
|---|---|
| Invariance | `Spec => []IInv` |
| TypeCorrect, SlotsBalance, CapHolds, BoundOnce, ClosedIsUncharged, BookedOnce, StampIsComplete, ReportIsSafe, LabelIsTrue | `Spec => []` TypeOK, SlotAccounting, DailyCap, OneBinding, NoMoneyLost, NeverOverbooked, FinalIsComplete, ReportedNeverKilled, LabelMatchesLedger |
| DecisionsAreFinal | `Spec => DecisionsStand` |
| ImplementsContract | `Spec => KeepsContract` |

**Assumptions.** The named ones of `OrderAttempts`: the cap, the last day and the sizes are naturals, the
signed size is not zero, attempts are finitely many, and `None` is not a member of the types it
completes. The model's own assumption is `FloorCovers`: the fifteen minutes of the orphan sweep outlast
the request, the phone's post and the lag of the index. There is no clock in the model, and the mutant
that weakens the assumption loses money.

**Argument.** None of the safety properties is inductive, because each depends on what some process
read earlier. `IInv` adds it. `HolderOK` says who may still post the order of a row: once nobody can
and it is gone, it can never match. `MarkerOK` says that a marker or an age belongs to a row nobody is
submitting. `PassOK` says that what a pass read is still true when it acts: a pass on its way to the
kill knows that the order matched nothing and cannot any more (`FloorCovers` is stable), a verdict that
claims to be terminal holds the final total, and one that does not is at most the matched total, so an
old verdict can only book less than what is there and then books nothing. `BindingOK` gives the unique
indexes their consequences. `Core` is proved inductive action by action, one step per conjunct the
action can disturb. `SlotAccounting` is proved on top of it with the cardinality theorems: each action
moves at most one attempt in or out of `Held(d)` and the counter by the same amount. The refinement
maps each action to one contract step or to a stutter: `Match` to `Charge`, a booking to `Credit`, an
expiry, a refusal or a kill to `Void`.

`StockTrades_proofs` proves, for any number of attempts, refreshes, outside transfers and handlers under
way, any validity and any fee payers:

| Theorem | Statement |
|---|---|
| TradeTypes, LotSoldOnce | `Spec => []` TypeOK, OneSaleUnlessLost |
| NotWrittenOff, FreshLotsStay | `Spec => ` OnlyAStaleReadLoses, FreshLotsKept |
| BooksFit | `Spec => []NoTokenTwice` |
| ImplementsTrades | `Spec => KeepsTradeContract` |

The only assumption is `TradeAssumption`, the types of the bounds. The invariant `Inv` has four parts
besides the types. `IdsInOrder`: rows take their ids in order, so a build finds a free one. `LiveOK`: one
buy is pending, and one sale holds a lot, where a sale holds its lot while it is pending or confirmed and was
not lost. `RowsOK`: an unstamped sponsored row was never sent; an expired one is lost or did not land and, if
it was sent, no block takes it any more; a failed one failed; a confirmed sale closed its lot; a lost row
landed and is expired or was confirmed late; a sale under review has landed and its lot names another sale.
`LotsOK`: the buy of a lot landed at a slot the wallet's clock has reached, and a sold lot is closed.

`NotWrittenOff` compares the two ends of each step (`RowSteps`): only a sweep expires a row that is stamped,
and only one that it read unsigned; and a block takes a sponsored transaction only while its row is not
expired. A landed sale is by `RowsOK` pending, confirmed or lost, so by `LiveOK` there is one besides the lost
ones (`LotSoldOnce`). An accepted snapshot is not older than the wallet's clock, so by `LotsOK` it shows
every booked buy.

`NoTokenTwice` needs `FreshBuys` and `Fit` besides: a buy that landed and is not booked yet landed after the
accepted snapshot, because a snapshot is accepted only with no trade in flight, and the books fit that
snapshot. Both hold as long as no sale is under review. So a confirmed buy adds its token to both sides of the
inequality, and an accepted snapshot leaves open no more than it shows. A review once given stays
(`ReviewStays`), and from then on nothing is claimed.

`ImplementsTrades` needs `Done` besides `Inv`: a confirmed trade landed, a
confirmed sale is the one its lot was sold by, and a lot that was sold names a confirmed trade. A confirm works
from a row read earlier and `confirmSell` does not read the status again; by `Done` it closes a lot only for
a row that is pending or was lost, and otherwise changes neither row nor lot. `LiveOK` makes the open trade of
an order unique, so a build that retires it leaves none; `RowsOK` says that a retired sponsored row was never
sent, that a block takes a sponsored transaction only while its row is open, and that a row the sweep reads
unsigned is still out, as the contract's `looked` asks.

`WithdrawalRuns_proofs` proves, for any number of requests, runs, forwarders and faults:

| Theorem | Statement |
|---|---|
| WithdrawalTypes, SentMeansLanded | `Spec => []` TypeOK, DoneMeansLanded |
| OnePaymentPerRun, NothingPaidTwice | `Spec => ` OneSubmissionPerRun, ReplacedOnlySettled |

The assumption is `WithdrawAssumption`. The hard part is what a request may believe: it reads the row, the
ledger or the relayer in one step and writes in a later one, while another request replaces the run.
`CallOK` states for each stage what is still true of what was read: either the read is about the run in
the slot and only grows (a landed transfer stays landed), or that run has left the slot and the write
finds another run id. A request that drives a run to its next park or submission holds it: the run has
then not been submitted, it is not parked while it is advanced, and by `OneHolder` no second request
holds it.
From that a submission is the first of its run. `RowOK` and `RunsOK` say what the row, the parked runs
and the relayer have in common, among it that DONE belongs to a transfer that landed.

`PositionLedger_proofs` and `PositionMoney_proofs` prove, for any number of attempts and passes, any tick, any prices, fees and errors of an estimate, and any lag of the index unless the
statement limits it:

| Theorem | Statement |
|---|---|
| AllInvariance | `Spec => []AllInv`, the inductive invariant |
| Types, MoneyTypes | `Spec => []TypeOK`, `MoneySpec => []TypeOK` |
| FirstLotBacked | `Spec => []NoPhantomSharesInFirstLot` |
| NoPhantoms, PaidBacked | `Spec /\ []BookedWhole => []` NoPhantomShares, PaidWereBurned |
| OneSide, OwnLot | `Spec /\ []BookedWhole => ` OneSidePerLot, LotKeepsItsOwn |
| PromptIndexBooksWhole | `Spec => []BookedWhole`, if `"trading" \notin Lag` |
| PromptIndexBacked | the four properties above without a hypothesis on bookings, if `"trading" \notin Lag` |
| PositionInv | `Spec => []PInv`: the row closes no more than it holds, and what is settled has nothing left |
| SettledStays | `Spec => SettledStands`: a settled position on a closed market stays as it is |
| ImplementsLot | `Spec => KeepsLotContract` |
| MoneyKeepsShares | `MoneySpec => Spec`: each step on the money is a step on the shares |
| MoneyColumns | `MoneySpec => []ColumnsOK`: no amount, fee or proceeds becomes negative |
| ProfitIsCash | `MoneySpec => []PnlIsCash` |

from the named assumptions on `Tick`, `Sides`, prices and fees. `SettledStands` needs `PInv`: a settled row
has no remainder, so an entry into it is a late fill and a sale finds nothing to close. `MoneyColumns`
needs that an attempt with booked shares has a position (`HeldOK`), since a correction divides by the
shares of the row, and that a correction is clamped by what the fills and the row both hold
(`FloorHolds`).

`AllInv` joins six parts. `PInv` is the shape of the bets row. `RowsInv` gives each row its shape: what it
booked the index showed, what the index showed was matched, one row is in flight at a time, and a pass read a
row that still has the part of it a pass relies on. `HoldingsOK` says where tokens come from: wallet and
burned tokens of a side are the matched entries less the matched sales. `FillsOK` and `SizesOK` bound the row
by what was booked, `PaidOK` says that payments are of settled positions of a resolved market, `MarketOK` that
nothing is redeemed before the resolution.

`ImplementsLot` needs to know that the sweep is still right when it acts on what it read. `PlanHolds` says
so: once the sweep has begun the market is closed; while anything is left of the lot, what the sweep read is
a tick or more exactly if what is there now is, and the side is the same; and a plan to pay is one for a winner with
a tick or more. It is inductive because every booking is a step of the contract (`BookingOnLot`), and on a
closed market such a step moves no lot across a tick without emptying it: an entry into a lot below a tick is
kept aside, and a sale that would leave dust closes the lot (`SoldSells`).

The tokens need a bound that goes beyond a state's books (`Tokens`): what the row holds, and what entries have
still to add, the wallet holds or the redeemer burned, but for sales that matched and are not booked. It is
inductive in the first lot while shares remain, which gives `FirstLotBacked` with no assumption on the index.
For every lot it needs `BookedWhole`, that a booked row holds all that was matched. The hypothesis is not
for convenience: with three attempts and an index that lags while the market trades, a late trade reopens the
row beside a newer entry, and `NoPhantomShares`, `OneSidePerLot` and `LotKeepsItsOwn` fail (findings 3 and 4).
`PromptIndexBooksWhole` discharges it for an index that shows a match at once before the resolution and may
lag after it, which is the instance of `Position`.

`ProfitIsCash` compares two sums that no step changes together: the row's profit moves with bookings and
corrections, the cash with matches and redemptions. What relates them is the basis charged so far
(`Charged`): what sales and the settlement brought by the ledger, less the profit. For a row in its first
lot that took every fill of its entries, `CashInv` has three layers.

- *The lot* (`LotInv`). An attempt is final only when all that matched is booked (`FinalOK`, and `TotalOK`
  for the pass that makes it so). Before the lot falls below a tick only one entry has matched, so the fee
  of the row is the fee of one attempt (`OneEntry`, `OneFills`). What is closed of an open lot was sold
  (`SalesClose`), and no more was sold than was bought (`Conserved`).
- *The ledger* (`FillsFit`, `ColumnsFit`). Fills are priced as their order traded, spend and fees of the row
  are the sums of the fills, and the fee of a final attempt is the charged one.
- *The basis* (`BasisCharged`). `Charged` is the cost of the lot in proportion to the shares closed, up to
  one micro-dollar for each of them. A sale or the settlement adds its proportion rounded down by less than
  one (`NearSold`), additions at the charged price and fee leave the proportion (`NearGrown`), and the
  correction of the fee adds one more rounding (`NearCorrected`). Once a part is sold, only the first
  correction counts: after it the fee is exact (`Exact`), and stays so unless the row is diluted.

When all is closed and final, `Charged` is the cost up to `Rounding`, the ledger's sums are those of the
exchange, and the difference of profit and cash is that rounding (`CashImplies`). Without `~diluted` the
second layer holds and the third does not: finding 11.

`SumLemmas` has the lemmas that these proofs and those of stocks and of the paper game need about sums over
finite sets: a sum moves by what one value moves by, is monotone, bounded, and splits off a part. The folds of the
community modules are recursive functions. Their equations, and from them independence of the order of
summation, are proved here by a least counterexample on the cardinality (`WFMin` of the library), because its
induction theorems cannot be instantiated.

`PaperGame_proofs` proves, for any number of streak calls, markets, lots and days:

| Theorem | Statement |
|---|---|
| Types, CashIsAccounted, ArtifactsAreAccounted | `Spec => []` TypeOK, CashBooks, ArtifactBooks |
| MissedDayBurnsFirst | `Spec => BurnBeforeRestart` |
| OnlyLateSwipes | `Spec => OnlyALateSwipeStrands` |

from the named assumptions of `StreakDays` and `PaperGame`. The books are sums over markets, lots and days:
each action moves one bet or one lot, so by `SumLemmas` the sum moves by that bet's stake or P&L, and the
balance row by the same amount. The types need the books (a settled stake was locked, so `locked` stays
natural), and the two are proved together. A tap or a burn sweep writes from a row it
read earlier. `ReadIsCurrent` says that while the streak is one that missed a day, everybody who has read
it has read the present row, because only a tap or a recovery makes a streak ACTIVE and then it counts for
that day. `OnlyLateSwipes` needs types only: it compares each step with the one before.

`SweepWalk_proofs` proves, for any number of rows, overlapping calls and storage errors and any size of a
batch:

| Theorem | Statement |
|---|---|
| SweepTypes | `Spec => []TypeOK` |
| NoRowLeftOut | `Spec => NothingPassedOver` |

from `WalkAssumption`. The invariant `Inv` adds to the types that only finitely many rows are present, which
no step but a new row changes. `OrderIn` is the order: of two present rows one was created up to the other, and what was
created up to a row is closed downwards. A row that is resolved is taken out of every set (`ForgetOrder`),
and a new row comes last (`AppendOrder`), so cursors, marks and batches stay points of the order. A batch is
the `Limit` oldest rows, so it is closed downwards among those that match (`BatchIsOldest`); a batch that is short is all
of them (`ShortBatchIsAll`), which is when a walk may wrap; and a batch that is not empty has an oldest
row left to ask about (`OldestRow`), by a least counterexample, so the call goes on. Hence a row that was
not taken is after the last of the batch (`InOrAhead`).

**Only model-checked.** Liveness (`MoneyBooked`, `OrphanResolved`, `LandedSettled`, `BooksMeetWallet`, `OrphansAsked`,
`PostedAskedWhenQuiet`, `LandedReported`) is beyond the prover; `NoRowLeftOut` is the safety that the
liveness of the walks rests on.

## 7. Fairness

**Orders.** `FairSpec` assumes of the outside that the exchange decides an order that reached it, matches
a live one (fill-and-kill) and indexes its trades, that a request and a phone end in some way, and that
time passes. Of the program it assumes strong fairness of each kind of pass step: the poller runs every
minute for ever, walks all rows with a cursor, and a read that fails is tried again on a later tick, so
a step that is possible again and again is taken in the end. The sweeps run only where
`REAL_RECONCILE_URL` and its secret are set, and with the default age floor, which is all the poller
ever sends; liveness is claimed for such a deployment. A single pass may die at any step. No user action
is fair. `Report` and `FastPass` are not fair either: booking must not depend on the phone.

**Stocks.** The block height grows. The poller sweeps every minute and a restart only delays it, so a
sweep that takes in every pending row happens again and again, and its steps are strongly fair. A stale
wallet is refreshed in turn, by an RPC that catches up in the end and at a price that is fresh again. The RPC may
fail or miss a receipt any number of times, but not for ever. Nothing is assumed of the client: it may
neither confirm nor replay.

**Sweeps.** The poller posts to the route again and again (strong fairness of a read by some call), a
call under way goes on (weak fairness), time passes. Which rows come and what the exchange answers is
open.

**Withdrawals.** A request under way goes on (the outside calls have deadlines), and the open card polls.
No device signs, no operator acts and no relayer settles by fairness.

**Paper.** No liveness is claimed.

## 8. Not modelled

Listed with reasons in `PROJECT.json`. In short:

- of a real position, the verdict stamped from its profit and the shard of a win;
- of the stocks, two accounts on one wallet, what a human makes of a row under review, legacy rows, the
  sponsor's quota;
- of the workflows, the kinds of run whose steps are idempotent on chain, and deposits;
- of the paper game, the skip counter, login points and referrals, which are single serializable
  transactions over a ledger;
- the poller's lease, alerts and budgets: the sweeps are checked with concurrent runs instead;
- market data, quotes, authentication, rendering and operations, which hold no protocol state.
