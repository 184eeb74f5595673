------------------------------- MODULE PaperGame -------------------------------
(***************************************************************************)
(* The paper game of one player: swipes and feed bets (lib/swipe.ts and     *)
(* their routes), hedge accepts (lib/hedge/accept.ts), paper stock lots     *)
(* (lib/stocks-db.ts), settlement (scripts/settle.ts and the poller's scan),*)
(* shards and artifacts (lib/shards.ts), top-ups (lib/topup.ts) and skins   *)
(* (lib/skins-store.ts), on top of the streak of StreakDays, which spends   *)
(* the same artifacts.                                                     *)
(*                                                                         *)
(* A swipe is two steps, as in its route: the checks made before the        *)
(* network re-quote, and the transaction made after it.  Every transaction  *)
(* writes the balance row it has checked in one conditional update, or is   *)
(* Serializable, and is one step.                                          *)
(*                                                                         *)
(* Abstractions: money is counted in stakes; a settled bet wins or loses    *)
(* nondeterministically, with a profit from Profits; one swipe request is   *)
(* in flight at a time; developer accounts, who bypass the caps, and real   *)
(* bets, which share the caps, are left out; other players' bets appear as  *)
(* the poller settling a market on which this player has none.             *)
(***************************************************************************)
EXTENDS StreakDays, FiniteSetsExt, Functions

CONSTANTS
    Markets, Lots, Skins, None,
    Start,              \* START_BALANCE_CENTS, in stakes
    Stake,              \* STAKE_CENTS
    Grant,              \* TOPUP_GRANT_CENTS
    FreeGate,           \* FREE_TOPUP_CASH_GATE_CENTS
    ArtifactGate,       \* ARTIFACT_TOPUP_CASH_GATE_CENTS
    MinStake,           \* HEDGE_MIN_STAKE_CENTS
    Proposals,          \* stakes a hedge suggestion or a stock buy may ask for
    Profits,            \* profits of a winning bet or of a lot sold above its cost
    SwipeCap, ShardCap, ShardsPerArtifact,
    LastPlay            \* bound: bets and lots are placed on days 0 .. LastPlay

ASSUME GameAssumption ==
    /\ Start \in Nat /\ Stake \in Nat \ {0} /\ Grant \in Nat /\ MinStake \in Nat \ {0}
    /\ Proposals \subseteq Nat \ {0} /\ Profits \subseteq Nat
    /\ SwipeCap \in Nat /\ ShardCap \in Nat /\ ShardsPerArtifact \in Nat \ {0}
    /\ IsFiniteSet(Markets) /\ IsFiniteSet(Lots)

VARIABLES
    market,         \* Market.status
    request,        \* the swipe or feed bet in flight, past its checks
    bet,            \* the player's PAPER bet on each market
    lot,            \* the player's paper stock lots
    balance,        \* VirtualBalance.balanceCents
    locked,         \* VirtualBalance.lockedCents
    freeUsed,       \* VirtualBalance.freeTopupUsed
    topups,         \* VirtualBalance.topupCount
    swiped,         \* DailyCounter.swipeCount
    sharded,        \* DailyCounter.shardCount
    shards,         \* CollectibleBalance.shards
    owned           \* CollectibleBalance.ownedSkins, the paid ones

money == <<balance, locked>>
boosts == <<freeUsed, topups, owned>>
counts == <<swiped, sharded>>
gameVars == <<market, request, bet, lot, balance, locked, freeUsed, topups, swiped,
              sharded, shards, owned>>
vars == <<gameVars, streakVars>>

Cash == balance - locked
NoBet == [status |-> "none"]
NoLot == [status |-> "none"]
NoRequest == [market |-> None]

\* A row of bets once it exists; its ShardGrant comes with its end.
NewBet(src, stake) ==
    [status |-> "PENDING", source |-> src, stake |-> stake, day |-> day]

\* What is left to know of a bet once it is settled.
Ended(status, pnl, grant) == [status |-> status, pnl |-> pnl, grant |-> grant]

----------------------------------------------------------------------------
\* Placing a bet

\* The checks of POST /api/swipe and /api/feed/bet, made before the network re-quote.
RouteChecks(m, src) ==
    /\ day <= LastPlay
    /\ request = NoRequest
    /\ market[m] = "OPEN"
    /\ src = "DECK" => swiped[day] < SwipeCap
    /\ request' = [market |-> m, source |-> src]
    /\ UNCHANGED <<market, bet, lot, money, boosts, counts, shards, streakVars>>

\* The route answers with an error: no book, a price that moved, or recordSwipe's own refusals,
\* which roll its transaction back.
RouteRefuses ==
    /\ request # NoRequest
    /\ request' = NoRequest
    /\ UNCHANGED <<market, bet, lot, money, boosts, counts, shards, streakVars>>

\* holdCash: the stake is set aside by one conditional update.
Hold(stake) ==
    /\ Cash >= stake
    /\ locked' = locked + stake
    /\ UNCHANGED balance

\* recordSwipe: counter, bet, point and hold in one transaction.  It does not read the market.
RecordSwipe(m) ==
    /\ request.market = m
    /\ bet[m] = NoBet
    /\ Hold(Stake)
    /\ bet' = [bet EXCEPT ![m] = NewBet(request.source, Stake)]
    /\ \/ /\ request.source = "DECK"
          /\ swiped[day] < SwipeCap
          /\ swiped' = [swiped EXCEPT ![day] = @ + 1]
          /\ points' = [points EXCEPT ![day] = @ + 1]
       \/ /\ request.source = "FEED"
          /\ UNCHANGED <<swiped, points>>
    /\ request' = NoRequest
    /\ UNCHANGED <<market, lot, boosts, sharded, shards>>
    /\ UNCHANGED <<day, streak, reading, artifacts, recovered, doubled>>

\* Mutant: the transaction trusts the route's own look at the market.
AcceptHedgeUnread(m, proposed) ==
    LET stake == Min({proposed, Cash}) IN
    /\ bet[m] = NoBet
    /\ stake >= MinStake
    /\ day <= LastPlay
    /\ Hold(stake)
    /\ bet' = [bet EXCEPT ![m] = NewBet("HEDGE", stake)]
    /\ UNCHANGED <<market, request, lot, boosts, counts, shards, streakVars>>

\* acceptSuggestion: the stake is clamped to Cash and the market is read again in the transaction.
AcceptHedge(m, proposed) ==
    LET stake == Min({proposed, Cash}) IN
    /\ market[m] = "OPEN"
    /\ bet[m] = NoBet
    /\ stake >= MinStake
    /\ day <= LastPlay
    /\ Hold(stake)
    /\ bet' = [bet EXCEPT ![m] = NewBet("HEDGE", stake)]
    /\ UNCHANGED <<market, request, lot, boosts, counts, shards, streakVars>>

\* buyStockPaper and acceptStock: openStockPosition holds the stake as a bet does.  A stake that
\* acceptStock has clamped to Cash is one more member of Proposals.
BuyLot(l, stake) ==
    /\ lot[l] = NoLot
    /\ day <= LastPlay
    /\ Hold(stake)
    /\ lot' = [lot EXCEPT ![l] = [status |-> "open", cost |-> stake]]
    /\ UNCHANGED <<market, request, bet, boosts, counts, shards, streakVars>>

----------------------------------------------------------------------------
\* Releasing a hold

\* The balance row at the end of a bet or a lot: the hold is released and the P&L applied.
Release(stake, pnl) ==
    /\ locked' = locked - stake
    /\ balance' = balance + pnl

\* sellStockPaper: the lot closes once, at the live price; a lot can lose no more than it cost.
SellLot(l, pnl) ==
    /\ lot[l].status = "open"
    /\ pnl >= -lot[l].cost
    /\ lot' = [lot EXCEPT ![l] = [status |-> "closed", pnl |-> pnl]]
    /\ Release(lot[l].cost, pnl)
    /\ UNCHANGED <<market, request, bet, boosts, counts, shards, streakVars>>

\* Mutant: the cap is compared after the claim.
CountsAtCap(m) == bet[m].source = "FEED" \/ sharded[bet[m].day] <= ShardCap

\* awardShard: at most ShardCap counted a day of the bet, feed bets outside the cap; a full set
\* of shards becomes an artifact.
Counts(m) == bet[m].source = "FEED" \/ sharded[bet[m].day] < ShardCap

\* Mutant: a win over the cap is recorded as such and paid all the same.
AwardUncounted(m) ==
    /\ sharded' = IF Counts(m) /\ bet[m].source # "FEED"
                  THEN [sharded EXCEPT ![bet[m].day] = @ + 1] ELSE sharded
    /\ shards' = (shards + 1) % ShardsPerArtifact
    /\ artifacts' = artifacts + (shards + 1) \div ShardsPerArtifact

AwardShard(m) ==
    /\ sharded' = IF Counts(m) /\ bet[m].source # "FEED"
                  THEN [sharded EXCEPT ![bet[m].day] = @ + 1] ELSE sharded
    /\ \/ /\ ~Counts(m)
          /\ UNCHANGED <<shards, artifacts>>
       \/ /\ Counts(m)
          /\ shards + 1 < ShardsPerArtifact
          /\ shards' = shards + 1
          /\ UNCHANGED artifacts
       \/ /\ Counts(m)
          /\ shards + 1 >= ShardsPerArtifact
          /\ shards' = shards + 1 - ShardsPerArtifact
          /\ artifacts' = artifacts + 1

Won(m, profit) ==
    /\ bet' = [bet EXCEPT ![m] = Ended("SETTLED", profit, IF Counts(m) THEN "counted" ELSE "over")]
    /\ Release(bet[m].stake, profit)
    /\ AwardShard(m)

\* Mutant: a loss only releases the hold.
LostUndebited(m) ==
    /\ bet' = [bet EXCEPT ![m] = Ended("SETTLED", -bet[m].stake, "none")]
    /\ Release(bet[m].stake, 0)
    /\ UNCHANGED <<sharded, shards, artifacts>>

Lost(m) ==
    /\ bet' = [bet EXCEPT ![m] = Ended("SETTLED", -bet[m].stake, "none")]
    /\ Release(bet[m].stake, -bet[m].stake)
    /\ UNCHANGED <<sharded, shards, artifacts>>

Void(m) ==
    /\ bet' = [bet EXCEPT ![m] = Ended("VOID", 0, "none")]
    /\ Release(bet[m].stake, 0)
    /\ UNCHANGED <<sharded, shards, artifacts>>

Untouched == UNCHANGED <<bet, money, sharded, shards, artifacts>>

\* settleMarket, for a market the poller's scan found, OPEN and with a PENDING bet of this player
\* or of another one, and a verdict of Gamma or of the chain.  The market's status and its
\* pending paper bets change in one transaction.
Settle(m, verdict) ==
    /\ market[m] = "OPEN"
    /\ market' = [market EXCEPT ![m] = verdict]
    /\ \/ bet[m].status # "PENDING" /\ Untouched
       \/ bet[m].status = "PENDING" /\ verdict = "CANCELED" /\ Void(m)
       \/ bet[m].status = "PENDING" /\ verdict = "RESOLVED" /\ Lost(m)
       \/ bet[m].status = "PENDING" /\ verdict = "RESOLVED" /\ \E profit \in Profits : Won(m, profit)
    /\ UNCHANGED <<request, lot, boosts, swiped>>
    /\ UNCHANGED <<day, streak, reading, recovered, points, doubled>>

----------------------------------------------------------------------------
\* Spending artifacts

Remaining == Max({0, SwipeCap - swiped[day]})

TopUpFree ==
    /\ ~freeUsed
    /\ Cash < FreeGate
    /\ Cash < Remaining * Stake
    /\ balance' = balance + Grant
    /\ freeUsed' = TRUE
    /\ UNCHANGED <<market, request, bet, lot, locked, topups, counts, shards, owned,
                   streakVars>>

SpendArtifact ==
    /\ artifacts >= 1
    /\ artifacts' = artifacts - 1
    /\ UNCHANGED <<day, streak, reading, recovered, points, doubled>>

TopUpArtifact ==
    /\ SpendArtifact
    /\ Cash < ArtifactGate
    /\ balance' = balance + Grant
    /\ topups' = topups + 1
    /\ UNCHANGED <<market, request, bet, lot, locked, freeUsed, counts, shards, owned>>

UnlockSkin(s) ==
    /\ s \notin owned
    /\ SpendArtifact
    /\ owned' = owned \union {s}
    /\ UNCHANGED <<market, request, bet, lot, money, freeUsed, topups, counts, shards>>

----------------------------------------------------------------------------
Streaks == StreakNext /\ UNCHANGED gameVars

Init ==
    /\ StreakInit
    /\ market = [m \in Markets |-> "OPEN"]
    /\ request = NoRequest
    /\ bet = [m \in Markets |-> NoBet]
    /\ lot = [l \in Lots |-> NoLot]
    /\ balance = Start
    /\ locked = 0
    /\ freeUsed = FALSE
    /\ topups = 0
    /\ swiped = [d \in Days |-> 0]
    /\ sharded = [d \in Days |-> 0]
    /\ shards = 0
    /\ owned = {}

Next ==
    \/ \E m \in Markets :
          \/ \E src \in {"DECK", "FEED"} : RouteChecks(m, src)
          \/ RecordSwipe(m)
          \/ \E proposed \in Proposals : AcceptHedge(m, proposed)
          \/ \E verdict \in {"RESOLVED", "CANCELED"} : Settle(m, verdict)
    \/ RouteRefuses
    \/ \E l \in Lots :
          \/ \E stake \in Proposals : BuyLot(l, stake)
          \/ \E pnl \in Profits \union {-p : p \in Proposals} : SellLot(l, pnl)
    \/ TopUpFree
    \/ TopUpArtifact
    \/ \E s \in Skins : UnlockSkin(s)
    \/ Streaks

Spec == Init /\ [][Next]_vars

----------------------------------------------------------------------------
StakeOf(b) == IF b.status = "PENDING" THEN b.stake ELSE 0
CostOf(l) == IF l.status = "open" THEN l.cost ELSE 0
PnlOf(row) == IF row.status \in {"SETTLED", "VOID", "closed"} THEN row.pnl ELSE 0
Staked == SumFunction([m \in Markets |-> StakeOf(bet[m])])
Spent  == SumFunction([l \in Lots |-> CostOf(lot[l])])
BetPnl == SumFunction([m \in Markets |-> PnlOf(bet[m])])
LotPnl == SumFunction([l \in Lots |-> PnlOf(lot[l])])
TopUps == topups + (IF freeUsed THEN 1 ELSE 0)

TypeOK ==
    /\ day \in Days /\ streak \in Rows /\ reading \in [Sweepers -> Readings]
    /\ artifacts \in Nat /\ recovered \in Nat /\ topups \in Nat
    /\ points \in [Days -> 0 .. SwipeCap] /\ doubled \in [Days -> Nat]
    /\ market \in [Markets -> {"OPEN", "RESOLVED", "CANCELED"}]
    /\ request \in {NoRequest} \union [market : Markets, source : {"DECK", "FEED"}]
    /\ \A m \in Markets : bet[m].status \in {"none", "PENDING", "SETTLED", "VOID"}
    /\ \A l \in Lots : lot[l].status \in {"none", "open", "closed"}
    /\ balance \in Nat /\ locked \in 0 .. balance
    /\ freeUsed \in BOOLEAN /\ owned \subseteq Skins
    /\ swiped \in [Days -> 0 .. SwipeCap] /\ sharded \in [Days -> 0 .. ShardCap]
    /\ shards \in 0 .. ShardsPerArtifact - 1

\* Every cent of the balance row is accounted for: what is locked is the stake of the bets still
\* pending and the cost of the lots still open, and the balance is the starting one plus the
\* top-ups plus the P&L of everything that has ended (scripts/settle.ts, "Balance model").
CashBooks ==
    /\ locked = Staked + Spent
    /\ balance = Start + Grant * TopUps + BetPnl + LotPnl

CountedBets == {m \in Markets : bet[m].status = "SETTLED" /\ bet[m].grant = "counted"}

\* No shard or artifact is minted or lost: the counted grants are the shards held plus a full set
\* for every artifact held or spent on a top-up, a recovery or a skin.
ArtifactBooks ==
    Cardinality(CountedBets)
      = shards + ShardsPerArtifact * (artifacts + topups + recovered + Cardinality(owned))

\* A pending bet on a market that has ended is out of the poller's scan and is never settled.  No
\* step makes one, neither the settlement that ends the market nor a hedge accepted meanwhile,
\* except the write of a swipe whose market was open when its route looked.
Stranded(m) == bet[m].status = "PENDING" /\ market[m] # "OPEN"

OnlyALateSwipeStrands ==
    [][\A m \in Markets : ~Stranded(m) /\ Stranded(m)'
          => request.market = m /\ request' = NoRequest]_vars
=============================================================================
