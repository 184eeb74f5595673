---------------------------- MODULE TradeContract ----------------------------
(***************************************************************************)
(* What the server promises about the trades of one stock and the lots     *)
(* they leave, whatever requests, sweeps and wallet refreshes take part.   *)
(* Of one order at most one trade is open.  What became of an open trade   *)
(* on chain is booked once, a purchase as a new lot and a sale as the end  *)
(* of its lot.  A trade the sponsor pays for never lands after it was      *)
(* given up.  It is given up only if it has not landed, or by a look that  *)
(* took it up before it had; a sale lost in that way may still end its     *)
(* lot.  The wallet's balance corrects the lots only while no trade is     *)
(* open, and no lot that ended is open again.                              *)
(***************************************************************************)
EXTENDS Integers, Sequences

CONSTANTS Trades

VARIABLES
    trade,  \* [kind, lot, sponsored, stage, fate] of each trade
    lots,   \* in the order they were opened
    looked  \* the trades a look for dead ones has taken up, when they were out

contractVars == <<trade, lots, looked>>

Kinds == {"BUY", "SELL"}

Init ==
    /\ trade \in [Trades -> [kind : Kinds, lot : {0}, sponsored : BOOLEAN,
                             stage : {"none"}, fate : {"out"}]]
    /\ \A l \in DOMAIN lots : lots[l].by = 0 /\ ~lots[l].closed
    /\ looked = {}

\* Trade a goes to a stage, and the other trades stay.
Goes(a, stage) == trade' = [trade EXCEPT ![a].stage = stage]

\* A trade may be given up.
Loose(a) ==
    /\ trade[a].stage = "open"
    /\ trade[a].sponsored => trade[a].fate # "landed"

\* A trade is built.  The open trades of the same order are given up for it.
Start(a, kind, lot, sponsored) ==
    LET given == {b \in Trades :
                    trade[b].stage = "open" /\ trade[b].kind = kind /\ trade[b].lot = lot}
    IN
    /\ trade[a].stage = "none"
    /\ IF kind = "BUY" THEN lot = 0 ELSE lot \in DOMAIN lots /\ ~lots[lot].closed
    /\ \A b \in given : Loose(b)
    /\ trade' = [b \in Trades |->
          IF b = a THEN [kind |-> kind, lot |-> lot, sponsored |-> sponsored,
                         stage |-> "open", fate |-> "out"]
          ELSE IF b \in given THEN [trade[b] EXCEPT !.stage = "void"]
          ELSE trade[b]]
    /\ UNCHANGED lots

\* A block takes the transaction.
Execute(a) ==
    /\ trade[a].fate = "out" /\ trade[a].stage # "none"
    /\ trade[a].sponsored => trade[a].stage = "open"
    /\ \E fate \in {"landed", "failed"} : trade' = [trade EXCEPT ![a].fate = fate]
    /\ UNCHANGED lots

Lands(a, kind, stages) ==
    trade[a].stage \in stages /\ trade[a].fate = "landed" /\ trade[a].kind = kind

\* What was bought becomes a lot.
BookBuy(a) ==
    /\ Lands(a, "BUY", {"open"})
    /\ Goes(a, "booked")
    /\ \E lot \in {lots'[l] : l \in DOMAIN lots' \ DOMAIN lots} :
          lots' = Append(lots, lot) /\ lot.by = a /\ ~lot.closed

\* What was sold ends its lot, which the wallet may have been seen to have lost.
BookSale(a) ==
    LET l == trade[a].lot IN
    /\ Lands(a, "SELL", {"open", "void"})
    /\ Goes(a, "booked")
    /\ l \in DOMAIN lots /\ lots[l].soldBy = 0
    /\ lots' = [lots EXCEPT ![l].closed = TRUE, ![l].reason = "sold", ![l].soldBy = a]

\* A trade is given up, or one that a look had taken up before it landed.
Void(a) ==
    /\ Loose(a) \/ (trade[a].stage = "open" /\ a \in looked)
    /\ Goes(a, "void")
    /\ UNCHANGED lots

\* The lots follow the wallet: some end, and what it holds above them is adopted.
Sync ==
    /\ \A a \in Trades : trade[a].stage # "open"
    /\ DOMAIN lots \subseteq DOMAIN lots'
    /\ \A l \in DOMAIN lots :
          \/ lots'[l] = lots[l]
          \/ ~lots[l].closed /\ lots'[l] = [lots[l] EXCEPT !.closed = TRUE, !.reason = "wallet"]
    /\ \A l \in DOMAIN lots' \ DOMAIN lots : lots'[l].by = 0 /\ ~lots'[l].closed
    /\ UNCHANGED trade

\* A look takes up open trades; what the sponsor pays for has not landed then.
Looks ==
    \A a \in looked' \ looked :
        trade[a].stage = "open" /\ (trade[a].sponsored => trade[a].fate = "out")

\* A step moves a trade, or the lots alone, or neither.
Trading ==
    \/ \E a \in Trades :
          /\ trade'[a] # trade[a]
          /\ \/ Execute(a) \/ BookBuy(a) \/ BookSale(a) \/ Void(a)
             \/ \E kind \in Kinds, lot \in {0} \union DOMAIN lots, sponsored \in BOOLEAN :
                    Start(a, kind, lot, sponsored)
    \/ lots' # lots /\ Sync
    \/ UNCHANGED <<trade, lots>>

Next == Looks /\ Trading

Spec == Init /\ [][Next]_contractVars
=============================================================================
