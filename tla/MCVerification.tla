--------------------------- MODULE MCVerification ---------------------------
(***************************************************************************)
(* Instances of Verification for TLC.                                      *)
(***************************************************************************)
EXTENDS Verification

CONSTANTS a1, a2

(* Each account can pay a few fees and one or two purchases, so that the   *)
(* order of transactions decides which of them still go through.           *)
MCGenesis == [a \in Addr |-> IF a = a1 THEN 7 ELSE 6]

MCAddrTail == [a \in Addr |-> 1]

OpenMarket(m) ==
    [ID |-> m, Creator |-> a1, EndTime |-> 1, ResolutionTime |-> 2, Status |-> Open,
     TotalShares |-> [t \in ShareType |-> 0], text |-> 8]

MCSeeds == {[m \in MarketID |-> OpenMarket(m)]}

(* Everyone already holds a share of every side.                           *)
MCHoldings ==
    [k \in {ShareBalanceKey(m, a, t) : m \in MarketID, a \in Addr, t \in ShareType} |-> 1]

BuyAction(type, m, p) ==
    [type |-> type, order |-> [MarketID |-> m, Amount |-> 1, MaxPrice |-> p]]

CreateAction ==
    [type |-> "CreateMarket",
     proposal |-> [text |-> [Description |-> 8, OracleSource |-> 0, OracleParameters |-> 0],
                   EndTime |-> 1, ResolutionTime |-> 2]]

(* A cheap and a dear purchase on one market, one on another, a failing    *)
(* pair, and a market's creation.                                          *)
Purchases ==
    {<<BuyAction("BuyYes", 258, 1)>>, <<BuyAction("BuyNo", 258, 3)>>,
     <<BuyAction("BuyYes", 514, 1), BuyAction("BuyYes", 514, 3)>>}

(* One that expires at timestamp 0, and one valid in every block.          *)
TxUntil(ts, a, actions) ==
    [ChainID |-> "this", Timestamp |-> ts, actor |-> a, actions |-> actions]

Tx(a, actions) == TxUntil(2, a, actions)

(* Pairs of one account and pairs of two, some with one that expires.      *)
MCBatches ==
    {<<Tx(a1, x), Tx(a1, y)>> : x \in Purchases, y \in Purchases} \cup
    {<<Tx(a1, x), Tx(a2, y)>> : x \in Purchases \cup {<<CreateAction>>}, y \in Purchases} \cup
    {<<TxUntil(0, a1, x), Tx(a2, x)>> : x \in Purchases}
=============================================================================
