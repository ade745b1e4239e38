--------------------------- MODULE MCTxExecution ---------------------------
(***************************************************************************)
(* Instances of TxExecution for TLC.                                       *)
(***************************************************************************)
EXTENDS TxExecution

CONSTANTS a1, a2

(* a1 can pay a transaction of two purchases and a fee after that, a2 two  *)
(* fees, which leave it with a stored zero.  258 is a market ID whose low  *)
(* two bytes allow 258 chunks, 1 one that allows a single chunk.           *)
MCGenesis == [a \in Addr |-> IF a = a1 THEN 7 ELSE 4]

MCAddrTail == [a \in Addr |-> IF a = a1 THEN 1 ELSE 0]

OpenMarket(m) ==
    [ID |-> m, Creator |-> a1, EndTime |-> 1, ResolutionTime |-> 2, Status |-> Open,
     TotalShares |-> [t \in ShareType |-> 0], text |-> 8]

(* The markets that the workload generator takes to exist.                 *)
MCSeeds == {[m \in MarketID |-> OpenMarket(m)]}

(* A fixture in which a1 holds both shares of every market and a2 only     *)
(* NO shares of one; and a fixture without any holding.                   *)
MCHoldings ==
    [k \in {ShareBalanceKey(m, a1, t) : m \in MarketID, t \in ShareType}
             \cup {ShareBalanceKey(258, a2, NoShareType)} |-> 1]

NoHoldings == [k \in {} |-> 1]

BuyAction(type, m) ==
    [type |-> type, order |-> [MarketID |-> m, Amount |-> 1, MaxPrice |-> 2]]

(* One that fails for its market's key, one that may pass, and one whose   *)
(* second purchase may fail after the first has passed.                    *)
Purchases ==
    {<<BuyAction("BuyYes", 1)>>, <<BuyAction("BuyYes", 258)>>,
     <<BuyAction("BuyYes", 258), BuyAction("BuyNo", 258)>>}

(* A Base that is valid in every block.                                    *)
Tx(a, actions) ==
    [ChainID |-> "this", Timestamp |-> 2, actor |-> a, actions |-> actions]

PurchaseTx == {Tx(a, actions) : a \in Addr, actions \in Purchases}

CreateAction ==
    [type |-> "CreateMarket",
     proposal |-> [text |-> [Description |-> 8, OracleSource |-> 0, OracleParameters |-> 0],
                   EndTime |-> 1, ResolutionTime |-> 2]]

(* Transactions that are not served in any block, or not in every block:   *)
(* without an action that declares a balance, with a malformed key, with   *)
(* too many actions, of another chain, expiring between two seconds, at    *)
(* timestamp 0, and too far ahead of timestamp 0.                          *)
OtherTx ==
    LET buy == BuyAction("BuyYes", 258)
        bought == Tx(a1, <<buy>>)
    IN  {Tx(a1, <<>>), Tx(a1, <<CreateAction>>), Tx(a1, <<buy, buy, buy>>),
         [bought EXCEPT !.ChainID = "other"]} \cup
        {[bought EXCEPT !.Timestamp = ts] : ts \in {0, 1, 4}}

(* Pairs, and three conflicting or unrelated purchases in a row, of the    *)
(* shares that their buyers hold.                                          *)
MCBatches ==
    LET buys(a, m) == Tx(a, <<BuyAction(IF a = a1 THEN "BuyYes" ELSE "BuyNo", m)>>)
    IN  {<<x, y>> : x \in PurchaseTx, y \in PurchaseTx} \cup
        {<<x, buys(y, 258)>> : x \in OtherTx, y \in Addr} \cup
        {<<buys(x, 258), buys(y, m), buys(z, 258)>> :
            x \in Addr, y \in Addr, z \in Addr, m \in MarketID}

(* One purchase at a time.                                                 *)
BuyYesBatches ==
    {<<Tx(a, <<BuyAction("BuyYes", 258)>>)>> : a \in Addr}
=============================================================================
