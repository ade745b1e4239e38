----------------------------- MODULE MCMarkets -----------------------------
(***************************************************************************)
(* Instances of Markets for TLC.                                           *)
(***************************************************************************)
EXTENDS Markets

CONSTANTS a1, a2

MCGenesis == [a \in Addr |-> IF a = a1 THEN 3 ELSE 2]

(* Enough for a purchase before and one after an ID is drawn again.        *)
CreateGenesis == [a \in Addr |-> 2]

(* The market that storage.SetMarket puts in the state at the start.       *)
SeedMarket(m, status, end) ==
    [ID |-> m, Creator |-> a1, EndTime |-> end, ResolutionTime |-> end + 1,
     Status |-> status, TotalShares |-> [t \in ShareType |-> 0], text |-> 8]

(* One market, in every status; the traded one closes after timestamp 1.   *)
TradeSeeds ==
    {[m \in MarketID |-> SeedMarket(m, status, 1)] : status \in MarketStatus}

(* No market: what genesis leaves.                                         *)
NoSeeds == {[m \in MarketID |-> NotFound]}

(* Texts at the limits of CreateMarket's own checks (256, 256, 512) and of *)
(* the record as a whole: 84 + 256 + 256 + 428 = 1024.                     *)
Texts(d, s, p) == [Description |-> d, OracleSource |-> s, OracleParameters |-> p]

LimitText ==
    {Texts(0, 0, 0), Texts(1, 0, 0), Texts(257, 0, 0), Texts(1, 257, 0),
     Texts(1, 0, 513), Texts(256, 256, 428), Texts(256, 256, 429)}
=============================================================================
