------------------------------ MODULE Actions ------------------------------
(***************************************************************************)
(* The actions package (actions/create_market_action.go,                   *)
(* actions/buy_yes_action.go, actions/buy_no_action.go): what the Execute  *)
(* methods check and the states their writes leave, as operators on a      *)
(* store.  Markets and TxExecution put them in order and decide what a     *)
(* failing write means.                                                    *)
(***************************************************************************)
EXTENDS Storage, FiniteSetsExt

CONSTANTS
    Time,       \* block timestamps, and the times a market may name
    Text,       \* lengths of the texts a CreateMarket may carry
    Quantity,   \* values of Amount
    Price       \* values of MaxPrice

ASSUME TimeAssumption == Time \subseteq Int /\ Time # {}

ASSUME TextAssumption == Text \subseteq [Description : Nat, OracleSource : Nat,
                                         OracleParameters : Nat]

ASSUME TradeAssumption == Quantity \subseteq U64 /\ Price \subseteq U64

-----------------------------------------------------------------------------
(* A BuyYes or BuyNo action.                                               *)
Order == [MarketID : MarketID, Amount : Quantity, MaxPrice : Price]

Cost(b) == Wrap(b.Amount * b.MaxPrice)

(* Mutant: only the presence of a balance record is checked.               *)
FundedUnchecked(st, a, b) == st[BalanceKey(a)] # NotFound

(* The balance lookup and the funds check; the record is parsed with       *)
(* database.ParseUInt64, which accepts a stored zero.                      *)
Funded(st, a, b) ==
    /\ st[BalanceKey(a)] # NotFound
    /\ st[BalanceKey(a)] >= Cost(b)

(* The checks of BuyYes.Execute that precede its first write, in order.    *)
BuyYesAdmits(st, ts, a, b) ==
    /\ b.Amount # 0
    /\ b.MaxPrice # 0
    /\ ~GetMarketErr(st, b.MarketID)
    /\ LET market == GetMarket(st, b.MarketID) IN
          /\ market.Status \notin {ResolvedYes, ResolvedNo}
          /\ ~(ts > market.EndTime /\ market.Status = Open)
          /\ market.Status # TradingClosed
          /\ ts <= market.EndTime
    /\ Funded(st, a, b)

(* Mutant: the comparison with EndTime is left out.                        *)
BuyNoAdmitsLate(st, ts, a, b) ==
    /\ b.Amount # 0
    /\ b.MaxPrice # 0
    /\ ~GetMarketErr(st, b.MarketID)
    /\ GetMarket(st, b.MarketID).Status = Open
    /\ Funded(st, a, b)

(* The checks of BuyNo.Execute that precede its first write, in order.     *)
BuyNoAdmits(st, ts, a, b) ==
    /\ b.Amount # 0
    /\ b.MaxPrice # 0
    /\ ~GetMarketErr(st, b.MarketID)
    /\ LET market == GetMarket(st, b.MarketID) IN
          /\ market.Status \notin {ResolvedYes, ResolvedNo}
          /\ market.Status # TradingClosed
          /\ ts <= market.EndTime
    /\ Funded(st, a, b)

(* Mutant: the price of one share is charged for all of them.              *)
DebitedOnce(st, a, b) == [st EXCEPT ![BalanceKey(a)] = Wrap(@ - Wrap(b.MaxPrice))]

(* Mutant: a sum that leaves the range of uint64.                          *)
CreditedUnwrapped(st, a, b, t) ==
    SetShareBalance(st, b.MarketID, a, t,
                    GetShareBalance(st, b.MarketID, a, t) + b.Amount)

(* Mutants: BuyNo's total is added to the YES side; the total is replaced  *)
(* by the amount of the last purchase.                                     *)
RetotalledYes(market, b, t) ==
    [market EXCEPT !.TotalShares[YesShareType] = Wrap(@ + b.Amount)]

RetotalledLast(market, b, t) == [market EXCEPT !.TotalShares[t] = b.Amount]

(* The three writes of an admitted purchase, each made on the state the    *)
(* one before it left: the actor is debited, the shares are credited, and  *)
(* the market read before the debit is written back with its new total.    *)
Debited(st, a, b) == [st EXCEPT ![BalanceKey(a)] = Wrap(@ - Cost(b))]

Credited(st, a, b, t) ==
    SetShareBalance(st, b.MarketID, a, t,
                    Wrap(GetShareBalance(st, b.MarketID, a, t) + b.Amount))

Retotalled(market, b, t) ==
    [market EXCEPT !.TotalShares[t] = Wrap(@ + b.Amount)]

-----------------------------------------------------------------------------
(* A CreateMarket action.                                                  *)
Proposal == [text : Text, EndTime : Time, ResolutionTime : Time]

(* The validation at the head of CreateMarket.Execute, in order.           *)
CreateMarketAdmits(ts, cm) ==
    /\ cm.text.Description # 0
    /\ cm.text.Description <= 256
    /\ cm.text.OracleSource <= 256
    /\ cm.text.OracleParameters <= 512
    /\ cm.EndTime > ts
    /\ cm.ResolutionTime > cm.EndTime

(* Mutant: a market that opens with a share on either side, which nobody   *)
(* holds.                                                                  *)
NewMarketSeeded(a, cm, id) ==
    [ID |-> id, Creator |-> a, EndTime |-> cm.EndTime,
     ResolutionTime |-> cm.ResolutionTime, Status |-> Open,
     TotalShares |-> [t \in ShareType |-> 1],
     text |-> cm.text.Description + cm.text.OracleSource + cm.text.OracleParameters]

NewMarket(a, cm, id) ==
    [ID |-> id, Creator |-> a, EndTime |-> cm.EndTime,
     ResolutionTime |-> cm.ResolutionTime, Status |-> Open,
     TotalShares |-> [t \in ShareType |-> 0],
     text |-> cm.text.Description + cm.text.OracleSource + cm.text.OracleParameters]

(* What the accounts hold of one side of a market, taken together.         *)
Held(st, m, t) == MapThenSumSet(LAMBDA a : GetShareBalance(st, m, a, t), Addr)

(* How far a market's total is ahead of its holdings, in uint64            *)
(* arithmetic.                                                             *)
Ahead(st, m, t) == Wrap(GetMarket(st, m).TotalShares[t] - Held(st, m, t))

(* What a transaction may carry.                                           *)
Action ==
    [type : {"BuyYes", "BuyNo"}, order : Order] \cup
    [type : {"CreateMarket"}, proposal : Proposal]

-----------------------------------------------------------------------------
(* The state a chain or a test starts from.                                *)

CONSTANTS
    Genesis,    \* the balance records that genesis has written
    Seeds       \* the choices of market records to start with: no market on
                \* the shipped chain, what SetMarket has stored in the tests

ASSUME GenesisAssumption == Genesis \in [Addr -> U64 \cup {NotFound}]

ASSUME SeedsAssumption ==
    /\ Seeds # {}
    /\ \A seed \in Seeds :
          /\ DOMAIN seed = MarketID
          /\ \A m \in MarketID :
                \/ seed[m] = NotFound
                \/ /\ seed[m] \in Market
                   /\ seed[m].ID = m
                   /\ MarketSize(seed[m]) <= MaxMarketDataSize
                   /\ \A t \in ShareType : seed[m].TotalShares[t] = 0

GenesisStore(seed) ==
    [k \in Key |-> CASE k[1] = ConstsBalancePrefix -> Genesis[k[2]]
                     [] k[1] = MarketPrefix -> seed[k[2]]
                     [] OTHER -> NotFound]
=============================================================================
