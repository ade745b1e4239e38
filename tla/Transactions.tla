---------------------------- MODULE Transactions ----------------------------
(***************************************************************************)
(* What a transaction that carries this VM's actions may do, whoever runs  *)
(* it: the keys it declares, the limits those keys put on its writes, and  *)
(* the effect of one of its actions (chain/transaction.go, state/keys.go,  *)
(* state/tstate, and the actions' StateKeys and Execute).                  *)
(***************************************************************************)
EXTENDS Actions, Sequences, FiniteSetsExt

CONSTANTS
    Fee,        \* what the fee manager asks of a transaction
    Batches,    \* the batches of transactions the mempool may stream
    Holdings,   \* share records already in the state, besides genesis
    AddrTail,   \* the last byte of each address
    MaxActionsPerTx,    \* limit of the chain's rules
    ValidityWindow,     \* how far ahead of its block a transaction may expire
    TimestampDivisor    \* expiries are multiples of it: a second, in milliseconds

ASSUME FeeAssumption == Fee \in U64 \ {0}

ASSUME HoldingsAssumption ==
    \A k \in DOMAIN Holdings :
        /\ \E m \in MarketID, a \in Addr, t \in ShareType : k = ShareBalanceKey(m, a, t)
        /\ Holdings[k] \in U64 \ {0}

ASSUME AddrTailAssumption == AddrTail \in [Addr -> 0 .. 255]

ASSUME RulesAssumption ==
    /\ MaxActionsPerTx \in Nat
    /\ ValidityWindow \in Nat
    /\ TimestampDivisor \in Nat \ {0}

(* A transaction is its Base, the chain it is meant for and its expiry,    *)
(* with its actor and its actions; any uint64 may be asked for and any     *)
(* time or text length proposed.                                           *)
Transaction ==
    LET order == [MarketID : MarketID, Amount : U64, MaxPrice : U64]
        text == [Description : Nat, OracleSource : Nat, OracleParameters : Nat]
        proposal == [text : text, EndTime : Int, ResolutionTime : Int]
    IN  [ChainID : {"this", "other"}, Timestamp : Int, actor : Addr,
         actions : Seq([type : {"BuyYes", "BuyNo"}, order : order] \cup
                       [type : {"CreateMarket"}, proposal : proposal])]

ASSUME BatchesAssumption == Batches \subseteq Seq(Transaction)

-----------------------------------------------------------------------------
(* Declared keys.  A set of <<key, permission>> pairs stands for           *)
(* state.Keys; the constants Read and Write are bit masks in the code, and *)
(* Write includes Read.                                                    *)

ReadKey(k) == {<<k, "read">>}
WriteKey(k) == {<<k, "read">>, <<k, "write">>}

BuyYesStateKeys(a, m) ==
    WriteKey(BalanceKey(a)) \cup WriteKey(MarketKey(m)) \cup
    WriteKey(ShareBalanceKey(m, a, YesShareType))

BuyNoStateKeys(a, m) ==
    WriteKey(BalanceKey(a)) \cup WriteKey(MarketKey(m)) \cup
    WriteKey(ShareBalanceKey(m, a, NoShareType))

(* Mutant: keys that let a CreateMarket through.                           *)
CreateMarketStateKeysAll(a) ==
    WriteKey(BalanceKey(a)) \cup UNION {WriteKey(MarketKey(m)) : m \in MarketID}

(* The second key is the bare prefix byte: the market's ID is not known    *)
(* before Execute draws it.                                                *)
CreateMarketStateKeys(a) ==
    WriteKey(StateKeysBalance(a)) \cup WriteKey(<<MarketPrefix>>)

(* Mutant: the key that CanDeduct and Deduct do touch.                     *)
SponsorStateKeysUsed(a) == WriteKey(BalanceKey(a))

SponsorStateKeys(a) == ReadKey(StateKeysBalance(a))

ActionKeys(a, action) ==
    CASE action.type = "BuyYes" -> BuyYesStateKeys(a, action.order.MarketID)
      [] action.type = "BuyNo" -> BuyNoStateKeys(a, action.order.MarketID)
      [] action.type = "CreateMarket" -> CreateMarketStateKeys(a)

StateKeys(tx) ==
    SponsorStateKeys(tx.actor) \cup
    UNION {ActionKeys(tx.actor, tx.actions[j]) : j \in DOMAIN tx.actions}

(* Keys.Add rejects a key too short to end in a chunk count.               *)
StateKeysErr(tx) == \E entry \in StateKeys(tx) : Len(entry[1]) < 2

-----------------------------------------------------------------------------
(* The value-size limit that a key declares: its last two bytes, read as a *)
(* number of 64-byte chunks.  BalanceKey ends in BalanceChunks; a market   *)
(* key ends in the low bytes of the ID, a share key in the last byte of    *)
(* the address and the share type.                                         *)
MaxChunks(k) ==
    CASE k[1] = ConstsBalancePrefix -> k[3]
      [] k[1] = MarketPrefix -> k[2] % 65536
      [] k[1] = ShareBalancePrefix -> AddrTail[k[3]] * 256 + k[4]

NumChunks(size) == size \div 64 + 1

Uint64Len == 8

(* TStateView.Insert goes through: the key is declared for writing, the    *)
(* value fits, and a new key is declared for allocation.                   *)
CanInsert(scope, view, k, size) ==
    /\ <<k, "write">> \in scope
    /\ NumChunks(size) <= MaxChunks(k)
    /\ view[k] # NotFound \/ <<k, "allocate">> \in scope

(* TStateView.GetValue goes through.                                       *)
CanRead(scope, k) == <<k, "read">> \in scope

-----------------------------------------------------------------------------
(* Mutant: any balance will do.                                            *)
CanDeductAny(scope, view, a) ==
    CanRead(scope, BalanceKey(a)) /\ ~GetBalanceErr(view, a)

(* Controller.CanDeduct reads the sponsor's balance through the view.      *)
CanDeduct(scope, view, a) ==
    /\ CanRead(scope, BalanceKey(a))
    /\ ~GetBalanceErr(view, a)
    /\ GetBalance(view, a) >= Fee

(* Base.Execute fails: the transaction is for another chain, or the block  *)
(* is not within the validity window that ends at its Timestamp.           *)
BaseErr(ts, tx) ==
    \/ tx.ChainID # "this"
    \/ tx.Timestamp % TimestampDivisor # 0
    \/ tx.Timestamp < ts
    \/ tx.Timestamp > ts + ValidityWindow

(* Transaction.PreExecute goes through.  The actions and the auth modules  *)
(* are valid at any time (ValidRange is -1, -1).                           *)
PreExecute(view, ts, tx) ==
    /\ ~BaseErr(ts, tx)
    /\ Len(tx.actions) <= MaxActionsPerTx
    /\ CanDeduct(StateKeys(tx), view, tx.actor)

(* A purchase against a view with declared keys: how many of its three     *)
(* writes go through, and the view they leave.                             *)
Attempt(scope, view, ts, a, action) ==
    LET b == action.order
        t == IF action.type = "BuyYes" THEN YesShareType ELSE NoShareType
        share == ShareBalanceKey(b.MarketID, a, t)
        admitted == IF action.type = "BuyYes" THEN BuyYesAdmits(view, ts, a, b)
                                              ELSE BuyNoAdmits(view, ts, a, b)
        debited == Debited(view, a, b)
        credited == Credited(debited, a, b, t)
        market == Retotalled(GetMarket(view, b.MarketID), b, t)
        debits == admitted /\ CanInsert(scope, view, BalanceKey(a), Uint64Len)
        credits == /\ debits
                   /\ ~GetShareBalanceErr(debited, b.MarketID, a, t)
                   /\ CanInsert(scope, debited, share, Uint64Len)
        retotals == /\ credits
                    /\ ~SetMarketErr(market)
                    /\ CanInsert(scope, credited, MarketKey(market.ID), MarketSize(market))
    IN  [ok |-> retotals,
         view |-> CASE ~debits -> view
                    [] debits /\ ~credits -> debited
                    [] credits /\ ~retotals -> credited
                    [] retotals -> SetMarket(credited, market)]

(* CreateMarket.Execute with the market ID that it draws.                  *)
AttemptCreate(scope, view, ts, a, cm, id) ==
    LET market == NewMarket(a, cm, id)
        stored == /\ CreateMarketAdmits(ts, cm)
                  /\ ~SetMarketErr(market)
                  /\ CanInsert(scope, view, MarketKey(id), MarketSize(market))
    IN  [ok |-> stored, view |-> IF stored THEN SetMarket(view, market) ELSE view]

(* What executing an action may come to: crypto/rand decides on a          *)
(* CreateMarket, nothing but the view on a purchase.                       *)
Outcomes(scope, view, ts, a, action) ==
    IF action.type = "CreateMarket"
    THEN {AttemptCreate(scope, view, ts, a, action.proposal, id) : id \in MarketID}
    ELSE {Attempt(scope, view, ts, a, action)}

(* The runs of a transaction's first n actions, one after the other, from  *)
(* a state that the fee has been taken from; a failed run stays as it is.  *)
Runs(st, ts, tx) ==
    LET runs[n \in 0 .. Len(tx.actions)] ==
            IF n = 0 THEN {[ok |-> TRUE, view |-> DeductBalance(st, tx.actor, Fee)]}
            ELSE UNION {IF run.ok
                        THEN Outcomes(StateKeys(tx), run.view, ts, tx.actor, tx.actions[n])
                        ELSE {run} : run \in runs[n - 1]}
    IN  runs

(* What a transaction that runs alone may leave: the fee is charged in any *)
(* case, and the actions take effect together.                             *)
Effects(st, ts, tx) ==
    {IF run.ok THEN run.view ELSE DeductBalance(st, tx.actor, Fee) :
        run \in Runs(st, ts, tx)[Len(tx.actions)]}

(* The states a chain may start from, with the records of a fixture.      *)
StartStores ==
    {[k \in Key |-> IF k \in DOMAIN Holdings THEN Holdings[k] ELSE GenesisStore(seed)[k]] :
        seed \in Seeds}
=============================================================================
