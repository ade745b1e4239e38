--------------------------- MODULE Markets_proofs ---------------------------
(***************************************************************************)
(* Proofs about Markets, for every set of accounts and markets, every word *)
(* size and every set of timestamps, texts, amounts and prices.            *)
(***************************************************************************)
EXTENDS Markets, Ledger_proofs

(* The checks of BuyYes and BuyNo, as one: what either of them has         *)
(* established when Execute makes its first write.                         *)
Admitted(st, ts, a, b) ==
    /\ b.Amount # 0
    /\ b.MaxPrice # 0
    /\ st[MarketKey(b.MarketID)] \in Market
    /\ st[MarketKey(b.MarketID)].Status = Open
    /\ ts <= st[MarketKey(b.MarketID)].EndTime
    /\ st[BalanceKey(a)] \in U64
    /\ st[BalanceKey(a)] - Cost(b) \in U64

(* The fields of an order are a known market and two uint64.               *)
LEMMA OrderType ==
    ASSUME NEW b \in Order
    PROVE  /\ b.MarketID \in MarketID
           /\ b.Amount \in U64 /\ b.Amount \in Quantity
           /\ b.MaxPrice \in U64 /\ b.MaxPrice \in Price
           /\ Cost(b) \in U64
  <1>1. /\ b.MarketID \in MarketID
        /\ b.Amount \in U64 /\ b.Amount \in Quantity
        /\ b.MaxPrice \in U64 /\ b.MaxPrice \in Price
    BY TradeAssumption DEF Order
  <1>2. b.Amount * b.MaxPrice \in Int
    BY <1>1, WordAssumption DEF U64
  <1> QED
    BY <1>1, <1>2, WrapInU64 DEF Cost

(* Every timestamp is an integer.                                          *)
LEMMA MarketFields ==
    ASSUME NEW mkt \in Market
    PROVE  /\ mkt.ID \in MarketID /\ mkt.EndTime \in Int
           /\ mkt.Status \in MarketStatus /\ mkt.text \in Nat
           /\ mkt.TotalShares \in [ShareType -> U64]
           /\ MarketSize(mkt) \in Nat
  BY DEF Market, MarketSize, MarketFixedSize

(* BuyYes.Execute's checks amount to Admitted: its two end-time checks and *)
(* its status checks leave an Open market that has not ended.              *)
LEMMA BuyYesAdmitsFacts ==
    ASSUME NEW st, StoreOK(st), NEW ts \in Int, NEW a \in Addr, NEW b \in Order,
           BuyYesAdmits(st, ts, a, b)
    PROVE  Admitted(st, ts, a, b)
  <1>1. st[MarketKey(b.MarketID)] \in Market
    BY OrderType DEF BuyYesAdmits, GetMarketErr, StoreOK
  <1>2. st[BalanceKey(a)] \in U64
    BY DEF BuyYesAdmits, Funded, StoreOK
  <1>3. st[BalanceKey(a)] - Cost(b) \in U64
    BY <1>2, OrderType, WordAssumption DEF BuyYesAdmits, Funded, U64
  <1>4. /\ st[MarketKey(b.MarketID)].Status = Open
        /\ ts <= st[MarketKey(b.MarketID)].EndTime
    BY <1>1, MarketFields DEF BuyYesAdmits, GetMarketErr, GetMarket, MarketStatus,
       Open, TradingClosed, ResolvedYes, ResolvedNo
  <1> QED
    BY <1>1, <1>2, <1>3, <1>4 DEF Admitted, BuyYesAdmits

(* BuyNo.Execute's checks amount to Admitted too, although it makes one    *)
(* check less than BuyYes.Execute.                                         *)
LEMMA BuyNoAdmitsFacts ==
    ASSUME NEW st, StoreOK(st), NEW ts \in Int, NEW a \in Addr, NEW b \in Order,
           BuyNoAdmits(st, ts, a, b)
    PROVE  Admitted(st, ts, a, b)
  <1>1. st[MarketKey(b.MarketID)] \in Market
    BY OrderType DEF BuyNoAdmits, GetMarketErr, StoreOK
  <1>2. st[BalanceKey(a)] \in U64
    BY DEF BuyNoAdmits, Funded, StoreOK
  <1>3. st[BalanceKey(a)] - Cost(b) \in U64
    BY <1>2, OrderType, WordAssumption DEF BuyNoAdmits, Funded, U64
  <1>4. /\ st[MarketKey(b.MarketID)].Status = Open
        /\ ts <= st[MarketKey(b.MarketID)].EndTime
    BY <1>1, MarketFields DEF BuyNoAdmits, GetMarketErr, GetMarket, MarketStatus,
       Open, TradingClosed, ResolvedYes, ResolvedNo
  <1> QED
    BY <1>1, <1>2, <1>3, <1>4 DEF Admitted, BuyNoAdmits

-----------------------------------------------------------------------------
(* What a step does to the store, key by key.                              *)

AllBut(keys) == \A k \in Key \ keys : store'[k] = store[k]

(* A purchase whose share record could not be read: the debit stays.       *)
DebitOnly(a, b, t) ==
    /\ store'[BalanceKey(a)] = store[BalanceKey(a)] - Cost(b)
    /\ AllBut({BalanceKey(a)})
    /\ store[ShareBalanceKey(b.MarketID, a, t)] = 0
    /\ result' = "failed"

(* A purchase that goes through.                                           *)
Bought(a, b, t) ==
    /\ store'[BalanceKey(a)] = store[BalanceKey(a)] - Cost(b)
    /\ store'[ShareBalanceKey(b.MarketID, a, t)] =
          Wrap(GetShareBalance(store, b.MarketID, a, t) + b.Amount)
    /\ store'[MarketKey(b.MarketID)] = Retotalled(store[MarketKey(b.MarketID)], b, t)
    /\ AllBut({BalanceKey(a), ShareBalanceKey(b.MarketID, a, t),
                   MarketKey(b.MarketID)})
    /\ result' = "ok"

(* A step that leaves every record alone: a refused call, the next block,  *)
(* or a step that is not of this system.                                   *)
Idle ==
    /\ store' = store
    /\ overwritten' = overwritten
    /\ now' \in Time
    /\ result' \in {"refused", result}

(* A market stored by CreateMarket.                                        *)
Created(a, cm, id) ==
    /\ store'[MarketKey(id)] = NewMarket(a, cm, id)
    /\ AllBut({MarketKey(id)})
    /\ overwritten' = IF store[MarketKey(id)] = NotFound
                      THEN overwritten ELSE overwritten \cup {id}
    /\ result' = "ok"

(* The market a purchase writes back is a market with the same ID, status, *)
(* end time and size.                                                      *)
LEMMA RetotalledType ==
    ASSUME NEW mkt \in Market, NEW b \in Order, NEW t \in ShareType
    PROVE  /\ Retotalled(mkt, b, t) \in Market
           /\ Retotalled(mkt, b, t).ID = mkt.ID
           /\ MarketSize(Retotalled(mkt, b, t)) = MarketSize(mkt)
  <1>1. mkt.TotalShares[t] + b.Amount \in Int
    BY OrderType, WordAssumption DEF Market, U64
  <1>2. Wrap(mkt.TotalShares[t] + b.Amount) \in U64
    BY <1>1, WrapInU64
  <1> QED
    BY <1>2 DEF Retotalled, Market, MarketSize

(* Every stored market fits the writer's limit, so that SetMarket can      *)
(* write it back.                                                          *)
MarketsFit ==
    \A m \in MarketID :
        Exists(m) => MarketSize(GetMarket(store, m)) <= MaxMarketDataSize

(* The writes of an admitted purchase, as DebitOnly or Bought.  The last   *)
(* write cannot fail: the market was written under the same size limit and *)
(* its size does not change.                                               *)
LEMMA SettleEffect ==
    ASSUME StoreOK(store), MarketUnderItsKey, MarketsFit, NEW a \in Addr, NEW b \in Order,
           NEW t \in ShareType, Admitted(store, now, a, b), Settle(a, b, t)
    PROVE  StoreOK(store') /\ (DebitOnly(a, b, t) \/ Bought(a, b, t))
  <1> DEFINE m == b.MarketID
             debited == Debited(store, a, b)
             credited == Credited(debited, a, b, t)
             market == Retotalled(GetMarket(store, m), b, t)
  <1>1. m \in MarketID
    BY OrderType
  <1>2. StoreOK(debited) /\ Puts(store, debited, BalanceKey(a),
                                store[BalanceKey(a)] - Cost(b))
    <2>1. store[BalanceKey(a)] - Cost(b) \in U64
      BY DEF Admitted
    <2>2. Wrap(store[BalanceKey(a)] - Cost(b)) = store[BalanceKey(a)] - Cost(b)
      BY <2>1, WrapOnce
    <2>3. Puts(store, debited, BalanceKey(a), store[BalanceKey(a)] - Cost(b))
      BY <2>2, KeysInKey DEF Debited, Puts, StoreOK
    <2> QED
      BY <2>1, <2>3, PutsBalanceOK
  <1>3. debited[ShareBalanceKey(m, a, t)] = store[ShareBalanceKey(m, a, t)]
    BY <1>1, <1>2, KeysInKey, FamiliesDisjoint DEF Puts
  <1>4. GetShareBalance(debited, m, a, t) = GetShareBalance(store, m, a, t)
    BY <1>3 DEF GetShareBalance
  <1> DEFINE holding == Wrap(GetShareBalance(store, m, a, t) + b.Amount)
  <1>5. holding \in U64
    <2>1. GetShareBalance(store, m, a, t) + b.Amount \in Int
      BY <1>1, GetShareBalanceType, OrderType, WordAssumption DEF U64
    <2> QED
      BY <2>1, WrapInU64
  <1>6. StoreOK(credited) /\ Puts(debited, credited, ShareBalanceKey(m, a, t), holding)
    <2> HIDE DEF debited
    <2>1. Puts(debited, credited, ShareBalanceKey(m, a, t), holding)
      BY <1>1, <1>2, <1>4, KeysInKey DEF Credited, SetShareBalance, Puts, StoreOK
    <2> QED
      BY <2>1, <1>1, <1>2, <1>5, PutsSharesOK
  <1>7. /\ market \in Market
        /\ market.ID = m
        /\ ~SetMarketErr(market)
    <2>1. /\ GetMarket(store, m) \in Market /\ GetMarket(store, m).ID = m
          /\ MarketSize(GetMarket(store, m)) <= MaxMarketDataSize
      BY <1>1, NotFoundAssumption
         DEF Admitted, GetMarket, MarketUnderItsKey, MarketsFit, Exists
    <2>2. MarketSize(market) = MarketSize(GetMarket(store, m))
      BY <2>1, RetotalledType
    <2> QED
      BY <2>1, <2>2, RetotalledType, MarketFields
         DEF SetMarketErr, Admitted, GetMarket, MaxMarketDataSize
  <1> DEFINE final == SetMarket(credited, market)
  <1>8. StoreOK(final) /\ Puts(credited, final, MarketKey(m), market)
    <2> HIDE DEF credited, market
    <2>1. Puts(credited, final, MarketKey(m), market)
      BY <1>1, <1>6, <1>7, KeysInKey DEF SetMarket, Puts, StoreOK
    <2> QED
      BY <2>1, <1>1, <1>6, <1>7, PutsMarketOK
  <1>9. CASE GetShareBalanceErr(debited, m, a, t)
    <2>1. store' = debited /\ result' = "failed"
      BY <1>9 DEF Settle
    <2>2. store[ShareBalanceKey(m, a, t)] = 0
      BY <1>3, <1>9 DEF GetShareBalanceErr, UnpackRequiredErr
    <2> HIDE DEF debited
    <2> QED
      BY <1>2, <2>1, <2>2 DEF DebitOnly, AllBut, Puts
  <1>10. CASE ~GetShareBalanceErr(debited, m, a, t)
    <2>1. store' = final /\ result' = "ok"
      BY <1>7, <1>10 DEF Settle
    <2>2. final[BalanceKey(a)] = store[BalanceKey(a)] - Cost(b)
      <3> HIDE DEF debited, credited, final
      <3> QED
        BY <1>1, <1>2, <1>6, <1>8, KeysInKey, FamiliesDisjoint DEF Puts
    <2>3. final[ShareBalanceKey(m, a, t)] =
             Wrap(GetShareBalance(store, m, a, t) + b.Amount)
      <3> HIDE DEF debited, credited, final
      <3> QED
        BY <1>1, <1>6, <1>8, KeysInKey, FamiliesDisjoint DEF Puts
    <2>4. \A k \in Key \ {BalanceKey(a), ShareBalanceKey(m, a, t), MarketKey(m)} :
             final[k] = store[k]
      <3> HIDE DEF debited, credited, final
      <3> QED
        BY <1>2, <1>6, <1>8 DEF Puts
    <2>5. final[MarketKey(m)] = Retotalled(store[MarketKey(m)], b, t)
      BY <1>8 DEF GetMarket, Puts
    <2> HIDE DEF final
    <2> QED
      BY <1>8, <2>1, <2>2, <2>3, <2>4, <2>5 DEF Bought, AllBut
  <1> QED
    BY <1>9, <1>10

(* A CreateMarket that passes validation and fits the size limit stores    *)
(* the new market and touches nothing else.                                *)
LEMMA CreateEffect ==
    ASSUME StoreOK(store), now \in Time, NEW a \in Addr, NEW cm \in Proposal,
           NEW id \in MarketID, CreateMarket(a, cm, id), result' # "refused"
    PROVE  /\ StoreOK(store')
           /\ NewMarket(a, cm, id) \in Market
           /\ MarketSize(NewMarket(a, cm, id)) <= MaxMarketDataSize
           /\ Created(a, cm, id)
  <1> DEFINE market == NewMarket(a, cm, id)
  <1>1. market \in Market /\ market.ID = id
    <2>1. cm.text \in Text /\ cm.EndTime \in Int /\ cm.ResolutionTime \in Int
      BY TimeAssumption DEF Proposal
    <2>2. cm.text.Description + cm.text.OracleSource + cm.text.OracleParameters \in Nat
      BY <2>1, TextAssumption
    <2>3. [t \in ShareType |-> 0] \in [ShareType -> U64] /\ Open \in MarketStatus
      BY WordAssumption DEF U64, MarketStatus
    <2> QED
      BY <2>1, <2>2, <2>3 DEF NewMarket, Market
  <1>2. /\ store' = SetMarket(store, market)
        /\ ~SetMarketErr(market)
        /\ overwritten' = IF store[MarketKey(id)] = NotFound
                          THEN overwritten ELSE overwritten \cup {id}
        /\ result' = "ok"
    BY DEF CreateMarket
  <1>3. MarketSize(market) <= MaxMarketDataSize
    BY <1>1, <1>2, MarketFields DEF SetMarketErr, MaxMarketDataSize
  <1> HIDE DEF market
  <1>4. Puts(store, store', MarketKey(id), market)
    BY <1>1, <1>2, KeysInKey DEF SetMarket, Puts, StoreOK
  <1>5. StoreOK(store')
    BY <1>1, <1>4, PutsMarketOK
  <1>6. market = NewMarket(a, cm, id)
    BY DEF market
  <1> QED
    BY <1>1, <1>2, <1>3, <1>4, <1>5, <1>6 DEF Created, AllBut, Puts

-----------------------------------------------------------------------------
(* The inductive invariant.  A purchase reads the market under the order's *)
(* ID and writes it back under the record's own ID, so types alone do not  *)
(* say which key changes: MarketUnderItsKey does.  MarketsFit is what      *)
(* keeps the last write of a purchase from failing.                        *)
IInv ==
    /\ TypeOK
    /\ MarketUnderItsKey
    /\ SharesHaveMarket
    /\ MarketsFit
    /\ FailsOnlyOnZeroShares

(* Every step leaves the store alone, or is a debit whose purchase failed, *)
(* a whole purchase, or a new market.                                      *)
LEMMA StepEffect ==
    ASSUME TypeOK, MarketUnderItsKey, MarketsFit, [Next]_vars
    PROVE  /\ StoreOK(store')
           /\ \/ Idle
              \/ \E a \in Addr, b \in Order, t \in ShareType :
                    /\ Admitted(store, now, a, b)
                    /\ DebitOnly(a, b, t) \/ Bought(a, b, t)
                    /\ now' = now
                    /\ overwritten' = overwritten
              \/ \E a \in Addr, cm \in Proposal, id \in MarketID :
                    /\ NewMarket(a, cm, id) \in Market
                    /\ MarketSize(NewMarket(a, cm, id)) <= MaxMarketDataSize
                    /\ Created(a, cm, id)
                    /\ now' = now
  <1>0. StoreOK(store) /\ now \in Time /\ now \in Int
    BY TimeAssumption DEF TypeOK
  <1>1. ASSUME NEW a \in Addr, NEW b \in Order, BuyYes(a, b), ~Idle
        PROVE  /\ StoreOK(store') /\ now' = now /\ overwritten' = overwritten
               /\ Admitted(store, now, a, b)
               /\ DebitOnly(a, b, YesShareType) \/ Bought(a, b, YesShareType)
    <2>1. BuyYesAdmits(store, now, a, b) /\ Settle(a, b, YesShareType)
      BY <1>0, <1>1 DEF BuyYes, Idle
    <2>2. Admitted(store, now, a, b)
      BY <1>0, <2>1, BuyYesAdmitsFacts
    <2>3. YesShareType \in ShareType
      BY DEF ShareType
    <2>4. StoreOK(store') /\ (DebitOnly(a, b, YesShareType) \/ Bought(a, b, YesShareType))
      BY <1>0, <2>1, <2>2, <2>3, SettleEffect
    <2> QED
      BY <1>1, <2>2, <2>4 DEF BuyYes
  <1>2. ASSUME NEW a \in Addr, NEW b \in Order, BuyNo(a, b), ~Idle
        PROVE  /\ StoreOK(store') /\ now' = now /\ overwritten' = overwritten
               /\ Admitted(store, now, a, b)
               /\ DebitOnly(a, b, NoShareType) \/ Bought(a, b, NoShareType)
    <2>1. BuyNoAdmits(store, now, a, b) /\ Settle(a, b, NoShareType)
      BY <1>0, <1>2 DEF BuyNo, Idle
    <2>2. Admitted(store, now, a, b)
      BY <1>0, <2>1, BuyNoAdmitsFacts
    <2>3. NoShareType \in ShareType
      BY DEF ShareType
    <2>4. StoreOK(store') /\ (DebitOnly(a, b, NoShareType) \/ Bought(a, b, NoShareType))
      BY <1>0, <2>1, <2>2, <2>3, SettleEffect
    <2> QED
      BY <1>2, <2>2, <2>4 DEF BuyNo
  <1>3. ASSUME NEW a \in Addr, NEW cm \in Proposal, NEW id \in MarketID,
               CreateMarket(a, cm, id), ~Idle
        PROVE  /\ StoreOK(store') /\ now' = now
               /\ NewMarket(a, cm, id) \in Market
               /\ MarketSize(NewMarket(a, cm, id)) <= MaxMarketDataSize
               /\ Created(a, cm, id)
    <2>1. now' = now /\ result' # "refused"
      BY <1>0, <1>3 DEF CreateMarket, Idle
    <2> QED
      BY <1>0, <1>3, <2>1, CreateEffect
  <1>4. CASE NextBlock \/ UNCHANGED vars
    <2>1. Idle
      BY <1>0, <1>4 DEF NextBlock, vars, Idle
    <2> QED
      BY <1>0, <2>1 DEF Idle
  <1>5. CASE Idle
    BY <1>0, <1>5 DEF Idle
  <1>6. CASE ~Idle /\ \E a \in Addr, b \in Order : BuyYes(a, b)
    <2>1. YesShareType \in ShareType
      BY DEF ShareType
    <2> QED
      BY <1>1, <1>6, <2>1
  <1>7. CASE ~Idle /\ \E a \in Addr, b \in Order : BuyNo(a, b)
    <2>1. NoShareType \in ShareType
      BY DEF ShareType
    <2> QED
      BY <1>2, <1>7, <2>1
  <1>8. CASE ~Idle /\ \E a \in Addr, cm \in Proposal, id \in MarketID :
                        CreateMarket(a, cm, id)
    BY <1>3, <1>8
  <1> QED
    BY <1>4, <1>5, <1>6, <1>7, <1>8 DEF Next

(* The invariant holds of what genesis leaves.                             *)
LEMMA InitIInv == Init => IInv
  <1> SUFFICES ASSUME Init PROVE IInv
    OBVIOUS
  <1>1. PICK seed \in Seeds : store = GenesisStore(seed)
    BY DEF Init
  <1>2. /\ store = [k \in Key |-> store[k]]
        /\ \A a \in Addr : store[BalanceKey(a)] = Genesis[a]
        /\ \A a \in Addr : store[StateKeysBalance(a)] = NotFound
        /\ \A m \in MarketID : store[MarketKey(m)] = seed[m]
        /\ \A m \in MarketID, a \in Addr, t \in ShareType :
              store[ShareBalanceKey(m, a, t)] = NotFound
    BY <1>1, GenesisRecords
  <1>3. \A m \in MarketID :
           \/ seed[m] = NotFound
           \/ /\ seed[m] \in Market
              /\ seed[m].ID = m
              /\ MarketSize(seed[m]) <= MaxMarketDataSize
    BY SeedsAssumption
  <1>4. TypeOK
    BY <1>2, <1>3, GenesisAssumption DEF TypeOK, StoreOK, Init, Result
  <1>5. MarketUnderItsKey /\ SharesHaveMarket
    BY <1>2, <1>3 DEF MarketUnderItsKey, SharesHaveMarket, Exists, GetMarket
  <1>6. MarketsFit
    BY <1>2, <1>3, MarketFields
       DEF MarketsFit, Exists, GetMarket, MaxMarketDataSize
  <1>7. FailsOnlyOnZeroShares
    BY DEF FailsOnlyOnZeroShares, Init
  <1> QED
    BY <1>4, <1>5, <1>6, <1>7 DEF IInv

(* A whole purchase leaves a market's ID and size alone, stores no share   *)
(* of a missing market and does not end in "failed".                       *)
LEMMA BoughtKeepsIInv ==
    ASSUME IInv, NEW a \in Addr, NEW b \in Order, NEW t \in ShareType,
           Admitted(store, now, a, b), Bought(a, b, t), StoreOK(store'),
           now' = now, overwritten' = overwritten
    PROVE  IInv'
  <1> DEFINE m == b.MarketID
  <1>1. m \in MarketID
    BY OrderType
  <1>2. /\ store'[MarketKey(m)] = Retotalled(store[MarketKey(m)], b, t)
        /\ store[MarketKey(m)] \in Market
        /\ store'[MarketKey(m)] \in Market
        /\ store'[MarketKey(m)].ID = store[MarketKey(m)].ID
        /\ MarketSize(store'[MarketKey(m)]) = MarketSize(store[MarketKey(m)])
    BY RetotalledType DEF Bought, Admitted
  <1>3. \A n \in MarketID : n # m => store'[MarketKey(n)] = store[MarketKey(n)]
    BY <1>1, KeysInKey, KeysInjective, FamiliesDisjoint DEF Bought, AllBut
  <1>4. \A n \in MarketID, c \in Addr, u \in ShareType :
           ShareBalanceKey(n, c, u) # ShareBalanceKey(m, a, t)
              => store'[ShareBalanceKey(n, c, u)] = store[ShareBalanceKey(n, c, u)]
    BY <1>1, KeysInKey, FamiliesDisjoint DEF Bought, AllBut
  <1>5. TypeOK'
    BY DEF IInv, TypeOK, Bought, Result
  <1>6. MarketUnderItsKey'
    BY <1>1, <1>2, <1>3, NotFoundAssumption
       DEF IInv, MarketUnderItsKey, Exists, GetMarket
  <1>7. SharesHaveMarket'
    BY <1>1, <1>2, <1>3, <1>4, KeysInjective, NotFoundAssumption
       DEF IInv, SharesHaveMarket, Exists
  <1>8. MarketsFit'
    BY <1>1, <1>2, <1>3, NotFoundAssumption
       DEF IInv, MarketsFit, Exists, GetMarket
  <1>9. FailsOnlyOnZeroShares'
    BY DEF FailsOnlyOnZeroShares, Bought
  <1> QED
    BY <1>5, <1>6, <1>7, <1>8, <1>9 DEF IInv

(* A failed purchase changes one balance, and is witnessed by the share    *)
(* record that it could not read.                                          *)
LEMMA DebitOnlyKeepsIInv ==
    ASSUME IInv, NEW a \in Addr, NEW b \in Order, NEW t \in ShareType,
           DebitOnly(a, b, t), StoreOK(store'), now' = now, overwritten' = overwritten
    PROVE  IInv'
  <1>1. \A n \in MarketID : store'[MarketKey(n)] = store[MarketKey(n)]
    BY KeysInKey, FamiliesDisjoint DEF DebitOnly, AllBut
  <1>2. \A n \in MarketID, c \in Addr, u \in ShareType :
           store'[ShareBalanceKey(n, c, u)] = store[ShareBalanceKey(n, c, u)]
    BY KeysInKey, FamiliesDisjoint DEF DebitOnly, AllBut
  <1>3. TypeOK'
    BY DEF IInv, TypeOK, DebitOnly, Result
  <1>4. MarketUnderItsKey' /\ SharesHaveMarket' /\ MarketsFit'
    BY <1>1, <1>2
       DEF IInv, MarketUnderItsKey, SharesHaveMarket, MarketsFit, Exists, GetMarket
  <1>5. FailsOnlyOnZeroShares'
    BY <1>2, OrderType DEF FailsOnlyOnZeroShares, DebitOnly
  <1> QED
    BY <1>3, <1>4, <1>5 DEF IInv

(* A new market is stored under its own ID and within the size limit.      *)
LEMMA CreatedKeepsIInv ==
    ASSUME IInv, NEW a \in Addr, NEW cm \in Proposal, NEW id \in MarketID,
           NewMarket(a, cm, id) \in Market,
           MarketSize(NewMarket(a, cm, id)) <= MaxMarketDataSize,
           Created(a, cm, id), StoreOK(store'), now' = now
    PROVE  IInv'
  <1>1. /\ store'[MarketKey(id)] \in Market
        /\ store'[MarketKey(id)].ID = id
        /\ MarketSize(store'[MarketKey(id)]) <= MaxMarketDataSize
    BY DEF Created, NewMarket
  <1>2. \A n \in MarketID : n # id => store'[MarketKey(n)] = store[MarketKey(n)]
    BY KeysInKey, KeysInjective DEF Created, AllBut
  <1>3. \A n \in MarketID, c \in Addr, u \in ShareType :
           store'[ShareBalanceKey(n, c, u)] = store[ShareBalanceKey(n, c, u)]
    BY KeysInKey, FamiliesDisjoint DEF Created, AllBut
  <1>4. TypeOK'
    BY DEF IInv, TypeOK, Created, Result
  <1>5. MarketUnderItsKey' /\ SharesHaveMarket'
    BY <1>1, <1>2, <1>3, NotFoundAssumption
       DEF IInv, MarketUnderItsKey, SharesHaveMarket, Exists, GetMarket
  <1>6. MarketsFit'
    BY <1>1, <1>2, MarketFields, NotFoundAssumption
       DEF IInv, MarketsFit, Exists, GetMarket, MaxMarketDataSize
  <1>7. FailsOnlyOnZeroShares'
    BY DEF FailsOnlyOnZeroShares, Created
  <1> QED
    BY <1>4, <1>5, <1>6, <1>7 DEF IInv

(* Every step keeps the invariant.                                         *)
LEMMA NextIInv == IInv /\ [Next]_vars => IInv'
  <1> SUFFICES ASSUME IInv, [Next]_vars PROVE IInv'
    OBVIOUS
  <1>1. TypeOK /\ MarketUnderItsKey /\ MarketsFit
    BY DEF IInv
  <1>2. CASE Idle
    BY <1>2 DEF Idle, IInv, TypeOK, Result, MarketUnderItsKey, SharesHaveMarket,
       MarketsFit, FailsOnlyOnZeroShares, Exists, GetMarket
  <1> QED
    BY <1>1, <1>2, StepEffect, BoughtKeepsIInv, DebitOnlyKeepsIInv, CreatedKeepsIInv

(* The invariant holds throughout, of every instance of the specification. *)
THEOREM Invariance == Spec => []IInv
  BY InitIInv, NextIInv, PTL DEF Spec

(* Every record in the state decodes as its key says: the checks and       *)
(* conversions of CreateMarket, BuyYes and BuyNo never store anything else. *)
THEOREM TypeCorrect == Spec => []TypeOK
  BY Invariance, PTL DEF IInv

(* A market record is stored under its own ID, for any number of markets,  *)
(* reused IDs included.                                                    *)
THEOREM MarketKeysCorrect == Spec => []MarketUnderItsKey
  BY Invariance, PTL DEF IInv

(* Share records exist only for stored markets.                            *)
THEOREM SharesNeedMarket == Spec => []SharesHaveMarket
  BY Invariance, PTL DEF IInv

(* The only way a purchase fails after its debit is a share record of      *)
(* zero: the market is written back whatever the texts it was created      *)
(* with.                                                                   *)
THEOREM FailureCause == Spec => []FailsOnlyOnZeroShares
  BY Invariance, PTL DEF IInv

-----------------------------------------------------------------------------
(* Action properties.                                                      *)

(* BuyYes, BuyNo and CreateMarket never raise a balance.                   *)
THEOREM BalancesFall == Spec => BalancesNeverGrow
  <1>1. ASSUME IInv, [Next]_vars PROVE GrowsNoBalance
    <2> SUFFICES ASSUME NEW c \in Addr
                 PROVE  /\ Balance(c)' <= Balance(c)
                        /\ store[BalanceKey(c)] = NotFound
                              => store'[BalanceKey(c)] = NotFound
      BY DEF GrowsNoBalance
    <2>1. TypeOK /\ MarketUnderItsKey /\ MarketsFit
      BY <1>1 DEF IInv
    <2>2. store[BalanceKey(c)] \in U64 \cup {NotFound}
      BY <2>1 DEF TypeOK, StoreOK
    <2>3. CASE store'[BalanceKey(c)] = store[BalanceKey(c)]
      BY <2>2, <2>3, WordAssumption DEF Balance, GetBalance, ZeroIfNotFound, U64
    <2>4. ASSUME NEW a \in Addr, NEW b \in Order, NEW t \in ShareType,
                 Admitted(store, now, a, b), DebitOnly(a, b, t) \/ Bought(a, b, t),
                 store'[BalanceKey(c)] # store[BalanceKey(c)]
          PROVE  /\ Balance(c)' <= Balance(c)
                 /\ store[BalanceKey(c)] # NotFound
      <3>1. c = a
        BY <2>4, OrderType, KeysInKey, KeysInjective, FamiliesDisjoint
           DEF DebitOnly, Bought, AllBut
      <3>2. store'[BalanceKey(c)] = store[BalanceKey(c)] - Cost(b)
        BY <2>4, <3>1 DEF DebitOnly, Bought
      <3>3. /\ store[BalanceKey(c)] \in U64
            /\ store[BalanceKey(c)] - Cost(b) \in U64
            /\ Cost(b) \in U64
        BY <2>4, <3>1, OrderType DEF Admitted
      <3>4. /\ store[BalanceKey(c)] # NotFound
            /\ store[BalanceKey(c)] - Cost(b) # NotFound
        BY <3>3, NotFoundAssumption DEF U64
      <3>5. Balance(c) = store[BalanceKey(c)] /\ Balance(c)' = store[BalanceKey(c)] - Cost(b)
        BY <3>2, <3>4 DEF Balance, GetBalance, ZeroIfNotFound
      <3> QED
        BY <3>3, <3>4, <3>5, WordAssumption DEF U64
    <2>5. ASSUME NEW a \in Addr, NEW cm \in Proposal, NEW id \in MarketID,
                 Created(a, cm, id)
          PROVE  store'[BalanceKey(c)] = store[BalanceKey(c)]
      BY <2>5, KeysInKey, FamiliesDisjoint DEF Created, AllBut
    <2>6. CASE Idle
      BY <2>3, <2>6 DEF Idle
    <2> QED
      BY <1>1, <2>1, <2>3, <2>4, <2>5, <2>6, StepEffect
  <1> QED
    BY <1>1, Invariance, PTL DEF Spec, BalancesNeverGrow

(* A market that has ended or is not Open is not traded any more.          *)
THEOREM ClosedStaysFrozen == Spec => ClosedMarketsFrozen
  <1>1. ASSUME IInv, [Next]_vars PROVE KeepsClosedMarkets
    <2> SUFFICES ASSUME NEW m \in MarketID, Closed(m)
                 PROVE  /\ \A c \in Addr, u \in ShareType :
                              store'[ShareBalanceKey(m, c, u)] =
                                 store[ShareBalanceKey(m, c, u)]
                        /\ m \in overwritten' \/ store'[MarketKey(m)] = store[MarketKey(m)]
      BY DEF KeepsClosedMarkets
    <2>1. TypeOK /\ MarketUnderItsKey /\ MarketsFit /\ now \in Int
      BY <1>1, TimeAssumption DEF IInv, TypeOK
    <2>2. ASSUME NEW a \in Addr, NEW b \in Order, NEW t \in ShareType,
                 Admitted(store, now, a, b), DebitOnly(a, b, t) \/ Bought(a, b, t)
          PROVE  /\ \A c \in Addr, u \in ShareType :
                       store'[ShareBalanceKey(m, c, u)] = store[ShareBalanceKey(m, c, u)]
                 /\ store'[MarketKey(m)] = store[MarketKey(m)]
      <3>1. m # b.MarketID
        BY <2>1, <2>2, MarketFields DEF Closed, Admitted, GetMarket
      <3> QED
        BY <2>2, <3>1, OrderType, KeysInKey, KeysInjective, FamiliesDisjoint
           DEF DebitOnly, Bought, AllBut
    <2>3. ASSUME NEW a \in Addr, NEW cm \in Proposal, NEW id \in MarketID,
                 Created(a, cm, id)
          PROVE  /\ \A c \in Addr, u \in ShareType :
                       store'[ShareBalanceKey(m, c, u)] = store[ShareBalanceKey(m, c, u)]
                 /\ m \in overwritten' \/ store'[MarketKey(m)] = store[MarketKey(m)]
      <3>1. \A c \in Addr, u \in ShareType :
               store'[ShareBalanceKey(m, c, u)] = store[ShareBalanceKey(m, c, u)]
        BY <2>3, KeysInKey, FamiliesDisjoint DEF Created, AllBut
      <3>2. CASE m = id
        BY <2>3, <3>1, <3>2 DEF Created, Closed, Exists
      <3>3. CASE m # id
        BY <2>3, <3>1, <3>3, KeysInKey, KeysInjective DEF Created, AllBut
      <3> QED
        BY <3>2, <3>3
    <2>4. CASE Idle
      BY <2>4 DEF Idle
    <2> QED
      BY <1>1, <2>1, <2>2, <2>3, <2>4, StepEffect
  <1> QED
    BY <1>1, Invariance, PTL DEF Spec, ClosedMarketsFrozen

(* A holding changes only in a whole purchase, whatever the word size and  *)
(* the prices: the credit, the total and the payment agree even where      *)
(* uint64 arithmetic wraps.                                                *)
THEOREM PurchasesAreWhole == Spec => WholePurchases
  <1>1. ASSUME IInv, [Next]_vars PROVE TradesWhole
    <2> SUFFICES ASSUME NEW m \in MarketID, NEW c \in Addr, NEW u \in ShareType,
                        Share(m, c, u)' # Share(m, c, u)
                 PROVE  Purchase(m, c, u)
      BY DEF TradesWhole
    <2>1. TypeOK /\ MarketUnderItsKey /\ MarketsFit /\ StoreOK(store)
      BY <1>1 DEF IInv, TypeOK
    <2>2. store'[ShareBalanceKey(m, c, u)] # store[ShareBalanceKey(m, c, u)]
      BY DEF Share, GetShareBalance
    <2>3. ASSUME NEW a \in Addr, NEW b \in Order, NEW t \in ShareType,
                 Admitted(store, now, a, b), DebitOnly(a, b, t) \/ Bought(a, b, t)
          PROVE  Purchase(m, c, u)
      <3>1. Bought(a, b, t) /\ m = b.MarketID /\ c = a /\ u = t
        BY <2>2, <2>3, OrderType, KeysInKey, KeysInjective, FamiliesDisjoint
           DEF DebitOnly, Bought, AllBut
      <3>2. Share(m, c, u) \in U64
        BY <2>1, GetShareBalanceType DEF Share
      <3>3. Share(m, c, u)' = Wrap(Share(m, c, u) + b.Amount)
        <4>1. Wrap(Share(m, c, u) + b.Amount) \in U64
          <5>1. Share(m, c, u) + b.Amount \in Int
            BY <3>2, OrderType, WordAssumption DEF U64
          <5> QED
            BY <5>1, WrapInU64
        <4>2. Wrap(Share(m, c, u) + b.Amount) # NotFound
          BY <4>1, NotFoundAssumption DEF U64
        <4>3. store'[ShareBalanceKey(m, c, u)] = Wrap(Share(m, c, u) + b.Amount)
          BY <3>1 DEF Bought, Share
        <4> QED
          BY <4>2, <4>3 DEF Share, GetShareBalance, ZeroIfNotFound
      <3>4. Wrap(Share(m, c, u)' - Share(m, c, u)) = b.Amount
        BY <3>2, <3>3, OrderType, WrapDifference
      <3>5. store'[MarketKey(m)] =
               [store[MarketKey(m)] EXCEPT !.TotalShares[u] = Wrap(@ + b.Amount)]
        BY <3>1 DEF Bought, Retotalled
      <3>6. Balance(c) - Balance(c)' = Wrap(b.Amount * b.MaxPrice) /\ b.MaxPrice \in Price
        <4>1. /\ store[BalanceKey(c)] \in U64
              /\ store[BalanceKey(c)] - Cost(b) \in U64
              /\ store'[BalanceKey(c)] = store[BalanceKey(c)] - Cost(b)
              /\ Cost(b) \in U64
          BY <2>3, <3>1, OrderType DEF Admitted, Bought
        <4>2. /\ store[BalanceKey(c)] # NotFound
              /\ store[BalanceKey(c)] - Cost(b) # NotFound
          BY <4>1, NotFoundAssumption DEF U64
        <4>3. /\ Balance(c) = store[BalanceKey(c)]
              /\ Balance(c)' = store[BalanceKey(c)] - Cost(b)
          BY <4>1, <4>2 DEF Balance, GetBalance, ZeroIfNotFound
        <4>4. Balance(c) - Balance(c)' = Cost(b)
          BY <4>1, <4>3, WordAssumption DEF U64
        <4> QED
          BY <4>4, OrderType DEF Cost
      <3>7. \A k \in Key \ {BalanceKey(c), MarketKey(m), ShareBalanceKey(m, c, u)} :
               store'[k] = store[k]
        BY <3>1 DEF Bought, AllBut
      <3> QED
        BY <3>4, <3>5, <3>6, <3>7 DEF Purchase
    <2>4. ASSUME NEW a \in Addr, NEW cm \in Proposal, NEW id \in MarketID,
                 Created(a, cm, id)
          PROVE  FALSE
      BY <2>2, <2>4, KeysInKey, FamiliesDisjoint DEF Created, AllBut
    <2>5. ~Idle
      BY <2>2 DEF Idle
    <2> QED
      BY <1>1, <2>1, <2>3, <2>4, <2>5, StepEffect
  <1> QED
    BY <1>1, Invariance, PTL DEF Spec, WholePurchases

-----------------------------------------------------------------------------
(* Totals.                                                                 *)

(* A market's recorded totals are what its holders have.                   *)
Matches(st, m) ==
    \A t \in ShareType : st[MarketKey(m)].TotalShares[t] = Wrap(Held(st, m, t))

(* SharesMatchTotals, market by market.                                    *)
TotalsMatch ==
    \A m \in MarketID \ overwritten :
        store[MarketKey(m)] # NotFound => Matches(store, m)

(* The two say the same.                                                   *)
LEMMA TotalsByMarket == SharesMatchTotals <=> TotalsMatch
  BY Zenon DEF SharesMatchTotals, TotalsMatch, Matches, Exists, GetMarket

(* Neither totals nor holdings of a market that a step leaves alone come   *)
(* apart.                                                                  *)
LEMMA MatchesKept ==
    ASSUME NEW st, StoreOK(st), NEW s, StoreOK(s), NEW m \in MarketID,
           s[MarketKey(m)] = st[MarketKey(m)],
           \A c \in Addr, t \in ShareType :
              s[ShareBalanceKey(m, c, t)] = st[ShareBalanceKey(m, c, t)],
           Matches(st, m)
    PROVE  Matches(s, m)
  <1>1. ASSUME NEW t \in ShareType PROVE Held(s, m, t) = Held(st, m, t)
    <2>1. \A c \in Addr : GetShareBalance(s, m, c, t) = GetShareBalance(st, m, c, t)
      BY <1>1 DEF GetShareBalance
    <2> QED
      BY <1>1, <2>1, HeldKept
  <1> QED
    BY <1>1 DEF Matches

(* A purchase adds as much to the total as to the holding, and both wrap   *)
(* alike.                                                                  *)
LEMMA BoughtMatches ==
    ASSUME StoreOK(store), StoreOK(store'), NEW a \in Addr, NEW b \in Order,
           NEW t \in ShareType, Admitted(store, now, a, b), Bought(a, b, t),
           Matches(store, b.MarketID)
    PROVE  Matches(store', b.MarketID)
  <1> DEFINE m == b.MarketID
             old == store[MarketKey(m)]
             new == store'[MarketKey(m)]
             x == GetShareBalance(store, m, a, t)
  <1>1. m \in MarketID /\ b.Amount \in U64 /\ b.Amount \in Int
    BY OrderType, WordAssumption DEF U64
  <1>2. old \in Market /\ new = Retotalled(old, b, t)
    BY DEF Admitted, Bought
  <1>3. /\ new.TotalShares[t] = Wrap(old.TotalShares[t] + b.Amount)
        /\ \A u \in ShareType : u # t => new.TotalShares[u] = old.TotalShares[u]
    BY <1>2 DEF Retotalled, Market
  <1>4. \A c \in Addr, u \in ShareType :
           c # a \/ u # t => GetShareBalance(store', m, c, u) = GetShareBalance(store, m, c, u)
    BY <1>1, KeysInKey, KeysInjective, FamiliesDisjoint
       DEF Bought, AllBut, GetShareBalance
  <1>5. x \in U64 /\ x \in Int /\ Wrap(x + b.Amount) \in U64
    BY <1>1, GetShareBalanceType, WrapInU64, WordAssumption DEF U64
  <1>6. GetShareBalance(store', m, a, t) = Wrap(x + b.Amount)
    <2>1. Wrap(x + b.Amount) # NotFound
      BY <1>5, NotFoundAssumption DEF U64
    <2> QED
      BY <2>1 DEF Bought, GetShareBalance, ZeroIfNotFound
  <1>7. /\ Held(store, m, t) \in Int
        /\ Held(store', m, t) = Held(store, m, t) + (Wrap(x + b.Amount) - x)
    <2>1. \A c \in Addr \ {a} :
             GetShareBalance(store', m, c, t) = GetShareBalance(store, m, c, t)
      BY <1>4
    <2> HIDE DEF m
    <2>2. /\ Held(store, m, t) \in Int
          /\ Held(store', m, t) = Held(store, m, t)
                + (GetShareBalance(store', m, a, t) - GetShareBalance(store, m, a, t))
      BY <1>1, <2>1, HeldMoves
    <2> QED
      BY <1>6, <2>2
  <1>8. Wrap(Held(store', m, t)) = Wrap(Held(store, m, t) + b.Amount)
    <2> DEFINE H == Held(store, m, t)
               G == Held(store', m, t)
               n == b.Amount
    <2>1. H \in Int /\ G = H + (Wrap(x + n) - x)
      BY <1>7
    <2> HIDE DEF H, G, x, n
    <2>2. CASE x + n < Word
      <3>1. x + n \in U64
        BY <1>1, <1>5, <2>2, WordAssumption DEF U64, n
      <3>2. Wrap(x + n) = x + n
        BY <3>1, WrapOnce
      <3> QED
        BY <1>1, <1>5, <2>1, <3>2 DEF n, G, H
    <2>3. CASE ~(x + n < Word)
      <3>1. (x + n) - Word \in U64 /\ ((x + n) - Word) + Word = x + n
        BY <1>1, <1>5, <2>3, WordAssumption DEF U64, n
      <3>2. Wrap(x + n) = (x + n) - Word
        BY <3>1, WrapOnce
      <3>3. H + n \in Int /\ G = (H + n) - Word
        BY <1>1, <1>5, <2>1, <3>2, WordAssumption DEF n
      <3>4. Wrap((H + n) - Word) = Wrap(H + n)
        BY <1>1, <3>3, WrapSum
      <3> QED
        BY <3>3, <3>4 DEF n, G, H
    <2> QED
      BY <2>2, <2>3
  <1>9. Wrap(Wrap(Held(store, m, t)) + b.Amount) = Wrap(Held(store, m, t) + b.Amount)
    BY <1>1, <1>7, WrapSum
  <1>10. new.TotalShares[t] = Wrap(Held(store', m, t))
    BY <1>3, <1>8, <1>9 DEF Matches
  <1>11. ASSUME NEW u \in ShareType, u # t
         PROVE  new.TotalShares[u] = Wrap(Held(store', m, u))
    <2>1. \A c \in Addr : GetShareBalance(store', m, c, u) = GetShareBalance(store, m, c, u)
      BY <1>4, <1>11
    <2> HIDE DEF m
    <2>2. Held(store', m, u) = Held(store, m, u)
      BY <1>1, <1>11, <2>1, HeldKept
    <2> QED
      BY <1>3, <1>11, <2>2 DEF Matches, m
  <1> QED
    BY <1>10, <1>11 DEF Matches

(* Genesis stores markets without shares, whose totals are zero.           *)
LEMMA InitTotals == Init => TotalsMatch
  <1> SUFFICES ASSUME Init, NEW m \in MarketID, store[MarketKey(m)] # NotFound,
                      NEW t \in ShareType
               PROVE  store[MarketKey(m)].TotalShares[t] = Wrap(Held(store, m, t))
    BY DEF TotalsMatch, Matches
  <1>1. PICK seed \in Seeds : store = GenesisStore(seed)
    BY DEF Init
  <1>2. /\ store[MarketKey(m)] = seed[m]
        /\ \A c \in Addr : store[ShareBalanceKey(m, c, t)] = NotFound
    BY <1>1, GenesisRecords
  <1>3. store[MarketKey(m)].TotalShares[t] = 0
    BY <1>2, SeedsAssumption
  <1>4. Held(store, m, t) = 0
    <2>1. \A c \in Addr : GetShareBalance(store, m, c, t) = 0
      BY <1>2 DEF GetShareBalance, ZeroIfNotFound
    <2> QED
      BY <2>1, HeldZero
  <1>5. Wrap(0) = 0
    BY WrapOnce, WordAssumption DEF U64
  <1> QED
    BY <1>3, <1>4, <1>5

(* A purchase keeps the totals, of its market by BoughtMatches.            *)
LEMMA BoughtKeepsTotals ==
    ASSUME StoreOK(store), StoreOK(store'), TotalsMatch,
           NEW a \in Addr, NEW b \in Order, NEW t \in ShareType,
           Admitted(store, now, a, b), Bought(a, b, t), overwritten' = overwritten
    PROVE  TotalsMatch'
  <1> SUFFICES ASSUME NEW m \in MarketID \ overwritten, store'[MarketKey(m)] # NotFound
               PROVE  Matches(store', m)
    BY DEF TotalsMatch
  <1>1. CASE m = b.MarketID
    <2>1. store[MarketKey(m)] # NotFound
      BY <1>1, NotFoundAssumption DEF Admitted
    <2>2. Matches(store, m)
      BY <2>1 DEF TotalsMatch
    <2> QED
      BY <1>1, <2>2, BoughtMatches
  <1>2. CASE m # b.MarketID
    <2>1. /\ store'[MarketKey(m)] = store[MarketKey(m)]
          /\ \A c \in Addr, u \in ShareType :
                store'[ShareBalanceKey(m, c, u)] = store[ShareBalanceKey(m, c, u)]
      BY <1>2, OrderType, KeysInKey, KeysInjective, FamiliesDisjoint
         DEF Bought, AllBut
    <2>2. Matches(store, m)
      BY <2>1 DEF TotalsMatch
    <2> QED
      BY <2>1, <2>2, MatchesKept
  <1> QED
    BY <1>1, <1>2

(* A new market starts from zero, and nobody holds shares of it: that is   *)
(* what SharesHaveMarket is needed for.                                    *)
LEMMA CreatedKeepsTotals ==
    ASSUME StoreOK(store), StoreOK(store'), SharesHaveMarket, TotalsMatch,
           NEW a \in Addr, NEW cm \in Proposal, NEW id \in MarketID, Created(a, cm, id)
    PROVE  TotalsMatch'
  <1> SUFFICES ASSUME NEW m \in MarketID \ overwritten', store'[MarketKey(m)] # NotFound
               PROVE  Matches(store', m)
    BY DEF TotalsMatch
  <1>1. \A c \in Addr, u \in ShareType :
           store'[ShareBalanceKey(m, c, u)] = store[ShareBalanceKey(m, c, u)]
    BY KeysInKey, FamiliesDisjoint DEF Created, AllBut
  <1>2. CASE m = id
    <2>1. store[MarketKey(m)] = NotFound
      BY <1>2 DEF Created
    <2>2. \A c \in Addr, u \in ShareType : store'[ShareBalanceKey(m, c, u)] = NotFound
      BY <1>1, <2>1 DEF SharesHaveMarket, Exists
    <2>3. ASSUME NEW u \in ShareType PROVE Held(store', m, u) = 0
      <3>1. \A c \in Addr : GetShareBalance(store', m, c, u) = 0
        BY <2>2, <2>3 DEF GetShareBalance, ZeroIfNotFound
      <3> QED
        BY <3>1, HeldZero
    <2>4. \A u \in ShareType : store'[MarketKey(m)].TotalShares[u] = 0
      BY <1>2 DEF Created, NewMarket
    <2>5. Wrap(0) = 0
      BY WrapOnce, WordAssumption DEF U64
    <2> QED
      BY <2>3, <2>4, <2>5 DEF Matches
  <1>3. CASE m # id
    <2>1. store'[MarketKey(m)] = store[MarketKey(m)] /\ m \notin overwritten
      BY <1>3, KeysInKey, KeysInjective DEF Created, AllBut
    <2>2. Matches(store, m)
      BY <2>1 DEF TotalsMatch
    <2> QED
      BY <1>1, <2>1, <2>2, MatchesKept
  <1> QED
    BY <1>2, <1>3

(* Every step keeps the totals: a failed purchase touches neither totals   *)
(* nor holdings.                                                           *)
LEMMA NextTotals == IInv /\ TotalsMatch /\ [Next]_vars => TotalsMatch'
  <1> SUFFICES ASSUME IInv, TotalsMatch, [Next]_vars PROVE TotalsMatch'
    OBVIOUS
  <1>1. TypeOK /\ MarketUnderItsKey /\ MarketsFit /\ SharesHaveMarket /\ StoreOK(store)
    BY DEF IInv, TypeOK
  <1>2. StoreOK(store')
    BY <1>1, StepEffect
  <1>3. CASE Idle
    BY <1>3 DEF Idle, TotalsMatch
  <1>4. ASSUME NEW a \in Addr, NEW b \in Order, NEW t \in ShareType,
               DebitOnly(a, b, t), overwritten' = overwritten
        PROVE  TotalsMatch'
    <2> SUFFICES ASSUME NEW m \in MarketID \ overwritten, store'[MarketKey(m)] # NotFound
                 PROVE  Matches(store', m)
      BY <1>4 DEF TotalsMatch
    <2>1. /\ store'[MarketKey(m)] = store[MarketKey(m)]
          /\ \A c \in Addr, u \in ShareType :
                store'[ShareBalanceKey(m, c, u)] = store[ShareBalanceKey(m, c, u)]
      BY <1>4, KeysInKey, FamiliesDisjoint DEF DebitOnly, AllBut
    <2>2. Matches(store, m)
      BY <2>1 DEF TotalsMatch
    <2> QED
      BY <1>1, <1>2, <2>1, <2>2, MatchesKept
  <1> QED
    BY <1>1, <1>2, <1>3, <1>4, StepEffect, BoughtKeepsTotals, CreatedKeepsTotals

(* The totals a market records are the uint64 sum of what its holders      *)
(* have, for any number of accounts, through failed purchases and wrapped  *)
(* sums, unless CreateMarket has drawn the market's ID again.              *)
THEOREM TotalsSafe == Spec => []SharesMatchTotals
  <1>1. Spec => []TotalsMatch
    BY Invariance, InitTotals, NextTotals, PTL DEF Spec
  <1> QED
    BY <1>1, TotalsByMarket, PTL

-----------------------------------------------------------------------------
(* Reissued IDs.                                                           *)

(* A purchase moves the total and the holdings of its market alike.        *)
LEMMA BoughtInStep ==
    ASSUME StoreOK(store), StoreOK(store'), NEW a \in Addr, NEW b \in Order,
           NEW t \in ShareType, Admitted(store, now, a, b), Bought(a, b, t),
           NEW u \in ShareType
    PROVE  Ahead(store', b.MarketID, u) = Ahead(store, b.MarketID, u)
  <1> DEFINE m == b.MarketID
             old == store[MarketKey(m)]
             new == store'[MarketKey(m)]
             x == GetShareBalance(store, m, a, t)
  <1>1. m \in MarketID /\ b.Amount \in U64 /\ b.Amount \in Int
    BY OrderType, WordAssumption DEF U64
  <1>2. old \in Market /\ new = Retotalled(old, b, t)
    BY DEF Admitted, Bought
  <1>3. /\ new.TotalShares[t] = Wrap(old.TotalShares[t] + b.Amount)
        /\ u # t => new.TotalShares[u] = old.TotalShares[u]
        /\ old.TotalShares[t] \in U64
    BY <1>2 DEF Retotalled, Market
  <1>4. \A c \in Addr, v \in ShareType :
           c # a \/ v # t =>
              store'[ShareBalanceKey(m, c, v)] = store[ShareBalanceKey(m, c, v)]
    BY <1>1, KeysInKey, KeysInjective, FamiliesDisjoint DEF Bought, AllBut
  <1>5. x \in U64 /\ x \in Int /\ Wrap(x + b.Amount) \in U64
    BY <1>1, GetShareBalanceType, WrapInU64, WordAssumption DEF U64
  <1>6. CASE u = t
    <2>1. GetShareBalance(store', m, a, t) = Wrap(x + b.Amount)
      <3>1. Wrap(x + b.Amount) # NotFound
        BY <1>5, NotFoundAssumption DEF U64
      <3> QED
        BY <3>1 DEF Bought, GetShareBalance, ZeroIfNotFound
    <2>2. \A c \in Addr \ {a} :
             GetShareBalance(store', m, c, t) = GetShareBalance(store, m, c, t)
      BY <1>4 DEF GetShareBalance
    <2> HIDE DEF m
    <2>3. /\ Held(store, m, t) \in Int
          /\ Held(store', m, t) = Held(store, m, t) + (Wrap(x + b.Amount) - x)
      BY <1>1, <2>1, <2>2, HeldMoves
    <2>4. Wrap(Wrap(old.TotalShares[t] + b.Amount)
                  - (Held(store, m, t) + (Wrap(x + b.Amount) - x)))
             = Wrap(old.TotalShares[t] - Held(store, m, t))
      BY <1>1, <1>3, <1>5, <2>3, WrapPace
    <2>5. Ahead(store', m, t) = Ahead(store, m, t)
      BY <1>3, <2>3, <2>4 DEF Ahead, GetMarket
    <2> QED
      BY <1>6, <2>5 DEF m
  <1>7. CASE u # t
    <2>1. \A c \in Addr : store'[ShareBalanceKey(m, c, u)] = store[ShareBalanceKey(m, c, u)]
      BY <1>4, <1>7
    <2> QED
      BY <1>1, <1>3, <1>7, <2>1, AheadKept
  <1> QED
    BY <1>6, <1>7

(* A market whose record and holdings a step leaves alone does not drift.  *)
LEMMA UntouchedInStep ==
    ASSUME StoreOK(store), StoreOK(store'), NEW m \in MarketID,
           store'[MarketKey(m)] = store[MarketKey(m)],
           \A c \in Addr, u \in ShareType :
              store'[ShareBalanceKey(m, c, u)] = store[ShareBalanceKey(m, c, u)]
    PROVE  \A t \in ShareType : Ahead(store', m, t) = Ahead(store, m, t)
  BY AheadKept

(* Totals and holdings come apart only where CreateMarket replaces a       *)
(* market, whose holders then keep shares that no total counts; purchases  *)
(* on a replaced market move both alike again, for any number of accounts  *)
(* and any word size.                                                      *)
THEOREM ReissueSafe == Spec => TotalsDriftOnlyOnReissue
  <1>1. ASSUME IInv, [Next]_vars PROVE DriftsOnlyOnReissue
    <2> SUFFICES ASSUME NEW m \in MarketID, Exists(m)
                 PROVE  \/ \A t \in ShareType : Ahead(store', m, t) = Ahead(store, m, t)
                        \/ Reissued(m)
      BY DEF DriftsOnlyOnReissue
    <2>1. /\ TypeOK /\ MarketUnderItsKey /\ MarketsFit /\ StoreOK(store)
          /\ StoreOK(store')
      BY <1>1, StepEffect DEF IInv, TypeOK
    <2>2. CASE Idle
      BY <2>2 DEF Idle
    <2>3. ASSUME NEW a \in Addr, NEW b \in Order, NEW t \in ShareType,
                 Admitted(store, now, a, b), DebitOnly(a, b, t) \/ Bought(a, b, t)
          PROVE  \A u \in ShareType : Ahead(store', m, u) = Ahead(store, m, u)
      <3>1. CASE Bought(a, b, t) /\ m = b.MarketID
        BY <2>1, <2>3, <3>1, BoughtInStep
      <3>2. CASE DebitOnly(a, b, t) \/ m # b.MarketID
        <4>1. /\ store'[MarketKey(m)] = store[MarketKey(m)]
              /\ \A c \in Addr, u \in ShareType :
                    store'[ShareBalanceKey(m, c, u)] = store[ShareBalanceKey(m, c, u)]
          BY <2>3, <3>2, OrderType, KeysInKey, KeysInjective, FamiliesDisjoint
             DEF DebitOnly, Bought, AllBut
        <4> QED
          BY <2>1, <4>1, UntouchedInStep
      <3> QED
        BY <2>3, <3>1, <3>2
    <2>4. ASSUME NEW a \in Addr, NEW cm \in Proposal, NEW id \in MarketID,
                 Created(a, cm, id)
          PROVE  \/ \A t \in ShareType : Ahead(store', m, t) = Ahead(store, m, t)
                 \/ Reissued(m)
      <3>1. \A c \in Addr, u \in ShareType :
               store'[ShareBalanceKey(m, c, u)] = store[ShareBalanceKey(m, c, u)]
        BY <2>4, KeysInKey, FamiliesDisjoint DEF Created, AllBut
      <3>2. CASE m = id
        <4>1. m \in overwritten'
          BY <2>4, <3>2 DEF Created, Exists
        <4>2. \A u \in ShareType : GetMarket(store', m).TotalShares[u] = 0
          BY <2>4, <3>2 DEF Created, NewMarket, GetMarket
        <4> QED
          BY <3>1, <4>1, <4>2 DEF Reissued
      <3>3. CASE m # id
        <4>1. store'[MarketKey(m)] = store[MarketKey(m)]
          BY <2>4, <3>3, KeysInKey, KeysInjective DEF Created, AllBut
        <4> QED
          BY <2>1, <3>1, <4>1, UntouchedInStep
      <3> QED
        BY <3>2, <3>3
    <2> QED
      BY <1>1, <2>1, <2>2, <2>3, <2>4, StepEffect
  <1> QED
    BY <1>1, Invariance, PTL DEF Spec, TotalsDriftOnlyOnReissue
=============================================================================
