------------------------------ MODULE Markets ------------------------------
(***************************************************************************)
(* The actions package: CreateMarket, BuyYes and BuyNo executed one after  *)
(* the other against a state.Mutable, as the chain and the unit tests call *)
(* them.                                                                   *)
(*                                                                         *)
(* Execute writes straight into the Mutable it is given.  Nothing in this  *)
(* module undoes a write: an Execute that fails half-way leaves what it    *)
(* has written.  (Undoing it is the transaction's business, see            *)
(* TxExecution.)                                                           *)
(***************************************************************************)
EXTENDS Actions, FiniteSetsExt

VARIABLES
    store,        \* the chain state behind the state.Mutable
    now,          \* timestamp of the block being executed
    result,       \* how the last Execute ended
    overwritten   \* history: markets whose record CreateMarket has replaced

vars == <<store, now, result, overwritten>>

(* "refused": an error returned before any write; "failed": an error       *)
(* returned after at least one write.                                      *)
Result == {"none", "ok", "refused", "failed"}

-----------------------------------------------------------------------------
(* What an admitted purchase does from its first write on.  The share      *)
(* record is read after the debit; when that read fails the debit stays.   *)
(* When the market cannot be written back, debit and credit stay.          *)
Settle(a, b, t) ==
    LET debited == Debited(store, a, b)
        credited == Credited(debited, a, b, t)
        market == Retotalled(GetMarket(store, b.MarketID), b, t)
        complete == ~SetMarketErr(market)
    IN  \/ /\ GetShareBalanceErr(debited, b.MarketID, a, t)
           /\ store' = debited
           /\ result' = "failed"
        \/ /\ ~GetShareBalanceErr(debited, b.MarketID, a, t)
           /\ store' = IF complete THEN SetMarket(credited, market) ELSE credited
           /\ result' = IF complete THEN "ok" ELSE "failed"

BuyYes(a, b) ==
    /\ \/ /\ ~BuyYesAdmits(store, now, a, b)
          /\ result' = "refused"
          /\ UNCHANGED store
       \/ /\ BuyYesAdmits(store, now, a, b)
          /\ Settle(a, b, YesShareType)
    /\ UNCHANGED <<now, overwritten>>

BuyNo(a, b) ==
    /\ \/ /\ ~BuyNoAdmits(store, now, a, b)
          /\ result' = "refused"
          /\ UNCHANGED store
       \/ /\ BuyNoAdmits(store, now, a, b)
          /\ Settle(a, b, NoShareType)
    /\ UNCHANGED <<now, overwritten>>

-----------------------------------------------------------------------------
(* Mutant: the new record is packed without SetMarket's size limit.        *)
CreateMarketUnlimited(a, cm, id) ==
    LET market == NewMarket(a, cm, id)
        admitted == CreateMarketAdmits(now, cm)
    IN  /\ \/ /\ ~admitted
              /\ result' = "refused"
              /\ UNCHANGED <<store, overwritten>>
           \/ /\ admitted
              /\ store' = SetMarket(store, market)
              /\ overwritten' = IF store[MarketKey(id)] = NotFound
                                THEN overwritten
                                ELSE overwritten \cup {id}
              /\ result' = "ok"
        /\ UNCHANGED now

(* id is what crypto/rand yields: the record that may already be stored    *)
(* under it is neither read nor kept.                                      *)
CreateMarket(a, cm, id) ==
    LET market == NewMarket(a, cm, id)
        admitted == CreateMarketAdmits(now, cm) /\ ~SetMarketErr(market)
    IN  /\ \/ /\ ~admitted
              /\ result' = "refused"
              /\ UNCHANGED <<store, overwritten>>
           \/ /\ admitted
              /\ store' = SetMarket(store, market)
              /\ overwritten' = IF store[MarketKey(id)] = NotFound
                                THEN overwritten
                                ELSE overwritten \cup {id}
              /\ result' = "ok"
        /\ UNCHANGED now

(* The next block has a later timestamp.                                   *)
NextBlock ==
    /\ \E ts \in Time : ts > now /\ now' = ts
    /\ UNCHANGED <<store, result, overwritten>>

-----------------------------------------------------------------------------
Init ==
    /\ \E seed \in Seeds : store = GenesisStore(seed)
    /\ now \in Time
    /\ \A ts \in Time : now <= ts
    /\ result = "none"
    /\ overwritten = {}

Next ==
    \/ \E a \in Addr, b \in Order : BuyYes(a, b)
    \/ \E a \in Addr, b \in Order : BuyNo(a, b)
    \/ \E a \in Addr, cm \in Proposal, id \in MarketID : CreateMarket(a, cm, id)
    \/ NextBlock

Spec == Init /\ [][Next]_vars

-----------------------------------------------------------------------------
(* Properties.                                                             *)

Share(m, a, t) == GetShareBalance(store, m, a, t)
Balance(a) == GetBalance(store, a)
Exists(m) == store[MarketKey(m)] # NotFound

(* Every record in the state decodes, and every variable stays in range.   *)
TypeOK ==
    /\ StoreOK(store)
    /\ now \in Time
    /\ result \in Result
    /\ overwritten \subseteq MarketID

(* The totals a market records are the sum, in uint64 arithmetic, of the   *)
(* share records of its holders, through refused and half-failed purchases *)
(* and wrap-arounds, as long as CreateMarket has not drawn the market's ID *)
(* again.                                                                  *)
SharesMatchTotals ==
    \A m \in MarketID \ overwritten, t \in ShareType :
        Exists(m) =>
            GetMarket(store, m).TotalShares[t] = Wrap(Held(store, m, t))

(* A market record sits under the key of its own ID, so that the purchase  *)
(* that reads it with the order's ID writes it back to the same key.       *)
MarketUnderItsKey ==
    \A m \in MarketID : Exists(m) => GetMarket(store, m).ID = m

(* No share record names a market that is not stored.                      *)
SharesHaveMarket ==
    \A m \in MarketID, a \in Addr, t \in ShareType :
        store[ShareBalanceKey(m, a, t)] # NotFound => Exists(m)

(* A purchase fails after its debit only because a share record holds zero *)
(* (which GetShareBalance reports as an error).  The other error on that   *)
(* path, a market that SetMarket cannot write back, is never met: no       *)
(* market that CreateMarket accepts is larger than the record may be, and  *)
(* purchases do not make it larger.                                        *)
FailsOnlyOnZeroShares ==
    result = "failed" =>
        \E m \in MarketID, a \in Addr, t \in ShareType :
            store[ShareBalanceKey(m, a, t)] = 0

Closed(m) ==
    /\ Exists(m)
    /\ GetMarket(store, m).Status # Open \/ now > GetMarket(store, m).EndTime

KeepsClosedMarkets ==
    \A m \in MarketID : Closed(m) =>
        /\ \A a \in Addr, t \in ShareType :
              store'[ShareBalanceKey(m, a, t)] = store[ShareBalanceKey(m, a, t)]
        /\ m \in overwritten' \/ store'[MarketKey(m)] = store[MarketKey(m)]

(* Once a market is past its EndTime, or is not Open, no call changes a    *)
(* share record of it, and none changes its record unless CreateMarket     *)
(* draws its ID again.                                                     *)
ClosedMarketsFrozen == [][KeepsClosedMarkets]_vars

GrowsNoBalance ==
    \A a \in Addr :
        /\ Balance(a)' <= Balance(a)
        /\ store[BalanceKey(a)] = NotFound => store'[BalanceKey(a)] = NotFound

(* No call gives an account a balance record, or more than it had: the     *)
(* funds check keeps the unsigned subtraction of the cost from wrapping.   *)
BalancesNeverGrow == [][GrowsNoBalance]_vars

Purchase(m, a, t) ==
    LET bought == Wrap(Share(m, a, t)' - Share(m, a, t)) IN
    /\ store'[MarketKey(m)] =
          [store[MarketKey(m)] EXCEPT !.TotalShares[t] = Wrap(@ + bought)]
    /\ \E p \in Price : Balance(a) - Balance(a)' = Wrap(bought * p)
    /\ \A k \in Key \ {BalanceKey(a), MarketKey(m), ShareBalanceKey(m, a, t)} :
          store'[k] = store[k]

TradesWhole ==
    \A m \in MarketID, a \in Addr, t \in ShareType :
        Share(m, a, t)' # Share(m, a, t) => Purchase(m, a, t)

(* Shares move only in whole purchases: when a holding changes, it is the  *)
(* only one, the market's total of that side changes by as much and its    *)
(* other total does not, and the holder alone pays the (uint64) cost of    *)
(* that many shares at an offered price.                                   *)
WholePurchases == [][TradesWhole]_vars

Reissued(m) ==
    /\ m \in overwritten'
    /\ \A t \in ShareType : GetMarket(store', m).TotalShares[t] = 0
    /\ \A a \in Addr, t \in ShareType :
          store'[ShareBalanceKey(m, a, t)] = store[ShareBalanceKey(m, a, t)]

DriftsOnlyOnReissue ==
    \A m \in MarketID : Exists(m) =>
        \/ \A t \in ShareType : Ahead(store', m, t) = Ahead(store, m, t)
        \/ Reissued(m)

(* The totals of a market and the holdings in it come apart in one way     *)
(* only: CreateMarket draws an ID in use, and the holders of the replaced  *)
(* market keep shares that the new totals, which start from zero, do not   *)
(* count.  Every other step, also on a market whose ID was drawn again,    *)
(* moves a total and its holdings alike.                                   *)
TotalsDriftOnlyOnReissue == [][DriftsOnlyOnReissue]_vars

-----------------------------------------------------------------------------
(* What comments in the code promise and the code does not keep.           *)

(* The purchases "ensure actor has enough funds": as MaxPrice is at least  *)
(* 1, the shares an account holds have cost it at least 1 each.  The       *)
(* uint64 product Amount * MaxPrice wraps.                                 *)
SharesArePaidFor ==
    \A a \in Addr : Genesis[a] # NotFound =>
        MapThenSumSet(LAMBDA h : Share(h[1], a, h[2]), MarketID \X ShareType)
            <= Genesis[a] - Balance(a)
=============================================================================
