------------------------------ MODULE Storage ------------------------------
(***************************************************************************)
(* The storage package (storage/state.go, storage/market.go,               *)
(* storage/storage.go): the key layout of the chain state and the typed    *)
(* accessors over it.                                                      *)
(*                                                                         *)
(* The state is one key-value store, a total function from Key to a stored *)
(* value or NotFound (database.ErrNotFound).  A uint64 record is the       *)
(* number it encodes; a market record keeps the fields that control flow   *)
(* or a property reads, with its three texts abstracted to their length.   *)
(*                                                                         *)
(* A getter is a pair of operators: XErr, the condition under which the Go *)
(* function returns an error, and X, the value it returns otherwise.       *)
(***************************************************************************)
EXTENDS Integers, FiniteSets

CONSTANTS
    Addr,       \* codec.Address values in play
    MarketID,   \* uint64 market identifiers in play
    Word,       \* number of values of a uint64: 2^64 in the code
    NotFound    \* what a lookup of a missing key yields

(* codec.Address is an array of bytes: there are finitely many.            *)
ASSUME AddrAssumption == IsFiniteSet(Addr)

ASSUME WordAssumption == Word \in Nat /\ Word >= 2

ASSUME MarketIDAssumption == MarketID \subseteq Nat

-----------------------------------------------------------------------------
(* Machine words.                                                          *)

U64 == 0 .. (Word - 1)

(* uint64 arithmetic as Go does it: silently modulo 2^64.                  *)
Wrap(n) == n % Word

-----------------------------------------------------------------------------
(* Key layout.  A key is the tuple of its parts.                           *)

YesShareType == 0
NoShareType == 1
ShareType == {YesShareType, NoShareType}

(* The balance record's prefix is consts.BalancePrefix; storage declares a *)
(* BalancePrefix of its own, used by StateKeysBalance only.                *)
ConstsBalancePrefix == 3
BalanceChunks == 1
StorageBalancePrefix == 0
MarketPrefix == 1
ShareBalancePrefix == 2

BalanceKey(a) == <<ConstsBalancePrefix, a, BalanceChunks>>

StateKeysBalance(a) == <<StorageBalancePrefix, a>>

(* Mutant: the ID is not written into the key.                             *)
MarketKeyBlank(m) == <<MarketPrefix, 0>>

MarketKey(m) == <<MarketPrefix, m>>

(* Mutant: the market's ID is not written into the key.                    *)
ShareBalanceKeyBlank(m, a, t) == <<ShareBalancePrefix, 0, a, t>>

ShareBalanceKey(m, a, t) == <<ShareBalancePrefix, m, a, t>>

Key ==
    {BalanceKey(a) : a \in Addr} \cup
    {StateKeysBalance(a) : a \in Addr} \cup
    {MarketKey(m) : m \in MarketID} \cup
    {ShareBalanceKey(m, a, t) : m \in MarketID, a \in Addr, t \in ShareType}

-----------------------------------------------------------------------------
(* Markets.                                                                *)

Open == 0
TradingClosed == 1
ResolvedYes == 2
ResolvedNo == 3
MarketStatus == {Open, TradingClosed, ResolvedYes, ResolvedNo}

(* TotalShares holds TotalYesShares and TotalNoShares, indexed by share    *)
(* type; text is the summed length of Description, OracleSource and        *)
(* OracleParameters.                                                       *)
Market ==
    [ID : MarketID, Creator : Addr, EndTime : Int, ResolutionTime : Int,
     Status : MarketStatus, TotalShares : [ShareType -> U64], text : Nat]

ASSUME NotFoundAssumption == NotFound \notin Nat /\ NotFound \notin Market

(* LinearCodec's encoding of a Market: 84 bytes of fixed-width fields and  *)
(* length prefixes, then the three texts.                                  *)
MarketFixedSize == 84
MaxMarketDataSize == 1024
MarketSize(mkt) == MarketFixedSize + mkt.text

(* GetMarket fails when the record is missing.  The size that it gives to  *)
(* NewReader limits what a packer writes, not what it reads.               *)
GetMarketErr(st, m) == st[MarketKey(m)] = NotFound

GetMarket(st, m) == st[MarketKey(m)]

(* SetMarket fails before it writes when the encoding does not fit, and    *)
(* otherwise stores the record under the ID that the record itself holds.  *)
SetMarketErr(mkt) == MarketSize(mkt) > MaxMarketDataSize

SetMarket(st, mkt) == [st EXCEPT ![MarketKey(mkt.ID)] = mkt]

-----------------------------------------------------------------------------
(* uint64 records.  UnpackUint64(required = true) reports a stored zero as *)
(* a field that is not populated: the reader then holds an error.          *)

UnpackRequiredErr(v) == v = 0

ZeroIfNotFound(v) == IF v = NotFound THEN 0 ELSE v

(* What the balance RPC serves (GetBalanceFromState): the record under     *)
(* StateKeysBalance, parsed with database.ParseUInt64.                     *)
GetBalanceFromState(st, a) == ZeroIfNotFound(st[StateKeysBalance(a)])

GetBalanceErr(st, a) == UnpackRequiredErr(st[BalanceKey(a)])

GetBalance(st, a) == ZeroIfNotFound(st[BalanceKey(a)])

SetBalance(st, a, amount) == [st EXCEPT ![BalanceKey(a)] = amount]

(* Mutant: a missing share record is an error, not an empty holding.       *)
GetShareBalanceErrMissing(st, m, a, t) ==
    \/ st[ShareBalanceKey(m, a, t)] = NotFound
    \/ UnpackRequiredErr(st[ShareBalanceKey(m, a, t)])

GetShareBalanceErr(st, m, a, t) == UnpackRequiredErr(st[ShareBalanceKey(m, a, t)])

GetShareBalance(st, m, a, t) == ZeroIfNotFound(st[ShareBalanceKey(m, a, t)])

SetShareBalance(st, m, a, t, amount) ==
    [st EXCEPT ![ShareBalanceKey(m, a, t)] = amount]

(* DeductBalance, and EnsureActorHasBalance and Controller.CanDeduct,      *)
(* which make the same two checks without the write.                       *)
DeductBalanceErr(st, a, amount) ==
    \/ GetBalanceErr(st, a)
    \/ GetBalance(st, a) < amount

DeductBalance(st, a, amount) == SetBalance(st, a, Wrap(GetBalance(st, a) - amount))

(* Mutants: AddBalance overwrites, or leaves the range of uint64; a missing *)
(* balance record is an error.                                             *)
AddBalanceReplaces(st, a, amount) == SetBalance(st, a, amount)

AddBalanceUnwrapped(st, a, amount) == SetBalance(st, a, GetBalance(st, a) + amount)

AddBalanceErrMissing(st, a) == st[BalanceKey(a)] = NotFound \/ GetBalanceErr(st, a)

AddBalanceErr(st, a) == GetBalanceErr(st, a)

AddBalance(st, a, amount) == SetBalance(st, a, Wrap(GetBalance(st, a) + amount))

-----------------------------------------------------------------------------
(* The stores whose records decode as their key says.                      *)
StoreOK(st) ==
    /\ st = [k \in Key |-> st[k]]
    /\ \A a \in Addr : st[BalanceKey(a)] \in U64 \cup {NotFound}
    /\ \A a \in Addr : st[StateKeysBalance(a)] \in U64 \cup {NotFound}
    /\ \A m \in MarketID : st[MarketKey(m)] \in Market \cup {NotFound}
    /\ \A m \in MarketID, a \in Addr, t \in ShareType :
          st[ShareBalanceKey(m, a, t)] \in U64 \cup {NotFound}
=============================================================================
