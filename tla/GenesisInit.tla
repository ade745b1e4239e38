---------------------------- MODULE GenesisInit ----------------------------
(***************************************************************************)
(* The first writes to the chain state: InitializeState adds the genesis   *)
(* allocations, one after the other, through the Controller's AddBalance.  *)
(*                                                                         *)
(* Two implementations call it: Genesis.InitializeState of this repository *)
(* (genesis/genesis.go), whose addresses are bech32 strings to be decoded, *)
(* and hypersdk's DefaultGenesis, which vm.NewFactory installs and which   *)
(* also adds up the supply.                                                *)
(***************************************************************************)
EXTENDS Storage, Sequences, FiniteSetsExt

CONSTANTS
    Undecodable,   \* stands for an address string that is rejected
    Allocations    \* the lists of allocations a genesis file may hold

Alloc == [Address : Addr \cup {Undecodable}, Balance : U64]

ASSUME AllocationsAssumption ==
    /\ Undecodable \notin Addr
    /\ Allocations \subseteq Seq(Alloc)

VARIABLES
    kind,      \* whose InitializeState runs
    allocs,    \* its list of allocations
    pos,       \* how many of them have been added
    supply,    \* DefaultGenesis' sum of them
    store,     \* the state being initialised
    outcome    \* how InitializeState has ended

vars == <<kind, allocs, pos, supply, store, outcome>>

-----------------------------------------------------------------------------
(* The repository's genesis decodes each address; neither it nor           *)
(* AddBalance checks a sum for overflow.                                   *)
DecodeErr(alloc) == alloc.Address = Undecodable

(* Mutant: the sum is not checked.                                         *)
SupplyErrNever(alloc) == FALSE

(* safemath.Add in DefaultGenesis.InitializeState.                         *)
SupplyErr(alloc) == supply + alloc.Balance >= Word

Rejects(alloc) ==
    \/ kind = "predictionvm" /\ DecodeErr(alloc)
    \/ kind = "default" /\ SupplyErr(alloc)
    \/ ~DecodeErr(alloc) /\ AddBalanceErr(store, alloc.Address)

(* One turn of the loop over the allocations.                              *)
AddAllocation ==
    LET alloc == allocs[pos + 1] IN
    /\ outcome = "running"
    /\ pos < Len(allocs)
    /\ ~Rejects(alloc)
    /\ store' = AddBalance(store, alloc.Address, alloc.Balance)
    /\ supply' = IF kind = "default" THEN supply + alloc.Balance ELSE supply
    /\ pos' = pos + 1
    /\ UNCHANGED <<kind, allocs, outcome>>

(* The loop returns the first error; what was added before stays.          *)
Abort ==
    /\ outcome = "running"
    /\ pos < Len(allocs)
    /\ Rejects(allocs[pos + 1])
    /\ outcome' = "failed"
    /\ UNCHANGED <<kind, allocs, pos, supply, store>>

Return ==
    /\ outcome = "running"
    /\ pos = Len(allocs)
    /\ outcome' = "ok"
    /\ UNCHANGED <<kind, allocs, pos, supply, store>>

Init ==
    /\ kind \in {"predictionvm", "default"}
    /\ allocs \in Allocations
    /\ kind = "default" => \A i \in DOMAIN allocs : ~DecodeErr(allocs[i])
    /\ pos = 0
    /\ supply = 0
    /\ store = [k \in Key |-> NotFound]
    /\ outcome = "running"

Next == AddAllocation \/ Abort \/ Return

Spec == Init /\ [][Next]_vars

-----------------------------------------------------------------------------
(* Properties.                                                             *)

(* Every record decodes, and the variables stay in range.                  *)
TypeOK ==
    /\ StoreOK(store)
    /\ pos \in 0 .. Len(allocs)
    /\ supply \in U64
    /\ outcome \in {"running", "ok", "failed"}

Owed(a) ==
    MapThenSumSet(LAMBDA i : allocs[i].Balance,
                  {i \in DOMAIN allocs : allocs[i].Address = a})

(* A genesis that loads has given every listed account, and no other, a    *)
(* balance record with the uint64 sum of its allocations, however often    *)
(* and in whatever order the list names it.                                *)
AllocationsAddUp ==
    outcome = "ok" => \A a \in Addr :
        store[BalanceKey(a)] =
            IF \E i \in DOMAIN allocs : allocs[i].Address = a
            THEN Wrap(Owed(a))
            ELSE NotFound

(* With DefaultGenesis no balance has wrapped, although AddBalance does    *)
(* not check: the balances sum up to the supply.                           *)
SupplyIsExact ==
    kind = "default" =>
        MapThenSumSet(LAMBDA a : GetBalance(store, a), Addr) = supply

(* Loading fails only for an address that does not decode, a supply beyond *)
(* uint64, or an account that is listed again after its balance was zero,  *)
(* which AddBalance cannot read back.                                      *)
FailureExplained ==
    outcome = "failed" =>
        LET alloc == allocs[pos + 1] IN
        \/ DecodeErr(alloc)
        \/ MapThenSumSet(LAMBDA i : allocs[i].Balance, DOMAIN allocs) >= Word
        \/ /\ \E i \in 1 .. pos : allocs[i].Address = alloc.Address
           /\ store[BalanceKey(alloc.Address)] = 0
=============================================================================
