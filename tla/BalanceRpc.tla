----------------------------- MODULE BalanceRpc -----------------------------
(***************************************************************************)
(* The VM's balance RPC (vm/server.go Balance) and the client that polls   *)
(* it (vm/client.go WaitForBalance, a loop of hypersdk's jsonrpc.Wait),    *)
(* while blocks change the account's balance record.                       *)
(***************************************************************************)
EXTENDS Storage

CONSTANTS
    Account,   \* the account waited for
    Min,       \* the balance waited for
    Amounts    \* what a block may add or take

VARIABLES
    store,    \* the state of the last accepted block
    wait      \* where WaitForBalance is, or how it has returned

vars == <<store, wait>>

-----------------------------------------------------------------------------
(* An accepted block pays the account, or charges it.                      *)
Credit(n) ==
    /\ ~AddBalanceErr(store, Account)
    /\ store' = AddBalance(store, Account, n)
    /\ UNCHANGED wait

Debit(n) ==
    /\ ~DeductBalanceErr(store, Account, n)
    /\ store' = DeductBalance(store, Account, n)
    /\ UNCHANGED wait

(* The loop's condition, ctx.Err() = nil, fails.                           *)
Cancel ==
    /\ wait = "check"
    /\ wait' = "cancelled"
    /\ UNCHANGED store

(* JSONRPCServer.Balance reads the last accepted state.                    *)
Balance == GetBalanceFromState(store, Account)

(* One call of the RPC, and the comparison of its answer with Min.         *)
Check ==
    /\ wait = "check"
    /\ wait' = IF Balance >= Min THEN "returned" ELSE "sleep"
    /\ UNCHANGED store

(* The request fails: no node at the endpoint, or one that does not serve  *)
(* the VM's own API.  The wait ends with the error.                        *)
CheckErr ==
    /\ wait = "check"
    /\ wait' = "failed"
    /\ UNCHANGED store

Sleep ==
    /\ wait = "sleep"
    /\ wait' = "check"
    /\ UNCHANGED store

Init ==
    /\ store = [k \in Key |-> NotFound]
    /\ wait = "check"

Next == (\E n \in Amounts : Credit(n) \/ Debit(n)) \/ Cancel \/ Check \/ CheckErr \/ Sleep

(* The polling loop runs on; blocks, a cancellation or a failure may       *)
(* never come.                                                             *)
Spec == Init /\ [][Next]_vars /\ WF_vars(Check \/ Sleep)

-----------------------------------------------------------------------------
(* What comments in the code promise and the code does not keep.           *)

(* GetBalanceFromState serves the RPC queries for a balance: a client that *)
(* waits for a balance the account has reached for good gets its answer.   *)
(* The RPC reads a key that no code writes.                                *)
WaitEndsWhenFunded ==
    <>[](GetBalance(store, Account) >= Min) => <>(wait \in {"returned", "cancelled", "failed"})
=============================================================================
