---------------------------- MODULE SerialLedger ----------------------------
(***************************************************************************)
(* The abstract specification of transaction execution: what a block of    *)
(* this VM's transactions means, without workers, views or rollbacks.      *)
(* The transactions of a batch are taken one at a time.  One that is       *)
(* taken either changes the ledger in a single step, as it would if it     *)
(* were alone, or is left out of the block and changes nothing.            *)
(*                                                                         *)
(* What a transaction is and does is a parameter: the operators that       *)
(* Transactions defines.                                                   *)
(***************************************************************************)
EXTENDS Integers

CONSTANTS
    StartStores,          \* the ledgers to start from
    Time,                 \* block timestamps
    Batches,              \* the batches of transactions that may be offered
    StateKeysErr(_),      \* whether the keys a transaction declares are malformed
    PreExecute(_, _, _),  \* whether it is valid and its sponsor can pay the fee
    Effects(_, _, _)      \* the ledgers it may leave when it runs alone

VARIABLES
    store,    \* the ledger
    now,      \* timestamp of the block
    batch,    \* the transactions offered for the block
    left      \* those that have not been decided yet

svars == <<store, now, batch, left>>

Include(i) ==
    /\ i \in left
    /\ PreExecute(store, now, batch[i])
    /\ store' \in Effects(store, now, batch[i])
    /\ left' = left \ {i}
    /\ UNCHANGED <<now, batch>>

Omit(i) ==
    /\ i \in left
    /\ left' = left \ {i}
    /\ UNCHANGED <<store, now, batch>>

(* A new block at a timestamp that is not earlier; a transaction whose     *)
(* keys are malformed is not considered.                                   *)
Offer ==
    /\ left = {}
    /\ batch' \in Batches
    /\ left' = {i \in DOMAIN batch' : ~StateKeysErr(batch'[i])}
    /\ now' \in {ts \in Time : ts >= now}
    /\ UNCHANGED store

Init ==
    /\ store \in StartStores
    /\ now \in Time
    /\ batch = <<>>
    /\ left = {}

Next == Offer \/ \E i \in left : Include(i) \/ Omit(i)

Spec == Init /\ [][Next]_svars
=============================================================================
