------------------------------ MODULE Executor ------------------------------
(***************************************************************************)
(* The order that hypersdk's executor (internal/executor) imposes on a     *)
(* queue of transactions: which earlier ones a transaction waits for.  The *)
(* builder and the verifier of a block each run their own executor.        *)
(*                                                                         *)
(* A key's node is the last task that needs the key to itself, or the      *)
(* first that touched it.  Run makes a task wait for the nodes of its      *)
(* keys; one that needs a key to itself also waits for the readers of that *)
(* node, whichever key they read.                                          *)
(***************************************************************************)
EXTENDS Transactions

Queued(q, i) == i \in DOMAIN q /\ ~StateKeysErr(q[i])

KeysOf(q, i) == {entry[1] : entry \in StateKeys(q[i])}

Touches(q, i, k) == Queued(q, i) /\ k \in KeysOf(q, i)

(* Mutant: every declared key is taken for a read.                         *)
ExclusiveNever(q, i, k) == FALSE

Exclusive(q, i, k) == Queued(q, i) /\ <<k, "write">> \in StateKeys(q[i])

(* Mutant: the node of a key stays the first task that touched it.         *)
NodeFirst(q, i, k) ==
    {j \in 1 .. (i - 1) : Touches(q, j, k) /\ \A h \in 1 .. (j - 1) : ~Touches(q, h, k)}

Node(q, i, k) ==
    {j \in 1 .. (i - 1) :
        /\ Touches(q, j, k)
        /\ \A h \in (j + 1) .. (i - 1) : ~Exclusive(q, h, k)
        /\ Exclusive(q, j, k) \/ \A h \in 1 .. (j - 1) : ~Touches(q, h, k)}

Reads(q, j, n) ==
    Queued(q, j) /\ \E k \in KeysOf(q, j) : ~Exclusive(q, j, k) /\ n \in Node(q, j, k)

(* Mutant: a task blocks on itself where it is a reader of the node that   *)
(* it waits for.                                                           *)
DependenciesSelf(q, i) ==
    {j \in 1 .. i : \E k \in KeysOf(q, i) :
        \/ j \in Node(q, i, k)
        \/ Exclusive(q, i, k) /\ \E n \in Node(q, i, k) : Reads(q, j, n)}

Dependencies(q, i) ==
    {j \in 1 .. (i - 1) : \E k \in KeysOf(q, i) :
        \/ j \in Node(q, i, k)
        \/ Exclusive(q, i, k) /\ \E n \in Node(q, i, k) : Reads(q, j, n)}
=============================================================================
