---------------------------- MODULE Verification ----------------------------
(***************************************************************************)
(* Two validators and one chain: a builder packs streamed batches into a   *)
(* block (chain/builder.go) and another validator executes that block      *)
(* (chain/processor.go).  Each runs its own executor, over a queue of its  *)
(* own: the builder over a batch at a time with the transactions it will   *)
(* leave out, the verifier over the whole block in the order of commits.   *)
(*                                                                         *)
(* A transaction is one step here, which SerialExecution of TxExecution    *)
(* shows to be what an executor's interleavings amount to.                 *)
(***************************************************************************)
EXTENDS Executor

CONSTANTS
    MaxStreams,   \* bound on the batches streamed for a block
    MaxBlocks     \* bound on the blocks of a chain

ASSUME BlockAssumption == {MaxStreams, MaxBlocks} \subseteq Nat \ {0}

VARIABLES
    phase,     \* a block is being built or verified, or was rejected
    height,    \* blocks accepted so far
    now,       \* timestamp of the block
    streams,   \* batches streamed for the block
    batch,     \* the builder's queue
    left,      \* its tasks that have not ended
    block,     \* the transactions of the block
    built,     \* the builder's state
    pending,   \* the verifier's tasks that have not ended
    replica    \* the verifier's state

vars == <<phase, height, now, streams, batch, left, block, built, pending, replica>>

builderVars == <<streams, batch, left, block, built>>
verifierVars == <<pending, replica>>

-----------------------------------------------------------------------------
(* BuildBlock: the next batch, once the executor has worked off the last.  *)
Stream ==
    /\ phase = "building"
    /\ left = {}
    /\ streams < MaxStreams
    /\ streams' = streams + 1
    /\ batch' \in Batches
    /\ left' = {i \in DOMAIN batch' : Queued(batch', i)}
    /\ UNCHANGED <<phase, height, now, block, built, verifierVars>>

Ready(i) == i \in left /\ Dependencies(batch, i) \cap left = {}

(* A task commits, and its transaction is appended to the block.           *)
Include(i) ==
    /\ Ready(i)
    /\ PreExecute(built, now, batch[i])
    /\ built' \in Effects(built, now, batch[i])
    /\ block' = Append(block, batch[i])
    /\ left' = left \ {i}
    /\ UNCHANGED <<phase, height, now, streams, batch, verifierVars>>

(* PreExecute fails, or the block has no room.                             *)
Omit(i) ==
    /\ Ready(i)
    /\ left' = left \ {i}
    /\ UNCHANGED <<phase, height, now, streams, batch, block, built, verifierVars>>

(* The block is issued, and executeTxs queues its transactions.            *)
Issue ==
    /\ phase = "building"
    /\ left = {}
    /\ block # <<>>
    /\ phase' = "verifying"
    /\ pending' = DOMAIN block
    /\ streams' = 0 /\ batch' = <<>>
    /\ UNCHANGED <<height, now, left, block, built, replica>>

(* Mutant: the verifier's tasks do not wait for each other.                *)
RunnableAny(i) == i \in pending

Runnable(i) == i \in pending /\ Dependencies(block, i) \cap pending = {}

(* One task of executeTxs.  Where the builder drops a transaction, for its *)
(* keys or in PreExecute, the verifier fails the block.                    *)
ExecuteTx(i) ==
    LET tx == block[i] IN
    /\ phase = "verifying"
    /\ Runnable(i)
    /\ IF ~StateKeysErr(tx) /\ PreExecute(replica, now, tx)
       THEN /\ replica' \in Effects(replica, now, tx)
            /\ pending' = pending \ {i}
            /\ UNCHANGED phase
       ELSE phase' = "rejected" /\ UNCHANGED verifierVars
    /\ UNCHANGED <<height, now, builderVars>>

(* The block is accepted; the next one is built at a later timestamp.      *)
Accept ==
    /\ phase = "verifying"
    /\ pending = {}
    /\ height < MaxBlocks
    /\ height' = height + 1
    /\ phase' = "building"
    /\ now' \in {ts \in Time : ts >= now}
    /\ block' = <<>>
    /\ UNCHANGED <<streams, batch, left, built, verifierVars>>

Init ==
    /\ phase = "building"
    /\ height = 0
    /\ now \in Time /\ \A ts \in Time : now <= ts
    /\ streams = 0 /\ batch = <<>> /\ left = {} /\ block = <<>>
    /\ built \in StartStores
    /\ pending = {} /\ replica = built

Next ==
    \/ Stream \/ Issue \/ Accept
    \/ \E i \in left : Include(i) \/ Omit(i)
    \/ \E i \in pending : ExecuteTx(i)

Spec == Init /\ [][Next]_vars

-----------------------------------------------------------------------------
(* Properties.                                                             *)

(* A validator that has executed a block is in the state of its builder,   *)
(* whatever the two executors interleaved and whatever the builder left    *)
(* out: the keys that the actions declare settle the order of everything   *)
(* that conflicts.  An action that is not a function of the state would    *)
(* break it; CreateMarket, which draws its market's ID at random, is kept  *)
(* out of blocks by its malformed key only.                                *)
ReplicasAgree == phase = "verifying" /\ pending = {} => replica = built

(* A validator never fails a block that was built by these rules: every    *)
(* fee that the builder could charge can be charged again, and no          *)
(* transaction that the builder found valid is not.                        *)
BuiltBlocksVerify == phase # "rejected"
=============================================================================
