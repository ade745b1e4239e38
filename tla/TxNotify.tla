------------------------------ MODULE TxNotify ------------------------------
(***************************************************************************)
(* The CLI's sendAndWait (cmd/prediction-cli/cmd/resolutions.go) and the   *)
(* websocket service it relies on (hypersdk api/ws): one client sends a    *)
(* transaction, the node remembers it as a listener, submits it, and       *)
(* answers when a block includes the transaction or passes its expiry.     *)
(*                                                                         *)
(* A transaction is its actions with its expiry in seconds: the same       *)
(* actions sent twice in a second are one transaction, with one ID.  Block *)
(* building and consensus are external; a block includes any transaction   *)
(* of the mempool that has not expired and has not been included before.   *)
(***************************************************************************)
EXTENDS Integers, Sequences, SequencesExt, FiniteSets

CONSTANTS
    Payload,      \* the lists of actions the CLI may send
    Garbled,      \* those whose bytes the node cannot parse
    Window,       \* the validity window, in seconds
    MaxSecond,    \* bound on the clock
    MaxCalls      \* bound on the calls made over one connection

ASSUME NotifyAssumption ==
    /\ Garbled \subseteq Payload
    /\ {Window, MaxSecond, MaxCalls} \subseteq Nat

VARIABLES
    second,       \* the clock, which blocks and clients follow
    chainTime,    \* timestamp of the last accepted block
    calls,        \* how often sendAndWait has been called
    call,         \* its current call: where it is, for which transaction, the outcome
    open,         \* the websocket connection is up
    outbox,       \* registrations on their way to the node
    inbox,        \* pendingTxs: notifications on their way to ListenTx
    txListeners,  \* transactions whose sender awaits a notification
    expiringTxs,  \* the eviction map that is to end each of them
    mempool,      \* transactions that may still be included
    included      \* history: the transactions of the accepted blocks, with their success

clientVars == <<calls, call>>
serverVars == <<txListeners, expiringTxs, mempool>>
chainVars == <<second, chainTime, included>>
vars == <<clientVars, serverVars, chainVars, open, outbox, inbox>>

Expiry(tx) == tx[2]

NoTx == <<>>

(* A notification carries a result or, for an expired transaction, none.   *)
Success == "success"
Failure == "failure"
Nil == "nil"

Returned(tx, outcome) == [pc |-> "returned", tx |-> tx, outcome |-> outcome]

-----------------------------------------------------------------------------
(* sendAndWait.                                                            *)

MayCall ==
    /\ call.pc = "returned"
    /\ calls < MaxCalls
    /\ calls' = calls + 1

(* GenerateTransaction with an expiry rounded to a second; RegisterTx.     *)
Send(p) ==
    LET tx == <<p, second + Window>> IN
    /\ MayCall
    /\ second + Window < MaxSecond
    /\ open
    /\ outbox' = Append(outbox, tx)
    /\ call' = [pc |-> "waiting", tx |-> tx, outcome |-> "none"]
    /\ UNCHANGED <<serverVars, chainVars, open, inbox>>

(* The rules or the unit prices cannot be fetched, or RegisterTx finds the *)
(* client closed.                                                          *)
SendErr ==
    /\ MayCall
    /\ call' = Returned(NoTx, "error")
    /\ UNCHANGED <<serverVars, chainVars, open, outbox, inbox>>

(* Mutant: the first notification is taken for the transaction's own.      *)
ListenTxAny ==
    /\ call.pc = "waiting"
    /\ inbox # <<>>
    /\ inbox' = Tail(inbox)
    /\ call' = Returned(call.tx, Head(inbox)[2])
    /\ UNCHANGED <<calls, serverVars, chainVars, open, outbox>>

(* One turn of the loop.  For another transaction's notification, result   *)
(* is still nil, and the loop ends with "tx ... expired".  For its own     *)
(* expiry the loop ends and result.Success dereferences nil.               *)
ListenTx ==
    LET id == Head(inbox)[1]
        txResult == Head(inbox)[2]
    IN  /\ call.pc = "waiting"
        /\ inbox # <<>>
        /\ inbox' = Tail(inbox)
        /\ call' = CASE id # call.tx -> Returned(id, "expired")
                     [] id = call.tx /\ txResult = Nil -> [call EXCEPT !.pc = "panicked"]
                     [] id = call.tx /\ txResult # Nil -> Returned(id, txResult)
        /\ UNCHANGED <<calls, serverVars, chainVars, open, outbox>>

(* ListenTx returns the error of a stopped connection, or of the context.  *)
ListenTxErr ==
    /\ call.pc = "waiting"
    /\ call' = Returned(call.tx, "error")
    /\ UNCHANGED <<calls, serverVars, chainVars, open, outbox, inbox>>

-----------------------------------------------------------------------------
(* The websocket server.                                                   *)

(* Mutant: only a transaction that is new to the mempool is made to expire.*)
AddTxListenerOnce(tx) ==
    /\ txListeners' = txListeners \cup {tx}
    /\ expiringTxs' = IF tx \in mempool \/ \E r \in included : r[1] = tx
                      THEN expiringTxs ELSE expiringTxs \cup {tx}

AddTxListener(tx) ==
    /\ txListeners' = txListeners \cup {tx}
    /\ expiringTxs' = expiringTxs \cup {tx}

Includable(tx, t) == Expiry(tx) >= t /\ \A r \in included : r[1] # tx

(* MessageCallback: bytes that do not parse are only logged.  The listener *)
(* is added before Submit, which takes the transaction into the mempool or *)
(* refuses it (a duplicate, an expired one, a sponsor that cannot pay);    *)
(* either way the listener stays.                                          *)
MessageCallback ==
    LET tx == Head(outbox) IN
    /\ outbox # <<>>
    /\ outbox' = Tail(outbox)
    /\ IF tx[1] \in Garbled
       THEN UNCHANGED serverVars
       ELSE /\ AddTxListener(tx)
            /\ \/ UNCHANGED mempool
               \/ Includable(tx, chainTime) /\ mempool' = mempool \cup {tx}
    /\ UNCHANGED <<clientVars, chainVars, open, inbox>>

(* Mutant: an eviction map that never lets go.                             *)
EvictedNever(t) == {}

(* Mutant: a transaction leaves with the block of its last second.         *)
EvictedEarly(t) == {tx \in expiringTxs : Expiry(tx) <= t}

(* EMap.SetMin: everything that expires before t.                          *)
Evicted(t) == {tx \in expiringTxs : Expiry(tx) < t}

(* Publish to a connection that may be gone.                               *)
Publish(msgs) == inbox' = IF open THEN inbox \o msgs ELSE inbox

(* WebSocketServer.AcceptBlock with the block's transactions, at most one  *)
(* here, and setMinTx.  An included transaction stays in expiringTxs.      *)
AcceptBlock(t, block) ==
    LET txs == {r[1] : r \in block}
        answered == {r \in block : r[1] \in txListeners}
        expired == (txListeners \ txs) \cap Evicted(t)
    IN  /\ chainTime <= t /\ t <= second
        /\ Cardinality(block) <= 1
        /\ \A tx \in txs : tx \in mempool /\ Includable(tx, t)
        /\ chainTime' = t
        /\ included' = included \cup block
        /\ mempool' = {tx \in mempool \ txs : Expiry(tx) >= t}
        /\ txListeners' = (txListeners \ txs) \ expired
        /\ expiringTxs' = expiringTxs \ Evicted(t)
        /\ \E order \in SetToSeqs(expired) :
              /\ \A j, k \in DOMAIN order : j < k => Expiry(order[j]) <= Expiry(order[k])
              /\ Publish(SetToSeq(answered) \o [j \in DOMAIN order |-> <<order[j], Nil>>])
        /\ UNCHANGED <<clientVars, second, open, outbox>>

Blocks == {{}} \cup {{<<tx, ok>>} : tx \in mempool, ok \in {Success, Failure}}

(* The builder gives up on a transaction without a word.                   *)
Drop ==
    /\ \E tx \in mempool : mempool' = mempool \ {tx}
    /\ UNCHANGED <<clientVars, txListeners, expiringTxs, chainVars, open, outbox, inbox>>

Tick ==
    /\ second < MaxSecond
    /\ second' = second + 1
    /\ UNCHANGED <<clientVars, serverVars, chainTime, included, open, outbox, inbox>>

(* The connection fails: what had not been read by the node is lost.       *)
Disconnect ==
    /\ open
    /\ open' = FALSE
    /\ outbox' = <<>>
    /\ UNCHANGED <<clientVars, serverVars, chainVars, inbox>>

-----------------------------------------------------------------------------
Init ==
    /\ second = 0 /\ chainTime = 0
    /\ calls = 0 /\ call = Returned(NoTx, "none")
    /\ open = TRUE /\ outbox = <<>> /\ inbox = <<>>
    /\ txListeners = {} /\ expiringTxs = {} /\ mempool = {} /\ included = {}

Next ==
    \/ \E p \in Payload : Send(p)
    \/ SendErr \/ ListenTx \/ ListenTxErr
    \/ MessageCallback \/ Drop \/ Tick \/ Disconnect
    \/ \E t \in 0 .. MaxSecond, block \in Blocks : AcceptBlock(t, block)

(* Time passes, the node reads its connection, and blocks keep being       *)
(* accepted at the current time, empty ones if need be.                    *)
Fairness ==
    /\ WF_vars(Tick) /\ WF_vars(MessageCallback)
    /\ WF_vars(\E block \in Blocks : AcceptBlock(second, block))

Spec == Init /\ [][Next]_vars /\ Fairness

-----------------------------------------------------------------------------
(* Properties.                                                             *)

(* Whatever Submit made of it, and however often it was registered, a      *)
(* transaction that somebody listens for is in the map that will end the   *)
(* wait.                                                                   *)
ListenersExpire == txListeners \subseteq expiringTxs

(* expiringTxs "ensures all tx listeners are eventually responded to".     *)
ListenersAnswered ==
    \A tx \in Payload \X (Window .. (MaxSecond - 1)) :
        tx \in txListeners ~> tx \notin txListeners

(* When sendAndWait reports that its transaction succeeded or failed, a    *)
(* block holds the transaction with that result: answers to earlier calls  *)
(* that are still under way are not taken for its own.                     *)
ReportedResultsAreTrue ==
    call.pc = "returned" /\ call.outcome \in {Success, Failure, Nil} =>
        <<call.tx, call.outcome>> \in included

(* An expiry is final: when the node has announced one, still under way or *)
(* received by the call it was for, no later block can include the         *)
(* transaction, at the boundary of its window as well.                     *)
ExpiriesAreFinal ==
    /\ \A k \in DOMAIN inbox :
          inbox[k][2] = Nil => ~Includable(inbox[k][1], chainTime)
    /\ call.pc = "panicked" => ~Includable(call.tx, chainTime)

=============================================================================
