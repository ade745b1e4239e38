------------------------------ MODULE Cli_proofs -----------------------------
(***************************************************************************)
(* The two halves of the CLI.  TxNotify: what the websocket server         *)
(* announces and what sendAndWait makes of it, for all payloads, windows,  *)
(* clocks and numbers of calls.  CliStore: the defaults in the database    *)
(* refer to what is stored, for all sets of keys, chains and endpoints and *)
(* however commands are cut off.                                           *)
(***************************************************************************)
EXTENDS TxNotify, CliStore, FiniteSetTheorems, TLAPS

-----------------------------------------------------------------------------
(* TxNotify.                                                               *)

Tx == Payload \X Nat
Answer == {Success, Failure, Nil}
Note == Tx \X Answer

Calls ==
    [pc : {"waiting", "returned", "panicked"}, tx : Tx \cup {NoTx},
     outcome : Answer \cup {"none", "error", "expired"}]

TypeInv ==
    /\ second \in Nat /\ chainTime \in Nat
    /\ call \in Calls
    /\ outbox \in Seq(Tx)
    /\ inbox \in Seq(Note)
    /\ expiringTxs \subseteq Tx /\ IsFiniteSet(expiringTxs)
    /\ mempool \subseteq Tx

(* Every notification on its way to the client is true: a result is that   *)
(* of a block, an expiry is that of a transaction whose time has passed.   *)
NotesTrue ==
    \A k \in 1 .. Len(inbox) :
        /\ inbox[k][2] # Nil => inbox[k] \in included
        /\ inbox[k][2] = Nil => Expiry(inbox[k][1]) < chainTime

(* A call that received its own expiry did so after the fact.              *)
PanicTrue == call.pc = "panicked" => call.tx \in Tx /\ Expiry(call.tx) < chainTime

IInv ==
    /\ TypeInv /\ NotesTrue /\ PanicTrue
    /\ ListenersExpire /\ ReportedResultsAreTrue

(* A transaction is a payload with its expiry.                             *)
LEMMA TxExpiry == ASSUME NEW tx \in Tx PROVE Expiry(tx) \in Nat
  BY DEF Tx, Expiry

(* A notification is a transaction with its answer.                        *)
LEMMA NoteFields ==
    ASSUME NEW note \in Note
    PROVE  note[1] \in Tx /\ note[2] \in Answer /\ note = <<note[1], note[2]>>
  BY DEF Note

(* The orders in which setMinTx may announce a finite set, and those in    *)
(* which import-cli deletes and stores endpoints.                          *)
LEMMA SequenceOfSet ==
    ASSUME NEW S, IsFiniteSet(S), NEW s \in SetToSeqs(S)
    PROVE  s \in Seq(S)
  <1>1. Cardinality(S) \in Nat
    BY FS_CardinalityType
  <1>2. s \in [1 .. Cardinality(S) -> S]
    BY DEF SetToSeqs
  <1> QED
    BY <1>1, <1>2

(* The listed elements of a finite set.                                    *)
LEMMA ListOfSet ==
    ASSUME NEW S, IsFiniteSet(S)
    PROVE  SetToSeq(S) \in Seq(S)
  <1>1. Cardinality(S) \in Nat /\ ExistsBijection(1 .. Cardinality(S), S)
    BY FS_CardinalityType
  <1>2. PICK f \in [1 .. Cardinality(S) -> S] : IsInjective(f)
    BY <1>1 DEF ExistsBijection, Bijection, Injection, IsInjective
  <1>3. SetToSeq(S) \in [1 .. Cardinality(S) -> S]
    BY <1>2, Zenon DEF SetToSeq
  <1> QED
    BY <1>1, <1>3

(* At the start there is no call, no message and no listener.              *)
LEMMA InitIInv == Init => IInv
  <1> SUFFICES ASSUME Init PROVE IInv
    OBVIOUS
  <1>1. IsFiniteSet({})
    BY FS_EmptySet
  <1>2. TypeInv
    BY <1>1 DEF Init, TypeInv, Calls, Returned
  <1>3. NotesTrue
    BY DEF Init, NotesTrue
  <1>4. PanicTrue /\ ReportedResultsAreTrue
    BY DEF Init, PanicTrue, ReportedResultsAreTrue, Returned, Success, Failure, Nil
  <1>5. ListenersExpire
    BY DEF Init, ListenersExpire
  <1> QED
    BY <1>2, <1>3, <1>4, <1>5 DEF IInv

-----------------------------------------------------------------------------
(* The client.                                                             *)

(* Sending appends to the outbox and starts a call.                        *)
LEMMA SendKeeps == ASSUME IInv, NEW p \in Payload, Send(p) PROVE IInv'
  <1> DEFINE tx == <<p, second + Window>>
  <1>1. tx \in Tx
    BY NotifyAssumption DEF IInv, TypeInv, Tx
  <1>2. /\ outbox' = Append(outbox, tx)
        /\ call' = [pc |-> "waiting", tx |-> tx, outcome |-> "none"]
        /\ UNCHANGED <<serverVars, chainVars, open, inbox>>
    BY DEF Send
  <1> HIDE DEF tx
  <1>3. TypeInv'
    BY <1>1, <1>2 DEF IInv, TypeInv, Calls, serverVars, chainVars
  <1>4. NotesTrue' /\ PanicTrue' /\ ListenersExpire' /\ ReportedResultsAreTrue'
    BY <1>2 DEF IInv, NotesTrue, PanicTrue, ListenersExpire, ReportedResultsAreTrue,
                serverVars, chainVars
  <1> QED
    BY <1>3, <1>4 DEF IInv

(* A call that ends with an error.                                         *)
LEMMA ErrorKeeps ==
    ASSUME IInv, NEW tx \in Tx \cup {NoTx}, call' = Returned(tx, "error"),
           UNCHANGED <<serverVars, chainVars, open, outbox, inbox>>
    PROVE  IInv'
  <1>1. TypeInv'
    BY DEF IInv, TypeInv, Calls, Returned, serverVars, chainVars
  <1>2. NotesTrue' /\ PanicTrue' /\ ListenersExpire' /\ ReportedResultsAreTrue'
    BY DEF IInv, NotesTrue, PanicTrue, ListenersExpire, ReportedResultsAreTrue,
           Returned, Success, Failure, Nil, serverVars, chainVars
  <1> QED
    BY <1>1, <1>2 DEF IInv

(* A turn of sendAndWait's loop, with the three things a notification can  *)
(* mean to it.                                                             *)
LEMMA ListenKeeps == ASSUME IInv, ListenTx PROVE IInv'
  <1> DEFINE note == Head(inbox)
  <1>1. /\ inbox \in Seq(Note) /\ inbox # <<>>
        /\ note = inbox[1] /\ note \in Note /\ 1 \in 1 .. Len(inbox)
        /\ inbox' \in Seq(Note) /\ Len(inbox') = Len(inbox) - 1
        /\ \A k \in 1 .. Len(inbox') : inbox'[k] = inbox[k + 1] /\ k + 1 \in 1 .. Len(inbox)
    BY DEF IInv, TypeInv, ListenTx
  <1>2. /\ call.pc = "waiting"
        /\ call' = CASE note[1] # call.tx -> Returned(note[1], "expired")
                     [] note[1] = call.tx /\ note[2] = Nil -> [call EXCEPT !.pc = "panicked"]
                     [] note[1] = call.tx /\ note[2] # Nil -> Returned(note[1], note[2])
        /\ UNCHANGED <<serverVars, chainVars, open, outbox>>
    BY DEF ListenTx
  <1> HIDE DEF note
  <1>3. note[1] \in Tx /\ note[2] \in Answer /\ note = <<note[1], note[2]>>
    BY <1>1, NoteFields
  <1>4. /\ note[2] # Nil => note \in included
        /\ note[2] = Nil => Expiry(note[1]) < chainTime
    BY <1>1 DEF IInv, NotesTrue
  <1>5. NotesTrue'
    BY <1>1, <1>2 DEF IInv, NotesTrue, chainVars
  <1>6. ListenersExpire'
    BY <1>2 DEF IInv, ListenersExpire, serverVars
  <1>7. /\ call' \in Calls
        /\ call'.pc = "panicked" => call'.tx = note[1] /\ note[2] = Nil
        /\ call'.pc = "returned" /\ call'.outcome \in Answer =>
              call'.tx = note[1] /\ call'.outcome = note[2] /\ note[2] # Nil
    <2>1. CASE note[1] # call.tx
      BY <1>2, <1>3, <2>1 DEF Returned, Calls, Answer, Success, Failure, Nil
    <2>2. CASE note[1] = call.tx /\ note[2] = Nil
      <3>1. call' = [call EXCEPT !.pc = "panicked"] /\ call \in Calls
        BY <1>2, <2>2 DEF IInv, TypeInv
      <3> QED
        BY <2>2, <3>1 DEF Calls
    <2>3. CASE note[1] = call.tx /\ note[2] # Nil
      BY <1>2, <1>3, <2>3 DEF Returned, Calls
    <2> QED
      BY <2>1, <2>2, <2>3
  <1>8. TypeInv'
    BY <1>1, <1>2, <1>7 DEF IInv, TypeInv, serverVars, chainVars
  <1>9. PanicTrue'
    BY <1>2, <1>3, <1>4, <1>7 DEF PanicTrue, chainVars
  <1>10. ReportedResultsAreTrue'
    BY <1>2, <1>3, <1>4, <1>7 DEF ReportedResultsAreTrue, Answer, chainVars
  <1> QED
    BY <1>5, <1>6, <1>8, <1>9, <1>10 DEF IInv

-----------------------------------------------------------------------------
(* The server.                                                             *)

(* A registration: the listener and its expiry are recorded together,      *)
(* whatever Submit says.                                                   *)
LEMMA MessageKeeps == ASSUME IInv, MessageCallback PROVE IInv'
  <1> DEFINE tx == Head(outbox)
  <1>1. outbox \in Seq(Tx) /\ outbox # <<>> /\ tx \in Tx /\ outbox' \in Seq(Tx)
    BY DEF IInv, TypeInv, MessageCallback
  <1>2. /\ \/ UNCHANGED serverVars
           \/ /\ txListeners' = txListeners \cup {tx}
              /\ expiringTxs' = expiringTxs \cup {tx}
              /\ mempool' \in {mempool, mempool \cup {tx}}
        /\ UNCHANGED <<clientVars, chainVars, open, inbox>>
    BY DEF MessageCallback, AddTxListener
  <1> HIDE DEF tx
  <1>3. TypeInv'
    <2>1. IsFiniteSet(expiringTxs')
      <3>1. IsFiniteSet(expiringTxs)
        BY DEF IInv, TypeInv
      <3>2. IsFiniteSet(expiringTxs \cup {tx})
        BY <3>1, FS_AddElement
      <3> QED
        BY <1>2, <3>1, <3>2 DEF serverVars
    <2> QED
      BY <1>1, <1>2, <2>1 DEF IInv, TypeInv, serverVars, chainVars, clientVars
  <1>4. ListenersExpire'
    BY <1>2 DEF IInv, ListenersExpire, serverVars
  <1>5. NotesTrue' /\ PanicTrue' /\ ReportedResultsAreTrue'
    BY <1>2 DEF IInv, NotesTrue, PanicTrue, ReportedResultsAreTrue, chainVars, clientVars
  <1> QED
    BY <1>3, <1>4, <1>5 DEF IInv

(* An accepted block: the notifications it causes are true at its time.    *)
LEMMA AcceptKeeps ==
    ASSUME IInv, NEW t \in 0 .. MaxSecond, NEW block \in Blocks, AcceptBlock(t, block)
    PROVE  IInv'
  <1> DEFINE txs == {r[1] : r \in block}
             answered == {r \in block : r[1] \in txListeners}
             expired == (txListeners \ txs) \cap Evicted(t)
  <1>0. t \in Nat
    BY NotifyAssumption
  <1>1. /\ chainTime <= t
        /\ chainTime' = t
        /\ included' = included \cup block
        /\ mempool' \subseteq mempool
        /\ txListeners' = (txListeners \ txs) \ expired
        /\ expiringTxs' = expiringTxs \ Evicted(t)
        /\ UNCHANGED <<clientVars, second, open, outbox>>
    BY DEF AcceptBlock
  <1>2. PICK order \in SetToSeqs(expired) :
          Publish(SetToSeq(answered) \o [j \in DOMAIN order |-> <<order[j], Nil>>])
    BY DEF AcceptBlock
  <1>3. block \subseteq Note /\ IsFiniteSet(block) /\ \A r \in block : r[2] # Nil
    <2>1. CASE block = {}
      BY <2>1, FS_EmptySet
    <2>2. ASSUME NEW tx \in mempool, NEW ok \in {Success, Failure}, block = {<<tx, ok>>}
          PROVE  block \subseteq Note /\ IsFiniteSet(block) /\ \A r \in block : r[2] # Nil
      <3>1. tx \in Tx /\ ok \in Answer /\ ok # Nil
        BY DEF IInv, TypeInv, Answer, Success, Failure, Nil
      <3>2. IsFiniteSet({<<tx, ok>>})
        BY FS_Singleton
      <3> QED
        BY <2>2, <3>1, <3>2 DEF Note
    <2> QED
      BY <2>1, <2>2 DEF Blocks
  <1>4. /\ answered \in SUBSET block
        /\ expired \in SUBSET expiringTxs
        /\ \A tx \in expired : tx \in Tx /\ Expiry(tx) < t
    BY DEF IInv, TypeInv, Evicted
  <1>5. IsFiniteSet(answered) /\ IsFiniteSet(expired)
    BY <1>3, <1>4, FS_Subset DEF IInv, TypeInv
  <1> DEFINE good == SetToSeq(answered)
             late == [j \in DOMAIN order |-> <<order[j], Nil>>]
  <1>6. good \in Seq(answered)
    BY <1>5, ListOfSet
  <1>7. order \in Seq(expired)
    BY <1>5, SequenceOfSet
  <1>8. inbox' = inbox \o (good \o late) \/ inbox' = inbox
    BY <1>2 DEF Publish
  <1>9. TypeInv' /\ NotesTrue'
    <2> HIDE DEF answered, expired
    <2>1. good \in Seq(Note) /\ \A k \in 1 .. Len(good) : good[k] \in block /\ good[k][2] # Nil
      BY <1>3, <1>4, <1>6
    <2>2. /\ Len(order) \in Nat /\ DOMAIN order = 1 .. Len(order)
          /\ \A k \in 1 .. Len(order) : order[k] \in Tx /\ Expiry(order[k]) < t
      BY <1>4, <1>7
    <2>3. late \in Seq(Note) /\ Len(late) = Len(order)
      BY <2>2 DEF Note, Answer
    <2>4. \A k \in 1 .. Len(late) : late[k][2] = Nil /\ Expiry(late[k][1]) < t
      BY <2>2, <2>3
    <2> HIDE DEF good, late
    <2>5. inbox' \in Seq(Note)
      <3>1. inbox \in Seq(Note) /\ good \in Seq(Note) /\ late \in Seq(Note)
        BY <2>1, <2>3 DEF IInv, TypeInv
      <3>2. inbox \o (good \o late) \in Seq(Note)
        BY <3>1
      <3> QED
        BY <1>8, <3>1, <3>2
    <2>6. \A k \in 1 .. Len(inbox) :
             /\ inbox[k] \in Note
             /\ inbox[k][2] # Nil => inbox[k] \in included'
             /\ inbox[k][2] = Nil => Expiry(inbox[k][1]) < t
      <3> SUFFICES ASSUME NEW k \in 1 .. Len(inbox)
                   PROVE  /\ inbox[k] \in Note
                          /\ inbox[k][2] # Nil => inbox[k] \in included'
                          /\ inbox[k][2] = Nil => Expiry(inbox[k][1]) < t
        OBVIOUS
      <3>1. inbox[k] \in Note /\ chainTime \in Nat
        BY DEF IInv, TypeInv
      <3>2. Expiry(inbox[k][1]) \in Nat
        BY <3>1, NoteFields, TxExpiry
      <3> QED
        BY <1>0, <1>1, <3>1, <3>2 DEF IInv, NotesTrue
    <2>7. NotesTrue'
      <3>1. CASE inbox' = inbox
        BY <1>1, <2>6, <3>1 DEF NotesTrue
      <3>2. CASE inbox' = inbox \o (good \o late)
        <4> SUFFICES ASSUME NEW k \in 1 .. Len(inbox')
                     PROVE  /\ inbox'[k][2] # Nil => inbox'[k] \in included'
                            /\ inbox'[k][2] = Nil => Expiry(inbox'[k][1]) < t
          BY <1>1 DEF NotesTrue
        <4>1. inbox \in Seq(Note)
          BY DEF IInv, TypeInv
        <4>2. \/ k \in 1 .. Len(inbox) /\ inbox'[k] = inbox[k]
              \/ \E n \in 1 .. Len(good) : inbox'[k] = good[n]
              \/ \E n \in 1 .. Len(late) : inbox'[k] = late[n]
          <5>1. CASE k <= Len(inbox)
            BY <2>1, <2>3, <3>2, <4>1, <5>1
          <5>2. CASE k > Len(inbox) /\ k <= Len(inbox) + Len(good)
            <6>1. k - Len(inbox) \in 1 .. Len(good) /\ inbox'[k] = good[k - Len(inbox)]
              BY <2>1, <2>3, <3>2, <4>1, <5>2
            <6> QED
              BY <6>1
          <5>3. CASE k > Len(inbox) + Len(good)
            <6> DEFINE n == k - Len(inbox) - Len(good)
            <6>1. n \in 1 .. Len(late) /\ inbox'[k] = late[n]
              BY <2>1, <2>3, <3>2, <4>1, <5>3
            <6> QED
              BY <6>1
          <5> QED
            BY <2>1, <2>3, <4>1, <5>1, <5>2, <5>3
        <4> QED
          BY <1>1, <2>1, <2>4, <2>6, <4>2
      <3> QED
        BY <1>8, <3>1, <3>2
    <2>8. IsFiniteSet(expiringTxs')
      BY <1>1, FS_Difference DEF IInv, TypeInv
    <2> QED
      BY <1>0, <1>1, <2>5, <2>7, <2>8 DEF IInv, TypeInv, clientVars
  <1>10. PanicTrue'
    <2> SUFFICES ASSUME call.pc = "panicked"
                 PROVE  call.tx \in Tx /\ Expiry(call.tx) < t
      BY <1>1 DEF PanicTrue, clientVars
    <2>1. call.tx \in Tx /\ Expiry(call.tx) < chainTime /\ chainTime \in Nat
      BY DEF IInv, PanicTrue, TypeInv
    <2> QED
      BY <1>0, <1>1, <2>1, TxExpiry
  <1>11. ListenersExpire'
    BY <1>1 DEF IInv, ListenersExpire, Evicted
  <1>12. ReportedResultsAreTrue'
    BY <1>1 DEF IInv, ReportedResultsAreTrue, clientVars
  <1> QED
    BY <1>9, <1>10, <1>11, <1>12 DEF IInv

(* Every step of client, server and environment.                           *)
LEMMA NextIInv == IInv /\ [Next]_vars => IInv'
  <1> SUFFICES ASSUME IInv, [Next]_vars PROVE IInv'
    OBVIOUS
  <1>1. CASE SendErr \/ ListenTxErr
    <2>1. NoTx \in Tx \cup {NoTx} /\ call.tx \in Tx \cup {NoTx}
      BY DEF IInv, TypeInv, Calls
    <2> QED
      BY <1>1, <2>1, ErrorKeeps DEF SendErr, ListenTxErr
  <1>2. CASE Drop
    BY <1>2 DEF Drop, IInv, TypeInv, NotesTrue, PanicTrue, ListenersExpire,
                ReportedResultsAreTrue, clientVars, chainVars
  <1>3. CASE Tick
    BY <1>3 DEF Tick, IInv, TypeInv, NotesTrue, PanicTrue, ListenersExpire,
                ReportedResultsAreTrue, clientVars, serverVars
  <1>4. CASE Disconnect
    BY <1>4 DEF Disconnect, IInv, TypeInv, NotesTrue, PanicTrue, ListenersExpire,
                ReportedResultsAreTrue, clientVars, serverVars, chainVars
  <1>5. CASE UNCHANGED vars
    BY <1>5 DEF vars, IInv, TypeInv, NotesTrue, PanicTrue, ListenersExpire,
                ReportedResultsAreTrue, clientVars, serverVars, chainVars
  <1> QED
    BY <1>1, <1>2, <1>3, <1>4, <1>5, SendKeeps, ListenKeeps, MessageKeeps, AcceptKeeps
       DEF Next

(* The invariant holds throughout, whatever is lost, delayed or repeated.  *)
LEMMA Invariance == Spec => []IInv
  BY InitIInv, NextIInv, PTL DEF Spec

(* A transaction that is listened for will be expired (AddTxListener of    *)
(* the websocket server).                                                  *)
THEOREM ListenersSafe == Spec => []ListenersExpire
  <1>1. IInv => ListenersExpire
    BY DEF IInv
  <1> QED
    BY <1>1, Invariance, PTL

(* A success or failure that sendAndWait reports is the one a block holds. *)
THEOREM ReportsSafe == Spec => []ReportedResultsAreTrue
  <1>1. IInv => ReportedResultsAreTrue
    BY DEF IInv
  <1> QED
    BY <1>1, Invariance, PTL

(* A transaction that the server has announced as expired can no longer be *)
(* included (setMinTx and EMap.SetMin against the timestamp of blocks).    *)
THEOREM ExpirySafe == Spec => []ExpiriesAreFinal
  <1>1. IInv => ExpiriesAreFinal
    <2> SUFFICES ASSUME IInv PROVE ExpiriesAreFinal
      OBVIOUS
    <2>1. chainTime \in Nat /\ inbox \in Seq(Note) /\ DOMAIN inbox = 1 .. Len(inbox)
      BY DEF IInv, TypeInv
    <2>2. ASSUME NEW k \in DOMAIN inbox, inbox[k][2] = Nil
          PROVE  ~Includable(inbox[k][1], chainTime)
      <3>1. Expiry(inbox[k][1]) < chainTime
        BY <2>1, <2>2 DEF IInv, NotesTrue
      <3>2. Expiry(inbox[k][1]) \in Nat
        BY <2>1, <2>2, NoteFields, TxExpiry
      <3> QED
        BY <2>1, <3>1, <3>2 DEF Includable
    <2>3. call.pc = "panicked" => ~Includable(call.tx, chainTime)
      BY <2>1, TxExpiry DEF IInv, PanicTrue, Includable
    <2> QED
      BY <2>2, <2>3 DEF ExpiriesAreFinal
  <1> QED
    BY <1>1, Invariance, PTL

-----------------------------------------------------------------------------
(* CliStore.                                                               *)

(* A write to the database, by the record it goes to.                      *)
Entry ==
    [op : {"key", "defaultKey"}, val : Addr] \cup
    [op : {"defaultChain"}, val : Chain] \cup
    [op : {"rpc", "delete"}, val : Chain \X Rpc]

StoreTypeInv ==
    /\ keys \subseteq Addr
    /\ rpcs \subseteq Chain \X Rpc
    /\ IsFiniteSet(rpcs)
    /\ todo \in Seq(Entry)
    /\ defaultChain \in Chain \cup {None}
    /\ endpoints \in {"kept", "restoring", "lost"}

(* A write of the default key that is still to be made comes after the     *)
(* write of the key itself.                                                *)
KeyFirst ==
    \A n \in 1 .. Len(todo) : todo[n].op = "defaultKey" =>
        \/ todo[n].val \in keys
        \/ \E m \in 1 .. (n - 1) : todo[m].op = "key" /\ todo[m].val = todo[n].val

(* The endpoints in db and the writes in q leave chain d with an endpoint  *)
(* when the first n - 1 of them are made: no later write deletes one.      *)
ServedBy(db, q, d, n) ==
    \/ /\ \E x \in db : x[1] = d
       /\ \A l \in 1 .. Len(q) : q[l].op # "delete"
    \/ \E m \in 1 .. (n - 1) :
          /\ q[m].op = "rpc" /\ q[m].val[1] = d
          /\ \A l \in (m + 1) .. Len(q) : q[l].op # "delete"

(* Writes of the default chain come after an endpoint of it, and after all *)
(* deletions.                                                              *)
Serves(db, q) ==
    \A n \in 1 .. Len(q) : q[n].op = "defaultChain" => ServedBy(db, q, q[n].val, n)

(* Unless import-cli has left the default without an endpoint: a command   *)
(* only deletes when its last write is that of a served default.           *)
ChainFirst ==
    /\ endpoints # "lost" => Serves(rpcs, todo)
    /\ endpoints = "kept" => \A l \in 1 .. Len(todo) : todo[l].op # "delete"
    /\ endpoints = "restoring" => todo # <<>> /\ todo[Len(todo)].op = "defaultChain"

ChainServed ==
    endpoints = "kept" /\ defaultChain # None => \E r \in rpcs : r[1] = defaultChain

StoreInv == StoreTypeInv /\ KeyFirst /\ ChainFirst /\ ChainServed /\ DefaultKeyStored

(* The lists of writes that the commands begin with.                       *)
LEMMA BeginKeeps ==
    ASSUME StoreInv, NEW writes \in Seq(Entry), Begin(writes),
           endpoints' \in {"kept", "restoring", "lost"},
           endpoints' = "kept" => endpoints = "kept",
           \A n \in 1 .. Len(writes) : writes[n].op = "defaultKey" =>
              \/ writes[n].val \in keys
              \/ \E m \in 1 .. (n - 1) :
                    writes[m].op = "key" /\ writes[m].val = writes[n].val,
           endpoints' # "lost" => Serves(rpcs, writes),
           endpoints' = "kept" => \A l \in 1 .. Len(writes) : writes[l].op # "delete",
           endpoints' = "restoring" =>
              writes # <<>> /\ writes[Len(writes)].op = "defaultChain"
    PROVE  StoreInv'
  <1> USE DEF Begin
  <1>1. StoreTypeInv'
    BY DEF StoreInv, StoreTypeInv
  <1>2. KeyFirst'
    BY DEF KeyFirst
  <1>3. ChainFirst'
    BY DEF ChainFirst
  <1>4. ChainServed' /\ DefaultKeyStored'
    BY DEF StoreInv, ChainServed, DefaultKeyStored, DefaultActorHasKey, StoreTypeInv
  <1> QED
    BY <1>1, <1>2, <1>3, <1>4 DEF StoreInv

(* An empty database.                                                      *)
LEMMA InitStoreInv == CliInit => StoreInv
  <1> SUFFICES ASSUME CliInit PROVE StoreInv
    OBVIOUS
  <1>1. IsFiniteSet({})
    BY FS_EmptySet
  <1>2. StoreTypeInv
    <2>1. /\ keys \subseteq Addr /\ defaultChain \in Chain \cup {None}
          /\ rpcs \subseteq Chain \X Rpc /\ IsFiniteSet(rpcs)
      BY <1>1, Zenon DEF CliInit
    <2>2. endpoints \in {"kept", "restoring", "lost"}
      BY Zenon DEF CliInit
    <2>3. todo = <<>>
      BY Zenon DEF CliInit
    <2>4. todo \in Seq(Entry)
      BY <2>3
    <2> QED
      BY <2>1, <2>2, <2>4, Zenon DEF StoreTypeInv
  <1>3. KeyFirst /\ ChainFirst
    BY DEF CliInit, KeyFirst, ChainFirst, Serves
  <1>4. ChainServed /\ DefaultKeyStored
    BY DEF CliInit, ChainServed, DefaultKeyStored
  <1> QED
    BY <1>2, <1>3, <1>4 DEF StoreInv

(* import-cli writes no key; with a node to store, it stores it after all  *)
(* deletions and before the default.                                       *)
LEMMA ImportKeeps ==
    ASSUME StoreInv, NEW c \in Chain, NEW nodes \in SUBSET Rpc, ImportClusterInfo(c, nodes)
    PROVE  StoreInv'
  <1> DEFINE Deletes == {Put("delete", r) : r \in rpcs}
             Stores == {Put("rpc", <<c, n>>) : n \in nodes}
  <1>1. IsFiniteSet(Deletes) /\ IsFiniteSet(Stores)
    <2>1. IsFiniteSet(rpcs) /\ IsFiniteSet(nodes)
      BY RpcAssumption, FS_Subset DEF StoreInv, StoreTypeInv
    <2> DEFINE f == [r \in rpcs |-> Put("delete", r)]
               g == [n \in nodes |-> Put("rpc", <<c, n>>)]
    <2>2. f \in Surjection(rpcs, Deletes) /\ g \in Surjection(nodes, Stores)
      BY DEF Surjection
    <2> QED
      BY <2>1, <2>2, FS_Surjection
  <1>2. Deletes \subseteq Entry /\ Stores \subseteq Entry
    BY DEF Put, Entry, StoreInv, StoreTypeInv
  <1>3. /\ \A e \in Deletes : e.op = "delete"
        /\ \A e \in Stores : e.op = "rpc" /\ e.val[1] = c
        /\ nodes # {} => Stores # {}
    <2>1. \A e \in Deletes : e.op = "delete"
      BY DEF Put
    <2>2. \A e \in Stores : e.op = "rpc" /\ e.val[1] = c
      <3> SUFFICES ASSUME NEW e \in Stores PROVE e.op = "rpc" /\ e.val[1] = c
        OBVIOUS
      <3>1. PICK n \in nodes : e = Put("rpc", <<c, n>>)
        OBVIOUS
      <3>2. e.op = "rpc" /\ e.val = <<c, n>>
        BY <3>1 DEF Put
      <3> QED
        BY <3>2
    <2>3. ASSUME NEW n \in nodes PROVE Put("rpc", <<c, n>>) \in Stores
      OBVIOUS
    <2> QED
      BY <2>1, <2>2, <2>3
  <1>4. PICK deletes \in SetToSeqs(Deletes) :
          \/ Begin(deletes) /\ endpoints' = "lost"
          \/ /\ \E stores \in SetToSeqs(Stores) :
                   Begin(deletes \o stores \o <<Put("defaultChain", c)>>)
             /\ endpoints' = IF nodes = {} THEN "lost" ELSE "restoring"
    BY DEF ImportClusterInfo
  <1> HIDE DEF Deletes, Stores
  <1>5. deletes \in Seq(Deletes)
    BY <1>1, SequenceOfSet
  <1>6. CASE Begin(deletes) /\ endpoints' = "lost"
    <2>1. deletes \in Seq(Entry)
      BY <1>2, <1>5
    <2>2. \A n \in 1 .. Len(deletes) : deletes[n].op # "defaultKey"
      BY <1>3, <1>5
    <2> QED
      BY <1>6, <2>1, <2>2, BeginKeeps
  <1>7. ASSUME NEW stores \in SetToSeqs(Stores),
               Begin(deletes \o stores \o <<Put("defaultChain", c)>>),
               endpoints' = IF nodes = {} THEN "lost" ELSE "restoring"
        PROVE  StoreInv'
    <2> DEFINE last == Put("defaultChain", c)
               writes == deletes \o stores \o <<last>>
               D == Len(deletes)
               L == Len(deletes) + Len(stores)
    <2>1. stores \in Seq(Stores)
      BY <1>1, SequenceOfSet
    <2>2. last \in Entry /\ last.op = "defaultChain" /\ last.val = c
      BY DEF Put, Entry
    <2> HIDE DEF last
    <2>3. deletes \in Seq(Entry) /\ stores \in Seq(Entry)
      BY <1>2, <1>5, <2>1
    <2>4. writes \in Seq(Entry) /\ Len(writes) = L + 1 /\ writes # <<>>
      BY <2>2, <2>3
    <2>5. /\ D \in Nat /\ Len(stores) \in Nat /\ L \in Nat /\ D <= L
          /\ \A n \in 1 .. D : writes[n] = deletes[n]
          /\ \A n \in (D + 1) .. L : writes[n] = stores[n - D]
          /\ writes[L + 1] = last
      BY <2>2, <2>3
    <2>6. Begin(writes)
      BY <1>7 DEF last
    <2>7. nodes # {} => Len(stores) > 0
      <3>1. CASE Len(stores) = 0
        <4>1. Cardinality(Stores) = 0
          <5>1. stores \in [1 .. Cardinality(Stores) -> Stores] /\ Cardinality(Stores) \in Nat
            BY <1>1, FS_CardinalityType DEF SetToSeqs
          <5> QED
            BY <3>1, <5>1
        <4> QED
          BY <1>1, <1>3, <4>1, FS_EmptySet
      <3> QED
        BY <2>5, <3>1
    <2> HIDE DEF writes
    <2>8. /\ \A n \in 1 .. D : writes[n].op = "delete"
          /\ \A n \in (D + 1) .. L : writes[n].op = "rpc" /\ writes[n].val[1] = c
      <3>1. \A n \in 1 .. D : deletes[n] \in Deletes
        BY <1>5
      <3>2. \A n \in (D + 1) .. L : n - D \in 1 .. Len(stores)
        BY <2>5
      <3>3. \A n \in (D + 1) .. L : stores[n - D] \in Stores
        BY <2>1, <3>2
      <3> QED
        BY <1>3, <2>5, <3>1, <3>3
    <2> HIDE DEF D, L
    <2>9. \A n \in 1 .. Len(writes) : n \in 1 .. D \/ n \in (D + 1) .. L \/ n = L + 1
      BY <2>4, <2>5
    <2>10. \A n \in 1 .. Len(writes) : writes[n].op # "defaultKey"
      BY <2>2, <2>5, <2>8, <2>9
    <2>11. ASSUME nodes # {} PROVE Serves(rpcs, writes)
      <3> SUFFICES ASSUME NEW n \in 1 .. Len(writes), writes[n].op = "defaultChain"
                   PROVE  ServedBy(rpcs, writes, writes[n].val, n)
        BY DEF Serves
      <3>1. n = L + 1 /\ writes[n].val = c
        BY <2>2, <2>5, <2>8, <2>9
      <3>2. L \in 1 .. (n - 1) /\ L \in (D + 1) .. L
        BY <2>5, <2>7, <2>11, <3>1 DEF D, L
      <3>3. \A l \in (L + 1) .. Len(writes) : writes[l].op # "delete"
        BY <2>2, <2>4, <2>5
      <3> QED
        BY <2>8, <3>1, <3>2, <3>3 DEF ServedBy
    <2> QED
      BY <1>7, <2>2, <2>4, <2>5, <2>6, <2>10, <2>11, BeginKeeps
  <1> QED
    BY <1>4, <1>6, <1>7

(* One write: the one at the head of the list reaches the database.        *)
LEMMA WriteKeeps == ASSUME StoreInv, Write PROVE StoreInv'
  <1> DEFINE w == Head(todo)
  <1>1. /\ todo \in Seq(Entry) /\ todo # <<>>
        /\ w = todo[1] /\ w \in Entry
        /\ todo' \in Seq(Entry)
        /\ Len(todo') = Len(todo) - 1
        /\ \A n \in 1 .. Len(todo') : todo'[n] = todo[n + 1]
    BY DEF StoreInv, StoreTypeInv, Write
  <1>2. /\ keys' = IF w.op = "key" THEN keys \cup {w.val} ELSE keys
        /\ defaultKey' = IF w.op = "defaultKey" THEN w.val ELSE defaultKey
        /\ rpcs' = CASE w.op = "rpc" -> rpcs \cup {w.val}
                     [] w.op = "delete" -> rpcs \ {w.val}
                     [] OTHER -> rpcs
        /\ defaultChain' = IF w.op = "defaultChain" THEN w.val ELSE defaultChain
        /\ endpoints' = IF endpoints = "restoring" /\ Len(todo) = 1
                        THEN "kept" ELSE endpoints
    BY DEF Write
  <1> HIDE DEF w
  <1>3. /\ w.op \in {"key", "defaultKey"} => w.val \in Addr
        /\ w.op = "defaultChain" => w.val \in Chain
        /\ w.op = "rpc" => w.val \in Chain \X Rpc
    BY <1>1 DEF Entry
  <1>4. StoreTypeInv'
    <2>1. IsFiniteSet(rpcs')
      BY <1>2, FS_AddElement, FS_RemoveElement DEF StoreInv, StoreTypeInv
    <2> QED
      BY <1>1, <1>2, <1>3, <2>1 DEF StoreInv, StoreTypeInv
  <1>5. KeyFirst'
    <2> SUFFICES ASSUME NEW n \in 1 .. Len(todo'), todo'[n].op = "defaultKey",
                        todo'[n].val \notin keys'
                 PROVE  \E m \in 1 .. (n - 1) :
                           todo'[m].op = "key" /\ todo'[m].val = todo'[n].val
      BY DEF KeyFirst
    <2>1. n + 1 \in 1 .. Len(todo) /\ todo[n + 1] = todo'[n]
      BY <1>1
    <2>2. todo'[n].val \notin keys
      BY <1>2
    <2>3. PICK m \in 1 .. n : todo[m].op = "key" /\ todo[m].val = todo'[n].val
      BY <2>1, <2>2 DEF StoreInv, KeyFirst
    <2>4. m # 1
      BY <1>1, <1>2, <2>3
    <2>5. m - 1 \in 1 .. (n - 1) /\ m - 1 \in 1 .. Len(todo') /\ (m - 1) + 1 = m
      BY <1>1, <2>4
    <2>6. todo'[m - 1] = todo[m]
      BY <1>1, <2>5
    <2> QED
      BY <2>3, <2>5, <2>6
  <1>6. ASSUME endpoints # "lost" PROVE Serves(rpcs', todo')
    <2> SUFFICES ASSUME NEW n \in 1 .. Len(todo'), todo'[n].op = "defaultChain"
                 PROVE  ServedBy(rpcs', todo', todo'[n].val, n)
      BY DEF Serves
    <2> DEFINE d == todo'[n].val
    <2>1. n + 1 \in 1 .. Len(todo) /\ todo[n + 1] = todo'[n] /\ Len(todo) \in Nat
      BY <1>1
    <2>2. ServedBy(rpcs, todo, d, n + 1)
      BY <1>6, <2>1 DEF StoreInv, ChainFirst, Serves
    <2>3. ASSUME NEW x \in rpcs, x[1] = d, \A l \in 1 .. Len(todo) : todo[l].op # "delete"
          PROVE  ServedBy(rpcs', todo', d, n)
      <3>1. w.op # "delete" /\ \A l \in 1 .. Len(todo') : todo'[l].op # "delete"
        <4>1. 1 \in 1 .. Len(todo) /\ \A l \in 1 .. Len(todo') : l + 1 \in 1 .. Len(todo)
          BY <1>1
        <4> QED
          BY <1>1, <2>3, <4>1
      <3>2. x \in rpcs'
        BY <1>2, <3>1
      <3> QED
        BY <2>3, <3>1, <3>2 DEF ServedBy
    <2>4. ASSUME NEW m \in 1 .. n, todo[m].op = "rpc", todo[m].val[1] = d,
                 \A l \in (m + 1) .. Len(todo) : todo[l].op # "delete"
          PROVE  ServedBy(rpcs', todo', d, n)
      <3>1. CASE m = 1
        <4>1. w.val \in rpcs' /\ w.val[1] = d
          BY <1>1, <1>2, <2>4, <3>1
        <4>2. \A l \in 1 .. Len(todo') : l + 1 \in (m + 1) .. Len(todo)
          BY <1>1, <3>1
        <4>3. \A l \in 1 .. Len(todo') : todo'[l].op # "delete"
          BY <1>1, <2>4, <4>2
        <4> QED
          BY <4>1, <4>3 DEF ServedBy
      <3>2. CASE m # 1
        <4> DEFINE k == m - 1
        <4>1. k \in 1 .. (n - 1) /\ k \in 1 .. Len(todo') /\ k + 1 = m
          BY <1>1, <3>2
        <4>2. todo'[k] = todo[m]
          BY <1>1, <4>1
        <4>3. \A l \in (k + 1) .. Len(todo') : l \in 1 .. Len(todo') /\ l + 1 \in (m + 1) .. Len(todo)
          BY <1>1, <4>1
        <4>4. \A l \in (k + 1) .. Len(todo') : todo'[l].op # "delete"
          BY <1>1, <2>4, <4>3
        <4> HIDE DEF k
        <4> QED
          BY <2>4, <4>1, <4>2, <4>4 DEF ServedBy
      <3> QED
        BY <3>1, <3>2
    <2>5. (n + 1) - 1 = n
      BY <2>1
    <2> HIDE DEF d
    <2>6. ServedBy(rpcs', todo', d, n)
      BY <2>2, <2>3, <2>4, <2>5 DEF ServedBy
    <2> QED
      BY <2>6 DEF d
  <1>7. ChainFirst' /\ ChainServed'
    <2>1. /\ Len(todo) \in Nat /\ 1 \in 1 .. Len(todo) /\ Len(todo) \in 1 .. Len(todo)
          /\ Len(todo') \in Nat
      BY <1>1
    <2>2. endpoints \in {"kept", "restoring", "lost"}
      BY DEF StoreInv, StoreTypeInv
    <2>3. w.op = "defaultChain" /\ endpoints # "lost" => \E x \in rpcs : x[1] = w.val
      BY <1>1, <2>1 DEF StoreInv, ChainFirst, Serves, ServedBy
    <2>4. CASE endpoints = "kept"
      <3>1. \A l \in 1 .. Len(todo) : todo[l].op # "delete"
        BY <2>4 DEF StoreInv, ChainFirst
      <3>2. w.op # "delete" /\ \A l \in 1 .. Len(todo') : todo'[l].op # "delete"
        <4>1. \A l \in 1 .. Len(todo') : l + 1 \in 1 .. Len(todo)
          BY <1>1, <2>1
        <4> QED
          BY <1>1, <2>1, <3>1, <4>1
      <3>3. rpcs \subseteq rpcs'
        BY <1>2, <3>2
      <3>4. endpoints' = "kept"
        BY <1>2, <2>4
      <3>5. ChainServed'
        BY <1>2, <2>3, <2>4, <3>3, <3>4 DEF StoreInv, ChainServed
      <3> QED
        BY <1>6, <2>4, <3>2, <3>4, <3>5 DEF ChainFirst
    <2>5. CASE endpoints = "restoring" /\ Len(todo) = 1
      <3>1. w.op = "defaultChain" /\ endpoints' = "kept" /\ rpcs' = rpcs /\ defaultChain' = w.val
        BY <1>1, <1>2, <2>5 DEF StoreInv, ChainFirst
      <3>2. Len(todo') = 0
        BY <1>1, <2>5
      <3> QED
        BY <1>6, <2>3, <2>5, <3>1, <3>2 DEF ChainFirst, ChainServed
    <2>6. CASE endpoints = "restoring" /\ Len(todo) # 1
      <3>1. endpoints' = "restoring"
        BY <1>2, <2>6
      <3>2. Len(todo') \in 1 .. Len(todo') /\ Len(todo') + 1 = Len(todo)
        BY <1>1, <2>1, <2>6
      <3>3. todo'[Len(todo')] = todo[Len(todo)] /\ todo' # <<>>
        BY <1>1, <3>2
      <3>4. todo'[Len(todo')].op = "defaultChain"
        BY <2>6, <3>3 DEF StoreInv, ChainFirst
      <3> QED
        BY <1>6, <2>6, <3>1, <3>3, <3>4 DEF ChainFirst, ChainServed
    <2>7. CASE endpoints = "lost"
      BY <1>2, <2>7 DEF ChainFirst, ChainServed
    <2> QED
      BY <2>2, <2>4, <2>5, <2>6, <2>7
  <1>8. DefaultKeyStored'
    <2>1. 1 \in 1 .. Len(todo)
      BY <1>1
    <2>2. w.op = "defaultKey" => w.val \in keys
      BY <1>1, <2>1 DEF StoreInv, KeyFirst
    <2> QED
      BY <1>2, <2>2 DEF StoreInv, DefaultKeyStored, DefaultActorHasKey
  <1> QED
    BY <1>4, <1>5, <1>7, <1>8 DEF StoreInv

(* Between commands nothing is being restored.                             *)
LEMMA IdleEndpoints == ASSUME StoreInv, todo = <<>> PROVE endpoints \in {"kept", "lost"}
  BY DEF StoreInv, StoreTypeInv, ChainFirst

(* Every command and every end of one keeps the invariant.                 *)
LEMMA NextStoreInv == StoreInv /\ [CliNext]_cliVars => StoreInv'
  <1> SUFFICES ASSUME StoreInv, [CliNext]_cliVars PROVE StoreInv'
    OBVIOUS
  <1>1. ASSUME NEW a \in Addr, StoreKey(a) PROVE StoreInv'
    <2> DEFINE writes == <<Put("key", a), Put("defaultKey", a)>>
    <2>1. /\ writes \in Seq(Entry) /\ Len(writes) = 2
          /\ writes[1].op = "key" /\ writes[1].val = a
          /\ writes[2].op = "defaultKey" /\ writes[2].val = a
      BY DEF Put, Entry
    <2>2. Begin(writes) /\ endpoints' = endpoints /\ endpoints \in {"kept", "lost"}
      BY <1>1, IdleEndpoints DEF StoreKey, Begin
    <2> HIDE DEF writes
    <2>3. Serves(rpcs, writes)
      BY <2>1 DEF Serves
    <2> QED
      BY <2>1, <2>2, <2>3, BeginKeeps
  <1>2. ASSUME NEW a \in Addr, SetKey(a) PROVE StoreInv'
    <2> DEFINE writes == <<Put("defaultKey", a)>>
    <2>1. /\ writes \in Seq(Entry) /\ Len(writes) = 1
          /\ writes[1].op = "defaultKey" /\ writes[1].val = a
      BY DEF Put, Entry
    <2>2. /\ Begin(writes) /\ endpoints' = endpoints /\ endpoints \in {"kept", "lost"}
          /\ a \in keys
      BY <1>2, IdleEndpoints DEF SetKey, Begin
    <2> HIDE DEF writes
    <2>3. Serves(rpcs, writes)
      BY <2>1 DEF Serves
    <2> QED
      BY <2>1, <2>2, <2>3, BeginKeeps
  <1>3. ASSUME NEW c \in Chain, NEW u \in Rpc, ImportChain(c, u) PROVE StoreInv'
    <2> DEFINE writes == <<Put("rpc", <<c, u>>), Put("defaultChain", c)>>
    <2>1. /\ writes \in Seq(Entry) /\ Len(writes) = 2
          /\ writes[1].op = "rpc" /\ writes[1].val[1] = c
          /\ writes[2].op = "defaultChain" /\ writes[2].val = c
          /\ writes # <<>>
      BY DEF Put, Entry
    <2>2. /\ Begin(writes) /\ endpoints' \in {"kept", "restoring"}
          /\ endpoints' = "kept" => endpoints = "kept"
      BY <1>3, IdleEndpoints DEF ImportChain, Restore, Begin
    <2> HIDE DEF writes
    <2>3. Serves(rpcs, writes)
      <3>1. ServedBy(rpcs, writes, c, 2)
        BY <2>1 DEF ServedBy
      <3> QED
        BY <2>1, <3>1 DEF Serves
    <2>4. /\ \A n \in 1 .. Len(writes) : writes[n].op \notin {"defaultKey", "delete"}
          /\ writes[Len(writes)].op = "defaultChain"
      BY <2>1
    <2> QED
      BY <2>1, <2>2, <2>3, <2>4, BeginKeeps
  <1>4. ASSUME NEW c \in Chain, SetDefaultChain(c) PROVE StoreInv'
    <2> DEFINE writes == <<Put("defaultChain", c)>>
    <2>1. /\ writes \in Seq(Entry) /\ Len(writes) = 1
          /\ writes[1].op = "defaultChain" /\ writes[1].val = c
          /\ writes # <<>>
      BY DEF Put, Entry
    <2>2. /\ Begin(writes) /\ endpoints' \in {"kept", "restoring"}
          /\ endpoints' = "kept" => endpoints = "kept"
      BY <1>4, IdleEndpoints DEF SetDefaultChain, Restore, Begin
    <2>3. \E r \in rpcs : r[1] = c
      BY <1>4 DEF SetDefaultChain, GetChain
    <2> HIDE DEF writes
    <2>4. Serves(rpcs, writes)
      <3>1. ServedBy(rpcs, writes, c, 1)
        BY <2>1, <2>3 DEF ServedBy
      <3> QED
        BY <2>1, <3>1 DEF Serves
    <2> QED
      BY <2>1, <2>2, <2>4, BeginKeeps
  <1>5. CASE Crash
    BY <1>5 DEF Crash, StoreInv, StoreTypeInv, KeyFirst, ChainFirst, Serves, ChainServed,
                DefaultKeyStored, DefaultActorHasKey
  <1>6. CASE UNCHANGED cliVars
    BY <1>6 DEF cliVars, StoreInv, StoreTypeInv, KeyFirst, ChainFirst, ChainServed, DefaultKeyStored,
                DefaultActorHasKey
  <1> QED
    BY <1>1, <1>2, <1>3, <1>4, <1>5, <1>6, ImportKeeps, WriteKeeps DEF CliNext

(* The default address has its private key in the database, wherever a     *)
(* command that stores or selects keys was cut off (cmd/key.go).           *)
THEOREM DefaultKeySafe == CliSpec => []DefaultKeyStored
  <1>1. StoreInv => DefaultKeyStored
    BY DEF StoreInv
  <1> QED
    BY <1>1, InitStoreInv, NextStoreInv, PTL DEF CliSpec

(* The default chain has an endpoint, wherever a command was cut off, save *)
(* during an import-cli and after one that failed or found no node, until  *)
(* the next command that selects a chain has come to its end (cmd/chain.go,*)
(* cluster_info.go, DefaultActor).                                         *)
THEOREM DefaultChainSafe == CliSpec => []DefaultChainServed
  <1>1. StoreInv => DefaultChainServed
    BY DEF StoreInv, ChainServed, DefaultChainServed, DefaultActorPanics, GetChain
  <1> QED
    BY <1>1, InitStoreInv, NextStoreInv, PTL DEF CliSpec
=============================================================================
