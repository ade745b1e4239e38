------------------------ MODULE Verification_proofs ------------------------
(***************************************************************************)
(* Proofs about Verification, for all batches, chains and word sizes: a    *)
(* verifier never fails a block that was built by the rules, and ends in   *)
(* the builder's state whatever the two executors interleaved.             *)
(*                                                                         *)
(* The argument compares the verifier with the states h[0], h[1], ... that *)
(* the builder went through, key by key: the writers of a key that have    *)
(* run are its first ones, and the verifier's record is the one that the   *)
(* builder had after the last of them.                                     *)
(***************************************************************************)
EXTENDS Verification, Ledger_proofs

(* The n-th transaction of block q may write k.                            *)
Writes(q, n, k) == CanWrite(StateKeys(q[n]), k)

(* h holds the states between the transactions of q.                       *)
Trace(q, ts, h) ==
    /\ \A n \in 0 .. Len(q) : StoreOK(h[n])
    /\ \A n \in 1 .. Len(q) :
          /\ ~StateKeysErr(q[n])
          /\ PreExecute(h[n - 1], ts, q[n])
          /\ Effects(h[n - 1], ts, q[n]) = {h[n]}
          /\ KeepsTo(StateKeys(q[n]), h[n - 1], h[n])

(* With p still to be run, r has under k what h had after the writers of k *)
(* that have run, which are the first ones.                                *)
FollowsAt(q, h, p, r, k) ==
    \E n \in 0 .. Len(q) :
        /\ r[k] = h[n][k]
        /\ \A m \in 1 .. Len(q) : Writes(q, m, k) => (m \notin p <=> m <= n)

Follows(q, h, p, r) == \A k \in Key : FollowsAt(q, h, p, r, k)

(* What has run is closed: all that conflicts with it before it has run.   *)
Settled(q, p) ==
    \A j \in DOMAIN q : \A i \in 1 .. (j - 1) :
        j \notin p /\ Conflict(q, i, j) => i \notin p

Typed ==
    /\ phase \in {"building", "verifying"}
    /\ batch \in Seq(Transaction)
    /\ left \subseteq {i \in DOMAIN batch : Queued(batch, i)}
    /\ block \in Seq(Transaction)
    /\ StoreOK(built)
    /\ pending \subseteq DOMAIN block
    /\ StoreOK(replica)

Building(h) == phase = "building" => replica = h[0]

Verifying(h) ==
    phase = "verifying" =>
        left = {} /\ Settled(block, pending) /\ Follows(block, h, pending, replica)

History(h) ==
    /\ Trace(block, now, h) /\ h[Len(block)] = built
    /\ Building(h) /\ Verifying(h)

IInv == Typed /\ \E h : History(h)

-----------------------------------------------------------------------------
(* The states of a block.                                                  *)

(* Between two states without a writer of k in between, k keeps its record.*)
LEMMA LevelUp ==
    ASSUME NEW q \in Seq(Transaction), NEW ts, NEW h, Trace(q, ts, h), NEW k \in Key,
           NEW a \in 0 .. Len(q), NEW b \in a .. Len(q),
           \A m \in (a + 1) .. b : ~Writes(q, m, k)
    PROVE  h[b][k] = h[a][k]
  <1> DEFINE T == {n \in a .. b : h[n][k] # h[a][k]}
  <1>0. Len(q) \in Nat /\ a \in Nat /\ b \in Nat
    OBVIOUS
  <1>1. T = {}
    <2> SUFFICES ASSUME T # {} PROVE FALSE
      OBVIOUS
    <2>0. T \subseteq Nat
      BY <1>0
    <2> HIDE DEF T
    <2>1. PICK n \in T : \A x \in T : n <= x
      BY <2>0, LeastNat
    <2>2. n \in a .. b /\ h[n][k] # h[a][k]
      BY DEF T
    <2>3. n - 1 \notin T
      BY <1>0, <2>1, <2>2
    <2>4. n # a /\ n - 1 \in a .. b /\ n \in 1 .. Len(q) /\ n \in (a + 1) .. b
      BY <1>0, <2>2
    <2>5. h[n - 1][k] = h[a][k]
      BY <2>3, <2>4 DEF T
    <2>6. KeepsTo(StateKeys(q[n]), h[n - 1], h[n])
      BY <2>4 DEF Trace
    <2>7. Writes(q, n, k)
      BY <2>2, <2>5, <2>6 DEF KeepsTo, Writes
    <2> QED
      BY <2>4, <2>7
  <1>2. b \in a .. b
    BY <1>0
  <1> QED
    BY <1>1, <1>2

(* Two states with the same writers of k before them agree on k.           *)
LEMMA Level ==
    ASSUME NEW q \in Seq(Transaction), NEW ts, NEW h, Trace(q, ts, h), NEW k \in Key,
           NEW a \in 0 .. Len(q), NEW b \in 0 .. Len(q),
           \A m \in 1 .. Len(q) : Writes(q, m, k) => (m <= a <=> m <= b)
    PROVE  h[b][k] = h[a][k]
  <1>0. Len(q) \in Nat /\ a \in Nat /\ b \in Nat
    OBVIOUS
  <1>1. CASE a <= b
    <2>1. b \in a .. Len(q) /\ \A m \in (a + 1) .. b : ~Writes(q, m, k)
      BY <1>0, <1>1
    <2> QED
      BY <2>1, LevelUp
  <1>2. CASE b <= a
    <2>1. a \in b .. Len(q) /\ \A m \in (b + 1) .. a : ~Writes(q, m, k)
      BY <1>0, <1>2
    <2> QED
      BY <2>1, LevelUp
  <1> QED
    BY <1>0, <1>1, <1>2

(* A writer of a key conflicts with everything that touches it.            *)
LEMMA WriterConflicts ==
    ASSUME NEW q, NEW i, Queued(q, i), NEW m, Queued(q, m), NEW k, Writes(q, m, k),
           CanRead(StateKeys(q[i]), k)
    PROVE  Conflict(q, i, m) /\ Conflict(q, m, i)
  <1>1. <<k, "write">> \in StateKeys(q[m]) /\ <<k, "read">> \in StateKeys(q[i])
    BY DEF Writes, CanWrite, CanRead
  <1>2. <<k, "read">>[1] = k /\ <<k, "write">>[1] = k
    OBVIOUS
  <1>3. k \in KeysOf(q, i) /\ k \in KeysOf(q, m)
    BY <1>1, <1>2 DEF KeysOf
  <1>4. Exclusive(q, m, k)
    BY <1>1 DEF Exclusive
  <1> QED
    BY <1>3, <1>4 DEF Conflict

(* A task that may run finds every earlier conflicting one at its end.     *)
LEMMA EarlierEnded ==
    ASSUME NEW q \in Seq(Transaction), NEW p, Settled(q, p), NEW i \in DOMAIN q,
           Dependencies(q, i) \cap p = {}, NEW n \in 1 .. (i - 1), Conflict(q, n, i)
    PROVE  n \notin p
  <1> DEFINE ended == {j \in DOMAIN q : j \notin p}
  <1>1. i \in Nat /\ 1 .. (i - 1) \subseteq DOMAIN q
    OBVIOUS
  <1>2. Dependencies(q, i) \subseteq ended
    BY <1>1 DEF Dependencies
  <1>3. \A m \in 1 .. (i - 1) : m \in ended =>
           \A x \in 1 .. (m - 1) : Conflict(q, x, m) => x \in ended
    <2> SUFFICES ASSUME NEW m \in 1 .. (i - 1), m \in ended,
                        NEW x \in 1 .. (m - 1), Conflict(q, x, m)
                 PROVE  x \in ended
      OBVIOUS
    <2>1. x \in DOMAIN q
      OBVIOUS
    <2> QED
      BY <2>1 DEF Settled
  <1> HIDE DEF ended
  <1>4. n \in ended
    BY <1>1, <1>2, <1>3, DependenciesSettle
  <1> QED
    BY <1>4 DEF ended

(* Of the writers of what a runnable task reads, those before it have run  *)
(* and those after it have not.                                            *)
LEMMA WritersSplit ==
    ASSUME NEW q \in Seq(Transaction), NEW ts, NEW h, Trace(q, ts, h),
           NEW p, Settled(q, p), NEW i \in DOMAIN q, i \in p, Dependencies(q, i) \cap p = {},
           NEW k, CanRead(StateKeys(q[i]), k),
           NEW m \in 1 .. Len(q), Writes(q, m, k)
    PROVE  m \notin p <=> m <= i - 1
  <1>1. Queued(q, i) /\ Queued(q, m) /\ i \in Nat /\ m \in Nat /\ m \in DOMAIN q /\ m >= 1
    BY DEF Trace, Queued
  <1>2. Conflict(q, i, m) /\ Conflict(q, m, i)
    BY <1>1, WriterConflicts
  <1>3. CASE m < i
    <2>1. m \in 1 .. (i - 1)
      BY <1>1, <1>3
    <2> QED
      BY <1>1, <1>2, <1>3, <2>1, EarlierEnded
  <1>4. CASE m = i
    BY <1>1, <1>4
  <1>5. CASE m > i
    <2>1. i \in 1 .. (m - 1)
      BY <1>1, <1>5
    <2>2. m \in p
      BY <1>1, <1>2, <2>1 DEF Settled
    <2> QED
      BY <1>1, <1>5, <2>2
  <1> QED
    BY <1>1, <1>3, <1>4, <1>5

(* So it reads what the builder's task read.                               *)
LEMMA ReadsTheSame ==
    ASSUME NEW q \in Seq(Transaction), NEW ts, NEW h, Trace(q, ts, h),
           NEW p, Settled(q, p), NEW r, Follows(q, h, p, r),
           NEW i \in DOMAIN q, i \in p, Dependencies(q, i) \cap p = {},
           NEW k \in Key, CanRead(StateKeys(q[i]), k)
    PROVE  r[k] = h[i - 1][k]
  <1>1. PICK n \in 0 .. Len(q) :
           /\ r[k] = h[n][k]
           /\ \A m \in 1 .. Len(q) : Writes(q, m, k) => (m \notin p <=> m <= n)
    BY DEF Follows, FollowsAt
  <1>2. i - 1 \in 0 .. Len(q)
    OBVIOUS
  <1>3. \A m \in 1 .. Len(q) : Writes(q, m, k) => (m \notin p <=> m <= i - 1)
    BY WritersSplit
  <1>4. \A m \in 1 .. Len(q) : Writes(q, m, k) => (m <= n <=> m <= i - 1)
    BY <1>1, <1>3
  <1> DEFINE j == i - 1
  <1>5. j \in 0 .. Len(q) /\ \A m \in 1 .. Len(q) : Writes(q, m, k) => (m <= n <=> m <= j)
    BY <1>2, <1>4
  <1> HIDE DEF j
  <1>6. h[n][k] = h[j][k]
    BY <1>1, <1>5, Level
  <1> QED
    BY <1>1, <1>6 DEF j

(* Running it keeps the verifier on the builder's track.                   *)
LEMMA TxFollows ==
    ASSUME NEW q \in Seq(Transaction), NEW ts, NEW h, Trace(q, ts, h),
           NEW p, Settled(q, p), NEW r, StoreOK(r), Follows(q, h, p, r),
           NEW i \in DOMAIN q, i \in p, Dependencies(q, i) \cap p = {}
    PROVE  /\ ~StateKeysErr(q[i]) /\ PreExecute(r, ts, q[i])
           /\ \A s \in Effects(r, ts, q[i]) :
                 StoreOK(s) /\ Follows(q, h, p \ {i}, s) /\ Settled(q, p \ {i})
  <1> DEFINE tx == q[i]
             scope == StateKeys(tx)
             before == h[i - 1]
  <1>1. /\ tx \in Transaction /\ tx.actor \in Addr /\ i \in 1 .. Len(q)
        /\ i - 1 \in 0 .. Len(q) /\ i \in 0 .. Len(q) /\ Len(q) \in Nat /\ i \in Nat
    BY ActionKinds
  <1>2. /\ ~StateKeysErr(tx) /\ StoreOK(before) /\ StoreOK(h[i])
        /\ PreExecute(before, ts, tx)
        /\ Effects(before, ts, tx) = {h[i]} /\ KeepsTo(scope, before, h[i])
    BY <1>1 DEF Trace
  <1>3. Agree(scope, before, r)
    BY ReadsTheSame DEF Agree
  <1> HIDE DEF before
  <1>4. CanDeduct(scope, before, tx.actor) /\ PreExecute(r, ts, tx)
    BY <1>1, <1>2, <1>3, CanDeductLocal DEF PreExecute
  <1>5. Effects(r, ts, tx) = {Merge(scope, h[i], r)}
    <2> HIDE DEF tx
    <2>1. PICK e : Leads(before, ts, tx, e) /\ Leads(r, ts, tx, Merge(scope, e, r))
      BY <1>1, <1>2, <1>3, <1>4, EffectsLocal
    <2>2. e = h[i]
      BY <1>2, <2>1 DEF Leads
    <2> QED
      BY <2>1, <2>2 DEF Leads
  <1> DEFINE s == Merge(scope, h[i], r)
  <1>6. StoreOK(s)
    BY <1>2, MergeOK
  <1>7. \A k \in Key : s[k] = IF CanRead(scope, k) THEN h[i][k] ELSE r[k]
    BY DEF Merge
  <1> HIDE DEF s
  <1>8. Follows(q, h, p \ {i}, s)
    <2> SUFFICES ASSUME NEW k \in Key PROVE FollowsAt(q, h, p \ {i}, s, k)
      BY DEF Follows
    <2>1. CASE Writes(q, i, k)
      <3>1. CanRead(scope, k)
        BY <1>1, <2>1, StateKeysCoherent DEF Writes, CanWrite, CanRead, Coherent
      <3>2. s[k] = h[i][k]
        BY <1>7, <3>1
      <3>3. \A m \in 1 .. Len(q) : Writes(q, m, k) => (m \notin p <=> m <= i - 1)
        BY <3>1, WritersSplit
      <3>4. \A m \in 1 .. Len(q) : Writes(q, m, k) => (m \notin p \ {i} <=> m <= i)
        BY <1>1, <3>3
      <3> QED
        BY <1>1, <3>2, <3>4 DEF FollowsAt
    <2>2. CASE ~Writes(q, i, k)
      <3>1. s[k] = r[k]
        BY <1>2, <1>3, <1>7, <2>2 DEF Writes, KeepsTo, Agree
      <3>2. PICK n \in 0 .. Len(q) :
               /\ r[k] = h[n][k]
               /\ \A m \in 1 .. Len(q) : Writes(q, m, k) => (m \notin p <=> m <= n)
        BY DEF Follows, FollowsAt
      <3>3. \A m \in 1 .. Len(q) : Writes(q, m, k) => (m \notin p \ {i} <=> m <= n)
        BY <2>2, <3>2
      <3> QED
        BY <3>1, <3>2, <3>3 DEF FollowsAt
    <2> QED
      BY <2>1, <2>2
  <1>9. Settled(q, p \ {i})
    <2> SUFFICES ASSUME NEW j \in DOMAIN q, NEW x \in 1 .. (j - 1),
                        j \notin p \ {i}, Conflict(q, x, j)
                 PROVE  x \notin p \ {i}
      BY DEF Settled
    <2>1. CASE j = i
      BY <2>1, EarlierEnded
    <2>2. CASE j # i
      BY <2>2 DEF Settled
    <2> QED
      BY <2>1, <2>2
  <1> QED
    BY <1>2, <1>4, <1>5, <1>6, <1>8, <1>9 DEF s

(* A verifier that has run everything is where the builder is.             *)
LEMMA AllRun ==
    ASSUME NEW q \in Seq(Transaction), NEW ts, NEW h, Trace(q, ts, h),
           NEW r, StoreOK(r), Follows(q, h, {}, r)
    PROVE  r = h[Len(q)]
  <1>1. Len(q) \in Nat /\ Len(q) \in 0 .. Len(q) /\ StoreOK(h[Len(q)])
    BY DEF Trace
  <1>2. ASSUME NEW k \in Key PROVE r[k] = h[Len(q)][k]
    <2>1. PICK n \in 0 .. Len(q) :
             /\ r[k] = h[n][k]
             /\ \A m \in 1 .. Len(q) : Writes(q, m, k) => m <= n
      BY DEF Follows, FollowsAt
    <2>2. \A m \in 1 .. Len(q) : Writes(q, m, k) => (m <= n <=> m <= Len(q))
      BY <1>1, <2>1
    <2> QED
      BY <1>1, <2>1, <2>2, Level
  <1>3. r = [k \in Key |-> r[k]] /\ h[Len(q)] = [k \in Key |-> h[Len(q)][k]]
    BY <1>1 DEF StoreOK
  <1> QED
    BY <1>2, <1>3

(* A transaction that commits extends the builder's history.               *)
LEMMA TraceGrows ==
    ASSUME NEW q \in Seq(Transaction), NEW ts, NEW h, Trace(q, ts, h),
           NEW tx \in Transaction, ~StateKeysErr(tx),
           PreExecute(h[Len(q)], ts, tx),
           NEW s \in Effects(h[Len(q)], ts, tx)
    PROVE  StoreOK(s) /\ \E g : /\ Trace(Append(q, tx), ts, g) /\ g[0] = h[0]
                               /\ g[Len(Append(q, tx))] = s
  <1> DEFINE L == Len(q)
             g == [n \in 0 .. (L + 1) |-> IF n <= L THEN h[n] ELSE s]
             q1 == Append(q, tx)
  <1>1. /\ L \in Nat /\ Len(q1) = L + 1 /\ q1[L + 1] = tx
        /\ \A n \in 1 .. L : q1[n] = q[n]
    OBVIOUS
  <1>2. /\ \A n \in 0 .. L : g[n] = h[n]
        /\ g[L + 1] = s /\ g[0] = h[0]
    BY <1>1
  <1>3. StoreOK(h[L])
    BY <1>1 DEF Trace
  <1>4. PICK e : /\ Leads(h[L], ts, tx, e) /\ StoreOK(e)
                 /\ KeepsTo(StateKeys(tx), h[L], e)
    <2>1. Agree(StateKeys(tx), h[L], h[L])
      BY DEF Agree
    <2> QED
      BY <1>3, <2>1, EffectsLocal DEF PreExecute
  <1>5. e = s /\ Effects(h[L], ts, tx) = {s}
    BY <1>4 DEF Leads
  <1> HIDE DEF g, q1
  <1>6. \A n \in 0 .. (L + 1) : StoreOK(g[n])
    <2>1. \A n \in 0 .. L : StoreOK(g[n])
      BY <1>2 DEF Trace
    <2> QED
      BY <1>1, <1>2, <1>4, <1>5, <2>1
  <1>7. ASSUME NEW n \in 1 .. (L + 1)
        PROVE  /\ ~StateKeysErr(q1[n])
               /\ PreExecute(g[n - 1], ts, q1[n])
               /\ Effects(g[n - 1], ts, q1[n]) = {g[n]}
               /\ KeepsTo(StateKeys(q1[n]), g[n - 1], g[n])
    <2>1. CASE n = L + 1
      <3>1. n - 1 = L /\ g[n - 1] = h[L] /\ g[n] = s /\ q1[n] = tx
        BY <1>1, <1>2, <2>1
      <3> QED
        BY <1>4, <1>5, <3>1
    <2>2. CASE n # L + 1
      <3>1. n \in 1 .. L /\ n - 1 \in 0 .. L /\ n \in 0 .. L
        BY <1>1, <2>2
      <3>2. g[n - 1] = h[n - 1] /\ g[n] = h[n] /\ q1[n] = q[n]
        BY <1>1, <1>2, <3>1
      <3> QED
        BY <3>1, <3>2 DEF Trace
    <2> QED
      BY <2>1, <2>2
  <1>8. Trace(q1, ts, g)
    BY <1>1, <1>6, <1>7 DEF Trace
  <1> QED
    BY <1>1, <1>2, <1>4, <1>5, <1>8 DEF q1

-----------------------------------------------------------------------------
(* The actions.                                                            *)

(* A history of the block so far is one of an empty block, at any time.    *)
LEMMA EmptyTrace == ASSUME NEW ts, NEW st, StoreOK(st) PROVE Trace(<<>>, ts, [n \in {0} |-> st])
  BY DEF Trace

(* Steps that leave both states and the block alone.                       *)
LEMMA QueueStepKeeps ==
    ASSUME IInv, phase = "building",
           UNCHANGED <<phase, now, block, built, pending, replica>>,
           batch' \in Seq(Transaction), left' \subseteq {i \in DOMAIN batch' : Queued(batch', i)}
    PROVE  IInv'
  <1>1. Typed'
    BY DEF IInv, Typed
  <1>2. PICK h : History(h)
    BY DEF IInv
  <1>3. History(h)'
    BY <1>2 DEF History, Building, Verifying
  <1> QED
    BY <1>1, <1>3 DEF IInv

(* Stream queues the transactions with well-formed keys.                   *)
LEMMA StreamKeeps == ASSUME IInv, Stream PROVE IInv'
  <1>1. batch' \in Seq(Transaction) /\ left' \subseteq {i \in DOMAIN batch' : Queued(batch', i)}
    BY BatchesAssumption DEF Stream
  <1> QED
    BY <1>1, QueueStepKeeps DEF Stream, verifierVars

(* Nothing is left to build once a block is verified.                      *)
LEMMA LeftBuilding == ASSUME IInv, NEW i \in left PROVE phase = "building"
  BY DEF IInv, Typed, History, Verifying

(* Omit forgets a task.                                                    *)
LEMMA OmitKeeps == ASSUME IInv, NEW i \in left, Omit(i) PROVE IInv'
  <1>1. batch' \in Seq(Transaction) /\ left' \subseteq {j \in DOMAIN batch' : Queued(batch', j)}
    BY DEF Omit, IInv, Typed
  <1> QED
    BY <1>1, LeftBuilding, QueueStepKeeps DEF Omit, verifierVars

(* Include extends the builder's history by one state.                     *)
LEMMA IncludeKeeps == ASSUME IInv, NEW i \in left, Include(i) PROVE IInv'
  <1> DEFINE tx == batch[i]
  <1>1. /\ phase = "building" /\ Typed /\ block \in Seq(Transaction)
        /\ tx \in Transaction /\ ~StateKeysErr(tx)
    BY LeftBuilding DEF IInv, Typed, Queued
  <1>2. /\ PreExecute(built, now, tx) /\ built' \in Effects(built, now, tx)
        /\ block' = Append(block, tx) /\ left' = left \ {i}
        /\ UNCHANGED <<phase, now, batch, pending, replica>>
    BY DEF Include, verifierVars
  <1>3. PICK h : History(h)
    BY DEF IInv
  <1>4. Trace(block, now, h) /\ h[Len(block)] = built /\ replica = h[0]
    BY <1>1, <1>3 DEF History, Building
  <1>5. PICK g : /\ Trace(Append(block, tx), now, g) /\ g[0] = h[0]
                 /\ g[Len(Append(block, tx))] = built' /\ StoreOK(built')
    <2> HIDE DEF tx
    <2> QED
      BY <1>1, <1>2, <1>4, TraceGrows
  <1>6. Typed'
    <2>1. block' \in Seq(Transaction) /\ DOMAIN block \subseteq DOMAIN block'
      BY <1>1, <1>2
    <2> QED
      BY <1>1, <1>2, <1>5, <2>1 DEF Typed
  <1>7. History(g)'
    <2>1. Trace(block', now', g) /\ g[Len(block')] = built' /\ replica' = g[0]
      BY <1>2, <1>4, <1>5
    <2>2. phase' = "building"
      BY <1>1, <1>2
    <2> QED
      BY <2>1, <2>2 DEF History, Building, Verifying
  <1> QED
    BY <1>6, <1>7 DEF IInv

(* Issue: the verifier starts from the state that the builder started      *)
(* from, with nothing run.                                                 *)
LEMMA IssueKeeps == ASSUME IInv, Issue PROVE IInv'
  <1>1. /\ phase = "building" /\ left = {} /\ phase' = "verifying"
        /\ pending' = DOMAIN block /\ batch' = <<>>
        /\ UNCHANGED <<now, left, block, built, replica>>
    BY DEF Issue
  <1>2. Typed'
    BY <1>1 DEF IInv, Typed
  <1>3. PICK h : History(h)
    BY DEF IInv
  <1>4. Trace(block, now, h) /\ h[Len(block)] = built /\ replica = h[0]
    BY <1>1, <1>3 DEF History, Building
  <1>5. DOMAIN block = 1 .. Len(block) /\ Len(block) \in Nat
    BY DEF IInv, Typed
  <1>6. Settled(block, DOMAIN block)
    BY DEF Settled
  <1>7. Follows(block, h, DOMAIN block, replica)
    <2> SUFFICES ASSUME NEW k \in Key PROVE FollowsAt(block, h, DOMAIN block, replica, k)
      BY DEF Follows
    <2>1. \A m \in 1 .. Len(block) : Writes(block, m, k) => (m \notin DOMAIN block <=> m <= 0)
      BY <1>5
    <2>2. 0 \in 0 .. Len(block) /\ replica[k] = h[0][k]
      BY <1>4, <1>5
    <2> QED
      BY <2>1, <2>2 DEF FollowsAt
  <1>8. History(h)'
    BY <1>1, <1>4, <1>6, <1>7 DEF History, Building, Verifying
  <1> QED
    BY <1>2, <1>8 DEF IInv

(* ExecuteTx goes through, and stays on the builder's track.               *)
LEMMA ExecuteTxKeeps == ASSUME IInv, NEW i \in pending, ExecuteTx(i) PROVE IInv'
  <1> DEFINE tx == block[i]
  <1>1. /\ phase = "verifying" /\ i \in DOMAIN block /\ Dependencies(block, i) \cap pending = {}
        /\ block \in Seq(Transaction) /\ StoreOK(replica)
        /\ UNCHANGED <<now, batch, left, block, built>>
    BY DEF IInv, Typed, ExecuteTx, Runnable, builderVars
  <1>2. PICK h : History(h)
    BY DEF IInv
  <1>3. /\ Trace(block, now, h) /\ h[Len(block)] = built /\ left = {}
        /\ Settled(block, pending) /\ Follows(block, h, pending, replica)
    BY <1>1, <1>2 DEF History, Verifying
  <1>4. /\ ~StateKeysErr(tx) /\ PreExecute(replica, now, tx)
        /\ \A s \in Effects(replica, now, tx) :
              /\ StoreOK(s) /\ Follows(block, h, pending \ {i}, s)
              /\ Settled(block, pending \ {i})
    BY <1>1, <1>3, TxFollows
  <1>5. replica' \in Effects(replica, now, tx) /\ pending' = pending \ {i} /\ phase' = phase
    BY <1>4 DEF ExecuteTx
  <1>6. Typed'
    BY <1>1, <1>4, <1>5 DEF IInv, Typed
  <1>7. Follows(block, h, pending', replica') /\ Settled(block, pending')
    BY <1>4, <1>5
  <1>8. History(h)'
    BY <1>1, <1>3, <1>5, <1>7 DEF History, Building, Verifying
  <1> QED
    BY <1>6, <1>8 DEF IInv

(* A verifier at the end of a block has the builder's state.               *)
LEMMA Agreement == IInv => ReplicasAgree
  <1> SUFFICES ASSUME IInv, phase = "verifying", pending = {} PROVE replica = built
    BY DEF ReplicasAgree
  <1>1. PICK h : History(h)
    BY DEF IInv
  <1>2. Trace(block, now, h) /\ h[Len(block)] = built /\ Follows(block, h, {}, replica)
    BY <1>1 DEF History, Verifying
  <1> QED
    BY <1>2, AllRun DEF IInv, Typed

(* Accept: the next block starts from a state that both have.              *)
LEMMA AcceptKeeps == ASSUME IInv, Accept PROVE IInv'
  <1>1. /\ phase = "verifying" /\ pending = {} /\ phase' = "building" /\ block' = <<>>
        /\ UNCHANGED <<batch, left, built, pending, replica>>
    BY DEF Accept, verifierVars
  <1>2. replica = built /\ StoreOK(built)
    BY <1>1, Agreement DEF IInv, Typed, ReplicasAgree
  <1>3. Typed'
    BY <1>1 DEF IInv, Typed
  <1>4. PICK h : Trace(<<>>, now', h) /\ h[0] = built
    <2> DEFINE g == [n \in {0} |-> built]
    <2>1. Trace(<<>>, now', g) /\ g[0] = built
      BY <1>2, EmptyTrace
    <2> HIDE DEF g
    <2> QED
      BY <2>1
  <1>5. History(h)'
    <2>1. Trace(block', now', h) /\ h[Len(block')] = built' /\ replica' = h[0]
      <3>1. Len(<<>>) = 0
        OBVIOUS
      <3> QED
        BY <1>1, <1>2, <1>4, <3>1
    <2> QED
      BY <1>1, <2>1 DEF History, Building, Verifying
  <1> QED
    BY <1>3, <1>5 DEF IInv

(* A chain that has just started.                                          *)
LEMMA InitIInv == Init => IInv
  <1> SUFFICES ASSUME Init PROVE IInv
    OBVIOUS
  <1>1. StoreOK(built) /\ replica = built
    BY StartOK DEF Init
  <1>2. Typed
    BY <1>1 DEF Init, Typed
  <1> DEFINE h == [n \in {0} |-> built]
  <1>3. Trace(<<>>, now, h) /\ h[0] = built /\ Len(<<>>) = 0
    BY <1>1, EmptyTrace
  <1> HIDE DEF h
  <1>4. History(h)
    BY <1>1, <1>3 DEF Init, History, Building, Verifying
  <1> QED
    BY <1>2, <1>4 DEF IInv

(* Every step keeps the invariant.                                         *)
LEMMA NextIInv == IInv /\ [Next]_vars => IInv'
  <1> SUFFICES ASSUME IInv, [Next]_vars PROVE IInv'
    OBVIOUS
  <1>1. CASE Stream \/ Issue \/ Accept
    BY <1>1, StreamKeeps, IssueKeeps, AcceptKeeps
  <1>2. ASSUME NEW i \in left, Include(i) \/ Omit(i) PROVE IInv'
    BY <1>2, IncludeKeeps, OmitKeeps
  <1>3. ASSUME NEW i \in pending, ExecuteTx(i) PROVE IInv'
    BY <1>3, ExecuteTxKeeps
  <1>4. CASE UNCHANGED vars
    <2>1. PICK h : History(h)
      BY DEF IInv
    <2>2. Typed' /\ History(h)'
      BY <1>4, <2>1 DEF vars, IInv, Typed, History, Building, Verifying
    <2> QED
      BY <2>2 DEF IInv
  <1> QED
    BY <1>1, <1>2, <1>3, <1>4 DEF Next

(* The invariant of every behaviour.                                       *)
THEOREM Invariance == Spec => []IInv
  BY InitIInv, NextIInv, PTL DEF Spec

(* A validator that has executed a block (executeTxs of chain/processor.go)*)
(* is in the state of its builder (BuildBlock of chain/builder.go).        *)
THEOREM ReplicasSafe == Spec => []ReplicasAgree
  BY Agreement, Invariance, PTL

(* executeTxs never fails a block that BuildBlock has built.               *)
THEOREM BlocksSafe == Spec => []BuiltBlocksVerify
  <1>1. IInv => BuiltBlocksVerify
    BY DEF IInv, Typed, BuiltBlocksVerify
  <1> QED
    BY <1>1, Invariance, PTL
=============================================================================
