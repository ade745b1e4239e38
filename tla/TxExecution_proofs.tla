------------------------- MODULE TxExecution_proofs -------------------------
(***************************************************************************)
(* Proofs about TxExecution, for all batches of transactions, accounts,    *)
(* markets, fees and word sizes: the executor isolates what it runs        *)
(* concurrently, balances are accounted for, and every behaviour is one of *)
(* SerialLedger.                                                           *)
(***************************************************************************)
EXTENDS TxExecution, Ledger_proofs

(* A view: pending changes over a state.                                   *)
Over(st, p) == [k \in Key |-> IF p[k] = Kept THEN st[k] ELSE p[k]]

(* The pending changes, p so far, that turn a view of st into w.           *)
Diff(st, p, w) == [k \in Key |-> IF w[k] = Over(st, p)[k] THEN p[k] ELSE w[k]]

Changes == [Key -> U64 \cup Market \cup {NotFound, Kept}]

Task ==
    [pc : {"queued", "charge", "act", "committed", "dropped", "skipped"},
     pend : Changes, charged : Changes, done : Nat, ok : BOOLEAN, cost : Nat]

(* What holds of a task whose fee is charged: its view is the one that the *)
(* transaction's actions would have led to if it had run alone from the    *)
(* state as it is now, and it has only touched what it declared.           *)
ActingInv(tx, t, st, ts) ==
    /\ t.done <= Len(tx.actions)
    /\ \A k \in Key : t.pend[k] # Kept => CanWrite(StateKeys(tx), k)
    /\ \A k \in Key : k # BalanceKey(tx.actor) => t.charged[k] = Kept
    /\ Over(st, t.charged) = Paid(st, tx)
    /\ \E run \in Runs(st, ts, tx)[t.done] :
          /\ Runs(st, ts, tx)[t.done] = {run}
          /\ run.ok <=> t.ok
          /\ t.ok => run.view = Over(st, t.pend)
    /\ ~t.ok => t.pend = t.charged /\ t.cost = 0
    /\ OthersKept(tx.actor, st, Over(st, t.pend))
    /\ st[BalanceKey(tx.actor)] = Over(st, t.pend)[BalanceKey(tx.actor)] + Fee + t.cost
    /\ Over(st, t.pend)[BalanceKey(tx.actor)] \in U64

TaskInv(tx, t, st, ts) ==
    /\ StoreOK(Over(st, t.pend))
    /\ t.done <= Len(tx.actions)
    /\ t.pc # "dropped" => ~StateKeysErr(tx)
    /\ t.pc # "act" => t.pend = NoChanges
    /\ t.pc = "charge" => t.done = 0 /\ t.ok /\ t.cost = 0
    /\ t.pc = "queued" => t.done = 0 /\ t.ok /\ t.cost = 0
    /\ t.pc \in {"charge", "act"} => CanDeduct(StateKeys(tx), st, tx.actor)
    /\ t.pc = "act" => ActingInv(tx, t, st, ts)

Typed ==
    /\ StoreOK(store)
    /\ now \in Time
    /\ batch \in Seq(Transaction)
    /\ batch = <<>> \/ batch \in Batches
    /\ task \in [DOMAIN batch -> Task]
    /\ full \in BOOLEAN
    /\ billed \in [Addr -> Nat]

(* What a task waits for has ended before it starts: all of the earlier    *)
(* transactions that conflict with it.                                     *)
Ordered ==
    \A j \in DOMAIN batch : \A i \in 1 .. (j - 1) :
        task[j].pc # "queued" /\ Conflict(batch, i, j) => Finished(i)

TasksInv == \A i \in DOMAIN batch : TaskInv(batch[i], task[i], store, now)

IInv == Typed /\ Ordered /\ TasksInv /\ ServedExactly /\ BalancesAccounted

-----------------------------------------------------------------------------
(* Views.                                                                  *)

(* What a well-formed state holds is never taken for an untouched key.     *)
LEMMA StoredValues ==
    ASSUME NEW st, StoreOK(st), NEW k \in Key
    PROVE  st[k] \in U64 \cup Market \cup {NotFound} /\ st[k] # Kept
  <1>1. st[k] \in U64 \cup Market \cup {NotFound}
    <2>1. CASE \E a \in Addr : k = BalanceKey(a) \/ k = StateKeysBalance(a)
      BY <2>1 DEF StoreOK
    <2>2. CASE \E m \in MarketID : k = MarketKey(m)
      BY <2>2 DEF StoreOK
    <2>3. CASE \E m \in MarketID, a \in Addr, t \in ShareType : k = ShareBalanceKey(m, a, t)
      BY <2>3 DEF StoreOK
    <2> QED
      BY <2>1, <2>2, <2>3 DEF Key
  <1>2. U64 \subseteq Nat
    BY WordAssumption DEF U64
  <1> QED
    BY <1>1, <1>2, KeptAssumption

(* An untouched view is the state.                                         *)
LEMMA OverNone == ASSUME NEW st, StoreOK(st) PROVE Over(st, NoChanges) = st
  BY DEF Over, NoChanges, StoreOK

(* A view has the state's record or the pending one.                       *)
LEMMA OverAt ==
    ASSUME NEW st, NEW p, NEW k \in Key
    PROVE  /\ p[k] = Kept => Over(st, p)[k] = st[k]
           /\ p[k] # Kept => Over(st, p)[k] = p[k]
  BY DEF Over

(* Pending changes lead to the view they were computed for.                *)
LEMMA OverDiff ==
    ASSUME NEW st, StoreOK(st), NEW p \in Changes, NEW w, StoreOK(w)
    PROVE  /\ Over(st, Diff(st, p, w)) = w
           /\ Diff(st, p, w) \in Changes
           /\ \A k \in Key : Diff(st, p, w)[k] # Kept =>
                 p[k] # Kept \/ w[k] # Over(st, p)[k]
  <1> DEFINE d == Diff(st, p, w)
  <1>1. \A k \in Key : d[k] = IF w[k] = Over(st, p)[k] THEN p[k] ELSE w[k]
    BY DEF Diff
  <1>2. \A k \in Key : w[k] # Kept /\ w[k] \in U64 \cup Market \cup {NotFound}
    BY StoredValues
  <1>3. \A k \in Key : Over(st, d)[k] = w[k]
    <2> SUFFICES ASSUME NEW k \in Key PROVE Over(st, d)[k] = w[k]
      OBVIOUS
    <2> HIDE DEF d
    <2> QED
      BY <1>1, <1>2, OverAt
  <1>4. Over(st, d) = [k \in Key |-> Over(st, d)[k]] /\ w = [k \in Key |-> w[k]]
    BY DEF Over, StoreOK
  <1>5. Over(st, d) = w
    BY <1>3, <1>4
  <1>6. d \in Changes
    <2>1. \A k \in Key : d[k] \in U64 \cup Market \cup {NotFound, Kept}
      BY <1>1, <1>2 DEF Changes
    <2>2. d = [k \in Key |-> d[k]]
      BY DEF Diff
    <2> HIDE DEF d
    <2> QED
      BY <2>1, <2>2 DEF Changes
  <1> QED
    BY <1>1, <1>5, <1>6

(* When a state changes under a view, the view stays well formed.          *)
LEMMA OverOK ==
    ASSUME NEW st, NEW p, StoreOK(Over(st, p)), NEW s, StoreOK(s)
    PROVE  StoreOK(Over(s, p))
  <1>1. \A k \in Key : Over(s, p)[k] \in {Over(st, p)[k], s[k]}
    BY DEF Over
  <1>2. Over(s, p) = [k \in Key |-> Over(s, p)[k]]
    BY DEF Over
  <1> HIDE DEF Over
  <1> QED
    BY <1>1, <1>2, KeysInKey DEF StoreOK

-----------------------------------------------------------------------------
(* The steps of one task.                                                  *)

(* The fields of a task.                                                   *)
LEMMA TaskFields ==
    ASSUME NEW t \in Task
    PROVE  /\ t.pc \in {"queued", "charge", "act", "committed", "dropped", "skipped"}
           /\ t.pend \in Changes /\ t.charged \in Changes
           /\ t.done \in Nat /\ t.ok \in BOOLEAN /\ t.cost \in Nat
  BY DEF Task

(* The head of Transaction.Execute: the fee, and nothing else, is pending. *)
LEMMA ChargeKeeps ==
    ASSUME NEW tx \in Transaction, NEW st, StoreOK(st), NEW ts,
           NEW t \in Task, TaskInv(tx, t, st, ts), t.pc = "charge",
           NEW u \in Task, u.pc = "act",
           u.pend = Diff(st, t.pend, Paid(Over(st, t.pend), tx)), u.charged = u.pend,
           u.done = t.done, u.ok <=> t.ok, u.cost = t.cost
    PROVE  TaskInv(tx, u, st, ts)
  <1> DEFINE scope == StateKeys(tx)
             bk == BalanceKey(tx.actor)
             w == Paid(st, tx)
  <1>1. /\ ~StateKeysErr(tx) /\ CanDeduct(scope, st, tx.actor)
        /\ t.pend = NoChanges /\ t.done = 0 /\ t.ok /\ t.cost = 0
    BY DEF TaskInv
  <1>2. tx.actor \in Addr /\ bk \in Key /\ Len(tx.actions) \in Nat
    BY ActionKinds, KeysInKey
  <1>3. Over(st, t.pend) = st
    BY <1>1, OverNone
  <1>4. /\ st[bk] \in U64 /\ st[bk] - Fee \in U64
        /\ Puts(st, w, bk, st[bk] - Fee) /\ StoreOK(w)
    BY <1>1, PaidFacts
  <1> HIDE DEF w
  <1>5. u.pend = Diff(st, t.pend, w)
    BY <1>3 DEF w
  <1>6. t.pend \in Changes
    BY TaskFields
  <1>7. /\ Over(st, u.pend) = w
        /\ \A k \in Key : u.pend[k] # Kept => t.pend[k] # Kept \/ w[k] # Over(st, t.pend)[k]
    BY <1>4, <1>5, <1>6, OverDiff
  <1>8. \A k \in Key : u.pend[k] # Kept => k = bk
    BY <1>1, <1>3, <1>4, <1>7 DEF Puts, NoChanges
  <1>9. CanWrite(scope, bk)
    BY <1>1, SponsorReadable DEF CanDeduct, CanWrite
  <1>10. LET run == [ok |-> TRUE, view |-> w] IN
         Runs(st, ts, tx)[u.done] = {run} /\ run.ok /\ run.view = Over(st, u.pend)
    BY <1>1, <1>2, <1>7, RunsUnfold DEF w
  <1>11. \E run \in Runs(st, ts, tx)[u.done] :
           /\ Runs(st, ts, tx)[u.done] = {run}
           /\ run.ok <=> u.ok
           /\ u.ok => run.view = Over(st, u.pend)
    BY <1>1, <1>10
  <1>12. OthersKept(tx.actor, st, w)
    BY <1>4, KeysInKey, KeysInjective DEF OthersKept, Puts
  <1>13. st[bk] = w[bk] + Fee + u.cost /\ w[bk] \in U64
    BY <1>1, <1>4, FeeAssumption, WordAssumption DEF Puts, U64
  <1>14. ActingInv(tx, u, st, ts)
    BY <1>1, <1>2, <1>7, <1>8, <1>9, <1>11, <1>12, <1>13 DEF ActingInv, w
  <1> QED
    BY <1>1, <1>2, <1>4, <1>7, <1>14 DEF TaskInv

(* One action: the pending changes follow the run that the transaction     *)
(* would have alone; when it fails they are those of the fee again.        *)
LEMMA ExecuteKeeps ==
    ASSUME NEW tx \in Transaction, NEW st, StoreOK(st), NEW ts,
           NEW t \in Task, TaskInv(tx, t, st, ts), t.pc = "act", t.ok,
           t.done < Len(tx.actions),
           NEW run, run = Attempt(StateKeys(tx), Over(st, t.pend), ts, tx.actor,
                                  tx.actions[t.done + 1]),
           NEW u \in Task, u.pc = "act", u.charged = t.charged, u.done = t.done + 1,
           u.ok <=> run.ok,
           run.ok => /\ u.pend = Diff(st, t.pend, run.view)
                     /\ u.cost = t.cost + Cost(tx.actions[t.done + 1].order),
           ~run.ok => u.pend = t.charged /\ u.cost = 0
    PROVE  TaskInv(tx, u, st, ts)
  <1> DEFINE scope == StateKeys(tx)
             a == tx.actor
             bk == BalanceKey(a)
             v == Over(st, t.pend)
             n == t.done + 1
             action == tx.actions[n]
  <1>1. /\ ~StateKeysErr(tx) /\ CanDeduct(scope, st, a) /\ StoreOK(v)
        /\ ActingInv(tx, t, st, ts)
    BY DEF TaskInv
  <1>2. a \in Addr /\ bk \in Key /\ Len(tx.actions) \in Nat
          /\ t.done \in Nat /\ t.pend \in Changes /\ t.cost \in Nat
    BY ActionKinds, KeysInKey, TaskFields
  <1>3. n \in 1 .. Len(tx.actions) /\ n - 1 = t.done /\ n - 1 \in 0 .. Len(tx.actions)
    BY <1>2
  <1>4. action \in Buy /\ action.type # "CreateMarket" /\ Cost(action.order) \in U64
    BY <1>1, <1>3, BuyOutcomes, BuyFields
  <1> HIDE DEF action, v
  <1>5. run = Attempt(scope, v, ts, a, action)
    BY DEF action, v
  <1>6. /\ run.ok \in BOOLEAN /\ StoreOK(run.view)
        /\ KeepsTo(scope, v, run.view) /\ OthersKept(a, v, run.view)
        /\ run.ok => /\ v[bk] \in U64 /\ run.view[bk] \in U64
                     /\ run.view[bk] = v[bk] - Cost(action.order)
    BY <1>1, <1>2, <1>4, <1>5, AttemptEffect
  <1>7. Runs(st, ts, tx)[n] = {run}
    <2>1. PICK r \in Runs(st, ts, tx)[t.done] :
             Runs(st, ts, tx)[t.done] = {r} /\ r.ok /\ r.view = v
      BY <1>1 DEF ActingInv, v
    <2>2. Runs(st, ts, tx)[n] = Continued(ts, tx, Runs(st, ts, tx)[n - 1], n)
      BY <1>2, <1>3, RunsUnfold
    <2>3. Runs(st, ts, tx)[n] = Outcomes(scope, v, ts, a, action)
      BY <1>3, <2>1, <2>2 DEF Continued, action
    <2>4. Outcomes(scope, v, ts, a, action) = {run}
      BY <1>4, <1>5 DEF Outcomes
    <2> QED
      BY <2>3, <2>4
  <1>8. /\ st[bk] = v[bk] + Fee + t.cost /\ v[bk] \in U64 /\ OthersKept(a, st, v)
        /\ \A k \in Key : t.pend[k] # Kept => CanWrite(scope, k)
        /\ \A k \in Key : k # bk => t.charged[k] = Kept
        /\ Over(st, t.charged) = Paid(st, tx)
    BY <1>1 DEF ActingInv, v
  <1>9. CanWrite(scope, bk)
    BY <1>1, SponsorReadable DEF CanDeduct, CanWrite
  <1>10. /\ \A k \in Key : u.pend[k] # Kept => CanWrite(scope, k)
         /\ StoreOK(Over(st, u.pend))
         /\ run.ok => run.view = Over(st, u.pend)
         /\ ~run.ok => u.pend = u.charged /\ u.cost = 0
         /\ OthersKept(a, st, Over(st, u.pend))
         /\ st[bk] = Over(st, u.pend)[bk] + Fee + u.cost
         /\ Over(st, u.pend)[bk] \in U64
    <2>1. CASE run.ok
      <3>1. /\ Over(st, u.pend) = run.view
            /\ \A k \in Key : u.pend[k] # Kept => t.pend[k] # Kept \/ run.view[k] # v[k]
        BY <1>2, <1>6, <2>1, OverDiff DEF v
      <3>2. \A k \in Key : u.pend[k] # Kept => CanWrite(scope, k)
        BY <1>6, <1>8, <3>1 DEF KeepsTo
      <3>3. OthersKept(a, st, run.view)
        BY <1>6, <1>8 DEF OthersKept
      <3>4. u.cost = t.cost + Cost(action.order)
        BY <2>1 DEF action
      <3>5. st[bk] = run.view[bk] + Fee + u.cost
        BY <1>2, <1>4, <1>6, <1>8, <2>1, <3>4, FeeAssumption, WordAssumption DEF U64
      <3> QED
        BY <1>6, <2>1, <3>1, <3>2, <3>3, <3>5
    <2>2. CASE ~run.ok
      <3>1. u.pend = t.charged /\ u.cost = 0 /\ Over(st, u.pend) = Paid(st, tx)
        BY <1>8, <2>2
      <3>2. /\ st[bk] \in U64 /\ st[bk] - Fee \in U64
            /\ Puts(st, Paid(st, tx), bk, st[bk] - Fee) /\ StoreOK(Paid(st, tx))
        BY <1>1, PaidFacts
      <3>3. OthersKept(a, st, Paid(st, tx))
        BY <3>2, KeysInKey, KeysInjective DEF OthersKept, Puts
      <3>4. st[bk] = Paid(st, tx)[bk] + Fee + 0 /\ Paid(st, tx)[bk] \in U64
        BY <3>2, FeeAssumption, WordAssumption DEF Puts, U64
      <3>5. \A k \in Key : u.pend[k] # Kept => CanWrite(scope, k)
        BY <1>8, <1>9, <3>1
      <3> QED
        BY <2>2, <3>1, <3>2, <3>3, <3>4, <3>5
    <2> QED
      BY <1>6, <2>1, <2>2
  <1>11. u.done <= Len(tx.actions) /\ u.done = n
    BY <1>2
  <1>12. \E r \in Runs(st, ts, tx)[u.done] :
           /\ Runs(st, ts, tx)[u.done] = {r}
           /\ r.ok <=> u.ok
           /\ u.ok => r.view = Over(st, u.pend)
    BY <1>7, <1>10, <1>11
  <1>13. ActingInv(tx, u, st, ts)
    BY <1>8, <1>10, <1>11, <1>12 DEF ActingInv
  <1> QED
    BY <1>1, <1>10, <1>11, <1>13 DEF TaskInv

(* A commit that leaves a task's readable records alone leaves the task    *)
(* as it would be had it run from the new state: the view reads through,   *)
(* but never through a key it has not declared.                            *)
LEMMA TaskMoves ==
    ASSUME NEW tx \in Transaction, NEW st, StoreOK(st), NEW s, StoreOK(s), NEW ts,
           NEW t \in Task, TaskInv(tx, t, st, ts),
           t.pc \in {"charge", "act"} =>
              \A k \in Key : CanRead(StateKeys(tx), k) => s[k] = st[k]
    PROVE  TaskInv(tx, t, s, ts)
  <1> DEFINE scope == StateKeys(tx)
             a == tx.actor
             bk == BalanceKey(a)
  <1>1. StoreOK(Over(s, t.pend))
    BY OverOK DEF TaskInv
  <1>2. a \in Addr /\ bk \in Key /\ t.done \in Nat /\ Len(tx.actions) \in Nat
    BY ActionKinds, KeysInKey, TaskFields
  <1>3. t.pc \in {"charge", "act"} => CanDeduct(scope, s, a)
    BY <1>2, CanDeductLocal DEF TaskInv, Agree
  <1>4. t.pc = "act" => ActingInv(tx, t, s, ts)
    <2> SUFFICES ASSUME t.pc = "act" PROVE ActingInv(tx, t, s, ts)
      OBVIOUS
    <2>1. /\ ~StateKeysErr(tx) /\ CanDeduct(scope, st, a) /\ CanDeduct(scope, s, a)
          /\ ActingInv(tx, t, st, ts) /\ t.done \in 0 .. Len(tx.actions)
      BY <1>2, <1>3 DEF TaskInv
    <2>2. \A k \in Key : CanRead(scope, k) => s[k] = st[k]
      OBVIOUS
    <2>3. \A k \in Key : t.pend[k] # Kept => CanRead(scope, k)
      BY <2>1, StateKeysCoherent DEF ActingInv, Coherent, CanWrite, CanRead
    <2> DEFINE v == Over(st, t.pend)
               w == Over(s, t.pend)
    <2>4. \A k \in Key : w[k] = IF CanRead(scope, k) THEN v[k] ELSE s[k]
      BY <2>2, <2>3 DEF Over
    <2>5. w = Merge(scope, v, s)
      <3>1. w = [k \in Key |-> w[k]]
        BY DEF Over
      <3> HIDE DEF v, w, scope
      <3>2. w = [k \in Key |-> IF CanRead(scope, k) THEN v[k] ELSE s[k]]
        BY <2>4, <3>1
      <3> QED
        BY <3>2 DEF Merge
    <2>6. Over(s, t.charged) = Paid(s, tx)
      <3>1. /\ st[bk] \in U64 /\ Puts(st, Paid(st, tx), bk, st[bk] - Fee)
            /\ Puts(s, Paid(s, tx), bk, s[bk] - Fee)
        BY <2>1, PaidFacts
      <3>2. s[bk] = st[bk]
        BY <1>2, <2>1 DEF CanDeduct
      <3>3. /\ Over(st, t.charged) = Paid(st, tx)
            /\ \A k \in Key : k # bk => t.charged[k] = Kept
        BY <2>1 DEF ActingInv
      <3>4. st[bk] - Fee # st[bk]
        BY <3>1, FeeAssumption, WordAssumption DEF U64
      <3>5. t.charged[bk] # Kept /\ t.charged[bk] = st[bk] - Fee
        BY <1>2, <3>1, <3>3, <3>4, OverAt DEF Puts
      <3>6. \A k \in Key : Over(s, t.charged)[k] = Paid(s, tx)[k]
        BY <1>2, <3>1, <3>2, <3>3, <3>5, OverAt DEF Puts
      <3>7. /\ Over(s, t.charged) = [k \in Key |-> Over(s, t.charged)[k]]
            /\ Paid(s, tx) = [k \in Key |-> Paid(s, tx)[k]]
        BY <3>1 DEF Over, Puts
      <3> QED
        BY <3>6, <3>7
    <2>7. \E r \in Runs(s, ts, tx)[t.done] :
            /\ Runs(s, ts, tx)[t.done] = {r}
            /\ r.ok <=> t.ok
            /\ t.ok => r.view = w
      <3>1. PICK run \in Runs(st, ts, tx)[t.done] :
               /\ Runs(st, ts, tx)[t.done] = {run}
               /\ run.ok <=> t.ok
               /\ t.ok => run.view = v
        BY <2>1 DEF ActingInv
      <3> DEFINE r == [ok |-> run.ok, view |-> Merge(scope, run.view, s)]
      <3>2. Runs(s, ts, tx)[t.done] = {r}
        BY <2>1, <2>2, <3>1, RunsLocal
      <3>3. r.ok = run.ok /\ r.view = Merge(scope, run.view, s)
        OBVIOUS
      <3> HIDE DEF r
      <3> QED
        BY <2>5, <3>1, <3>2, <3>3
    <2>8. OthersKept(a, st, v) /\ v[bk] \in U64 /\ st[bk] = v[bk] + Fee + t.cost
      BY <2>1 DEF ActingInv
    <2>9. w[bk] = v[bk] /\ s[bk] = st[bk]
      <3>1. CanRead(scope, bk)
        BY <2>1 DEF CanDeduct
      <3> HIDE DEF v, w, scope, bk
      <3> QED
        BY <1>2, <2>2, <2>4, <3>1
    <2>10. OthersKept(a, s, w)
      <3> SUFFICES ASSUME NEW c \in Addr \ {a} PROVE w[BalanceKey(c)] = s[BalanceKey(c)]
        BY DEF OthersKept
      <3>1. v[BalanceKey(c)] = st[BalanceKey(c)] /\ BalanceKey(c) \in Key
        BY <2>8, KeysInKey DEF OthersKept
      <3> HIDE DEF v, w, scope
      <3> QED
        BY <2>2, <2>4, <3>1
    <2> HIDE DEF v, w
    <2> QED
      BY <2>1, <2>6, <2>7, <2>8, <2>9, <2>10 DEF ActingInv, v, w
  <1> QED
    BY <1>1, <1>3, <1>4 DEF TaskInv

-----------------------------------------------------------------------------
(* The actions, one task at a time.                                        *)

(* Only task i moves.                                                      *)
Moves(i) ==
    /\ task' \in [DOMAIN batch -> Task]
    /\ \A j \in DOMAIN batch : j # i => task'[j] = task[j]
    /\ UNCHANGED <<now, batch>>

(* Start and Abandon move the task's program counter and nothing else.     *)
LEMMA StartStep ==
    ASSUME Typed, NEW i \in DOMAIN batch, Start(i) \/ Abandon(i)
    PROVE  /\ Moves(i) /\ Executable(i) /\ UNCHANGED <<store, full, billed>>
           /\ task'[i].pend = task[i].pend /\ task'[i].charged = task[i].charged
           /\ task'[i].done = task[i].done /\ task'[i].ok = task[i].ok
           /\ task'[i].cost = task[i].cost
           /\ task'[i].pc \in {"charge", "dropped", "skipped"}
           /\ task'[i].pc = "charge" => PreExecute(View(i), now, batch[i])
           /\ task'[i].pc = "dropped" => ~PreExecute(View(i), now, batch[i])
  <1>1. PICK pc \in {"charge", "dropped", "skipped"} :
           /\ task' = [task EXCEPT ![i].pc = pc]
           /\ pc = "charge" => PreExecute(View(i), now, batch[i])
           /\ pc = "dropped" => ~PreExecute(View(i), now, batch[i])
    BY DEF Start, Abandon
  <1>2. Executable(i) /\ UNCHANGED <<store, now, batch, full, billed>>
    BY DEF Start, Abandon
  <1>3. task \in [DOMAIN batch -> Task]
    BY DEF Typed
  <1>4. task'[i].pc = pc /\ \A j \in DOMAIN batch : j # i => task'[j] = task[j]
    BY <1>1, <1>3 DEF Task
  <1>5. /\ task'[i].pend = task[i].pend /\ task'[i].charged = task[i].charged
        /\ task'[i].done = task[i].done /\ task'[i].ok = task[i].ok
        /\ task'[i].cost = task[i].cost
    BY <1>1, <1>3 DEF Task
  <1>6. task' \in [DOMAIN batch -> Task]
    BY <1>1, <1>3 DEF Task
  <1> QED
    BY <1>1, <1>2, <1>4, <1>5, <1>6 DEF Moves

(* ChargeFee makes the fee pending and remembers the rollback point.       *)
LEMMA ChargeStep ==
    ASSUME IInv, NEW i \in DOMAIN batch, ChargeFee(i)
    PROVE  /\ Moves(i) /\ task[i].pc = "charge" /\ UNCHANGED <<store, full, billed>>
           /\ task'[i].pc = "act"
           /\ task'[i].pend = Diff(store, task[i].pend, Paid(Over(store, task[i].pend), batch[i]))
           /\ task'[i].charged = task'[i].pend
           /\ task'[i].done = task[i].done /\ task'[i].ok = task[i].ok
           /\ task'[i].cost = task[i].cost
  <1> DEFINE p == Diff(store, task[i].pend, Paid(Over(store, task[i].pend), batch[i]))
  <1>1. /\ task' = [task EXCEPT ![i].pc = "act", ![i].pend = p, ![i].charged = p]
        /\ task[i].pc = "charge" /\ UNCHANGED <<store, now, batch, full, billed>>
    BY DEF ChargeFee, Pending, View, Diff, Over, Paid
  <1>2. /\ task \in [DOMAIN batch -> Task] /\ task[i] \in Task /\ StoreOK(store)
        /\ batch[i] \in Transaction /\ TaskInv(batch[i], task[i], store, now)
    BY DEF IInv, Typed, TasksInv
  <1>3. p \in Changes
    <2>1. CanDeduct(StateKeys(batch[i]), store, batch[i].actor) /\ task[i].pend = NoChanges
      BY <1>1, <1>2 DEF TaskInv
    <2>2. Over(store, task[i].pend) = store
      BY <1>2, <2>1, OverNone
    <2>3. StoreOK(Paid(Over(store, task[i].pend), batch[i]))
      BY <1>2, <2>1, <2>2, PaidFacts
    <2> QED
      BY <1>2, <2>3, OverDiff, TaskFields
  <1> HIDE DEF p
  <1>4. \A j \in DOMAIN batch : j # i => task'[j] = task[j]
    BY <1>1, <1>2
  <1>5. task'[i] = [pc |-> "act", pend |-> p, charged |-> p, done |-> task[i].done,
                    ok |-> task[i].ok, cost |-> task[i].cost]
    BY <1>1, <1>2 DEF Task
  <1>6. task'[i] \in Task
    BY <1>2, <1>3, <1>5, TaskFields DEF Task
  <1>7. task' \in [DOMAIN batch -> Task]
    <2>1. task' = [j \in DOMAIN batch |-> task'[j]]
      BY <1>1, <1>2
    <2>2. \A j \in DOMAIN batch : task'[j] \in Task
      BY <1>2, <1>4, <1>6
    <2> QED
      BY <2>1, <2>2
  <1> QED
    BY <1>1, <1>4, <1>5, <1>7 DEF Moves, p

(* Execute runs the next purchase against the view.                        *)
LEMMA ExecuteStep ==
    ASSUME IInv, NEW i \in DOMAIN batch, Execute(i)
    PROVE  /\ Moves(i) /\ task[i].pc = "act" /\ task[i].ok
           /\ task[i].done < Len(batch[i].actions) /\ UNCHANGED <<store, full, billed>>
           /\ task'[i].pc = "act" /\ task'[i].charged = task[i].charged
           /\ task'[i].done = task[i].done + 1
           /\ \E run :
                 /\ run = Attempt(StateKeys(batch[i]), Over(store, task[i].pend), now,
                                  batch[i].actor, batch[i].actions[task[i].done + 1])
                 /\ task'[i].ok <=> run.ok
                 /\ run.ok =>
                       /\ task'[i].pend = Diff(store, task[i].pend, run.view)
                       /\ task'[i].cost =
                             task[i].cost + Cost(batch[i].actions[task[i].done + 1].order)
                 /\ ~run.ok => task'[i].pend = task[i].charged /\ task'[i].cost = 0
  <1> DEFINE tx == batch[i]
             v == Over(store, task[i].pend)
             action == tx.actions[task[i].done + 1]
             run == Attempt(StateKeys(tx), v, now, tx.actor, action)
             p == IF run.ok THEN Diff(store, task[i].pend, run.view) ELSE task[i].charged
             c == IF run.ok THEN task[i].cost + Cost(action.order) ELSE 0
  <1>1. /\ task \in [DOMAIN batch -> Task] /\ task[i] \in Task /\ StoreOK(store)
        /\ tx \in Transaction /\ TaskInv(tx, task[i], store, now)
    BY DEF IInv, Typed, TasksInv
  <1>2. /\ task[i].pc = "act" /\ task[i].ok /\ task[i].done < Len(tx.actions)
        /\ UNCHANGED <<store, now, batch, full, billed>>
    BY DEF Execute
  <1>3. task[i].done \in Nat /\ Len(tx.actions) \in Nat /\ ~StateKeysErr(tx) /\ StoreOK(v)
          /\ tx.actor \in Addr
    BY <1>1, <1>2, ActionKinds, TaskFields DEF TaskInv
  <1>4. task[i].done + 1 \in 1 .. Len(tx.actions)
    BY <1>2, <1>3
  <1>5. /\ action \in Buy /\ action.type # "CreateMarket" /\ Cost(action.order) \in U64
        /\ ActionKeys(tx.actor, action) \subseteq StateKeys(tx)
    BY <1>1, <1>3, <1>4, BuyOutcomes, BuyFields
  <1>6. Outcomes(StateKeys(tx), v, now, tx.actor, action) = {run}
    BY <1>5 DEF Outcomes
  <1>7. task' = [task EXCEPT ![i].done = @ + 1, ![i].ok = run.ok, ![i].cost = c, ![i].pend = p]
    <2>1. View(i) = v /\ \A w : Pending(i, w) = Diff(store, task[i].pend, w)
      BY DEF View, Over, Pending, Diff
    <2>2. Spent(action) = Cost(action.order)
      BY <1>5 DEF Spent
    <2>3. PICK r \in Outcomes(StateKeys(tx), View(i), now, tx.actor, action) :
             task' = [task EXCEPT ![i].done = @ + 1, ![i].ok = r.ok,
                ![i].cost = IF r.ok THEN @ + Spent(action) ELSE 0,
                ![i].pend = IF r.ok THEN Pending(i, r.view)
                                    ELSE Rollback(i, Pending(i, r.view))]
      BY DEF Execute
    <2> HIDE DEF run, v, action
    <2>4. r = run /\ Pending(i, r.view) = Diff(store, task[i].pend, r.view)
      BY <1>6, <2>1, <2>3
    <2> QED
      BY <2>2, <2>3, <2>4 DEF Rollback
  <1>8. run.ok \in BOOLEAN /\ StoreOK(run.view)
    BY <1>1, <1>3, <1>5, AttemptEffect
  <1>9. p \in Changes /\ c \in Nat
    <2> HIDE DEF run, action
    <2>1. Diff(store, task[i].pend, run.view) \in Changes
      BY <1>1, <1>8, OverDiff, TaskFields
    <2>2. task[i].cost + Cost(action.order) \in Nat
      BY <1>1, <1>5, TaskFields, WordAssumption DEF U64
    <2> QED
      BY <1>1, <2>1, <2>2, TaskFields
  <1>10. \A j \in DOMAIN batch : j # i => task'[j] = task[j]
    BY <1>1, <1>7
  <1> HIDE DEF p, c, run
  <1>11. task'[i] = [pc |-> task[i].pc, pend |-> p, charged |-> task[i].charged,
                     done |-> task[i].done + 1, ok |-> run.ok, cost |-> c]
    BY <1>1, <1>7 DEF Task
  <1>12. task'[i] \in Task
    BY <1>1, <1>3, <1>8, <1>9, <1>11, TaskFields DEF Task
  <1>13. task' \in [DOMAIN batch -> Task]
    <2>1. task' = [j \in DOMAIN batch |-> task'[j]]
      BY <1>1, <1>7
    <2>2. \A j \in DOMAIN batch : task'[j] \in Task
      BY <1>1, <1>10, <1>12
    <2> QED
      BY <2>1, <2>2
  <1>14. /\ task'[i].ok <=> run.ok
         /\ run.ok => /\ task'[i].pend = Diff(store, task[i].pend, run.view)
                      /\ task'[i].cost = task[i].cost + Cost(action.order)
         /\ ~run.ok => task'[i].pend = task[i].charged /\ task'[i].cost = 0
    BY <1>11 DEF p, c
  <1>15. task'[i].pc = "act" /\ task'[i].charged = task[i].charged
           /\ task'[i].done = task[i].done + 1
    BY <1>2, <1>11
  <1>16. \E r : /\ r = run
                /\ task'[i].ok <=> r.ok
                /\ r.ok => /\ task'[i].pend = Diff(store, task[i].pend, r.view)
                           /\ task'[i].cost = task[i].cost + Cost(action.order)
                /\ ~r.ok => task'[i].pend = task[i].charged /\ task'[i].cost = 0
    BY <1>14
  <1> QED
    BY <1>2, <1>10, <1>13, <1>15, <1>16 DEF Moves, run

(* Commit and Skip end a task and drop its pending changes.                *)
LEMMA EndStep ==
    ASSUME Typed, NEW i \in DOMAIN batch, Commit(i) \/ Skip(i)
    PROVE  /\ Moves(i) /\ Executed(i)
           /\ task'[i].pc \in {"committed", "skipped"}
           /\ task'[i].pend = NoChanges
           /\ task'[i].done = task[i].done
           /\ Commit(i) => /\ task'[i].pc = "committed"
                           /\ store' = Over(store, task[i].pend) /\ full' = full
                           /\ billed' = [billed EXCEPT ![batch[i].actor] =
                                            @ + Fee + task[i].cost]
           /\ Skip(i) => /\ task'[i].pc = "skipped" /\ full' \in {full, TRUE}
                         /\ UNCHANGED <<store, billed>>
  <1>1. PICK pc \in {"committed", "skipped"} :
           /\ task' = [task EXCEPT ![i].pc = pc, ![i].pend = NoChanges,
                                   ![i].charged = NoChanges]
           /\ Commit(i) => pc = "committed"
           /\ Skip(i) => pc = "skipped"
    <2>1. CASE Commit(i)
      <3>1. CASE Skip(i)
        <4>1. task \in [DOMAIN batch -> Task]
          BY DEF Typed
        <4>2. task'[i].pc = "committed"
          BY <2>1, <4>1 DEF Commit, Task
        <4>3. task'[i].pc = "skipped"
          BY <3>1, <4>1 DEF Skip, Task
        <4> QED
          BY <4>2, <4>3
      <3>2. CASE ~Skip(i)
        BY <2>1, <3>2 DEF Commit
      <3> QED
        BY <3>1, <3>2
    <2>2. CASE ~Commit(i)
      BY <2>2 DEF Skip
    <2> QED
      BY <2>1, <2>2
  <1>2. /\ Executed(i) /\ UNCHANGED <<now, batch>>
        /\ Commit(i) => /\ store' = Over(store, task[i].pend) /\ full' = full
                        /\ billed' = [billed EXCEPT ![batch[i].actor] = @ + Fee + task[i].cost]
        /\ Skip(i) => full' \in {full, TRUE} /\ UNCHANGED <<store, billed>>
    BY DEF Commit, Skip, View, Over
  <1>3. task \in [DOMAIN batch -> Task] /\ task[i] \in Task
    BY DEF Typed
  <1>4. \A j \in DOMAIN batch : j # i => task'[j] = task[j]
    BY <1>1, <1>3
  <1>5. task'[i] = [pc |-> pc, pend |-> NoChanges, charged |-> NoChanges,
                    done |-> task[i].done, ok |-> task[i].ok, cost |-> task[i].cost]
    BY <1>1, <1>3 DEF Task
  <1>6. NoChanges \in Changes
    BY DEF NoChanges, Changes
  <1>7. task'[i] \in Task
    BY <1>3, <1>5, <1>6, TaskFields DEF Task
  <1>8. task' \in [DOMAIN batch -> Task]
    <2>1. task' = [j \in DOMAIN batch |-> task'[j]]
      BY <1>1, <1>3
    <2>2. \A j \in DOMAIN batch : task'[j] \in Task
      BY <1>3, <1>4, <1>7
    <2> QED
      BY <2>1, <2>2
  <1>9. task'[i].pc = pc /\ task'[i].pend = NoChanges /\ task'[i].done = task[i].done
    BY <1>5
  <1>10. Moves(i)
    BY <1>2, <1>4, <1>8 DEF Moves
  <1>11. (Commit(i) => pc = "committed") /\ (Skip(i) => pc = "skipped")
    BY <1>1
  <1> QED
    BY <1>2, <1>9, <1>10, <1>11

-----------------------------------------------------------------------------
(* What each action preserves.                                             *)

(* The order holds while the only task that moves has already started, or  *)
(* starts with everything before it that conflicts with it at its end.     *)
LEMMA OrderKept ==
    ASSUME Typed, Ordered, NEW i \in DOMAIN batch, Moves(i), ~Finished(i),
           task[i].pc = "queued" => \A j \in Dependencies(batch, i) : Finished(j)
    PROVE  Ordered'
  <1>1. batch' = batch /\ \A j \in DOMAIN batch : j # i => task'[j] = task[j]
    BY DEF Moves
  <1>2. DOMAIN batch \subseteq Nat
    BY DEF Typed
  <1>3. ASSUME NEW n \in 1 .. (i - 1), Conflict(batch, n, i), task[i].pc = "queued"
        PROVE  Finished(n)
    <2> DEFINE ended == {j \in Nat : j \in DOMAIN batch /\ Finished(j)}
    <2>1. Dependencies(batch, i) \subseteq ended
      <3>1. Dependencies(batch, i) \subseteq 1 .. (i - 1)
        BY DEF Dependencies
      <3>2. 1 .. (i - 1) \subseteq DOMAIN batch
        BY DEF Typed
      <3> QED
        BY <1>2, <1>3, <3>1, <3>2
    <2>2. \A m \in 1 .. (i - 1) : m \in ended =>
             \A h \in 1 .. (m - 1) : Conflict(batch, h, m) => h \in ended
      <3> SUFFICES ASSUME NEW m \in 1 .. (i - 1), m \in ended,
                          NEW h \in 1 .. (m - 1), Conflict(batch, h, m)
                   PROVE  h \in ended
        OBVIOUS
      <3>1. Finished(h)
        BY DEF Ordered, Finished
      <3>2. h \in DOMAIN batch
        BY DEF Typed
      <3> QED
        BY <1>2, <3>1, <3>2
    <2> HIDE DEF ended
    <2>3. n \in ended
      BY <1>2, <1>3, <2>1, <2>2, DependenciesSettle
    <2> QED
      BY <2>3 DEF ended
  <1>4. ASSUME NEW j \in DOMAIN batch, NEW n \in 1 .. (j - 1),
               task'[j].pc # "queued", Conflict(batch, n, j)
        PROVE  Finished(n)'
    <2>1. n \in DOMAIN batch
      BY DEF Typed
    <2>2. Finished(n)
      <3>1. CASE j = i /\ task[i].pc = "queued"
        BY <1>3, <1>4, <3>1
      <3>2. CASE j # i \/ task[i].pc # "queued"
        BY <1>1, <1>4, <3>2 DEF Ordered
      <3> QED
        BY <3>1, <3>2
    <2>3. n # i
      BY <2>2
    <2> QED
      BY <1>1, <2>1, <2>2, <2>3 DEF Finished
  <1> QED
    BY <1>1, <1>4 DEF Ordered

(* ServedExactly, of one transaction.                                      *)
Served(tx, pc, ts, st) ==
    /\ pc = "dropped" => Barred(ts, tx) \/ DeductBalanceErr(st, tx.actor, Fee)
    /\ pc \in {"charge", "act", "committed"} => ~Barred(ts, tx)
    /\ pc \in {"charge", "act"} => ~DeductBalanceErr(st, tx.actor, Fee)

(* CanDeduct: the balance may be read, and the sponsor can pay.            *)
LEMMA CanDeductExactly ==
    ASSUME NEW tx \in Transaction, NEW scope, NEW st, StoreOK(st)
    PROVE  CanDeduct(scope, st, tx.actor) <=>
              /\ CanRead(scope, BalanceKey(tx.actor))
              /\ ~DeductBalanceErr(st, tx.actor, Fee)
  <1>1. tx.actor \in Addr /\ BalanceKey(tx.actor) \in Key
    BY ActionKinds, KeysInKey
  <1>2. st[BalanceKey(tx.actor)] \in U64 \cup {NotFound}
    BY <1>1 DEF StoreOK
  <1>3. GetBalance(st, tx.actor) \in Nat /\ Fee \in Nat
    BY <1>2, FeeAssumption, WordAssumption DEF GetBalance, ZeroIfNotFound, U64
  <1> QED
    BY <1>3 DEF CanDeduct, DeductBalanceErr

(* What PreExecute accepts of the queued transactions: what nothing bars   *)
(* and the sponsor can pay.                                                *)
LEMMA PreExecuteExactly ==
    ASSUME NEW tx \in Transaction, ~StateKeysErr(tx), NEW st, StoreOK(st), NEW ts
    PROVE  PreExecute(st, ts, tx) <=>
              ~Barred(ts, tx) /\ ~DeductBalanceErr(st, tx.actor, Fee)
  <1>1. ~Creates(tx)
    BY MalformedExactly DEF Creates
  <1>2. CanDeduct(StateKeys(tx), st, tx.actor) <=>
           tx.actions # <<>> /\ ~DeductBalanceErr(st, tx.actor, Fee)
    BY SponsorReadable, CanDeductExactly
  <1>3. Len(tx.actions) <= MaxActionsPerTx <=> ~(Len(tx.actions) > MaxActionsPerTx)
    BY ActionKinds, RulesAssumption
  <1> QED
    BY <1>1, <1>2, <1>3 DEF PreExecute, Barred

(* A step of one task that commits nothing.                                *)
LEMMA PrivateStep ==
    ASSUME IInv, NEW i \in DOMAIN batch, Moves(i), ~Finished(i),
           task[i].pc = "queued" => \A j \in Dependencies(batch, i) : Finished(j),
           UNCHANGED <<store, billed>>, full' \in BOOLEAN,
           TaskInv(batch[i], task'[i], store, now),
           Served(batch[i], task'[i].pc, now, store)
    PROVE  IInv'
  <1>1. /\ task' \in [DOMAIN batch -> Task] /\ now' = now /\ batch' = batch
        /\ \A j \in DOMAIN batch : j # i => task'[j] = task[j]
    BY DEF Moves
  <1>2. Typed'
    BY <1>1 DEF IInv, Typed
  <1>3. Ordered'
    BY OrderKept DEF IInv
  <1>4. TasksInv'
    <2> SUFFICES ASSUME NEW j \in DOMAIN batch PROVE TaskInv(batch[j], task'[j], store, now)
      BY <1>1 DEF TasksInv
    <2> QED
      BY <1>1 DEF IInv, TasksInv
  <1>5. ServedExactly'
    <2> SUFFICES ASSUME NEW j \in DOMAIN batch PROVE Served(batch[j], task'[j].pc, now, store)
      BY <1>1 DEF ServedExactly, Served, Running
    <2>1. Served(batch[j], task[j].pc, now, store)
      BY DEF IInv, ServedExactly, Served, Running
    <2> QED
      BY <1>1, <2>1
  <1>6. BalancesAccounted'
    BY DEF IInv, BalancesAccounted
  <1> QED
    BY <1>2, <1>3, <1>4, <1>5, <1>6 DEF IInv

(* A task's start: the view of one that is queued is the state itself.     *)
LEMMA StartKeeps ==
    ASSUME IInv, NEW i \in DOMAIN batch, Start(i) \/ Abandon(i) PROVE IInv'
  <1> DEFINE tx == batch[i]
             u == task'[i]
  <1>1. /\ Typed /\ StoreOK(store) /\ task[i] \in Task /\ tx \in Transaction
        /\ full \in BOOLEAN /\ TaskInv(tx, task[i], store, now)
    BY DEF IInv, Typed, TasksInv
  <1>2. /\ Moves(i) /\ Executable(i) /\ UNCHANGED <<store, full, billed>>
        /\ u.pend = task[i].pend /\ u.done = task[i].done /\ u.ok = task[i].ok
        /\ u.cost = task[i].cost /\ u.pc \in {"charge", "dropped", "skipped"}
        /\ u.pc = "charge" => PreExecute(View(i), now, tx)
        /\ u.pc = "dropped" => ~PreExecute(View(i), now, tx)
    BY <1>1, StartStep
  <1>3. task[i].pc = "queued" /\ \A j \in Dependencies(batch, i) : Finished(j)
    BY <1>2 DEF Executable
  <1>4. /\ ~StateKeysErr(tx) /\ task[i].pend = NoChanges /\ task[i].done = 0
        /\ task[i].ok /\ task[i].cost = 0 /\ StoreOK(Over(store, task[i].pend))
        /\ task[i].done <= Len(tx.actions)
    BY <1>1, <1>3 DEF TaskInv
  <1>5. View(i) = store
    BY <1>1, <1>4, OverNone DEF View, Over
  <1>6. TaskInv(tx, u, store, now)
    BY <1>2, <1>4, <1>5 DEF TaskInv, PreExecute
  <1>7. Served(tx, u.pc, now, store)
    BY <1>1, <1>2, <1>4, <1>5, PreExecuteExactly DEF Served
  <1> QED
    BY <1>1, <1>2, <1>3, <1>6, <1>7, PrivateStep DEF Finished

(* The fee.                                                                *)
LEMMA ChargeFeeKeeps ==
    ASSUME IInv, NEW i \in DOMAIN batch, ChargeFee(i) PROVE IInv'
  <1> DEFINE tx == batch[i]
             t == task[i]
             u == task'[i]
  <1>1. /\ StoreOK(store) /\ t \in Task /\ tx \in Transaction /\ full \in BOOLEAN
        /\ TaskInv(tx, t, store, now) /\ Served(tx, t.pc, now, store)
    BY DEF IInv, Typed, TasksInv, ServedExactly, Served, Running
  <1>2. /\ Moves(i) /\ t.pc = "charge" /\ UNCHANGED <<store, full, billed>>
        /\ u.pc = "act" /\ u.pend = Diff(store, t.pend, Paid(Over(store, t.pend), tx))
        /\ u.charged = u.pend /\ u.done = t.done /\ u.ok = t.ok /\ u.cost = t.cost
    BY ChargeStep
  <1>3. u \in Task
    BY <1>2 DEF Moves
  <1> HIDE DEF t, u
  <1>4. TaskInv(tx, u, store, now)
    BY <1>1, <1>2, <1>3, ChargeKeeps
  <1>5. Served(tx, u.pc, now, store)
    BY <1>1, <1>2 DEF Served
  <1> QED
    BY <1>1, <1>2, <1>4, <1>5, PrivateStep DEF t, u, Finished

(* One action.                                                             *)
LEMMA ActionKeeps ==
    ASSUME IInv, NEW i \in DOMAIN batch, Execute(i) PROVE IInv'
  <1> DEFINE tx == batch[i]
             t == task[i]
             u == task'[i]
             action == tx.actions[t.done + 1]
             run == Attempt(StateKeys(tx), Over(store, t.pend), now, tx.actor, action)
  <1>1. /\ StoreOK(store) /\ t \in Task /\ tx \in Transaction /\ full \in BOOLEAN
        /\ TaskInv(tx, t, store, now) /\ Served(tx, t.pc, now, store)
    BY DEF IInv, Typed, TasksInv, ServedExactly, Served, Running
  <1>2. /\ Moves(i) /\ t.pc = "act" /\ t.ok /\ t.done < Len(tx.actions)
        /\ UNCHANGED <<store, full, billed>>
        /\ u.pc = "act" /\ u.charged = t.charged /\ u.done = t.done + 1
    BY ExecuteStep
  <1>3. /\ u.ok <=> run.ok
        /\ run.ok => /\ u.pend = Diff(store, t.pend, run.view)
                     /\ u.cost = t.cost + Cost(action.order)
        /\ ~run.ok => u.pend = t.charged /\ u.cost = 0
    BY ExecuteStep
  <1>4. u \in Task
    BY <1>2 DEF Moves
  <1> HIDE DEF t, u, run
  <1>5. TaskInv(tx, u, store, now)
    BY <1>1, <1>2, <1>3, <1>4, ExecuteKeeps DEF run
  <1>6. Served(tx, u.pc, now, store)
    BY <1>1, <1>2 DEF Served
  <1> QED
    BY <1>1, <1>2, <1>5, <1>6, PrivateStep DEF t, u, Finished

(* A transaction that the block has no room for.                           *)
LEMMA SkipKeeps ==
    ASSUME IInv, NEW i \in DOMAIN batch, Skip(i) PROVE IInv'
  <1> DEFINE tx == batch[i]
             u == task'[i]
  <1>1. /\ Typed /\ StoreOK(store) /\ task[i] \in Task /\ tx \in Transaction
        /\ full \in BOOLEAN /\ TaskInv(tx, task[i], store, now)
    BY DEF IInv, Typed, TasksInv
  <1>2. /\ Moves(i) /\ Executed(i) /\ u.pc = "skipped" /\ u.pend = NoChanges
        /\ u.done = task[i].done /\ full' \in {full, TRUE} /\ UNCHANGED <<store, billed>>
    BY <1>1, EndStep
  <1>3. task[i].pc = "act" /\ full' \in BOOLEAN
    BY <1>1, <1>2 DEF Executed
  <1>4. TaskInv(tx, u, store, now)
    BY <1>1, <1>2, <1>3, OverNone DEF TaskInv
  <1>5. Served(tx, u.pc, now, store)
    BY <1>2 DEF Served
  <1> QED
    BY <1>2, <1>3, <1>4, <1>5, PrivateStep DEF Finished

(* Two tasks that run at the same time do not conflict, so that what one   *)
(* of them is about to commit is nothing the other one can read.           *)
LEMMA RunApart ==
    ASSUME IInv, NEW i \in DOMAIN batch, Running(i),
           NEW j \in DOMAIN batch, j # i, task[j].pc = "act",
           NEW k \in Key, CanRead(StateKeys(batch[i]), k)
    PROVE  Over(store, task[j].pend)[k] = store[k]
  <1>1. /\ batch[i] \in Transaction /\ batch[j] \in Transaction
        /\ i \in Nat /\ j \in Nat /\ i >= 1 /\ j >= 1
        /\ TaskInv(batch[i], task[i], store, now) /\ TaskInv(batch[j], task[j], store, now)
    BY DEF IInv, Typed, TasksInv
  <1>2. Queued(batch, i) /\ Queued(batch, j)
    BY <1>1 DEF TaskInv, Running, Queued
  <1>3. ~Finished(i) /\ ~Finished(j) /\ task[i].pc # "queued" /\ task[j].pc # "queued"
    BY DEF Running, Finished
  <1>4. ~Conflict(batch, i, j) /\ ~Conflict(batch, j, i)
    <2>1. Conflict(batch, i, j) <=> Conflict(batch, j, i)
      BY DEF Conflict
    <2>2. CASE i < j
      BY <1>1, <1>3, <2>1, <2>2 DEF IInv, Ordered
    <2>3. CASE j < i
      BY <1>1, <1>3, <2>1, <2>3 DEF IInv, Ordered
    <2> QED
      BY <1>1, <2>2, <2>3
  <1>5. SUFFICES ASSUME task[j].pend[k] # Kept PROVE FALSE
    BY OverAt
  <1>6. <<k, "write">> \in StateKeys(batch[j])
    BY <1>1, <1>5 DEF TaskInv, ActingInv, CanWrite
  <1>7. <<k, "read">> \in StateKeys(batch[i])
    BY DEF CanRead
  <1>8. k \in KeysOf(batch, i) /\ k \in KeysOf(batch, j)
    <2>1. <<k, "read">>[1] = k /\ <<k, "write">>[1] = k
      OBVIOUS
    <2> QED
      BY <1>6, <1>7, <2>1 DEF KeysOf
  <1>9. Exclusive(batch, j, k)
    BY <1>2, <1>6 DEF Exclusive
  <1> QED
    BY <1>2, <1>4, <1>8, <1>9 DEF Conflict

(* A commit: what the other tasks have done stays what they would have     *)
(* done from the new state, and the sponsor has paid what is billed.       *)
LEMMA CommitKeeps ==
    ASSUME IInv, NEW j \in DOMAIN batch, Commit(j) PROVE IInv'
  <1> DEFINE tx == batch[j]
             t == task[j]
             u == task'[j]
             a == tx.actor
             bk == BalanceKey(a)
  <1>1. /\ Typed /\ StoreOK(store) /\ t \in Task /\ tx \in Transaction
        /\ task \in [DOMAIN batch -> Task] /\ batch \in Seq(Transaction)
        /\ full \in BOOLEAN /\ billed \in [Addr -> Nat]
        /\ TaskInv(tx, t, store, now) /\ Served(tx, t.pc, now, store)
    BY DEF IInv, Typed, TasksInv, ServedExactly, Served, Running
  <1>2. /\ Moves(j) /\ Executed(j) /\ u.pc = "committed" /\ u.pend = NoChanges
        /\ u.done = t.done /\ store' = Over(store, t.pend) /\ full' = full
        /\ billed' = [billed EXCEPT ![a] = @ + Fee + t.cost]
    BY <1>1, EndStep
  <1>3. /\ task' \in [DOMAIN batch -> Task] /\ now' = now /\ batch' = batch
        /\ \A i \in DOMAIN batch : i # j => task'[i] = task[i]
    BY <1>2 DEF Moves
  <1>4. t.pc = "act"
    BY <1>2 DEF Executed
  <1>5. /\ StoreOK(store') /\ CanDeduct(StateKeys(tx), store, a) /\ ~StateKeysErr(tx)
        /\ ActingInv(tx, t, store, now)
    BY <1>1, <1>2, <1>4 DEF TaskInv
  <1>6. /\ OthersKept(a, store, store') /\ store'[bk] \in U64
        /\ store[bk] = store'[bk] + Fee + t.cost
    BY <1>2, <1>5 DEF ActingInv
  <1>7. a \in Addr /\ bk \in Key /\ t.cost \in Nat /\ t.done \in Nat /\ Len(tx.actions) \in Nat
    BY <1>1, ActionKinds, KeysInKey, TaskFields
  <1>8. Fee \in Nat /\ U64 \subseteq Nat
    BY FeeAssumption, WordAssumption DEF U64
  <1>9. store[bk] \in Nat /\ store'[bk] \in Nat /\ store[bk] # NotFound
    <2>1. store'[bk] \in Nat
      BY <1>6, <1>8
    <2> HIDE DEF bk, t
    <2>2. store[bk] \in Nat
      BY <1>6, <1>7, <1>8, <2>1
    <2> QED
      BY <2>1, <2>2, NotFoundAssumption
  <1>10. Typed'
    <2>1. billed' \in [Addr -> Nat]
      BY <1>1, <1>2, <1>7, <1>8
    <2> QED
      BY <1>1, <1>2, <1>3, <1>5, <2>1 DEF Typed
  <1>11. Ordered'
    BY <1>1, <1>2, <1>4, OrderKept DEF IInv, Finished
  <1>12. TasksInv'
    <2> SUFFICES ASSUME NEW i \in DOMAIN batch PROVE TaskInv(batch[i], task'[i], store', now)
      BY <1>3 DEF TasksInv
    <2>1. CASE i = j
      <3>1. u.done <= Len(tx.actions) /\ Over(store', u.pend) = store'
        BY <1>1, <1>2, <1>5, OverNone DEF TaskInv
      <3> QED
        BY <1>2, <1>5, <2>1, <3>1 DEF TaskInv
    <2>2. CASE i # j
      <3>1. /\ task[i] \in Task /\ batch[i] \in Transaction /\ task'[i] = task[i]
            /\ TaskInv(batch[i], task[i], store, now)
        BY <1>1, <1>3, <2>2 DEF IInv, TasksInv
      <3>2. task[i].pc \in {"charge", "act"} =>
               \A k \in Key : CanRead(StateKeys(batch[i]), k) => store'[k] = store[k]
        BY <1>2, <1>4, <2>2, RunApart DEF Running
      <3>3. TaskInv(batch[i], task[i], store', now)
        BY <1>1, <1>5, <3>1, <3>2, TaskMoves
      <3> QED
        BY <3>1, <3>3
    <2> QED
      BY <2>1, <2>2
  <1>13. ServedExactly'
    <2> SUFFICES ASSUME NEW i \in DOMAIN batch PROVE Served(batch[i], task'[i].pc, now, store')
      BY <1>3 DEF ServedExactly, Served, Running
    <2>1. CASE i = j
      BY <1>1, <1>2, <1>4, <2>1 DEF Served
    <2>2. CASE i # j
      <3>1. Served(batch[i], task[i].pc, now, store) /\ task'[i] = task[i] /\ batch[i] \in Transaction
        BY <1>1, <1>3, <2>2 DEF IInv, ServedExactly, Served, Running
      <3> DEFINE c == batch[i].actor
      <3>2. c \in Addr
        BY <3>1, ActionKinds
      <3>3. ASSUME DeductBalanceErr(store, c, Fee) PROVE DeductBalanceErr(store', c, Fee)
        <4>1. c # a
          <5>1. GetBalance(store, a) \in Nat
            BY <1>9 DEF GetBalance, ZeroIfNotFound
          <5> QED
            BY <1>5, <1>8, <3>3, <5>1 DEF CanDeduct, DeductBalanceErr
        <4>2. store'[BalanceKey(c)] = store[BalanceKey(c)]
          BY <1>6, <3>2, <4>1 DEF OthersKept
        <4> QED
          BY <3>3, <4>2 DEF DeductBalanceErr, GetBalance, GetBalanceErr
      <3>4. ASSUME task[i].pc \in {"charge", "act"} PROVE ~DeductBalanceErr(store', c, Fee)
        <4>1. CanDeduct(StateKeys(batch[i]), store', c)
          BY <1>3, <1>12, <3>1, <3>4 DEF TasksInv, TaskInv
        <4> QED
          BY <1>5, <3>1, <4>1, CanDeductExactly
      <3> QED
        BY <3>1, <3>3, <3>4 DEF Served
    <2> QED
      BY <2>1, <2>2
  <1>14. BalancesAccounted'
    <2> SUFFICES ASSUME NEW c \in Addr
                 PROVE  IF Genesis[c] = NotFound
                        THEN store'[BalanceKey(c)] = NotFound /\ billed'[c] = 0
                        ELSE store'[BalanceKey(c)] + billed'[c] = Genesis[c]
      BY DEF BalancesAccounted
    <2>1. IF Genesis[c] = NotFound
          THEN store[BalanceKey(c)] = NotFound /\ billed[c] = 0
          ELSE store[BalanceKey(c)] + billed[c] = Genesis[c]
      BY DEF IInv, BalancesAccounted
    <2>2. CASE c = a
      <3>1. billed'[c] = billed[c] + Fee + t.cost /\ billed[c] \in Nat
        BY <1>1, <1>2, <2>2
      <3>2. store[BalanceKey(c)] \in Nat /\ store'[BalanceKey(c)] \in Nat
              /\ store[BalanceKey(c)] = store'[BalanceKey(c)] + Fee + t.cost
        BY <1>6, <1>9, <2>2
      <3>3. Genesis[c] # NotFound
        BY <2>1, <3>2, NotFoundAssumption
      <3> QED
        BY <1>7, <1>8, <2>1, <3>1, <3>2, <3>3
    <2>3. CASE c # a
      <3>1. billed'[c] = billed[c]
        BY <1>1, <1>2, <2>3
      <3>2. store'[BalanceKey(c)] = store[BalanceKey(c)]
        BY <1>6, <2>3 DEF OthersKept
      <3> QED
        BY <2>1, <3>1, <3>2
    <2> QED
      BY <2>2, <2>3
  <1> QED
    BY <1>10, <1>11, <1>12, <1>13, <1>14 DEF IInv

-----------------------------------------------------------------------------
(* Blocks.                                                                 *)

(* A fresh task: queued with an untouched view, or, when its transaction   *)
(* carries a CreateMarket, dropped.                                        *)
LEMMA FreshTask ==
    ASSUME NEW tx \in Transaction, NEW st, StoreOK(st), NEW ts
    PROVE  /\ NewTask(tx) \in Task /\ TaskInv(tx, NewTask(tx), st, ts)
           /\ Served(tx, NewTask(tx).pc, ts, st)
           /\ NewTask(tx).pc = "queued" <=> ~StateKeysErr(tx)
           /\ NewTask(tx).pc = "dropped" <=> StateKeysErr(tx)
  <1> DEFINE t == NewTask(tx)
  <1>1. /\ t.pc = IF StateKeysErr(tx) THEN "dropped" ELSE "queued"
        /\ t.pend = NoChanges /\ t.done = 0 /\ t.ok /\ t.cost = 0
    BY DEF NewTask
  <1>2. t \in Task
    BY DEF NewTask, Task, NoChanges, Changes
  <1> HIDE DEF t
  <1>3. Len(tx.actions) \in Nat
    BY ActionKinds
  <1>4. Over(st, t.pend) = st
    BY <1>1, OverNone
  <1>5. TaskInv(tx, t, st, ts)
    BY <1>1, <1>3, <1>4 DEF TaskInv
  <1>6. StateKeysErr(tx) => Creates(tx)
    BY MalformedExactly DEF Creates
  <1>7. Served(tx, t.pc, ts, st)
    BY <1>1, <1>6 DEF Served, Barred
  <1> QED
    BY <1>1, <1>2, <1>5, <1>7 DEF t

(* A new block.                                                            *)
LEMMA NextBatchKeeps == ASSUME IInv, NextBatch PROVE IInv'
  <1>1. PICK txs \in Batches : batch' = txs /\ task' = [i \in DOMAIN txs |-> NewTask(txs[i])]
    BY DEF NextBatch
  <1>2. /\ StoreOK(store) /\ billed \in [Addr -> Nat] /\ now' \in Time /\ full' \in BOOLEAN
        /\ UNCHANGED <<store, billed>>
    BY DEF IInv, Typed, NextBatch
  <1>3. txs \in Seq(Transaction) /\ \A i \in DOMAIN txs : txs[i] \in Transaction
    BY BatchesAssumption
  <1>4. \A i \in DOMAIN txs : task'[i] = NewTask(txs[i])
    BY <1>1
  <1>5. Typed'
    <2>1. task' \in [DOMAIN txs -> Task]
      BY <1>1, <1>2, <1>3, FreshTask
    <2> QED
      BY <1>1, <1>2, <1>3, <2>1 DEF Typed
  <1>6. Ordered'
    <2> SUFFICES ASSUME NEW j \in DOMAIN txs, NEW i \in 1 .. (j - 1),
                        task'[j].pc # "queued", Conflict(txs, i, j)
                 PROVE  FALSE
      BY <1>1 DEF Ordered
    <2>1. ~StateKeysErr(txs[j])
      BY DEF Conflict, Queued
    <2> QED
      BY <1>2, <1>3, <1>4, <2>1, FreshTask
  <1>7. TasksInv'
    BY <1>1, <1>2, <1>3, <1>4, FreshTask DEF TasksInv
  <1>8. ServedExactly'
    <2>1. \A i \in DOMAIN txs : Served(txs[i], task'[i].pc, now', store)
      BY <1>2, <1>3, <1>4, FreshTask
    <2> QED
      BY <1>1, <1>2, <2>1 DEF ServedExactly, Served, Running
  <1>9. BalancesAccounted'
    BY <1>2 DEF IInv, BalancesAccounted
  <1> QED
    BY <1>5, <1>6, <1>7, <1>8, <1>9 DEF IInv

(* The invariant holds of a chain that has just started.                   *)
LEMMA InitIInv == Init => IInv
  <1> SUFFICES ASSUME Init PROVE IInv
    OBVIOUS
  <1>1. StoreOK(store) /\ \A a \in Addr : store[BalanceKey(a)] = Genesis[a]
    BY StartOK DEF Init
  <1>2. DOMAIN batch = {} /\ batch \in Seq(Transaction) /\ task = <<>>
    BY DEF Init
  <1>3. task \in [DOMAIN batch -> Task]
    BY <1>2
  <1>4. Typed
    BY <1>1, <1>2, <1>3 DEF Init, Typed
  <1>5. Ordered /\ TasksInv /\ ServedExactly
    BY <1>2 DEF Ordered, TasksInv, ServedExactly
  <1>6. BalancesAccounted
    <2> SUFFICES ASSUME NEW a \in Addr
                 PROVE  IF Genesis[a] = NotFound
                        THEN store[BalanceKey(a)] = NotFound /\ billed[a] = 0
                        ELSE store[BalanceKey(a)] + billed[a] = Genesis[a]
      BY DEF BalancesAccounted
    <2>1. billed[a] = 0
      BY DEF Init
    <2>2. Genesis[a] \in U64 \cup {NotFound}
      BY GenesisAssumption
    <2>3. Genesis[a] # NotFound => Genesis[a] + 0 = Genesis[a]
      BY <2>2, WordAssumption DEF U64
    <2> QED
      BY <1>1, <2>1, <2>3
  <1> QED
    BY <1>4, <1>5, <1>6 DEF IInv

(* Every step keeps the invariant.                                         *)
LEMMA NextIInv == IInv /\ [Next]_vars => IInv'
  <1> SUFFICES ASSUME IInv, [Next]_vars PROVE IInv'
    OBVIOUS
  <1>1. CASE NextBatch
    BY <1>1, NextBatchKeeps
  <1>2. ASSUME NEW i \in DOMAIN batch, Step(i) PROVE IInv'
    BY <1>2, StartKeeps, ChargeFeeKeeps, ActionKeeps, CommitKeeps, SkipKeeps DEF Step
  <1>3. CASE UNCHANGED vars
    BY <1>3 DEF vars, IInv, Typed, Ordered, TasksInv, ServedExactly, BalancesAccounted, Finished, Running
  <1> QED
    BY <1>1, <1>2, <1>3 DEF Next

(* The invariant of every behaviour.                                       *)
THEOREM Invariance == Spec => []IInv
  BY InitIInv, NextIInv, PTL DEF Spec

-----------------------------------------------------------------------------
(* Safety.                                                                 *)

(* Every record decodes and every task is well formed (the views that      *)
(* Transaction.Execute works on included).                                 *)
THEOREM TypeSafe == Spec => []TypeOK
  <1>1. IInv => TypeOK
    <2> SUFFICES ASSUME IInv PROVE TypeOK
      OBVIOUS
    <2>1. ASSUME NEW i \in DOMAIN batch
          PROVE  /\ task[i].pc \in {"queued", "charge", "act", "committed", "dropped", "skipped"}
                 /\ StoreOK(View(i))
                 /\ task[i].done \in 0 .. Len(batch[i].actions)
      <3>1. /\ task[i] \in Task /\ batch[i] \in Transaction
            /\ TaskInv(batch[i], task[i], store, now)
        BY DEF IInv, Typed, TasksInv
      <3>2. View(i) = Over(store, task[i].pend)
        BY DEF View, Over
      <3>3. task[i].done \in Nat /\ Len(batch[i].actions) \in Nat
        BY <3>1, TaskFields, ActionKinds
      <3> QED
        BY <3>1, <3>2, <3>3, TaskFields DEF TaskInv
    <2>2. DOMAIN task = DOMAIN batch
      BY DEF IInv, Typed
    <2> QED
      BY <2>1, <2>2 DEF IInv, Typed, TypeOK
  <1> QED
    BY <1>1, Invariance, PTL

(* A transaction is dropped only when Transaction.PreExecute or Keys.Add   *)
(* has a reason that still holds: its Base, the number of its actions, the *)
(* keys they declare, or a sponsor that cannot pay.  One that is taken up  *)
(* gives no such reason, whatever other tasks commit while it runs.        *)
THEOREM ServedSafe == Spec => []ServedExactly
  <1>1. IInv => ServedExactly
    BY DEF IInv
  <1> QED
    BY <1>1, Invariance, PTL

(* No update of a balance is lost, and no debit of a rolled-back action is *)
(* committed (Controller.Deduct under the executor's concurrency).         *)
THEOREM BalancesSafe == Spec => []BalancesAccounted
  <1>1. IInv => BalancesAccounted
    BY DEF IInv
  <1> QED
    BY <1>1, Invariance, PTL

(* After a failed action the view is the one that the fee alone leads to   *)
(* (TStateView.Rollback), whatever was committed since it was charged.     *)
THEOREM FailureSafe == Spec => []FailureKeepsFeeOnly
  <1>1. IInv => FailureKeepsFeeOnly
    <2> SUFFICES ASSUME IInv, NEW i \in DOMAIN batch, task[i].pc = "act", ~task[i].ok
                 PROVE  View(i) = DeductBalance(store, batch[i].actor, Fee)
      BY DEF FailureKeepsFeeOnly
    <2>1. ActingInv(batch[i], task[i], store, now)
      BY DEF IInv, TasksInv, TaskInv
    <2>2. View(i) = Over(store, task[i].pend)
      BY DEF View, Over
    <2> QED
      BY <2>1, <2>2 DEF ActingInv, Paid
  <1> QED
    BY <1>1, Invariance, PTL

(* The sponsor can pay when the fee is taken: what CanDeduct has read in   *)
(* PreExecute is what Deduct reads in Execute, since nobody else may have  *)
(* committed to the record in between, and the declared keys let Deduct    *)
(* write it.                                                               *)
THEOREM FeesSafe == Spec => []FeesChargeable
  <1>1. IInv => FeesChargeable
    <2> SUFFICES ASSUME IInv, NEW i \in DOMAIN batch, task[i].pc = "charge"
                 PROVE  Chargeable(i)
      BY DEF FeesChargeable
    <2> DEFINE tx == batch[i]
               a == batch[i].actor
    <2>1. /\ StoreOK(store) /\ tx \in Transaction
          /\ TaskInv(tx, task[i], store, now)
      BY DEF IInv, Typed, TasksInv
    <2>2. /\ CanDeduct(StateKeys(tx), store, a) /\ ~StateKeysErr(tx)
          /\ task[i].pend = NoChanges
      BY <2>1 DEF TaskInv
    <2>3. View(i) = store
      BY <2>1, <2>2, OverNone DEF View, Over
    <2>4. store[BalanceKey(a)] \in U64
      BY <2>1, <2>2, PaidFacts
    <2>5. Fee \in Nat /\ GetBalance(store, a) \in Nat
      BY <2>4, FeeAssumption, WordAssumption, NotFoundAssumption
         DEF U64, GetBalance, ZeroIfNotFound
    <2>6. ~DeductBalanceErr(store, a, Fee)
      BY <2>2, <2>5 DEF CanDeduct, DeductBalanceErr
    <2>7. <<BalanceKey(a), "write">> \in StateKeys(tx)
      BY <2>1, <2>2, SponsorReadable DEF CanDeduct
    <2>8. NumChunks(Uint64Len) <= MaxChunks(BalanceKey(a))
      <3>1. BalanceKey(a)[1] = ConstsBalancePrefix /\ BalanceKey(a)[3] = 1
        BY DEF BalanceKey, BalanceChunks
      <3>2. MaxChunks(BalanceKey(a)) = 1
        BY <3>1 DEF MaxChunks, ConstsBalancePrefix, MarketPrefix, ShareBalancePrefix
      <3>3. NumChunks(Uint64Len) = 1
        BY DEF NumChunks, Uint64Len
      <3> QED
        BY <3>2, <3>3
    <2>9. store[BalanceKey(a)] # NotFound
      BY <2>4, NotFoundAssumption, WordAssumption DEF U64
    <2> QED
      BY <2>3, <2>6, <2>7, <2>8, <2>9 DEF Chargeable, CanInsert
  <1> QED
    BY <1>1, Invariance, PTL

(* The executor never waits for nothing: the first unfinished task of the  *)
(* queue is run, or waits for finished ones only (Run counts what a task   *)
(* waits for among the earlier ones).                                      *)
THEOREM ProgressSafe == Spec => []NeverDeadlocked
  <1>1. IInv => NeverDeadlocked
    <2> SUFFICES ASSUME IInv, \E i \in DOMAIN batch : ~Finished(i)
                 PROVE  \E i \in DOMAIN batch : Running(i) \/ Executable(i)
      BY DEF NeverDeadlocked
    <2> DEFINE T == {i \in DOMAIN batch : ~Finished(i)}
    <2>1. batch \in Seq(Transaction) /\ task \in [DOMAIN batch -> Task]
      BY DEF IInv, Typed
    <2>2. T \subseteq Nat /\ T # {}
      BY <2>1
    <2>3. PICK i \in T : \A j \in T : i <= j
      BY <2>2, LeastNat
    <2>4. i \in DOMAIN batch /\ ~Finished(i)
      BY <2>3
    <2>5. \A j \in Dependencies(batch, i) : Finished(j)
      <3> SUFFICES ASSUME NEW j \in Dependencies(batch, i) PROVE Finished(j)
        OBVIOUS
      <3>1. j \in 1 .. (i - 1)
        BY DEF Dependencies
      <3>2. j \in DOMAIN batch /\ j < i
        BY <2>1, <2>4, <3>1
      <3>3. j \in Nat /\ i \in Nat
        BY <2>1, <2>4, <3>2
      <3> QED
        BY <2>3, <3>2, <3>3
    <2>6. task[i].pc \in {"queued", "charge", "act", "committed", "dropped", "skipped"}
      BY <2>1, <2>4, TaskFields
    <2> QED
      BY <2>4, <2>5, <2>6 DEF Finished, Running, Executable
  <1> QED
    BY <1>1, Invariance, PTL

(* What a step changes of the state: nothing, unless it is a commit.       *)
LEMMA StepStore ==
    ASSUME IInv, NEW j \in DOMAIN batch, Step(j)
    PROVE  \/ store' = store
           \/ /\ task[j].pc = "act" /\ task'[j].pc = "committed"
              /\ store' = Over(store, task[j].pend)
  <1>1. CASE Commit(j)
    <2>1. Typed
      BY DEF IInv
    <2>2. Executed(j) /\ task'[j].pc = "committed" /\ store' = Over(store, task[j].pend)
      BY <1>1, <2>1, EndStep
    <2> QED
      BY <2>2 DEF Executed
  <1>2. CASE ~Commit(j)
    BY <1>2 DEF Step, Start, Abandon, ChargeFee, Execute, Skip
  <1> QED
    BY <1>1, <1>2

(* The executor isolates tasks: nobody else's step changes what a running  *)
(* task can read through its declared keys.                                *)
THEOREM Isolation == Spec => TasksIsolated
  <1>1. IInv /\ [Next]_vars => [SeesOnlyItself]_vars
    <2> SUFFICES ASSUME IInv, Next PROVE SeesOnlyItself
      OBVIOUS
    <2> SUFFICES ASSUME NEW i \in DOMAIN batch, batch' = batch, Running(i),
                        task'[i] = task[i],
                        NEW k \in Key, CanRead(StateKeys(batch[i]), k)
                 PROVE  View(i)'[k] = View(i)[k]
      BY DEF SeesOnlyItself
    <2>1. PICK j \in DOMAIN batch : Step(j)
      BY DEF Next, NextBatch, Running, Finished
    <2>2. store'[k] = store[k]
      <3>1. CASE store' = store
        BY <3>1
      <3>2. CASE /\ task[j].pc = "act" /\ task'[j].pc = "committed"
                 /\ store' = Over(store, task[j].pend)
        <4>1. j # i
          BY <3>2 DEF Running
        <4> QED
          BY <3>2, <4>1, RunApart
      <3> QED
        BY <2>1, <3>1, <3>2, StepStore
    <2> QED
      BY <2>2 DEF View
  <1> QED
    BY <1>1, Invariance, PTL DEF Spec, TasksIsolated

-----------------------------------------------------------------------------
(* Refinement: the executor implements SerialLedger.                       *)

(* The transactions that the executor has not decided.                     *)
Left == {i \in DOMAIN batch : ~Finished(i)}

(* When one task ends, its transaction is decided.                         *)
LEMMA LeftAfter ==
    ASSUME Typed, NEW i \in DOMAIN batch, Moves(i), ~Finished(i)
    PROVE  /\ Finished(i)' => Left' = Left \ {i}
           /\ ~Finished(i)' => Left' = Left
  <1>1. batch' = batch /\ \A j \in DOMAIN batch : j # i => (Finished(j)' <=> Finished(j))
    BY DEF Moves, Finished
  <1> QED
    BY <1>1 DEF Left

(* A commit is an Include: the view that is committed is what the          *)
(* transaction would have led to alone.                                    *)
LEMMA CommitIncludes ==
    ASSUME IInv, NEW i \in DOMAIN batch, Commit(i)
    PROVE  /\ PreExecute(store, now, batch[i])
           /\ store' \in Effects(store, now, batch[i])
           /\ i \in Left /\ Left' = Left \ {i} /\ UNCHANGED <<now, batch>>
  <1> DEFINE tx == batch[i]
             t == task[i]
  <1>1. /\ Typed /\ StoreOK(store) /\ t \in Task /\ tx \in Transaction
        /\ TaskInv(tx, t, store, now)
    BY DEF IInv, Typed, TasksInv
  <1>2. /\ Moves(i) /\ Executed(i) /\ task'[i].pc = "committed"
        /\ store' = Over(store, t.pend)
    BY <1>1, EndStep
  <1>3. t.pc = "act" /\ (t.ok => t.done = Len(tx.actions))
    BY <1>2 DEF Executed
  <1>4. CanDeduct(StateKeys(tx), store, tx.actor) /\ ActingInv(tx, t, store, now)
    BY <1>1, <1>3 DEF TaskInv
  <1>5. t.done \in Nat /\ Len(tx.actions) \in Nat /\ t.done <= Len(tx.actions)
    BY <1>1, <1>4, TaskFields, ActionKinds DEF ActingInv
  <1>6. PICK run \in Runs(store, now, tx)[t.done] :
           /\ Runs(store, now, tx)[t.done] = {run}
           /\ run.ok <=> t.ok
           /\ t.ok => run.view = Over(store, t.pend)
    BY <1>4 DEF ActingInv
  <1>7. ~t.ok => Over(store, t.pend) = Paid(store, tx)
    BY <1>4 DEF ActingInv
  <1>8. store' \in Effects(store, now, tx)
    <2>1. t.done \in 0 .. Len(tx.actions) /\ (run.ok => t.done = Len(tx.actions))
      BY <1>3, <1>5, <1>6
    <2>2. run.ok \in BOOLEAN
      <3>1. ~StateKeysErr(tx)
        BY <1>1, <1>3 DEF TaskInv
      <3>2. PICK r : Runs(store, now, tx)[t.done] = {r} /\ GoodRun(r, store, StateKeys(tx))
        BY <1>1, <1>4, <2>1, <3>1, RunsShape
      <3>3. r = run
        BY <1>6, <3>2
      <3> QED
        BY <3>2, <3>3 DEF GoodRun
    <2>3. /\ run.ok => Effects(store, now, tx) = {run.view}
          /\ ~run.ok => Effects(store, now, tx) = {Paid(store, tx)}
      BY <1>1, <1>6, <2>1, <2>2, EffectsOf
    <2> QED
      BY <1>2, <1>6, <1>7, <2>3
  <1>9. ~Finished(i) /\ Finished(i)'
    BY <1>2, <1>3 DEF Finished
  <1>10. PreExecute(store, now, tx)
    <2>1. ~Barred(now, tx) /\ ~DeductBalanceErr(store, tx.actor, Fee) /\ ~StateKeysErr(tx)
      BY <1>1, <1>3 DEF IInv, ServedExactly, Running, TaskInv
    <2> QED
      BY <1>1, <2>1, PreExecuteExactly
  <1>11. i \in Left /\ Left' = Left \ {i}
    BY <1>1, <1>2, <1>9, LeftAfter DEF Left
  <1> QED
    BY <1>2, <1>8, <1>10, <1>11 DEF Moves

(* Every other step of a task decides at most its own transaction, and     *)
(* leaves it out.                                                          *)
LEMMA OtherStepsOmit ==
    ASSUME IInv, NEW i \in DOMAIN batch, Step(i), ~Commit(i)
    PROVE  /\ i \in Left /\ Left' \in {Left, Left \ {i}}
           /\ UNCHANGED <<store, now, batch>>
  <1>1. Typed
    BY DEF IInv
  <1>2. Moves(i) /\ ~Finished(i) /\ store' = store
    <2>1. CASE Start(i) \/ Abandon(i)
      BY <1>1, <2>1, StartStep DEF Executable, Finished
    <2>2. CASE ChargeFee(i)
      BY <2>2, ChargeStep DEF Finished
    <2>3. CASE Execute(i)
      BY <2>3, ExecuteStep DEF Finished
    <2>4. CASE Skip(i)
      BY <1>1, <2>4, EndStep DEF Executed, Finished
    <2> QED
      BY <2>1, <2>2, <2>3, <2>4 DEF Step
  <1> QED
    BY <1>1, <1>2, LeftAfter DEF Left, Moves

(* A new block is an Offer.                                                *)
LEMMA NextBatchOffers == ASSUME IInv, NextBatch PROVE Serial!Offer
  <1>1. PICK txs \in Batches : batch' = txs /\ task' = [i \in DOMAIN txs |-> NewTask(txs[i])]
    BY DEF NextBatch
  <1>2. StoreOK(store) /\ \A i \in DOMAIN txs : txs[i] \in Transaction
    BY BatchesAssumption DEF IInv, Typed
  <1>3. \A i \in DOMAIN txs : Finished(i)' <=> StateKeysErr(txs[i])
    <2> SUFFICES ASSUME NEW i \in DOMAIN txs PROVE Finished(i)' <=> StateKeysErr(txs[i])
      OBVIOUS
    <2>1. task'[i] = NewTask(txs[i])
      BY <1>1
    <2>2. /\ NewTask(txs[i]).pc = "queued" <=> ~StateKeysErr(txs[i])
          /\ NewTask(txs[i]).pc = "dropped" <=> StateKeysErr(txs[i])
      BY <1>2, FreshTask
    <2> QED
      BY <2>1, <2>2 DEF Finished
  <1>4. Left = {}
    BY DEF NextBatch, Left
  <1>5. Left' = {i \in DOMAIN batch' : ~StateKeysErr(batch'[i])}
    BY <1>1, <1>3 DEF Left
  <1>6. batch' \in Batches /\ now' \in {ts \in Time : ts >= now} /\ store' = store
    BY <1>1 DEF NextBatch
  <1> QED
    BY <1>4, <1>5, <1>6 DEF Serial!Offer, Left

(* Every step of the executor is a step of the abstract ledger, or leaves  *)
(* it as it is.                                                            *)
LEMMA StepRefines == IInv /\ [Next]_vars => [Serial!Next]_(Serial!svars)
  <1> SUFFICES ASSUME IInv, [Next]_vars PROVE [Serial!Next]_(Serial!svars)
    OBVIOUS
  <1>1. CASE NextBatch
    BY <1>1, NextBatchOffers DEF Serial!Next
  <1>2. ASSUME NEW i \in DOMAIN batch, Commit(i) PROVE Serial!Next
    <2>1. Serial!Include(i) /\ i \in Left
      BY <1>2, CommitIncludes DEF Serial!Include, Left
    <2> QED
      BY <2>1 DEF Serial!Next, Left
  <1>3. ASSUME NEW i \in DOMAIN batch, Step(i), ~Commit(i)
        PROVE  [Serial!Next]_(Serial!svars)
    <2>1. /\ i \in Left /\ Left' \in {Left, Left \ {i}}
          /\ UNCHANGED <<store, now, batch>>
      BY <1>3, OtherStepsOmit
    <2>2. CASE Left' = Left
      BY <2>1, <2>2 DEF Serial!svars, Left
    <2>3. CASE Left' = Left \ {i}
      <3>1. Serial!Omit(i)
        BY <2>1, <2>3 DEF Serial!Omit, Left
      <3> QED
        BY <2>1, <3>1 DEF Serial!Next, Left
    <2> QED
      BY <2>1, <2>2, <2>3
  <1>4. CASE UNCHANGED vars
    BY <1>4 DEF vars, Serial!svars, Finished
  <1> QED
    BY <1>1, <1>2, <1>3, <1>4 DEF Next

(* Whatever the executor interleaves, fails half-way or leaves out, the    *)
(* state moves as if every transaction of a block ran alone and at once,   *)
(* in the order of the commits (chain/builder.go over internal/executor).  *)
THEOREM Serialises == Spec => SerialExecution
  <1>1. Init => Serial!Init
    BY DEF Init, Serial!Init
  <1> QED
    BY <1>1, StepRefines, Invariance, PTL DEF Spec, SerialExecution, Serial!Spec

-----------------------------------------------------------------------------
(* Totals.                                                                 *)

(* A step leaves the chain's state alone, or takes it to where one         *)
(* transaction alone would: either way totals and holdings stay in step,   *)
(* and every market stays under its own ID.                                *)
LEMMA StepInStep ==
    ASSUME IInv, Filed(store), [Next]_vars
    PROVE  Filed(store)' /\ (store' = store \/ InStep(store, store'))
  <1>1. CASE store' = store
    BY <1>1 DEF Filed
  <1>2. CASE store' # store
    <2>1. PICK i \in DOMAIN batch : Step(i)
      BY <1>2 DEF Next, NextBatch, vars
    <2>2. Commit(i)
      BY <1>2, <2>1, OtherStepsOmit
    <2>3. /\ StoreOK(store) /\ batch[i] \in Transaction
          /\ TaskInv(batch[i], task[i], store, now)
      BY DEF IInv, Typed, TasksInv
    <2>4. ~StateKeysErr(batch[i])
      BY <2>2, <2>3 DEF Commit, Executed, TaskInv
    <2>5. /\ CanDeduct(StateKeys(batch[i]), store, batch[i].actor)
          /\ store' \in Effects(store, now, batch[i])
      BY <2>2, CommitIncludes DEF PreExecute
    <2>6. Filed(store') /\ InStep(store, store')
      BY <2>3, <2>4, <2>5, EffectsInStep
    <2> QED
      BY <2>6 DEF Filed
  <1> QED
    BY <1>1, <1>2

(* Every change of the chain's state moves a market's totals by exactly as *)
(* much as its holdings, whatever is executed concurrently and whatever    *)
(* fails half-way (the market that BuyYes and BuyNo read before they write *)
(* it back).                                                               *)
THEOREM TotalsFollow == Spec => TotalsFollowHoldings
  <1> DEFINE Inv == IInv /\ Filed(store)
  <1>1. Init => Inv
    BY InitIInv, StartOK DEF Init
  <1>2. Inv /\ [Next]_vars => Inv'
    BY NextIInv, StepInStep
  <1>3. Inv /\ [Next]_vars => [TotalsKeepPace]_vars
    <2> SUFFICES ASSUME Inv, [Next]_vars, NEW m \in MarketID, store[MarketKey(m)] # NotFound
                 PROVE  /\ store'[MarketKey(m)] # NotFound
                        /\ \A t \in ShareType : Ahead(store', m, t) = Ahead(store, m, t)
      BY DEF TotalsKeepPace
    <2>1. CASE store' = store
      BY <2>1
    <2>2. CASE InStep(store, store')
      BY <2>2 DEF InStep
    <2> QED
      BY <2>1, <2>2, StepInStep
  <1> QED
    BY <1>1, <1>2, <1>3, PTL DEF Spec, TotalsFollowHoldings
=============================================================================
