---------------------------- MODULE TxExecution ----------------------------
(***************************************************************************)
(* Transactions that carry this VM's actions, executed the way hypersdk's  *)
(* block builder executes them (chain/builder.go, chain/transaction.go,    *)
(* internal/executor, state/tstate): a batch is queued in order, workers   *)
(* run non-conflicting transactions concurrently, each against a view that *)
(* is limited to the keys the transaction declared, charges the fee        *)
(* through the Controller first, rolls a failing transaction's actions     *)
(* back and commits the view.                                              *)
(*                                                                         *)
(* A transaction's actor is also its sponsor, as with every auth module    *)
(* the VM registers.  Fees are one constant amount.  A Transaction may     *)
(* hold any chain.Action; which of them survive the wire is the codec's    *)
(* matter, not this module's.                                              *)
(***************************************************************************)
EXTENDS Executor

CONSTANT
    Kept        \* marks a key that a view has not written

ASSUME KeptAssumption == Kept \notin Nat /\ Kept \notin Market /\ Kept # NotFound

VARIABLES
    store,    \* the parent state with the changes committed so far
    now,      \* timestamp of the block being built
    batch,    \* the transactions streamed from the mempool
    task,     \* the executor's task for each of them
    full,     \* a task has reported errBlockFull
    billed    \* history: fees and costs of the committed transactions

vars == <<store, now, batch, task, full, billed>>

-----------------------------------------------------------------------------
Finished(i) == task[i].pc \in {"committed", "dropped", "skipped"}

(* Mutant: a view that does not fall through to the state below it.        *)
ViewDetached(i) == task[i].pend

(* What task i sees: its own writes over the state as it is now.           *)
View(i) ==
    [k \in Key |-> IF task[i].pend[k] = Kept THEN store[k] ELSE task[i].pend[k]]

(* The pending changes that turn task i's view into st.                    *)
Pending(i, st) ==
    [k \in Key |-> IF st[k] = View(i)[k] THEN task[i].pend[k] ELSE st[k]]

NoChanges == [k \in Key |-> Kept]

(* A fresh task; a transaction whose keys are malformed is never queued.   *)
NewTask(tx) ==
    [pc |-> IF StateKeysErr(tx) THEN "dropped" ELSE "queued",
     pend |-> NoChanges, charged |-> NoChanges, done |-> 0, ok |-> TRUE, cost |-> 0]

Executable(i) ==
    /\ task[i].pc = "queued"
    /\ \A j \in Dependencies(batch, i) : Finished(j)

(* A worker takes up a task; one that does not pass PreExecute is dropped. *)
Start(i) ==
    /\ Executable(i)
    /\ ~full
    /\ task' = [task EXCEPT ![i].pc = IF PreExecute(View(i), now, batch[i])
                                      THEN "charge" ELSE "dropped"]
    /\ UNCHANGED <<store, now, batch, full, billed>>

(* A worker that takes a task after errBlockFull does not run it; the      *)
(* transaction goes back to the mempool.                                   *)
Abandon(i) ==
    /\ Executable(i)
    /\ full
    /\ task' = [task EXCEPT ![i].pc = "skipped"]
    /\ UNCHANGED <<store, now, batch, full, billed>>

(* Deduct goes through: the balance covers the fee, and may be written.    *)
Chargeable(i) ==
    LET a == batch[i].actor IN
    /\ ~DeductBalanceErr(View(i), a, Fee)
    /\ CanInsert(StateKeys(batch[i]), View(i), BalanceKey(a), Uint64Len)

(* The head of Transaction.Execute: the fee, then the rollback point.      *)
(* Its error path, a Deduct that fails although CanDeduct has succeeded,   *)
(* is not modelled: FeesChargeable says that no task meets it.             *)
ChargeFee(i) ==
    LET pend == Pending(i, DeductBalance(View(i), batch[i].actor, Fee))
    IN  /\ task[i].pc = "charge"
        /\ Chargeable(i)
        /\ task' = [task EXCEPT ![i].pc = "act", ![i].pend = pend, ![i].charged = pend]
        /\ UNCHANGED <<store, now, batch, full, billed>>

(* Mutants: a rollback that undoes nothing, and one that goes back to the  *)
(* start of the transaction.                                               *)
RollbackNothing(i, pend) == pend

RollbackAll(i, pend) == NoChanges

(* TStateView.Rollback to the point reached when the fee was charged.      *)
Rollback(i, pend) == task[i].charged

Spent(action) == IF action.type = "CreateMarket" THEN 0 ELSE Cost(action.order)

(* One action of the transaction; a failing one ends it.                   *)
Execute(i) ==
    LET tx == batch[i]
        action == tx.actions[task[i].done + 1]
    IN  /\ task[i].pc = "act"
        /\ task[i].ok
        /\ task[i].done < Len(tx.actions)
        /\ \E run \in Outcomes(StateKeys(tx), View(i), now, tx.actor, action) :
              LET pend == Pending(i, run.view) IN
              task' = [task EXCEPT
                  ![i].done = @ + 1,
                  ![i].ok = run.ok,
                  ![i].cost = IF run.ok THEN @ + Spent(action) ELSE 0,
                  ![i].pend = IF run.ok THEN pend ELSE Rollback(i, pend)]
        /\ UNCHANGED <<store, now, batch, full, billed>>

Executed(i) ==
    /\ task[i].pc = "act"
    /\ task[i].ok => task[i].done = Len(batch[i].actions)

(* The block has room: the view is committed and the result returned.      *)
Commit(i) ==
    /\ Executed(i)
    /\ store' = View(i)
    /\ billed' = [billed EXCEPT ![batch[i].actor] = @ + Fee + task[i].cost]
    /\ task' = [task EXCEPT ![i].pc = "committed", ![i].pend = NoChanges,
                            ![i].charged = NoChanges]
    /\ UNCHANGED <<now, batch, full>>

(* Mutant: the transaction is put back into the batch being built.         *)
SkipRequeues(i) ==
    /\ Executed(i)
    /\ task' = [task EXCEPT ![i] = NewTask(batch[i])]
    /\ UNCHANGED <<store, now, batch, full, billed>>

(* The block has no room: the view is discarded and the transaction goes   *)
(* back to the mempool.  Above the target, the build stops as well.        *)
Skip(i) ==
    /\ Executed(i)
    /\ task' = [task EXCEPT ![i].pc = "skipped", ![i].pend = NoChanges,
                            ![i].charged = NoChanges]
    /\ full' \in {full, TRUE}
    /\ UNCHANGED <<store, now, batch, billed>>

(* The next block: a new batch, at a timestamp that is not earlier.        *)
NextBatch ==
    /\ \A i \in DOMAIN batch : Finished(i)
    /\ \E txs \in Batches :
          /\ batch' = txs
          /\ task' = [i \in DOMAIN txs |-> NewTask(txs[i])]
    /\ \E ts \in Time : ts >= now /\ now' = ts
    /\ full' = FALSE
    /\ UNCHANGED <<store, billed>>

-----------------------------------------------------------------------------
Init ==
    /\ store \in StartStores
    /\ now \in Time
    /\ \A ts \in Time : now <= ts
    /\ batch = <<>>
    /\ task = <<>>
    /\ full = FALSE
    /\ billed = [a \in Addr |-> 0]

Step(i) ==
    Start(i) \/ Abandon(i) \/ ChargeFee(i) \/ Execute(i) \/ Commit(i) \/ Skip(i)

Next == NextBatch \/ \E i \in DOMAIN batch : Step(i)

(* Executor workers take every executable task and run it to its end.      *)
BatchBound == 1 .. Max({Len(txs) : txs \in Batches})

Fairness == \A i \in BatchBound : WF_vars(i \in DOMAIN batch /\ Step(i))

Spec == Init /\ [][Next]_vars /\ Fairness

-----------------------------------------------------------------------------
(* Properties.                                                             *)

Running(i) == task[i].pc \in {"charge", "act"}

(* Every record decodes and every task is well formed.                     *)
TypeOK ==
    /\ StoreOK(store)
    /\ now \in Time
    /\ batch = <<>> \/ batch \in Batches
    /\ DOMAIN task = DOMAIN batch
    /\ \A i \in DOMAIN batch :
          /\ task[i].pc \in {"queued", "charge", "act", "committed", "dropped", "skipped"}
          /\ StoreOK(View(i))
          /\ task[i].done \in 0 .. Len(batch[i].actions)
    /\ full \in BOOLEAN
    /\ billed \in [Addr -> Nat]

(* Whatever ran concurrently, failed half-way or was skipped, an account   *)
(* has lost exactly the fees of its committed transactions and the cost of *)
(* the purchases that went through: no debit of a rolled-back action is    *)
(* committed, and no update of a balance is lost.                          *)
BalancesAccounted ==
    \A a \in Addr :
        IF Genesis[a] = NotFound
        THEN store[BalanceKey(a)] = NotFound /\ billed[a] = 0
        ELSE store[BalanceKey(a)] + billed[a] = Genesis[a]

SeesOnlyItself ==
    \A i \in DOMAIN batch :
        batch' = batch /\ Running(i) /\ task'[i] = task[i] =>
            \A k \in Key : CanRead(StateKeys(batch[i]), k) => View(i)'[k] = View(i)[k]

(* No task's step changes what another running task can read: the keys     *)
(* that transactions declare are enough for the executor to isolate them,  *)
(* although a view reads through to the live state.                        *)
TasksIsolated == [][SeesOnlyItself]_vars

TotalsKeepPace ==
    \A m \in MarketID : store[MarketKey(m)] # NotFound =>
        /\ store'[MarketKey(m)] # NotFound
        /\ \A t \in ShareType : Ahead(store', m, t) = Ahead(store, m, t)

(* Every change of the chain's state moves a market's totals by exactly as *)
(* much as its holdings: a market that one purchase has read and another   *)
(* has written in the meantime would lose an update, and a purchase that   *)
(* is committed in part would move only one of the two.                    *)
TotalsFollowHoldings == [][TotalsKeepPace]_vars

(* A sponsor that could pay when the executor took up its transaction can  *)
(* still pay when the fee is taken, whatever was committed in between: the *)
(* error path of Deduct is never met.                                      *)
FeesChargeable ==
    \A i \in DOMAIN batch : task[i].pc = "charge" => Chargeable(i)

(* The executor never waits for nothing: as long as a task is unfinished,  *)
(* one is being run, or may be taken up because all it waits for has       *)
(* ended.                                                                  *)
NeverDeadlocked ==
    (\E i \in DOMAIN batch : ~Finished(i)) =>
        \E i \in DOMAIN batch : Running(i) \/ Executable(i)

(* A failed transaction has charged its fee and changed nothing else.      *)
FailureKeepsFeeOnly ==
    \A i \in DOMAIN batch :
        task[i].pc = "act" /\ ~task[i].ok =>
            View(i) = DeductBalance(store, batch[i].actor, Fee)

(* Whatever the executor interleaves, the chain's state moves as if every  *)
(* transaction of a batch ran alone and at once, at most one time, in the  *)
(* order of the commits: SerialLedger.                                     *)
Serial == INSTANCE SerialLedger WITH left <- {i \in DOMAIN batch : ~Finished(i)}

SerialExecution == Serial!Spec

Creates(tx) ==
    \E j \in DOMAIN tx.actions : tx.actions[j].type = "CreateMarket"

(* What keeps a transaction from being served whatever its sponsor has:    *)
(* its Base, the number of its actions, no action that declares the        *)
(* balance record (SponsorStateKeys names another key), or a CreateMarket, *)
(* whose key is malformed.                                                 *)
Barred(ts, tx) ==
    \/ BaseErr(ts, tx)
    \/ tx.actions = <<>>
    \/ Len(tx.actions) > MaxActionsPerTx
    \/ Creates(tx)

(* A transaction is served exactly when nothing bars it and its sponsor    *)
(* can pay: a dropped one is barred, or its sponsor's balance is missing,  *)
(* zero or too small, and stays so to the end of the block; one that is    *)
(* taken up is not barred, and as long as it runs the sponsor can pay from *)
(* the state below it, whatever other tasks commit.                        *)
ServedExactly ==
    \A i \in DOMAIN batch :
        LET tx == batch[i]
            broke == DeductBalanceErr(store, tx.actor, Fee)
        IN  /\ task[i].pc = "dropped" => Barred(now, tx) \/ broke
            /\ task[i].pc \in {"charge", "act", "committed"} => ~Barred(now, tx)
            /\ Running(i) => ~broke

(* Every batch is worked off: no transaction waits for ever for the ones   *)
(* it conflicts with.                                                      *)
BatchesFinish == []<>(\A i \in DOMAIN batch : Finished(i))

-----------------------------------------------------------------------------
(* What comments in the code promise and the code does not keep.           *)

(* A transaction whose purchase is open to its actor, and which the actor  *)
(* can pay, does not fail: a first purchase starts from a missing share    *)
(* record.  The keys that BuyYes declares do not allow to create one.      *)
FundedPurchasesSucceed ==
    \A i \in DOMAIN batch :
        LET action == batch[i].actions[1] IN
        task[i].pc = "act" /\ ~task[i].ok /\ task[i].done = 1 /\ action.type = "BuyYes"
            => ~BuyYesAdmits(View(i), now, batch[i].actor, action.order)
=============================================================================
