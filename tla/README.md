# predictionvm: a TLA+ model of the prediction-market VM

predictionvm is a blockchain VM written in Go on hypersdk (vendored under
`vendor/github.com/ava-labs/hypersdk`). Accounts hold a native balance; markets
are created by `CreateMarket` and traded by `BuyYes` and `BuyNo`, which take
`Amount * MaxPrice` from the actor and credit shares. There is no action yet
that resolves a market or pays out.

## Inventory

| Component | State | Operations | Hard behaviour |
|---|---|---|---|
| `storage` | one key-value store: balance records, market records, share records | getters and setters over typed keys, `AddBalance`, `DeductBalance`, `AddShares`, `DeductShares` | uint64 wrap-around; a stored zero is unreadable (`UnpackUint64(true)`); three different layouts of "the balance key"; size limits |
| `actions` | none of their own | `Execute`, `StateKeys`, `Bytes` of `CreateMarket`, `BuyYes`, `BuyNo` | several writes, each of which can fail; a market read early and written late; a random market ID |
| `controller` | none | `SponsorStateKeys`, `CanDeduct`, `Deduct`, `AddBalance`, `GetBalance`: hypersdk's fee interface | declared keys must cover touched keys |
| transaction execution (hypersdk) | parent state, views, executor tasks | queue, pre-execute, charge, execute, roll back, commit, skip | concurrent execution over live state; dependency waits; half-done actions |
| `genesis` | allocations | `InitializeState` | repeated addresses, zero amounts, unchecked sums |
| `vm` | parsers, RPC server, RPC client | registration of decoders, `Balance`, `Genesis`, `WaitForBalance` | what a node can parse; polling liveness |
| `load` | `currBalance` | `GenerateTx`, `IssueTx`, `Listen`, `Stop` | stop against issue, failed issue after debit, equal transactions of a second |
| `cmd/prediction-cli` | a database of keys and chains | key and chain commands, `DefaultActor`, `sendAndWait`, printing | notifications of other or expired transactions; commands cut off between writes |
| `cmd/predictionvm`, `consts`, `tests` | none | start-up, constants, fixtures | none |

Calls: a block's transactions call the controller (fee) and the actions
(`Execute`) on a `TStateView`; both call `storage`. Genesis calls
`Controller.AddBalance`. The RPC server reads the last accepted state through
`storage.GetBalanceFromState`. Clients (the CLI, the load issuer) turn actions
into bytes with `Bytes`, send them over a websocket and wait for the node's
notification; the node parses them with the decoders that `vm.init` registers.
A block that one validator has built is executed again by every other one.

What makes the parts correct:

- storage: records decode, live under the key they name, and a market that was
  stored can be written back;
- actions: totals equal holdings, unless a market's ID is drawn again, purchases
  are paid and whole, closed markets do not move;
- transactions: an account loses exactly fees and completed purchases, failed
  transactions change nothing but the fee, concurrent ones do not see each
  other, every batch ends; the whole is as if transactions ran one by one, and
  a second validator reaches the same state;
- genesis: balances are the sums of the allocations;
- RPC: a client that waits for a balance that is there gets an answer;
- wire: a node executes the orders that the client signed (if not always
  on their side, see `ParsedAsBuyYes`);
- load: an issuer never offers fees its account cannot pay, and a burst ends;
- CLI: every listener is answered, a reported result is the transaction's own,
  and the defaults in the database refer to what is stored.

`PROJECT.json` lists the hazards line by line, with the properties that cover
them.

## Modules

| Module | Models | State |
|---|---|---|
| `Storage` | `storage/state.go`, `storage/market.go`, `storage/storage.go` | none: operators on a store |
| `Actions` | the checks and writes of the three `Execute` methods; the state a chain starts from | none: operators on a store |
| `Markets` | actions executed one after the other on a `state.Mutable` | `store`, `now`, `result`, `overwritten` (history) |
| `Transactions` | declared keys, a view's checks, the effect of an action and of a transaction | none: operators |
| `Executor` | which tasks wait for which in `internal/executor` | none: operators on a queue |
| `SerialLedger` | the abstract specification: transactions decided one at a time | `store`, `now`, `batch`, `left` |
| `TxExecution` | transactions with these actions in hypersdk's block builder | `store`, `now`, `batch`, `task`, `full`, `billed` (history) |
| `Verification` | a builder and a verifier of the same blocks | `phase`, `batch`, `left`, `block`, `built`, `pending`, `replica`, counters |
| `GenesisInit` | `InitializeState` of this repository and of hypersdk's `DefaultGenesis` | `kind`, `allocs`, `pos`, `supply`, `store`, `outcome` |
| `BalanceRpc` | the balance RPC and `WaitForBalance` | `store`, `wait` |
| `Wire` | `Bytes` of the actions, `NewTxData`, `UnmarshalTx` and the parser | `phase`, `sent`, `wire`, `got` |
| `LoadIssuer` | `load/issuer.go` under hypersdk's short-burst orchestrator | `currBalance`, `sender`, `listening`, `outstanding`, ... |
| `TxNotify` | `sendAndWait` and the websocket server's listeners | `call`, `outbox`, `inbox`, `txListeners`, `expiringTxs`, `mempool`, `included` |
| `CliStore` | the CLI's database and the commands that write it | `keys`, `defaultKey`, `rpcs`, `defaultChain`, `todo`, `endpoints` (history) |
| `MC*` | constants for TLC | |
| `Ledger_proofs` | lemmas on what `Storage`, `Actions`, `Transactions` and `Executor` define | |
| `Markets_proofs`, `TxExecution_proofs`, `Verification_proofs`, `GenesisInit_proofs`, `Wire_proofs`, `LoadIssuer_proofs` | the theorems about the module of that name | |
| `Cli_proofs` | the theorems about `TxNotify` and `CliStore` | |

Composition: `Storage` <- `Actions` <- `Markets`, `Wire` and `Transactions`;
`Transactions` <- `Executor` <- `TxExecution` and `Verification`. `SerialLedger`
extends nothing of the project: what a transaction may do and leave are operator
parameters, for which `TxExecution` puts those of `Transactions` when it
instantiates it. `GenesisInit` and
`BalanceRpc` use `Storage`; `LoadIssuer`, `TxNotify` and `CliStore` stand alone.

`Storage` and `Actions` hold no variables: `Markets` and `TxExecution` share
them, what the accounts hold of a market (`Held`) included, and differ in what surrounds `Execute`. In `Markets` an `Execute` that
fails half-way leaves what it has written, which is what the Go methods do; in
`TxExecution` every write must pass the view's checks (`CanInsert`) and a
failing action is rolled back.

### Abstractions

- The store is a total function from keys to values or `NotFound`. A key is
  the tuple of its parts. The layouts have different lengths or prefixes in the
  code too, so distinct tuples are distinct byte strings.
- A uint64 is a number below `Word` (2^64 in the code) and all sums, products
  and differences are taken modulo `Word`, as Go does.
- A market keeps the fields that control flow or a property reads. Its three
  texts are kept as their summed length, which is all the size limits see; its
  84 bytes of other fields are counted in `MarketSize`. The record is read and
  written with the same linear codec, which gives back what it was given. The
  limit is the writer's alone: the size that `codec.NewReader` takes bounds what
  a packer may grow to, and reading never grows it.
- `TotalYesShares` and `TotalNoShares` are one function `TotalShares`.
- A getter is two operators: the condition under which it returns an error, and
  its value otherwise.
- `AddrTail` is the last byte of an address: with the share type it forms the
  chunk limit that hypersdk reads off the end of a share key.
- A transaction's `Base` is its chain (this one or another) and its expiry; the
  divisor of expiries (a second, in milliseconds) and the validity window are
  constants. `PreExecute`'s checks of the actions' and the auth modules'
  `ValidRange` are left out: every one of them returns -1, -1, valid at any time.
- The fee is one constant. The actor of a transaction is its sponsor, as with
  every auth module that `vm.go` registers. Only the block *building* path is
  modelled; errors of the database and of fee arithmetic are not.
- `TxExecution` lets transactions hold any of the three actions, as a Go caller
  of `chain.NewTransaction` can. What survives the wire is the matter of `Wire`.
- `CreateMarket` draws its ID from `crypto/rand`; `Outcomes` is the set of what
  an action may come to, one element for a purchase and one per ID for a
  creation.
- `Verification` takes a transaction as one step. That is what the refinement
  below shows for the builder's executor, and the verifier runs the same code.
- `Wire`: a uint64 is `LongLen` bytes of `Base` values. The words of a purchase
  are spelled out, because the parser looks into them; a packed `CreateMarket`
  is its type ID and its size. `consts.go` numbers the IDs 4, 5 and 6 (the
  `iota` of a block that starts three lines earlier), whatever its comments say.
- `LoadIssuer` and `TxNotify`: a transaction's ID is its content with its expiry
  in seconds, because `UnixRMilli` rounds and ed25519 signs deterministically.
- `TxNotify`: block building and consensus are external; a block holds at most
  one of the client's transactions. A notification that is lost to a full
  message buffer needs more calls than the bounds allow and is left out.
- `CliStore`: a command is the list of its writes. A command whose checks fail
  writes nothing and is no step.

### Actions and code

`Markets`: `BuyYes`, `BuyNo` and `CreateMarket` are the `Execute` methods. The
`...Admits` operators are the checks before the first write; `Settle` is the
rest of a purchase with its two error paths; `NextBlock` advances the block
timestamp. `result` distinguishes an error before any write (`"refused"`) from
one after a write (`"failed"`).

`TxExecution`: `NextBatch` streams transactions from the mempool and queues
them (malformed keys drop a transaction); `Start` is the worker taking a task
whose dependencies have finished and `PreExecute`, with the checks of the `Base`
(chain, alignment, expiry, window), of the number of actions and of the funds;
`Abandon` a worker that
finds `errBlockFull`; `ChargeFee` and `Execute` are `Transaction.Execute`
(without the error of a `Deduct` that fails after `CanDeduct` has succeeded,
which `FeesChargeable` shows to be unreachable);
`Commit` and `Skip` the end of the builder's closure. `Dependencies` is computed
from the queue the way `Executor.Run` records it: per key a node, and the
readers of that node.

`SerialLedger`: `Offer` brings a batch, `Include` applies a transaction's whole
effect at once, `Omit` leaves it out.

`Verification`: `Stream`, `Include`, `Omit` and `Issue` are `BuildBlock`,
`ExecuteTx` and `Accept` are `executeTxs` at another validator, where the errors
that make a builder drop a transaction, those of `PreExecute` among them, fail
the block.

`GenesisInit`: one step per allocation. `BalanceRpc`: one step per turn of the
polling loop, while blocks credit and debit the account and requests may fail.

`Wire`: `NewTxData` packs, `UnmarshalTx` parses; `BytesPanic` is the panic of
`CreateMarket.Bytes`.

`LoadIssuer`: one action per method and per error return; `IssuersDone`,
`Timeout` and `ObserversDone` are the waits of `Execute`; time, a lost
connection and a cancelled context are the environment.

`TxNotify`: `Send`, `ListenTx` and their error paths are `sendAndWait`;
`MessageCallback` adds the listener and submits; `AcceptBlock` answers and
expires. `Drop` is a builder that gives a transaction up, `Disconnect` a failing
connection.

`CliStore`: one action per command, `Write` for each of its writes, `Crash` for
a failing write or the end of the process. `endpoints` records what
`chain import-cli`, which deletes every endpoint before it reads its file, has
made of them: `"kept"`, `"lost"`, or `"restoring"` while a command runs that
will have selected a chain with an endpoint when it gets to its end.

## Runs

Passing:

| Run | Instance | Shows |
|---|---|---|
| `markets_trade` | 2 accounts, 1 market in each of the 4 statuses, `Word` = 4, amounts and prices 0..2, timestamps 0..2 with `EndTime` = 1 | totals equal holdings modulo `Word`; a purchase fails after its debit only on a zero share record; closed markets are frozen; balances never grow; purchases are whole |
| `markets_create` | 1 account with 2 units, market IDs 0 and 1, no market at the start, texts on both sides of every limit (256, 256, 512, and 1024 for the record), timestamps 0..3 | a market is under its own key and no holding lacks a market; no purchase fails for a market that cannot be written back; totals again, with IDs drawn twice: they leave the holdings only where an ID in use is drawn |
| `tx_execution` | 2 accounts, markets 1 and 258, `MaxActionsPerTx` = `ValidityWindow` = `TimestampDivisor` = 2, block timestamps 0 and 2; batches of two (pairs of purchases, or a purchase after a transaction that is empty, creates a market, has three actions, is of another chain, or expires at 0, 1 or 4) and of three purchases, repeated until funds are spent | balances are accounted for; failures keep the fee only; exactly the transactions that `PreExecute`'s checks, the declared keys and the sponsor's funds allow are served; tasks are isolated; totals move with holdings; a fee found payable can be charged; the executor implements `SerialLedger`, never waits for nothing and finishes every batch |
| `verification` | 2 accounts, 2 markets, blocks of up to 4 transactions from 2 streamed batches, some with a transaction that expires with the first block, 2 blocks; the rules of `tx_execution` | a second validator accepts the block and reaches the builder's state |
| `genesis` | all lists of at most 3 allocations over 2 addresses and an undecodable one, amounts 0, 1 and `Word` - 1 | balances are sums of allocations; `DefaultGenesis`' supply is exact; failures are explained |
| `wire` | `Base` = 8, `LongLen` = 2, transactions of one or two actions, `CreateMarket` with texts on both sides of what `Bytes` can pack | what is parsed are the signed orders, each as a `BuyYes`; exactly which transactions a node accepts; `Bytes` panics only on a market that could not be stored |
| `load_issuer` | 2 issuers of 2 transactions, funds for 3, 2 bursts, 2 seconds | fees in flight are covered; bursts end |
| `tx_notify` | 1 parsable and 1 unparsable payload, window 1, 3 calls | listeners expire and are answered; reported results are true; announced expiries are final |
| `cli_store` | 2 keys, 2 chains, 2 endpoints | the default key is stored; the default chain has an endpoint unless an `import-cli` has taken the endpoints away and no command has since made up for it |

`Word` = 4 is the smallest word in which a product of two amounts above 1
wraps, a holding wraps to zero and a holding wraps past zero. Two accounts are
enough for totals to differ from any one holding and for two transactions to
conflict or not. Market IDs 1 and 258 are one whose low bytes allow a single
64-byte chunk (the record does not fit) and one that allows many. In
`tx_execution` account `a1` already holds shares, put there as a fixture:
with no holding at all no purchase gets past its second write (see
`funded_purchases_succeed`). A window of 2 over the timestamps 0 and 2 puts an
expiry before, at and past each of its ends: 0 is the last moment in the first
block and too late in the second, 4 too far ahead in the first and the last
moment of the window in the second; 1 is no multiple of the divisor, and three
actions are one too many. In `markets_create` 2 units pay for a purchase before
and one after an ID is drawn again. Three transactions are the least for a task that
waits for a reader and for the task before it. `genesis` has no fairness and
stops when `InitializeState` has returned, so deadlock is not checked there; nor
where a bound on blocks, bursts or calls ends the behaviour (`verification`,
`load_issuer`, `tx_notify`). `verification` needs two streams for a block whose
queue is longer than any of the builder's. `Base` = 8 is the smallest power of
two above the largest type ID, and with two bytes to the word the first byte of
an ID differs from its value. Three calls of `sendAndWait` let an answer be late
for two of them; a window of one second lets a call send the same transaction
again or another one. Two bursts are needed to issue after `Stop`.

Findings, each a run that TLC must refute:

| Run | What the code does |
|---|---|
| `shares_are_paid_for` | the cost `Amount * MaxPrice` wraps, and shares are credited for less than their price |
| `funded_purchases_succeed` | `StateKeys` of a purchase lacks `state.Allocate`, so a first purchase fails in a transaction |
| `wait_ends_when_funded` | the balance RPC reads a key that nothing writes; `WaitForBalance` never ends |

Other places where the code and its comments part, which the models contain as
the code has them. Where a passing property says what happens instead, it is
named.

| Where | What the code does | Property |
|---|---|---|
| `storage/state.go:45` | a balance of exactly zero is stored, and `GetBalance` reports it as an error ever after: a second allocation fails | `FailureExplained`. After genesis the error makes no difference: nothing credits an account any more, and a zero does not pay a fee (`ServedExactly`) |
| `create_market_action.go:163` | `CreateMarket` does not look whether its random ID is in use | `TotalsDriftOnlyOnReissue`: the holders keep shares that the new totals do not count; `SharesMatchTotals`, `ClosedMarketsFrozen` except for such IDs |
| `controller.go:26` | `SponsorStateKeys` names another key than `CanDeduct` and `Deduct` touch | `ServedExactly` |
| `create_market_action.go:89` | `CreateMarket` declares a one-byte key, which makes its transaction invalid | `ServedExactly` |
| `buy_yes_action.go:172` | `Bytes` of a purchase has no type ID and only `BuyYes` has a decoder: a node rejects most of what it is sent, and takes a `BuyNo` on a market whose ID starts with byte 5 for a `BuyYes`, where `type_parser.go:77` promises "Unmarshal(Bytes(T)) == T" | `AcceptedExactly`, `ParsedAsBuyYes`: the order is the signed one, its side is not |
| `create_market_action.go:58` | texts within `Execute`'s limits (256, 256 and 512 bytes make 1050 with the other fields) exceed the 1024 bytes that `Bytes` can pack, and it panics | `PanicsOnlyOnUnstorable`: only where the market record would not fit either |
| `issuer.go:60` | an issuer generates the same transaction twice within a second | `FeesCovered` counts them once |
| `issuer.go:97`, `:103` | `Listen` waits for its context only, and an issuer issues after `Stop` | `BurstEnds`, `FeesCovered` hold nevertheless |
| `resolutions.go:55` | `sendAndWait` reports any other transaction it hears of as expired | `ReportedResultsAreTrue` for the other reports |
| `resolutions.go:67` | the expiry of its own transaction makes `sendAndWait` dereference nil | `ExpiriesAreFinal`: only when the transaction really is out of time |
| `handler.go:67` | `import-cli` deletes all endpoints before it reads its file: cut off, or with a file that cannot be read or names no node, it leaves a default chain without endpoint, on which `DefaultActor` panics | `DefaultChainServed`: in no other case, and not once a later command has selected a chain with an endpoint |

`ReplicasAgree` deserves a word. `CreateMarket.Execute` is not a function of the
state, which would split validators, and today nothing but its malformed state
key (see `ServedExactly`) keeps it out of blocks. The property's mutant mends
that key, and TLC then shows two validators with different states.

### Refinement

`TxExecution` implements `SerialLedger` (property `SerialExecution`): views,
rollbacks, dependencies and abandoned tasks are hidden, `left` is the set of
tasks that have not finished, `Commit` is `Include`, and `Start` (when it drops),
`Abandon` and `Skip` are `Omit`. The abstract step computes the whole effect of a
transaction from the state at the moment of its commit; it matches because
nothing a task has read can change before it commits.

### Fairness

`TxExecution` assumes weak fairness of each task's steps: `Executor.work` runs
in goroutines that take executable tasks from a channel and run them to their
end without waiting for anything but the dependencies already counted.
`BatchesFinish` needs no fairness of `NextBatch`. `BalanceRpc` assumes weak
fairness of the polling loop only; neither blocks nor a cancelled context need
ever come. `LoadIssuer` assumes that goroutines are scheduled and
that the timer of `Execute` fires. `TxNotify` assumes that time passes, that the node
reads its connection and that blocks, empty ones if need be, are accepted at the
current time; neither the client nor the inclusion of a transaction is fair.

## Proofs

TLAPS proves the following for every value of the constants: any sets of
accounts and markets, any word size of at least 2, any amounts, prices, times
and texts, batches and blocks of any length, lists of allocations of any length,
any number of issuers, calls and commands.

| Module | Theorems (the property each states) |
|---|---|
| `Markets_proofs` | `TypeCorrect` (`TypeOK`), `MarketKeysCorrect` (`MarketUnderItsKey`), `SharesNeedMarket` (`SharesHaveMarket`), `FailureCause` (`FailsOnlyOnZeroShares`), `TotalsSafe` (`SharesMatchTotals`), `ReissueSafe` (`TotalsDriftOnlyOnReissue`), `BalancesFall` (`BalancesNeverGrow`), `ClosedStaysFrozen` (`ClosedMarketsFrozen`), `PurchasesAreWhole` (`WholePurchases`) |
| `TxExecution_proofs` | `TypeSafe` (`TypeOK`), `ServedSafe` (`ServedExactly`), `BalancesSafe` (`BalancesAccounted`), `FailureSafe` (`FailureKeepsFeeOnly`), `FeesSafe` (`FeesChargeable`), `ProgressSafe` (`NeverDeadlocked`), `Isolation` (`TasksIsolated`), `TotalsFollow` (`TotalsFollowHoldings`), `Serialises` (`SerialExecution`) |
| `Verification_proofs` | `ReplicasSafe` (`ReplicasAgree`), `BlocksSafe` (`BuiltBlocksVerify`) |
| `GenesisInit_proofs` | `TypeSafe` (`TypeOK`), `AllocationsSafe` (`AllocationsAddUp`), `SupplySafe` (`SupplyIsExact`), `FailureSafe` (`FailureExplained`) |
| `LoadIssuer_proofs` | `FeesSafe` (`FeesCovered`) |
| `Wire_proofs` | `ParsedSafe` (`ParsedAsBuyYes`), `AcceptedSafe` (`AcceptedExactly`), `PanicSafe` (`PanicsOnlyOnUnstorable`) |
| `Cli_proofs` | `ListenersSafe` (`ListenersExpire`), `ReportsSafe` (`ReportedResultsAreTrue`), `ExpirySafe` (`ExpiriesAreFinal`), `DefaultKeySafe` (`DefaultKeyStored`), `DefaultChainSafe` (`DefaultChainServed`) |

`Ledger_proofs` holds what several of them need: wrap-around arithmetic
(`WrapDifference`, `WrapSum`, `WrapPace`), disjointness and injectivity of the key families,
what a single write does to a store (`Puts`, a pointwise description of
`EXCEPT`), sums over finite sets and of holdings, what a transaction may read
and write and what it does to totals and holdings, and the order of the
executor's queue. `Markets_proofs`, `GenesisInit_proofs` and `Wire_proofs` extend
it for the first half; the constants of `Transactions` that come along play no
part in their theorems.

### Induction

The provers cannot instantiate the induction theorems of the library. Facts
about recursive functions are proved by a least counterexample instead:
`LeastNat` (a set of naturals has a least element) and `MinimalSubset` (a set of
subsets of a finite set has a minimal one) follow from the library's theorems on
well-founded relations, and every induction is the choice of a least element of
the set of counterexamples and a smaller one derived from it. `RunsUnfold` shows
in this way that the recursive function `Runs` exists and unfolds, `SumExists`
the same of the sums of the community modules' `MapThenSumSet`, and
`SumMoves`, `SumRemove` and `SumGrows` how such a sum changes with a summand or
with the set. `RunsInStep` follows a transaction's purchases one by one, and
`HornerExists`, `WeightUnfold` and `UnpackPacked` the bytes of a word.

### The inductive invariants

`Markets`. Typing, `MarketUnderItsKey`, `SharesHaveMarket`, `MarketsFit` (every
stored market is within the writer's limit) and `FailsOnlyOnZeroShares` are
inductive only together (`IInv`): the market that a purchase writes back goes to
the key of *its own* ID, so typing and `SharesHaveMarket` need
`MarketUnderItsKey`, and that the write-back cannot fail needs `MarketsFit`. `StepEffect` reduces every step to one of four effects
on the store: a whole purchase, a debit alone, a created market, nothing.
Invariants and action properties follow from the effects without looking at the
actions again. `SharesMatchTotals` is inductive over `IInv`: a purchase adds the
same amount to one holding and to the total, and `WrapSum` says that wrapping
term by term and wrapping the sum agree; a new market has no holders by
`SharesHaveMarket`. `ReissueSafe` needs no more than the effects: a purchase
moves total and holding alike from wherever they are (`WrapPace`).

`TxExecution`. `IInv` says of a task that has been charged (`ActingInv`) that
its view is the one that its transaction's actions would have led to had the
transaction run *alone, from the state as it is now*, and that it has only
changed what it declared. That the state moves under a running task without
breaking this is the heart of the proof: `Ordered` says that whatever conflicts
with a started task and was queued before it has finished, `Dependencies` does
not miss a conflict (`DependenciesSettle` follows the chain of waits from a task
through the nodes and readers of a key), and `EffectsLocal` says that a
transaction computes the same from two states that agree on what it may read. A
commit writes only declared keys, so a concurrent view keeps everything its
transaction can see (`Isolation`). `Serialises` is then the step simulation: a
`Commit` is an `Include` of `SerialLedger`, because the view that is merged is
what the transaction would have left at that moment; `Start` when it drops,
`Abandon` and `Skip` are `Omit`; the other steps stutter.

`ServedExactly` is a part of `IInv`: `PreExecuteExactly` says that a
queued transaction passes `PreExecute` if and only if nothing bars it and its
sponsor's balance covers the fee, because one action is enough to declare the
balance record and only a `CreateMarket` makes a key malformed; what is found in
`PreExecute` stays true because no conflicting task commits before this one ends,
and a balance that was too small does not grow.

Three more results follow from `IInv`. `FeesSafe`: a task between `PreExecute`
and `Execute` has an untouched view, and `TaskInv` keeps `CanDeduct` true of the
state as it is now. `ProgressSafe`: the least unfinished task of the queue waits
for finished ones only. `TotalsFollow` needs `Filed` besides, that every market
is stored under its own ID, because a purchase writes back to the ID that the
record holds: a commit takes the state to what its transaction alone would have
made of it (`CommitIncludes`), and every purchase of a lone transaction raises
total and holding alike (`AttemptInStep`, `RunsInStep`, `EffectsInStep`). A
fixture may start with totals that differ from the holdings, so the property
compares differences, modulo the word (`WrapPace`).

`Verification`. `IInv` says that there is a history `h` of the builder's states,
one after each transaction of the block, and that the verifier has under every
key what `h` had after those writers of the key that have been executed, which
are the first ones (`FollowsAt`); what has been executed is closed under
conflicts (`Settled`). A verifier's task then reads what the builder's task read
(`ReadsTheSame`), so it can pay and does the same. With nothing pending, every
key has its last value.

`GenesisInit`. An account's record is the wrapped sum of its entries *so far*,
`DefaultGenesis`' supply the sum of all entries so far and also of all balances
(`IInv`). No balance wraps because none exceeds the supply, which is checked.

`LoadIssuer`. `FeesCovered` misses the transaction that has been generated and
not issued: `Budget` adds its fee, and the invariant is that fees in flight, in
hand and the balance left never exceed the funds.

`Wire`. `WireInv` says of each phase how far the transaction has come: what is
on the wire is the packed actions, what was parsed is what the parser makes of
them, and a panic or a rejection has its cause. The rest is about words:
`UnpackPacked` says that `UnpackLong` reads at an offset the word that
`PackLong` has put there, for any base and length, because the value of the
bytes read so far is the word divided by the weight of the next one.
`BuyBytesLayout` places the three words of a purchase, and `FirstByte` makes the
byte that the parser takes for a type ID the top byte of the market's ID.

`TxNotify`. The messages under way must be true already (`NotesTrue`): a result
is that of a block and an expiry that of a transaction whose time has passed.

`CliStore`. A pending write of a default comes after the write of what it refers
to (`KeyFirst`, `ChainFirst`), so a command may be cut off anywhere, and no write
behind it deletes an endpoint. A command that restores the endpoints ends with
such a write of the default chain (`Serves`, `ServedBy`), so the endpoints are
back when it is done.

### Assumptions

`AddrAssumption` (addresses are finitely many), `WordAssumption`,
`MarketIDAssumption`, `NotFoundAssumption` (`Storage`); `TimeAssumption`,
`TextAssumption`, `TradeAssumption`, `GenesisAssumption`, `SeedsAssumption`
(`Actions`): the last says that a market put into the state before the first
action is under its key, fits the size limit and has no shares;
`FeeAssumption` (a fee is a positive uint64), `HoldingsAssumption`,
`AddrTailAssumption`, `RulesAssumption` (the limits of the chain's rules are
naturals and the divisor is positive), `BatchesAssumption` (a batch is a sequence of transactions
that hold uint64 amounts) (`Transactions`); `KeptAssumption` (`TxExecution`),
`BlockAssumption` (`Verification`), `AllocationsAssumption` (`GenesisInit`),
`WireAssumption` (a byte has a value for each type ID, a word is `LongLen` bytes
and a market's ID fits into one, as its 8 bytes do in the code), `LoadAssumption`,
`NotifyAssumption`, `NoneAssumption` and `RpcAssumption`
(endpoints are finitely many, `CliStore`). TLC evaluates all of them.

### Only model-checked

- `BatchesFinish`, `BurstEnds` and `ListenersAnswered`: liveness, which is out of
  the prover's reach. `ProgressSafe` proves the safety part of the first.
- The three findings, which are refutations.

## Not modelled

- `NewFactory`, `option.go`: start-up. `NewFactory` does not use `With`, so the
  shipped node serves no `/predictionapi`; `BalanceRpc` has the failing request.
- Command-line flags, the genesis file, Prometheus, `chain info`, `chain watch`,
  printing, the node's `main`: input and output.
- `AddShares`, `DeductShares`, `AddressFromKey`, `EnsureActorHasBalance`,
  `UnmarshalCreateMarket`, `BuyNo.Unmarshal`: nothing in the repository calls
  them.
- The client's cached genesis: a constant of the chain, fetched once.
- Networking, consensus, signatures, the replay window, state sync and fee
  arithmetic of hypersdk; errors of `GenerateTransaction`, which depend on
  constants only.

## Plan

Done in this order: `Storage`, `Actions`, `Markets` with its proofs,
`TxExecution`, `GenesisInit`, `BalanceRpc`; `SerialLedger` and the refinement,
`Wire`, `LoadIssuer`, `TxNotify`, `CliStore`, `Verification`; the proofs of
`CliStore`, `LoadIssuer`, `TxNotify`, `TxExecution` with its refinement,
`Verification`, the totals of `Markets`, and `GenesisInit`.

Then `TotalsFollowHoldings`, `FeesChargeable` and `NeverDeadlocked` of
`TxExecution` with their proofs, and the proofs of `Wire`. Every invariant and
every action property that a passing run checks is now a theorem.

Next: actions that resolve a market and pay out, once the repository has them;
a theorem that ties `Verification` to `SerialLedger` (the builder's history is
one of its behaviours).
