# Pocketdex in TLA+

Pocketdex indexes the Pocket Network (a Cosmos chain) into Postgres with
SubQuery. SubQuery calls one handler per finalized block
(`src/src/mappings/handlers.ts` → `indexingHandler` in
`src/src/mappings/indexer.manager.ts`); everything the index knows is written
by that call. These modules model the parts of it that decide what a reader of
the index sees, check them with TLC and prove the core results with TLAPS.

## 1. The system

### What runs and what may go wrong

One process, one block at a time. SubQuery opens one Postgres transaction per
block, calls the handler, and commits the transaction together with the height
it records. If the handler throws, the process exits and is started again
(`restartPolicy: Always`), and the same block is attempted anew. The deployment
runs with `--enable-cache=false` (`src/tilt/apps/indexer/base/deployment.yaml`),
so `Entity.get`, `save` and `getByFields` go to the database inside the block
transaction. Tables are historical: a row has a range of heights
(`_block_range`), a change closes the old range and inserts a new row.

Three things make this hard, and they are what the modules are about.

1. *Not everything is in the block transaction.* `optimizedBulkCreate` and
   `rawBulkInsert` (`utils/db.ts`) write in transactions of their own, many in
   parallel. Their rows survive a failed attempt, and the next attempt of the
   same block has to cope with them.
2. *Handlers of a block run concurrently.* `Promise.all` in `_indexingHandler`
   starts the domains together, and inside a domain `indexStakeEntity` runs the
   data of unrelated entities together. They share tables.
3. *Rows are derived.* Stakes, statuses and balances are computed from the
   previous row plus a message or an event. An error stays until something
   reads the true state (the reconciles do, for some entities).

### Components

| component | state it keeps | operations | interacts with |
|---|---|---|---|
| block handler (`indexer.manager.ts`) | none across blocks | stages of `_indexingHandler` | all |
| balance history (`bank/balanceChange.ts`) | `Balance`, `Account` | `updateBalances`, `enforceAccountsExists` | module accounts and genesis write the same rows earlier in the block |
| module accounts (`bank/moduleAccounts.ts`) | `Balance`, `ModuleAccount` | `handleModuleAccounts` | cleanup of `updateBalances` |
| genesis (`primitives/genesis.ts`) | nearly every table, block 1 | `handleGenesis` | the handlers of block 1 |
| bulk inserts (`utils/db.ts`) | any table | `optimizedBulkCreate`, `rawBulkInsert` | every caller of the same table |
| stake scheduler (`indexer.manager.ts`) | none | `indexStakeEntity`, `groupConnectedComponents` | applications, gateways |
| applications (`pocket/applications.ts`) | `Application`, `ApplicationService`, `ApplicationGateway` | ten handlers, `reconcileApplications` | chain queries; gateways through `ApplicationGateway` |
| gateways (`pocket/gateways.ts`) | `Gateway`, `ApplicationGateway` | five handlers | applications |
| validators (`pocket/validator.ts`) | `Validator`, the set `reportedMissingFromChain` | `handleValidatorMsgCreate`, `reconcileValidators` | chain queries |
| suppliers (`pocket/suppliers.ts`) | `Supplier`, `SupplierServiceConfig` | `indexSupplier`, seven handlers | bulk inserts |
| settlement (`pocket/relays.ts`) | claims, proofs, `mod_to_acct_transfers` | handlers of relays | bulk inserts |
| supply (`bank/supply.ts`) | `Supply`, `BlockSupply`, `SupplyDenom` | `handleSupply` | SQL functions of supply |
| Morse migration (`authz/exec.ts`, `pocket/migration.ts`) | `MorseClaimableAccount`, its messages | import, recovery, claims | three handlers of other domains mark accounts claimed |
| parameters (`pocket/params.ts`) | `Param` | `_handleUpdateParam` | generated codecs; settlement reads `mint_ratio` |
| transfers, authz grants, services | one or two tables each | one handler each | bulk inserts |
| primitives (`primitives/*.ts`) | `Block`, `Transaction`, `Message`, `Event` | `indexPrimitives` | bulk inserts |
| queries, retry, pagination (`utils/`) | connections | reads of chain and database | all |
| generated clients (`src/src/client`) | none | a codec per message | queries, messages of transactions |
| SQL functions (`dbFunctions/`, `reports.ts`) | reports | aggregation in SQL | read the tables of all handlers |

What makes each correct: a reader sees for every indexed height what the chain
had at it (balances, rows of a block, suppliers, applications, gateways,
validators); nothing a failed attempt left behind changes that; data of one
entity are applied once, in the chain's order; no handler can fail a block for
ever.

## 2. Modules

| module | models | state ↔ code |
|---|---|---|
| `ChainMirror` | the promise: the index is an append-only exact copy of a prefix of the chain | — |
| `Balances` | `_indexingHandler`'s stages for balances, `handleModuleAccounts`, genesis balances, `updateBalances`, `enforceAccountsExists`, commit, failure | `db`/`view`: `Balance` as committed and as the block transaction sees it; `pending`, `toEnforce`: batches not yet inserted; `found`: `currentBalancesMap`; `pc`: the `await` the handler is at |
| `MCBalances` | values for TLC | — |
| `BalancesProofs` | theorems about `Balances`, the refinement of `ChainMirror` among them | — |
| `BulkInsert` | one table filled by `optimizedBulkCreate` / `rawBulkInsert` | `table`: committed rows; `left`: documents not yet inserted; `callStage`: where each call is |
| `StakeEntity` | `indexStakeEntity`, `groupConnectedComponents` | `block`: the data with their ids and the attribute these are in; `status`: whether a handler has not started, runs, is done; `progress`: grouping, running the handlers, thrown or returned |
| `Applications` | the application handlers and `reconcileApplications` | `apps`, `appServices`, `appGateways`: current rows; `data`: what the block has still to handle |
| `ApplicationsProofs` | theorems about it, and about the scheduler it relies on (`StakeEntity`) | — |
| `Delegations` | the gateway handlers and the application handlers that touch `ApplicationGateway`, interleaved | `undelegates`, `moving`: what a handler has read and not yet written |
| `DelegationsProofs` | theorems about it | — |
| `Validators` | `handleValidatorMsgCreate`, `reconcileValidators` | `reported`: `reportedMissingFromChain`; `db`/`view` as above |
| `Suppliers` | `indexSupplier` and its handlers | `record`: the `Record` of the function; `toClose`: `suppliersToClose`, `servicesToClose`; `dropped`: what the statements of the transaction deleted or closed; the two tables as committed |
| `SuppliersProofs` | theorems about it | — |
| `Settlement` | `handleMsgCreateClaim`, `handleEventClaimSettled`, `handleEventSettlementBatch`, and `indexParams` before them | `chain`: the events as emitted; `cached`: `Param` as the block transaction sees it; `pending`: handlers and bulk inserts the block waits for; `created`, `settled`, `transfers`, `summary`: the four tables |
| `MCSettlement` | values for TLC | — |
| `SettlementProofs` | theorems about it | — |
| `Supply` | `handleSupply`, `fetchPaginatedRecords` | `supplies`, `blockSupplies`, `supplyDenoms`: the three tables |
| `Migration` | `handleAuthzExec`, the claims, `dbFunctions/supply.ts`; extends `Supply` | `morse`, `msgClaims`, `msgRecovers`: the tables |
| `Reports` | `handleAddBlockReports` and the SQL it calls | `supplierRows`, `configs`, `settledRows`: what it reads; `blockReports`, `byService`, `dailyRewards`: what it writes |
| `BlockPipeline` | `_indexingHandler` from supply to reports; extends `Migration` and `Reports` | `stage`, `running`: the stage and the handlers `Promise.all` waits for |
| `PipelineProofs` | theorems about `BlockPipeline`, and about `Validators` | — |
| `Sums` | lemmas about sums over finite sets, on which `PipelineProofs` and `SettlementProofs` rest | — |
| `Genesis` | `handleGenesis` and the first block after it | `pending`: bulk inserts not returned; `tables`: what they left; `entities`: rows of the block transaction |
| `GenesisProofs` | theorems about it, and about the bulk inserts it relies on (`BulkInsert`) | — |
| `Schema` | how the field of a message is written down | — |
| `BaseTypes`, `CometTypes`, `CometAbci`, `CosmosAccounts`, `CosmosStaking`, `CosmosTx`, `CosmosGovernance`, `PocketShared`, `PocketStaking`, `PocketSession`, `PocketProof`, `PocketService`, `PocketMigration`, `PocketTokenomics` | the 769 messages of these packages, and their enumerations | a message is the sequence of its fields; the request and the response of a call stand in one row |
| `Wire` | the code `ts_proto` writes: createBase, encode, decode, fromJSON, toJSON, fromPartial | — |
| `Rpc` | requests at a height, `allValidators`, `allApplications` | `call`: the request the client is at; `members`: the chain |
| `ParamUpdates` | `_handleUpdateParam`, `saveParams` of genesis | `rows`: `Param`; `block`: messages of the block |
| `MCClients` | the three uses of the clients: one message, a list, parameters; the catalogue of messages | `work`: which of the three |
| `MCInserts` | the bulk inserts of any blocks, or those of the genesis file | `work`: which of the two |
| `MCBlockPipeline` | values for TLC | — |

`ChainMirror` is instantiated by `Balances` (`UserBalancesMirrorChain`) and by
`BulkInsert` (`RowsMirrorChain`) with refinement mappings that say what a
reader sees; both are checked as properties and proved. Operators
whose comment begins with "Mutant" are wrong versions of the operator that
follows them. They are used nowhere; substituting one shows that the property
it is listed with in `PROJECT.json` can fail.

### How the code maps to actions

*Balances.* An action per `await`: the module balances (`HandleModuleAccounts`),
genesis in block 1 (`HandleGenesis`), the delete-and-reopen at the start of
`updateBalances` (`Cleanup`), the query of current balances (`Read`), the update
that closes ranges (`Close`), each batch (`InsertBatch`), each account
(`EnforceAccounts`), `Commit`, and `Crash` between any two of them. `Crash`
rolls the view back and keeps what the batches inserted.

*BulkInsert.* `DeleteRows`, then `InsertBatch` for any subset of what is left: the
batches run in parallel and commit one by one. The constants choose the kind of
call: `RemoveBy` FALSE is `'omit'`, `Keyed` is `rawBulkInsert`, `Shared` lets two
calls of a block write the table.

*StakeEntity.* `Group` forms the groups, or `Throw` stops the block because an event
has no attribute the scheduler looks for (`HasId`), and `Retry` starts it anew. Then
`Start` and `Finish` of each handler, with `Before` for the order within a group and
`Together` for groups, and `Return`; any block of up to `MaxBlock` data, in both forms
of the unbonding events, is an initial state.

*Applications, Delegations.* A handler is an action that takes the head of the
block's data. In `Applications` each handler is atomic, because `StakeEntity`
shows that handlers of one entity do not overlap. In `Delegations` the handlers
that read rows and write later are split at the `await`, because a row of
`ApplicationGateway` belongs to two entities that are scheduled apart. The
statements that replace the service rows of an application are abstracted to
their result.

*Validators.* `ReconcileValidators` is a good read, `ReconcilePartial` one that
leaves validators out, `ReadFailed` the caught exception. `unread` and `failed`
are history variables the properties need; no action reads them.

*Suppliers.* `FetchSupplierData`, an action per handler, `DeleteAndClose` (the
statements of the block transaction), `SaveSuppliers` and `SaveServices` (the
inserts outside it), `Commit`, `Crash`. A query over several rows in force for an
id returns any one of them (`Readings`), which only happens after a failed
attempt. The chain that feeds it has begin-block events first; the handler, as
in the code, sees them last.

*Settlement.* A handler is an action that turns the block's events into rows,
as in the code up to its last `await`, and each bulk insert is another. The
chain's blocks carry the events in one of three forms, oldest first: the whole
settlement result; a total for each address, from which the indexer derives the
settled amount (overserviced events), the minted one (`Param`) and the
inflation (what is left, halved); and the detailed form. A claim that gives a
negative inflation makes the handler throw at every attempt: the action has
`~Throws` as its guard and the block waits for ever, which `EveryBlockIndexed`
rules out. Amounts are integers and the ratio is counted in halves, so that
truncation happens.

*BlockPipeline.* An action per stage (`IndexPrimitives`, `IndexParams`,
`GenerateReports`, `Commit`) and one per handler of the concurrent stage, in any
order. `Supply`, `Migration` and `Reports` give each stage an operator over their
own tables. What `indexSupplier` writes is taken from `Suppliers`. Everything is
in the block transaction here, so a failed attempt leaves nothing and is not
modelled. The reports are SQL: each function is an operator over the historical
rows (`lo`, `hi` for `_block_range`). `RegenerateReports` is
`update_block_reports_range`, which an operator may call at any time for blocks
long indexed. The SQL functions of supply have no state and are evaluated in
every state between two blocks.

*Genesis.* `HandleGenesis` starts the inserts of the concurrent handlers,
`SaveCollected` those of the transactions and messages they collected,
`HandleTransactions` and `HandleMessages` the same for the block's own.
`OptimizedBulkCreate` is one insert returning, in any order; `Crash` keeps what
was inserted and starts over.

*Wire and the tables of messages.* A codec generated by `ts_proto` is a fixed
text for each field, which depends on the field's type and label. `Schema` has a
constructor for each of these texts, `Wire` what the texts do, and the fourteen
table modules one definition per message: the sequence of its fields, in the
order of the codec. The tables were generated from the codecs, not from the
`.proto` files, and all six functions of each codec were compared with the text
its fields should give. A definition stands for a whole codec, hence the many
lines few definitions stand for. A node is not this client: it sends
its fields in another order, numbers of a list one by one, fields a later version
has. Eight messages under `src/proto` have fields the clients do not know.

*Rpc and ParamUpdates.* `ReadPage` is one turn of the loop with its request and
its answer encoded and decoded by `Wire`; `ChainMoves` is a block committed
between two pages. `IndexBlock` decodes each message, turns it into JSON and
takes parameters from the keys of that JSON, as the code does.

The chain is external throughout. Each module has the part of it that decides
which data a block can bring: an application cannot finish unbonding in the
block it began, a staked validator leaves the set through unbonding, a session
activates services before the transactions of a block.

## 3. What is checked

| run | shows | bounds |
|---|---|---|
| `balances` | every row in force at an indexed height has the chain's amount; one version in force; no balance without account; refinement of `ChainMirror`; every block is indexed | 2 users, 1 module account, amounts 0–1, 3 blocks, 1 failure |
| `inserts` | exactly one row per document for each indexed block; refinement; from the genesis file, a validator once with its own transaction and message, each made up message with its transaction, rows of the last attempt alone | 2 documents, 2 callers, 3 blocks, 2 failures; 2 services, 1 supplier, 2 applications, 1 gateway, 2 validators, 18 files, 1 failure |
| `stake_entity` | no overlap on an entity, and chain order, in blocks that are handled and in those that throw | 3 entities, 2 transactions, all blocks of up to 3 data |
| `applications` | rows match the chain after every block; unbonded applications are closed; every block is indexed | 2 applications, 2 services, 1 gateway, stake ≤ 2, 2 data per block, 6 chain operations |
| `validators` | listed validators in step; matured ones closed; no staked row wiped; giving up on a read is made up for | 2 validators, tokens 0–1; failures and reads unbounded |
| `delegations` | delegations and gateway rows match the chain under every interleaving; every block is indexed | 2 applications, 2 gateways, stake ≤ 2, 3 data per block, 6 operations |
| `suppliers` | one row per supplier and service with the chain's contents, with failures between the statements; every block is indexed | 1 supplier, 2 services, stake ≤ 2, 2 data per block, 4 blocks, 1 failure |
| `settlement` | settled, minted, burnt and lost amounts, transfers and their summary are the chain's in every form of the events, with a mint ratio that changes in the same block and failed attempts; each message gets its own claim's amounts; every block is indexed | 2 pairs, 2 services, 3 kinds of claim, 3 reward events, 2 data in all, 2 blocks, 1 failure |
| `pipeline` | supply by denomination and height; total supply with what is unmigrated, asked at any later time; Morse accounts and their messages; reports by block, by service and by day, also when computed again | 2 denominations, 3 Morse accounts, 2 suppliers, 2 services, 2 domains, days of 2 blocks, 4 changes in 4 blocks |
| `clients` | each message read as sent by four kinds of nodes, or refused; JSON and back; lists of one height; parameters as on chain | 769 messages, each field and all fields at 4 extents, embedded messages to depth 1; lists of 0–4 in pages of 2, 2 heights, 1 failure; 2 updates of any parameter |
| `settlement_mixed` | **violated**: settling claims and rewarding validators in one block loses transfers | 1 block |
| `stake_forms` | **violated**: an unbonding event with the address alone is never handled | 2 entities, 1 transaction, blocks of up to 2 data |

*Why the bounds suffice.* Errors of histories need three heights: one to
create a version, one to replace it, one to see the older ones disturbed. One
failure between any two statements already leaves every combination of committed
and lost statements; two are used where they are cheap. Entities interact in
pairs, and three in `StakeEntity` make a chain of groups that connect through a
third. Six operations contain stake, transfer, unbonding, end and a restake.
`Suppliers` has one supplier since suppliers share nothing but the statements;
four blocks hold stake, activation, unbonding and its end with a restake.
`Settlement` bounds the data of both blocks together (`MaxData`): claims meet in
pairs, either in one block or with an update of the ratio between them.
In `pipeline` a change is an import, a payment, a supplier operation, a settled
claim or a new supply; four hold an import with claims before and after
another account's, or a stake, a claim, a restake with another domain and a second
claim in the same day. In `clients` fields are independent but for oneofs, so one
at a time and all at once suffice; `MaxSafe`, `MsPerSecond` and `NanosPerMs` are
small so that the numbers beyond them are too. `inserts` combines three lists of
gen_txs with three of exported validators, among them both with one validator.

*Conditions in passing runs.* Some passing runs exclude a case that is known to
fail; each is a constant, so the excluded case can be run by changing it.
`GenesisTxs = FALSE` (`balances`): block 1 with bank events loses the genesis
rows to the cleanup. `Shared = FALSE` and `RemoveBy = TRUE` (`inserts`): two calls of one block
for one table delete each other's rows. `Mixed = FALSE` (`settlement`): the same
between settlements and rewards, shown by `settlement_mixed`. `Repeats = FALSE`
(`settlement`): a block settles one claim of an application and a supplier at
most; with two, `EffectiveBurn` takes the last overserviced event for both. The claims
one transaction creates differ in the pair or the service (`Creatable`): the search for
the event of a message does not compare sessions (`pocket/relays.ts:433`), so that claims
of one supplier for two sessions of an application and a service would both take the
first event.
`EndTogether = FALSE` (`delegations`): a gateway finishing its unbonding in the
block a transfer ends races with it, and the transfer may recreate a delegation
the gateway's handler did not read. `RetryRelative = FALSE` (`suppliers`): an
attempt does not fail after its inserts in a block with relative changes.
`Restakes = FALSE` (`suppliers`): a supplier does not stake in the block its
services are activated; with it, two rows of a service stay in force.
`pipeline` has six: `PageLimit = 2` holds all denominations in a page (with 1 and a
denomination that vanishes `SupplyMatchesChain` fails); `ImportWithRecovery` (the
import and a recovery in one block, in either order: `MorseMatchesChain` and
`TotalSupplyConserved`); `Delegated` (a claim inside a MsgExec, which no handler
looks for: `TotalSupplyConserved`); `Batched` (several claims or recoveries in one
transaction: `MorseMatchesChain`); `SlashAtEnd` (a slash in the block an unbonding
ends: `ReportsMatchChain`) and `LateClaims` (a claim that settles in the block its
service is given up: `DailyRewardsMatchChain`), all FALSE. `BusyFirstBlock = FALSE`
(`inserts`): a transaction in the first block deletes those of genesis. In
`clients`, `omitted` holds the parameters with no row of their own: those
`MsgUpdateParams` sets to a default, which `toJSON` leaves out, and those of
migration, which genesis does not save.

*Conditions in properties.* `TotalSupplyConserved` asks the function of one day only
while some Morse account is unclaimed: it adds a SUM that is NULL otherwise
(`dbFunctions/supply.ts:55`). `DailyRewardsMatchChain` counts suppliers at least:
the function takes a supplier that was staked and had the domain in the day, not at
one time. `RowsOfOneAttempt` asks for the services of stakes once or more. `BlocksAreIndexed`
is about the rows handlers look for; that the scheduler throws before is `stake_forms`. `ReadAsSent` and
`MessagesSurvive` encode and decode with one table, and so are about `Wire`: what it does
with any field of the catalogue. That the fields of a table are those of the chain, with
their numbers, is not checked by a run (section 2 says what they were compared with).

*Properties no run checks.* `TypeOK` of `Balances`, `BulkInsert`, `Applications` and `Delegations` is proved; the others'
are stated for readers and provers. `ModuleBalancesTracked` (`Balances`) and
`TransferredAreClosed` (`Applications`) do not hold of the code; see section 5.

*Deadlock.* `balances`, `inserts`, `applications`, `delegations`,
`suppliers`, `settlement`, `pipeline`, `clients` stop where the bounded chain stops and `stake_entity` where the call
returns (its last step is the return), so their cfgs say `CHECK_DEADLOCK FALSE`
where that happens (`stake_forms` too); `validators` runs for ever and is checked for deadlock.

*Fairness.* `WF_vars` of the handler: the process is restarted always and the
event loop resumes every resolved `await`. Nothing is assumed of the chain or of
failures, except that failed attempts are bounded where blocks must be indexed.
`validators` has strong fairness of the good read, `SF_vars(ReconcileValidators)`:
reads may fail again and again but not for ever; `GivingUpIsSafe` needs no less,
as reads that always fail never repair anything. `SF_vars` of the create handler
says the same of attempts. `stake_forms` has `WF_scheduleVars(ScheduleNext)`: a handler
that can be called is, one that runs returns, and a block that threw is tried again.

## 4. What is proved

For every value of the constants the assumptions allow; no proof uses a bound.
The listed theorems, with the invariants and hypotheses they need:

* `BalancesProofs!TypeCorrect`, `HistoryCorrect` — `[]TypeOK`, and `[]HistoryExact` if
  block 1 has no bank events (`~GenesisTxs`). Amounts of the rows in force are exact
  at every indexed height. The invariant is not inductive: rows of a failed attempt,
  and rows the current one has closed but not replaced, are wrong until the commit.
  The strengthening relates `db` to `view` and says, stage by stage, which rows
  start or end at the block being indexed, what `found` and `pending` stand for,
  and that all rows that end before the block are already exact. Then each
  statement is seen to touch rows of the current block only.
* `VersionsCorrect` (`OneVersionInForce`), `AccountsExist` (`BalanceHasAccount`) — with
  no hypothesis. `RowsInv`: of an account at most one row is open in `view`, closed
  rows are apart, and a row that a batch will insert has nothing open before it.
  `AccountsInv`: an account a balance refers to is stored, or is in `toEnforce`, which
  the commit waits for.
* `BalancesMirrorChain` — `Spec /\ ~GenesisTxs` implements `ChainMirror` under the
  reader's mapping: only `Produce` and `Commit` change what a reader sees, by one
  block each.
* `GenesisProofs!BulkTypeCorrect`, `RowsCorrect`, `BulkRowsMirrorChain` — with one
  call per table and a delete first (`RemoveBy /\ ~Shared`), `BlockRowsExact` holds for
  any number of failures and the table implements `ChainMirror`. The strengthening:
  rows of the block in the table, from this attempt, are those whose documents are
  not left, once the call has removed the old ones.
* `ApplicationsProofs!NoOverlap`, `OrderPerEntity` (about `StakeEntity`) — for every
  block, no two handlers of data with a common entity run together, and they start in
  the chain's order. The argument: a datum starts only when all data before it in its
  group are done, `Before` is a strict order on the group, and data that share
  an entity are in one group.
* `ApplicationsProofs!TypeCorrect`, `ListedCorrect`, `UnbondedCorrect` — no hypothesis.
  The handlers run behind the chain, whose store has moved to the end of the block
  when the first of them starts. `BehindInv` says that there is a store `s` the
  tables mirror from which the data that are left lead to the chain's, one datum
  at a time (`Path`). A chain operation makes the path longer at its end, a handler
  takes its first datum and moves `s`; when no data are left `s` is the chain's store,
  and the reconcile makes up for stake and status. Two more parts are needed for
  the applications that leave: every application that unbonds, but for those whose
  unbonding began in this block, is Unstaking in the index (`UnbondingKnown`), and
  nothing in the block changes that before its end is handled (`EndsKnown`). This is
  where `ChainUnbondingEnd`'s guard matters: an unbonding does not end in the block it began.
* `DelegationsProofs!TypeCorrect`, `GatewaysCorrect` — no hypothesis. A block has two
  sequences of data here, each handled in its order and the two in any. For gateways
  the path of `Applications` will do, as no handler of an application writes their rows.
* `DelegationsProofs!DelegationsCorrect` — if a block ends no unbonding of a gateway
  together with a transfer (`EndTogether = FALSE`). The rows mirror the start of the path
  of the application data, but for rows of applications that unbonded (`Follows`), and with
  the statements of a transfer that have run (`RowsWere`); the chain is at the end of the
  path less the gateways whose removal is still to be handled (`EndsAt`). When such a
  removal is handled, every store of the path loses the gateway (`PathWithout`), which is a
  path again because no datum left delegates to it (`ApartInv`): the chain ends an
  unbonding a block or more after the unstake, and takes no delegation in between. What a
  handler has read stays true until it writes for the same reason (`ReadInv`).
* `PipelineProofs!ListedCorrect`, `MaturedCorrect`, `WipedNever` — no hypothesis, for
  reads that fail or are partial as often as they like. The strengthening: a read
  that had a validator between the begin and the end of its unbonding moved its row to
  Unstaking, and no handler moves it back, in the rows committed nor in those of the
  attempt (`UnbondingInv`); a validator may be bonded in the block that created it, once,
  and not be unbonding there (`CreatedInv`).
* `SuppliersProofs!TypeCorrect` — no hypothesis. `SuppliersCorrect` — if no attempt computes
  from rows a failed one left (`RetryRelative = FALSE`), every supplier has the one row
  the chain's store calls for, after any number of failures between the statements.
  `StageInv`: a row of the block in a table was inserted by this attempt, which is to save
  it, or by one that failed; what the transaction drops is what it would drop if the
  inserts had not run. `LeftInv`: where a failed attempt left rows, the block's data say
  what a row is to be and not how it changes. `RowsInv`: the data lead from the rows of the
  last block to the chain's, one at a time (`Leads`), and what is known of a supplier is on
  that path, or, if a row that was left has been read instead, has already some of the
  end's contents (`Near`): at the end the two agree.
* `SuppliersProofs!ServicesCorrect` — if moreover no supplier stakes in the block its
  services are activated (`Restakes = FALSE`), the service rows are the chain's, each once.
  `ChainBlockInv` says what the data of a block tell of the chain: the last stake names
  the services, which are pending, and an activation is of what was there before it.
  `OldRight`: the rows of the last block are the services of whoever does not stake anew,
  not active yet if the block activates them. `LeftServices`: rows an attempt left are
  of suppliers that stake anew, since an activation is relative. `KnowsServices` follows
  the record: after the first stake all rows read are to be closed and the last one
  handled decides; an activation closes all it read and turns them on.
* `GenesisProofs!OneAttempt`, `MessagesLead`, `ValidatorsRight` — rows of one attempt for
  any file; the messages and validators if no file has transactions of its own in
  the first block (`Quiet`, which is `BusyFirstBlock = FALSE`). `ContentsInv`: an insert
  with a delete that has begun is pending, or its table is exactly its rows.
* `PipelineProofs!SupplyCorrect` — if all denominations fit in a page (`OnePage`), the
  `BlockSupply` of every indexed block leads to the chain's amount. `AmountsInv` and
  `KnownInv` relate the rows of the last block to the chain, and ids of new rows are
  those of later heights.
* `PipelineProofs!MorseCorrect` — if claims and recoveries come one in a transaction,
  outside MsgExec, and not with the import (`OneByOne`), accounts are claimed in the
  index exactly at the block that paid them. `PaymentsInv` says an account is paid
  once, after the import, so that the handlers of one block mark different accounts.
* `PipelineProofs!TotalCorrect` — under both and `IsFiniteSet(Morse)`, `TotalSupplyConserved`:
  what the SQL sums give for any indexed block and any later time. It needs that the
  amounts of a set and of its rest add up, which is induction on a finite set. The
  library's induction theorems cannot be instantiated, so the sum is characterised by the
  relation `SumsOf` of `Sums`, whose existence and laws (`SumsExist`, `SumPick`, `SumAdd`,
  `SumUnion`) are proved through a least counterexample in the well-founded order of subsets.
* `PipelineProofs!ReportsCorrect`, `ByServiceCorrect`, `DailyRewardsCorrect` — for finite
  sets of suppliers and services (`FewSuppliers`: a sum over them must exist); the first
  if no supplier is slashed in the block its unbonding ends (`SlashAtEnd = FALSE`), the
  last if no service is given up in the block a claim for it settles (`LateClaims =
  FALSE`). What a report says is computed from versions with ranges of heights, by SQL
  that asks for any past block, so the invariant is about every block, not the last one.
  `ReadInv`: at each block `indexSupplier` has written, the versions in force are the
  chain's suppliers and offers then, the ranges of one id are disjoint, a version begins
  where an operation was, and the claims are those settled. `ReportsInv`, `ByServiceInv`
  and `DailyInv` say that the rows of each reported block, or day, are what the chain
  would give for it; between the two stages `SuppliersDone` is a block ahead of
  `ReportsDone`. A day is computed anew by each of its blocks that settles claims and is
  left alone by the others (`DayRight`), so its suppliers are those up to the last
  settlement. Rows and chain objects are matched one to one (`Matched`), which gives
  equal cardinalities and sums (`MatchedSum`); `FoldIsSum` ties the folds the model
  is written with to the `SumsOf` the laws are about.
* `SettlementProofs!TypeCorrect`, `CreatedCorrect` — no hypothesis but what `Creatable` says
  of a transaction (section 3), from which a message finds its own event.
* `SettlementProofs!SettledCorrect`, `NeverThrows` — if no block settles two claims of one
  application and supplier (`Repeats = FALSE`). `ParamInv` relates what the handler reads
  to the chain: `param` is the ratio after the last indexed block, and `cached`, once the
  messages of a block are handled, the one that block settles with, in every attempt. From it
  follow, for the older forms, that what a claim pays is its mint and twice its inflation
  (the shares summed over their positions), so that halving what the mint leaves is exact
  and never negative; that the overserviced event found is the claim's own; and that
  dividing the units by those of a relay gives the relays back. `SettledInv` carries this
  to the table: the rows of a block are right from their insert on, whatever was there.
* `SettlementProofs!TransfersCorrect` — if no block both settles claims and rewards
  validators (`Mixed = FALSE`). `PaidInv` says that for each block the two tables hold
  nothing or exactly what its handlers compute, that all blocks indexed have the latter,
  and that a handler only writes where it has records, which in one block
  the two never both have (`OneKind`), so that neither deletes the other's.
  Then the sums: the transfers of a claim match its shares one to one
  (`MatchedSum`), those of a block are grouped by claim and those of a summary row by
  reason (`SumOfGroups`), and a count is a sum of ones (`SumConstant`).

The hypotheses are the constants the passing runs set: `~GenesisTxs`, `RemoveBy`,
`~Shared`, `EndTogether = FALSE`, `Quiet`, `OnePage`, `OneByOne`, `SlashAtEnd = FALSE`,
`LateClaims = FALSE`, `RetryRelative = FALSE`, `Restakes = FALSE`, `Repeats = FALSE` and
`Mixed = FALSE` each exclude a case that is known to fail (section 3), and none of them is
assumed by a theorem it is not named at above. The sets summed over (`Morse`, `FewSuppliers`,
`Rewards`) are finite, as those of a chain are. Of the other assumptions on constants,
`SettlementAssumption` is about the chain: no claim settles for more than it claims, none
that settles for nothing inflates, and rewards have ids of their own.

*Model-checked only.* Liveness and `BlocksAreIndexed` (under fairness, out of the
prover's reach), `EveryBlockIndexed` of `Settlement` among them, of which `NeverThrows` is
the safety part; the clients (`ReadAsSent`, `MessagesSurvive`, `ListedAtHeight`,
`ParamsMatchChain`), as `Wire` is recursive, like messages are.

## 5. What the models show

The second and the last have runs of their own (`settlement_mixed`, `stake_forms`). The
others are seen by checking the property named, or by setting the constant named in
section 3.

1. Module balances are tracked only in blocks without bank events of users:
   `updateBalances` takes rows saved in the same block for those of a failed
   attempt (`bank/balanceChange.ts:131-158`). The same holds for the genesis
   balances of block 1 (`ModuleBalancesTracked`, `GenesisTxs`).
2. A block that settles claims and rewards validators loses transfers: two
   handlers fill `mod_to_acct_transfers` and its summary at the same time, and
   each first deletes the block's rows (`indexer.manager.ts:207`,
   `utils/db.ts:290`). `optimizedBulkCreate(..., 'block_id')` has the same effect
   where a handler is called once per message (`pocket/applications.ts:823`,
   `894`); `BulkInsert` with `Shared = TRUE` shows it.
3. The source of a transfer stays Staked: the end handler leaves it to the
   reconcile, which refuses rows that are not Unstaking
   (`pocket/applications.ts:481`, `1031`; `TransferredAreClosed`).
4. A retried block applies a Morse claim, or an old-style slash, to the row its
   failed attempt inserted (`pocket/suppliers.ts:1087`, `1226`; `RetryRelative`).
5. Morse accounts: a recovery in the block of the import may be lost
   (`authz/exec.ts:188`); recoveries of one MsgExec, and imports, share one id
   (`authz/exec.ts:51`, `97`); a claim takes the amount of the last claim event of
   its transaction (`pocket/migration.ts:32`); claims sent through a MsgExec leave
   their account unclaimed (`authz/exec.ts:110`).
6. `get_total_supply_by_day` forgets what was unmigrated on earlier days once no
   account is unclaimed (`dbFunctions/supply.ts:55`).
7. The report of the block an unbonding ends returns the stake before a slash in
   that block (`dbFunctions/reports/suppliers.ts:103`); daily rewards lose claims
   for a service given up in the block that settles them (`dbFunctions/domainRewards.ts:65`).
8. Genesis: services share the transaction of the first (`primitives/genesis.ts:403`);
   the id of a delegation names its gateway only (`620`); a transaction in block 1
   deletes those made up; a retry doubles the services of stakes (`582`, `697`); the
   parameters of migration are not saved (`795`).
9. A parameter set to zero, false or an empty string by `MsgUpdateParams` keeps its
   row (`pocket/params.ts:99`).
10. A block with an unbonding event in the newer form, which has `application_address`
   or `gateway_address` and not the whole application or gateway, is retried for ever.
   The handlers accept both and call the other form older
   (`pocket/applications.ts:723-729`, `pocket/gateways.ts:164-170`); the scheduler looks
   for that one alone (`indexer.manager.ts:296`, `360`) and throws (`482`) before any
   handler is called. The clients generated from `src/proto` know the older form only.

Also visible in the models and listed under hazards: the service configurations
of an unbonded supplier are never closed, as none is read for
`EventSupplierUnbondingEnd` (`pocket/suppliers.ts:824`); `claimedAmount` of a
settled claim holds the amount settled, so that it less
`overservicingLossAmount` is not `settledAmount`
(`pocket/relays.ts:939`, against `proto/pocket/tokenomics/event.proto:180`); a validator removed while
UNBONDED keeps its stake in the index; unread unbondings leave a Staked row for
ever; a module account that is emptied keeps its last amount; a supplier that
falls below the minimum stake stays Staked while it unbonds.

## 6. What is not modelled

The events of claims and proofs that are copied row by row; transfers; grants;
services; the conversion of blocks, transactions, messages and events; of genesis,
its authorizations, supply and Morse accounts; of the SQL, the functions of
applications, gateways and validators, which are those of suppliers over other
tables, and the functions over balances and addresses, which only read; the
bytes of a number on the wire; the messages of packages no mapping reads
(`google.protobuf.descriptor`, `cosmos.distribution`, `cosmos.base.reflection`,
`cosmos.upgrade` and others; those of transactions, governance and groups are there,
as the messages and proposals of a transaction are decoded whatever they are). Parameters that governance sets at the end of a block, or that a MsgExec
inside a MsgExec carries, are outside of what the indexer sees and of
`ParamUpdates`. The handler of `EventGatewayUnstaked`, which a transaction of older
chains emitted (`pocket/gateways.ts:105`), is not an action of `Delegations`: it reads and
writes the two tables as the handler of `EventGatewayUnbondingEnd` does, but among the
messages of the block. In the modelled components: the rows kept per message and event
(they follow `BulkInsert`), the formats of event attributes (the modules start from
the ids they yield: `StakeEntity` knows whether there is one, and assumes that those
found are the entities the handler touches; the others that every event has an id), more than one denomination outside `Supply`.

## 7. Plan

Done: everything in section 2, in the order of what a wrong index would cost; theorems
for every module but the clients: all safety properties of `Balances`, `BulkInsert`,
`StakeEntity`, `Applications`, `Delegations`, `Validators`, `Suppliers`, `Settlement`,
`Genesis` and `BlockPipeline` that the runs check.

Next, ids in `StakeEntity` that are not those of the entities a handler touches
(`indexer.manager.ts:314`, `487`), `EventGatewayUnstaked` in `Delegations`, and the packages of section 6
as tables.
