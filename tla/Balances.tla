------------------------------ MODULE Balances ------------------------------
(***************************************************************************)
(* How one block reaches the Balance table.                                *)
(*                                                                         *)
(* The block handler runs inside one database transaction, the block       *)
(* transaction: handleModuleAccounts and the genesis handler write through *)
(* the store in it, and updateBalances deletes, reopens and closes rows in *)
(* it.  The new rows of updateBalances, and every Account row, are written *)
(* by optimizedBulkCreate instead, in transactions of their own that       *)
(* commit at once.  A failure anywhere rolls the block transaction back    *)
(* and the same block is indexed again from the start, over whatever the   *)
(* own transactions already made durable.                                  *)
(*                                                                         *)
(* Abstractions: one denomination, so a balance id is an account; a range  *)
(* [lo, hi) is a pair of heights with hi = Open for a current row; the     *)
(* _id of a row is the attempt that inserted it.                           *)
(***************************************************************************)
EXTENDS Integers, Sequences, FiniteSets

CONSTANTS Users,       \* accounts whose balance follows coin events
          Modules,     \* module accounts, whose balance is read from the chain
          Genesis,     \* Genesis[u]: balance of u in the genesis file
          Amounts,     \* balances the chain may hold
          GenesisTxs,  \* whether block 1 may carry coin events of users
          MaxHeight,   \* bound: blocks the chain produces
          MaxCrashes   \* bound: failed attempts

ASSUME BalancesAssumption ==
    /\ Users \cap Modules = {}
    /\ Amounts \subseteq Nat
    /\ Genesis \in [Users -> Amounts]
    /\ GenesisTxs \in BOOLEAN
    /\ MaxHeight \in Nat
    /\ MaxCrashes \in Nat

VARIABLES chain,      \* finalized blocks: the balances after each, and who had coin events
          height,     \* last block whose transaction committed
          crashes,    \* attempts that failed so far
          db,         \* committed rows of Balance
          view,       \* rows of Balance as the block transaction sees them
          accounts,   \* ids of the Account table, committed
          toEnforce,  \* accounts enforceAccountsExists has still to insert
          pending,    \* rows optimizedBulkCreate has still to insert
          found,      \* ids of currentBalancesMap
          pc          \* where the block handler is

vars == <<chain, height, crashes, db, view, accounts, toEnforce, pending, found, pc>>
txVars == <<view, toEnforce, pending, found, pc>>

Accounts == Users \cup Modules
Open == 0

Blocks == [bal : [Accounts -> Amounts], touched : SUBSET Users]
Rows == [id : Accounts, amount : Int, lo : Nat, hi : Nat, lastUpdatedBlockId : Nat, att : Nat]
Stages == {"idle", "modules", "genesis", "balances", "cleanup", "read", "close", "insert", "commit"}

TypeOK ==
    /\ chain \in Seq(Blocks)
    /\ height \in 0..Len(chain)
    /\ crashes \in Nat
    /\ db \subseteq Rows
    /\ view \subseteq Rows
    /\ accounts \subseteq Accounts
    /\ toEnforce \subseteq Accounts
    /\ pending \subseteq Rows
    /\ found \subseteq Users
    /\ pc \in Stages

-----------------------------------------------------------------------------
(* Rows and ranges *)

B == height + 1          \* the block being indexed
Block == chain[B]

Contains(r, h) == r.lo <= h /\ (r.hi = Open \/ h < r.hi)

RowsAt(S, id, h) == {r \in S : r.id = id /\ Contains(r, h)}

CloseAt(r, h) == [r EXCEPT !.hi = h]
Reopen(r) == [r EXCEPT !.hi = Open]

NewRow(id, amount) ==
    [id |-> id, amount |-> amount, lo |-> B, hi |-> Open,
     lastUpdatedBlockId |-> B, att |-> crashes]

\* store.save and store.bulkCreate with historical tracking: rows of the same
\* block are replaced, the current row is closed, the new row is inserted.
Save(S, new) ==
    LET ids == {r.id : r \in new}
        same == {r \in S : r.id \in ids /\ r.lo = B}
        current == {r \in S : r.id \in ids /\ r.lo # B /\ Contains(r, B)}
    IN  (S \ (same \cup current)) \cup {CloseAt(r, B) : r \in current} \cup new

-----------------------------------------------------------------------------
(* The chain (external): what the blocks the indexer fetches contain *)

BalanceAt(h, u) == IF h = 0 THEN Genesis[u] ELSE chain[h].bal[u]

\* A block changes the balances of users it has coin events for, and of
\* module accounts at will (their coin events are filtered out).
Produce ==
    /\ Len(chain) < MaxHeight
    /\ \E blk \in Blocks :
        /\ \A u \in Users \ blk.touched : blk.bal[u] = BalanceAt(Len(chain), u)
        /\ Len(chain) = 0 /\ ~GenesisTxs => blk.touched = {}
        /\ chain' = Append(chain, blk)
    /\ UNCHANGED <<height, crashes, db, accounts, txVars>>

-----------------------------------------------------------------------------
(* The block handler *)

Init ==
    /\ chain = <<>>
    /\ height = 0
    /\ crashes = 0
    /\ db = {} /\ view = {}
    /\ accounts = {} /\ toEnforce = {}
    /\ pending = {} /\ found = {}
    /\ pc = "idle"

\* SubQuery opens the block transaction and calls indexingHandler.
BeginBlock ==
    /\ pc = "idle"
    /\ height < Len(chain)
    /\ pc' = "modules"
    /\ UNCHANGED <<chain, height, crashes, db, view, accounts, toEnforce, pending, found>>

\* bank.allBalances lists only the denominations an account holds.
Listed == {m \in Modules : Block.bal[m] # 0}

Stale(m) == \A r \in RowsAt(view, m, B) : r.amount # Block.bal[m]

\* Every listed module balance that is new or different is saved, then the
\* accounts are enforced.
HandleModuleAccounts ==
    /\ pc = "modules"
    /\ view' = Save(view, {NewRow(m, Block.bal[m]) : m \in {m \in Listed : Stale(m)}})
    /\ toEnforce' = Modules
    /\ pc' = IF B = 1 THEN "genesis" ELSE "balances"
    /\ UNCHANGED <<chain, height, crashes, db, accounts, pending, found>>

\* _handleModuleAccounts and _handleGenesisBalances of block 1.
HandleGenesis ==
    /\ pc = "genesis"
    /\ toEnforce = {}
    /\ view' = Save(view, {NewRow(m, Block.bal[m]) : m \in Listed}
                            \cup {NewRow(u, Genesis[u]) : u \in {u \in Users : Genesis[u] # 0}})
    /\ toEnforce' = Modules \cup {u \in Users : Genesis[u] # 0}
    /\ pc' = "balances"
    /\ UNCHANGED <<chain, height, crashes, db, accounts, pending, found>>

\* indexBalances starts updateBalances and enforceAccountsExists together;
\* both return at once when the block has no coin event of a user.
IndexBalances ==
    /\ pc = "balances"
    /\ toEnforce = {}
    /\ toEnforce' = Block.touched
    /\ pc' = IF Block.touched = {} THEN "commit" ELSE "cleanup"
    /\ UNCHANGED <<chain, height, crashes, db, view, accounts, pending, found>>

\* Mutant: a retry reopens rows but keeps the ones a failed attempt inserted.
CleanedUpKeepsRows(S) == {IF r.hi = B THEN Reopen(r) ELSE r : r \in S}

\* updateBalances: delete the rows created for this block, then reopen the
\* rows closed by it.
CleanedUp(S) ==
    LET kept == {r \in S : r.lastUpdatedBlockId # B}
    IN  {IF r.hi = B THEN Reopen(r) ELSE r : r \in kept}

Cleanup ==
    /\ pc = "cleanup"
    /\ view' = CleanedUp(view)
    /\ pc' = "read"
    /\ UNCHANGED <<chain, height, crashes, db, accounts, toEnforce, pending, found>>

\* updateBalances: the current amounts, 0 for an id with no row.  Were there
\* two current rows, the last one read would win: either may.
CurrentAmounts(u) ==
    IF RowsAt(view, u, B) = {} THEN {0} ELSE {r.amount : r \in RowsAt(view, u, B)}

Change(u) == Block.bal[u] - BalanceAt(height, u)

Read ==
    /\ pc = "read"
    /\ found' = {u \in Block.touched : RowsAt(view, u, B) # {}}
    /\ \E current \in [Block.touched -> UNION {CurrentAmounts(u) : u \in Block.touched}] :
        /\ \A u \in Block.touched : current[u] \in CurrentAmounts(u)
        /\ pending' = {NewRow(u, current[u] + Change(u)) : u \in Block.touched}
    /\ pc' = "close"
    /\ UNCHANGED <<chain, height, crashes, db, view, accounts, toEnforce>>

\* Mutant: the upper bound of a range is taken to be inclusive.
ClosedInclusive(S) ==
    {IF r.id \in found /\ Contains(r, B) THEN CloseAt(r, height) ELSE r : r \in S}

\* Mutant: the old row is left current beside the new one.
ClosedNothing(S) == S

\* updateBalances: close the rows that were read at this block.
Closed(S) ==
    {IF r.id \in found /\ Contains(r, B) THEN CloseAt(r, B) ELSE r : r \in S}

Close ==
    /\ pc = "close"
    /\ view' = Closed(view)
    /\ pc' = "insert"
    /\ UNCHANGED <<chain, height, crashes, db, accounts, toEnforce, pending, found>>

\* optimizedBulkCreate: a batch is committed in a transaction of its own, so
\* it is durable at once and visible to the block transaction.
InsertBatch ==
    /\ pc = "insert"
    /\ \E batch \in (SUBSET pending) \ {{}} :
        /\ db' = db \cup batch
        /\ view' = view \cup batch
        /\ pending' = pending \ batch
        /\ pc' = IF pending = batch THEN "commit" ELSE "insert"
    /\ UNCHANGED <<chain, height, crashes, accounts, toEnforce, found>>

\* Mutant: a plain INSERT, which fails on an account that is already there.
EnforceNewAccounts ==
    /\ \E batch \in (SUBSET (toEnforce \ accounts)) \ {{}} :
        /\ accounts' = accounts \cup batch
        /\ toEnforce' = toEnforce \ batch
    /\ UNCHANGED <<chain, height, crashes, db, view, pending, found, pc>>

\* optimizedBulkCreate of Account rows with deterministic ids: inserting an
\* account again does nothing.
EnforceAccounts ==
    /\ \E batch \in (SUBSET toEnforce) \ {{}} :
        /\ accounts' = accounts \cup batch
        /\ toEnforce' = toEnforce \ batch
    /\ UNCHANGED <<chain, height, crashes, db, view, pending, found, pc>>

\* Mutant: the handler returns without awaiting enforceAccountsExists.
CommitUnawaited ==
    /\ pc = "commit"
    /\ db' = view
    /\ height' = B
    /\ toEnforce' = {} /\ found' = {}
    /\ pc' = "idle"
    /\ UNCHANGED <<chain, crashes, view, accounts, pending>>

\* The handler returned: the block transaction, with the height in it, commits.
Commit ==
    /\ pc = "commit"
    /\ toEnforce = {}
    /\ db' = view
    /\ height' = B
    /\ found' = {}
    /\ pc' = "idle"
    /\ UNCHANGED <<chain, crashes, view, accounts, toEnforce, pending>>

\* A handler throws or the process stops: the block transaction is rolled
\* back, and the supervisor starts the indexer again at the same block.
Crash ==
    /\ pc # "idle"
    /\ crashes < MaxCrashes
    /\ crashes' = crashes + 1
    /\ view' = db
    /\ toEnforce' = {} /\ pending' = {} /\ found' = {}
    /\ pc' = "idle"
    /\ UNCHANGED <<chain, height, db, accounts>>

Handler == \/ BeginBlock \/ HandleModuleAccounts \/ HandleGenesis \/ IndexBalances
           \/ Cleanup \/ Read \/ Close \/ InsertBatch \/ EnforceAccounts \/ Commit

Next == Produce \/ Handler \/ Crash

Spec == Init /\ [][Next]_vars

\* The indexer keeps running: the supervisor restarts it always.
FairSpec == Spec /\ WF_vars(Handler)

-----------------------------------------------------------------------------
(* Properties *)

\* What a reader is told for a height: the amount of the row in force then,
\* 0 when there is none (a query of Balance at a block height).
AmountAt(id, h) ==
    IF RowsAt(db, id, h) = {} THEN 0 ELSE (CHOOSE r \in RowsAt(db, id, h) : TRUE).amount

Reader == INSTANCE ChainMirror
    WITH States <- [Users -> Amounts],
         chain <- [h \in 1..Len(chain) |-> [u \in Users |-> chain[h].bal[u]]],
         indexed <- [h \in 1..height |-> [u \in Users |-> AmountAt(u, h)]]

\* Readers of user balances see an append-only, exact copy of a prefix of the
\* chain: updateBalances applies the changes of every block exactly once
\* however often the block is attempted, and never rewrites an older height.
UserBalancesMirrorChain == Reader!Spec

\* At every indexed height, every row in force for a user has the amount the
\* chain had then, and only an account with nothing has no row: the rows an
\* attempt of updateBalances leaves behind change no answer.
HistoryExact ==
    \A h \in 1..height, u \in Users :
        /\ \A r \in RowsAt(db, u, h) : r.amount = BalanceAt(h, u)
        /\ RowsAt(db, u, h) = {} => BalanceAt(h, u) = 0

\* The ranges of an account's rows never overlap at an indexed height: the
\* delete, reopen, close and insert of updateBalances and the store's own
\* bookkeeping leave one version in force.
OneVersionInForce ==
    \A h \in 1..height : \A r, s \in db :
        r.id = s.id /\ Contains(r, h) /\ Contains(s, h) => r = s

\* Every account with an indexed balance is in the Account table, although
\* enforceAccountsExists commits outside the block transaction and runs
\* concurrently with updateBalances.
BalanceHasAccount == \A r \in db : r.lo <= height => r.id \in accounts

\* Every finalized block is eventually indexed, provided the attempts stop
\* failing: the handler waits for nothing that may never come.
EveryBlockIndexed ==
    \A n \in 1..MaxHeight : (Len(chain) >= n) ~> (height >= n)

\* "we track module account balances on our own so we don't need them"
\* (indexer.manager.ts, isValidEvent): after a block the balance of a module
\* account that holds something is the one the chain has.
ModuleBalancesTracked ==
    height > 0 => \A m \in Modules :
        LET amount == chain[height].bal[m]
        IN  amount # 0 => AmountAt(m, height) = amount
=============================================================================
