------------------------------ MODULE Genesis -------------------------------
(***************************************************************************)
(* The first block: handleGenesis (primitives/genesis.ts) makes up a       *)
(* transaction and a message for everything the genesis file has, as if it *)
(* had been staked or created by one, with ids of its own, and the rest of *)
(* the block handler follows.                                              *)
(*                                                                         *)
(* Twelve handlers run concurrently; entities are written in the block     *)
(* transaction and the rows of messages in bulk inserts of their own,      *)
(* which a failed attempt leaves behind.  Transactions and messages of all *)
(* handlers are collected and inserted at the end: 'block_id' deletes what *)
(* the block has in the table.                                             *)
(*                                                                         *)
(* Abstractions: amounts, accounts, balances (Balances starts from them),  *)
(* authorizations, parameters and supply rows are left out; a stake has    *)
(* one service; a bulk insert is one step (BulkInsert has its statements). *)
(***************************************************************************)
EXTENDS Integers, Sequences, FiniteSets, SequencesExt

CONSTANTS Services, Suppliers, Apps, Gateways, Validators,
          None,
          Files,          \* genesis files, and what the first block has
          MaxCrashes      \* bound: failed attempts

VARIABLES file,     \* the genesis file, with the transaction of the first block
          stage,    \* what the block handler is at
          pending,  \* bulk inserts that did not return yet
          tables,   \* tables of bulk inserts: table -> rows, of any attempt
          entities, \* rows of the block transaction, once it commits
          crashes   \* attempts that stopped so far

vars == <<file, stage, pending, tables, entities, crashes>>

Kinds == {"service", "supplier", "app", "gateway"}
MsgTable == [service |-> "MsgAddService", supplier |-> "MsgStakeSupplier",
             app |-> "MsgStakeApplication", gateway |-> "MsgStakeGateway"]
ServiceTable == [supplier |-> "MsgStakeSupplierService", app |-> "MsgStakeApplicationService"]

Tables == {MsgTable[k] : k \in Kinds} \cup {ServiceTable[k] : k \in DOMAIN ServiceTable}
          \cup {"MsgDelegateToGateway", "MsgCreateValidator", "Transaction", "Message"}

-----------------------------------------------------------------------------
(* The genesis file (external) *)

Lists(S) == {s \in Seq(S) : \A i, j \in DOMAIN s : s[i] = s[j] => i = j}

Statuses == {"Staked", "Unstaking", "Unstaked"}

\* A file lists everything once; a validator may come as a gen_tx, which stakes it,
\* and in the exported state.  The first block may have a transaction.
ASSUME GenesisAssumption ==
    /\ Files \subseteq
          [service : Lists(Services), supplier : Lists(Suppliers), app : Lists(Apps),
           gateway : Lists(Gateways), delegatees : [Apps -> SUBSET Gateways],
           genTxs : Lists(Validators), staking : Lists(Validators), status : [Validators -> Statuses],
           transaction : BOOLEAN]
    /\ MaxCrashes \in Nat

-----------------------------------------------------------------------------
(* Rows *)

FakeTxHash(kind, index) == <<kind, index + 1>>

MsgId(address) == <<"genesis", address>>

\* A row made up for one thing of the file, and for which one.
Row(kind, of, id, tx) == [kind |-> kind, of |-> of, id |-> id, transactionId |-> tx]

\* All services have the transaction of the first.
IndexOf(kind, i) == IF kind = "service" THEN 0 ELSE i - 1

ListRows(kind) ==
    {Row(kind, file[kind][i], MsgId(file[kind][i]), FakeTxHash(kind, IndexOf(kind, i))) :
        i \in DOMAIN file[kind]}

\* Delegations have the transaction of their application and an id made from the
\* gateway alone; there is no Message for them.
DelegationRows ==
    UNION {{Row("delegation", <<r.of, g>>, MsgId(g), r.transactionId) : g \in file.delegatees[r.of]}
           : r \in ListRows("app")}

Validator(v, status, id, index) ==
    [kind |-> "validator", of |-> v, id |-> id,
     transactionId |-> FakeTxHash("validator", index), status |-> status]

\* Mutant: validators of the exported state are numbered from the start.
StakingIndexFromZero(j) == j - 1

\* They are numbered after the gen_txs.
StakingIndex(j) == Len(file.genTxs) + j - 1

StakingValidators == {j \in DOMAIN file.staking : ~Contains(file.genTxs, file.staking[j])}

ValidatorRows ==
    {Validator(file.genTxs[i], "Staked", <<"genesis-gen-txs", i - 1>>, i - 1) :
        i \in DOMAIN file.genTxs}
    \cup {Validator(file.staking[j], file.status[file.staking[j]],
                    <<"genesis-staking-validator", file.staking[j]>>, StakingIndex(j)) :
        j \in StakingValidators}

Synthesized == (UNION {ListRows(kind) : kind \in Kinds}) \cup ValidatorRows

TransactionRow(r) == [id |-> r.transactionId, kind |-> r.kind, of |-> r.of]
MessageRow(r) == [id |-> r.id, kind |-> r.kind, of |-> r.of, transactionId |-> r.transactionId]

\* A bulk insert: what it does to the rows the block already has, and new rows.
Insert(table, removeBy, rows) == [table |-> table, removeBy |-> removeBy, rows |-> rows]

\* The bulk inserts of the concurrent handlers.
HandlerInserts ==
    {Insert(MsgTable[kind], "block_id", ListRows(kind)) : kind \in Kinds}
    \cup {Insert(ServiceTable[kind], "omit", {[stakeMsgId |-> r.id] : r \in ListRows(kind)})
          : kind \in DOMAIN ServiceTable}
    \cup {Insert("MsgDelegateToGateway", "block_id", DelegationRows),
          Insert("MsgCreateValidator", "block_id", ValidatorRows)}

\* Mutant: each handler inserts its own transactions and messages.
FinalInsertsByKind ==
    UNION {LET rows == {r \in Synthesized : r.kind = kind}
           IN  {Insert("Transaction", "block_id", {TransactionRow(r) : r \in rows}),
                Insert("Message", "block_id", {MessageRow(r) : r \in rows})}
           : kind \in Kinds \cup {"validator"}}

\* Once every handler returned: those of all of them.
FinalInserts ==
    {Insert("Transaction", "block_id", {TransactionRow(r) : r \in Synthesized}),
     Insert("Message", "block_id", {MessageRow(r) : r \in Synthesized})}

\* The first block's own transaction, which stakes a gateway.
OwnRow == Row("gateway", None, <<"own", 0>>, <<"own", 0>>)
OwnInserts ==
    IF file.transaction THEN {Insert("Transaction", "block_id", {TransactionRow(OwnRow)})} ELSE {}
OwnMessageInserts ==
    IF file.transaction THEN {Insert("MsgStakeGateway", "block_id", {OwnRow})} ELSE {}

-----------------------------------------------------------------------------
(* The block handler *)

Init ==
    /\ file \in Files
    /\ stage = "begin" /\ pending = {}
    /\ tables = [t \in Tables |-> {}]
    /\ entities = {}
    /\ crashes = 0

Called(inserts) == {i \in inserts : i.rows # {}}

Stage(from, to, inserts) ==
    /\ stage = from /\ pending = {}
    /\ stage' = to
    /\ pending' = Called(inserts)
    /\ UNCHANGED <<file, tables, entities, crashes>>

HandleGenesis == Stage("begin", "handlers", HandlerInserts)
SaveCollected == Stage("handlers", "collected", FinalInserts)
HandleTransactions == Stage("collected", "transactions", OwnInserts)
HandleMessages == Stage("transactions", "messages", OwnMessageInserts)

\* Mutant: no row of the block is deleted.
KeptAll(i) == tables[i.table]

KeptBy(i) == IF i.removeBy = "omit" THEN tables[i.table] ELSE {}

\* A row and the attempt that inserted it, for its _id.
Inserted(i) == {[attempt |-> crashes, row |-> r] : r \in i.rows}

OptimizedBulkCreate ==
    \E i \in pending :
        /\ tables' = [tables EXCEPT ![i.table] = KeptBy(i) \cup Inserted(i)]
        /\ pending' = pending \ {i}
        /\ UNCHANGED <<file, stage, entities, crashes>>

\* The entities the handlers save in the block transaction.
Entities ==
    {[kind |-> r.kind, id |-> r.of, status |-> "Staked"] :
        r \in (UNION {ListRows(kind) : kind \in Kinds}) \cup DelegationRows}
    \cup {[kind |-> r.kind, id |-> r.of, status |-> r.status,
            transactionId |-> r.transactionId, createMsgId |-> r.id] : r \in ValidatorRows}

\* The block transaction commits: they become visible.
Commit ==
    /\ stage = "messages" /\ pending = {}
    /\ stage' = "indexed"
    /\ entities' = Entities
    /\ UNCHANGED <<file, pending, tables, crashes>>

\* An insert fails or the process stops; the block is attempted again.
Crash ==
    /\ stage \notin {"begin", "indexed"} /\ crashes < MaxCrashes
    /\ stage' = "begin" /\ pending' = {}
    /\ crashes' = crashes + 1
    /\ UNCHANGED <<file, tables, entities>>

Next ==
    \/ HandleGenesis \/ SaveCollected \/ HandleTransactions \/ HandleMessages
    \/ OptimizedBulkCreate \/ Commit \/ Crash

Spec == Init /\ [][Next]_vars

-----------------------------------------------------------------------------
(* Properties *)

Indexed == stage = "indexed"

Listed(kind) == {file[kind][i] : i \in DOMAIN file[kind]}
GenTxs == {file.genTxs[i] : i \in DOMAIN file.genTxs}
Staking == {file.staking[i] : i \in DOMAIN file.staking}

Stored(table) == {r.row : r \in tables[table]}

\* Every validator of the genesis is there once, whether it came as a gen_tx, in the
\* exported state or as both, with its status and a transaction and a message that
\* are about no other validator.
ValidatorsMatchGenesis ==
    Indexed =>
        LET rows == {e \in entities : e.kind = "validator"} IN
        /\ {<<e.id, e.status>> : e \in rows} =
              {<<v, IF v \in GenTxs THEN "Staked" ELSE file.status[v]>> : v \in GenTxs \cup Staking}
        /\ \A e, f \in rows : e.id = f.id => e = f
        /\ \A e \in rows :
              /\ {t.of : t \in {t \in Stored("Transaction") : t.id = e.transactionId}} = {e.id}
              /\ {m.of : m \in {m \in Stored("MsgCreateValidator") : m.id = e.createMsgId}} = {e.id}

\* Every message made up for something listed leads to its Message and to its
\* transaction, and no transaction is about things of two kinds, or two things of
\* one kind, services apart: handlers of all kinds share the two tables.
MessagesHaveTransactions ==
    Indexed =>
        /\ \A kind \in Kinds : {r.of : r \in Stored(MsgTable[kind])} = Listed(kind)
        /\ \A kind \in Kinds : \A r \in Stored(MsgTable[kind]) :
              /\ \E m \in Stored("Message") : /\ m.id = r.id /\ m.of = r.of
                                              /\ m.transactionId = r.transactionId
              /\ \E t \in Stored("Transaction") : t.id = r.transactionId /\ t.of = r.of
        /\ {r.of : r \in Stored("MsgDelegateToGateway")} =
              {d \in Listed("app") \X Gateways : d[2] \in file.delegatees[d[1]]}
        /\ \A r \in Stored("MsgDelegateToGateway") :
              \E t \in Stored("Transaction") : t.id = r.transactionId /\ t.of = r.of[1]
        /\ \A t, u \in Stored("Transaction") : t.id = u.id => t.kind = u.kind /\ (t.kind = "service" \/ t.of = u.of)

\* Nothing a failed attempt inserted is left when the first block is indexed, and no
\* row is there twice, but for the services of stakes, which are only known to be
\* there at least once.
RowsOfOneAttempt ==
    Indexed =>
        /\ \A table \in Tables \ {ServiceTable[k] : k \in DOMAIN ServiceTable} :
              \A r \in tables[table] : r.attempt = crashes
        /\ \A kind \in DOMAIN ServiceTable :
              {r.stakeMsgId : r \in Stored(ServiceTable[kind])} = {MsgId(a) : a \in Listed(kind)}
=============================================================================
