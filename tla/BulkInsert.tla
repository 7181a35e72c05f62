----------------------------- MODULE BulkInsert -----------------------------
(***************************************************************************)
(* How the rows of one block reach a table that handlers fill with         *)
(* optimizedBulkCreate or rawBulkInsert.                                   *)
(*                                                                         *)
(* A call deletes the rows the table has for the block, then inserts its   *)
(* documents in batches, each statement committed at once and none of it   *)
(* in the block transaction.  The handlers of a block run concurrently; a  *)
(* caller here is one call that a block may make for the table.  A failed  *)
(* attempt leaves its rows behind, and the next one starts over.           *)
(*                                                                         *)
(* Abstractions: one table; a document is its id; the _id of a row is the  *)
(* attempt that inserted it.                                               *)
(***************************************************************************)
EXTENDS Integers, Sequences, FiniteSets

CONSTANTS Docs,       \* ids of the documents blocks bring for the table
          Callers,    \* calls a block may make for the table
          Shared,     \* whether two calls of one block may have documents
          RemoveBy,   \* whether rows of the block are deleted first ('omit' otherwise)
          Keyed,      \* whether the id is the conflict key (rawBulkInsert)
          MaxHeight,  \* bound: blocks the chain produces
          MaxFailures \* bound: failed attempts

ASSUME BulkInsertAssumption ==
    /\ Callers # {}
    /\ Shared \in BOOLEAN /\ RemoveBy \in BOOLEAN /\ Keyed \in BOOLEAN
    /\ MaxHeight \in Nat /\ MaxFailures \in Nat

VARIABLES chain,     \* finalized blocks: the documents each call has
          height,    \* last block whose transaction committed
          failures,  \* attempts that failed so far
          table,     \* rows of the table, committed
          left,      \* documents a call has still to insert
          callStage  \* where a call is

tableVars == <<chain, height, failures, table, left, callStage>>

Calls == {docs \in [Callers -> SUBSET Docs] :
            /\ \A c, d \in Callers : c # d => docs[c] \cap docs[d] = {}
            /\ ~Shared => \A c, d \in Callers : docs[c] # {} /\ docs[d] # {} => c = d}

Rows == [id : Docs, blockId : Nat, att : Nat]

TypeOK ==
    /\ chain \in Seq(Calls)
    /\ height \in 0..Len(chain)
    /\ failures \in Nat
    /\ table \subseteq Rows
    /\ left \in [Callers -> SUBSET Docs]
    /\ callStage \in [Callers -> {"idle", "called", "insert", "done"}]

-----------------------------------------------------------------------------

B == height + 1          \* the block being indexed

RowsOf(h) == {r \in table : r.blockId = h}

DocsOf(h) == UNION {chain[h][c] : c \in Callers}

\* The chain (external): the next block and the documents it brings.
Produce ==
    /\ Len(chain) < MaxHeight
    /\ \E docs \in Calls : chain' = Append(chain, docs)
    /\ UNCHANGED <<height, failures, table, left, callStage>>

TableInit ==
    /\ chain = <<>>
    /\ height = 0
    /\ failures = 0
    /\ table = {}
    /\ left = [c \in Callers |-> {}]
    /\ callStage = [c \in Callers |-> "idle"]

Idle == \A c \in Callers : callStage[c] = "idle"

\* The handlers of the block are started together.
BeginBlock ==
    /\ Idle
    /\ height < Len(chain)
    /\ callStage' = [c \in Callers |-> "called"]
    /\ UNCHANGED <<chain, height, failures, table, left>>

\* A call with no documents returns at once.
ReturnEmpty(c) ==
    /\ callStage[c] = "called"
    /\ chain[B][c] = {}
    /\ callStage' = [callStage EXCEPT ![c] = "done"]
    /\ UNCHANGED <<chain, height, failures, table, left>>

\* Mutant: the rows of a failed attempt are left in place.
RemovedNothing == table

\* Mutant: the DELETE takes the rows of the block before with it.
RemovedFromHeight == {r \in table : r.blockId < height}

\* DELETE of every row the table has for the block.
Removed == IF RemoveBy THEN table \ RowsOf(B) ELSE table

DeleteRows(c) ==
    /\ callStage[c] = "called"
    /\ chain[B][c] # {}
    /\ table' = Removed
    /\ left' = [left EXCEPT ![c] = chain[B][c]]
    /\ callStage' = [callStage EXCEPT ![c] = "insert"]
    /\ UNCHANGED <<chain, height, failures>>

\* One batch; a conflict with the key is ignored.  Without a key every row is
\* inserted, the primary key being a fresh _id.
BatchRows(batch) ==
    {[id |-> d, blockId |-> B, att |-> failures] : d \in
        {d \in batch : Keyed => \A r \in table : r.id # d \/ r.blockId # B}}

InsertBatch(c) ==
    /\ callStage[c] = "insert"
    /\ \E batch \in (SUBSET left[c]) \ {{}} :
        /\ table' = table \cup BatchRows(batch)
        /\ left' = [left EXCEPT ![c] = @ \ batch]
        /\ callStage' = [callStage EXCEPT ![c] = IF left[c] = batch THEN "done" ELSE "insert"]
    /\ UNCHANGED <<chain, height, failures>>

\* Every handler returned: the block transaction, with the height in it, commits.
CommitBlock ==
    /\ \A c \in Callers : callStage[c] = "done"
    /\ height' = B
    /\ callStage' = [c \in Callers |-> "idle"]
    /\ UNCHANGED <<chain, failures, table, left>>

\* A handler throws or the process stops: what was inserted stays.
FailAttempt ==
    /\ ~Idle
    /\ failures < MaxFailures
    /\ failures' = failures + 1
    /\ left' = [c \in Callers |-> {}]
    /\ callStage' = [c \in Callers |-> "idle"]
    /\ UNCHANGED <<chain, height, table>>

Handler == \/ BeginBlock \/ CommitBlock
           \/ \E c \in Callers : ReturnEmpty(c) \/ DeleteRows(c) \/ InsertBatch(c)

TableNext == Produce \/ Handler \/ FailAttempt

TableSpec == TableInit /\ [][TableNext]_tableVars

-----------------------------------------------------------------------------
(* Properties *)

Count(d, h) == Cardinality({r \in RowsOf(h) : r.id = d})

Reader == INSTANCE ChainMirror
    WITH States <- [Docs -> {0, 1}],
         chain <- [h \in 1..Len(chain) |-> [d \in Docs |-> IF d \in DocsOf(h) THEN 1 ELSE 0]],
         indexed <- [h \in 1..height |-> [d \in Docs |-> Count(d, h)]]

\* Readers see every document of every indexed block once, although the rows
\* are inserted outside the block transaction, batch by batch, and the rows of
\* failed attempts stay in the table until the next one deletes them.
RowsMirrorChain == Reader!Spec

\* Once a block is indexed the table has, for each of its documents, exactly
\* one row, and no other row for the block.
BlockRowsExact ==
    \A h \in 1..height :
        /\ {r.id : r \in RowsOf(h)} = DocsOf(h)
        /\ \A r, s \in RowsOf(h) : r.id = s.id => r = s
=============================================================================
