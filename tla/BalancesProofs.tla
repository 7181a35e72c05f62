--------------------------- MODULE BalancesProofs ---------------------------
(***************************************************************************)
(* Proofs about Balances, for every set of accounts, every genesis file    *)
(* and any number of blocks and failed attempts.                           *)
(***************************************************************************)
EXTENDS Balances, SequenceTheorems, TLAPS

-----------------------------------------------------------------------------
(* Type correctness *)

LEMMA RowFields ==
    ASSUME NEW r \in Rows
    PROVE  /\ r.id \in Accounts /\ r.amount \in Int
           /\ r.lo \in Nat /\ r.hi \in Nat
           /\ r.lastUpdatedBlockId \in Nat /\ r.att \in Nat
BY DEF Rows

LEMMA RangeTyped ==
    ASSUME NEW r \in Rows, NEW h \in Nat
    PROVE  CloseAt(r, h) \in Rows /\ Reopen(r) \in Rows
BY DEF Rows, CloseAt, Reopen, Open

LEMMA NewRowTyped ==
    ASSUME TypeOK, NEW id \in Accounts, NEW amount \in Int
    PROVE  NewRow(id, amount) \in Rows
<1>1. B \in Nat
  BY DEF TypeOK, B
<1> QED
  BY <1>1 DEF TypeOK, NewRow, Rows, Open

LEMMA SaveTyped ==
    ASSUME TypeOK, NEW S \in SUBSET Rows, NEW new \in SUBSET Rows
    PROVE  Save(S, new) \in SUBSET Rows
<1>1. B \in Nat
  BY DEF TypeOK, B
<1>2. \A r \in S : CloseAt(r, B) \in Rows
  BY <1>1, RangeTyped
<1> QED
  BY <1>2 DEF Save

\* The block being indexed is a block, once the chain has it.
LEMMA BlockTyped ==
    ASSUME TypeOK, height < Len(chain)
    PROVE  /\ B \in 1..Len(chain)
           /\ Block \in Blocks
           /\ Block.bal \in [Accounts -> Amounts]
           /\ Block.touched \subseteq Users
<1>1. Len(chain) \in Nat /\ B \in 1..Len(chain)
  BY DEF TypeOK, B
<1>2. Block \in Blocks
  BY <1>1 DEF TypeOK, Block
<1> QED
  BY <1>1, <1>2 DEF Blocks

\* Every stage but idle works on a block the chain has.
HasBlock == pc # "idle" => height < Len(chain)

TypeInv == TypeOK /\ HasBlock

LEMMA AmountIsInt ==
    ASSUME NEW x \in Amounts
    PROVE  x \in Nat /\ x \in Int
BY BalancesAssumption

LEMMA AccountTyped ==
    ASSUME NEW bal \in [Accounts -> Amounts], NEW a \in Accounts
    PROVE  bal[a] \in Amounts /\ bal[a] \in Int
<1>1. bal[a] \in Amounts
  OBVIOUS
<1> QED
  BY <1>1, AmountIsInt

LEMMA MembersAreAccounts ==
    /\ \A u \in Users : u \in Accounts
    /\ \A m \in Modules : m \in Accounts
BY DEF Accounts

LEMMA GenesisTyped ==
    ASSUME NEW u \in Users
    PROVE  Genesis[u] \in Amounts /\ Genesis[u] \in Int
<1>1. Genesis[u] \in Amounts
  BY BalancesAssumption
<1> QED
  BY <1>1, AmountIsInt

LEMMA BalanceTyped ==
    ASSUME TypeOK, NEW h \in 0..Len(chain), NEW u \in Users
    PROVE  BalanceAt(h, u) \in Amounts /\ BalanceAt(h, u) \in Int
<1>1. CASE h = 0
  BY <1>1, GenesisTyped DEF BalanceAt
<1>2. CASE h # 0
  <2>1. chain[h] \in Blocks
    BY <1>2 DEF TypeOK
  <2>2. chain[h].bal \in [Accounts -> Amounts]
    BY <2>1 DEF Blocks
  <2>3. chain[h].bal[u] \in Amounts /\ chain[h].bal[u] \in Int
    BY <2>2, AccountTyped, MembersAreAccounts
  <2> QED
    BY <1>2, <2>3 DEF BalanceAt
<1> QED
  BY <1>1, <1>2

LEMMA ChainGrows ==
    ASSUME TypeOK, NEW blk \in Blocks, chain' = Append(chain, blk)
    PROVE  /\ chain' \in Seq(Blocks)
           /\ Len(chain') = Len(chain) + 1
           /\ \A h \in 1..Len(chain) : chain'[h] = chain[h]
           /\ chain'[Len(chain) + 1] = blk
BY DEF TypeOK

LEMMA TypeInit == Init => TypeInv
BY DEF Init, TypeInv, TypeOK, HasBlock, Stages

LEMMA TypeStep == TypeInv /\ [Next]_vars => TypeInv'
<1> SUFFICES ASSUME TypeInv, [Next]_vars PROVE TypeInv'
  OBVIOUS
<1> USE DEF TypeInv, HasBlock, Stages
<1>0. /\ TypeOK /\ HasBlock
      /\ Len(chain) \in Nat /\ height \in Nat /\ height <= Len(chain) /\ B \in Nat
  BY DEF TypeOK, B
<1>1. CASE Produce
  <2>1. PICK blk \in Blocks : chain' = Append(chain, blk)
    BY <1>1 DEF Produce
  <2>2. chain' \in Seq(Blocks) /\ Len(chain') = Len(chain) + 1
    BY <1>0, <2>1, ChainGrows
  <2> QED
    BY <1>0, <1>1, <2>2 DEF Produce, TypeOK, txVars
<1>2. CASE BeginBlock
  BY <1>0, <1>2 DEF BeginBlock, TypeOK
<1>3. CASE HandleModuleAccounts
  <2>1. Block.bal \in [Accounts -> Amounts]
    BY <1>0, <1>3, BlockTyped DEF HandleModuleAccounts
  <2>2. \A m \in Modules : Block.bal[m] \in Int /\ m \in Accounts
    BY <2>1, AccountTyped, MembersAreAccounts
  <2>3. \A m \in Modules : NewRow(m, Block.bal[m]) \in Rows
    BY <1>0, <2>2, NewRowTyped
  <2>4. {NewRow(m, Block.bal[m]) : m \in {m \in Listed : Stale(m)}} \subseteq Rows
    BY <2>3 DEF Listed
  <2>5. view' \subseteq Rows
    BY <1>0, <1>3, <2>4, SaveTyped DEF HandleModuleAccounts, TypeOK
  <2> QED
    BY <1>0, <1>3, <2>5 DEF HandleModuleAccounts, TypeOK, Accounts
<1>4. CASE HandleGenesis
  <2>1. Block.bal \in [Accounts -> Amounts]
    BY <1>0, <1>4, BlockTyped DEF HandleGenesis
  <2>2. \A m \in Modules : Block.bal[m] \in Int /\ m \in Accounts
    BY <2>1, AccountTyped, MembersAreAccounts
  <2>3. \A m \in Modules : NewRow(m, Block.bal[m]) \in Rows
    BY <1>0, <2>2, NewRowTyped
  <2>4. \A u \in Users : Genesis[u] \in Int /\ u \in Accounts
    BY GenesisTyped, MembersAreAccounts
  <2>5. \A u \in Users : NewRow(u, Genesis[u]) \in Rows
    BY <1>0, <2>4, NewRowTyped
  <2>6. {NewRow(m, Block.bal[m]) : m \in Listed}
          \cup {NewRow(u, Genesis[u]) : u \in {u \in Users : Genesis[u] # 0}} \subseteq Rows
    BY <2>3, <2>5 DEF Listed
  <2>7. view' \subseteq Rows
    BY <1>0, <1>4, <2>6, SaveTyped DEF HandleGenesis, TypeOK
  <2> QED
    BY <1>0, <1>4, <2>7 DEF HandleGenesis, TypeOK, Accounts
<1>5. CASE IndexBalances
  <2>1. Block.touched \subseteq Users
    BY <1>0, <1>5, BlockTyped DEF IndexBalances
  <2> QED
    BY <1>0, <1>5, <2>1 DEF IndexBalances, TypeOK, Accounts
<1>6. CASE Cleanup
  <2>1. view' \subseteq Rows
    BY <1>0, <1>6, RangeTyped DEF Cleanup, CleanedUp, TypeOK
  <2> QED
    BY <1>0, <1>6, <2>1 DEF Cleanup, TypeOK
<1>7. CASE Read
  <2>1. /\ Block.touched \subseteq Users /\ Block.bal \in [Accounts -> Amounts]
        /\ Block \in Blocks
    BY <1>0, <1>7, BlockTyped DEF Read
  <2>2. \A u \in Block.touched : CurrentAmounts(u) \subseteq Int
    BY <1>0, RowFields DEF CurrentAmounts, RowsAt, TypeOK
  <2>3. \A u \in Block.touched : Change(u) \in Int
    <3>1. \A u \in Users : BalanceAt(height, u) \in Int
      BY <1>0, BalanceTyped
    <3>2. \A u \in Users : Block.bal[u] \in Int
      BY <2>1, AccountTyped, MembersAreAccounts
    <3> QED
      BY <2>1, <3>1, <3>2 DEF Change
  <2>4. PICK current \in [Block.touched -> UNION {CurrentAmounts(u) : u \in Block.touched}] :
          pending' = {NewRow(u, current[u] + Change(u)) : u \in Block.touched}
    BY <1>7 DEF Read
  <2>5. \A u \in Block.touched : current[u] \in Int
    BY <2>2, <2>4
  <2>6. \A u \in Block.touched : NewRow(u, current[u] + Change(u)) \in Rows
    BY <1>0, <2>1, <2>3, <2>5, NewRowTyped DEF Accounts
  <2>7. pending' \subseteq Rows
    BY <2>4, <2>6
  <2>8. found' \subseteq Users
    BY <1>7, <2>1 DEF Read
  <2> QED
    BY <1>0, <1>7, <2>7, <2>8 DEF Read, TypeOK
<1>8. CASE Close
  <2>1. view' \subseteq Rows
    BY <1>0, <1>8, RangeTyped DEF Close, Closed, TypeOK
  <2> QED
    BY <1>0, <1>8, <2>1 DEF Close, TypeOK
<1>9. CASE InsertBatch
  BY <1>0, <1>9 DEF InsertBatch, TypeOK
<1>10. CASE EnforceAccounts
  BY <1>0, <1>10 DEF EnforceAccounts, TypeOK
<1>11. CASE Commit
  BY <1>0, <1>11 DEF Commit, TypeOK, B
<1>12. CASE Crash
  BY <1>0, <1>12 DEF Crash, TypeOK
<1>13. CASE UNCHANGED vars
  BY <1>0, <1>13 DEF vars, TypeOK
<1> QED
  BY <1>1, <1>2, <1>3, <1>4, <1>5, <1>6, <1>7, <1>8, <1>9, <1>10, <1>11, <1>12, <1>13
     DEF Next, Handler

\* Every variable of the block handler keeps its type: in particular the
\* indexed height never passes the end of the chain and no amount is ever
\* computed from a row that is not there.
THEOREM TypeCorrect == Spec => []TypeOK
<1>1. TypeInv => TypeOK
  BY DEF TypeInv
<1> QED
  BY <1>1, TypeInit, TypeStep, PTL DEF Spec

-----------------------------------------------------------------------------
(***************************************************************************)
(* The inductive invariant behind HistoryExact.  HistoryExact speaks of    *)
(* the committed rows only; what keeps it true is what every stage of an   *)
(* attempt knows about the rows the block transaction sees.                *)
(***************************************************************************)

\* The rows of S answer correctly for user u at height h.
Right(S, h, u) ==
    /\ \A r \in S : r.id = u /\ Contains(r, h) => r.amount = BalanceAt(h, u)
    /\ (\A r \in S : ~(r.id = u /\ Contains(r, h))) => BalanceAt(h, u) = 0

\* S and T hold the same rows of users.
SameUserRows(S, T) == \A r \in S \cup T : r.id \in Users => (r \in S <=> r \in T)

\* A block changes only the users it touches; block 1 touches none.
ChainInv ==
    /\ ~GenesisTxs
    /\ \A h \in 1..Len(chain), u \in Users :
          u \notin chain[h].touched => BalanceAt(h, u) = BalanceAt(h - 1, u)
    /\ Len(chain) > 0 => chain[1].touched = {}

\* A committed row of the block being indexed was left by a failed attempt,
\* and belongs to a user the block touches.
DbInv ==
    \A r \in db :
        /\ r.lastUpdatedBlockId = r.lo
        /\ r.lo \in 1..B
        /\ r.hi = Open \/ r.hi \in 1..height
        /\ r.lo = B => height < Len(chain) /\ r.id \in Block.touched

ViewInv ==
    \A r \in view :
        /\ r.lastUpdatedBlockId = r.lo
        /\ r.lo \in 1..B
        /\ r.hi = Open \/ r.hi \in 1..B

PastInv == \A h \in 1..height, u \in Users : Right(db, h, u) /\ Right(view, h, u)

\* Before updateBalances cleans up, the transaction has touched no user row
\* (but for the genesis rows of block 1).
FreshInv ==
    /\ pc \in {"idle", "modules", "genesis"} => SameUserRows(view, db)
    /\ pc \in {"balances", "cleanup"} /\ height > 0 => SameUserRows(view, db)
    /\ pc = "genesis" => height = 0
    /\ pc = "balances" /\ height = 0 => \A u \in Users : Right(view, B, u)

\* updateBalances runs only for a block that touches users, after block 1.
UpdateInv ==
    pc \in {"cleanup", "read", "close", "insert"} => height > 0

\* After the clean-up and before the close, no user row is of this block.
CleanInv ==
    pc \in {"read", "close"} =>
        \A r \in view : r.id \in Users =>
            r.lo \in 1..height /\ (r.hi = Open \/ r.hi \in 1..height)

PendingInv ==
    /\ pc \notin {"close", "insert"} => pending = {}
    /\ pc \in {"close", "insert"} => \A r \in pending :
          /\ r.id \in Block.touched
          /\ r.lo = B /\ r.lastUpdatedBlockId = B /\ r.hi = Open
          /\ r.amount = BalanceAt(B, r.id)
    /\ pc = "close" =>
          /\ \A u \in Block.touched : \E r \in pending : r.id = u
          /\ found = {u \in Block.touched : RowsAt(view, u, B) # {}}

\* Once the old rows are closed, they and the rows still to insert answer
\* correctly for the block being indexed.
ReadyInv ==
    pc \in {"insert", "commit"} => \A u \in Users : Right(view \cup pending, B, u)

HistInv ==
    /\ ChainInv /\ DbInv /\ ViewInv /\ PastInv
    /\ FreshInv /\ UpdateInv /\ CleanInv /\ PendingInv /\ ReadyInv

IInv == TypeInv /\ HistInv

-----------------------------------------------------------------------------
(* Lemmas about rows and ranges *)

LEMMA Heights ==
    ASSUME TypeInv
    PROVE  /\ height \in Nat /\ Len(chain) \in Nat /\ height <= Len(chain)
           /\ B \in Nat /\ B = height + 1
           /\ db \subseteq Rows /\ view \subseteq Rows /\ pending \subseteq Rows
BY DEF TypeInv, TypeOK, B

LEMMA SaveRows ==
    ASSUME TypeInv, NEW S \in SUBSET Rows, NEW new \in SUBSET Rows, NEW s \in Save(S, new)
    PROVE  \/ s \in new
           \/ s \in S
           \/ \E r \in S : /\ s = CloseAt(r, B)
                           /\ \E n \in new : n.id = r.id
BY DEF Save

LEMMA CloseAtFields ==
    ASSUME NEW r \in Rows, NEW h \in Nat
    PROVE  /\ CloseAt(r, h).id = r.id /\ CloseAt(r, h).amount = r.amount
           /\ CloseAt(r, h).lo = r.lo /\ CloseAt(r, h).hi = h
           /\ CloseAt(r, h).lastUpdatedBlockId = r.lastUpdatedBlockId
BY DEF Rows, CloseAt

LEMMA ReopenFields ==
    ASSUME NEW r \in Rows
    PROVE  /\ Reopen(r).id = r.id /\ Reopen(r).amount = r.amount
           /\ Reopen(r).lo = r.lo /\ Reopen(r).hi = Open
           /\ Reopen(r).lastUpdatedBlockId = r.lastUpdatedBlockId
BY DEF Rows, Reopen

LEMMA NewRowFields ==
    ASSUME NEW id, NEW amount
    PROVE  /\ NewRow(id, amount).id = id /\ NewRow(id, amount).amount = amount
           /\ NewRow(id, amount).lo = B /\ NewRow(id, amount).hi = Open
           /\ NewRow(id, amount).lastUpdatedBlockId = B
BY DEF NewRow

\* Saving rows of other accounts leaves the rows of users alone.
LEMMA SaveKeepsUsers ==
    ASSUME TypeInv, NEW S \in SUBSET Rows, NEW new \in SUBSET Rows,
           \A n \in new : n.id \in Modules
    PROVE  SameUserRows(Save(S, new), S)
<1>1. \A a \in Modules : a \notin Users
  BY BalancesAssumption
<1>2. B \in Nat
  BY Heights
<1>3. ASSUME NEW r \in S, r.id \in Users
      PROVE  r \in Save(S, new)
  BY <1>1, <1>3 DEF Save
<1>4. ASSUME NEW r \in Save(S, new), r.id \in Users
      PROVE  r \in S
  <2>1. r \notin new
    BY <1>1, <1>4
  <2>2. ASSUME NEW q \in S, r = CloseAt(q, B), NEW n \in new, n.id = q.id
        PROVE  FALSE
    BY <1>1, <1>2, <1>4, <2>2, CloseAtFields
  <2> QED
    BY <2>1, <2>2, SaveRows
<1> QED
  BY <1>3, <1>4 DEF SameUserRows

\* Saving rows of this block keeps ViewInv.
LEMMA SaveKeepsView ==
    ASSUME TypeInv, ViewInv, NEW new \in SUBSET Rows,
           \A n \in new : n.lo = B /\ n.hi = Open /\ n.lastUpdatedBlockId = B,
           NEW s \in Save(view, new)
    PROVE  /\ s.lastUpdatedBlockId = s.lo
           /\ s.lo \in 1..B
           /\ s.hi = Open \/ s.hi \in 1..B
<1>1. B \in Nat /\ B \in 1..B /\ view \subseteq Rows
  BY Heights
<1>2. CASE s \in new
  BY <1>1, <1>2
<1>3. CASE s \in view
  BY <1>3 DEF ViewInv
<1>4. ASSUME NEW r \in view, s = CloseAt(r, B)
      PROVE  s.lo = r.lo /\ s.lastUpdatedBlockId = r.lastUpdatedBlockId /\ s.hi = B
  BY <1>1, <1>4, CloseAtFields
<1>5. CASE \E r \in view : s = CloseAt(r, B)
  BY <1>1, <1>4, <1>5 DEF ViewInv
<1> QED
  BY <1>1, <1>2, <1>3, <1>5, SaveRows

LEMMA SameRight ==
    ASSUME NEW S, NEW T, SameUserRows(S, T), NEW u \in Users, NEW h, Right(S, h, u)
    PROVE  Right(T, h, u)
BY DEF SameUserRows, Right

\* Rows none of which is of this block, and which answer correctly for the
\* last indexed height, answer correctly for an account this block leaves alone.
LEMMA Carry ==
    ASSUME TypeInv, ChainInv, height > 0, height < Len(chain),
           NEW S \in SUBSET Rows,
           \A r \in S : r.id \in Users =>
               r.lo \in 1..height /\ (r.hi = Open \/ r.hi \in 1..height),
           NEW u \in Users, Right(S, height, u), u \notin Block.touched
    PROVE  Right(S, B, u)
<1>1. height \in Nat /\ B = height + 1 /\ B \in 1..Len(chain)
  BY Heights
<1>2. BalanceAt(B, u) = BalanceAt(height, u)
  BY <1>1 DEF ChainInv, Block
<1>3. \A r \in S : r.id = u => (Contains(r, B) <=> Contains(r, height))
  BY <1>1 DEF Contains, Open
<1> QED
  BY <1>2, <1>3 DEF Right

-----------------------------------------------------------------------------
(* Every action preserves the invariant *)

LEMMA HistInit == Init /\ ~GenesisTxs => HistInv
BY DEF Init, HistInv, ChainInv, DbInv, ViewInv, PastInv, FreshInv, UpdateInv, CleanInv,
       PendingInv, ReadyInv, SameUserRows

\* A step that leaves the chain alone leaves what the chain says alone.
LEMMA SameChain ==
    ASSUME chain' = chain
    PROVE  /\ \A h, u : BalanceAt(h, u)' = BalanceAt(h, u)
           /\ ChainInv => ChainInv'
BY DEF BalanceAt, ChainInv

\* A step that changes neither the chain, nor the height, nor the rows.
LEMMA SameRows ==
    ASSUME HistInv, UNCHANGED <<chain, height, db, view>>
    PROVE  ChainInv' /\ DbInv' /\ ViewInv' /\ PastInv'
BY SameChain DEF HistInv, ChainInv, DbInv, ViewInv, PastInv, Right, BalanceAt, B, Block

LEMMA ProduceStep ==
    ASSUME IInv, Produce
    PROVE  HistInv'
<1> USE DEF IInv, HistInv
<1>0. TypeInv /\ TypeOK /\ HasBlock
  BY DEF TypeInv
<1>1. /\ height \in Nat /\ Len(chain) \in Nat /\ height <= Len(chain) /\ B = height + 1
      /\ UNCHANGED <<height, crashes, db, accounts, view, toEnforce, pending, found, pc>>
  BY <1>0, Heights DEF Produce, txVars
<1>2. PICK blk \in Blocks :
        /\ \A u \in Users \ blk.touched : blk.bal[u] = BalanceAt(Len(chain), u)
        /\ Len(chain) = 0 /\ ~GenesisTxs => blk.touched = {}
        /\ chain' = Append(chain, blk)
  BY DEF Produce
<1>3. /\ Len(chain') = Len(chain) + 1
      /\ \A h \in 1..Len(chain) : chain'[h] = chain[h]
      /\ chain'[Len(chain) + 1] = blk
  BY <1>0, <1>2, ChainGrows
<1>4. \A h \in 0..Len(chain), u \in Users : BalanceAt(h, u)' = BalanceAt(h, u)
  BY <1>1, <1>3 DEF BalanceAt
<1>5. height < Len(chain) => Block' = Block
  BY <1>1, <1>3 DEF Block, B
<1>6. ChainInv'
  <2>1. ASSUME NEW h \in 1..Len(chain), NEW u \in Users, u \notin chain'[h].touched
        PROVE  BalanceAt(h, u)' = BalanceAt(h - 1, u)'
    <3>1. h \in 0..Len(chain) /\ h - 1 \in 0..Len(chain) /\ chain'[h] = chain[h]
      BY <1>1, <1>3
    <3>2. BalanceAt(h, u)' = BalanceAt(h, u) /\ BalanceAt(h - 1, u)' = BalanceAt(h - 1, u)
      BY <1>4, <3>1
    <3> QED
      BY <2>1, <3>1, <3>2 DEF ChainInv
  <2>2. PICK n \in Nat : n = Len(chain)
    BY <1>1
  <2>3. ASSUME NEW u \in Users, u \notin blk.touched
        PROVE  BalanceAt(n + 1, u)' = BalanceAt(n, u)'
    <3>1. BalanceAt(n, u)' = BalanceAt(n, u)
      BY <1>1, <1>4, <2>2
    <3>2. BalanceAt(n + 1, u)' = blk.bal[u]
      BY <1>1, <1>3, <2>2 DEF BalanceAt
    <3> QED
      BY <1>2, <2>2, <2>3, <3>1, <3>2
  <2>4. \A h \in 1..Len(chain'), u \in Users :
          u \notin chain'[h].touched => BalanceAt(h, u)' = BalanceAt(h - 1, u)'
    <3>1. \A h \in 1..Len(chain') : h \in 1..Len(chain) \/ (h = n + 1 /\ h - 1 = n)
      BY <1>1, <1>3, <2>2
    <3>2. chain'[n + 1] = blk
      BY <1>3, <2>2
    <3>3. ASSUME NEW h \in 1..Len(chain'), NEW u \in Users, u \notin chain'[h].touched
          PROVE  BalanceAt(h, u)' = BalanceAt(h - 1, u)'
      <4>1. CASE h \in 1..Len(chain)
        BY <2>1, <3>3, <4>1
      <4>2. CASE h = n + 1 /\ h - 1 = n
        BY <2>3, <3>2, <3>3, <4>2
      <4> QED
        BY <3>1, <4>1, <4>2
    <3> QED
      BY <3>3
  <2>5. Len(chain') > 0 => chain'[1].touched = {}
    BY <1>1, <1>2, <1>3 DEF ChainInv
  <2> QED
    BY <2>4, <2>5 DEF ChainInv
<1>7. DbInv'
  BY <1>1, <1>3, <1>5 DEF DbInv, B
<1>8. ViewInv'
  BY <1>1 DEF ViewInv, B
<1>9. PastInv'
  <2>1. \A h \in 1..height : h \in 0..Len(chain)
    BY <1>1
  <2> QED
    BY <1>1, <1>4, <2>1 DEF PastInv, Right
<1>10. FreshInv'
  <2>1. pc = "balances" => height < Len(chain) /\ B \in 0..Len(chain) /\ B' = B
    BY <1>0, <1>1 DEF HasBlock, B
  <2>2. ASSUME pc = "balances", height = 0, NEW u \in Users
        PROVE  Right(view, B, u)'
    <3>1. BalanceAt(B, u)' = BalanceAt(B, u) /\ B' = B
      BY <1>4, <2>1, <2>2 DEF BalanceAt
    <3>2. Right(view, B, u)
      BY <2>2 DEF FreshInv
    <3> QED
      BY <1>1, <3>1, <3>2 DEF Right
  <2> QED
    BY <1>1, <2>2 DEF FreshInv, SameUserRows
<1>11. UpdateInv' /\ CleanInv'
  BY <1>1 DEF UpdateInv, CleanInv
<1>12. pc \in {"close", "insert", "commit"} =>
         /\ Block' = Block /\ B' = B
         /\ \A u \in Users : BalanceAt(B, u)' = BalanceAt(B, u)
         /\ Block.touched \subseteq Users
  <2>1. pc \in {"close", "insert", "commit"} => height < Len(chain) /\ B \in 0..Len(chain)
    BY <1>0, <1>1 DEF HasBlock
  <2>2. B' = B
    BY <1>1 DEF B
  <2>3. height < Len(chain) => Block.touched \subseteq Users
    BY <1>0, BlockTyped
  <2> QED
    BY <1>4, <1>5, <2>1, <2>2, <2>3 DEF BalanceAt
<1>13. PendingInv'
  BY <1>1, <1>12 DEF PendingInv, RowsAt
<1>14. ReadyInv'
  BY <1>1, <1>12 DEF ReadyInv, Right
<1> QED
  BY <1>6, <1>7, <1>8, <1>9, <1>10, <1>11, <1>13, <1>14

LEMMA BeginBlockStep ==
    ASSUME IInv, BeginBlock
    PROVE  HistInv'
<1>1. UNCHANGED <<chain, height, db, view, pending, found>> /\ pc = "idle" /\ pc' = "modules"
  BY DEF BeginBlock
<1>2. ChainInv' /\ DbInv' /\ ViewInv' /\ PastInv'
  BY <1>1, SameRows DEF IInv
<1> QED
  BY <1>1, <1>2 DEF IInv, HistInv, FreshInv, UpdateInv, CleanInv, PendingInv, ReadyInv, SameUserRows

LEMMA EnforceAccountsStep ==
    ASSUME IInv, EnforceAccounts
    PROVE  HistInv'
<1>1. UNCHANGED <<chain, height, db, view, pending, found, pc>>
  BY DEF EnforceAccounts
<1>2. ChainInv' /\ DbInv' /\ ViewInv' /\ PastInv'
  BY <1>1, SameRows DEF IInv
<1> QED
  BY <1>1, <1>2 DEF IInv, HistInv, FreshInv, UpdateInv, CleanInv, PendingInv, ReadyInv,
                    SameUserRows, Right, BalanceAt, RowsAt, B, Block

LEMMA UnchangedStep ==
    ASSUME IInv, UNCHANGED vars
    PROVE  HistInv'
<1>1. UNCHANGED <<chain, height, db, view, pending, found, pc>>
  BY DEF vars
<1>2. ChainInv' /\ DbInv' /\ ViewInv' /\ PastInv'
  BY <1>1, SameRows DEF IInv
<1> QED
  BY <1>1, <1>2 DEF IInv, HistInv, FreshInv, UpdateInv, CleanInv, PendingInv, ReadyInv,
                    SameUserRows, Right, BalanceAt, RowsAt, B, Block

LEMMA HandleModuleAccountsStep ==
    ASSUME IInv, HandleModuleAccounts
    PROVE  HistInv'
<1> DEFINE new == {NewRow(m, Block.bal[m]) : m \in {m \in Listed : Stale(m)}}
<1>0. /\ TypeInv /\ TypeOK /\ HasBlock /\ ChainInv /\ DbInv /\ ViewInv /\ PastInv
      /\ pc = "modules" /\ pc' \in {"genesis", "balances"}
      /\ pc' = "genesis" <=> B = 1
      /\ view' = Save(view, new)
      /\ UNCHANGED <<chain, height, db, pending, found>>
      /\ pending = {}
      /\ SameUserRows(view, db)
  BY DEF IInv, HistInv, TypeInv, HandleModuleAccounts, PendingInv, FreshInv
<1>1. height \in Nat /\ B = height + 1 /\ view \in SUBSET Rows
  BY <1>0, Heights
<1>2. new \in SUBSET Rows
  <2>1. Block.bal \in [Accounts -> Amounts]
    BY <1>0, BlockTyped DEF HasBlock
  <2>2. \A m \in Modules : Block.bal[m] \in Int /\ m \in Accounts
    BY <2>1, AccountTyped, MembersAreAccounts
  <2>3. \A m \in Modules : NewRow(m, Block.bal[m]) \in Rows
    BY <1>0, <2>2, NewRowTyped
  <2> QED
    BY <2>3 DEF Listed
<1>3. \A n \in new : n.id \in Modules /\ n.lo = B /\ n.hi = Open /\ n.lastUpdatedBlockId = B
  BY NewRowFields DEF Listed
<1> HIDE DEF new
<1>4. SameUserRows(view', view)
  BY <1>0, <1>1, <1>2, <1>3, SaveKeepsUsers
<1>5. SameUserRows(view', db)
  BY <1>0, <1>4 DEF SameUserRows
<1>6. ViewInv'
  <2>1. \A s \in view' : /\ s.lastUpdatedBlockId = s.lo
                         /\ s.lo \in 1..B
                         /\ s.hi = Open \/ s.hi \in 1..B
    BY <1>0, <1>2, <1>3, SaveKeepsView
  <2> QED
    BY <1>0, <2>1 DEF ViewInv, B
<1>7. ChainInv' /\ DbInv'
  BY <1>0, SameChain DEF DbInv, B, Block
<1>8. PastInv'
  <2>1. SameUserRows(view, view')
    BY <1>4 DEF SameUserRows
  <2>2. \A h \in 1..height, u \in Users : Right(db, h, u) /\ Right(view', h, u)
    BY <1>0, <2>1, SameRight DEF PastInv
  <2> QED
    BY <1>0, <2>2 DEF PastInv, Right, BalanceAt
<1>9. FreshInv'
  BY <1>0, <1>1, <1>5 DEF FreshInv, SameUserRows
<1>10. UpdateInv' /\ CleanInv' /\ PendingInv' /\ ReadyInv'
  BY <1>0 DEF UpdateInv, CleanInv, PendingInv, ReadyInv
<1> QED
  BY <1>6, <1>7, <1>8, <1>9, <1>10 DEF HistInv

LEMMA HandleGenesisStep ==
    ASSUME IInv, HandleGenesis
    PROVE  HistInv'
<1> DEFINE rich == {NewRow(u, Genesis[u]) : u \in {u \in Users : Genesis[u] # 0}}
           new == {NewRow(m, Block.bal[m]) : m \in Listed} \cup rich
<1>0. /\ TypeInv /\ TypeOK /\ HasBlock /\ ChainInv /\ DbInv /\ ViewInv
      /\ pc = "genesis" /\ pc' = "balances" /\ height = 0
      /\ view' = Save(view, new)
      /\ UNCHANGED <<chain, height, db, pending, found>>
      /\ pending = {}
      /\ SameUserRows(view, db)
  BY DEF IInv, HistInv, TypeInv, HandleGenesis, PendingInv, FreshInv
<1>1. height \in Nat /\ B = 1 /\ view \in SUBSET Rows /\ height < Len(chain)
      /\ Len(chain) \in Nat
  BY <1>0, Heights DEF HasBlock
<1>2. new \in SUBSET Rows
  <2>1. Block.bal \in [Accounts -> Amounts]
    BY <1>0, BlockTyped DEF HasBlock
  <2>2. \A m \in Modules : Block.bal[m] \in Int /\ m \in Accounts
    BY <2>1, AccountTyped, MembersAreAccounts
  <2>3. \A m \in Modules : NewRow(m, Block.bal[m]) \in Rows
    BY <1>0, <2>2, NewRowTyped
  <2>4. \A u \in Users : Genesis[u] \in Int /\ u \in Accounts
    BY GenesisTyped, MembersAreAccounts
  <2>5. \A u \in Users : NewRow(u, Genesis[u]) \in Rows
    BY <1>0, <2>4, NewRowTyped
  <2> QED
    BY <2>3, <2>5 DEF Listed
<1>3. \A n \in new : n.lo = B /\ n.hi = Open /\ n.lastUpdatedBlockId = B
  BY NewRowFields
<1>4. ViewInv'
  <2> HIDE DEF new
  <2>1. \A s \in view' : /\ s.lastUpdatedBlockId = s.lo
                         /\ s.lo \in 1..B
                         /\ s.hi = Open \/ s.hi \in 1..B
    BY <1>0, <1>2, <1>3, SaveKeepsView
  <2> QED
    BY <1>0, <2>1 DEF ViewInv, B
<1>5. ChainInv' /\ DbInv' /\ PastInv'
  BY <1>0, SameChain DEF DbInv, PastInv, B, Block
<1>6. \A r \in view : r.id \notin Users
  <2>1. Block.touched = {}
    BY <1>0, <1>1 DEF ChainInv, Block
  <2>2. \A r \in db : FALSE
    BY <1>0, <1>1, <2>1 DEF DbInv
  <2> QED
    BY <1>0, <2>2 DEF SameUserRows
<1>7. ASSUME NEW u \in Users
      PROVE  Right(view', B, u)
  <2>1. \A n \in new : n.id \in Users => n \in rich
    BY NewRowFields, BalancesAssumption DEF Listed
  <2>2. \A s \in view' : s.id \in Users => s \in rich
    <3> HIDE DEF new, rich
    <3>1. ASSUME NEW r \in view
          PROVE  CloseAt(r, B).id \notin Users
      BY <1>1, <1>6, <3>1, CloseAtFields
    <3> QED
      BY <1>0, <1>1, <1>2, <1>6, <2>1, <3>1, SaveRows
  <2>3. \A r \in rich : r.id = u => r.amount = Genesis[u]
    BY NewRowFields
  <2>4. Genesis[u] # 0 => NewRow(u, Genesis[u]) \in view'
    BY <1>0 DEF Save
  <2>5. Contains(NewRow(u, Genesis[u]), B) /\ NewRow(u, Genesis[u]).id = u
    BY <1>1, NewRowFields DEF Contains
  <2>6. BalanceAt(B, u) = Genesis[u]
    <3>1. u \notin chain[1].touched /\ 1 \in 1..Len(chain)
      BY <1>0, <1>1 DEF ChainInv
    <3>2. BalanceAt(1, u) = BalanceAt(1 - 1, u)
      BY <1>0, <3>1 DEF ChainInv
    <3>3. BalanceAt(1 - 1, u) = Genesis[u]
      BY DEF BalanceAt
    <3> QED
      BY <1>1, <3>2, <3>3
  <2> HIDE DEF rich, new
  <2> QED
    BY <2>2, <2>3, <2>4, <2>5, <2>6 DEF Right
<1>8. FreshInv'
  <2>1. B' = B
    BY <1>0 DEF B
  <2>2. ASSUME NEW u \in Users
        PROVE  Right(view, B, u)'
    <3>1. Right(view', B, u)
      BY <1>7
    <3>2. BalanceAt(B, u)' = BalanceAt(B, u)
      BY <1>0, <2>1 DEF BalanceAt
    <3> QED
      BY <2>1, <3>1, <3>2 DEF Right
  <2> QED
    BY <1>0, <2>2 DEF FreshInv
<1>9. UpdateInv' /\ CleanInv' /\ PendingInv' /\ ReadyInv'
  BY <1>0 DEF UpdateInv, CleanInv, PendingInv, ReadyInv
<1> QED
  BY <1>4, <1>5, <1>8, <1>9 DEF HistInv

\* While no clean-up is needed, no user row of the view is of this block
\* unless the block touches its user.
LEMMA FreshRows ==
    ASSUME TypeInv, DbInv, height > 0, SameUserRows(view, db),
           NEW r \in view, r.id \in Users
    PROVE  /\ r.hi = Open \/ r.hi \in 1..height
           /\ r.lo \in 1..height \/ (r.lo = B /\ r.id \in Block.touched)
<1>1. r \in db
  BY DEF SameUserRows
<1>2. height \in Nat /\ B = height + 1
  BY Heights
<1> QED
  BY <1>1, <1>2 DEF DbInv

LEMMA IndexBalancesStep ==
    ASSUME IInv, IndexBalances
    PROVE  HistInv'
<1>0. /\ TypeInv /\ TypeOK /\ HasBlock /\ ChainInv /\ DbInv /\ PastInv /\ FreshInv
      /\ pc = "balances"
      /\ pc' = IF Block.touched = {} THEN "commit" ELSE "cleanup"
      /\ UNCHANGED <<chain, height, db, view, pending, found>>
      /\ pending = {}
  BY DEF IInv, HistInv, TypeInv, IndexBalances, PendingInv
<1>1. height \in Nat /\ B = height + 1 /\ view \in SUBSET Rows /\ height < Len(chain)
      /\ Len(chain) \in Nat
  BY <1>0, Heights DEF HasBlock
<1>2. ChainInv' /\ DbInv' /\ ViewInv' /\ PastInv'
  BY <1>0, SameRows DEF IInv
<1>3. Block.touched # {} => height > 0
  BY <1>0, <1>1 DEF ChainInv, Block
<1>4. FreshInv' /\ UpdateInv' /\ CleanInv' /\ PendingInv'
  BY <1>0, <1>1, <1>3 DEF FreshInv, UpdateInv, CleanInv, PendingInv, SameUserRows
<1>5. ASSUME Block.touched = {}, NEW u \in Users
      PROVE  Right(view, B, u)
  <2>1. CASE height = 0
    BY <1>0, <2>1 DEF FreshInv
  <2>2. CASE height > 0
    <3>1. SameUserRows(view, db)
      BY <1>0, <2>2 DEF FreshInv
    <3>2. \A r \in view : r.id \in Users =>
            r.lo \in 1..height /\ (r.hi = Open \/ r.hi \in 1..height)
      BY <1>0, <1>5, <2>2, <3>1, FreshRows
    <3>3. Right(view, height, u)
      BY <1>0, <1>1, <2>2 DEF PastInv
    <3> QED
      BY <1>0, <1>1, <1>5, <2>2, <3>2, <3>3, Carry
  <2> QED
    BY <1>1, <2>1, <2>2
<1>6. ReadyInv'
  <2>1. B' = B /\ view \cup pending = view /\ view' \cup pending' = view'
    BY <1>0 DEF B
  <2>2. ASSUME pc' = "commit", NEW u \in Users
        PROVE  Right(view \cup pending, B, u)'
    <3>1. Right(view, B, u)
      BY <1>0, <1>5, <2>2
    <3>2. BalanceAt(B, u)' = BalanceAt(B, u)
      BY <1>0, <2>1 DEF BalanceAt
    <3> QED
      BY <1>0, <2>1, <3>1, <3>2 DEF Right
  <2> QED
    BY <1>0, <2>2 DEF ReadyInv
<1> QED
  BY <1>2, <1>4, <1>6 DEF HistInv

LEMMA CleanupStep ==
    ASSUME IInv, Cleanup
    PROVE  HistInv'
<1>0. /\ TypeInv /\ TypeOK /\ ChainInv /\ DbInv /\ ViewInv /\ PastInv /\ FreshInv
      /\ pc = "cleanup" /\ pc' = "read" /\ height > 0
      /\ view' = CleanedUp(view)
      /\ UNCHANGED <<chain, height, db, pending, found>>
      /\ pending = {}
      /\ SameUserRows(view, db)
  BY DEF IInv, HistInv, TypeInv, Cleanup, PendingInv, FreshInv, UpdateInv
<1>1. height \in Nat /\ B = height + 1 /\ B \in Nat /\ view \in SUBSET Rows
  BY <1>0, Heights
<1>2. ASSUME NEW s \in view'
      PROVE  \E r \in view : r.lastUpdatedBlockId # B /\ s = IF r.hi = B THEN Reopen(r) ELSE r
  BY <1>0, <1>2 DEF CleanedUp
<1>3. ASSUME NEW s \in view', s.id \in Users
      PROVE  s \in view /\ s.lo \in 1..height /\ (s.hi = Open \/ s.hi \in 1..height)
  <2>1. PICK r \in view : /\ r.lastUpdatedBlockId # B
                          /\ s = IF r.hi = B THEN Reopen(r) ELSE r
    BY <1>2, <1>3
  <2>2. r.id \in Users
    BY <1>1, <1>3, <2>1, ReopenFields
  <2>3. (r.hi = Open \/ r.hi \in 1..height) /\ r.lo = r.lastUpdatedBlockId
    BY <1>0, <2>2, FreshRows DEF ViewInv
  <2>4. s = r
    BY <1>1, <2>1, <2>3 DEF Open
  <2> QED
    BY <1>0, <1>1, <2>1, <2>2, <2>3, <2>4, FreshRows
<1>4. ASSUME NEW r \in view, r.id \in Users, r.lo \in 1..height
      PROVE  r \in view'
  <2>1. (r.hi = Open \/ r.hi \in 1..height) /\ r.lo = r.lastUpdatedBlockId
    BY <1>0, <1>4, FreshRows DEF ViewInv
  <2>2. r.lastUpdatedBlockId # B /\ r.hi # B
    BY <1>1, <1>4, <2>1 DEF Open
  <2> QED
    BY <1>0, <2>2 DEF CleanedUp
<1>5. ViewInv'
  <2>1. ASSUME NEW s \in view'
        PROVE  s.lastUpdatedBlockId = s.lo /\ s.lo \in 1..B /\ (s.hi = Open \/ s.hi \in 1..B)
    BY <1>0, <1>1, <1>2, ReopenFields DEF ViewInv
  <2> QED
    BY <1>0, <2>1 DEF ViewInv, B
<1>6. ASSUME NEW h \in 1..height, NEW u \in Users
      PROVE  Right(view', h, u)
  <2>1. Right(view, h, u)
    BY <1>0, <1>6 DEF PastInv
  <2>2. \A r \in view : r.id = u /\ Contains(r, h) => r.lo \in 1..height
    BY <1>0, <1>1, RowFields DEF Contains, ViewInv
  <2> QED
    BY <1>3, <1>4, <2>1, <2>2 DEF Right
<1>7. PastInv'
  BY <1>0, <1>6 DEF PastInv, Right, BalanceAt
<1>8. ChainInv' /\ DbInv'
  BY <1>0, SameChain DEF DbInv, B, Block
<1>9. CleanInv'
  BY <1>0, <1>3 DEF CleanInv
<1>10. FreshInv' /\ UpdateInv' /\ PendingInv' /\ ReadyInv'
  BY <1>0 DEF FreshInv, UpdateInv, PendingInv, ReadyInv
<1> QED
  BY <1>5, <1>7, <1>8, <1>9, <1>10 DEF HistInv

LEMMA ReadStep ==
    ASSUME IInv, Read
    PROVE  HistInv'
<1>0. /\ TypeInv /\ TypeOK /\ HasBlock /\ PastInv /\ CleanInv
      /\ pc = "read" /\ pc' = "close" /\ height > 0
      /\ found' = {u \in Block.touched : RowsAt(view, u, B) # {}}
      /\ UNCHANGED <<chain, height, db, view>>
  BY DEF IInv, HistInv, TypeInv, Read, UpdateInv
<1>1. height \in Nat /\ B = height + 1 /\ view \in SUBSET Rows /\ height < Len(chain)
      /\ Len(chain) \in Nat
  BY <1>0, Heights DEF HasBlock
<1>2. Block.touched \subseteq Users
  BY <1>0, <1>1, BlockTyped
<1>3. PICK current \in [Block.touched -> UNION {CurrentAmounts(u) : u \in Block.touched}] :
        /\ \A u \in Block.touched : current[u] \in CurrentAmounts(u)
        /\ pending' = {NewRow(u, current[u] + Change(u)) : u \in Block.touched}
  BY DEF Read
<1>4. ASSUME NEW u \in Block.touched
      PROVE  current[u] = BalanceAt(height, u)
  <2>1. Right(view, height, u)
    BY <1>0, <1>1, <1>2 DEF PastInv
  <2>2. \A r \in view : r.id = u => (Contains(r, B) <=> Contains(r, height))
    BY <1>0, <1>1, <1>2 DEF CleanInv, Contains, Open
  <2>3. CASE RowsAt(view, u, B) = {}
    <3>1. current[u] = 0
      BY <1>3, <2>3 DEF CurrentAmounts
    <3>2. \A r \in view : ~(r.id = u /\ Contains(r, height))
      BY <2>2, <2>3 DEF RowsAt
    <3> QED
      BY <2>1, <3>1, <3>2 DEF Right
  <2>4. CASE RowsAt(view, u, B) # {}
    <3>1. PICK r \in RowsAt(view, u, B) : current[u] = r.amount
      BY <1>3, <2>4 DEF CurrentAmounts
    <3> QED
      BY <2>1, <2>2, <3>1 DEF Right, RowsAt
  <2> QED
    BY <2>3, <2>4
<1>5. ASSUME NEW u \in Block.touched
      PROVE  current[u] + Change(u) = BalanceAt(B, u)
  <2>1. BalanceAt(height, u) \in Int /\ BalanceAt(B, u) \in Int
    <3>1. height \in 0..Len(chain) /\ B \in 0..Len(chain) /\ u \in Users
      BY <1>1, <1>2
    <3> QED
      BY <1>0, <3>1, BalanceTyped
  <2>2. BalanceAt(B, u) = Block.bal[u]
    BY <1>1 DEF BalanceAt, Block
  <2> QED
    BY <1>4, <2>1, <2>2 DEF Change
<1>6. \A p \in pending' : /\ p.id \in Block.touched
                           /\ p.lo = B /\ p.lastUpdatedBlockId = B /\ p.hi = Open
                           /\ p.amount = BalanceAt(B, p.id)
  BY <1>3, <1>5, NewRowFields
<1>7. \A u \in Block.touched : \E p \in pending' : p.id = u
  BY <1>3, NewRowFields
<1>8. PendingInv'
  BY <1>0, <1>6, <1>7 DEF PendingInv, RowsAt, BalanceAt, B, Block
<1>9. ChainInv' /\ DbInv' /\ ViewInv' /\ PastInv'
  BY <1>0, SameRows DEF IInv
<1>10. FreshInv' /\ UpdateInv' /\ CleanInv' /\ ReadyInv'
  BY <1>0 DEF FreshInv, UpdateInv, CleanInv, ReadyInv
<1> QED
  BY <1>8, <1>9, <1>10 DEF HistInv

LEMMA CloseStep ==
    ASSUME IInv, Close
    PROVE  HistInv'
<1>0. /\ TypeInv /\ TypeOK /\ HasBlock /\ ChainInv /\ DbInv /\ ViewInv /\ PastInv
      /\ CleanInv /\ PendingInv
      /\ pc = "close" /\ pc' = "insert" /\ height > 0
      /\ view' = Closed(view)
      /\ UNCHANGED <<chain, height, db, pending, found>>
  BY DEF IInv, HistInv, TypeInv, Close, UpdateInv
<1>1. height \in Nat /\ B = height + 1 /\ B \in Nat /\ view \in SUBSET Rows
      /\ height < Len(chain) /\ Len(chain) \in Nat
  BY <1>0, Heights DEF HasBlock
<1>2. /\ Block.touched \subseteq Users
      /\ found = {u \in Block.touched : RowsAt(view, u, B) # {}}
      /\ \A u \in Block.touched : \E r \in pending : r.id = u
      /\ \A r \in pending : /\ r.id \in Block.touched
                            /\ r.lo = B /\ r.hi = Open /\ r.amount = BalanceAt(B, r.id)
  BY <1>0, <1>1, BlockTyped DEF PendingInv
<1> DEFINE image(r) == IF r.id \in found /\ Contains(r, B) THEN CloseAt(r, B) ELSE r
<1>3. view' = {image(r) : r \in view}
  BY <1>0 DEF Closed
<1>4. ASSUME NEW r \in view
      PROVE  /\ image(r).id = r.id /\ image(r).amount = r.amount
             /\ image(r).lo = r.lo /\ image(r).lastUpdatedBlockId = r.lastUpdatedBlockId
             /\ image(r).hi = IF r.id \in found /\ Contains(r, B) THEN B ELSE r.hi
  BY <1>1, CloseAtFields
<1> HIDE DEF image
<1>5. ViewInv'
  <2>1. \A s \in view' : /\ s.lastUpdatedBlockId = s.lo /\ s.lo \in 1..B
                         /\ s.hi = Open \/ s.hi \in 1..B
    BY <1>0, <1>1, <1>3, <1>4 DEF ViewInv
  <2> QED
    BY <1>0, <2>1 DEF ViewInv, B
<1>6. ASSUME NEW r \in view, r.id \in Users, NEW h \in 1..height
      PROVE  Contains(image(r), h) <=> Contains(r, h)
  <2>1. /\ r.lo \in 1..height
        /\ r.hi = Open \/ r.hi \in 1..height
    BY <1>0, <1>6 DEF CleanInv
  <2>2. CASE r.id \in found /\ Contains(r, B)
    <3>1. r.hi = Open /\ image(r).hi = B /\ image(r).lo = r.lo
      BY <1>1, <1>4, <2>1, <2>2 DEF Contains
    <3> QED
      BY <1>1, <3>1 DEF Contains, Open
  <2>3. CASE ~(r.id \in found /\ Contains(r, B))
    BY <2>3 DEF image
  <2> QED
    BY <2>2, <2>3
<1>7. ASSUME NEW h \in 1..height, NEW u \in Users
      PROVE  Right(view', h, u)
  <2>1. Right(view, h, u)
    BY <1>0, <1>7 DEF PastInv
  <2> QED
    BY <1>3, <1>4, <1>6, <2>1 DEF Right
<1>8. PastInv'
  BY <1>0, <1>7 DEF PastInv, Right, BalanceAt
<1>9. ASSUME NEW u \in Users
      PROVE  Right(view' \cup pending, B, u)
  <2>1. CASE u \in Block.touched
    <3>1. ASSUME NEW r \in view, r.id = u
          PROVE  ~Contains(image(r), B)
      <4>1. CASE Contains(r, B)
        <5>1. u \in found
          BY <1>2, <2>1, <3>1, <4>1 DEF RowsAt
        <5>2. image(r).hi = B
          BY <1>4, <3>1, <4>1, <5>1
        <5> QED
          BY <1>1, <5>2 DEF Contains, Open
      <4>2. CASE ~Contains(r, B)
        BY <4>2 DEF image
      <4> QED
        BY <4>1, <4>2
    <3>2. \A p \in pending : p.id = u => p.amount = BalanceAt(B, u)
      BY <1>2
    <3>3. PICK p \in pending : p.id = u
      BY <1>2, <2>1
    <3>4. Contains(p, B)
      BY <1>1, <1>2 DEF Contains
    <3> QED
      BY <1>3, <1>4, <3>1, <3>2, <3>3, <3>4 DEF Right
  <2>2. CASE u \notin Block.touched
    <3>1. u \notin found /\ \A p \in pending : p.id # u
      BY <1>2, <2>2
    <3>2. \A r \in view : r.id = u => image(r) = r
      BY <3>1 DEF image
    <3>3. Right(view, height, u)
      BY <1>0, <1>1 DEF PastInv
    <3>4. Right(view, B, u)
      BY <1>0, <1>1, <2>2, <3>3, Carry DEF CleanInv
    <3> QED
      BY <1>3, <1>4, <3>1, <3>2, <3>4 DEF Right
  <2> QED
    BY <2>1, <2>2
<1>10. ReadyInv'
  <2>1. B' = B /\ \A u \in Users : BalanceAt(B, u)' = BalanceAt(B, u)
    BY <1>0 DEF B, BalanceAt
  <2>2. \A u \in Users : Right(view \cup pending, B, u)'
    BY <1>0, <1>9, <2>1 DEF Right
  <2> QED
    BY <2>2 DEF ReadyInv
<1>11. ChainInv' /\ DbInv'
  BY <1>0, SameChain DEF DbInv, B, Block
<1>12. PendingInv'
  BY <1>0 DEF PendingInv, BalanceAt, B, Block
<1>13. FreshInv' /\ UpdateInv' /\ CleanInv'
  BY <1>0 DEF FreshInv, UpdateInv, CleanInv
<1> QED
  BY <1>5, <1>8, <1>10, <1>11, <1>12, <1>13 DEF HistInv

LEMMA InsertBatchStep ==
    ASSUME IInv, InsertBatch
    PROVE  HistInv'
<1>1. PICK batch \in (SUBSET pending) \ {{}} :
        /\ db' = db \cup batch /\ view' = view \cup batch /\ pending' = pending \ batch
        /\ pc' = IF pending = batch THEN "commit" ELSE "insert"
  BY DEF InsertBatch
<1>0. /\ TypeInv /\ TypeOK /\ HasBlock /\ ChainInv /\ DbInv /\ ViewInv /\ PastInv
      /\ PendingInv /\ ReadyInv
      /\ pc = "insert" /\ pc' \in {"insert", "commit"} /\ height > 0
      /\ UNCHANGED <<chain, height, found>>
  BY <1>1 DEF IInv, HistInv, TypeInv, InsertBatch, UpdateInv
<1>2. height \in Nat /\ B = height + 1 /\ B \in Nat /\ height < Len(chain)
  BY <1>0, Heights DEF HasBlock
<1>3. \A r \in batch : /\ r.id \in Block.touched
                       /\ r.lo = B /\ r.lastUpdatedBlockId = B /\ r.hi = Open
  BY <1>0, <1>1 DEF PendingInv
<1>4. DbInv'
  BY <1>0, <1>1, <1>2, <1>3 DEF DbInv, B, Block
<1>5. ViewInv'
  BY <1>0, <1>1, <1>2, <1>3 DEF ViewInv, B
<1>6. PastInv'
  <2>1. \A r \in batch, h \in 1..height : ~Contains(r, h)
    BY <1>2, <1>3 DEF Contains
  <2>2. \A h \in 1..height, u \in Users : Right(db', h, u) /\ Right(view', h, u)
    BY <1>0, <1>1, <2>1 DEF PastInv, Right
  <2> QED
    BY <1>0, <2>2 DEF PastInv, Right, BalanceAt
<1>7. PendingInv'
  BY <1>0, <1>1 DEF PendingInv, BalanceAt, B, Block
<1>8. ReadyInv'
  <2>1. view' \cup pending' = view \cup pending
    BY <1>1
  <2>2. B' = B /\ \A u \in Users : BalanceAt(B, u)' = BalanceAt(B, u)
    BY <1>0 DEF B, BalanceAt
  <2>3. \A u \in Users : Right(view \cup pending, B, u)
    BY <1>0 DEF ReadyInv
  <2>4. \A u \in Users : Right(view \cup pending, B, u)'
    BY <2>1, <2>2, <2>3 DEF Right
  <2> QED
    BY <2>4 DEF ReadyInv
<1>9. ChainInv'
  BY <1>0, SameChain
<1>10. FreshInv' /\ UpdateInv' /\ CleanInv'
  BY <1>0 DEF FreshInv, UpdateInv, CleanInv
<1> QED
  BY <1>4, <1>5, <1>6, <1>7, <1>8, <1>9, <1>10 DEF HistInv

LEMMA CommitStep ==
    ASSUME IInv, Commit
    PROVE  HistInv'
<1>0. /\ TypeInv /\ TypeOK /\ HasBlock /\ ChainInv /\ ViewInv /\ PastInv /\ ReadyInv
      /\ pc = "commit" /\ pc' = "idle" /\ pending = {}
      /\ db' = view /\ view' = view /\ height' = B
      /\ UNCHANGED <<chain, pending>>
  BY DEF IInv, HistInv, TypeInv, Commit, PendingInv
<1>1. height \in Nat /\ B = height + 1 /\ B \in Nat /\ B' = B + 1
  BY <1>0, Heights DEF B
<1>2. DbInv'
  BY <1>0, <1>1 DEF DbInv, ViewInv
<1>3. ViewInv'
  BY <1>0, <1>1 DEF ViewInv
<1>4. ASSUME NEW h \in 1..height', NEW u \in Users
      PROVE  Right(view, h, u)
  <2>1. CASE h \in 1..height
    BY <1>0, <2>1 DEF PastInv
  <2>2. CASE h = B
    <3>1. view \cup pending = view
      BY <1>0
    <3>2. Right(view \cup pending, B, u)
      BY <1>0 DEF ReadyInv
    <3> QED
      BY <2>2, <3>1, <3>2
  <2> QED
    BY <1>0, <1>1, <2>1, <2>2
<1>5. PastInv'
  BY <1>0, <1>4 DEF PastInv, Right, BalanceAt
<1>6. ChainInv'
  BY <1>0, SameChain
<1>7. FreshInv' /\ UpdateInv' /\ CleanInv' /\ PendingInv' /\ ReadyInv'
  BY <1>0 DEF FreshInv, UpdateInv, CleanInv, PendingInv, ReadyInv, SameUserRows
<1> QED
  BY <1>2, <1>3, <1>5, <1>6, <1>7 DEF HistInv

LEMMA CrashStep ==
    ASSUME IInv, Crash
    PROVE  HistInv'
<1>0. /\ TypeInv /\ ChainInv /\ DbInv /\ PastInv
      /\ pc' = "idle" /\ pending' = {} /\ view' = db
      /\ UNCHANGED <<chain, height, db>>
  BY DEF IInv, HistInv, Crash
<1>1. height \in Nat /\ B = height + 1
  BY <1>0, Heights
<1>2. ChainInv' /\ DbInv'
  BY <1>0, SameChain DEF DbInv, B, Block
<1>3. ViewInv'
  BY <1>0, <1>1 DEF DbInv, ViewInv, B
<1>4. PastInv'
  BY <1>0 DEF PastInv, Right, BalanceAt
<1>5. FreshInv' /\ UpdateInv' /\ CleanInv' /\ PendingInv' /\ ReadyInv'
  BY <1>0 DEF FreshInv, UpdateInv, CleanInv, PendingInv, ReadyInv, SameUserRows
<1> QED
  BY <1>2, <1>3, <1>4, <1>5 DEF HistInv

LEMMA HistStep == IInv /\ [Next]_vars => HistInv'
BY ProduceStep, BeginBlockStep, HandleModuleAccountsStep, HandleGenesisStep, IndexBalancesStep,
   CleanupStep, ReadStep, CloseStep, InsertBatchStep, EnforceAccountsStep, CommitStep, CrashStep,
   UnchangedStep DEF Next, Handler

LEMMA Invariance == Spec /\ ~GenesisTxs => []IInv
<1>1. Init /\ ~GenesisTxs => IInv
  BY TypeInit, HistInit DEF IInv
<1>2. IInv /\ [Next]_vars => IInv'
  BY TypeStep, HistStep DEF IInv
<1> QED
  BY <1>1, <1>2, PTL DEF Spec

\* However often the attempts at a block fail, and whatever rows they leave
\* behind, the index answers every height it has reached with the balance the
\* chain had then: updateBalances applies each block exactly once.  (Provided
\* that block 1 has no coin events of users: see GenesisBalancesKept.)
THEOREM HistoryCorrect == Spec /\ ~GenesisTxs => []HistoryExact
<1>1. IInv => HistoryExact
  BY DEF IInv, HistInv, PastInv, Right, HistoryExact, RowsAt
<1> QED
  BY <1>1, Invariance, PTL

-----------------------------------------------------------------------------
(* The rows of Balance, whatever their amounts: one version of a balance is *)
(* in force at a height, and its account exists.  Neither needs the         *)
(* assumption on block 1 that HistoryCorrect makes.                         *)

\* No two rows of one account are in force at h, unless the account is in
\* Except.
Alone(S, h, Except) ==
    \A r, s \in S :
        /\ r.id = s.id /\ r.id \notin Except
        /\ Contains(r, h) /\ Contains(s, h)
        => r = s

\* The accounts a failed attempt may have left rows of this block for.
Touched == IF height < Len(chain) THEN Block.touched ELSE {}

PendingRows ==
    /\ pc \notin {"close", "insert"} => pending = {}
    /\ \A r, s \in pending : r.id = s.id => r = s
    /\ \A r \in pending :
        /\ r.id \in Touched
        /\ r.lo = B /\ r.lastUpdatedBlockId = B /\ r.hi = Open

\* At every indexed height a balance has one version, in the committed rows
\* and in those the block transaction sees.
PastAlone == \A h \in 1..height : Alone(db, h, {}) /\ Alone(view, h, {})

\* Before the clean-up the leftovers of failed attempts are the only doubles.
EarlyAlone ==
    pc \in {"idle", "modules", "genesis", "balances"} => Alone(view, B, Touched)

\* After the clean-up no row is of this block, and none is closed by it.
ReadClean ==
    pc \in {"read", "close"} =>
        \A r \in view : r.lo \in 1..height /\ (r.hi = Open \/ r.hi \in 1..height)

\* What found holds covers every row that is to be closed.
FoundAll ==
    pc = "close" =>
        \A r \in view : r.id \in Touched /\ Contains(r, B) => r.id \in found

\* Once the old rows are closed, they and the rows still to insert are alone.
LateAlone ==
    pc \in {"insert", "commit"} => Alone(view \cup pending, B, {})

\* The rows of the view have accounts, or will have before the commit.
AccountInv ==
    /\ \A r \in db : r.lo <= height => r.id \in accounts
    /\ pc \in {"idle", "modules"} =>
        \A r \in view : r.id \in accounts \cup Touched
    /\ pc \in {"genesis", "balances"} =>
        \A r \in view : r.id \in accounts \cup toEnforce \cup Touched
    /\ pc \in {"cleanup", "read", "close", "insert", "commit"} =>
        /\ \A r \in view : r.id \in accounts \cup toEnforce
        /\ Touched \subseteq accounts \cup toEnforce

RowsInv ==
    /\ DbInv /\ ViewInv /\ PendingRows
    /\ PastAlone /\ EarlyAlone /\ ReadClean /\ FoundAll /\ LateAlone
    /\ AccountInv

RowInv == TypeInv /\ RowsInv

-----------------------------------------------------------------------------
(* Lemmas about rows in force *)

\* Where a saved row comes from.
LEMMA SaveOrigin ==
    ASSUME TypeInv, NEW S \in SUBSET Rows, NEW new \in SUBSET Rows,
           NEW s \in Save(S, new), s \notin new
    PROVE  \E r \in S :
             /\ r.id = s.id
             /\ \/ /\ s = r
                   /\ (\A n \in new : n.id # r.id) \/ ~(r.lo = B \/ Contains(r, B))
                \/ /\ s = CloseAt(r, B)
                   /\ r.lo # B /\ Contains(r, B)
                   /\ \E n \in new : n.id = r.id
<1>1. B \in Nat
  BY Heights
<1>2. \A r \in S : CloseAt(r, B).id = r.id
  BY <1>1, CloseAtFields
<1> QED
  BY <1>2 DEF Save

\* Saving rows of this block leaves one version in force where there was one.
LEMMA SaveAlone ==
    ASSUME TypeInv, NEW S \in SUBSET Rows, NEW new \in SUBSET Rows,
           \A n \in new : n.lo = B,
           \A m, n \in new : m.id = n.id => m = n
    PROVE  /\ \A h \in 1..height : Alone(S, h, {}) => Alone(Save(S, new), h, {})
           /\ \A X : Alone(S, B, X) => Alone(Save(S, new), B, X)
<1>1. height \in Nat /\ B = height + 1 /\ B \in Nat
  BY Heights
<1>2. ASSUME NEW h \in 1..height, Alone(S, h, {}),
             NEW s \in Save(S, new), NEW t \in Save(S, new),
             s.id = t.id, Contains(s, h), Contains(t, h)
      PROVE  s = t
  <2>1. s \notin new /\ t \notin new
    BY <1>1, <1>2 DEF Contains
  <2>2. PICK r \in S :
             /\ r.id = s.id
             /\ \/ /\ s = r
                   /\ (\A n \in new : n.id # r.id) \/ ~(r.lo = B \/ Contains(r, B))
                \/ /\ s = CloseAt(r, B)
                   /\ r.lo # B /\ Contains(r, B)
                   /\ \E n \in new : n.id = r.id
    BY <2>1, SaveOrigin
  <2>3. PICK q \in S :
             /\ q.id = t.id
             /\ \/ /\ t = q
                   /\ (\A n \in new : n.id # q.id) \/ ~(q.lo = B \/ Contains(q, B))
                \/ /\ t = CloseAt(q, B)
                   /\ q.lo # B /\ Contains(q, B)
                   /\ \E n \in new : n.id = q.id
    BY <2>1, SaveOrigin
  <2>4. ASSUME NEW x \in S, NEW y, Contains(y, h),
               \/ y = x
               \/ y = CloseAt(x, B) /\ Contains(x, B)
        PROVE  Contains(x, h)
    <3>1. CASE y = x
      BY <2>4, <3>1
    <3>2. CASE y = CloseAt(x, B) /\ Contains(x, B)
      <4>1. x.lo <= h
        BY <1>1, <2>4, <3>2, CloseAtFields DEF Contains
      <4>2. x.hi \in Nat
        BY RowFields
      <4> QED
        BY <1>1, <3>2, <4>1, <4>2 DEF Contains
    <3> QED
      BY <2>4, <3>1, <3>2
  <2>5. Contains(r, h) /\ Contains(q, h)
    BY <1>2, <2>2, <2>3, <2>4
  <2>6. r = q
    BY <1>2, <2>2, <2>3, <2>5 DEF Alone
  <2> QED
    BY <2>2, <2>3, <2>6
<1>3. ASSUME NEW X, Alone(S, B, X),
             NEW s \in Save(S, new), NEW t \in Save(S, new),
             s.id = t.id, s.id \notin X, Contains(s, B), Contains(t, B)
      PROVE  s = t
  <2>1. ASSUME NEW x \in Save(S, new), Contains(x, B), x \notin new
        PROVE  x \in S /\ \A n \in new : n.id # x.id
    <3>1. \A r \in S : ~Contains(CloseAt(r, B), B)
      BY <1>1, CloseAtFields DEF Contains, Open
    <3> QED
      BY <2>1, <3>1, SaveOrigin
  <2>2. CASE s \in new /\ t \in new
    BY <1>3, <2>2
  <2>3. CASE s \notin new /\ t \notin new
    BY <1>3, <2>1, <2>3 DEF Alone
  <2> QED
    BY <1>3, <2>1, <2>2, <2>3
<1> QED
  BY <1>2, <1>3 DEF Alone

\* Rows none of which is of this block are in force now if they were before.
LEMMA AloneNext ==
    ASSUME TypeInv, NEW S \in SUBSET Rows,
           NEW T \in SUBSET S,
           \A r \in T : r.lo \in 1..height /\ (r.hi = Open \/ r.hi \in 1..height),
           height > 0 => Alone(S, height, {})
    PROVE  Alone(T, B, {})
<1>1. height \in Nat /\ B = height + 1
  BY Heights
<1>2. \A r \in T : Contains(r, B) => height > 0 /\ Contains(r, height)
  BY <1>1 DEF Contains, Open
<1> QED
  BY <1>2 DEF Alone

LEMMA AloneLess ==
    ASSUME NEW S, NEW h, NEW X, NEW Y, X \subseteq Y, Alone(S, h, X)
    PROVE  Alone(S, h, Y)
BY DEF Alone

LEMMA TouchedTyped ==
    ASSUME TypeInv
    PROVE  /\ Touched \subseteq Users
           /\ pc # "idle" => Touched = Block.touched /\ height < Len(chain)
<1>1. height < Len(chain) => Block.touched \subseteq Users
  BY BlockTyped DEF TypeInv
<1> QED
  BY <1>1 DEF Touched, TypeInv, HasBlock

\* What depends on the chain and the height only.
LEMMA SameBlock ==
    ASSUME UNCHANGED <<chain, height>>
    PROVE  B' = B /\ Block' = Block /\ Touched' = Touched
BY DEF B, Block, Touched

\* A step that leaves the rows alone leaves what is said of them alone.
LEMMA SameRowsInForce ==
    ASSUME RowsInv, UNCHANGED <<chain, height, db, view>>
    PROVE  DbInv' /\ ViewInv' /\ PastAlone'
BY SameBlock DEF RowsInv, DbInv, ViewInv, PastAlone, Alone, Contains

-----------------------------------------------------------------------------
(* Every action preserves the invariant *)

LEMMA RowsInit == Init => RowsInv
BY DEF Init, RowsInv, DbInv, ViewInv, PendingRows, PastAlone, EarlyAlone, ReadClean,
       FoundAll, LateAlone, AccountInv, Alone

LEMMA RowsProduce ==
    ASSUME RowInv, Produce
    PROVE  RowsInv'
<1>0. TypeInv /\ TypeOK /\ HasBlock /\ RowsInv
  BY DEF RowInv, TypeInv
<1>1. /\ height \in Nat /\ Len(chain) \in Nat /\ height <= Len(chain)
      /\ UNCHANGED <<height, crashes, db, accounts, view, toEnforce, pending, found, pc>>
  BY <1>0, Heights DEF Produce, txVars
<1>2. /\ Len(chain') = Len(chain) + 1
      /\ \A h \in 1..Len(chain) : chain'[h] = chain[h]
  BY <1>0, ChainGrows DEF Produce
<1>3. height < Len(chain) => Block' = Block /\ height < Len(chain')
  BY <1>1, <1>2 DEF Block, B
<1>4. B' = B /\ Touched \subseteq Touched'
      /\ (pc # "idle" => Touched' = Touched)
  BY <1>0, <1>1, <1>3 DEF B, Touched, HasBlock
<1>5. DbInv' /\ ViewInv'
  BY <1>0, <1>1, <1>3, <1>4 DEF RowsInv, DbInv, ViewInv
<1>6. EarlyAlone'
  <2>1. ASSUME pc \in {"idle", "modules", "genesis", "balances"}
        PROVE  Alone(view, B, Touched')
    BY <1>0, <1>4, <2>1, AloneLess DEF RowsInv, EarlyAlone
  <2> QED
    BY <1>1, <1>4, <2>1 DEF EarlyAlone, Alone, Contains
<1>7. PendingRows'
  BY <1>0, <1>1, <1>4 DEF RowsInv, PendingRows
<1>8. PastAlone' /\ ReadClean' /\ FoundAll' /\ LateAlone'
  BY <1>0, <1>1, <1>4 DEF RowsInv, PastAlone, ReadClean, FoundAll, LateAlone, Alone, Contains
<1>9. AccountInv'
  BY <1>0, <1>1, <1>4 DEF RowsInv, AccountInv
<1> QED
  BY <1>5, <1>6, <1>7, <1>8, <1>9 DEF RowsInv

LEMMA RowsBeginBlock ==
    ASSUME RowInv, BeginBlock
    PROVE  RowsInv'
<1>1. /\ UNCHANGED <<chain, height, db, view, pending, found, accounts, toEnforce>>
      /\ pc = "idle" /\ pc' = "modules" /\ RowsInv
  BY DEF BeginBlock, RowInv
<1>2. DbInv' /\ ViewInv' /\ PastAlone'
  BY <1>1, SameRowsInForce
<1>3. EarlyAlone' /\ PendingRows'
  BY <1>1, SameBlock DEF RowsInv, EarlyAlone, PendingRows, Alone, Contains
<1> QED
  BY <1>1, <1>2, <1>3, SameBlock DEF RowsInv, ReadClean, FoundAll, LateAlone, AccountInv

LEMMA RowsHandleModuleAccounts ==
    ASSUME RowInv, HandleModuleAccounts
    PROVE  RowsInv'
<1> DEFINE new == {NewRow(m, Block.bal[m]) : m \in {m \in Listed : Stale(m)}}
<1>0. /\ TypeInv /\ TypeOK /\ HasBlock /\ RowsInv
      /\ pc = "modules" /\ pc' \in {"genesis", "balances"}
      /\ view' = Save(view, new)
      /\ toEnforce' = Modules
      /\ UNCHANGED <<chain, height, db, accounts, pending, found>>
  BY DEF RowInv, TypeInv, HandleModuleAccounts
<1>1. view \in SUBSET Rows
  BY <1>0, Heights
<1>2. new \in SUBSET Rows
  <2>1. Block.bal \in [Accounts -> Amounts]
    BY <1>0, BlockTyped DEF HasBlock
  <2>2. \A m \in Modules : Block.bal[m] \in Int /\ m \in Accounts
    BY <2>1, AccountTyped, MembersAreAccounts
  <2>3. \A m \in Modules : NewRow(m, Block.bal[m]) \in Rows
    BY <1>0, <2>2, NewRowTyped
  <2> QED
    BY <2>3 DEF Listed
<1>3. \A n \in new : n.id \in Modules /\ n.lo = B /\ n.hi = Open /\ n.lastUpdatedBlockId = B
  BY NewRowFields DEF Listed
<1>4. \A m, n \in new : m.id = n.id => m = n
  BY NewRowFields
<1> HIDE DEF new
<1>5. B' = B /\ Touched' = Touched
  BY <1>0, SameBlock
<1>6. DbInv'
  BY <1>0, SameBlock DEF RowsInv, DbInv
<1>7. ViewInv'
  <2>1. \A s \in view' : /\ s.lastUpdatedBlockId = s.lo
                         /\ s.lo \in 1..B
                         /\ s.hi = Open \/ s.hi \in 1..B
    BY <1>0, <1>2, <1>3, SaveKeepsView DEF RowsInv
  <2> QED
    BY <1>5, <2>1 DEF ViewInv
<1>8. PastAlone'
  <2>1. \A h \in 1..height : Alone(db, h, {}) /\ Alone(view', h, {})
    BY <1>0, <1>1, <1>2, <1>3, <1>4, SaveAlone DEF RowsInv, PastAlone
  <2> QED
    BY <1>0, <2>1 DEF PastAlone, Alone, Contains
<1>9. EarlyAlone'
  <2>1. Alone(view', B, Touched)
    BY <1>0, <1>1, <1>2, <1>3, <1>4, SaveAlone DEF RowsInv, EarlyAlone
  <2> QED
    BY <1>5, <2>1 DEF EarlyAlone, Alone, Contains
<1>10. AccountInv'
  <2>1. ASSUME NEW s \in view'
        PROVE  s.id \in accounts \cup Modules \cup Touched
    <3>1. CASE s \in new
      BY <1>3, <3>1
    <3>2. CASE s \notin new
      BY <1>0, <1>1, <1>2, <3>2, SaveOrigin DEF RowsInv, AccountInv
    <3> QED
      BY <3>1, <3>2
  <2> QED
    BY <1>0, <1>5, <2>1 DEF RowsInv, AccountInv
<1>11. PendingRows' /\ ReadClean' /\ FoundAll' /\ LateAlone'
  BY <1>0, <1>5 DEF RowsInv, PendingRows, ReadClean, FoundAll, LateAlone
<1> QED
  BY <1>6, <1>7, <1>8, <1>9, <1>10, <1>11 DEF RowsInv

LEMMA RowsHandleGenesis ==
    ASSUME RowInv, HandleGenesis
    PROVE  RowsInv'
<1> DEFINE rich == {NewRow(u, Genesis[u]) : u \in {u \in Users : Genesis[u] # 0}}
           new == {NewRow(m, Block.bal[m]) : m \in Listed} \cup rich
<1>0. /\ TypeInv /\ TypeOK /\ HasBlock /\ RowsInv
      /\ pc = "genesis" /\ pc' = "balances"
      /\ toEnforce = {}
      /\ view' = Save(view, new)
      /\ toEnforce' = Modules \cup {u \in Users : Genesis[u] # 0}
      /\ UNCHANGED <<chain, height, db, accounts, pending, found>>
  BY DEF RowInv, TypeInv, HandleGenesis
<1>1. view \in SUBSET Rows
  BY <1>0, Heights
<1>2. new \in SUBSET Rows
  <2>1. Block.bal \in [Accounts -> Amounts]
    BY <1>0, BlockTyped DEF HasBlock
  <2>2. \A m \in Modules : Block.bal[m] \in Int /\ m \in Accounts
    BY <2>1, AccountTyped, MembersAreAccounts
  <2>3. \A m \in Modules : NewRow(m, Block.bal[m]) \in Rows
    BY <1>0, <2>2, NewRowTyped
  <2>4. \A u \in Users : Genesis[u] \in Int /\ u \in Accounts
    BY GenesisTyped, MembersAreAccounts
  <2>5. \A u \in Users : NewRow(u, Genesis[u]) \in Rows
    BY <1>0, <2>4, NewRowTyped
  <2> QED
    BY <2>3, <2>5 DEF Listed
<1>3. \A n \in new : /\ n.id \in toEnforce'
                     /\ n.lo = B /\ n.hi = Open /\ n.lastUpdatedBlockId = B
  BY <1>0, NewRowFields DEF Listed
<1>4. ASSUME NEW m \in new, NEW n \in new, m.id = n.id
      PROVE  m = n
  <2>1. \A x \in new :
          \/ x.id \in Modules /\ x = NewRow(x.id, Block.bal[x.id])
          \/ x.id \in Users /\ x = NewRow(x.id, Genesis[x.id])
    BY NewRowFields DEF Listed
  <2>2. \A a \in Users : a \notin Modules
    BY BalancesAssumption
  <2> HIDE DEF new
  <2> QED
    BY <1>4, <2>1, <2>2
<1> HIDE DEF new, rich
<1>5. B' = B /\ Touched' = Touched
  BY <1>0, SameBlock
<1>6. DbInv'
  BY <1>0, SameBlock DEF RowsInv, DbInv
<1>7. ViewInv'
  <2>1. \A s \in view' : /\ s.lastUpdatedBlockId = s.lo
                         /\ s.lo \in 1..B
                         /\ s.hi = Open \/ s.hi \in 1..B
    BY <1>0, <1>2, <1>3, SaveKeepsView DEF RowsInv
  <2> QED
    BY <1>5, <2>1 DEF ViewInv
<1>8. PastAlone'
  <2>1. \A h \in 1..height : Alone(db, h, {}) /\ Alone(view', h, {})
    BY <1>0, <1>1, <1>2, <1>3, <1>4, SaveAlone DEF RowsInv, PastAlone
  <2> QED
    BY <1>0, <2>1 DEF PastAlone, Alone, Contains
<1>9. EarlyAlone'
  <2>1. Alone(view', B, Touched)
    BY <1>0, <1>1, <1>2, <1>3, <1>4, SaveAlone DEF RowsInv, EarlyAlone
  <2> QED
    BY <1>5, <2>1 DEF EarlyAlone, Alone, Contains
<1>10. AccountInv'
  <2>1. ASSUME NEW s \in view'
        PROVE  s.id \in accounts \cup toEnforce' \cup Touched
    <3>1. CASE s \in new
      BY <1>3, <3>1
    <3>2. CASE s \notin new
      BY <1>0, <1>1, <1>2, <3>2, SaveOrigin DEF RowsInv, AccountInv
    <3> QED
      BY <3>1, <3>2
  <2> QED
    BY <1>0, <1>5, <2>1 DEF RowsInv, AccountInv
<1>11. PendingRows' /\ ReadClean' /\ FoundAll' /\ LateAlone'
  BY <1>0, <1>5 DEF RowsInv, PendingRows, ReadClean, FoundAll, LateAlone
<1> QED
  BY <1>6, <1>7, <1>8, <1>9, <1>10, <1>11 DEF RowsInv

LEMMA RowsIndexBalances ==
    ASSUME RowInv, IndexBalances
    PROVE  RowsInv'
<1>0. /\ TypeInv /\ RowsInv /\ pc = "balances" /\ toEnforce = {}
      /\ pc' = IF Block.touched = {} THEN "commit" ELSE "cleanup"
      /\ toEnforce' = Block.touched
      /\ Touched = Block.touched
      /\ UNCHANGED <<chain, height, db, view, accounts, pending, found>>
  BY TouchedTyped DEF RowInv, IndexBalances
<1>1. B' = B /\ Touched' = Touched
  BY <1>0, SameBlock
<1>2. DbInv' /\ ViewInv' /\ PastAlone'
  BY <1>0, SameRowsInForce
<1>3. LateAlone'
  <2>1. pending = {}
    BY <1>0 DEF RowsInv, PendingRows
  <2>2. Block.touched = {} => Alone(view \cup pending, B, {})
    <3>1. view \cup pending = view
      BY <2>1
    <3>2. Alone(view, B, Touched)
      BY <1>0 DEF RowsInv, EarlyAlone
    <3> QED
      BY <1>0, <3>1, <3>2
  <2> QED
    BY <1>0, <1>1, <2>2 DEF LateAlone, Alone, Contains
<1>4. PendingRows' /\ EarlyAlone' /\ ReadClean' /\ FoundAll'
  BY <1>0, <1>1 DEF RowsInv, PendingRows, EarlyAlone, ReadClean, FoundAll
<1>5. AccountInv'
  BY <1>0, <1>1 DEF RowsInv, AccountInv
<1> QED
  BY <1>2, <1>3, <1>4, <1>5 DEF RowsInv

LEMMA RowsCleanup ==
    ASSUME RowInv, Cleanup
    PROVE  RowsInv'
<1>0. /\ TypeInv /\ RowsInv /\ DbInv /\ ViewInv /\ PastAlone
      /\ pc = "cleanup" /\ pc' = "read"
      /\ view' = CleanedUp(view)
      /\ UNCHANGED <<chain, height, db, accounts, toEnforce, pending, found>>
  BY DEF RowInv, RowsInv, Cleanup
<1>1. height \in Nat /\ B = height + 1 /\ view \in SUBSET Rows
  BY <1>0, Heights
<1>2. B' = B /\ Touched' = Touched
  BY <1>0, SameBlock
<1>3. ASSUME NEW s \in view'
      PROVE  \E r \in view :
               /\ s = IF r.hi = B THEN Reopen(r) ELSE r
               /\ r.id = s.id
               /\ s.lo = r.lo /\ s.lastUpdatedBlockId = r.lastUpdatedBlockId
               /\ s.lo \in 1..height
               /\ s.hi = Open \/ s.hi \in 1..height
               /\ \A h \in 1..height : Contains(s, h) <=> Contains(r, h)
  <2>1. PICK r \in view : /\ r.lastUpdatedBlockId # B
                          /\ s = IF r.hi = B THEN Reopen(r) ELSE r
    BY <1>0, <1>3 DEF CleanedUp
  <2>2. r.lo \in 1..height /\ (r.hi = Open \/ r.hi \in 1..B)
    BY <1>0, <1>1, <2>1 DEF ViewInv
  <2>3. CASE r.hi = B
    BY <1>1, <2>1, <2>2, <2>3, ReopenFields DEF Contains, Open
  <2>4. CASE r.hi # B
    BY <1>1, <2>1, <2>2, <2>4
  <2> QED
    BY <2>1, <2>3, <2>4
<1>4. ViewInv' /\ ReadClean'
  <2>1. \A s \in view' : /\ s.lastUpdatedBlockId = s.lo
                         /\ s.lo \in 1..height
                         /\ s.hi = Open \/ s.hi \in 1..height
    BY <1>0, <1>3 DEF ViewInv
  <2> QED
    BY <1>0, <1>1, <1>2, <2>1 DEF ViewInv, ReadClean
<1>5. PastAlone'
  <2>1. ASSUME NEW h \in 1..height, NEW s \in view', NEW t \in view',
               s.id = t.id, Contains(s, h), Contains(t, h)
        PROVE  s = t
    <3>1. PICK r \in view : /\ s = IF r.hi = B THEN Reopen(r) ELSE r
                            /\ r.id = s.id
                            /\ Contains(s, h) <=> Contains(r, h)
      BY <1>3
    <3>2. PICK q \in view : /\ t = IF q.hi = B THEN Reopen(q) ELSE q
                            /\ q.id = t.id
                            /\ Contains(t, h) <=> Contains(q, h)
      BY <1>3
    <3>3. r = q
      BY <1>0, <2>1, <3>1, <3>2 DEF PastAlone, Alone
    <3> QED
      BY <3>1, <3>2, <3>3
  <2>2. \A h \in 1..height : Alone(db, h, {}) /\ Alone(view', h, {})
    BY <1>0, <2>1 DEF PastAlone, Alone
  <2> QED
    BY <1>0, <2>2 DEF PastAlone, Alone, Contains
<1>6. DbInv'
  BY <1>0, SameBlock DEF DbInv
<1>7. AccountInv'
  BY <1>0, <1>2, <1>3 DEF RowsInv, AccountInv
<1>8. PendingRows' /\ EarlyAlone' /\ FoundAll' /\ LateAlone'
  BY <1>0, <1>2 DEF RowsInv, PendingRows, EarlyAlone, FoundAll, LateAlone
<1> QED
  BY <1>4, <1>5, <1>6, <1>7, <1>8 DEF RowsInv

LEMMA RowsRead ==
    ASSUME RowInv, Read
    PROVE  RowsInv'
<1>0. /\ TypeInv /\ RowsInv
      /\ pc = "read" /\ pc' = "close"
      /\ found' = {u \in Block.touched : RowsAt(view, u, B) # {}}
      /\ Touched = Block.touched
      /\ UNCHANGED <<chain, height, db, view, accounts, toEnforce>>
  BY TouchedTyped DEF RowInv, Read
<1>1. B' = B /\ Touched' = Touched
  BY <1>0, SameBlock
<1>2. PendingRows'
  <2>1. PICK current : pending' = {NewRow(u, current[u] + Change(u)) : u \in Block.touched}
    BY DEF Read
  <2>2. \A r \in pending' : /\ r.id \in Touched
                            /\ r.lo = B /\ r.lastUpdatedBlockId = B /\ r.hi = Open
    BY <1>0, <2>1, NewRowFields
  <2>3. \A r, s \in pending' : r.id = s.id => r = s
    BY <2>1, NewRowFields
  <2> QED
    BY <1>0, <1>1, <2>2, <2>3 DEF PendingRows
<1>3. FoundAll'
  <2>1. \A r \in view : r.id \in Touched /\ Contains(r, B) => r.id \in found'
    BY <1>0 DEF RowsAt
  <2> QED
    BY <1>0, <1>1, <2>1 DEF FoundAll, Contains
<1>4. DbInv' /\ ViewInv' /\ PastAlone'
  BY <1>0, SameRowsInForce
<1>5. EarlyAlone' /\ ReadClean' /\ LateAlone' /\ AccountInv'
  BY <1>0, <1>1 DEF RowsInv, EarlyAlone, ReadClean, LateAlone, AccountInv
<1> QED
  BY <1>2, <1>3, <1>4, <1>5 DEF RowsInv

LEMMA RowsClose ==
    ASSUME RowInv, Close
    PROVE  RowsInv'
<1>0. /\ TypeInv /\ RowsInv /\ DbInv /\ ViewInv /\ PastAlone /\ PendingRows
      /\ pc = "close" /\ pc' = "insert"
      /\ view' = Closed(view)
      /\ UNCHANGED <<chain, height, db, accounts, toEnforce, pending, found>>
  BY DEF RowInv, RowsInv, Close
<1>1. height \in Nat /\ B = height + 1 /\ view \in SUBSET Rows
  BY <1>0, Heights
<1>2. B' = B /\ Touched' = Touched
  BY <1>0, SameBlock
<1>3. ASSUME NEW s \in view'
      PROVE  \E r \in view :
               /\ s = IF r.id \in found /\ Contains(r, B) THEN CloseAt(r, B) ELSE r
               /\ r.id = s.id
               /\ s.lo = r.lo /\ s.lastUpdatedBlockId = r.lastUpdatedBlockId
               /\ s.hi = r.hi \/ s.hi = B
               /\ \A h \in 1..height : Contains(s, h) <=> Contains(r, h)
               /\ Contains(s, B) => Contains(r, B) /\ r.id \notin found /\ s = r
  <2>1. PICK r \in view :
               s = IF r.id \in found /\ Contains(r, B) THEN CloseAt(r, B) ELSE r
    BY <1>0, <1>3 DEF Closed
  <2>2. CASE r.id \in found /\ Contains(r, B)
    <3>1. s.id = r.id /\ s.lo = r.lo /\ s.hi = B /\ s.lastUpdatedBlockId = r.lastUpdatedBlockId
      BY <1>1, <2>1, <2>2, CloseAtFields
    <3>2. r.lo \in Nat /\ (r.hi = Open \/ (r.hi \in Nat /\ B < r.hi))
      BY <1>0, <1>1, <2>2 DEF Contains, ViewInv
    <3> QED
      BY <1>1, <2>1, <2>2, <3>1, <3>2 DEF Contains, Open
  <2>3. CASE ~(r.id \in found /\ Contains(r, B))
    BY <2>1, <2>3
  <2> QED
    BY <2>2, <2>3
<1>4. ViewInv'
  <2>1. \A s \in view' : /\ s.lastUpdatedBlockId = s.lo
                         /\ s.lo \in 1..B
                         /\ s.hi = Open \/ s.hi \in 1..B
    BY <1>0, <1>1, <1>3 DEF ViewInv
  <2> QED
    BY <1>2, <2>1 DEF ViewInv
<1>5. PastAlone'
  <2>1. ASSUME NEW h \in 1..height, NEW s \in view', NEW t \in view',
               s.id = t.id, Contains(s, h), Contains(t, h)
        PROVE  s = t
    <3>1. PICK r \in view :
               /\ s = IF r.id \in found /\ Contains(r, B) THEN CloseAt(r, B) ELSE r
               /\ r.id = s.id
               /\ Contains(s, h) <=> Contains(r, h)
      BY <1>3
    <3>2. PICK q \in view :
               /\ t = IF q.id \in found /\ Contains(q, B) THEN CloseAt(q, B) ELSE q
               /\ q.id = t.id
               /\ Contains(t, h) <=> Contains(q, h)
      BY <1>3
    <3>3. r = q
      BY <1>0, <2>1, <3>1, <3>2 DEF PastAlone, Alone
    <3> QED
      BY <3>1, <3>2, <3>3
  <2>2. \A h \in 1..height : Alone(db, h, {}) /\ Alone(view', h, {})
    BY <1>0, <2>1 DEF PastAlone, Alone
  <2> QED
    BY <1>0, <2>2 DEF PastAlone, Alone, Contains
<1>6. LateAlone'
  <2>1. ASSUME NEW s \in view', Contains(s, B)
        PROVE  s \in view /\ s.id \notin Touched
    BY <1>0, <1>3, <2>1 DEF RowsInv, FoundAll
  <2>2. Alone(view, B, {})
    <3>1. \A r \in view : r.lo \in 1..height /\ (r.hi = Open \/ r.hi \in 1..height)
      BY <1>0 DEF RowsInv, ReadClean
    <3>2. height > 0 => Alone(view, height, {})
      BY <1>0, <1>1 DEF PastAlone
    <3> QED
      BY <1>0, <1>1, <3>1, <3>2, AloneNext
  <2>3. \A p \in pending : p.id \in Touched
    BY <1>0 DEF PendingRows
  <2>4. \A p, q \in pending : p.id = q.id => p = q
    BY <1>0 DEF PendingRows
  <2>5. Alone(view' \cup pending, B, {})
    BY <2>1, <2>2, <2>3, <2>4 DEF Alone
  <2> QED
    BY <1>0, <1>2, <2>5 DEF LateAlone, Alone, Contains
<1>7. DbInv'
  BY <1>0, SameBlock DEF DbInv
<1>8. AccountInv'
  BY <1>0, <1>2, <1>3 DEF RowsInv, AccountInv
<1>9. PendingRows' /\ EarlyAlone' /\ ReadClean' /\ FoundAll'
  BY <1>0, <1>2 DEF RowsInv, PendingRows, EarlyAlone, ReadClean, FoundAll
<1> QED
  BY <1>4, <1>5, <1>6, <1>7, <1>8, <1>9 DEF RowsInv

LEMMA RowsInsertBatch ==
    ASSUME RowInv, InsertBatch
    PROVE  RowsInv'
<1>1. PICK batch \in (SUBSET pending) \ {{}} :
        /\ db' = db \cup batch /\ view' = view \cup batch /\ pending' = pending \ batch
        /\ pc' = IF pending = batch THEN "commit" ELSE "insert"
  BY DEF InsertBatch
<1>0. /\ TypeInv /\ RowsInv /\ DbInv /\ ViewInv /\ PastAlone /\ PendingRows
      /\ pc = "insert" /\ pc' \in {"insert", "commit"}
      /\ Touched = Block.touched /\ height < Len(chain)
      /\ UNCHANGED <<chain, height, accounts, toEnforce, found>>
  BY <1>1, TouchedTyped DEF RowInv, RowsInv, InsertBatch
<1>2. height \in Nat /\ B = height + 1
  BY <1>0, Heights
<1>3. B' = B /\ Touched' = Touched /\ Block' = Block
  BY <1>0, SameBlock
<1>4. \A r \in batch : /\ r \in pending /\ r.id \in Touched
                       /\ r.lo = B /\ r.lastUpdatedBlockId = B /\ r.hi = Open
  BY <1>0, <1>1 DEF PendingRows
<1>5. DbInv' /\ ViewInv'
  BY <1>0, <1>1, <1>2, <1>3, <1>4 DEF DbInv, ViewInv
<1>6. PastAlone'
  <2>1. \A r \in batch, h \in 1..height : ~Contains(r, h)
    BY <1>2, <1>4 DEF Contains
  <2>2. \A h \in 1..height : Alone(db', h, {}) /\ Alone(view', h, {})
    BY <1>0, <1>1, <2>1 DEF PastAlone, Alone
  <2> QED
    BY <1>0, <2>2 DEF PastAlone, Alone, Contains
<1>7. LateAlone'
  <2>1. view' \cup pending' = view \cup pending
    BY <1>1
  <2>2. Alone(view \cup pending, B, {})
    BY <1>0 DEF RowsInv, LateAlone
  <2> QED
    BY <1>3, <2>1, <2>2 DEF LateAlone, Alone, Contains
<1>8. PendingRows'
  BY <1>0, <1>1, <1>3 DEF PendingRows
<1>9. AccountInv'
  BY <1>0, <1>1, <1>2, <1>3, <1>4 DEF RowsInv, AccountInv
<1>10. EarlyAlone' /\ ReadClean' /\ FoundAll'
  BY <1>0 DEF EarlyAlone, ReadClean, FoundAll
<1> QED
  BY <1>5, <1>6, <1>7, <1>8, <1>9, <1>10 DEF RowsInv

LEMMA RowsEnforceAccounts ==
    ASSUME RowInv, EnforceAccounts
    PROVE  RowsInv'
<1>0. /\ RowsInv
      /\ accounts' \cup toEnforce' = accounts \cup toEnforce
      /\ accounts \subseteq accounts'
      /\ UNCHANGED <<chain, height, db, view, pending, found, pc>>
  BY DEF RowInv, EnforceAccounts
<1>1. B' = B /\ Touched' = Touched
  BY <1>0, SameBlock
<1>2. DbInv' /\ ViewInv' /\ PastAlone'
  BY <1>0, SameRowsInForce
<1>3. AccountInv'
  BY <1>0, <1>1 DEF RowsInv, AccountInv
<1> QED
  BY <1>0, <1>1, <1>2, <1>3
     DEF RowsInv, PendingRows, EarlyAlone, ReadClean, FoundAll, LateAlone, Alone, Contains

LEMMA RowsCommit ==
    ASSUME RowInv, Commit
    PROVE  RowsInv'
<1>0. /\ TypeInv /\ RowsInv /\ ViewInv /\ PastAlone
      /\ pc = "commit" /\ pc' = "idle" /\ pending = {} /\ toEnforce = {}
      /\ db' = view /\ view' = view /\ height' = B
      /\ UNCHANGED <<chain, pending, accounts, toEnforce>>
  BY DEF RowInv, RowsInv, Commit, PendingRows
<1>1. height \in Nat /\ B = height + 1 /\ B \in Nat /\ B' = B + 1 /\ view \in SUBSET Rows
  BY <1>0, Heights DEF B
<1>2. DbInv' /\ ViewInv'
  BY <1>0, <1>1 DEF DbInv, ViewInv
<1>3. Alone(view, B, {})
  <2>1. view \cup pending = view
    BY <1>0
  <2> QED
    BY <1>0, <2>1 DEF RowsInv, LateAlone
<1>4. PastAlone'
  <2>1. \A h \in 1..B : Alone(view, h, {})
    BY <1>0, <1>1, <1>3 DEF PastAlone
  <2> QED
    BY <1>0, <2>1 DEF PastAlone, Alone, Contains
<1>5. EarlyAlone'
  <2>1. \A r \in view : Contains(r, B + 1) => Contains(r, B)
    BY <1>0, <1>1 DEF ViewInv, Contains, Open
  <2>2. Alone(view, B + 1, {})
    BY <1>3, <2>1 DEF Alone
  <2> QED
    BY <1>0, <1>1, <2>2 DEF EarlyAlone, Alone, Contains
<1>6. AccountInv'
  <2>1. \A r \in view : r.id \in accounts
    BY <1>0 DEF RowsInv, AccountInv
  <2> QED
    BY <1>0, <2>1 DEF AccountInv
<1>7. PendingRows' /\ ReadClean' /\ FoundAll' /\ LateAlone'
  BY <1>0 DEF PendingRows, ReadClean, FoundAll, LateAlone
<1> QED
  BY <1>2, <1>4, <1>5, <1>6, <1>7 DEF RowsInv

LEMMA RowsCrash ==
    ASSUME RowInv, Crash
    PROVE  RowsInv'
<1>0. /\ TypeInv /\ RowsInv /\ DbInv /\ PastAlone
      /\ pc' = "idle" /\ pending' = {} /\ view' = db
      /\ UNCHANGED <<chain, height, db, accounts>>
  BY DEF RowInv, RowsInv, Crash
<1>1. height \in Nat /\ B = height + 1 /\ db \in SUBSET Rows
  BY <1>0, Heights
<1>2. B' = B /\ Touched' = Touched
  BY <1>0, SameBlock
<1>3. \A r \in db : r.lo \in 1..height \/ r.id \in Touched
  BY <1>0, <1>1 DEF DbInv, Touched
<1>4. DbInv' /\ ViewInv'
  BY <1>0, <1>1, SameBlock DEF DbInv, ViewInv
<1>5. PastAlone'
  BY <1>0 DEF PastAlone, Alone, Contains
<1>6. EarlyAlone'
  <2> DEFINE rest == {r \in db : r.id \notin Touched}
  <2>1. \A r \in rest : r.lo \in 1..height /\ (r.hi = Open \/ r.hi \in 1..height)
    BY <1>0, <1>3 DEF DbInv
  <2>2. height > 0 => Alone(db, height, {})
    BY <1>0, <1>1 DEF PastAlone
  <2>3. rest \in SUBSET db
    OBVIOUS
  <2>4. Alone(rest, B, {})
    <3> HIDE DEF rest
    <3> QED
      BY <1>0, <1>1, <2>1, <2>2, <2>3, AloneNext
  <2>5. Alone(db, B, Touched)
    BY <2>4 DEF Alone
  <2> QED
    BY <1>0, <1>2, <2>5 DEF EarlyAlone, Alone, Contains
<1>7. AccountInv'
  <2>1. \A r \in db : r.id \in accounts \cup Touched
    BY <1>0, <1>1, <1>3 DEF RowsInv, AccountInv
  <2> QED
    BY <1>0, <1>2, <2>1 DEF RowsInv, AccountInv
<1>8. PendingRows' /\ ReadClean' /\ FoundAll' /\ LateAlone'
  BY <1>0 DEF PendingRows, ReadClean, FoundAll, LateAlone
<1> QED
  BY <1>4, <1>5, <1>6, <1>7, <1>8 DEF RowsInv

LEMMA RowsUnchanged ==
    ASSUME RowInv, UNCHANGED vars
    PROVE  RowsInv'
<1>0. /\ RowsInv
      /\ UNCHANGED <<chain, height, db, view, pending, found, pc, accounts, toEnforce>>
  BY DEF RowInv, vars
<1>1. B' = B /\ Touched' = Touched
  BY <1>0, SameBlock
<1>2. DbInv' /\ ViewInv' /\ PastAlone'
  BY <1>0, SameRowsInForce
<1> QED
  BY <1>0, <1>1, <1>2
     DEF RowsInv, PendingRows, EarlyAlone, ReadClean, FoundAll, LateAlone, AccountInv, Alone, Contains

LEMMA RowInvariance == Spec => []RowInv
<1>1. Init => RowInv
  BY TypeInit, RowsInit DEF RowInv
<1>2. RowInv /\ [Next]_vars => RowsInv'
  BY RowsProduce, RowsBeginBlock, RowsHandleModuleAccounts, RowsHandleGenesis,
     RowsIndexBalances, RowsCleanup, RowsRead, RowsClose, RowsInsertBatch,
     RowsEnforceAccounts, RowsCommit, RowsCrash, RowsUnchanged DEF Next, Handler
<1>3. RowInv /\ [Next]_vars => RowInv'
  BY <1>2, TypeStep DEF RowInv
<1> QED
  BY <1>1, <1>3, PTL DEF Spec

\* At every indexed height an account has one balance row in force, whether
\* updateBalances or the store wrote it and however many attempts left rows
\* behind, also when block 1 has coin events.
THEOREM VersionsCorrect == Spec => []OneVersionInForce
<1>1. RowInv => OneVersionInForce
  BY DEF RowInv, RowsInv, PastAlone, Alone, OneVersionInForce
<1> QED
  BY <1>1, RowInvariance, PTL

\* No balance of an indexed height is without its account, although
\* enforceAccountsExists writes outside the block transaction and beside
\* updateBalances: the block waits for both before it commits.
THEOREM AccountsExist == Spec => []BalanceHasAccount
<1>1. RowInv => BalanceHasAccount
  BY DEF RowInv, RowsInv, AccountInv, BalanceHasAccount
<1> QED
  BY <1>1, RowInvariance, PTL

-----------------------------------------------------------------------------
(* The block handler implements ChainMirror: that Balances answers every     *)
(* height correctly, a fact about states, becomes what a reader sees of the  *)
(* steps.                                                                    *)

ChainView == [h \in 1..Len(chain) |-> [u \in Users |-> chain[h].bal[u]]]
IndexView == [h \in 1..height |-> [u \in Users |-> AmountAt(u, h)]]

\* Where every row in force is right, a reader is told the chain's balance.
LEMMA AnswerIsRight ==
    ASSUME HistoryExact, TypeOK, NEW h \in 1..height, NEW u \in Users
    PROVE  AmountAt(u, h) = chain[h].bal[u]
<1>1. BalanceAt(h, u) = chain[h].bal[u]
  BY DEF BalanceAt, TypeOK
<1>2. CASE RowsAt(db, u, h) = {}
  BY <1>1, <1>2 DEF HistoryExact, AmountAt
<1>3. CASE RowsAt(db, u, h) # {}
  <2>1. (CHOOSE r \in RowsAt(db, u, h) : TRUE) \in RowsAt(db, u, h)
    BY <1>3
  <2> QED
    BY <1>1, <1>3, <2>1 DEF HistoryExact, AmountAt
<1> QED
  BY <1>2, <1>3

IndexRight == IndexView = [h \in 1..height |-> [u \in Users |-> chain[h].bal[u]]]

LEMMA IndexIsRight == HistoryExact /\ TypeOK => IndexRight
BY AnswerIsRight DEF IndexView, IndexRight

\* A function on 1..n is a sequence, and one more value appends to it.
LEMMA OneMore ==
    ASSUME NEW n \in Nat, NEW S, NEW f \in [1..n -> S], NEW g \in [1..(n+1) -> S],
           \A h \in 1..n : g[h] = f[h]
    PROVE  /\ f \in Seq(S) /\ Len(f) = n
           /\ g = Append(f, g[n + 1])
<1>1. f \in Seq(S) /\ Len(f) = n
  OBVIOUS
<1>2. g \in Seq(S) /\ Len(g) = n + 1
  OBVIOUS
<1>3. g[n + 1] \in S
  OBVIOUS
<1>4. /\ Append(f, g[n + 1]) \in Seq(S)
      /\ Len(Append(f, g[n + 1])) = n + 1
      /\ \A h \in 1..n : Append(f, g[n + 1])[h] = f[h]
      /\ Append(f, g[n + 1])[n + 1] = g[n + 1]
  BY <1>1, <1>3, AppendProperties
<1>5. \A h \in 1..(n + 1) : Append(f, g[n + 1])[h] = g[h]
  BY <1>4
<1> QED
  BY <1>1, <1>2, <1>4, <1>5, SeqEqual

LEMMA UserStateTyped ==
    ASSUME NEW blocks \in Seq(Blocks), NEW h \in 1..Len(blocks)
    PROVE  [u \in Users |-> blocks[h].bal[u]] \in [Users -> Amounts]
<1>1. blocks[h] \in Blocks
  OBVIOUS
<1>2. blocks[h].bal \in [Accounts -> Amounts]
  BY <1>1 DEF Blocks
<1>3. \A u \in Users : blocks[h].bal[u] \in Amounts
  BY <1>2, AccountTyped, MembersAreAccounts
<1> QED
  BY <1>3

LEMMA ViewsTyped ==
    ASSUME IndexRight, TypeOK
    PROVE  /\ Len(chain) \in Nat /\ height \in Nat /\ height <= Len(chain)
           /\ ChainView \in [1..Len(chain) -> [Users -> Amounts]]
           /\ IndexView \in [1..height -> [Users -> Amounts]]
           /\ \A h \in 1..height : IndexView[h] = ChainView[h]
<1>1. Len(chain) \in Nat /\ height \in Nat /\ height <= Len(chain)
  BY DEF TypeOK
<1>2. ChainView \in [1..Len(chain) -> [Users -> Amounts]]
  BY UserStateTyped DEF ChainView, TypeOK
<1>3. \A h \in 1..height : h \in 1..Len(chain)
  BY <1>1
<1>4. \A h \in 1..height : IndexView[h] = ChainView[h]
  BY <1>3 DEF ChainView, IndexRight
<1>5. IndexView \in [1..height -> [Users -> Amounts]]
  BY <1>3, UserStateTyped DEF TypeOK, IndexRight
<1> QED
  BY <1>1, <1>2, <1>4, <1>5

LEMMA MirrorInit == Init => Reader!Init
<1> SUFFICES ASSUME Init PROVE ChainView = <<>> /\ IndexView = <<>>
  BY DEF Reader!Init, ChainView, IndexView
<1>1. Len(chain) = 0 /\ height = 0
  BY DEF Init
<1>2. 1..0 = {}
  OBVIOUS
<1>3. ChainView \in [1..0 -> {1}] /\ IndexView \in [1..0 -> {1}]
  BY <1>1, <1>2 DEF ChainView, IndexView
<1>4. \A f \in [1..0 -> {1}] : f \in Seq({1}) /\ Len(f) = 0
  OBVIOUS
<1> QED
  BY <1>3, <1>4, EmptySeq

\* A block the chain produces is one the abstract chain produces.
LEMMA MirrorProduce ==
    ASSUME IndexRight, TypeOK, IndexRight', TypeOK', Produce
    PROVE  /\ \E s \in [Users -> Amounts] : ChainView' = Append(ChainView, s)
           /\ IndexView' = IndexView
<1>1. PICK blk \in Blocks : chain' = Append(chain, blk)
  BY DEF Produce
<1>2. PICK n \in Nat : n = Len(chain)
  BY DEF TypeOK
<1>3. /\ Len(chain') = n + 1
      /\ \A h \in 1..n : chain'[h] = chain[h]
  BY <1>1, <1>2, ChainGrows
<1>4. ChainView \in [1..n -> [Users -> Amounts]]
  BY <1>2, ViewsTyped
<1>5. ChainView' \in [1..(n + 1) -> [Users -> Amounts]]
  <2>1. \A h \in 1..Len(chain') :
          [u \in Users |-> chain'[h].bal[u]] \in [Users -> Amounts]
    BY UserStateTyped DEF TypeOK
  <2> QED
    BY <1>3, <2>1 DEF ChainView
<1>6. \A h \in 1..n : ChainView'[h] = ChainView[h]
  BY <1>2, <1>3 DEF ChainView
<1>7. ChainView' = Append(ChainView, ChainView'[n + 1])
  BY <1>4, <1>5, <1>6, OneMore
<1>8. ChainView'[n + 1] \in [Users -> Amounts]
  BY <1>5
<1>9. IndexView' = IndexView
  BY DEF Produce, IndexView, AmountAt, RowsAt
<1> QED
  BY <1>7, <1>8, <1>9

\* The commit of the block transaction is the one step a reader notices.
LEMMA MirrorCommit ==
    ASSUME IndexRight, TypeOK, IndexRight', TypeOK', HasBlock, Commit
    PROVE  /\ Len(IndexView) < Len(ChainView)
           /\ IndexView' = Append(IndexView, ChainView[Len(IndexView) + 1])
           /\ ChainView' = ChainView
<1>1. PICK n \in Nat : n = height
  BY DEF TypeOK
<1>2. height' = n + 1 /\ chain' = chain
  BY <1>1 DEF Commit, B
<1>3. n < Len(chain) /\ Len(chain) \in Nat
  BY <1>1 DEF HasBlock, Commit, TypeOK
<1>4. ChainView' = ChainView
  BY <1>2 DEF ChainView
<1>5. IndexView \in [1..n -> [Users -> Amounts]]
  BY <1>1, ViewsTyped
<1>6. \A h \in 1..(n + 1) : IndexView'[h] = ChainView[h]
  <2>1. IndexView' = [h \in 1..height' |-> [u \in Users |-> chain'[h].bal[u]]]
    BY DEF IndexRight
  <2> QED
    BY <1>2, <1>3, <2>1 DEF ChainView
<1>7. IndexView' \in [1..(n + 1) -> [Users -> Amounts]]
  <2>1. IndexView' = [h \in 1..(n + 1) |-> IndexView'[h]]
    BY <1>2 DEF IndexView
  <2>2. \A h \in 1..(n + 1) : ChainView[h] \in [Users -> Amounts]
    BY <1>3, ViewsTyped
  <2> QED
    BY <1>6, <2>1, <2>2
<1>8. \A h \in 1..n : IndexView'[h] = IndexView[h]
  BY <1>1, <1>6, ViewsTyped
<1>9. Len(IndexView) = n /\ IndexView' = Append(IndexView, IndexView'[n + 1])
  BY <1>5, <1>7, <1>8, OneMore
<1>10. Len(ChainView) = Len(chain)
  BY <1>3, ViewsTyped
<1> QED
  BY <1>3, <1>4, <1>6, <1>9, <1>10

\* Every other step of the handler, and a failed attempt, leaves the answers
\* for the heights already indexed as they are.
LEMMA MirrorStutter ==
    ASSUME IndexRight, IndexRight', UNCHANGED <<chain, height>>
    PROVE  ChainView' = ChainView /\ IndexView' = IndexView
BY DEF IndexRight, ChainView

LEMMA MirrorStep ==
    ASSUME IndexRight, TypeInv, IndexRight', TypeOK', [Next]_vars
    PROVE  [Reader!Next]_(Reader!vars)
<1> USE DEF TypeInv
<1>1. CASE Produce
  <2>1. Reader!Produce
    BY <1>1, MirrorProduce DEF Reader!Produce, ChainView, IndexView
  <2> QED
    BY <2>1 DEF Reader!Next
<1>2. CASE Commit
  <2>1. Reader!Index
    BY <1>2, MirrorCommit DEF Reader!Index, ChainView, IndexView
  <2> QED
    BY <2>1 DEF Reader!Next
<1>3. CASE UNCHANGED <<chain, height>>
  BY <1>3, MirrorStutter DEF Reader!vars, ChainView, IndexView
<1>4. UNCHANGED <<chain, height>> \/ Produce \/ Commit
  BY DEF Next, Handler, vars, txVars, BeginBlock, HandleModuleAccounts, HandleGenesis,
         IndexBalances, Cleanup, Read, Close, InsertBatch, EnforceAccounts, Crash
<1> QED
  BY <1>1, <1>2, <1>3, <1>4

\* Readers of user balances see an exact, append-only copy of a prefix of the
\* chain, one block at a time, whatever fails on the way.
THEOREM BalancesMirrorChain == Spec /\ ~GenesisTxs => UserBalancesMirrorChain
<1>1. Init => Reader!Init
  BY MirrorInit
<1>2. IndexRight /\ TypeInv /\ IndexRight' /\ TypeInv' /\ [Next]_vars
        => [Reader!Next]_(Reader!vars)
  BY MirrorStep DEF TypeInv
<1>3. HistoryExact /\ TypeOK => IndexRight
  BY IndexIsRight
<1>4. IInv => TypeInv /\ TypeOK
  BY DEF IInv, TypeInv
<1> QED
  BY <1>1, <1>2, <1>3, <1>4, Invariance, HistoryCorrect, PTL DEF Spec, UserBalancesMirrorChain, Reader!Spec
=============================================================================
