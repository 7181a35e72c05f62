---------------------------- MODULE GenesisProofs ----------------------------
(***************************************************************************)
(* Proofs about Genesis, for every genesis file and any number of failed   *)
(* attempts, and about BulkInsert, the statements of its bulk inserts, for *)
(* every set of documents and of callers and any number of blocks and      *)
(* failed attempts.                                                        *)
(***************************************************************************)
EXTENDS Genesis, BulkInsert, FiniteSetTheorems, SequenceTheorems, TLAPS

ServiceTables == {ServiceTable[k] : k \in DOMAIN ServiceTable}

AllInserts == HandlerInserts \cup FinalInserts \cup OwnInserts \cup OwnMessageInserts

\* The bulk inserts an attempt has still to make.
Later ==
    CASE stage = "begin" -> AllInserts
      [] stage = "handlers" -> FinalInserts \cup OwnInserts \cup OwnMessageInserts
      [] stage = "collected" -> OwnInserts \cup OwnMessageInserts
      [] stage = "transactions" -> OwnMessageInserts
      [] OTHER -> {}

Due == pending \cup Called(Later)

Stages == {"begin", "handlers", "collected", "transactions", "messages", "indexed"}

TypeInv ==
    /\ file \in Files
    /\ stage \in Stages
    /\ pending \subseteq Called(AllInserts)
    /\ stage = "indexed" => pending = {}
    /\ DOMAIN tables = Tables
    /\ crashes \in Nat

\* Only a table that the attempt has still to fill has rows of an earlier one.
FreshInv ==
    \A t \in Tables \ ServiceTables : \A r \in tables[t] :
        r.attempt = crashes \/ \E i \in Due : i.table = t

\* A table has rows only if every attempt fills it.
FilledInv == \A t \in Tables : tables[t] # {} => \E i \in Called(AllInserts) : i.table = t

\* The services of stakes are those of the file, once they are inserted.
StakeServices(kind) == {[stakeMsgId |-> r.id] : r \in ListRows(kind)}
ServicesInsert(kind) == Insert(ServiceTable[kind], "omit", StakeServices(kind))

ServicesInv ==
    \A kind \in DOMAIN ServiceTable :
        /\ Stored(ServiceTable[kind]) \subseteq StakeServices(kind)
        /\ stage # "begin" =>
              \/ ServicesInsert(kind) \in pending
              \/ StakeServices(kind) \subseteq Stored(ServiceTable[kind])

AttemptInv == TypeInv /\ FreshInv /\ FilledInv /\ ServicesInv

\* With nothing but the file in the first block, each table but the services of
\* stakes is filled once.
Quiet == \A f \in Files : ~f.transaction

Single == {i \in HandlerInserts \cup FinalInserts : i.removeBy # "omit"}

\* Whether the insert is made in this attempt, or was before.
Begun(i) ==
    \/ i \in HandlerInserts /\ stage # "begin"
    \/ i \in FinalInserts /\ stage \notin {"begin", "handlers"}

ContentsInv ==
    \A i \in Single :
        /\ i.rows = {} => tables[i.table] = {}
        /\ Begun(i) => i \in pending \/ tables[i.table] = Inserted(i)

QuietInv == AttemptInv /\ ContentsInv

-----------------------------------------------------------------------------
(* The inserts of an attempt *)

LEMMA InsertFields ==
    ASSUME NEW t, NEW b, NEW rows
    PROVE  Insert(t, b, rows).table = t /\ Insert(t, b, rows).removeBy = b
           /\ Insert(t, b, rows).rows = rows
BY DEF Insert

LEMMA TableNames ==
    /\ DOMAIN ServiceTable = {"supplier", "app"}
    /\ ServiceTables = {"MsgStakeSupplierService", "MsgStakeApplicationService"}
    /\ {MsgTable[k] : k \in Kinds} =
          {"MsgAddService", "MsgStakeSupplier", "MsgStakeApplication", "MsgStakeGateway"}
    /\ Tables = {"MsgAddService", "MsgStakeSupplier", "MsgStakeApplication", "MsgStakeGateway",
                 "MsgStakeSupplierService", "MsgStakeApplicationService",
                 "MsgDelegateToGateway", "MsgCreateValidator", "Transaction", "Message"}
<1>1. DOMAIN ServiceTable = {"supplier", "app"}
  BY DEF ServiceTable
<1>2. {ServiceTable[k] : k \in DOMAIN ServiceTable}
        = {"MsgStakeSupplierService", "MsgStakeApplicationService"}
  BY <1>1 DEF ServiceTable
<1>3. {MsgTable[k] : k \in Kinds} =
          {"MsgAddService", "MsgStakeSupplier", "MsgStakeApplication", "MsgStakeGateway"}
  BY DEF MsgTable, Kinds
<1> QED
  BY <1>1, <1>2, <1>3 DEF ServiceTables, Tables

LEMMA MsgTableIsKind ==
    ASSUME NEW k \in Kinds, NEW m \in Kinds
    PROVE  /\ MsgTable[k] \in {"MsgAddService", "MsgStakeSupplier", "MsgStakeApplication",
                               "MsgStakeGateway"}
           /\ MsgTable[k] = MsgTable[m] => k = m
BY DEF MsgTable, Kinds

\* What an insert can be: the rows of a table are deleted by block, but for the
\* services of stakes.
LEMMA InsertShape ==
    ASSUME NEW i \in AllInserts
    PROVE  /\ i.table \in Tables
           /\ i.removeBy = "omit" => \E kind \in DOMAIN ServiceTable : i = ServicesInsert(kind)
           /\ i.removeBy # "omit" => i.table \notin ServiceTables
<1>1. CASE \E kind \in Kinds : i = Insert(MsgTable[kind], "block_id", ListRows(kind))
  BY <1>1, InsertFields, MsgTableIsKind, TableNames
<1>2. CASE \E kind \in DOMAIN ServiceTable : i = ServicesInsert(kind)
  <2>1. PICK kind \in DOMAIN ServiceTable : i = ServicesInsert(kind)
    BY <1>2
  <2>2. ServiceTable[kind] \in Tables /\ i.table = ServiceTable[kind] /\ i.removeBy = "omit"
    BY <2>1, InsertFields DEF ServicesInsert, Tables
  <2> QED
    BY <2>1, <2>2
<1>3. CASE i \in {Insert("MsgDelegateToGateway", "block_id", DelegationRows),
                  Insert("MsgCreateValidator", "block_id", ValidatorRows)}
  BY <1>3, InsertFields, TableNames
<1>4. CASE i \in FinalInserts
  BY <1>4, InsertFields, TableNames DEF FinalInserts
<1>5. CASE i \in OwnInserts \cup OwnMessageInserts
  <2>1. i.table \in {"Transaction", "MsgStakeGateway"} /\ i.removeBy = "block_id"
    BY <1>5, InsertFields DEF OwnInserts, OwnMessageInserts
  <2> QED
    BY <2>1, TableNames
<1>6. i \in HandlerInserts =>
        \/ \E kind \in Kinds : i = Insert(MsgTable[kind], "block_id", ListRows(kind))
        \/ \E kind \in DOMAIN ServiceTable : i = ServicesInsert(kind)
        \/ i \in {Insert("MsgDelegateToGateway", "block_id", DelegationRows),
                  Insert("MsgCreateValidator", "block_id", ValidatorRows)}
  BY DEF HandlerInserts, ServicesInsert, StakeServices
<1> QED
  BY <1>1, <1>2, <1>3, <1>4, <1>5, <1>6 DEF AllInserts

\* A service table is never filled but with the services of its stakes.
LEMMA ServicesTable ==
    ASSUME NEW i \in AllInserts, NEW kind \in DOMAIN ServiceTable, i.table = ServiceTable[kind]
    PROVE  i = ServicesInsert(kind) /\ i.removeBy = "omit" /\ i.rows = StakeServices(kind)
<1>1. i.table \in ServiceTables
  BY DEF ServiceTables
<1>2. PICK m \in DOMAIN ServiceTable : i = ServicesInsert(m)
  BY <1>1, InsertShape
<1>3. ServiceTable[m] = ServiceTable[kind]
  BY <1>2, InsertFields DEF ServicesInsert
<1>4. m = kind
  BY <1>3, TableNames DEF ServiceTable
<1> QED
  BY <1>2, <1>4, InsertFields DEF ServicesInsert

\* The inserts depend on the file alone.
LEMMA SameFile ==
    ASSUME file' = file
    PROVE  /\ HandlerInserts' = HandlerInserts /\ FinalInserts' = FinalInserts
           /\ OwnInserts' = OwnInserts /\ OwnMessageInserts' = OwnMessageInserts
           /\ AllInserts' = AllInserts /\ Called(AllInserts)' = Called(AllInserts)
           /\ Single' = Single
           /\ \A kind : /\ StakeServices(kind)' = StakeServices(kind)
                        /\ ServicesInsert(kind)' = ServicesInsert(kind)
<1>1. ASSUME NEW kind PROVE ListRows(kind)' = ListRows(kind)
  BY ZenonT(90) DEF ListRows
<1>2. DelegationRows' = DelegationRows
  BY <1>1 DEF DelegationRows
<1>3. ValidatorRows' = ValidatorRows
  BY DEF ValidatorRows, StakingValidators, StakingIndex
<1>4. Synthesized' = Synthesized
  BY <1>1, <1>3 DEF Synthesized
<1>5. HandlerInserts' = HandlerInserts
  BY <1>1, <1>2, <1>3 DEF HandlerInserts
<1>6. FinalInserts' = FinalInserts
  BY <1>4 DEF FinalInserts
<1>7. OwnInserts' = OwnInserts /\ OwnMessageInserts' = OwnMessageInserts
  BY DEF OwnInserts, OwnMessageInserts
<1>8. AllInserts' = AllInserts /\ Called(AllInserts)' = Called(AllInserts)
  BY <1>5, <1>6, <1>7 DEF AllInserts, Called
<1>9. \A kind : StakeServices(kind)' = StakeServices(kind)
  BY <1>1 DEF StakeServices
<1>10. \A kind : ServicesInsert(kind)' = ServicesInsert(kind)
  BY <1>9 DEF ServicesInsert
<1>11. Single' = Single
  BY <1>5, <1>6 DEF Single
<1> QED
  BY <1>5, <1>6, <1>7, <1>8, <1>9, <1>10, <1>11

\* Called takes the inserts that have rows.
LEMMA CalledIs ==
    ASSUME NEW S, NEW i
    PROVE  i \in Called(S) <=> i \in S /\ i.rows # {}
BY DEF Called

-----------------------------------------------------------------------------
(* Every action preserves the invariants *)

LEMMA AttemptInit == Init => AttemptInv
<1> SUFFICES ASSUME Init PROVE AttemptInv
  OBVIOUS
<1>1. TypeInv
  BY DEF Init, TypeInv, Stages
<1>2. \A t \in Tables : tables[t] = {}
  BY DEF Init
<1>3. \A kind \in DOMAIN ServiceTable : ServiceTable[kind] \in Tables
  BY DEF Tables
<1> QED
  BY <1>1, <1>2, <1>3 DEF AttemptInv, FreshInv, FilledInv, ServicesInv, Stored, Init

\* The steps that start the next part of the handler owe what was owed before.
LEMMA StageStep ==
    ASSUME AttemptInv,
           NEW from, NEW to, NEW inserts,
           \/ from = "begin" /\ to = "handlers" /\ inserts = HandlerInserts
           \/ from = "handlers" /\ to = "collected" /\ inserts = FinalInserts
           \/ from = "collected" /\ to = "transactions" /\ inserts = OwnInserts
           \/ from = "transactions" /\ to = "messages" /\ inserts = OwnMessageInserts,
           Stage(from, to, inserts)
    PROVE  AttemptInv'
<1>1. /\ stage = from /\ stage' = to /\ pending = {} /\ pending' = Called(inserts)
      /\ file' = file /\ tables' = tables /\ crashes' = crashes
      /\ TypeInv
  BY DEF Stage, AttemptInv
<1>2. inserts \subseteq AllInserts
  BY DEF AllInserts
<1>3. TypeInv'
  BY <1>1, <1>2, SameFile, CalledIs DEF TypeInv, Stages
<1>4. Due' = Due
  <2>1. Due' = Called(inserts \cup Later')
    BY <1>1 DEF Due, Called
  <2>2. inserts \cup Later' = Later
    BY <1>1, SameFile DEF Later, AllInserts
  <2>3. Due = Called(Later)
    BY <1>1 DEF Due
  <2> QED
    BY <2>1, <2>2, <2>3
<1>5. FreshInv' /\ FilledInv'
  BY <1>1, <1>4, SameFile DEF AttemptInv, FreshInv, FilledInv
<1>6. ServicesInv'
  <2>1. ASSUME NEW kind \in DOMAIN ServiceTable
        PROVE  \/ ServicesInsert(kind) \in pending'
               \/ StakeServices(kind) \subseteq Stored(ServiceTable[kind])
    <3>1. CASE from = "begin"
      <4>1. ServicesInsert(kind) \in HandlerInserts
        BY DEF HandlerInserts, ServicesInsert, StakeServices
      <4>2. StakeServices(kind) # {} => ServicesInsert(kind) \in pending'
        BY <1>1, <3>1, <4>1, CalledIs, InsertFields DEF ServicesInsert
      <4> QED
        BY <4>2
    <3>2. CASE from # "begin"
      BY <1>1, <3>2 DEF AttemptInv, ServicesInv
    <3> QED
      BY <3>1, <3>2
  <2>2. \A kind : Stored(ServiceTable[kind])' = Stored(ServiceTable[kind])
    BY <1>1 DEF Stored
  <2> QED
    BY <1>1, <2>1, <2>2, SameFile DEF AttemptInv, ServicesInv
<1> QED
  BY <1>3, <1>5, <1>6 DEF AttemptInv

\* There is a row for every element of a list of the file, and no other.
LEMMA ListRow ==
    ASSUME NEW kind
    PROVE  /\ \A j \in DOMAIN file[kind] :
                 \E r \in ListRows(kind) :
                    /\ r.kind = kind /\ r.of = file[kind][j] /\ r.id = MsgId(file[kind][j])
                    /\ r.transactionId = FakeTxHash(kind, IndexOf(kind, j))
           /\ \A r \in ListRows(kind) :
                 \E j \in DOMAIN file[kind] :
                    /\ r.kind = kind /\ r.of = file[kind][j] /\ r.id = MsgId(file[kind][j])
                    /\ r.transactionId = FakeTxHash(kind, IndexOf(kind, j))
<1>1. ASSUME NEW j \in DOMAIN file[kind]
      PROVE  \E r \in ListRows(kind) :
                    /\ r.kind = kind /\ r.of = file[kind][j] /\ r.id = MsgId(file[kind][j])
                    /\ r.transactionId = FakeTxHash(kind, IndexOf(kind, j))
  <2> DEFINE r == Row(kind, file[kind][j], MsgId(file[kind][j]), FakeTxHash(kind, IndexOf(kind, j)))
  <2>1. r \in ListRows(kind)
    BY DEF ListRows
  <2>2. /\ r.kind = kind /\ r.of = file[kind][j] /\ r.id = MsgId(file[kind][j])
        /\ r.transactionId = FakeTxHash(kind, IndexOf(kind, j))
    BY DEF Row
  <2> QED
    BY <2>1, <2>2
<1>2. ASSUME NEW r \in ListRows(kind)
      PROVE  \E j \in DOMAIN file[kind] :
                    /\ r.kind = kind /\ r.of = file[kind][j] /\ r.id = MsgId(file[kind][j])
                    /\ r.transactionId = FakeTxHash(kind, IndexOf(kind, j))
  BY DEF ListRows, Row
<1> QED
  BY <1>1, <1>2

\* Inserting rows stores those rows.
LEMMA InsertedRows ==
    ASSUME NEW i
    PROVE  /\ {r.row : r \in Inserted(i)} = i.rows
           /\ \A r \in Inserted(i) : r.attempt = crashes
<1>1. \A r \in Inserted(i) : r.row \in i.rows /\ r.attempt = crashes
  BY DEF Inserted
<1>2. ASSUME NEW x \in i.rows
      PROVE  \E r \in Inserted(i) : r.row = x
  <2>1. [attempt |-> crashes, row |-> x] \in Inserted(i)
    BY DEF Inserted
  <2> QED
    BY <2>1
<1> QED
  BY <1>1, <1>2

LEMMA BulkCreateFacts ==
    ASSUME TypeInv, OptimizedBulkCreate
    PROVE  \E i \in pending :
             /\ i \in AllInserts /\ i.rows # {} /\ i.table \in Tables
             /\ tables'[i.table] = KeptBy(i) \cup Inserted(i)
             /\ \A t \in Tables : t # i.table => tables'[t] = tables[t]
             /\ DOMAIN tables' = Tables
             /\ pending' = pending \ {i}
             /\ file' = file /\ stage' = stage /\ crashes' = crashes
<1>1. PICK i \in pending :
        /\ tables' = [tables EXCEPT ![i.table] = KeptBy(i) \cup Inserted(i)]
        /\ pending' = pending \ {i}
        /\ UNCHANGED <<file, stage, entities, crashes>>
  BY DEF OptimizedBulkCreate
<1>2. i \in AllInserts /\ i.rows # {}
  BY CalledIs DEF TypeInv
<1>3. i.table \in Tables
  BY <1>2, InsertShape
<1> QED
  BY <1>1, <1>2, <1>3 DEF TypeInv

LEMMA BulkCreateStep ==
    ASSUME AttemptInv, OptimizedBulkCreate
    PROVE  AttemptInv'
<1>1. TypeInv
  BY DEF AttemptInv
<1>2. PICK i \in pending :
             /\ i \in AllInserts /\ i.rows # {} /\ i.table \in Tables
             /\ tables'[i.table] = KeptBy(i) \cup Inserted(i)
             /\ \A t \in Tables : t # i.table => tables'[t] = tables[t]
             /\ DOMAIN tables' = Tables
             /\ pending' = pending \ {i}
             /\ file' = file /\ stage' = stage /\ crashes' = crashes
  BY <1>1, BulkCreateFacts
<1>3. TypeInv'
  BY <1>1, <1>2, SameFile DEF TypeInv
<1>4. Due \ {i} \subseteq Due'
  <2>1. Called(Later)' = Called(Later)
    BY <1>2, SameFile DEF Later, Called
  <2> QED
    BY <1>2, <2>1 DEF Due
<1>5. FreshInv'
  <2>1. ASSUME NEW t \in Tables \ ServiceTables, NEW r \in tables'[t]
        PROVE  r.attempt = crashes \/ \E j \in Due' : j.table = t
    <3>1. CASE t = i.table
      <4>1. i.removeBy # "omit"
        BY <1>2, <2>1, <3>1, InsertShape, InsertFields DEF ServicesInsert, ServiceTables
      <4>2. r \in Inserted(i)
        BY <1>2, <2>1, <3>1, <4>1 DEF KeptBy
      <4> QED
        BY <4>2 DEF Inserted
    <3>2. CASE t # i.table
      BY <1>2, <1>4, <2>1, <3>2 DEF AttemptInv, FreshInv
    <3> QED
      BY <3>1, <3>2
  <2> QED
    BY <1>2, <2>1 DEF FreshInv
<1>6. FilledInv'
  <2>1. i \in Called(AllInserts)
    BY <1>2, CalledIs
  <2>2. \A t \in Tables : tables'[t] # {} => \E j \in Called(AllInserts) : j.table = t
    BY <1>2, <2>1 DEF AttemptInv, FilledInv
  <2> QED
    BY <1>2, <2>2, SameFile DEF FilledInv
<1>7. ServicesInv'
  <2>1. ASSUME NEW kind \in DOMAIN ServiceTable
        PROVE  /\ Stored(ServiceTable[kind])' \subseteq StakeServices(kind)
               /\ stage # "begin" =>
                    \/ ServicesInsert(kind) \in pending'
                    \/ StakeServices(kind) \subseteq Stored(ServiceTable[kind])'
    <3>1. ServiceTable[kind] \in Tables
      BY DEF Tables
    <3>2. CASE i.table = ServiceTable[kind]
      <4>1. i = ServicesInsert(kind) /\ i.removeBy = "omit" /\ i.rows = StakeServices(kind)
        BY <1>2, <3>2, ServicesTable
      <4>2. tables'[ServiceTable[kind]] = tables[ServiceTable[kind]] \cup Inserted(i)
        BY <1>2, <3>2, <4>1 DEF KeptBy
      <4>3. {r.row : r \in Inserted(i)} = StakeServices(kind)
        BY <4>1, InsertedRows
      <4>4. Stored(ServiceTable[kind])' = Stored(ServiceTable[kind]) \cup StakeServices(kind)
        BY <4>2, <4>3 DEF Stored
      <4> QED
        BY <4>4 DEF AttemptInv, ServicesInv
    <3>3. CASE i.table # ServiceTable[kind]
      <4>1. Stored(ServiceTable[kind])' = Stored(ServiceTable[kind])
        BY <1>2, <3>1, <3>3 DEF Stored
      <4>2. ServicesInsert(kind) # i
        BY <3>3, InsertFields DEF ServicesInsert
      <4> QED
        BY <1>2, <4>1, <4>2 DEF AttemptInv, ServicesInv
    <3> QED
      BY <3>2, <3>3
  <2> QED
    BY <1>2, <2>1, SameFile DEF ServicesInv
<1> QED
  BY <1>3, <1>5, <1>6, <1>7 DEF AttemptInv

LEMMA CommitStep ==
    ASSUME AttemptInv, Commit
    PROVE  AttemptInv'
<1>1. /\ stage = "messages" /\ stage' = "indexed" /\ pending = {} /\ pending' = {}
      /\ UNCHANGED <<file, tables, crashes>> /\ TypeInv
  BY DEF Commit, AttemptInv
<1>2. TypeInv'
  BY <1>1, SameFile DEF TypeInv, Stages
<1>3. Due' = Due
  BY <1>1 DEF Due, Later, Called
<1> QED
  BY <1>1, <1>2, <1>3, SameFile DEF AttemptInv, FreshInv, FilledInv, ServicesInv, Stored

\* The next attempt owes every insert, so what this one leaves is not final.
LEMMA CrashStep ==
    ASSUME AttemptInv, Crash
    PROVE  AttemptInv'
<1>1. /\ stage' = "begin" /\ pending' = {} /\ crashes' = crashes + 1
      /\ UNCHANGED <<file, tables>> /\ TypeInv
  BY DEF Crash, AttemptInv
<1>2. TypeInv'
  BY <1>1 DEF TypeInv, Stages
<1>3. Due' = Called(AllInserts)
  BY <1>1, SameFile DEF Due, Later, Called
<1>4. FreshInv'
  BY <1>1, <1>3 DEF AttemptInv, FilledInv, FreshInv
<1>5. FilledInv' /\ ServicesInv'
  BY <1>1, SameFile DEF AttemptInv, FilledInv, ServicesInv, Stored
<1> QED
  BY <1>2, <1>4, <1>5 DEF AttemptInv

LEMMA AttemptUnchanged ==
    ASSUME AttemptInv, UNCHANGED vars
    PROVE  AttemptInv'
<1>1. UNCHANGED <<file, stage, pending, tables, crashes>>
  BY DEF vars
<1>2. Due' = Due
  BY <1>1, SameFile DEF Due, Later, Called
<1>3. TypeInv' /\ FreshInv'
  BY <1>1, <1>2, SameFile DEF AttemptInv, TypeInv, FreshInv
<1>4. FilledInv' /\ ServicesInv'
  BY <1>1, SameFile DEF AttemptInv, FilledInv, ServicesInv, Stored
<1> QED
  BY <1>3, <1>4 DEF AttemptInv

LEMMA AttemptStep == AttemptInv /\ [Next]_vars => AttemptInv'
<1> SUFFICES ASSUME AttemptInv, [Next]_vars PROVE AttemptInv'
  OBVIOUS
<1>1. CASE HandleGenesis
  BY <1>1, StageStep DEF HandleGenesis
<1>2. CASE SaveCollected
  BY <1>2, StageStep DEF SaveCollected
<1>3. CASE HandleTransactions
  BY <1>3, StageStep DEF HandleTransactions
<1>4. CASE HandleMessages
  BY <1>4, StageStep DEF HandleMessages
<1> QED
  BY <1>1, <1>2, <1>3, <1>4, BulkCreateStep, CommitStep, CrashStep, AttemptUnchanged DEF Next

LEMMA AttemptInvariance == Spec => []AttemptInv
BY AttemptInit, AttemptStep, PTL DEF Spec

\* When the first block is indexed every row but the services of stakes is of
\* the attempt that succeeded, whatever the failed ones inserted, and the
\* services are those of the stakes of the file.
THEOREM OneAttempt == Spec => []RowsOfOneAttempt
<1>1. AttemptInv => RowsOfOneAttempt
  <2> SUFFICES ASSUME AttemptInv, stage = "indexed" PROVE RowsOfOneAttempt
    BY DEF RowsOfOneAttempt, Indexed
  <2>1. Due = {}
    BY DEF AttemptInv, TypeInv, Due, Later, Called
  <2>2. \A t \in Tables \ ServiceTables : \A r \in tables[t] : r.attempt = crashes
    BY <2>1 DEF AttemptInv, FreshInv
  <2>3. ASSUME NEW kind \in DOMAIN ServiceTable
        PROVE  {r.stakeMsgId : r \in Stored(ServiceTable[kind])} = {MsgId(a) : a \in Listed(kind)}
    <3>1. Stored(ServiceTable[kind]) = StakeServices(kind)
      BY DEF AttemptInv, ServicesInv, TypeInv
    <3>2. ASSUME NEW x \in StakeServices(kind)
          PROVE  x.stakeMsgId \in {MsgId(a) : a \in Listed(kind)}
      <4>1. PICK j \in DOMAIN file[kind] : x.stakeMsgId = MsgId(file[kind][j])
        BY <3>2 DEF StakeServices, ListRows, Row
      <4> QED
        BY <4>1 DEF Listed
    <3>3. ASSUME NEW a \in Listed(kind)
          PROVE  \E x \in StakeServices(kind) : x.stakeMsgId = MsgId(a)
      <4>1. PICK j \in DOMAIN file[kind] : a = file[kind][j]
        BY <3>3 DEF Listed
      <4>2. PICK r \in ListRows(kind) : r.id = MsgId(a)
        BY <4>1, ListRow
      <4>3. [stakeMsgId |-> r.id] \in StakeServices(kind)
        BY DEF StakeServices
      <4> QED
        BY <4>2, <4>3
    <3> QED
      BY <3>1, <3>2, <3>3
  <2> QED
    BY <2>2, <2>3 DEF RowsOfOneAttempt, ServiceTables
<1> QED
  BY <1>1, AttemptInvariance, PTL

-----------------------------------------------------------------------------
(***************************************************************************)
(* What the tables hold.  A first block with a transaction of its own      *)
(* fills Transaction and MsgStakeGateway a second time, and the second     *)
(* insert deletes the rows of the first: from here on the first block has  *)
(* nothing but the file.                                                   *)
(***************************************************************************)

LEMMA SingleIs ==
    ASSUME NEW i
    PROVE  i \in Single <=>
             \/ \E kind \in Kinds : i = Insert(MsgTable[kind], "block_id", ListRows(kind))
             \/ i = Insert("MsgDelegateToGateway", "block_id", DelegationRows)
             \/ i = Insert("MsgCreateValidator", "block_id", ValidatorRows)
             \/ i = Insert("Transaction", "block_id", {TransactionRow(r) : r \in Synthesized})
             \/ i = Insert("Message", "block_id", {MessageRow(r) : r \in Synthesized})
<1>1. \A kind \in DOMAIN ServiceTable :
        Insert(ServiceTable[kind], "omit", {[stakeMsgId |-> r.id] : r \in ListRows(kind)}).removeBy = "omit"
  BY InsertFields
<1>2. \A t, rows : Insert(t, "block_id", rows).removeBy # "omit"
  BY InsertFields
<1> QED
  BY <1>1, <1>2 DEF Single, HandlerInserts, FinalInserts

\* Each of them has a table of its own.
LEMMA SingleTable ==
    ASSUME NEW i \in Single, NEW j \in Single, i.table = j.table
    PROVE  i = j
<1>1. /\ \A k \in Kinds : /\ MsgTable[k] # "MsgDelegateToGateway"
                          /\ MsgTable[k] # "MsgCreateValidator"
                          /\ MsgTable[k] # "Transaction"
                          /\ MsgTable[k] # "Message"
      /\ \A k, m \in Kinds : MsgTable[k] = MsgTable[m] => k = m
  BY MsgTableIsKind
<1> DEFINE OfKind(x, kind) == /\ x = Insert(MsgTable[kind], "block_id", ListRows(kind))
                              /\ x.table = MsgTable[kind]
           Of(x, t, rows) == x = Insert(t, "block_id", rows) /\ x.table = t
<1>2. \A x \in Single :
        \/ \E kind \in Kinds : OfKind(x, kind)
        \/ Of(x, "MsgDelegateToGateway", DelegationRows)
        \/ Of(x, "MsgCreateValidator", ValidatorRows)
        \/ Of(x, "Transaction", {TransactionRow(r) : r \in Synthesized})
        \/ Of(x, "Message", {MessageRow(r) : r \in Synthesized})
  BY SingleIs, InsertFields
<1>3. CASE \E kind \in Kinds : OfKind(i, kind)
  <2>1. PICK k \in Kinds : OfKind(i, k)
    BY <1>3
  <2>2. \E m \in Kinds : OfKind(j, m)
    BY <1>1, <1>2, <2>1
  <2> QED
    BY <1>1, <2>1, <2>2
<1>4. CASE ~\E kind \in Kinds : OfKind(i, kind)
  <2>1. ~\E kind \in Kinds : OfKind(j, kind)
    BY <1>1, <1>2, <1>4
  <2> QED
    BY <1>2, <1>4, <2>1
<1> QED
  BY <1>3, <1>4

LEMMA QuietInserts ==
    ASSUME Quiet, TypeInv
    PROVE  /\ OwnInserts = {} /\ OwnMessageInserts = {}
           /\ \A j \in AllInserts : j.removeBy # "omit" => j \in Single
<1>1. ~file.transaction
  BY DEF Quiet, TypeInv
<1>2. OwnInserts = {} /\ OwnMessageInserts = {}
  BY <1>1 DEF OwnInserts, OwnMessageInserts
<1> QED
  BY <1>2 DEF AllInserts, Single

\* One of them is the only insert of its table.
LEMMA OnlyInsert ==
    ASSUME Quiet, TypeInv, NEW i \in Single, NEW j \in AllInserts, i.table = j.table
    PROVE  i = j
<1>1. i \in AllInserts /\ i.removeBy # "omit"
  BY DEF Single, AllInserts
<1>2. j.removeBy # "omit"
  BY <1>1, InsertShape, InsertFields DEF ServicesInsert, ServiceTables
<1> QED
  BY <1>2, QuietInserts, SingleTable

LEMMA SingleInTables ==
    ASSUME NEW i \in Single
    PROVE  i.table \in Tables /\ i \in AllInserts /\ i.removeBy # "omit"
BY InsertShape DEF Single, AllInserts

LEMMA ContentsStage ==
    ASSUME QuietInv, Quiet,
           NEW from, NEW to, NEW inserts,
           \/ from = "begin" /\ to = "handlers" /\ inserts = HandlerInserts
           \/ from = "handlers" /\ to = "collected" /\ inserts = FinalInserts
           \/ from = "collected" /\ to = "transactions" /\ inserts = OwnInserts
           \/ from = "transactions" /\ to = "messages" /\ inserts = OwnMessageInserts,
           Stage(from, to, inserts)
    PROVE  ContentsInv'
<1>1. /\ stage = from /\ stage' = to /\ pending = {} /\ pending' = Called(inserts)
      /\ file' = file /\ tables' = tables /\ crashes' = crashes
      /\ TypeInv /\ ContentsInv
  BY DEF Stage, QuietInv, AttemptInv
<1>2. ASSUME NEW i \in Single
      PROVE  Begun(i)' => i \in pending' \/ tables'[i.table] = Inserted(i)
  <2>1. CASE Begun(i)
    BY <1>1, <2>1 DEF ContentsInv
  <2>2. CASE ~Begun(i) /\ Begun(i)'
    <3>1. i \in inserts
      BY <1>1, <2>2, SameFile DEF Begun
    <3>2. CASE i.rows = {}
      BY <1>1, <3>2 DEF ContentsInv, Inserted
    <3>3. CASE i.rows # {}
      BY <1>1, <3>1, <3>3, CalledIs
    <3> QED
      BY <3>2, <3>3
  <2> QED
    BY <2>1, <2>2
<1>3. \A i : Inserted(i)' = Inserted(i)
  BY <1>1 DEF Inserted
<1> QED
  BY <1>1, <1>2, <1>3, SameFile DEF ContentsInv

LEMMA ContentsBulkCreate ==
    ASSUME QuietInv, Quiet, OptimizedBulkCreate
    PROVE  ContentsInv'
<1>1. TypeInv /\ ContentsInv
  BY DEF QuietInv, AttemptInv
<1>2. PICK j \in pending :
             /\ j \in AllInserts /\ j.rows # {} /\ j.table \in Tables
             /\ tables'[j.table] = KeptBy(j) \cup Inserted(j)
             /\ \A t \in Tables : t # j.table => tables'[t] = tables[t]
             /\ DOMAIN tables' = Tables
             /\ pending' = pending \ {j}
             /\ file' = file /\ stage' = stage /\ crashes' = crashes
  BY <1>1, BulkCreateFacts
<1>3. \A i : Inserted(i)' = Inserted(i) /\ (Begun(i)' <=> Begun(i))
  BY <1>2, SameFile DEF Inserted, Begun
<1>4. ASSUME NEW i \in Single
      PROVE  /\ i.rows = {} => tables'[i.table] = {}
             /\ Begun(i) => i \in pending' \/ tables'[i.table] = Inserted(i)
  <2>1. CASE i = j
    BY <1>2, <2>1, SingleInTables DEF KeptBy
  <2>2. CASE i # j
    <3>1. tables'[i.table] = tables[i.table]
      BY <1>1, <1>2, <2>2, OnlyInsert, SingleInTables
    <3> QED
      BY <1>1, <1>2, <2>2, <3>1 DEF ContentsInv
  <2> QED
    BY <2>1, <2>2
<1> QED
  BY <1>2, <1>3, <1>4, SameFile DEF ContentsInv

LEMMA ContentsStep == QuietInv /\ Quiet /\ [Next]_vars => ContentsInv'
<1> SUFFICES ASSUME QuietInv, Quiet, [Next]_vars PROVE ContentsInv'
  OBVIOUS
<1>0. ContentsInv
  BY DEF QuietInv
<1>1. CASE HandleGenesis
  BY <1>1, ContentsStage DEF HandleGenesis
<1>2. CASE SaveCollected
  BY <1>2, ContentsStage DEF SaveCollected
<1>3. CASE HandleTransactions
  BY <1>3, ContentsStage DEF HandleTransactions
<1>4. CASE HandleMessages
  BY <1>4, ContentsStage DEF HandleMessages
<1>5. CASE Commit
  <2>1. UNCHANGED <<file, tables, pending, crashes>> /\ stage = "messages" /\ stage' = "indexed"
    BY <1>5 DEF Commit
  <2>2. \A i : Inserted(i)' = Inserted(i) /\ (Begun(i)' <=> Begun(i))
    BY <2>1, SameFile DEF Inserted, Begun
  <2> QED
    BY <1>0, <2>1, <2>2, SameFile DEF ContentsInv
<1>6. CASE Crash
  <2>1. file' = file /\ tables' = tables /\ stage' = "begin"
    BY <1>6 DEF Crash
  <2>2. \A i : ~Begun(i)'
    BY <2>1 DEF Begun
  <2> QED
    BY <1>0, <2>1, <2>2, SameFile DEF ContentsInv
<1>7. CASE UNCHANGED vars
  <2>1. UNCHANGED <<file, tables, pending, crashes, stage>>
    BY <1>7 DEF vars
  <2>2. \A i : Inserted(i)' = Inserted(i) /\ (Begun(i)' <=> Begun(i))
    BY <2>1, SameFile DEF Inserted, Begun
  <2> QED
    BY <1>0, <2>1, <2>2, SameFile DEF ContentsInv
<1> QED
  BY <1>1, <1>2, <1>3, <1>4, <1>5, <1>6, <1>7, ContentsBulkCreate DEF Next

LEMMA QuietInvariance == Spec /\ Quiet => []QuietInv
<1> SUFFICES ASSUME Quiet PROVE Spec => []QuietInv
  OBVIOUS
<1>1. Init => QuietInv
  <2> SUFFICES ASSUME Init PROVE ContentsInv
    BY AttemptInit DEF QuietInv
  <2>1. \A t \in Tables : tables[t] = {}
    BY DEF Init
  <2>2. \A i : ~Begun(i)
    BY DEF Init, Begun
  <2> QED
    BY <2>1, <2>2, SingleInTables DEF ContentsInv
<1>2. QuietInv /\ [Next]_vars => QuietInv'
  BY AttemptStep, ContentsStep DEF QuietInv
<1> QED
  BY <1>1, <1>2, PTL DEF Spec

\* When the first block is indexed the tables hold what the file says.
LEMMA TablesAtTheEnd ==
    ASSUME QuietInv, Indexed
    PROVE  /\ \A kind \in Kinds : Stored(MsgTable[kind]) = ListRows(kind)
           /\ Stored("MsgDelegateToGateway") = DelegationRows
           /\ Stored("MsgCreateValidator") = ValidatorRows
           /\ Stored("Transaction") = {TransactionRow(r) : r \in Synthesized}
           /\ Stored("Message") = {MessageRow(r) : r \in Synthesized}
<1>1. ASSUME NEW i \in Single
      PROVE  Stored(i.table) = i.rows
  <2>1. Begun(i) /\ pending = {}
    BY <1>1 DEF Begun, Single, Indexed, QuietInv, AttemptInv, TypeInv
  <2>2. tables[i.table] = Inserted(i)
    BY <1>1, <2>1 DEF QuietInv, ContentsInv
  <2> QED
    BY <2>2, InsertedRows DEF Stored
<1>2. \A t, rows : Insert(t, "block_id", rows) \in Single => Stored(t) = rows
  BY <1>1, InsertFields
<1> QED
  BY <1>2, SingleIs

-----------------------------------------------------------------------------
(* Rows, and the transactions and messages they lead to *)

LEMMA FileTyped ==
    ASSUME TypeInv
    PROVE  /\ \A kind \in Kinds : \A i, j \in DOMAIN file[kind] :
                 i \in Nat /\ (file[kind][i] = file[kind][j] => i = j)
           /\ file.genTxs \in Seq(Validators) /\ file.staking \in Seq(Validators)
           /\ \A i, j \in DOMAIN file.genTxs : file.genTxs[i] = file.genTxs[j] => i = j
           /\ \A i, j \in DOMAIN file.staking : file.staking[i] = file.staking[j] => i = j
           /\ \A i \in DOMAIN file.app : file.delegatees[file.app[i]] \subseteq Gateways
BY GenesisAssumption DEF TypeInv, Lists, Kinds

GenTxRow(r, i) ==
    /\ r.kind = "validator" /\ r.of = file.genTxs[i] /\ r.status = "Staked"
    /\ r.id = <<"genesis-gen-txs", i - 1>>
    /\ r.transactionId = FakeTxHash("validator", i - 1)

StakingRow(r, j) ==
    /\ r.kind = "validator" /\ r.of = file.staking[j] /\ r.status = file.status[file.staking[j]]
    /\ r.id = <<"genesis-staking-validator", file.staking[j]>>
    /\ r.transactionId = FakeTxHash("validator", StakingIndex(j))

\* There is a row for every gen_tx and for every staked validator without one.
LEMMA ValidatorRow ==
    /\ \A r \in ValidatorRows :
          \/ \E i \in DOMAIN file.genTxs : GenTxRow(r, i)
          \/ \E j \in StakingValidators : StakingRow(r, j)
    /\ \A i \in DOMAIN file.genTxs : \E r \in ValidatorRows : GenTxRow(r, i)
    /\ \A j \in StakingValidators : \E r \in ValidatorRows : StakingRow(r, j)
<1> DEFINE g(i) == Validator(file.genTxs[i], "Staked", <<"genesis-gen-txs", i - 1>>, i - 1)
           q(j) == Validator(file.staking[j], file.status[file.staking[j]],
                             <<"genesis-staking-validator", file.staking[j]>>, StakingIndex(j))
<1>1. ValidatorRows = {g(i) : i \in DOMAIN file.genTxs} \cup {q(j) : j \in StakingValidators}
  BY DEF ValidatorRows
<1>2. \A i : GenTxRow(g(i), i)
  BY DEF Validator, GenTxRow
<1>3. \A j : StakingRow(q(j), j)
  BY DEF Validator, StakingRow
<1> HIDE DEF g, q
<1> QED
  BY <1>1, <1>2, <1>3

LEMMA HashIs ==
    ASSUME NEW k, NEW m, NEW i \in Int, NEW j \in Int, FakeTxHash(k, i) = FakeTxHash(m, j)
    PROVE  k = m /\ i = j
BY DEF FakeTxHash

\* A gen_tx and a validator of the exported state are never numbered the same.
LEMMA ValidatorsApart ==
    ASSUME TypeInv, NEW r \in ValidatorRows, NEW q \in ValidatorRows,
           \/ r.transactionId = q.transactionId
           \/ r.id = q.id
           \/ r.of = q.of
    PROVE  /\ r.of = q.of /\ r.status = q.status
           /\ r.transactionId = q.transactionId /\ r.id = q.id
<1>1. /\ file.genTxs \in Seq(Validators) /\ file.staking \in Seq(Validators)
      /\ \A i, j \in DOMAIN file.genTxs : file.genTxs[i] = file.genTxs[j] => i = j
      /\ \A i, j \in DOMAIN file.staking : file.staking[i] = file.staking[j] => i = j
  BY FileTyped
<1>2. /\ Len(file.genTxs) \in Nat
      /\ DOMAIN file.genTxs = 1..Len(file.genTxs)
      /\ DOMAIN file.staking = 1..Len(file.staking)
  BY <1>1
<1>3. ASSUME NEW i \in DOMAIN file.genTxs, GenTxRow(r, i),
             NEW j \in DOMAIN file.genTxs, GenTxRow(q, j)
      PROVE  i = j
  <2>1. i \in Int /\ j \in Int
    BY <1>1
  <2>2. r.transactionId = q.transactionId => i = j
    BY <1>3, <2>1, HashIs DEF GenTxRow
  <2>3. r.id = q.id => i = j
    BY <1>3, <2>1 DEF GenTxRow
  <2> QED
    BY <1>1, <1>3, <2>2, <2>3 DEF GenTxRow
<1>4. ASSUME NEW i \in StakingValidators, StakingRow(r, i),
             NEW j \in StakingValidators, StakingRow(q, j)
      PROVE  i = j
  <2>1. i \in DOMAIN file.staking /\ j \in DOMAIN file.staking /\ i \in Int /\ j \in Int
    BY <1>1 DEF StakingValidators
  <2>2. r.transactionId = q.transactionId => i = j
    BY <1>2, <1>4, <2>1, HashIs DEF StakingRow, StakingIndex
  <2>3. r.id = q.id => r.of = q.of
    BY <1>4 DEF StakingRow
  <2> QED
    BY <1>1, <1>4, <2>1, <2>2, <2>3 DEF StakingRow
<1>5. ASSUME NEW x, NEW y, NEW i \in DOMAIN file.genTxs, GenTxRow(x, i),
             NEW j \in StakingValidators, StakingRow(y, j)
      PROVE  x.transactionId # y.transactionId /\ x.id # y.id /\ x.of # y.of
  <2>1. /\ j \in DOMAIN file.staking /\ i \in Int /\ j \in Int /\ i <= Len(file.genTxs) /\ j > 0
        /\ ~Contains(file.genTxs, file.staking[j])
    BY <1>1, <1>2 DEF StakingValidators
  <2>2. x.transactionId # y.transactionId
    BY <1>2, <1>5, <2>1, HashIs DEF GenTxRow, StakingRow, StakingIndex
  <2>3. x.id # y.id
    BY <1>5 DEF GenTxRow, StakingRow
  <2>4. x.of # y.of
    BY <1>2, <1>5, <2>1 DEF GenTxRow, StakingRow, Contains
  <2> QED
    BY <2>2, <2>3, <2>4
<1>6. CASE \E i \in DOMAIN file.genTxs : GenTxRow(r, i)
  <2>1. PICK i \in DOMAIN file.genTxs : GenTxRow(r, i)
    BY <1>6
  <2>2. PICK j \in DOMAIN file.genTxs : GenTxRow(q, j)
    BY <1>5, <2>1, ValidatorRow
  <2> QED
    BY <1>3, <2>1, <2>2 DEF GenTxRow
<1>7. CASE \E i \in StakingValidators : StakingRow(r, i)
  <2>1. PICK i \in StakingValidators : StakingRow(r, i)
    BY <1>7
  <2>2. PICK j \in StakingValidators : StakingRow(q, j)
    BY <1>5, <2>1, ValidatorRow
  <2> QED
    BY <1>4, <2>1, <2>2 DEF StakingRow
<1> QED
  BY <1>6, <1>7, ValidatorRow

\* Two rows have a transaction in common only if both are services, or they are
\* about the same thing.
LEMMA TransactionsApart ==
    ASSUME TypeInv, NEW r \in Synthesized, NEW q \in Synthesized,
           r.transactionId = q.transactionId
    PROVE  r.kind = q.kind /\ (r.kind = "service" \/ r.of = q.of)
<1>1. \A x \in Synthesized : x \in ValidatorRows \/ \E kind \in Kinds : x \in ListRows(kind)
  BY DEF Synthesized
<1>2. \A x \in ValidatorRows : x.kind = "validator" /\ \E n \in Int : x.transactionId = FakeTxHash("validator", n)
  <2>1. \A i \in DOMAIN file.genTxs : i - 1 \in Int
    BY FileTyped
  <2>2. \A j \in StakingValidators : StakingIndex(j) \in Int
    BY FileTyped DEF StakingValidators, StakingIndex
  <2> QED
    BY <2>1, <2>2, ValidatorRow DEF GenTxRow, StakingRow
<1>3. ASSUME NEW kind \in Kinds, NEW x \in ListRows(kind)
      PROVE  \E j \in DOMAIN file[kind] :
               /\ x.kind = kind /\ x.of = file[kind][j]
               /\ x.transactionId = FakeTxHash(kind, IndexOf(kind, j))
               /\ IndexOf(kind, j) \in Int /\ j \in Int
  <2>1. PICK j \in DOMAIN file[kind] :
               /\ x.kind = kind /\ x.of = file[kind][j]
               /\ x.transactionId = FakeTxHash(kind, IndexOf(kind, j))
    BY <1>3, ListRow
  <2>2. j \in Int /\ IndexOf(kind, j) \in Int
    BY FileTyped DEF IndexOf
  <2> QED
    BY <2>1, <2>2
<1>4. "validator" \notin Kinds
  BY DEF Kinds
<1>5. CASE r \in ValidatorRows
  <2>1. q \in ValidatorRows
    BY <1>1, <1>2, <1>3, <1>4, <1>5, HashIs
  <2> QED
    BY <1>2, <1>5, <2>1, ValidatorsApart
<1>6. CASE \E kind \in Kinds : r \in ListRows(kind)
  <2>1. PICK kind \in Kinds : r \in ListRows(kind)
    BY <1>6
  <2>2. PICK m \in Kinds : q \in ListRows(m)
    BY <1>1, <1>2, <1>3, <1>4, <2>1, HashIs
  <2>3. PICK i \in DOMAIN file[kind] :
               /\ r.kind = kind /\ r.of = file[kind][i]
               /\ r.transactionId = FakeTxHash(kind, IndexOf(kind, i))
               /\ IndexOf(kind, i) \in Int /\ i \in Int
    BY <1>3, <2>1
  <2>4. PICK j \in DOMAIN file[m] :
               /\ q.kind = m /\ q.of = file[m][j]
               /\ q.transactionId = FakeTxHash(m, IndexOf(m, j))
               /\ IndexOf(m, j) \in Int /\ j \in Int
    BY <1>3, <2>2
  <2>5. kind = m /\ IndexOf(kind, i) = IndexOf(kind, j)
    <3>1. FakeTxHash(kind, IndexOf(kind, i)) = FakeTxHash(m, IndexOf(m, j))
      BY <2>3, <2>4
    <3>2. kind = m /\ IndexOf(kind, i) = IndexOf(m, j)
      BY <2>3, <2>4, <3>1, HashIs
    <3> QED
      BY <3>2
  <2>6. kind # "service" => i = j
    BY <2>3, <2>4, <2>5 DEF IndexOf
  <2> QED
    BY <2>3, <2>4, <2>5, <2>6
<1> QED
  BY <1>1, <1>5, <1>6

\* Every row leads to its transaction and its message.
LEMMA RowsLead ==
    ASSUME QuietInv, Indexed, NEW r \in Synthesized
    PROVE  /\ \E t \in Stored("Transaction") : t.id = r.transactionId /\ t.of = r.of
           /\ \E m \in Stored("Message") : /\ m.id = r.id /\ m.of = r.of
                                           /\ m.transactionId = r.transactionId
<1>1. TransactionRow(r) \in Stored("Transaction") /\ MessageRow(r) \in Stored("Message")
  BY TablesAtTheEnd
<1>2. /\ TransactionRow(r).id = r.transactionId /\ TransactionRow(r).of = r.of
      /\ MessageRow(r).id = r.id /\ MessageRow(r).of = r.of
      /\ MessageRow(r).transactionId = r.transactionId
  BY DEF TransactionRow, MessageRow
<1> QED
  BY <1>1, <1>2

\* And every transaction comes from a row.
LEMMA TransactionsComeFrom ==
    ASSUME QuietInv, Indexed, NEW t \in Stored("Transaction")
    PROVE  \E r \in Synthesized : t.id = r.transactionId /\ t.of = r.of /\ t.kind = r.kind
<1>1. PICK r \in Synthesized : t = TransactionRow(r)
  BY TablesAtTheEnd
<1> QED
  BY <1>1 DEF TransactionRow

LEMMA DelegationRow ==
    /\ \A x \in ListRows("app") : \A g \in file.delegatees[x.of] :
          \E r \in DelegationRows : /\ r.of = <<x.of, g>> /\ r.transactionId = x.transactionId
    /\ \A r \in DelegationRows :
          \E x \in ListRows("app") : \E g \in file.delegatees[x.of] :
             /\ r.of = <<x.of, g>> /\ r.transactionId = x.transactionId
<1>1. ASSUME NEW x \in ListRows("app"), NEW g \in file.delegatees[x.of]
      PROVE  \E r \in DelegationRows : /\ r.of = <<x.of, g>> /\ r.transactionId = x.transactionId
  <2> DEFINE r == Row("delegation", <<x.of, g>>, MsgId(g), x.transactionId)
  <2>1. r \in DelegationRows
    BY DEF DelegationRows
  <2>2. r.of = <<x.of, g>> /\ r.transactionId = x.transactionId
    BY DEF Row
  <2> QED
    BY <2>1, <2>2
<1>2. ASSUME NEW r \in DelegationRows
      PROVE  \E x \in ListRows("app") : \E g \in file.delegatees[x.of] :
             /\ r.of = <<x.of, g>> /\ r.transactionId = x.transactionId
  <2>1. PICK x \in ListRows("app") :
          r \in {Row("delegation", <<x.of, g>>, MsgId(g), x.transactionId) : g \in file.delegatees[x.of]}
    BY DEF DelegationRows
  <2>2. PICK g \in file.delegatees[x.of] : r = Row("delegation", <<x.of, g>>, MsgId(g), x.transactionId)
    BY <2>1
  <2> QED
    BY <2>2 DEF Row
<1> QED
  BY <1>1, <1>2

\* When the first block is indexed, every stake, service and delegation that
\* was made up for the file has its transaction, every stake and service its
\* message, and no two of them share a transaction but services: the handlers
\* of all kinds fill the two tables together.  (Provided the first block has
\* no transactions of its own, which would delete those of the file.)
THEOREM MessagesLead == Spec /\ Quiet => []MessagesHaveTransactions
<1>1. QuietInv => MessagesHaveTransactions
  <2> SUFFICES ASSUME QuietInv, Indexed PROVE MessagesHaveTransactions
    BY DEF MessagesHaveTransactions
  <2>0. TypeInv
    BY DEF QuietInv, AttemptInv
  <2>1. ASSUME NEW kind \in Kinds
        PROVE  {r.of : r \in Stored(MsgTable[kind])} = Listed(kind)
    <3>1. Stored(MsgTable[kind]) = ListRows(kind)
      BY TablesAtTheEnd
    <3>2. \A a \in Listed(kind) : \E r \in ListRows(kind) : r.of = a
      BY ListRow DEF Listed
    <3>3. \A r \in ListRows(kind) : r.of \in Listed(kind)
      BY ListRow DEF Listed
    <3> QED
      BY <3>1, <3>2, <3>3
  <2>2. ASSUME NEW kind \in Kinds, NEW r \in Stored(MsgTable[kind])
        PROVE  /\ \E m \in Stored("Message") : /\ m.id = r.id /\ m.of = r.of
                                               /\ m.transactionId = r.transactionId
               /\ \E t \in Stored("Transaction") : t.id = r.transactionId /\ t.of = r.of
    <3>1. r \in Synthesized
      BY TablesAtTheEnd DEF Synthesized
    <3> QED
      BY <3>1, RowsLead
  <2>3. {r.of : r \in Stored("MsgDelegateToGateway")} =
          {d \in Listed("app") \X Gateways : d[2] \in file.delegatees[d[1]]}
    <3>1. Stored("MsgDelegateToGateway") = DelegationRows
      BY TablesAtTheEnd
    <3>2. ASSUME NEW r \in DelegationRows
          PROVE  r.of \in {d \in Listed("app") \X Gateways : d[2] \in file.delegatees[d[1]]}
      <4>1. PICK x \in ListRows("app") : \E g \in file.delegatees[x.of] : r.of = <<x.of, g>>
        BY DelegationRow
      <4>2. PICK g \in file.delegatees[x.of] : r.of = <<x.of, g>>
        BY <4>1
      <4>3. PICK j \in DOMAIN file["app"] : x.of = file["app"][j]
        BY ListRow
      <4>4. x.of \in Listed("app") /\ g \in Gateways
        BY <2>0, <4>3, FileTyped DEF Listed
      <4> QED
        BY <4>2, <4>4
    <3>3. ASSUME NEW d \in Listed("app") \X Gateways, d[2] \in file.delegatees[d[1]]
          PROVE  \E r \in DelegationRows : r.of = d
      <4>1. PICK x \in ListRows("app") : x.of = d[1]
        BY ListRow DEF Listed
      <4>2. d = <<d[1], d[2]>>
        OBVIOUS
      <4> QED
        BY <3>3, <4>1, <4>2, DelegationRow
    <3> QED
      BY <3>1, <3>2, <3>3
  <2>4. ASSUME NEW r \in Stored("MsgDelegateToGateway")
        PROVE  \E t \in Stored("Transaction") : t.id = r.transactionId /\ t.of = r.of[1]
    <3>1. PICK x \in ListRows("app") : \E g \in file.delegatees[x.of] :
             r.of = <<x.of, g>> /\ r.transactionId = x.transactionId
      BY TablesAtTheEnd, DelegationRow
    <3>2. "app" \in Kinds /\ x \in Synthesized
      BY DEF Kinds, Synthesized
    <3>3. r.of[1] = x.of /\ r.transactionId = x.transactionId
      BY <3>1
    <3>4. PICK t \in Stored("Transaction") : t.id = x.transactionId /\ t.of = x.of
      BY <3>2, RowsLead
    <3> QED
      BY <3>3, <3>4
  <2>5. \A t, u \in Stored("Transaction") :
          t.id = u.id => t.kind = u.kind /\ (t.kind = "service" \/ t.of = u.of)
    BY <2>0, TransactionsComeFrom, TransactionsApart
  <2> QED
    BY <2>1, <2>2, <2>3, <2>4, <2>5 DEF MessagesHaveTransactions
<1> QED
  BY <1>1, QuietInvariance, PTL

EntitiesInv == Indexed => entities = Entities

LEMMA EntitiesStep == EntitiesInv /\ [Next]_vars => EntitiesInv'
<1> SUFFICES ASSUME EntitiesInv, [Next]_vars PROVE EntitiesInv'
  OBVIOUS
<1>1. ASSUME file' = file
      PROVE  Entities' = Entities
  BY <1>1 DEF Entities, ListRows, DelegationRows, ValidatorRows, StakingValidators, StakingIndex, IndexOf
<1>2. CASE HandleGenesis \/ SaveCollected \/ HandleTransactions \/ HandleMessages
  BY <1>2 DEF HandleGenesis, SaveCollected, HandleTransactions, HandleMessages, Stage,
              EntitiesInv, Indexed
<1>3. CASE OptimizedBulkCreate
  <2>1. UNCHANGED <<file, stage, entities>>
    BY <1>3 DEF OptimizedBulkCreate
  <2> QED
    BY <1>1, <2>1 DEF EntitiesInv, Indexed
<1>4. CASE Commit
  BY <1>1, <1>4 DEF Commit, EntitiesInv, Indexed
<1>5. CASE Crash
  BY <1>5 DEF Crash, EntitiesInv, Indexed
<1>6. CASE UNCHANGED vars
  BY <1>1, <1>6 DEF vars, EntitiesInv, Indexed
<1> QED
  BY <1>2, <1>3, <1>4, <1>5, <1>6 DEF Next

LEMMA EntitiesInvariance == Spec => []EntitiesInv
<1>1. Init => EntitiesInv
  BY DEF Init, EntitiesInv, Indexed
<1> QED
  BY <1>1, EntitiesStep, PTL DEF Spec

\* The entity a row of a validator is saved as.
EntityOf(r) == [kind |-> r.kind, id |-> r.of, status |-> r.status,
                transactionId |-> r.transactionId, createMsgId |-> r.id]

LEMMA EntityFields ==
    ASSUME NEW r
    PROVE  /\ EntityOf(r).kind = r.kind /\ EntityOf(r).id = r.of /\ EntityOf(r).status = r.status
           /\ EntityOf(r).transactionId = r.transactionId /\ EntityOf(r).createMsgId = r.id
BY DEF EntityOf

LEMMA ValidatorEntities ==
    {e \in Entities : e.kind = "validator"} = {EntityOf(r) : r \in ValidatorRows}
<1>1. \A r \in ValidatorRows : r.kind = "validator"
  BY ValidatorRow DEF GenTxRow, StakingRow
<1>2. \A r \in (UNION {ListRows(kind) : kind \in Kinds}) \cup DelegationRows :
        [kind |-> r.kind, id |-> r.of, status |-> "Staked"].kind # "validator"
  <2>1. \A kind \in Kinds : \A r \in ListRows(kind) : r.kind # "validator"
    BY ListRow DEF Kinds
  <2>2. \A r \in DelegationRows : r.kind # "validator"
    BY DEF DelegationRows, Row
  <2> QED
    BY <2>1, <2>2
<1>3. \A r \in ValidatorRows : EntityOf(r).kind = "validator"
  BY <1>1, EntityFields
<1>4. Entities = {[kind |-> r.kind, id |-> r.of, status |-> "Staked"] :
                    r \in (UNION {ListRows(kind) : kind \in Kinds}) \cup DelegationRows}
                 \cup {EntityOf(r) : r \in ValidatorRows}
  BY DEF Entities, EntityOf
<1> QED
  BY <1>2, <1>3, <1>4

\* Every validator of the file is there once, with its status, its transaction
\* and its message, whichever way the file brings it.
THEOREM ValidatorsRight == Spec /\ Quiet => []ValidatorsMatchGenesis
<1>1. QuietInv /\ EntitiesInv => ValidatorsMatchGenesis
  <2> DEFINE rows == {e \in entities : e.kind = "validator"}
             right == {<<v, IF v \in GenTxs THEN "Staked" ELSE file.status[v]>> : v \in GenTxs \cup Staking}
  <2> SUFFICES ASSUME QuietInv, EntitiesInv, Indexed
               PROVE  /\ {<<e.id, e.status>> : e \in rows} = right
                      /\ \A e, f \in rows : e.id = f.id => e = f
                      /\ \A e \in rows :
                           /\ {t.of : t \in {t \in Stored("Transaction") : t.id = e.transactionId}} = {e.id}
                           /\ {m.of : m \in {m \in Stored("MsgCreateValidator") : m.id = e.createMsgId}} = {e.id}
    BY DEF ValidatorsMatchGenesis
  <2>0. TypeInv
    BY DEF QuietInv, AttemptInv
  <2>1. rows = {EntityOf(r) : r \in ValidatorRows}
    BY ValidatorEntities DEF EntitiesInv
  <2> HIDE DEF rows
  <2>2. \A e \in rows : \E r \in ValidatorRows :
          /\ e = EntityOf(r) /\ e.id = r.of /\ e.status = r.status
          /\ e.transactionId = r.transactionId /\ e.createMsgId = r.id
    BY <2>1, EntityFields
  <2>3. \A e, f \in rows : e.id = f.id => e = f
    <3> SUFFICES ASSUME NEW e \in rows, NEW f \in rows, e.id = f.id
                 PROVE  e = f
      OBVIOUS
    <3>1. PICK r \in ValidatorRows : e = EntityOf(r) /\ e.id = r.of
      BY <2>2
    <3>2. PICK q \in ValidatorRows : f = EntityOf(q) /\ f.id = q.of
      BY <2>2
    <3>3. /\ r.of = q.of /\ r.status = q.status /\ r.transactionId = q.transactionId /\ r.id = q.id
      BY <2>0, <3>1, <3>2, ValidatorsApart
    <3>4. r.kind = q.kind
      BY ValidatorRow DEF GenTxRow, StakingRow
    <3> QED
      BY <3>1, <3>2, <3>3, <3>4 DEF EntityOf
  <2>4. ASSUME NEW r \in ValidatorRows
        PROVE  <<r.of, r.status>> \in right
    <3>1. CASE \E i \in DOMAIN file.genTxs : GenTxRow(r, i)
      <4>1. r.of \in GenTxs /\ r.status = "Staked"
        BY <3>1 DEF GenTxRow, GenTxs
      <4> QED
        BY <4>1
    <3>2. CASE \E j \in StakingValidators : StakingRow(r, j)
      <4>1. PICK j \in StakingValidators : StakingRow(r, j)
        BY <3>2
      <4>2. r.of \in Staking /\ r.status = file.status[r.of]
        BY <4>1 DEF StakingRow, Staking, StakingValidators
      <4>3. r.of \notin GenTxs
        BY <2>0, <4>1, FileTyped DEF StakingRow, StakingValidators, GenTxs, Contains
      <4> QED
        BY <4>2, <4>3
    <3> QED
      BY <3>1, <3>2, ValidatorRow
  <2>5. ASSUME NEW v \in GenTxs \cup Staking
        PROVE  \E r \in ValidatorRows : r.of = v
    <3>1. CASE v \in GenTxs
      <4>1. PICK i \in DOMAIN file.genTxs : v = file.genTxs[i]
        BY <3>1 DEF GenTxs
      <4> QED
        BY <4>1, ValidatorRow DEF GenTxRow
    <3>2. CASE v \in Staking /\ v \notin GenTxs
      <4>1. PICK j \in DOMAIN file.staking : v = file.staking[j]
        BY <3>2 DEF Staking
      <4>2. j \in StakingValidators
        BY <2>0, <3>2, <4>1, FileTyped DEF StakingValidators, GenTxs, Contains
      <4> QED
        BY <4>1, <4>2, ValidatorRow DEF StakingRow
    <3> QED
      BY <3>1, <3>2
  <2>6. {<<e.id, e.status>> : e \in rows} = right
    <3>1. \A e \in rows : <<e.id, e.status>> \in right
      BY <2>2, <2>4
    <3>2. ASSUME NEW v \in GenTxs \cup Staking
          PROVE  \E e \in rows : <<e.id, e.status>> = <<v, IF v \in GenTxs THEN "Staked" ELSE file.status[v]>>
      <4>1. PICK r \in ValidatorRows : r.of = v
        BY <2>5
      <4>2. EntityOf(r) \in rows /\ EntityOf(r).id = v /\ EntityOf(r).status = r.status
        BY <2>1, <4>1, EntityFields
      <4>3. PICK w \in GenTxs \cup Staking :
              <<r.of, r.status>> = <<w, IF w \in GenTxs THEN "Staked" ELSE file.status[w]>>
        BY <2>4
      <4>4. w = v /\ r.status = IF v \in GenTxs THEN "Staked" ELSE file.status[v]
        BY <4>1, <4>3
      <4> QED
        BY <4>2, <4>4
    <3> QED
      BY <3>1, <3>2
  <2>7. ASSUME NEW e \in rows
        PROVE  {t.of : t \in {t \in Stored("Transaction") : t.id = e.transactionId}} = {e.id}
    <3>1. PICK r \in ValidatorRows : e.id = r.of /\ e.transactionId = r.transactionId
      BY <2>2
    <3>2. r \in Synthesized /\ r.kind = "validator"
      BY ValidatorRow DEF Synthesized, GenTxRow, StakingRow
    <3>3. \E t \in Stored("Transaction") : t.id = r.transactionId /\ t.of = r.of
      BY <3>2, RowsLead
    <3>4. \A t \in Stored("Transaction") : t.id = r.transactionId => t.of = r.of
      BY <2>0, <3>2, TransactionsComeFrom, TransactionsApart
    <3> QED
      BY <3>1, <3>3, <3>4
  <2>8. ASSUME NEW e \in rows
        PROVE  {m.of : m \in {m \in Stored("MsgCreateValidator") : m.id = e.createMsgId}} = {e.id}
    <3>1. PICK r \in ValidatorRows : e.id = r.of /\ e.createMsgId = r.id
      BY <2>2
    <3>2. Stored("MsgCreateValidator") = ValidatorRows
      BY TablesAtTheEnd
    <3>3. \A m \in ValidatorRows : m.id = r.id => m.of = r.of
      BY <2>0, ValidatorsApart
    <3> QED
      BY <3>1, <3>2, <3>3
  <2> QED
    BY <2>3, <2>6, <2>7, <2>8
<1> QED
  BY <1>1, QuietInvariance, EntitiesInvariance, PTL

-----------------------------------------------------------------------------
(* Bulk inserts: the inductive invariant *)

\* The table has exactly the documents D for block h, one row each.
Exactly(D, h) ==
    /\ \A r \in table : r.blockId = h => r.id \in D
    /\ \A d \in D : \E r \in table : r.blockId = h /\ r.id = d
    /\ \A r, s \in table : r.blockId = h /\ s.blockId = h /\ r.id = s.id => r = s

HasBlock == ~Idle => height < Len(chain)

\* Rows are of indexed blocks or of the one attempted, and then of its documents.
RowsInv == \A r \in table : /\ r.blockId <= B
                            /\ r.blockId = B => B <= Len(chain) /\ r.id \in DocsOf(B)

PastInv == \A h \in 1..height : Exactly(DocsOf(h), h)

\* What the call that has documents has inserted, and has not.
CallInv == \A c \in Callers :
    /\ callStage[c] # "insert" => left[c] = {}
    /\ callStage[c] \in {"insert", "done"} /\ chain[B][c] # {} =>
        left[c] \subseteq chain[B][c] /\ Exactly(chain[B][c] \ left[c], B)
    /\ callStage[c] = "insert" => chain[B][c] # {}
    /\ callStage[c] = "idle" => Idle

IInv == TypeOK /\ HasBlock /\ RowsInv /\ PastInv /\ CallInv

-----------------------------------------------------------------------------

LEMMA Heights == TypeOK => /\ Len(chain) \in Nat /\ height \in Nat /\ height <= Len(chain)
                           /\ B \in Nat /\ B = height + 1
BY DEF TypeOK, B

LEMMA BlockTyped ==
    ASSUME TypeOK, NEW h \in 1..Len(chain)
    PROVE  /\ chain[h] \in Calls
           /\ \A c \in Callers : chain[h][c] \subseteq Docs /\ chain[h][c] \subseteq DocsOf(h)
<1>1. chain[h] \in Calls
  BY DEF TypeOK
<1> QED
  BY <1>1 DEF Calls, DocsOf

\* Without sharing, the documents of a block are those of one call.
LEMMA OneCall ==
    ASSUME TypeOK, ~Shared, NEW h \in 1..Len(chain), NEW c \in Callers, chain[h][c] # {}
    PROVE  /\ DocsOf(h) = chain[h][c]
           /\ \A d \in Callers : d # c => chain[h][d] = {}
<1>1. chain[h] \in Calls
  BY BlockTyped
<1>2. \A d \in Callers : chain[h][d] # {} => c = d
  BY <1>1 DEF Calls
<1> QED
  BY <1>2 DEF DocsOf

LEMMA IInvInit == TableInit => IInv
<1> SUFFICES ASSUME TableInit PROVE IInv
  OBVIOUS
<1>1. Idle
  BY DEF TableInit, Idle
<1>2. PICK c \in Callers : TRUE
  BY BulkInsertAssumption
<1>3. TypeOK
  BY DEF TableInit, TypeOK
<1>4. HasBlock /\ RowsInv /\ PastInv /\ CallInv
  BY <1>1 DEF TableInit, HasBlock, RowsInv, PastInv, CallInv
<1> QED
  BY <1>3, <1>4 DEF IInv

LEMMA TypeStep == TypeOK /\ HasBlock /\ [TableNext]_tableVars => TypeOK' /\ HasBlock'
<1> SUFFICES ASSUME TypeOK, HasBlock, [TableNext]_tableVars PROVE TypeOK' /\ HasBlock'
  OBVIOUS
<1>0. /\ Len(chain) \in Nat /\ height \in Nat /\ height <= Len(chain) /\ B \in Nat
      /\ B = height + 1
  BY Heights
<1> USE DEF TypeOK
<1>1. CASE Produce
  <2>1. PICK docs \in Calls : chain' = Append(chain, docs)
    BY <1>1 DEF Produce
  <2>2. chain' \in Seq(Calls) /\ Len(chain') = Len(chain) + 1
    BY <2>1
  <2> QED
    BY <1>0, <1>1, <2>2 DEF Produce, HasBlock, Idle
<1>2. CASE BeginBlock
  BY <1>0, <1>2 DEF BeginBlock, HasBlock
<1>3. ASSUME NEW c \in Callers, ReturnEmpty(c)
      PROVE  TypeOK' /\ HasBlock'
  BY <1>0, <1>3 DEF ReturnEmpty, HasBlock, Idle
<1>4. ASSUME NEW c \in Callers, DeleteRows(c)
      PROVE  TypeOK' /\ HasBlock'
  <2>1. ~Idle /\ height < Len(chain)
    BY <1>4 DEF DeleteRows, Idle, HasBlock
  <2>2. chain[B][c] \subseteq Docs
    BY <1>0, <2>1, BlockTyped
  <2>3. table' \subseteq Rows
    BY <1>4 DEF DeleteRows, Removed
  <2> QED
    BY <1>0, <1>4, <2>1, <2>2, <2>3 DEF DeleteRows, HasBlock
<1>5. ASSUME NEW c \in Callers, InsertBatch(c)
      PROVE  TypeOK' /\ HasBlock'
  <2>1. ~Idle /\ height < Len(chain)
    BY <1>5 DEF InsertBatch, Idle, HasBlock
  <2>2. PICK batch \in SUBSET left[c] :
          /\ table' = table \cup BatchRows(batch)
          /\ left' = [left EXCEPT ![c] = @ \ batch]
    BY <1>5 DEF InsertBatch
  <2>3. BatchRows(batch) \subseteq Rows
    BY <1>0, <2>2 DEF BatchRows, Rows
  <2>4. left' \in [Callers -> SUBSET Docs]
    BY <2>2
  <2> QED
    BY <1>0, <1>5, <2>1, <2>2, <2>3, <2>4 DEF InsertBatch, HasBlock
<1>6. CASE CommitBlock
  <2>1. PICK c \in Callers : callStage[c] = "done"
    BY <1>6, BulkInsertAssumption DEF CommitBlock
  <2>2. height < Len(chain)
    BY <2>1 DEF HasBlock, Idle
  <2> QED
    BY <1>0, <1>6, <2>2 DEF CommitBlock, HasBlock, Idle
<1>7. CASE FailAttempt
  BY <1>0, <1>7 DEF FailAttempt, HasBlock, Idle
<1>8. CASE UNCHANGED tableVars
  BY <1>8 DEF tableVars, HasBlock, Idle
<1> QED
  BY <1>1, <1>2, <1>3, <1>4, <1>5, <1>6, <1>7, <1>8 DEF TableNext, Handler

THEOREM BulkTypeCorrect == TableSpec => []TypeOK
<1>1. TableInit => TypeOK /\ HasBlock
  BY IInvInit DEF IInv
<1> QED
  BY <1>1, TypeStep, PTL DEF TableSpec

-----------------------------------------------------------------------------
(* The rows of the table *)

\* A step that keeps the table, the height and what the chain had.
LEMMA SameTable ==
    ASSUME IInv, table' = table, height' = height,
           \A h \in 1..Len(chain) : chain'[h] = chain[h],
           Len(chain') \in Nat, Len(chain') >= Len(chain)
    PROVE  RowsInv' /\ PastInv'
<1>1. TypeOK /\ height \in Nat /\ B = height + 1 /\ B' = B /\ height <= Len(chain)
      /\ Len(chain) \in Nat
  BY Heights DEF IInv, B
<1>2. \A h \in 1..Len(chain) : DocsOf(h)' = DocsOf(h)
  BY DEF DocsOf
<1>3. RowsInv'
  <2> SUFFICES ASSUME NEW r \in table
               PROVE  /\ r.blockId <= B
                      /\ r.blockId = B => B <= Len(chain') /\ r.id \in DocsOf(B)'
    BY <1>1 DEF RowsInv
  <2>1. r.blockId <= B /\ (r.blockId = B => B <= Len(chain) /\ r.id \in DocsOf(B))
    BY DEF IInv, RowsInv
  <2> QED
    BY <1>1, <1>2, <2>1
<1>4. PastInv'
  BY <1>1, <1>2 DEF IInv, PastInv, Exactly
<1> QED
  BY <1>3, <1>4

LEMMA ProduceStep == IInv /\ Produce => RowsInv' /\ PastInv' /\ CallInv'
<1> SUFFICES ASSUME IInv, Produce PROVE RowsInv' /\ PastInv' /\ CallInv'
  OBVIOUS
<1>1. TypeOK /\ height \in Nat /\ B = height + 1 /\ B' = B /\ Len(chain) \in Nat
  BY Heights DEF IInv, B, Produce
<1>2. PICK docs \in Calls : chain' = Append(chain, docs)
  BY DEF Produce
<1>3. Len(chain') = Len(chain) + 1 /\ \A h \in 1..Len(chain) : chain'[h] = chain[h]
  BY <1>1, <1>2 DEF TypeOK
<1>4. RowsInv' /\ PastInv'
  BY <1>1, <1>3, SameTable DEF Produce
<1>5. Idle => CallInv'
  BY <1>1, <1>4 DEF IInv, CallInv, Idle, Produce
<1>6. ASSUME ~Idle PROVE CallInv'
  <2>1. B \in 1..Len(chain)
    BY <1>1, <1>6 DEF IInv, HasBlock
  <2>2. chain'[B] = chain[B]
    BY <1>3, <2>1
  <2> QED
    BY <1>1, <1>4, <2>2 DEF IInv, CallInv, Exactly, Idle, Produce
<1> QED
  BY <1>4, <1>5, <1>6

LEMMA BeginBlockStep == IInv /\ BeginBlock => RowsInv' /\ PastInv' /\ CallInv'
<1> SUFFICES ASSUME IInv, BeginBlock PROVE RowsInv' /\ PastInv' /\ CallInv'
  OBVIOUS
<1>1. TypeOK /\ Len(chain) \in Nat
  BY Heights DEF IInv
<1>2. RowsInv' /\ PastInv'
  BY <1>1, SameTable DEF BeginBlock
<1>3. CallInv'
  BY <1>1 DEF IInv, CallInv, Idle, BeginBlock, TypeOK
<1> QED
  BY <1>2, <1>3

LEMMA ReturnEmptyStep ==
    ASSUME IInv, NEW c \in Callers, ReturnEmpty(c)
    PROVE  RowsInv' /\ PastInv' /\ CallInv'
<1>1. TypeOK /\ Len(chain) \in Nat /\ B' = B
  BY Heights DEF IInv, B, ReturnEmpty
<1>2. RowsInv' /\ PastInv'
  BY <1>1, SameTable DEF ReturnEmpty
<1>3. ~Idle /\ ~Idle'
  BY <1>1 DEF Idle, ReturnEmpty, TypeOK
<1>4. ASSUME NEW d \in Callers
      PROVE  /\ callStage'[d] # "insert" => left'[d] = {}
             /\ callStage'[d] \in {"insert", "done"} /\ chain[B][d] # {} =>
                 callStage[d] \in {"insert", "done"}
             /\ callStage'[d] = "insert" => chain[B][d] # {}
             /\ callStage'[d] = "idle" => callStage[d] = "idle"
  BY <1>1 DEF ReturnEmpty, TypeOK, IInv, CallInv
<1>5. CallInv'
  BY <1>1, <1>3, <1>4 DEF IInv, CallInv, Exactly, ReturnEmpty
<1> QED
  BY <1>2, <1>5

LEMMA RemoveStep ==
    ASSUME IInv, RemoveBy, ~Shared, NEW c \in Callers, DeleteRows(c)
    PROVE  RowsInv' /\ PastInv' /\ CallInv'
<1>1. /\ TypeOK /\ Len(chain) \in Nat /\ height \in Nat /\ B = height + 1 /\ B' = B
      /\ callStage[c] = "called" /\ chain[B][c] # {}
  BY Heights DEF IInv, B, DeleteRows
<1>2. ~Idle /\ B \in 1..Len(chain)
  BY <1>1 DEF IInv, HasBlock, Idle
<1>3. table' = {r \in table : r.blockId # B}
  BY DEF DeleteRows, Removed, RowsOf
<1>4. RowsInv'
  BY <1>1, <1>2, <1>3 DEF IInv, RowsInv, DeleteRows
<1>5. PastInv'
  <2> SUFFICES ASSUME NEW h \in 1..height
               PROVE  Exactly(DocsOf(h), h)'
    BY <1>1 DEF PastInv, DeleteRows
  <2>1. Exactly(DocsOf(h), h)
    BY DEF IInv, PastInv
  <2>2. DocsOf(h)' = DocsOf(h) /\ h # B
    BY <1>1 DEF DocsOf, DeleteRows
  <2> QED
    BY <1>3, <2>1, <2>2 DEF Exactly
<1>6. ~Idle'
  BY <1>1 DEF DeleteRows, Idle, TypeOK
<1>7. \A d \in Callers : d # c => chain[B][d] = {}
  BY <1>1, <1>2, OneCall
<1>8. CallInv'
  <2> SUFFICES ASSUME NEW d \in Callers
               PROVE  /\ callStage'[d] # "insert" => left'[d] = {}
                      /\ callStage'[d] \in {"insert", "done"} /\ chain[B][d] # {} =>
                          left'[d] \subseteq chain[B][d] /\ Exactly(chain[B][d] \ left[d], B)'
                      /\ callStage'[d] = "insert" => chain[B][d] # {}
                      /\ callStage'[d] # "idle"
    BY <1>1 DEF CallInv, DeleteRows
  <2>1. CASE d = c
    BY <1>1, <1>3, <2>1 DEF DeleteRows, TypeOK, Exactly
  <2>2. CASE d # c
    BY <1>1, <1>2, <1>7, <2>2 DEF DeleteRows, TypeOK, IInv, CallInv
  <2> QED
    BY <2>1, <2>2
<1> QED
  BY <1>4, <1>5, <1>8

LEMMA FreshRows ==
    ASSUME NEW batch, \A d \in batch : \A r \in table : r.id # d \/ r.blockId # B
    PROVE  /\ \A r \in BatchRows(batch) : r.blockId = B /\ r.id \in batch
           /\ \A d \in batch : \E r \in BatchRows(batch) : r.id = d
           /\ \A r, s \in BatchRows(batch) : r.id = s.id => r = s
<1>1. \A r \in BatchRows(batch) : \E d \in batch : r = [id |-> d, blockId |-> B, att |-> failures]
  BY DEF BatchRows
<1>2. \A d \in batch : [id |-> d, blockId |-> B, att |-> failures] \in BatchRows(batch)
  BY DEF BatchRows
<1>3. \A r \in BatchRows(batch) :
        r.blockId = B /\ r.id \in batch /\ r = [id |-> r.id, blockId |-> B, att |-> failures]
  BY <1>1
<1>4. \A d \in batch : \E r \in BatchRows(batch) : r.id = d
  BY <1>2
<1>5. \A r, s \in BatchRows(batch) : r.id = s.id => r = s
  BY <1>3, Zenon
<1> QED
  BY <1>3, <1>4, <1>5

\* A batch adds one row for each of its documents and no second one.
LEMMA InsertBatchStep ==
    ASSUME IInv, ~Shared, NEW c \in Callers, InsertBatch(c)
    PROVE  RowsInv' /\ PastInv' /\ CallInv'
<1>1. /\ TypeOK /\ Len(chain) \in Nat /\ height \in Nat /\ B = height + 1 /\ B' = B
      /\ callStage[c] = "insert" /\ chain[B][c] # {}
      /\ left[c] \subseteq chain[B][c] /\ Exactly(chain[B][c] \ left[c], B)
  BY Heights DEF IInv, CallInv, B, InsertBatch
<1>2. ~Idle /\ B \in 1..Len(chain)
  BY <1>1 DEF IInv, HasBlock, Idle
<1>3. PICK batch \in (SUBSET left[c]) \ {{}} :
        /\ table' = table \cup BatchRows(batch)
        /\ left' = [left EXCEPT ![c] = @ \ batch]
        /\ callStage' = [callStage EXCEPT ![c] = IF left[c] = batch THEN "done" ELSE "insert"]
  BY DEF InsertBatch
<1>4. \A d \in batch : \A r \in table : r.id # d \/ r.blockId # B
  BY <1>1, <1>3 DEF Exactly
<1>6. /\ \A r \in BatchRows(batch) : r.blockId = B /\ r.id \in batch
      /\ \A d \in batch : \E r \in BatchRows(batch) : r.id = d
      /\ \A r, s \in BatchRows(batch) : r.id = s.id => r = s
  BY <1>4, FreshRows
<1>7. DocsOf(B) = chain[B][c] /\ \A d \in Callers : d # c => chain[B][d] = {}
  BY <1>1, <1>2, OneCall
<1>8. RowsInv'
  <2>1. DocsOf(B)' = DocsOf(B) /\ chain' = chain
    BY <1>1 DEF DocsOf, InsertBatch
  <2> QED
    BY <1>1, <1>2, <1>3, <1>6, <1>7, <2>1 DEF IInv, RowsInv
<1>9. PastInv'
  <2> SUFFICES ASSUME NEW h \in 1..height
               PROVE  Exactly(DocsOf(h), h)'
    BY <1>1 DEF PastInv, InsertBatch
  <2>1. Exactly(DocsOf(h), h)
    BY DEF IInv, PastInv
  <2>2. DocsOf(h)' = DocsOf(h) /\ h # B
    BY <1>1 DEF DocsOf, InsertBatch
  <2> QED
    BY <1>3, <1>6, <2>1, <2>2 DEF Exactly
<1>10. Exactly(chain[B][c] \ left[c], B)'
  <2>1. chain'[B'][c] \ left'[c] = (chain[B][c] \ left[c]) \cup batch
    BY <1>1, <1>3 DEF InsertBatch, TypeOK
  <2>2. \A r \in table' : r.blockId = B => r.id \in (chain[B][c] \ left[c]) \cup batch
    BY <1>1, <1>3, <1>6 DEF Exactly
  <2>3. \A d \in (chain[B][c] \ left[c]) \cup batch : \E r \in table' : r.blockId = B /\ r.id = d
    BY <1>1, <1>3, <1>6 DEF Exactly
  <2>4. \A r, s \in table' : r.blockId = B /\ s.blockId = B /\ r.id = s.id => r = s
    BY <1>1, <1>3, <1>4, <1>6 DEF Exactly
  <2> QED
    BY <1>1, <2>1, <2>2, <2>3, <2>4 DEF Exactly
<1>11. CallInv'
  <2> SUFFICES ASSUME NEW d \in Callers
               PROVE  /\ callStage'[d] # "insert" => left'[d] = {}
                      /\ callStage'[d] \in {"insert", "done"} /\ chain[B][d] # {} =>
                          left'[d] \subseteq chain[B][d] /\ Exactly(chain[B][d] \ left[d], B)'
                      /\ callStage'[d] = "insert" => chain[B][d] # {}
                      /\ callStage'[d] # "idle"
    BY <1>1 DEF CallInv, InsertBatch
  <2>1. CASE d = c
    <3>1. callStage'[c] = (IF left[c] = batch THEN "done" ELSE "insert") /\ left'[c] = left[c] \ batch
      BY <1>1, <1>3 DEF TypeOK
    <3> QED
      BY <1>1, <1>10, <2>1, <3>1
  <2>2. CASE d # c
    BY <1>1, <1>2, <1>3, <1>7, <2>2 DEF TypeOK, IInv, CallInv
  <2> QED
    BY <2>1, <2>2
<1> QED
  BY <1>8, <1>9, <1>11

LEMMA CommitBlockStep ==
    ASSUME IInv, ~Shared, CommitBlock
    PROVE  RowsInv' /\ PastInv' /\ CallInv'
<1>1. /\ TypeOK /\ Len(chain) \in Nat /\ height \in Nat /\ B = height + 1 /\ B' = B + 1
      /\ table' = table /\ chain' = chain /\ left' = left
      /\ \A c \in Callers : callStage[c] = "done" /\ left[c] = {}
  BY Heights DEF IInv, CallInv, B, CommitBlock
<1>2. PICK c \in Callers : callStage[c] = "done"
  BY <1>1, BulkInsertAssumption
<1>3. B \in 1..Len(chain)
  BY <1>1, <1>2 DEF IInv, HasBlock, Idle
<1>4. RowsInv'
  BY <1>1, <1>3 DEF IInv, RowsInv, TypeOK, Rows
<1>5. Exactly(DocsOf(B), B)
  <2>1. CASE DocsOf(B) = {}
    BY <1>3, <2>1 DEF IInv, RowsInv, Exactly
  <2>2. CASE DocsOf(B) # {}
    <3>1. PICK d \in Callers : chain[B][d] # {}
      BY <2>2 DEF DocsOf
    <3>2. DocsOf(B) = chain[B][d]
      BY <1>1, <1>3, <3>1, OneCall
    <3>3. Exactly(chain[B][d] \ left[d], B)
      BY <1>1, <3>1 DEF IInv, CallInv
    <3> QED
      BY <1>1, <3>2, <3>3
  <2> QED
    BY <2>1, <2>2
<1>6. PastInv'
  <2> SUFFICES ASSUME NEW h \in 1..(height + 1)
               PROVE  Exactly(DocsOf(h), h)
    BY <1>1 DEF PastInv, CommitBlock, B, Exactly, DocsOf
  <2> QED
    BY <1>1, <1>5 DEF IInv, PastInv
<1>7. CallInv'
  BY <1>1 DEF CallInv, CommitBlock, Idle
<1> QED
  BY <1>4, <1>6, <1>7

LEMMA FailAttemptStep == IInv /\ FailAttempt => RowsInv' /\ PastInv' /\ CallInv'
<1> SUFFICES ASSUME IInv, FailAttempt PROVE RowsInv' /\ PastInv' /\ CallInv'
  OBVIOUS
<1>1. TypeOK /\ Len(chain) \in Nat
  BY Heights DEF IInv
<1>2. RowsInv' /\ PastInv'
  BY <1>1, SameTable DEF FailAttempt
<1>3. CallInv'
  BY DEF CallInv, FailAttempt, Idle
<1> QED
  BY <1>2, <1>3

LEMMA UnchangedStep == IInv /\ UNCHANGED tableVars => RowsInv' /\ PastInv' /\ CallInv'
BY DEF IInv, tableVars, RowsInv, PastInv, CallInv, Exactly, DocsOf, B, Idle

LEMMA Invariance == TableSpec /\ RemoveBy /\ ~Shared => []IInv
<1> SUFFICES ASSUME RemoveBy, ~Shared PROVE TableSpec => []IInv
  OBVIOUS
<1>1. TableInit => IInv
  BY IInvInit
<1>2. IInv /\ [TableNext]_tableVars => IInv'
  BY TypeStep, ProduceStep, BeginBlockStep, ReturnEmptyStep, RemoveStep, InsertBatchStep,
     CommitBlockStep, FailAttemptStep, UnchangedStep DEF IInv, TableNext, Handler
<1> QED
  BY <1>1, <1>2, PTL DEF TableSpec

\* However often the attempts at a block fail, a table whose rows are deleted
\* by block before they are inserted, by one call, ends up with exactly the
\* documents of the block.
THEOREM RowsCorrect == TableSpec /\ RemoveBy /\ ~Shared => []BlockRowsExact
<1>1. IInv => BlockRowsExact
  <2> SUFFICES ASSUME IInv, NEW h \in 1..height
               PROVE  /\ {r.id : r \in RowsOf(h)} = DocsOf(h)
                      /\ \A r, s \in RowsOf(h) : r.id = s.id => r = s
    BY DEF BlockRowsExact
  <2>1. Exactly(DocsOf(h), h)
    BY DEF IInv, PastInv
  <2> QED
    BY <2>1 DEF Exactly, RowsOf
<1> QED
  BY <1>1, Invariance, PTL

-----------------------------------------------------------------------------
(***************************************************************************)
(* The handlers implement ChainMirror: what BlockRowsExact says of a state *)
(* becomes what a reader sees of the steps.                                *)
(***************************************************************************)

DocsAt(h) == [d \in Docs |-> IF d \in DocsOf(h) THEN 1 ELSE 0]

ChainView == [h \in 1..Len(chain) |-> DocsAt(h)]
IndexView == [h \in 1..height |-> [d \in Docs |-> Count(d, h)]]

\* A document of a block has one row, any other document none.
LEMMA CountIsRight ==
    ASSUME BlockRowsExact, TypeOK, NEW h \in 1..height, NEW d \in Docs
    PROVE  Count(d, h) = IF d \in DocsOf(h) THEN 1 ELSE 0
<1>1. CASE d \in DocsOf(h)
  <2>1. PICK r \in RowsOf(h) : r.id = d
    BY <1>1 DEF BlockRowsExact
  <2>2. {s \in RowsOf(h) : s.id = d} = {r}
    BY <2>1 DEF BlockRowsExact
  <2> QED
    BY <1>1, <2>2, FS_Singleton DEF Count
<1>2. CASE d \notin DocsOf(h)
  <2>1. {s \in RowsOf(h) : s.id = d} = {}
    BY <1>2 DEF BlockRowsExact
  <2> QED
    BY <1>2, <2>1, FS_EmptySet DEF Count
<1> QED
  BY <1>1, <1>2

IndexRight == IndexView = [h \in 1..height |-> DocsAt(h)]

LEMMA IndexIsRight == BlockRowsExact /\ TypeOK => IndexRight
BY CountIsRight DEF IndexView, IndexRight, DocsAt

LEMMA ViewsTyped ==
    ASSUME IndexRight, TypeOK
    PROVE  /\ Len(chain) \in Nat /\ height \in Nat /\ height <= Len(chain)
           /\ ChainView \in Seq([Docs -> {0, 1}]) /\ Len(ChainView) = Len(chain)
           /\ IndexView \in Seq([Docs -> {0, 1}]) /\ Len(IndexView) = height
           /\ \A h \in 1..Len(chain) : ChainView[h] = DocsAt(h)
           /\ \A h \in 1..height : IndexView[h] = DocsAt(h)
<1>1. Len(chain) \in Nat /\ height \in Nat /\ height <= Len(chain)
  BY Heights
<1>2. \A h : DocsAt(h) \in [Docs -> {0, 1}]
  BY DEF DocsAt
<1>3. /\ ChainView \in [1..Len(chain) -> [Docs -> {0, 1}]]
      /\ IndexView \in [1..height -> [Docs -> {0, 1}]]
  BY <1>2 DEF ChainView, IndexRight
<1>4. \A n \in Nat : \A f \in [1..n -> [Docs -> {0, 1}]] :
        f \in Seq([Docs -> {0, 1}]) /\ Len(f) = n
  OBVIOUS
<1> QED
  BY <1>1, <1>3, <1>4 DEF ChainView, IndexRight

\* A sequence that goes on for one more element is the old one, appended to.
LEMMA OneMore ==
    ASSUME NEW S, NEW s \in Seq(S), NEW t \in Seq(S), Len(t) = Len(s) + 1,
           \A h \in 1..Len(s) : t[h] = s[h]
    PROVE  t = Append(s, t[Len(s) + 1])
<1>1. PICK n \in Nat : n = Len(s)
  OBVIOUS
<1>2. t[n + 1] \in S
  BY <1>1
<1>3. /\ Append(s, t[n + 1]) \in Seq(S)
      /\ Len(Append(s, t[n + 1])) = n + 1
      /\ \A h \in 1..n : Append(s, t[n + 1])[h] = s[h]
      /\ Append(s, t[n + 1])[n + 1] = t[n + 1]
  BY <1>1, <1>2, AppendProperties
<1>4. \A h \in 1..(n + 1) : Append(s, t[n + 1])[h] = t[h]
  BY <1>1, <1>3
<1> QED
  BY <1>1, <1>3, <1>4, SeqEqual

LEMMA MirrorInit == TableInit => Reader!Init
<1> SUFFICES ASSUME TableInit PROVE ChainView = <<>> /\ IndexView = <<>>
  BY DEF Reader!Init, ChainView, IndexView, DocsAt
<1>1. Len(chain) = 0 /\ height = 0
  BY DEF TableInit
<1>2. ChainView \in [1..0 -> {1}] /\ IndexView \in [1..0 -> {1}]
  BY <1>1 DEF ChainView, IndexView
<1>3. \A f \in [1..0 -> {1}] : f \in Seq({1}) /\ Len(f) = 0
  OBVIOUS
<1> QED
  BY <1>2, <1>3, EmptySeq

LEMMA MirrorProduce ==
    ASSUME IndexRight, TypeOK, IndexRight', TypeOK', Produce
    PROVE  /\ \E s \in [Docs -> {0, 1}] : ChainView' = Append(ChainView, s)
           /\ IndexView' = IndexView
<1>1. PICK docs \in Calls : chain' = Append(chain, docs)
  BY DEF Produce
<1>2. PICK n \in Nat : n = Len(chain)
  BY DEF TypeOK
<1>3. Len(chain') = n + 1 /\ \A h \in 1..n : chain'[h] = chain[h]
  BY <1>1, <1>2 DEF TypeOK
<1>4. /\ ChainView \in Seq([Docs -> {0, 1}]) /\ Len(ChainView) = n
      /\ ChainView' \in Seq([Docs -> {0, 1}]) /\ Len(ChainView') = n + 1
  <2>1. \A m \in Nat : \A f \in [1..m -> [Docs -> {0, 1}]] :
          f \in Seq([Docs -> {0, 1}]) /\ Len(f) = m
    OBVIOUS
  <2>2. ChainView' \in [1..(n + 1) -> [Docs -> {0, 1}]]
    BY <1>3 DEF ChainView, DocsAt
  <2>3. ChainView' \in Seq([Docs -> {0, 1}]) /\ Len(ChainView') = n + 1
    <3>1. n + 1 \in Nat
      OBVIOUS
    <3> QED
      BY <2>1, <2>2, <3>1
  <2>4. ChainView \in Seq([Docs -> {0, 1}]) /\ Len(ChainView) = n
    BY <1>2, ViewsTyped
  <2> QED
    BY <2>3, <2>4
<1>5. \A h \in 1..n : ChainView'[h] = ChainView[h]
  BY <1>2, <1>3 DEF ChainView, DocsAt, DocsOf
<1>6. ChainView' = Append(ChainView, ChainView'[n + 1])
  BY <1>4, <1>5, OneMore
<1>7. ChainView'[n + 1] \in [Docs -> {0, 1}]
  BY <1>4
<1>8. IndexView' = IndexView
  BY DEF Produce, IndexView, Count, RowsOf
<1> QED
  BY <1>6, <1>7, <1>8

\* The commit of the block transaction is the one step a reader notices,
\* although it writes no row of the table.
LEMMA MirrorCommit ==
    ASSUME IndexRight, TypeOK, HasBlock, IndexRight', TypeOK', CommitBlock
    PROVE  /\ Len(IndexView) < Len(ChainView)
           /\ IndexView' = Append(IndexView, ChainView[Len(IndexView) + 1])
           /\ ChainView' = ChainView
<1>1. PICK n \in Nat : n = height
  BY DEF TypeOK
<1>2. height' = n + 1 /\ chain' = chain
  BY <1>1 DEF CommitBlock, B
<1>3. n < Len(chain) /\ Len(chain) \in Nat
  <2>1. ~Idle
    BY BulkInsertAssumption DEF CommitBlock, Idle
  <2> QED
    BY <1>1, <2>1, Heights DEF HasBlock
<1>4. ChainView' = ChainView
  BY <1>2 DEF ChainView, DocsAt, DocsOf
<1>5. /\ IndexView \in Seq([Docs -> {0, 1}]) /\ Len(IndexView) = n
      /\ Len(ChainView) = Len(chain)
      /\ \A h \in 1..Len(chain) : ChainView[h] = DocsAt(h)
      /\ \A h \in 1..n : IndexView[h] = DocsAt(h)
  BY <1>1, ViewsTyped
<1>6. IndexView' = [h \in 1..(n + 1) |-> DocsAt(h)]
  BY <1>2 DEF IndexRight, DocsAt, DocsOf
<1>7. IndexView' \in Seq([Docs -> {0, 1}]) /\ Len(IndexView') = n + 1
  <2>1. \A m \in Nat : \A f \in [1..m -> [Docs -> {0, 1}]] :
          f \in Seq([Docs -> {0, 1}]) /\ Len(f) = m
    OBVIOUS
  <2>2. IndexView' \in [1..(n + 1) -> [Docs -> {0, 1}]]
    BY <1>6 DEF DocsAt
  <2> QED
    BY <2>1, <2>2
<1>8. \A h \in 1..n : IndexView'[h] = IndexView[h]
  BY <1>5, <1>6
<1>9. IndexView' = Append(IndexView, IndexView'[n + 1])
  BY <1>5, <1>7, <1>8, OneMore
<1>10. IndexView'[n + 1] = ChainView[n + 1]
  BY <1>3, <1>5, <1>6
<1> QED
  BY <1>3, <1>4, <1>5, <1>9, <1>10

\* The deletes and inserts of a call, and the attempts that fail, change
\* nothing for the heights already indexed.
LEMMA MirrorStutter ==
    ASSUME IndexRight, IndexRight', UNCHANGED <<chain, height>>
    PROVE  ChainView' = ChainView /\ IndexView' = IndexView
BY DEF IndexRight, ChainView, DocsAt, DocsOf

LEMMA MirrorStep ==
    ASSUME IndexRight, TypeOK, HasBlock, IndexRight', TypeOK', [TableNext]_tableVars
    PROVE  [Reader!Next]_(Reader!vars)
<1>1. CASE Produce
  <2>1. Reader!Produce
    BY <1>1, MirrorProduce DEF Reader!Produce, ChainView, IndexView, DocsAt
  <2> QED
    BY <2>1 DEF Reader!Next
<1>2. CASE CommitBlock
  <2>1. Reader!Index
    BY <1>2, MirrorCommit DEF Reader!Index, ChainView, IndexView, DocsAt
  <2> QED
    BY <2>1 DEF Reader!Next
<1>3. CASE UNCHANGED <<chain, height>>
  BY <1>3, MirrorStutter DEF Reader!vars, ChainView, IndexView, DocsAt
<1>4. UNCHANGED <<chain, height>> \/ Produce \/ CommitBlock
  BY DEF TableNext, Handler, tableVars, BeginBlock, ReturnEmpty, DeleteRows, InsertBatch, FailAttempt
<1> QED
  BY <1>1, <1>2, <1>3, <1>4

\* Readers see the documents of the blocks, each once, one block at a time,
\* although no statement of a call is in the block transaction.
THEOREM BulkRowsMirrorChain == TableSpec /\ RemoveBy /\ ~Shared => RowsMirrorChain
<1>1. TableInit => Reader!Init
  BY MirrorInit
<1>2. IndexRight /\ TypeOK /\ HasBlock /\ IndexRight' /\ TypeOK' /\ [TableNext]_tableVars
        => [Reader!Next]_(Reader!vars)
  BY MirrorStep
<1>3. BlockRowsExact /\ TypeOK => IndexRight
  BY IndexIsRight
<1>4. IInv => TypeOK /\ HasBlock
  BY DEF IInv
<1> QED
  BY <1>1, <1>2, <1>3, <1>4, Invariance, RowsCorrect, PTL DEF TableSpec, RowsMirrorChain, Reader!Spec
=============================================================================
