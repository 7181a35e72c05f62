--------------------------- MODULE PipelineProofs ---------------------------
(***************************************************************************)
(* Proofs about BlockPipeline: what handleSupply, the handlers of Morse    *)
(* accounts and of suppliers, and the reports leave in the index, for any  *)
(* denominations, accounts, suppliers and services, and any blocks the     *)
(* chain may finalize; and about Validators, the handler that ends each    *)
(* block, for any validators and any sequence of failed, partial and       *)
(* complete reads.                                                         *)
(***************************************************************************)
EXTENDS BlockPipeline, Validators, SequenceTheorems, Sums

-----------------------------------------------------------------------------
(* The chain and the stages *)

SupplierState == [status : {"Unstaked", "Unstaking", "Staked"}, stake : Nat,
                  offer : Offers \cup {<<>>}]
OperationSets == UNION {[P -> Operations] : P \in SUBSET Suppliers}

Blocks == [base : Bases, import : BOOLEAN, ops : OperationSets,
           suppliers : [Suppliers -> SupplierState],
           settled : SUBSET (Suppliers \X Services),
           recovered : SUBSET Morse, claims : SUBSET Morse, delegated : SUBSET Morse,
           left : Nat]

Handlers == {"migration", "applications", "suppliers"}

StageInv ==
    /\ chain \in Seq(Blocks)
    /\ height \in Nat
    /\ stage \in {"primitives", "params", "handlers", "commit"}
    /\ Len(chain) \in {height, height + 1}
    /\ stage # "primitives" => Len(chain) = height + 1
    /\ running \subseteq Handlers
    /\ stage # "handlers" => running = {}

-----------------------------------------------------------------------------
(* The supply *)

\* The hypothesis of the theorem: handleSupply reads the denominations it knows in
\* one page (of 1000 rows, unless configured otherwise).
OnePage == IsFiniteSet(Denoms) /\ Cardinality(Denoms) <= PageLimit

ChainAmount(d, h) == Amounts(BaseAt(h), PaidBy(h))[d]

\* Blocks whose supply is written.
SupplyDone == IF stage = "primitives" THEN height ELSE height + 1

\* The BlockSupply rows of a block point at Supply rows, of this block or an earlier
\* one: the next block gives none of these ids to a new row.
RowsInv ==
    /\ supplyDenoms \subseteq Denoms
    /\ DOMAIN supplies \subseteq Denoms \X (1..SupplyDone)
    /\ DOMAIN blockSupplies \subseteq Denoms \X (1..SupplyDone)
    /\ \A id \in DOMAIN blockSupplies : blockSupplies[id] \in DOMAIN supplies

\* Every denomination known has a row in the last block: the next starts from it.
KnownInv == \A d \in supplyDenoms : <<d, SupplyDone>> \in DOMAIN blockSupplies

AmountsInv ==
    \A h \in 1..SupplyDone, d \in Denoms :
        ChainAmount(d, h) > 0 =>
            /\ d \in supplyDenoms
            /\ <<d, h>> \in DOMAIN blockSupplies
            /\ supplies[blockSupplies[<<d, h>>]] = ChainAmount(d, h)

SupplyInv == RowsInv /\ KnownInv /\ AmountsInv

-----------------------------------------------------------------------------
(* Morse accounts *)

\* The hypothesis of the theorem: each claim or recovery has a transaction of its
\* own, claims are not sent inside a MsgExec, and the block of the import recovers
\* no account.
OneByOne == Batched = FALSE /\ Delegated = FALSE /\ ImportWithRecovery = FALSE

\* An account is paid once, after the import, which is made once.
PaymentsInv ==
    /\ \A h \in 1..Len(chain) :
          /\ chain[h].recovered \cap chain[h].claims = {}
          /\ chain[h].delegated = {}
          /\ chain[h].import => chain[h].recovered = {}
          /\ Paid(h) # {} => ImportedBy(h)
    /\ \A h, k \in 1..Len(chain) :
          h # k => Paid(h) \cap Paid(k) = {} /\ ~(chain[h].import /\ chain[k].import)

HandlerOf == [account |-> "migration", application |-> "applications", supplier |-> "suppliers"]

\* Blocks whose messages inside MsgExec are handled.
ExecDone == IF stage \in {"primitives", "params"} THEN height ELSE height + 1

ClaimHandled(a, h) ==
    \/ h <= height
    \/ h = height + 1 /\ stage \in {"handlers", "commit"} /\ HandlerOf[Kind[a]] \notin running

PaidInIndex(a, h) ==
    \/ a \in chain[h].recovered /\ h <= ExecDone
    \/ a \in chain[h].claims /\ ClaimHandled(a, h)

\* Whoever handled the payment of an account left its mark, and no one else did.
MarksInv ==
    \A a \in Morse :
        /\ morse[a] # None <=> ImportedBy(ExecDone)
        /\ \A h \in 1..Len(chain) : PaidInIndex(a, h) =>
              morse[a] # None /\ morse[a].claimed /\ morse[a].claimedAt = h
        /\ morse[a] # None /\ morse[a].claimed => \E h \in 1..Len(chain) : PaidInIndex(a, h)

ClaimRows ==
    {x \in (1..Len(chain)) \X Morse :
        x[2] \in chain[x[1]].claims /\ Kind[x[2]] = "account" /\ ClaimHandled(x[2], x[1])}
ClaimId(x) == <<x[1], {x[2]}, x[2]>>

RecoverRows ==
    {x \in (1..Len(chain)) \X Morse : x[2] \in chain[x[1]].recovered /\ x[1] <= ExecDone}
RecoverId(x) == <<x[1], {x[2]}>>

MessagesInv ==
    /\ DOMAIN msgClaims = {ClaimId(x) : x \in ClaimRows}
    /\ \A x \in ClaimRows : msgClaims[ClaimId(x)] = Amount[x[2]]
    /\ DOMAIN msgRecovers = {RecoverId(x) : x \in RecoverRows}
    /\ \A x \in RecoverRows :
          msgRecovers[RecoverId(x)] = [account |-> x[2], amount |-> Amount[x[2]]]

MorseInv == morse \in [Morse -> MorseRow \cup {None}] /\ PaymentsInv /\ MarksInv /\ MessagesInv

-----------------------------------------------------------------------------
(* The chain is typed *)

LEMMA AppliedTyped ==
    ASSUME NEW op \in Operations, NEW s \in SupplierState, Possible(op, s)
    PROVE  Applied(op, s) \in SupplierState
<1>1. CASE op \in [kind : {"stake"}, stake : StakeAmounts, offer : Offers]
  <2>1. op.kind = "stake" /\ op.stake \in StakeAmounts /\ op.offer \in Offers
    BY <1>1
  <2>2. Applied(op, s) = [status |-> "Staked", stake |-> op.stake, offer |-> op.offer]
    BY <2>1 DEF Applied
  <2>3. StakeAmounts \subseteq Nat
    <3>1. StakeAmounts \subseteq Nat \ {0}
      BY BlockPipelineAssumption, Zenon
    <3> QED
      BY <3>1
  <2>4. op.stake \in Nat /\ op.offer \in Offers \cup {<<>>}
    BY <2>1, <2>3, Zenon
  <2> DEFINE offers == Offers \cup {<<>>}
  <2>5. SupplierState = [status : {"Unstaked", "Unstaking", "Staked"}, stake : Nat, offer : offers]
    BY DEF SupplierState
  <2> HIDE DEF offers
  <2>6. op.offer \in offers
    BY <2>4 DEF offers
  <2> QED
    BY <2>2, <2>4, <2>5, <2>6
<1>2. CASE op \in [kind : {"unstake", "slash", "end"}
                          \cup IF SlashAtEnd THEN {"slashEnd"} ELSE {}]
  <2>1. op.kind \in {"unstake", "slash", "end", "slashEnd"}
    BY <1>2
  <2>2. CASE op.kind = "unstake"
    <3>1. Applied(op, s) = [s EXCEPT !.status = "Unstaking"]
      BY <2>2 DEF Applied
    <3> QED
      BY <3>1 DEF SupplierState
  <2>3. CASE op.kind = "slash"
    <3>1. Applied(op, s) = [s EXCEPT !.stake = s.stake - 1]
      BY <2>3 DEF Applied
    <3>2. s.stake \in Nat /\ s.stake > 0
      BY <2>3 DEF Possible, SupplierState
    <3>3. s.stake - 1 \in Nat
      BY <3>2
    <3> QED
      BY <3>1, <3>3 DEF SupplierState
  <2>4. CASE op.kind \in {"end", "slashEnd"}
    <3>1. Applied(op, s) = Off
      BY <2>4 DEF Applied
    <3> QED
      BY <3>1 DEF Off, SupplierState
  <2> QED
    BY <2>1, <2>2, <2>3, <2>4
<1> QED
  BY <1>1, <1>2 DEF Operations

LEMMA SuppliersTyped ==
    ASSUME StageInv, NEW h \in 0..Len(chain)
    PROVE  SuppliersAt(h) \in [Suppliers -> SupplierState]
<1>1. CASE h = 0
  <2>1. Off \in SupplierState
    BY DEF Off, SupplierState
  <2> QED
    BY <1>1, <2>1 DEF SuppliersAt
<1>2. CASE h # 0
  <2>1. chain[h] \in Blocks
    BY <1>2 DEF StageInv
  <2>2. chain[h].suppliers \in [Suppliers -> SupplierState]
    BY <2>1 DEF Blocks
  <2> QED
    BY <1>2, <2>2 DEF SuppliersAt
<1> QED
  BY <1>1, <1>2

\* What a block may pay: accounts nobody was paid for, after the import.
Payable(blk) ==
    LET free == IF ImportedBy(Len(chain)) \/ blk.import THEN Morse \ PaidBy(Len(chain)) ELSE {}
    IN  /\ blk.recovered \subseteq free /\ blk.claims \subseteq free /\ blk.delegated \subseteq free
        /\ blk.recovered \cap blk.claims = {}
        /\ ~Delegated => blk.delegated = {}
        /\ ~ImportWithRecovery /\ blk.import => blk.recovered = {}
        /\ blk.import => ~ImportedBy(Len(chain))

\* What a block does to the suppliers it finds.
Operated(blk, before) ==
    /\ blk.suppliers = After(before, blk.ops)
    /\ \A p \in DOMAIN blk.ops : Possible(blk.ops[p], before[p])
    /\ blk.settled \subseteq Settleable(before, blk.suppliers)

LEMMA Produced ==
    ASSUME StageInv, Produce
    PROVE  /\ height = Len(chain) /\ stage = "primitives"
           /\ \E blk \in Blocks : /\ chain' = Append(chain, blk) /\ Payable(blk)
                                  /\ Operated(blk, SuppliersAt(Len(chain)))
<1>1. height = Len(chain) /\ stage = "primitives"
  <2>1. Len(chain) \in Nat
    BY LenProperties DEF StageInv
  <2> QED
    BY <2>1 DEF Produce, Indexing, Tip, StageInv
<1>2. PICK base \in Bases, import \in IF ImportedBy(Tip) THEN {FALSE} ELSE BOOLEAN,
           ops \in OperationsOf(SuppliersAt(Tip), Left) :
        LET after == After(SuppliersAt(Tip), ops)
            left == Left - Cardinality(DOMAIN ops) - (IF import THEN 1 ELSE 0)
                         - (IF base = BaseAt(Tip) THEN 0 ELSE 1) IN
        \E m \in Migrating(import, left), settled \in Few(Settleable(SuppliersAt(Tip), after), left) :
            LET remaining == left - Cardinality(m.recovered \cup m.claims \cup m.delegated)
                                  - Cardinality(settled)
            IN  /\ remaining \in Nat
                /\ chain' = Append(chain,
                      [base |-> base, import |-> import, ops |-> ops, suppliers |-> after,
                       settled |-> settled, recovered |-> m.recovered, claims |-> m.claims,
                       delegated |-> m.delegated, left |-> remaining])
  BY DEF Produce
<1> DEFINE after == After(SuppliersAt(Tip), ops)
           left == Left - Cardinality(DOMAIN ops) - (IF import THEN 1 ELSE 0)
                        - (IF base = BaseAt(Tip) THEN 0 ELSE 1)
<1>3. PICK m \in Migrating(import, left), settled \in Few(Settleable(SuppliersAt(Tip), after), left) :
        LET remaining == left - Cardinality(m.recovered \cup m.claims \cup m.delegated)
                              - Cardinality(settled)
        IN  /\ remaining \in Nat
            /\ chain' = Append(chain,
                  [base |-> base, import |-> import, ops |-> ops, suppliers |-> after,
                   settled |-> settled, recovered |-> m.recovered, claims |-> m.claims,
                   delegated |-> m.delegated, left |-> remaining])
  BY <1>2
<1> HIDE DEF left
<1> DEFINE remaining == left - Cardinality(m.recovered \cup m.claims \cup m.delegated)
                             - Cardinality(settled)
           blk == [base |-> base, import |-> import, ops |-> ops, suppliers |-> after,
                   settled |-> settled, recovered |-> m.recovered, claims |-> m.claims,
                   delegated |-> m.delegated, left |-> remaining]
<1>4. remaining \in Nat /\ chain' = Append(chain, blk)
  BY <1>3
<1>5. import \in BOOLEAN /\ (import => ~ImportedBy(Tip))
  OBVIOUS
<1>6. ops \in OperationSets /\ \A p \in DOMAIN ops : Possible(ops[p], SuppliersAt(Tip)[p])
  BY DEF OperationsOf, OperationSets
<1>7. after \in [Suppliers -> SupplierState]
  <2>1. SuppliersAt(Tip) \in [Suppliers -> SupplierState]
    BY <1>1, SuppliersTyped DEF Tip, StageInv
  <2>2. PICK P \in SUBSET Suppliers : ops \in [P -> Operations]
    BY <1>6 DEF OperationSets
  <2>3. ASSUME NEW p \in DOMAIN ops PROVE Applied(ops[p], SuppliersAt(Tip)[p]) \in SupplierState
    BY <1>6, <2>1, <2>2, <2>3, AppliedTyped
  <2> QED
    BY <2>1, <2>3 DEF After
<1>8. settled \subseteq Settleable(SuppliersAt(Tip), after)
  BY DEF Few
<1>9. settled \subseteq Suppliers \X Services
  BY <1>8 DEF Settleable
<1>10. LET free == IF ImportedBy(Tip) \/ import THEN Morse \ PaidBy(Tip) ELSE {} IN
      /\ m.recovered \subseteq free /\ m.claims \subseteq free /\ m.delegated \subseteq free
      /\ m.recovered \cap m.claims = {}
      /\ ~Delegated => m.delegated = {}
      /\ ~ImportWithRecovery /\ import => m.recovered = {}
  BY DEF Migrating, Few
<1>11. m.recovered \subseteq Morse /\ m.claims \subseteq Morse /\ m.delegated \subseteq Morse
  BY <1>10
<1> HIDE DEF remaining
<1>12. Operated(blk, SuppliersAt(Tip))
  BY <1>6, <1>8 DEF Operated
<1> HIDE DEF after
<1>13. blk \in Blocks
  BY <1>4, <1>5, <1>6, <1>7, <1>9, <1>11 DEF Blocks
<1>14. Payable(blk)
  BY <1>5, <1>10 DEF Payable, Tip
<1> HIDE DEF blk
<1> QED
  BY <1>1, <1>4, <1>13, <1>14, <1>12 DEF Tip

LEMMA StageInitial == Init => StageInv
BY DEF Init, StageInv

LEMMA StageKept == StageInv /\ [Next]_vars => StageInv'
<1> SUFFICES ASSUME StageInv, [Next]_vars PROVE StageInv'
  OBVIOUS
<1>0. Len(chain) \in Nat
  BY LenProperties DEF StageInv
<1>1. CASE Produce
  <2>1. PICK blk \in Blocks : chain' = Append(chain, blk)
    BY <1>1, Produced
  <2>2. chain' \in Seq(Blocks) /\ Len(chain') = Len(chain) + 1
    BY <2>1, AppendProperties DEF StageInv
  <2> QED
    BY <1>1, <2>2, Produced DEF StageInv, Produce
<1>2. CASE IndexPrimitives
  BY <1>0, <1>2 DEF IndexPrimitives, StageInv, Indexing, Tip
<1>3. CASE IndexParams
  BY <1>3 DEF IndexParams, StageInv, Called, Handlers
<1>4. CASE IndexMigrationAccounts \/ IndexApplications \/ IndexSupplier
  BY <1>4 DEF IndexMigrationAccounts, IndexApplications, IndexSupplier, Returns, StageInv
<1>5. CASE GenerateReports
  BY <1>5 DEF GenerateReports, StageInv
<1>6. CASE Commit
  BY <1>0, <1>6 DEF Commit, StageInv, B, Tip
<1>7. CASE RegenerateReports \/ UNCHANGED vars
  BY <1>7 DEF RegenerateReports, vars, StageInv
<1> QED
  BY <1>1, <1>2, <1>3, <1>4, <1>5, <1>6, <1>7 DEF Next

\* Finalizing a block changes nothing about the blocks before.
LEMMA AppendFrame ==
    ASSUME StageInv, NEW blk \in Blocks, chain' = Append(chain, blk)
    PROVE  /\ Len(chain') = Len(chain) + 1 /\ Len(chain) \in Nat
           /\ \A h \in 1..Len(chain) : chain'[h] = chain[h] /\ Paid(h)' = Paid(h)
           /\ chain'[Len(chain) + 1] = blk
           /\ \A h \in 0..Len(chain) : /\ BaseAt(h)' = BaseAt(h)
                                       /\ PaidBy(h)' = PaidBy(h)
                                       /\ ImportedBy(h)' <=> ImportedBy(h)
<1>1. /\ Len(chain') = Len(chain) + 1 /\ Len(chain) \in Nat
      /\ \A h \in 1..Len(chain) : chain'[h] = chain[h]
      /\ chain'[Len(chain) + 1] = blk
  BY AppendProperties, LenProperties DEF StageInv
<1>2. \A h \in 1..Len(chain) : Paid(h)' = Paid(h)
  BY <1>1 DEF Paid
<1>3. ASSUME NEW h \in 0..Len(chain)
      PROVE  /\ BaseAt(h)' = BaseAt(h)
             /\ PaidBy(h)' = PaidBy(h)
             /\ ImportedBy(h)' <=> ImportedBy(h)
  <2>1. h \in Nat /\ \A b \in 1..h : b \in 1..Len(chain)
    BY <1>1
  <2>2. BaseAt(h)' = BaseAt(h)
    BY <1>1, <2>1 DEF BaseAt
  <2>3. PaidBy(h)' = PaidBy(h)
    <3>1. {Paid(b)' : b \in 1..h} = {Paid(b) : b \in 1..h}
      BY <1>2, <2>1
    <3> QED
      BY <3>1 DEF PaidBy
  <2>4. ImportedBy(h)' <=> ImportedBy(h)
    BY <1>1, <2>1 DEF ImportedBy
  <2> QED
    BY <2>2, <2>3, <2>4
<1> QED
  BY <1>1, <1>2, <1>3

LEMMA ChainFrame ==
    ASSUME chain' = chain
    PROVE  \A h : /\ BaseAt(h)' = BaseAt(h) /\ Paid(h)' = Paid(h)
                  /\ PaidBy(h)' = PaidBy(h) /\ (ImportedBy(h)' <=> ImportedBy(h))
BY DEF BaseAt, Paid, PaidBy, ImportedBy

-----------------------------------------------------------------------------
(* handleSupply *)

LEMMA AmountFrame ==
    ASSUME NEW h, BaseAt(h)' = BaseAt(h), PaidBy(h)' = PaidBy(h), NEW d
    PROVE  ChainAmount(d, h)' = ChainAmount(d, h)
BY DEF ChainAmount

LEMMA ReadAll ==
    ASSUME OnePage, NEW rows, rows \subseteq Denoms
    PROVE  FetchPaginatedRecords(rows) = {rows}
<1>1. /\ IsFiniteSet(Denoms) /\ IsFiniteSet(rows) /\ Cardinality(rows) \in Nat
      /\ Cardinality(Denoms) \in Nat
      /\ Cardinality(rows) <= Cardinality(Denoms)
  BY FS_Subset, FS_CardinalityType DEF OnePage
<1>2. CASE Cardinality(rows) < PageLimit
  BY <1>2 DEF FetchPaginatedRecords
<1>3. CASE ~(Cardinality(rows) < PageLimit)
  <2>1. FetchPaginatedRecords(rows) = {read \in SUBSET rows : Cardinality(read) >= PageLimit}
    BY <1>3 DEF FetchPaginatedRecords
  <2>2. Cardinality(rows) = PageLimit
    BY <1>1, <1>3, SupplyAssumption DEF OnePage
  <2>3. ASSUME NEW read \in SUBSET rows, Cardinality(read) >= PageLimit
        PROVE  read = rows
    <3>1. Cardinality(read) <= Cardinality(rows) /\ Cardinality(read) \in Nat
      BY <1>1, FS_Subset, FS_CardinalityType
    <3>2. Cardinality(read) = Cardinality(rows)
      BY <1>1, <2>2, <2>3, <3>1
    <3> QED
      BY <1>1, <3>2, FS_Subset
  <2>4. Cardinality(rows) >= PageLimit
    BY <2>2, SupplyAssumption
  <2> QED
    BY <2>1, <2>3, <2>4
<1> QED
  BY <1>2, <1>3

LEMMA OverProperties ==
    ASSUME NEW f, NEW g
    PROVE  /\ DOMAIN Over(g, f) = DOMAIN g \cup DOMAIN f
           /\ \A x \in DOMAIN g : Over(g, f)[x] = g[x]
           /\ \A x \in DOMAIN f \ DOMAIN g : Over(g, f)[x] = f[x]
BY DEF Over

\* What handleSupply does for block h, seen row by row.
SupplyWritten(h, amounts) ==
    /\ supplyDenoms' = supplyDenoms \cup TotalSupply(amounts)
    /\ DOMAIN supplies \subseteq DOMAIN supplies'
    /\ DOMAIN supplies' \subseteq DOMAIN supplies \cup (Denoms \X {h})
    /\ \A id \in DOMAIN supplies : supplies'[id] = supplies[id]
    /\ DOMAIN blockSupplies' = DOMAIN blockSupplies \cup (supplyDenoms' \X {h})
    /\ \A id \in DOMAIN blockSupplies : blockSupplies'[id] = blockSupplies[id]
    /\ \A d \in supplyDenoms' : blockSupplies'[<<d, h>>] \in DOMAIN supplies'
    /\ \A d \in TotalSupply(amounts) : supplies'[blockSupplies'[<<d, h>>]] = amounts[d]

LEMMA SupplyHandled ==
    ASSUME OnePage, RowsInv, KnownInv, stage = "primitives", height \in Nat, NEW h, h = height + 1,
           NEW amounts, HandleSupply(h, amounts)
    PROVE  SupplyWritten(h, amounts)
<1> DEFINE listed == TotalSupply(amounts)
           denoms == supplyDenoms \cup listed
           start == [d \in denoms |-> PreviousSupply(d, h)]
           missing == {d \in listed : start[d] \notin DOMAIN supplies}
           changed == {d \in listed \ missing : supplies[start[d]] # amounts[d]}
           new == [id \in {<<d, h>> : d \in missing \cup changed} |-> amounts[id[1]]]
           carried == [id \in denoms \X {h} |-> SupplyId(id[1], h, start[id[1]], id[1] \in changed)]
<1>1. /\ supplyDenoms' = denoms
      /\ supplies' = Over(new, supplies)
      /\ blockSupplies' = Over(carried, blockSupplies)
  <2>1. FetchPaginatedRecords(supplyDenoms) = {supplyDenoms}
    BY ReadAll DEF RowsInv
  <2> QED
    BY <2>1 DEF HandleSupply
<1>2. listed \subseteq Denoms /\ denoms \subseteq Denoms
  BY DEF TotalSupply, RowsInv
<1>3. /\ DOMAIN supplies \subseteq Denoms \X (1..height)
      /\ DOMAIN blockSupplies \subseteq Denoms \X (1..height)
      /\ \A id \in DOMAIN blockSupplies : blockSupplies[id] \in DOMAIN supplies
  BY DEF RowsInv, SupplyDone
\* No row of an earlier block has an id of this one.
<1>4. \A d : <<d, h>> \notin DOMAIN supplies /\ <<d, h>> \notin DOMAIN blockSupplies
  BY <1>3
<1>5. ASSUME NEW d \in denoms
      PROVE  \/ start[d] \in DOMAIN supplies
             \/ start[d] = <<d, h>> /\ d \notin supplyDenoms
  <2>1. start[d] = PreviousSupply(d, h)
    OBVIOUS
  <2>2. CASE d \in supplyDenoms
    <3>1. <<d, height>> \in DOMAIN blockSupplies
      BY <2>2 DEF KnownInv, SupplyDone
    <3>2. height >= 1
      BY <1>3, <3>1
    <3>3. start[d] = blockSupplies[<<d, height>>]
      BY <2>1, <3>1, <3>2 DEF PreviousSupply
    <3> QED
      BY <1>3, <3>1, <3>3
  <2>3. CASE d \notin supplyDenoms
    <3> DEFINE before == <<d, IF h = 1 THEN 1 ELSE h - 1>>
    <3>1. PreviousSupply(d, h) =
            IF before \in DOMAIN blockSupplies THEN blockSupplies[before] ELSE <<d, h>>
      BY DEF PreviousSupply
    <3>2. CASE before \in DOMAIN blockSupplies
      BY <1>3, <2>1, <3>1, <3>2
    <3>3. CASE before \notin DOMAIN blockSupplies
      BY <2>1, <2>3, <3>1, <3>3
    <3> QED
      BY <3>2, <3>3
  <2> QED
    BY <2>2, <2>3
<1>6. DOMAIN new = {<<d, h>> : d \in missing \cup changed}
      /\ \A d \in missing \cup changed : new[<<d, h>>] = amounts[d]
  OBVIOUS
<1>7. missing \subseteq listed /\ changed \subseteq listed /\ missing \cap changed = {}
  OBVIOUS
<1>8. DOMAIN carried = denoms \X {h}
      /\ \A d \in denoms : carried[<<d, h>>] = IF d \in changed THEN <<d, h>> ELSE start[d]
  BY DEF SupplyId
<1>9. \A d \in listed : \/ d \in missing /\ start[d] = <<d, h>>
                        \/ d \in changed
                        \/ /\ d \notin missing /\ d \notin changed
                           /\ start[d] \in DOMAIN supplies /\ supplies[start[d]] = amounts[d]
  BY <1>5
<1>10. \A d \in denoms \ listed : start[d] \in DOMAIN supplies
  BY <1>5
<1> HIDE DEF listed, denoms, start, missing, changed, new, carried
<1>11. /\ DOMAIN supplies' = DOMAIN new \cup DOMAIN supplies
       /\ \A id \in DOMAIN new : supplies'[id] = new[id]
       /\ \A id \in DOMAIN supplies : supplies'[id] = supplies[id]
  <2>1. \A id \in DOMAIN supplies : id \notin DOMAIN new
    BY <1>4, <1>6
  <2> QED
    BY <1>1, <2>1, OverProperties
<1>12. /\ DOMAIN blockSupplies' = DOMAIN carried \cup DOMAIN blockSupplies
       /\ \A id \in DOMAIN carried : blockSupplies'[id] = carried[id]
       /\ \A id \in DOMAIN blockSupplies : blockSupplies'[id] = blockSupplies[id]
  <2>1. \A id \in DOMAIN blockSupplies : id \notin DOMAIN carried
    BY <1>4, <1>8
  <2> QED
    BY <1>1, <2>1, OverProperties
<1>13. \A d \in denoms : <<d, h>> \in DOMAIN carried
  BY <1>8
<1>14. \A d \in missing \cup changed : <<d, h>> \in DOMAIN new
  BY <1>6
<1>15. ASSUME NEW d \in listed
       PROVE  /\ blockSupplies'[<<d, h>>] \in DOMAIN supplies'
              /\ supplies'[blockSupplies'[<<d, h>>]] = amounts[d]
  <2>0. d \in denoms
    BY DEF denoms
  <2>1. blockSupplies'[<<d, h>>] = IF d \in changed THEN <<d, h>> ELSE start[d]
    BY <1>8, <1>12, <1>13, <2>0
  <2>2. CASE d \in missing /\ start[d] = <<d, h>>
    BY <1>6, <1>11, <1>14, <2>1, <2>2
  <2>3. CASE d \in changed
    BY <1>6, <1>11, <1>14, <2>1, <2>3
  <2>4. CASE /\ d \notin missing /\ d \notin changed
             /\ start[d] \in DOMAIN supplies /\ supplies[start[d]] = amounts[d]
    BY <1>11, <2>1, <2>4
  <2> QED
    BY <1>9, <2>2, <2>3, <2>4
<1>16. ASSUME NEW d \in denoms \ listed
       PROVE  blockSupplies'[<<d, h>>] \in DOMAIN supplies'
  <2>1. blockSupplies'[<<d, h>>] = start[d]
    BY <1>7, <1>8, <1>12, <1>13
  <2> QED
    BY <1>10, <1>11, <2>1
<1>17. DOMAIN new \subseteq Denoms \X {h}
  BY <1>2, <1>6, <1>7
<1>18. supplyDenoms' = supplyDenoms \cup listed
  BY <1>1 DEF denoms
<1> QED
  BY <1>1, <1>8, <1>11, <1>12, <1>15, <1>16, <1>17, <1>18 DEF listed, SupplyWritten

LEMMA SupplyInitial == Init => SupplyInv
<1> SUFFICES ASSUME Init PROVE SupplyInv
  OBVIOUS
<1>1. /\ supplyDenoms = {} /\ supplies = <<>> /\ blockSupplies = <<>>
      /\ height = 0 /\ stage = "primitives"
  BY DEF Init, SupplyInit
<1>2. DOMAIN supplies = {} /\ DOMAIN blockSupplies = {}
  BY <1>1
<1> QED
  BY <1>1, <1>2 DEF SupplyInv, RowsInv, KnownInv, AmountsInv, SupplyDone

LEMMA SupplyKept ==
    ASSUME OnePage, StageInv, SupplyInv, [Next]_vars
    PROVE  SupplyInv'
<1>0. StageInv'
  BY StageKept
<1>1. CASE Produce
  <2>1. PICK blk \in Blocks : chain' = Append(chain, blk)
    BY <1>1, Produced
  <2>2. height = Len(chain) /\ stage = "primitives"
    BY <1>1, Produced
  <2>3. UNCHANGED <<height, stage, supplyDenoms, supplies, blockSupplies>>
    BY <1>1 DEF Produce, supplyVars
  <2>4. SupplyDone = height /\ SupplyDone' = height
    BY <2>2, <2>3 DEF SupplyDone
  <2>5. \A h \in 1..height : \A d : ChainAmount(d, h)' = ChainAmount(d, h)
    <3>1. \A h \in 1..height : h \in 0..Len(chain)
      BY <2>2
    <3>2. \A h \in 1..height : BaseAt(h)' = BaseAt(h) /\ PaidBy(h)' = PaidBy(h)
      BY <2>1, <3>1, AppendFrame
    <3> QED
      BY <3>2, AmountFrame
  <2>6. RowsInv' /\ KnownInv'
    BY <2>3, <2>4 DEF SupplyInv, RowsInv, KnownInv
  <2>7. AmountsInv'
    BY <2>3, <2>4, <2>5 DEF SupplyInv, AmountsInv
  <2> QED
    BY <2>6, <2>7 DEF SupplyInv
<1>2. CASE IndexPrimitives
  <2>0. PICK h \in Nat : h = height + 1
    BY DEF StageInv
  <2> DEFINE amounts == Amounts(Data.base, PaidBy(B))
  <2>1. /\ stage = "primitives" /\ stage' = "params" /\ UNCHANGED <<chain, height>>
        /\ height \in Nat /\ Len(chain) = h /\ B = h /\ HandleSupply(h, amounts)
    BY <1>2, <2>0, LenProperties DEF IndexPrimitives, StageInv, Indexing, Tip, B
  <2>2. SupplyDone = height /\ SupplyDone' = h
    BY <2>0, <2>1 DEF SupplyDone
  <2>3. Amounts(BaseAt(h)', PaidBy(h)') = amounts
    <3>1. BaseAt(h)' = Data.base /\ PaidBy(h)' = PaidBy(B)
      BY <2>0, <2>1, ChainFrame DEF BaseAt, Data
    <3> QED
      BY <3>1
  <2>4. \A k \in 1..height : \A d : ChainAmount(d, k)' = ChainAmount(d, k)
    BY <2>0, <2>1, ChainFrame, AmountFrame
  <2> HIDE DEF amounts
  <2> DEFINE listed == TotalSupply(amounts)
  <2>5. /\ supplyDenoms' = supplyDenoms \cup listed
        /\ DOMAIN supplies \subseteq DOMAIN supplies'
        /\ DOMAIN supplies' \subseteq DOMAIN supplies \cup (Denoms \X {h})
        /\ \A id \in DOMAIN supplies : supplies'[id] = supplies[id]
        /\ DOMAIN blockSupplies' = DOMAIN blockSupplies \cup (supplyDenoms' \X {h})
        /\ \A id \in DOMAIN blockSupplies : blockSupplies'[id] = blockSupplies[id]
        /\ \A d \in supplyDenoms' : blockSupplies'[<<d, h>>] \in DOMAIN supplies'
        /\ \A d \in listed : supplies'[blockSupplies'[<<d, h>>]] = amounts[d]
    <3>1. RowsInv /\ KnownInv
      BY DEF SupplyInv
    <3>2. \A k : k = h /\ HandleSupply(k, amounts) =>
             SupplyWritten(k, amounts)
      BY <2>0, <2>1, <3>1, SupplyHandled
    <3> QED
      BY <2>0, <2>1, <3>2 DEF SupplyWritten
  <2>6. \A d \in Denoms : amounts[d] > 0 => d \in listed
    BY DEF TotalSupply
  <2>7. listed \subseteq Denoms
    BY DEF TotalSupply
  <2> HIDE DEF listed
  <2>8. RowsInv'
    <3>1. /\ supplyDenoms \subseteq Denoms
          /\ DOMAIN supplies \subseteq Denoms \X (1..height)
          /\ DOMAIN blockSupplies \subseteq Denoms \X (1..height)
          /\ \A id \in DOMAIN blockSupplies : blockSupplies[id] \in DOMAIN supplies
      BY <2>2 DEF SupplyInv, RowsInv
    <3>2. Denoms \X (1..height) \subseteq Denoms \X (1..h) /\ Denoms \X {h} \subseteq Denoms \X (1..h)
      BY <2>0, <2>1
    <3>3. supplyDenoms' \subseteq Denoms
      BY <2>5, <2>7, <3>1
    <3>4. supplyDenoms' \X {h} \subseteq Denoms \X {h}
      BY <3>3
    <3>5. \A id \in DOMAIN blockSupplies' : blockSupplies'[id] \in DOMAIN supplies'
      <4>1. \A id \in DOMAIN blockSupplies : blockSupplies'[id] \in DOMAIN supplies'
        BY <2>5, <3>1
      <4>2. \A id \in supplyDenoms' \X {h} : blockSupplies'[id] \in DOMAIN supplies'
        BY <2>5
      <4> QED
        BY <2>5, <4>1, <4>2
    <3>6. /\ DOMAIN supplies' \subseteq Denoms \X (1..h)
          /\ DOMAIN blockSupplies' \subseteq Denoms \X (1..h)
      BY <2>5, <3>1, <3>2, <3>4
    <3> QED
      BY <2>2, <3>3, <3>5, <3>6 DEF RowsInv
  <2>9. KnownInv'
    BY <2>2, <2>5 DEF KnownInv
  <2>10. AmountsInv'
    <3> SUFFICES ASSUME NEW k \in 1..h, NEW d \in Denoms, ChainAmount(d, k)' > 0
                 PROVE  /\ d \in supplyDenoms'
                        /\ <<d, k>> \in DOMAIN blockSupplies'
                        /\ supplies'[blockSupplies'[<<d, k>>]] = ChainAmount(d, k)'
      BY <2>2 DEF AmountsInv
    <3>1. CASE k = h
      <4>0. ChainAmount(d, k)' = amounts[d]
        BY <2>3, <3>1 DEF ChainAmount
      <4>1. d \in listed
        BY <2>6, <4>0
      <4>2. d \in supplyDenoms' /\ <<d, h>> \in DOMAIN blockSupplies'
        BY <2>5, <4>1
      <4> QED
        BY <2>5, <3>1, <4>0, <4>1, <4>2
    <3>2. CASE k # h
      <4>1. k \in 1..height
        BY <2>0, <2>1, <3>2
      <4>2. /\ d \in supplyDenoms
            /\ <<d, k>> \in DOMAIN blockSupplies
            /\ supplies[blockSupplies[<<d, k>>]] = ChainAmount(d, k)
        BY <2>2, <2>4, <4>1 DEF SupplyInv, AmountsInv
      <4>3. blockSupplies[<<d, k>>] \in DOMAIN supplies
        BY <4>2 DEF SupplyInv, RowsInv
      <4> QED
        BY <2>4, <2>5, <4>1, <4>2, <4>3
    <3> QED
      BY <3>1, <3>2
  <2> QED
    BY <2>8, <2>9, <2>10 DEF SupplyInv
<1>3. ASSUME UNCHANGED <<chain, supplyDenoms, supplies, blockSupplies>>, SupplyDone' = SupplyDone
      PROVE  SupplyInv'
  <2>1. \A h, d : ChainAmount(d, h)' = ChainAmount(d, h)
    BY <1>3, ChainFrame, AmountFrame
  <2> QED
    BY <1>3, <2>1 DEF SupplyInv, RowsInv, KnownInv, AmountsInv
<1>4. CASE IndexParams
  BY <1>3, <1>4 DEF IndexParams, supplyVars, SupplyDone
<1>5. CASE IndexMigrationAccounts \/ IndexApplications \/ IndexSupplier
  BY <1>3, <1>5 DEF IndexMigrationAccounts, IndexApplications, IndexSupplier, Returns,
     supplyVars, SupplyDone
<1>6. CASE GenerateReports
  BY <1>3, <1>6 DEF GenerateReports, supplyVars, SupplyDone
<1>7. CASE Commit
  <2>1. SupplyDone' = SupplyDone
    BY <1>7 DEF Commit, StageInv, SupplyDone, B, Tip
  <2> QED
    BY <1>3, <1>7, <2>1 DEF Commit, supplyVars
<1>8. CASE RegenerateReports \/ UNCHANGED vars
  BY <1>3, <1>8 DEF RegenerateReports, vars, supplyVars, SupplyDone
<1> QED
  BY <1>1, <1>2, <1>4, <1>5, <1>6, <1>7, <1>8 DEF Next

LEMMA SupplyImplied ==
    ASSUME StageInv, SupplyInv
    PROVE  SupplyMatchesChain
<1> SUFFICES ASSUME NEW h \in Indexed, NEW d \in Denoms, ChainAmount(d, h) > 0
             PROVE  HasSupplyAt(d, h) /\ SupplyAt(d, h) = ChainAmount(d, h)
  BY DEF SupplyMatchesChain, ChainAmount
<1>1. h \in 1..SupplyDone
  BY DEF Indexed, SupplyDone, StageInv
<1>2. /\ <<d, h>> \in DOMAIN blockSupplies
      /\ supplies[blockSupplies[<<d, h>>]] = ChainAmount(d, h)
  BY <1>1 DEF SupplyInv, AmountsInv
<1>3. blockSupplies[<<d, h>>] \in DOMAIN supplies
  BY <1>2 DEF SupplyInv, RowsInv
<1> QED
  BY <1>2, <1>3 DEF HasSupplyAt, SupplyAt

\* The BlockSupply of every indexed block leads to the supply the chain had, whatever
\* denominations appear, change, vanish and appear again: handleSupply starts each
\* from the row of the block before, and gives a new row an id that no row has.
THEOREM SupplyCorrect == Spec /\ OnePage => []SupplyMatchesChain
<1>1. StageInv /\ SupplyInv => SupplyMatchesChain
  BY SupplyImplied
<1>2. CASE OnePage
  <2>1. Init => StageInv /\ SupplyInv
    BY StageInitial, SupplyInitial
  <2>2. StageInv /\ SupplyInv /\ [Next]_vars => StageInv' /\ SupplyInv'
    BY <1>2, StageKept, SupplyKept
  <2> QED
    BY <1>1, <2>1, <2>2, PTL DEF Spec
<1>3. CASE ~OnePage
  BY <1>3, PTL
<1> QED
  BY <1>2, <1>3

-----------------------------------------------------------------------------
(* Morse accounts: who is paid *)

LEMMA PaymentsInitial == Init => PaymentsInv
BY DEF Init, PaymentsInv

LEMMA PaidByElements ==
    ASSUME NEW h, NEW a
    PROVE  a \in PaidBy(h) <=> \E b \in 1..h : a \in Paid(b)
BY DEF PaidBy

LEMMA PaymentsKept ==
    ASSUME OneByOne, StageInv, PaymentsInv, [Next]_vars
    PROVE  PaymentsInv'
<1>1. CASE Produce
  <2>1. PICK blk \in Blocks : chain' = Append(chain, blk) /\ Payable(blk)
    BY <1>1, Produced
  <2>2. PICK n \in Nat : n = Len(chain)
    BY LenProperties DEF StageInv
  <2>3. /\ Len(chain') = n + 1
        /\ \A h \in 1..n : chain'[h] = chain[h] /\ Paid(h)' = Paid(h)
        /\ chain'[n + 1] = blk
        /\ \A h \in 0..n : ImportedBy(h)' <=> ImportedBy(h)
    BY <2>1, <2>2, AppendFrame
  <2>4. Paid(n + 1)' = blk.claims \cup blk.delegated \cup blk.recovered
    BY <2>3 DEF Paid
  <2>5. /\ blk.recovered \cap blk.claims = {} /\ blk.delegated = {}
        /\ blk.import => blk.recovered = {} /\ ~ImportedBy(n)
        /\ Paid(n + 1)' \cap PaidBy(n) = {}
        /\ Paid(n + 1)' # {} => ImportedBy(n) \/ blk.import
    BY <2>1, <2>2, <2>4 DEF Payable, OneByOne
  <2>6. (ImportedBy(n) \/ blk.import) => ImportedBy(n + 1)'
    <3>1. ASSUME NEW k \in 1..n, chain[k].import PROVE ImportedBy(n + 1)'
      BY <2>3, <3>1 DEF ImportedBy
    <3>2. ASSUME blk.import PROVE ImportedBy(n + 1)'
      BY <2>3, <3>2 DEF ImportedBy
    <3> QED
      BY <3>1, <3>2 DEF ImportedBy
  <2>7. \A k \in 1..n : Paid(k) \subseteq PaidBy(n)
    BY PaidByElements
  <2>8. ASSUME NEW h \in 1..(n + 1)
        PROVE  /\ chain'[h].recovered \cap chain'[h].claims = {}
               /\ chain'[h].delegated = {}
               /\ chain'[h].import => chain'[h].recovered = {}
               /\ Paid(h)' # {} => ImportedBy(h)'
    <3>1. CASE h \in 1..n
      <4>1. h \in 0..n
        BY <3>1
      <4> QED
        BY <2>2, <2>3, <3>1, <4>1 DEF PaymentsInv
    <3>2. CASE h = n + 1
      BY <2>3, <2>5, <2>6, <3>2
    <3> QED
      BY <3>1, <3>2
  <2>9. ASSUME NEW h \in 1..n
        PROVE  Paid(h)' \cap Paid(n + 1)' = {} /\ ~(chain'[h].import /\ blk.import)
    <3>1. Paid(h)' \cap Paid(n + 1)' = {}
      BY <2>3, <2>5, <2>7
    <3>2. chain[h].import => ImportedBy(n)
      BY DEF ImportedBy
    <3> QED
      BY <2>3, <2>5, <3>1, <3>2
  <2>10. ASSUME NEW h \in 1..(n + 1), NEW k \in 1..(n + 1), h # k
         PROVE  Paid(h)' \cap Paid(k)' = {} /\ ~(chain'[h].import /\ chain'[k].import)
    <3>1. CASE h \in 1..n /\ k \in 1..n
      BY <2>2, <2>3, <2>10, <3>1 DEF PaymentsInv
    <3>2. CASE h \in 1..n /\ k = n + 1
      BY <2>3, <2>9, <3>2
    <3>3. CASE k \in 1..n /\ h = n + 1
      <4>1. Paid(k)' \cap Paid(n + 1)' = {} /\ ~(chain'[k].import /\ blk.import)
        BY <2>9, <3>3
      <4> QED
        BY <2>3, <3>3, <4>1
    <3> QED
      BY <2>10, <3>1, <3>2, <3>3
  <2> QED
    BY <2>3, <2>8, <2>10 DEF PaymentsInv
<1>2. CASE chain' = chain
  BY <1>2, ChainFrame DEF PaymentsInv
<1>3. chain' = chain \/ Produce
  BY DEF Next, IndexPrimitives, IndexParams, IndexMigrationAccounts, IndexApplications,
     IndexSupplier, Returns, GenerateReports, Commit, RegenerateReports, vars
<1> QED
  BY <1>1, <1>2, <1>3

-----------------------------------------------------------------------------
(* Morse accounts: what is marked *)

LEMMA UnclaimedIsRow == Unclaimed \in MorseRow /\ Unclaimed.claimed = FALSE
BY DEF Unclaimed, MorseRow

LEMMA ClaimedIsRow ==
    ASSUME NEW b \in Nat, NEW m \in Messages
    PROVE  /\ Claimed(b, m) \in MorseRow
           /\ Claimed(b, m).claimed = TRUE /\ Claimed(b, m).claimedAt = b
BY DEF Claimed, MorseRow

LEMMA RowIsNotNone == None \notin MorseRow
BY MigrationAssumption

\* Handling payments of block b: their accounts are marked, all others keep their row.
LEMMA MarkStep ==
    ASSUME StageInv, PaymentsInv, MarksInv, morse \in [Morse -> MorseRow \cup {None}],
           chain' = chain,
           NEW b \in 1..Len(chain), NEW message,
           DOMAIN message \subseteq Paid(b) \cap Morse,
           \A a \in DOMAIN message : message[a] \in Messages,
           DOMAIN message # {} => ImportedBy(ExecDone),
           morse' = MarkClaimed(morse, b, message),
           ImportedBy(ExecDone)' <=> ImportedBy(ExecDone),
           \A a \in Morse, h \in 1..Len(chain) :
               PaidInIndex(a, h)' <=> PaidInIndex(a, h) \/ (a \in DOMAIN message /\ h = b)
    PROVE  MarksInv' /\ morse' \in [Morse -> MorseRow \cup {None}]
<1>1. Len(chain) \in Nat /\ b \in Nat
  BY LenProperties DEF StageInv
<1>2. ASSUME NEW a \in DOMAIN message
      PROVE  /\ a \in Morse /\ morse[a] # None
             /\ morse'[a] = Claimed(b, message[a])
             /\ morse'[a] \in MorseRow /\ morse'[a].claimed /\ morse'[a].claimedAt = b
             /\ morse'[a] # None
  <2>1. a \in Morse /\ morse[a] # None
    BY DEF MarksInv
  <2>2. morse'[a] = Claimed(b, message[a])
    BY <2>1 DEF MarkClaimed
  <2>3. Claimed(b, message[a]) \in MorseRow /\ Claimed(b, message[a]) # None
    BY <1>1, ClaimedIsRow, RowIsNotNone
  <2>4. Claimed(b, message[a]).claimed /\ Claimed(b, message[a]).claimedAt = b
    BY DEF Claimed
  <2> QED
    BY <2>1, <2>2, <2>3, <2>4
<1>3. \A a \in Morse \ DOMAIN message : morse'[a] = morse[a]
  BY DEF MarkClaimed
<1>4. morse' \in [Morse -> MorseRow \cup {None}]
  <2>1. \A a \in Morse : morse'[a] \in MorseRow \cup {None}
    BY <1>2, <1>3
  <2>2. morse' = [a \in Morse |-> morse'[a]]
    BY DEF MarkClaimed
  <2> QED
    BY <2>1, <2>2
<1>5. ASSUME NEW a \in DOMAIN message, NEW h \in 1..Len(chain), PaidInIndex(a, h)' PROVE h = b
  <2>1. ASSUME h # b PROVE FALSE
    <3>1. PaidInIndex(a, h)
      BY <1>2, <1>5, <2>1
    <3>2. a \in Paid(h)
      BY <3>1 DEF PaidInIndex, Paid
    <3> QED
      BY <2>1, <3>2 DEF PaymentsInv
  <2> QED
    BY <2>1
<1>6. ASSUME NEW a \in Morse
      PROVE  /\ morse'[a] # None <=> ImportedBy(ExecDone)'
             /\ \A h \in 1..Len(chain) : PaidInIndex(a, h)' =>
                   morse'[a] # None /\ morse'[a].claimed /\ morse'[a].claimedAt = h
             /\ morse'[a] # None /\ morse'[a].claimed => \E h \in 1..Len(chain) : PaidInIndex(a, h)'
  <2>1. CASE a \in DOMAIN message
    <3>1. morse'[a] # None <=> ImportedBy(ExecDone)'
      BY <1>2, <2>1
    <3>2. \A h \in 1..Len(chain) : PaidInIndex(a, h)' =>
             morse'[a] # None /\ morse'[a].claimed /\ morse'[a].claimedAt = h
      BY <1>2, <1>5, <2>1
    <3>3. PaidInIndex(a, b)'
      BY <2>1
    <3> QED
      BY <3>1, <3>2, <3>3
  <2>2. CASE a \notin DOMAIN message
    <3>1. \A h \in 1..Len(chain) : PaidInIndex(a, h)' <=> PaidInIndex(a, h)
      BY <2>2
    <3> QED
      BY <1>3, <2>2, <3>1 DEF MarksInv
  <2> QED
    BY <2>1, <2>2
<1>7. Len(chain') = Len(chain)
  OBVIOUS
<1> QED
  BY <1>4, <1>6, <1>7 DEF MarksInv

-----------------------------------------------------------------------------
(* Morse accounts: the steps *)

\* A transaction of one message is about one account.
LEMMA OwnTransaction ==
    ASSUME OneByOne, NEW S, NEW a \in S
    PROVE  TxOf(a, S) = {a}
<1>1. Transactions(S) = {{x} : x \in S}
  BY DEF Transactions, OneByOne
<1>2. \A tx \in Transactions(S) : a \in tx <=> tx = {a}
  BY <1>1
<1>3. {a} \in Transactions(S)
  BY <1>1
<1> QED
  BY <1>2, <1>3 DEF TxOf

LEMMA LastOfOne ==
    ASSUME NEW a
    PROVE  Last(SetToSeq({a})) = a
<1>1. Cardinality({a}) = 1
  BY FS_Singleton
<1>2. SetToSeq({a}) = CHOOSE f \in [1..1 -> {a}] : IsInjective(f)
  BY <1>1 DEF SetToSeq
<1> DEFINE one == [i \in 1..1 |-> a]
<1>3. one \in [1..1 -> {a}] /\ IsInjective(one)
  BY DEF IsInjective
<1>4. SetToSeq({a}) \in [1..1 -> {a}]
  BY <1>2, <1>3
<1>5. PICK f : f = SetToSeq({a}) /\ f \in [1..1 -> {a}]
  BY <1>4
<1>6. f \in Seq({a})
  BY <1>5, SeqDef
<1>7. Len(f) = 1
  <2>1. Len(f) \in Nat /\ DOMAIN f = 1..Len(f)
    BY <1>6, LenProperties
  <2>2. 1 \in 1..Len(f) /\ Len(f) \in {0} \cup 1..1
    BY <1>5, <2>1
  <2> QED
    BY <2>2
<1> QED
  BY <1>5, <1>7 DEF Last

LEMMA MorseInitial == Init => MorseInv
<1> SUFFICES ASSUME Init PROVE MorseInv
  OBVIOUS
<1>1. /\ chain = <<>> /\ Len(chain) = 0 /\ height = 0 /\ stage = "primitives"
      /\ morse = [a \in Morse |-> None] /\ msgClaims = <<>> /\ msgRecovers = <<>>
  BY DEF Init, MigrationInit
<1>2. ClaimRows = {} /\ RecoverRows = {} /\ ExecDone = 0 /\ ~ImportedBy(ExecDone)
  BY <1>1 DEF ClaimRows, RecoverRows, ExecDone, ImportedBy
<1>3. MarksInv
  BY <1>1, <1>2 DEF MarksInv
<1>4. MessagesInv
  BY <1>1, <1>2 DEF MessagesInv
<1> QED
  BY <1>1, <1>3, <1>4, PaymentsInitial DEF MorseInv

\* Steps that handle no payment.
LEMMA MorseUntouched ==
    ASSUME StageInv, MorseInv, PaymentsInv', UNCHANGED migrationVars, ExecDone' = ExecDone,
           Len(chain') \in Nat, Len(chain) \in Nat, Len(chain) <= Len(chain'),
           \A h \in 1..Len(chain) : chain'[h] = chain[h],
           \A h \in 1..Len(chain) : \A a \in Morse : ClaimHandled(a, h)' <=> ClaimHandled(a, h),
           \A h \in 1..Len(chain') : h > Len(chain) =>
               h > ExecDone' /\ \A a \in Morse : ~ClaimHandled(a, h)',
           ImportedBy(ExecDone)' <=> ImportedBy(ExecDone)
    PROVE  MorseInv'
<1>1. \A h \in 1..Len(chain') : h \in 1..Len(chain) \/ h > Len(chain)
  OBVIOUS
<1>2. /\ \A a \in Morse, h \in 1..Len(chain) : PaidInIndex(a, h)' <=> PaidInIndex(a, h)
      /\ \A a \in Morse, h \in 1..Len(chain') : h > Len(chain) => ~PaidInIndex(a, h)'
  <2>0. ExecDone \in Nat
    BY DEF ExecDone, StageInv
  <2>1. ASSUME NEW a \in Morse, NEW h \in 1..Len(chain)
        PROVE  PaidInIndex(a, h)' <=> PaidInIndex(a, h)
    BY DEF PaidInIndex
  <2>2. ASSUME NEW a \in Morse, NEW h \in 1..Len(chain'), h > Len(chain)
        PROVE  ~PaidInIndex(a, h)'
    <3>1. h > ExecDone' /\ ~ClaimHandled(a, h)'
      BY <2>2
    <3>2. ~(h <= ExecDone')
      BY <2>0, <3>1
    <3> QED
      BY <3>1, <3>2 DEF PaidInIndex
  <2> QED
    BY <2>1, <2>2
<1>3. UNCHANGED <<morse, msgClaims, msgRecovers>>
  BY DEF migrationVars
<1>4. MarksInv'
  <2> SUFFICES ASSUME NEW a \in Morse
               PROVE  /\ morse[a] # None <=> ImportedBy(ExecDone)'
                      /\ \A h \in 1..Len(chain') : PaidInIndex(a, h)' =>
                            morse[a] # None /\ morse[a].claimed /\ morse[a].claimedAt = h
                      /\ morse[a] # None /\ morse[a].claimed =>
                            \E h \in 1..Len(chain') : PaidInIndex(a, h)'
    BY <1>3 DEF MarksInv
  <2>1. /\ morse[a] # None <=> ImportedBy(ExecDone)
        /\ \A h \in 1..Len(chain) : PaidInIndex(a, h) =>
              morse[a] # None /\ morse[a].claimed /\ morse[a].claimedAt = h
        /\ morse[a] # None /\ morse[a].claimed => \E h \in 1..Len(chain) : PaidInIndex(a, h)
    BY DEF MorseInv, MarksInv
  <2>2. \A h \in 1..Len(chain) : h \in 1..Len(chain')
    OBVIOUS
  <2> QED
    BY <1>1, <1>2, <2>1, <2>2
<1>5. ClaimRows' = ClaimRows
  <2>1. \A h, a : <<h, a>> \in ClaimRows' <=> <<h, a>> \in ClaimRows
    BY <1>1 DEF ClaimRows
  <2> QED
    BY <2>1 DEF ClaimRows
<1>6. RecoverRows' = RecoverRows
  <2>0. ExecDone \in Nat
    BY DEF ExecDone, StageInv
  <2>1. \A h, a : <<h, a>> \in RecoverRows' <=> <<h, a>> \in RecoverRows
    BY <1>1, <2>0 DEF RecoverRows
  <2> QED
    BY <2>1 DEF RecoverRows
<1>7. MessagesInv'
  BY <1>3, <1>5, <1>6 DEF MorseInv, MessagesInv
<1> QED
  BY <1>3, <1>4, <1>7 DEF MorseInv

LEMMA HandlersDiffer ==
    ASSUME NEW a \in Morse, NEW kind \in Kinds
    PROVE  /\ Kind[a] \in Kinds
           /\ HandlerOf[Kind[a]] = HandlerOf[kind] <=> Kind[a] = kind
<1>1. Kind[a] \in Kinds
  BY MigrationAssumption
<1> QED
  BY <1>1 DEF HandlerOf, Kinds

\* A handler of claims returns: the claims of its kind are handled, and no others.
LEMMA ClaimStep ==
    ASSUME OneByOne, StageInv, MorseInv, NEW kind \in Kinds,
           stage = "handlers", UNCHANGED <<chain, height, stage, msgRecovers>>,
           HandlerOf[kind] \in running, running' = running \ {HandlerOf[kind]},
           NEW message, message = ClaimMessages(B, OfKind(Data.claims, kind)),
           morse' = MarkClaimed(morse, B, message),
           kind = "account" =>
               msgClaims' = Over([m \in {message[a] : a \in DOMAIN message} |-> BalanceCoin(m)],
                                 msgClaims),
           kind # "account" => msgClaims' = msgClaims
    PROVE  MorseInv'
<1>1. PICK b \in Nat : b = Len(chain) /\ height \in Nat /\ b = height + 1 /\ b = B
  BY LenProperties DEF StageInv, B, Tip
<1>2. b \in 1..Len(chain) /\ chain[b] \in Blocks /\ Data = chain[b]
  <2>1. b \in 1..Len(chain)
    BY <1>1
  <2> QED
    BY <1>1, <2>1, ElementOfSeq DEF StageInv, Data
<1>3. chain[b].claims \subseteq Morse
  BY <1>2 DEF Blocks
<1>4. /\ DOMAIN message = {a \in chain[b].claims : Kind[a] = kind}
      /\ \A a \in DOMAIN message : message[a] = <<b, {a}, a>>
  <2>1. message = [a \in OfKind(chain[b].claims, kind) |->
                      <<b, TxOf(a, OfKind(chain[b].claims, kind)), a>>]
    BY <1>1, <1>2 DEF ClaimMessages
  <2>2. \A a \in OfKind(chain[b].claims, kind) : TxOf(a, OfKind(chain[b].claims, kind)) = {a}
    BY OwnTransaction
  <2> QED
    BY <2>1, <2>2 DEF OfKind
<1>5. DOMAIN message \subseteq Paid(b) \cap Morse
  BY <1>3, <1>4 DEF Paid
<1>6. \A a \in DOMAIN message : message[a] \in Messages
  <2> SUFFICES ASSUME NEW a \in DOMAIN message PROVE <<b, {a}, a>> \in Messages
    BY <1>4
  <2>1. a \in Morse /\ {a} \in SUBSET Morse
    BY <1>5
  <2> QED
    BY <2>1 DEF Messages
<1>7. ExecDone = b /\ ExecDone' = b
  BY <1>1 DEF ExecDone
<1>8. DOMAIN message # {} => ImportedBy(ExecDone)
  BY <1>2, <1>5, <1>7 DEF MorseInv, PaymentsInv
<1>9. ImportedBy(ExecDone)' <=> ImportedBy(ExecDone)
  BY <1>7 DEF ImportedBy
<1>10. \A a \in Morse, h \in 1..Len(chain) :
          ClaimHandled(a, h)' <=> ClaimHandled(a, h) \/ (h = b /\ Kind[a] = kind)
  <2>1. \A a \in Morse : HandlerOf[Kind[a]] \in running' <=>
                            HandlerOf[Kind[a]] \in running /\ Kind[a] # kind
    BY HandlersDiffer
  <2> QED
    BY <1>1, <2>1 DEF ClaimHandled
<1>11. \A a \in Morse, h \in 1..Len(chain) :
          PaidInIndex(a, h)' <=> PaidInIndex(a, h) \/ (a \in DOMAIN message /\ h = b)
  <2> SUFFICES ASSUME NEW a \in Morse, NEW h \in 1..Len(chain)
               PROVE  PaidInIndex(a, h)' <=> PaidInIndex(a, h) \/ (a \in DOMAIN message /\ h = b)
    OBVIOUS
  <2>1. PaidInIndex(a, h)' <=> \/ a \in chain[h].recovered /\ h <= ExecDone
                               \/ a \in chain[h].claims /\ ClaimHandled(a, h)'
    BY <1>7 DEF PaidInIndex
  <2> QED
    BY <1>4, <1>10, <2>1 DEF PaidInIndex
<1>12. MarksInv' /\ morse' \in [Morse -> MorseRow \cup {None}]
  <2>1. morse' = MarkClaimed(morse, b, message)
    BY <1>1
  <2> QED
    BY <1>2, <1>5, <1>6, <1>8, <1>9, <1>11, <2>1, MarkStep DEF MorseInv
<1>13. PaymentsInv'
  BY ChainFrame DEF MorseInv, PaymentsInv
<1>14. RecoverRows' = RecoverRows
  BY <1>7 DEF RecoverRows
<1>15. MessagesInv'
  <2>1. \A x \in (1..Len(chain)) \X Morse :
           x \in ClaimRows' <=> \/ x \in ClaimRows
                                \/ kind = "account" /\ x[1] = b /\ x[2] \in DOMAIN message
    BY <1>4, <1>10 DEF ClaimRows
  <2>2. ClaimRows \subseteq (1..Len(chain)) \X Morse /\ ClaimRows' \subseteq (1..Len(chain)) \X Morse
    BY DEF ClaimRows
  <2>3. CASE kind # "account"
    <3>1. ClaimRows' = ClaimRows
      BY <2>1, <2>2, <2>3
    <3> QED
      BY <1>14, <2>3, <3>1 DEF MorseInv, MessagesInv
  <2>4. CASE kind = "account"
    <3> DEFINE new == [m \in {message[a] : a \in DOMAIN message} |-> BalanceCoin(m)]
               fresh == {b} \X DOMAIN message
    <3>1. ClaimRows' = ClaimRows \cup fresh
      <4>1. fresh \subseteq (1..Len(chain)) \X Morse
        BY <1>2, <1>5
      <4> QED
        BY <2>1, <2>2, <2>4, <4>1
    <3>2. /\ DOMAIN new = {ClaimId(x) : x \in fresh}
          /\ \A x \in fresh : new[ClaimId(x)] = Amount[x[2]]
      <4>1. \A x \in fresh : x[1] = b /\ x[2] \in DOMAIN message /\ ClaimId(x) = message[x[2]]
        BY <1>4 DEF ClaimId
      <4>2. \A a \in DOMAIN message : <<b, a>> \in fresh /\ ClaimId(<<b, a>>) = message[a]
        BY <1>4 DEF ClaimId
      <4>3. ASSUME NEW a \in DOMAIN message PROVE BalanceCoin(message[a]) = Amount[a]
        <5>1. message[a][2] = {a}
          BY <1>4
        <5> QED
          BY <5>1, LastOfOne DEF BalanceCoin
      <4>4. DOMAIN new = {message[a] : a \in DOMAIN message}
        OBVIOUS
      <4>5. {message[a] : a \in DOMAIN message} = {ClaimId(x) : x \in fresh}
        <5> HIDE DEF fresh
        <5>1. \A a \in DOMAIN message : message[a] \in {ClaimId(x) : x \in fresh}
          BY <4>2
        <5>2. \A x \in fresh : ClaimId(x) \in {message[a] : a \in DOMAIN message}
          BY <4>1
        <5> QED
          BY <5>1, <5>2
      <4>6. \A a \in DOMAIN message : new[message[a]] = Amount[a]
        BY <4>3
      <4> QED
        BY <4>1, <4>4, <4>5, <4>6
    <3>3. msgClaims' = Over(new, msgClaims)
      BY <2>4
    <3> HIDE DEF new
    <3>0. /\ DOMAIN msgClaims' = DOMAIN new \cup DOMAIN msgClaims
          /\ \A m \in DOMAIN new : msgClaims'[m] = new[m]
          /\ \A m \in DOMAIN msgClaims \ DOMAIN new : msgClaims'[m] = msgClaims[m]
      <4>1. PICK f, g : f = new /\ g = msgClaims
        OBVIOUS
      <4>2. /\ DOMAIN Over(f, g) = DOMAIN f \cup DOMAIN g
            /\ \A m \in DOMAIN f : Over(f, g)[m] = f[m]
            /\ \A m \in DOMAIN g \ DOMAIN f : Over(f, g)[m] = g[m]
        BY OverProperties
      <4> QED
        BY <3>3, <4>1, <4>2
    <3>4. \A x \in ClaimRows : ClaimId(x) \notin DOMAIN new
      <4>1. ASSUME NEW x \in ClaimRows, NEW y \in fresh, ClaimId(x) = ClaimId(y) PROVE FALSE
        <5>1. x[1] = b /\ x[2] \in DOMAIN message
          BY <4>1 DEF ClaimId
        <5>2. ClaimHandled(x[2], b) /\ Kind[x[2]] = kind
          BY <1>4, <5>1 DEF ClaimRows
        <5>3. HandlerOf[Kind[x[2]]] \notin running
          BY <1>1, <5>2 DEF ClaimHandled
        <5> QED
          BY <5>2, <5>3
      <4> QED
        BY <3>2, <4>1
    <3>5. /\ DOMAIN msgClaims = {ClaimId(x) : x \in ClaimRows}
          /\ \A x \in ClaimRows : msgClaims[ClaimId(x)] = Amount[x[2]]
      BY DEF MorseInv, MessagesInv
    <3>6. DOMAIN msgClaims' = {ClaimId(x) : x \in ClaimRows'}
      <4>1. DOMAIN msgClaims' = {ClaimId(x) : x \in fresh} \cup {ClaimId(x) : x \in ClaimRows}
        BY <3>0, <3>2, <3>5
      <4> HIDE DEF fresh
      <4> QED
        BY <3>1, <4>1
    <3>7. \A x \in ClaimRows' : msgClaims'[ClaimId(x)] = Amount[x[2]]
      <4>1. ASSUME NEW x \in fresh PROVE msgClaims'[ClaimId(x)] = Amount[x[2]]
        <5>1. ClaimId(x) \in DOMAIN new
          BY <3>2
        <5> QED
          BY <3>0, <3>2, <5>1
      <4>2. ASSUME NEW x \in ClaimRows PROVE msgClaims'[ClaimId(x)] = Amount[x[2]]
        <5>1. ClaimId(x) \in DOMAIN msgClaims \ DOMAIN new
          BY <3>4, <3>5
        <5> QED
          BY <3>0, <3>5, <5>1
      <4> QED
        BY <3>1, <4>1, <4>2
    <3> QED
      BY <1>14, <3>6, <3>7 DEF MorseInv, MessagesInv
  <2> QED
    BY <2>3, <2>4
<1> QED
  BY <1>12, <1>13, <1>15 DEF MorseInv

LEMMA CalledForClaims ==
    ASSUME StageInv, NEW a \in Morse, a \in Data.claims
    PROVE  HandlerOf[Kind[a]] \in Called
<1>1. Kind[a] \in Kinds
  BY MigrationAssumption
<1>2. OfKind(Data.claims, Kind[a]) # {}
  BY DEF OfKind
<1>3. CASE Kind[a] = "account"
  BY <1>2, <1>3 DEF Called, HandlerOf
<1>4. CASE Kind[a] = "application"
  BY <1>2, <1>4 DEF Called, HandlerOf
<1>5. CASE Kind[a] = "supplier"
  BY <1>2, <1>5 DEF Called, HandlerOf
<1> QED
  BY <1>1, <1>3, <1>4, <1>5 DEF Kinds

\* The messages inside MsgExec are handled: the import, or recoveries.
LEMMA ExecStep ==
    ASSUME OneByOne, StageInv, MorseInv, IndexParams
    PROVE  MorseInv'
<1>1. PICK b \in Nat : b = Len(chain) /\ height \in Nat /\ b = height + 1 /\ b = B
  BY LenProperties DEF StageInv, B, Tip, IndexParams
<1>2. b \in 1..Len(chain) /\ chain[b] \in Blocks /\ Data = chain[b]
  <2>1. b \in 1..Len(chain)
    BY <1>1
  <2> QED
    BY <1>1, <2>1, ElementOfSeq DEF StageInv, Data
<1>3. /\ chain[b].claims \subseteq Morse /\ chain[b].recovered \subseteq Morse
      /\ chain[b].import \in BOOLEAN
  BY <1>2 DEF Blocks
<1>4. PICK recovered : recovered = chain[b].recovered
  OBVIOUS
<1>5. PICK message : message = RecoverMessages(b, recovered)
  OBVIOUS
<1>6. /\ DOMAIN message = recovered
      /\ \A a \in recovered : message[a] = <<b, {a}>>
  <2>1. message = [a \in recovered |-> ExecId(b, TxOf(a, recovered))]
    BY <1>5 DEF RecoverMessages
  <2>2. \A a \in recovered : TxOf(a, recovered) = {a}
    BY OwnTransaction
  <2> QED
    BY <2>1, <2>2 DEF ExecId
<1>7. /\ stage = "params" /\ stage' = "handlers" /\ running' = Called
      /\ UNCHANGED <<chain, height>>
      /\ HandleAuthzExec(b, chain[b].import, recovered)
  BY <1>1, <1>2, <1>4 DEF IndexParams
<1>8. DOMAIN message \subseteq Paid(b) \cap Morse
  BY <1>3, <1>4, <1>6 DEF Paid
<1>9. \A a \in DOMAIN message : message[a] \in Messages
  <2> SUFFICES ASSUME NEW a \in DOMAIN message PROVE <<b, {a}>> \in Messages
    BY <1>6
  <2>1. a \in Morse /\ {a} \in SUBSET Morse
    BY <1>8
  <2> QED
    BY <2>1 DEF Messages
<1>10. ExecDone = height /\ ExecDone' = b
  BY <1>1, <1>7 DEF ExecDone
<1>11. ImportedBy(ExecDone)' <=> ImportedBy(height) \/ chain[b].import
  <2>1. ImportedBy(ExecDone)' <=> \E k \in 1..b : chain[k].import
    BY <1>7, <1>10 DEF ImportedBy
  <2>2. 1..b = (1..height) \cup {b}
    BY <1>1
  <2> QED
    BY <2>1, <2>2 DEF ImportedBy
\* No handler of claims has run yet: those with claims are the ones to run.
<1>12. \A a \in Morse, h \in 1..Len(chain) : a \in chain[h].claims =>
          (ClaimHandled(a, h)' <=> ClaimHandled(a, h))
  <2> SUFFICES ASSUME NEW a \in Morse, NEW h \in 1..Len(chain), a \in chain[h].claims
               PROVE  ClaimHandled(a, h)' <=> ClaimHandled(a, h)
    OBVIOUS
  <2>1. h = b => HandlerOf[Kind[a]] \in running'
    BY <1>2, <1>7, CalledForClaims
  <2> QED
    BY <1>1, <1>7, <2>1 DEF ClaimHandled
<1>13. \A a \in Morse, h \in 1..Len(chain) :
          PaidInIndex(a, h)' <=> PaidInIndex(a, h) \/ (a \in DOMAIN message /\ h = b)
  <2> SUFFICES ASSUME NEW a \in Morse, NEW h \in 1..Len(chain)
               PROVE  PaidInIndex(a, h)' <=> PaidInIndex(a, h) \/ (a \in DOMAIN message /\ h = b)
    OBVIOUS
  <2>1. PaidInIndex(a, h)' <=> \/ a \in chain[h].recovered /\ h <= b
                               \/ a \in chain[h].claims /\ ClaimHandled(a, h)'
    BY <1>7, <1>10 DEF PaidInIndex
  <2>2. h <= b /\ (h <= height \/ h = b) /\ (h = b => ~(h <= height))
    BY <1>1
  <2> QED
    BY <1>4, <1>6, <1>10, <1>12, <2>1, <2>2 DEF PaidInIndex
<1>14. MarksInv' /\ morse' \in [Morse -> MorseRow \cup {None}]
  <2>1. CASE chain[b].import
    <3>1. recovered = {}
      BY <1>2, <1>4, <2>1 DEF MorseInv, PaymentsInv
    <3>2. morse' = [a \in Morse |-> Unclaimed]
      <4>1. DOMAIN message = {}
        BY <1>6, <3>1
      <4>2. \/ morse' = MarkClaimed(Imported(morse), b, message)
            \/ morse' = Imported(MarkClaimed(morse, b, message))
        BY <1>5, <1>7, <2>1 DEF HandleAuthzExec
      <4> QED
        BY <4>1, <4>2 DEF MarkClaimed, Imported
    <3>3. ASSUME NEW a \in Morse, NEW h \in 1..Len(chain), PaidInIndex(a, h)' PROVE FALSE
      <4>1. PaidInIndex(a, h)
        BY <1>6, <1>13, <3>1, <3>3
      <4>2. h <= height
        BY <1>1, <1>7, <1>10, <4>1 DEF PaidInIndex, ClaimHandled
      <4>3. a \in Paid(h)
        BY <4>1 DEF PaidInIndex, Paid
      <4>4. PICK k \in 1..h : chain[k].import
        BY <4>3 DEF MorseInv, PaymentsInv, ImportedBy
      <4>5. k \in 1..Len(chain) /\ k # b
        BY <1>1, <4>2
      <4> QED
        BY <1>2, <2>1, <4>4, <4>5 DEF MorseInv, PaymentsInv
    <3>4. \A a \in Morse : morse'[a] = Unclaimed /\ morse'[a] # None /\ morse'[a].claimed = FALSE
      BY <3>2, UnclaimedIsRow, RowIsNotNone
    <3>5. MarksInv'
      <4>1. chain' = chain
        BY <1>7
      <4>2. ImportedBy(ExecDone)'
        BY <1>11, <2>1
      <4> QED
        BY <3>3, <3>4, <4>1, <4>2 DEF MarksInv
    <3> QED
      BY <3>2, <3>5, UnclaimedIsRow
  <2>2. CASE ~chain[b].import
    <3>1. morse' = MarkClaimed(morse, b, message)
      BY <1>5, <1>7, <2>2 DEF HandleAuthzExec
    <3>2. ImportedBy(ExecDone)' <=> ImportedBy(ExecDone)
      BY <1>10, <1>11, <2>2
    <3>3. DOMAIN message # {} => ImportedBy(ExecDone)
      <4>1. Paid(b) # {} => ImportedBy(b)
        BY <1>2 DEF MorseInv, PaymentsInv
      <4>2. ImportedBy(b) => ImportedBy(height)
        <5>1. 1..b = (1..height) \cup {b}
          BY <1>1
        <5> QED
          BY <2>2, <5>1 DEF ImportedBy
      <4> QED
        BY <1>8, <1>10, <4>1, <4>2
    <3>4. chain' = chain
      BY <1>7
    <3> QED
      BY <1>2, <1>8, <1>9, <1>13, <3>1, <3>2, <3>3, <3>4, MarkStep DEF MorseInv
  <2> QED
    BY <1>3, <2>1, <2>2
<1>15. PaymentsInv'
  BY <1>7, ChainFrame DEF MorseInv, PaymentsInv
<1>16. ClaimRows' = ClaimRows
  <2>1. \A h, a : <<h, a>> \in ClaimRows' <=> <<h, a>> \in ClaimRows
    BY <1>7, <1>12 DEF ClaimRows
  <2> QED
    BY <2>1 DEF ClaimRows
<1> DEFINE fresh == {b} \X recovered
           new == [m \in {ExecId(b, tx) : tx \in Transactions(recovered)} |->
                      LET a == Last(SetToSeq(m[2])) IN [account |-> a, amount |-> Amount[a]]]
<1>17. RecoverRows' = RecoverRows \cup fresh
  <2>1. \A h \in 1..Len(chain) : h <= ExecDone' <=> h <= ExecDone \/ h = b
    BY <1>1, <1>10
  <2>2. \A h, a : <<h, a>> \in RecoverRows' <=> <<h, a>> \in RecoverRows \/ <<h, a>> \in fresh
    BY <1>2, <1>3, <1>4, <1>7, <2>1 DEF RecoverRows
  <2> QED
    BY <2>2 DEF RecoverRows
<1>18. msgRecovers' = Over(new, msgRecovers) /\ msgClaims' = msgClaims
  BY <1>7 DEF HandleAuthzExec
<1>19. /\ DOMAIN new = {RecoverId(x) : x \in fresh}
       /\ \A x \in fresh : new[RecoverId(x)] = [account |-> x[2], amount |-> Amount[x[2]]]
  <2>1. Transactions(recovered) = {{a} : a \in recovered}
    BY DEF Transactions, OneByOne
  <2>2. \A x \in fresh : /\ x[2] \in recovered /\ {x[2]} \in Transactions(recovered)
                         /\ RecoverId(x) = ExecId(b, {x[2]}) /\ RecoverId(x)[2] = {x[2]}
    BY <2>1 DEF RecoverId, ExecId
  <2>3. \A tx \in Transactions(recovered) : \E x \in fresh : ExecId(b, tx) = RecoverId(x)
    <3> SUFFICES ASSUME NEW a \in recovered PROVE \E x \in fresh : ExecId(b, {a}) = RecoverId(x)
      BY <2>1
    <3>1. <<b, a>> \in fresh /\ ExecId(b, {a}) = RecoverId(<<b, a>>)
      BY DEF RecoverId, ExecId
    <3> QED
      BY <3>1
  <2>4. DOMAIN new = {ExecId(b, tx) : tx \in Transactions(recovered)}
    OBVIOUS
  <2>5. {ExecId(b, tx) : tx \in Transactions(recovered)} = {RecoverId(x) : x \in fresh}
    <3> HIDE DEF fresh
    <3>1. \A tx \in Transactions(recovered) : ExecId(b, tx) \in {RecoverId(x) : x \in fresh}
      BY <2>3
    <3>2. \A x \in fresh : RecoverId(x) \in {ExecId(b, tx) : tx \in Transactions(recovered)}
      BY <2>2
    <3> QED
      BY <3>1, <3>2
  <2>6. ASSUME NEW x \in fresh
        PROVE  new[RecoverId(x)] = [account |-> x[2], amount |-> Amount[x[2]]]
    <3>1. RecoverId(x) \in {ExecId(b, tx) : tx \in Transactions(recovered)}
      BY <2>5
    <3>2. Last(SetToSeq(RecoverId(x)[2])) = x[2]
      BY <2>2, LastOfOne
    <3> QED
      BY <3>1, <3>2
  <2> QED
    BY <2>4, <2>5, <2>6
<1> HIDE DEF new
<1>20. /\ DOMAIN msgRecovers' = DOMAIN new \cup DOMAIN msgRecovers
       /\ \A m \in DOMAIN new : msgRecovers'[m] = new[m]
       /\ \A m \in DOMAIN msgRecovers \ DOMAIN new : msgRecovers'[m] = msgRecovers[m]
  <2>1. /\ DOMAIN Over(new, msgRecovers) = DOMAIN new \cup DOMAIN msgRecovers
        /\ \A m \in DOMAIN new : Over(new, msgRecovers)[m] = new[m]
        /\ \A m \in DOMAIN msgRecovers \ DOMAIN new : Over(new, msgRecovers)[m] = msgRecovers[m]
    BY OverProperties
  <2> QED
    BY <1>18, <2>1
<1>21. /\ DOMAIN msgRecovers = {RecoverId(x) : x \in RecoverRows}
       /\ \A x \in RecoverRows :
             msgRecovers[RecoverId(x)] = [account |-> x[2], amount |-> Amount[x[2]]]
  BY DEF MorseInv, MessagesInv
<1>22. \A x \in RecoverRows : RecoverId(x) \notin DOMAIN new
  <2>1. ASSUME NEW x \in RecoverRows, NEW y \in fresh, RecoverId(x) = RecoverId(y) PROVE FALSE
    <3>1. x[1] = b
      BY <2>1 DEF RecoverId
    <3>2. x[1] <= height
      BY <1>10 DEF RecoverRows
    <3> QED
      BY <1>1, <3>1, <3>2
  <2> QED
    BY <1>19, <2>1
<1>23. MessagesInv'
  <2>1. DOMAIN msgRecovers' = {RecoverId(x) : x \in RecoverRows'}
    <3>1. DOMAIN msgRecovers' = {RecoverId(x) : x \in fresh} \cup {RecoverId(x) : x \in RecoverRows}
      BY <1>19, <1>20, <1>21
    <3> HIDE DEF fresh
    <3> QED
      BY <1>17, <3>1
  <2>2. ASSUME NEW x \in fresh
        PROVE  msgRecovers'[RecoverId(x)] = [account |-> x[2], amount |-> Amount[x[2]]]
    <3>1. RecoverId(x) \in DOMAIN new
      BY <1>19
    <3> QED
      BY <1>19, <1>20, <3>1
  <2>3. ASSUME NEW x \in RecoverRows
        PROVE  msgRecovers'[RecoverId(x)] = [account |-> x[2], amount |-> Amount[x[2]]]
    <3>1. RecoverId(x) \in DOMAIN msgRecovers \ DOMAIN new
      BY <1>21, <1>22
    <3> QED
      BY <1>20, <1>21, <3>1
  <2> HIDE DEF fresh
  <2> QED
    BY <1>16, <1>17, <1>18, <2>1, <2>2, <2>3 DEF MorseInv, MessagesInv
<1> QED
  BY <1>14, <1>15, <1>23 DEF MorseInv

LEMMA MorseKept ==
    ASSUME OneByOne, StageInv, MorseInv, [Next]_vars
    PROVE  MorseInv'
<1>0. PaymentsInv' /\ StageInv'
  BY PaymentsKept, StageKept DEF MorseInv
<1>1. Len(chain) \in Nat /\ height \in Nat
  BY LenProperties DEF StageInv
<1>2. CASE Produce
  <2>1. PICK blk \in Blocks : chain' = Append(chain, blk)
    BY <1>2, Produced
  <2>2. /\ height = Len(chain) /\ stage = "primitives"
        /\ UNCHANGED <<height, stage, running, migrationVars>>
    BY <1>2, Produced DEF Produce
  <2>3. /\ Len(chain') = Len(chain) + 1
        /\ \A h \in 1..Len(chain) : chain'[h] = chain[h]
        /\ \A h \in 0..Len(chain) : ImportedBy(h)' <=> ImportedBy(h)
    BY <2>1, AppendFrame
  <2>4. ExecDone = height /\ ExecDone' = height
    BY <2>2 DEF ExecDone
  <2>5. ImportedBy(ExecDone)' <=> ImportedBy(ExecDone)
    <3>1. PICK n \in Nat : n = height
      BY <1>1
    <3>2. n \in 0..Len(chain)
      BY <1>1, <2>2, <3>1
    <3>3. ImportedBy(n)' <=> ImportedBy(n)
      BY <2>3, <3>2
    <3> QED
      BY <2>4, <3>1, <3>3 DEF ImportedBy
  <2>6. \A h \in 1..Len(chain) : \A a \in Morse : ClaimHandled(a, h)' <=> ClaimHandled(a, h)
    BY <2>2 DEF ClaimHandled
  <2>7. \A h \in 1..Len(chain') : h > Len(chain) =>
          h > ExecDone' /\ \A a \in Morse : ~ClaimHandled(a, h)'
    BY <1>1, <2>2, <2>3, <2>4 DEF ClaimHandled
  <2> QED
    BY <1>0, <1>1, <2>2, <2>3, <2>4, <2>5, <2>6, <2>7, MorseUntouched
\* The chain stays, and so does what is handled.
<1>3. ASSUME UNCHANGED <<chain, migrationVars>>, ExecDone' = ExecDone,
             \A h \in 1..Len(chain) : \A a \in Morse : ClaimHandled(a, h)' <=> ClaimHandled(a, h)
      PROVE  MorseInv'
  <2>1. ImportedBy(ExecDone)' <=> ImportedBy(ExecDone)
    BY <1>3 DEF ImportedBy
  <2>2. Len(chain') = Len(chain) /\ \A h \in 1..Len(chain') : ~(h > Len(chain))
    BY <1>1, <1>3
  <2> QED
    BY <1>0, <1>1, <1>3, <2>1, <2>2, MorseUntouched
<1>4. CASE IndexPrimitives
  BY <1>3, <1>4 DEF IndexPrimitives, ExecDone, ClaimHandled
<1>5. CASE IndexParams
  BY <1>5, ExecStep
<1>6. CASE IndexMigrationAccounts
  <2>1. PICK message : message = ClaimMessages(B, OfKind(Data.claims, "account"))
    OBVIOUS
  <2>2. /\ morse' = MarkClaimed(morse, B, message) /\ UNCHANGED msgRecovers
        /\ msgClaims' = Over([m \in {message[a] : a \in DOMAIN message} |-> BalanceCoin(m)], msgClaims)
    BY <1>6, <2>1 DEF IndexMigrationAccounts, HandleMsgClaimMorseAccount
  <2>3. /\ HandlerOf["account"] \in running /\ running' = running \ {HandlerOf["account"]}
        /\ stage = "handlers" /\ UNCHANGED <<chain, height, stage>>
    BY <1>6 DEF IndexMigrationAccounts, Returns, HandlerOf, StageInv
  <2>4. "account" \in Kinds
    BY DEF Kinds
  <2> QED
    BY <2>1, <2>2, <2>3, <2>4, ClaimStep
<1>7. CASE IndexApplications
  <2>1. PICK message : message = ClaimMessages(B, OfKind(Data.claims, "application"))
    OBVIOUS
  <2>2. morse' = MarkClaimed(morse, B, message) /\ UNCHANGED <<msgRecovers, msgClaims>>
    BY <1>7, <2>1 DEF IndexApplications, MarkStakeClaimed
  <2>3. /\ HandlerOf["application"] \in running /\ running' = running \ {HandlerOf["application"]}
        /\ stage = "handlers" /\ UNCHANGED <<chain, height, stage>>
    BY <1>7 DEF IndexApplications, Returns, HandlerOf, StageInv
  <2>4. "application" \in Kinds /\ "application" # "account"
    BY DEF Kinds
  <2> QED
    BY <2>1, <2>2, <2>3, <2>4, ClaimStep
<1>8. CASE IndexSupplier
  <2>1. PICK message : message = ClaimMessages(B, OfKind(Data.claims, "supplier"))
    OBVIOUS
  <2>2. morse' = MarkClaimed(morse, B, message) /\ UNCHANGED <<msgRecovers, msgClaims>>
    BY <1>8, <2>1 DEF IndexSupplier, MarkStakeClaimed
  <2>3. /\ HandlerOf["supplier"] \in running /\ running' = running \ {HandlerOf["supplier"]}
        /\ stage = "handlers" /\ UNCHANGED <<chain, height, stage>>
    BY <1>8 DEF IndexSupplier, Returns, HandlerOf, StageInv
  <2>4. "supplier" \in Kinds /\ "supplier" # "account"
    BY DEF Kinds
  <2> QED
    BY <2>1, <2>2, <2>3, <2>4, ClaimStep
<1>9. CASE GenerateReports
  BY <1>3, <1>9 DEF GenerateReports, ExecDone, ClaimHandled
<1>10. CASE Commit
  <2>1. /\ stage = "commit" /\ stage' = "primitives" /\ running = {} /\ running' = {}
        /\ height' = height + 1
    BY <1>1, <1>10 DEF Commit, StageInv, B, Tip
  <2>2. \A h \in 1..Len(chain) : \A a \in Morse : ClaimHandled(a, h)' <=> ClaimHandled(a, h)
    BY <1>1, <2>1 DEF ClaimHandled
  <2>3. ExecDone' = ExecDone
    BY <2>1 DEF ExecDone
  <2> QED
    BY <1>3, <1>10, <2>2, <2>3 DEF Commit
<1>11. CASE RegenerateReports \/ UNCHANGED vars
  BY <1>3, <1>11 DEF RegenerateReports, vars, ExecDone, ClaimHandled
<1> QED
  BY <1>2, <1>4, <1>5, <1>6, <1>7, <1>8, <1>9, <1>10, <1>11 DEF Next

\* At the end of a block, handled is what the indexed blocks paid.
LEMMA AllHandled ==
    ASSUME StageInv, PaymentsInv, stage = "primitives", NEW a \in Morse, NEW h \in 1..Len(chain)
    PROVE  PaidInIndex(a, h) <=> h <= height /\ a \in Paid(h)
<1>1. ExecDone = height /\ (ClaimHandled(a, h) <=> h <= height)
  BY DEF ExecDone, ClaimHandled
<1>2. chain[h].delegated = {}
  BY DEF PaymentsInv
<1> QED
  BY <1>1, <1>2 DEF PaidInIndex, Paid

LEMMA MorseImplied ==
    ASSUME StageInv, MorseInv
    PROVE  MorseMatchesChain
<1> SUFFICES ASSUME stage = "primitives"
             PROVE  /\ \A a \in Rows, h \in Indexed :
                          a \in Paid(h) <=> morse[a].claimed /\ morse[a].claimedAt = h
                    /\ \A a \in Rows : morse[a].claimed => morse[a].claimedAt \in Indexed
                    /\ \A h \in Indexed :
                          /\ {<<m[3], msgClaims[m]>> : m \in {m \in DOMAIN msgClaims : m[1] = h}}
                             = {<<a, Amount[a]>> : a \in OfKind(chain[h].claims, "account")}
                          /\ {<<r.account, r.amount>> :
                                r \in {msgRecovers[m] : m \in {m \in DOMAIN msgRecovers : m[1] = h}}}
                             = {<<a, Amount[a]>> : a \in chain[h].recovered}
  BY DEF MorseMatchesChain
<1>1. height \in Nat /\ Len(chain) \in Nat /\ Indexed = 1..height /\ Indexed \subseteq 1..Len(chain)
  BY LenProperties DEF StageInv, Indexed
<1>2. ASSUME NEW a \in Rows
      PROVE  /\ a \in Morse
             /\ \A h \in Indexed : a \in Paid(h) => morse[a].claimed /\ morse[a].claimedAt = h
             /\ morse[a].claimed => morse[a].claimedAt \in Indexed /\ a \in Paid(morse[a].claimedAt)
  <2>1. a \in Morse /\ morse[a] # None
    BY DEF Rows
  <2>2. ASSUME NEW h \in Indexed, a \in Paid(h) PROVE morse[a].claimed /\ morse[a].claimedAt = h
    <3>1. h \in 1..Len(chain) /\ h <= height
      BY <1>1
    <3>2. PaidInIndex(a, h)
      BY <2>1, <2>2, <3>1, AllHandled DEF MorseInv
    <3> QED
      BY <2>1, <3>1, <3>2 DEF MorseInv, MarksInv
  <2>3. ASSUME morse[a].claimed
        PROVE  morse[a].claimedAt \in Indexed /\ a \in Paid(morse[a].claimedAt)
    <3>1. PICK h \in 1..Len(chain) : PaidInIndex(a, h)
      BY <2>1, <2>3 DEF MorseInv, MarksInv
    <3>2. morse[a].claimedAt = h
      BY <2>1, <3>1 DEF MorseInv, MarksInv
    <3>3. h <= height /\ a \in Paid(h)
      BY <2>1, <3>1, AllHandled DEF MorseInv
    <3> QED
      BY <1>1, <3>2, <3>3
  <2> QED
    BY <2>1, <2>2, <2>3
<1>3. ASSUME NEW h \in Indexed
      PROVE  /\ {<<m[3], msgClaims[m]>> : m \in {m \in DOMAIN msgClaims : m[1] = h}}
                = {<<a, Amount[a]>> : a \in OfKind(chain[h].claims, "account")}
             /\ {<<r.account, r.amount>> :
                   r \in {msgRecovers[m] : m \in {m \in DOMAIN msgRecovers : m[1] = h}}}
                = {<<a, Amount[a]>> : a \in chain[h].recovered}
  <2>1. h \in 1..Len(chain) /\ h <= height /\ chain[h] \in Blocks
    BY <1>1, ElementOfSeq DEF StageInv
  <2>2. chain[h].claims \subseteq Morse /\ chain[h].recovered \subseteq Morse
    BY <2>1 DEF Blocks
  <2>3. /\ DOMAIN msgClaims = {ClaimId(x) : x \in ClaimRows}
        /\ \A x \in ClaimRows : msgClaims[ClaimId(x)] = Amount[x[2]]
        /\ DOMAIN msgRecovers = {RecoverId(x) : x \in RecoverRows}
        /\ \A x \in RecoverRows :
              msgRecovers[RecoverId(x)] = [account |-> x[2], amount |-> Amount[x[2]]]
    BY DEF MorseInv, MessagesInv
  <2> DEFINE found == {<<m[3], msgClaims[m]>> : m \in {m \in DOMAIN msgClaims : m[1] = h}}
             paid == {<<a, Amount[a]>> : a \in OfKind(chain[h].claims, "account")}
  <2>4. found = paid
    <3>1. ASSUME NEW m \in DOMAIN msgClaims, m[1] = h PROVE <<m[3], msgClaims[m]>> \in paid
      <4>1. PICK x \in ClaimRows : m = ClaimId(x)
        BY <2>3
      <4>2. x[1] = h /\ m[3] = x[2] /\ msgClaims[m] = Amount[x[2]]
        BY <2>3, <3>1, <4>1 DEF ClaimId
      <4>3. x[2] \in OfKind(chain[h].claims, "account")
        BY <4>2 DEF ClaimRows, OfKind
      <4> QED
        BY <4>2, <4>3
    <3>2. ASSUME NEW a \in OfKind(chain[h].claims, "account") PROVE <<a, Amount[a]>> \in found
      <4>1. <<h, a>> \in ClaimRows
        BY <2>1, <2>2 DEF ClaimRows, OfKind, ClaimHandled
      <4>2. PICK m : m = ClaimId(<<h, a>>)
        OBVIOUS
      <4>3. m \in DOMAIN msgClaims /\ m[1] = h /\ m[3] = a /\ msgClaims[m] = Amount[a]
        BY <2>3, <4>1, <4>2 DEF ClaimId
      <4> QED
        BY <4>3
    <3> QED
      BY <3>1, <3>2
  <2> DEFINE recovers == {<<r.account, r.amount>> :
                   r \in {msgRecovers[m] : m \in {m \in DOMAIN msgRecovers : m[1] = h}}}
             recovered == {<<a, Amount[a]>> : a \in chain[h].recovered}
  <2>5. recovers = recovered
    <3>1. ASSUME NEW m \in DOMAIN msgRecovers, m[1] = h
          PROVE  <<msgRecovers[m].account, msgRecovers[m].amount>> \in recovered
      <4>1. PICK x \in RecoverRows : m = RecoverId(x)
        BY <2>3
      <4>2. x[1] = h /\ msgRecovers[m].account = x[2] /\ msgRecovers[m].amount = Amount[x[2]]
        <5>1. msgRecovers[m] = [account |-> x[2], amount |-> Amount[x[2]]]
          BY <2>3, <4>1
        <5>2. x[1] = h
          BY <3>1, <4>1 DEF RecoverId
        <5> QED
          BY <5>1, <5>2
      <4>3. x[2] \in chain[h].recovered
        BY <4>2 DEF RecoverRows
      <4> QED
        BY <4>2, <4>3
    <3>2. ASSUME NEW a \in chain[h].recovered PROVE <<a, Amount[a]>> \in recovers
      <4>1. <<h, a>> \in RecoverRows
        BY <2>1, <2>2 DEF RecoverRows, ExecDone
      <4>2. PICK m : m = RecoverId(<<h, a>>)
        OBVIOUS
      <4>3. m \in DOMAIN msgRecovers /\ m[1] = h
        BY <2>3, <4>1, <4>2 DEF RecoverId
      <4>4. PICK r : r = msgRecovers[m]
        OBVIOUS
      <4>5. r = [account |-> a, amount |-> Amount[a]]
        BY <2>3, <4>1, <4>2, <4>4
      <4>6. r \in {msgRecovers[k] : k \in {k \in DOMAIN msgRecovers : k[1] = h}}
        BY <4>3, <4>4
      <4>7. r.account = a /\ r.amount = Amount[a]
        BY <4>5
      <4> QED
        BY <4>6, <4>7
    <3> QED
      BY <3>1, <3>2
  <2> QED
    BY <2>4, <2>5
<1> QED
  BY <1>2, <1>3

\* When a block is done, an account is claimed in the index exactly if the chain paid
\* it, at the block it was paid, and the claims and recoveries of each block are
\* stored with their accounts and amounts: handleAuthzExec and the three handlers of
\* claims, in whatever order these return, together mark each account once.
THEOREM MorseCorrect == Spec /\ OneByOne => []MorseMatchesChain
<1>1. StageInv /\ MorseInv => MorseMatchesChain
  BY MorseImplied
<1>2. CASE OneByOne
  <2>1. Init => StageInv /\ MorseInv
    BY StageInitial, MorseInitial
  <2>2. StageInv /\ MorseInv /\ [Next]_vars => StageInv' /\ MorseInv'
    BY <1>2, StageKept, MorseKept
  <2> QED
    BY <1>1, <2>1, <2>2, PTL DEF Spec
<1>3. CASE ~OneByOne
  BY <1>3, PTL
<1> QED
  BY <1>2, <1>3

-----------------------------------------------------------------------------
(* The total supply *)

LEMMA SumOfIsSum ==
    ASSUME NEW S
    PROVE  SumOf(S) = Sum(Amount, S)
BY DEF SumOf, Sum

LEMMA TotalImplied ==
    ASSUME IsFiniteSet(Morse), StageInv, SupplyInv, MorseInv
    PROVE  TotalSupplyConserved
<1> SUFFICES ASSUME NEW h \in Indexed, stage = "primitives", ImportedBy(h)
             PROVE  /\ TotalSupplyAt(h) = BaseAt(h)[Native] + SumOf(Morse)
                    /\ UnclaimedAccounts # {} =>
                          TotalSupplyOfDay(h) = BaseAt(h)[Native] + SumOf(Morse)
  BY DEF TotalSupplyConserved
<1> DEFINE paid == PaidBy(h)
           unclaimed == UnclaimedAccounts
           later == RecentlyClaimed(h)
<1>1. h \in Nat /\ height \in Nat /\ h \in 1..height /\ h \in 1..Len(chain) /\ chain[h] \in Blocks
  BY LenProperties, ElementOfSeq DEF StageInv, Indexed
<1>2. Rows = Morse
  <2>1. ImportedBy(height)
    BY <1>1 DEF ImportedBy
  <2>2. ExecDone = height
    BY DEF ExecDone
  <2> QED
    BY <2>1, <2>2 DEF Rows, MorseInv, MarksInv
<1>3. MorseMatchesChain
  BY MorseImplied
<1>4. \A a \in Morse, k \in Indexed : a \in Paid(k) <=> morse[a].claimed /\ morse[a].claimedAt = k
  BY <1>2, <1>3 DEF MorseMatchesChain
<1>5. \A a \in Morse : morse[a].claimed => morse[a].claimedAt \in 1..height
  BY <1>2, <1>3 DEF MorseMatchesChain, Indexed
<1>6. paid \subseteq Morse
  <2>1. \A k \in 1..h : chain[k] \in Blocks
    BY <1>1, LenProperties, ElementOfSeq DEF StageInv
  <2> QED
    BY <2>1 DEF PaidBy, Paid, Blocks
<1>7. \A a \in Morse : a \in paid <=> (morse[a].claimed /\ morse[a].claimedAt <= h)
  <2>1. \A a \in Morse : a \in paid <=> \E k \in 1..h : a \in Paid(k)
    BY DEF PaidBy
  <2>2. \A k \in 1..h : k \in Indexed
    BY <1>1 DEF Indexed
  <2>3. \A a \in Morse : a \in paid <=> \E k \in 1..h : morse[a].claimed /\ morse[a].claimedAt = k
    BY <1>4, <2>1, <2>2
  <2> QED
    BY <1>1, <1>5, <2>3
<1>8. /\ unclaimed \subseteq Morse /\ later \subseteq Morse
      /\ Morse = (paid \cup unclaimed) \cup later
      /\ paid \cap unclaimed = {} /\ (paid \cup unclaimed) \cap later = {}
  <2>1. \A a \in Morse : a \in unclaimed <=> ~morse[a].claimed
    BY <1>2 DEF UnclaimedAccounts
  <2>2. \A a \in Morse : a \in later <=> (morse[a].claimed /\ morse[a].claimedAt > h)
    BY <1>2 DEF RecentlyClaimed
  <2>3. unclaimed \subseteq Morse /\ later \subseteq Morse
    BY <1>2 DEF UnclaimedAccounts, RecentlyClaimed
  <2> HIDE DEF paid, unclaimed, later
  <2> QED
    BY <1>1, <1>5, <1>6, <1>7, <2>1, <2>2, <2>3
<1>9. SumOf(Morse) = SumOf(paid) + SumOf(unclaimed) + SumOf(later)
  <2> HIDE DEF paid, unclaimed, later
  <2>1. IsFiniteSet(paid) /\ IsFiniteSet(unclaimed) /\ IsFiniteSet(later)
    BY <1>6, <1>8, FS_Subset
  <2>2. \A a \in Morse : Amount[a] \in Int
    BY MigrationAssumption
  <2>3. Sum(Amount, paid \cup unclaimed) = Sum(Amount, paid) + Sum(Amount, unclaimed)
    BY <1>6, <1>8, <2>1, <2>2, SumUnion
  <2>4. PICK S : S = paid \cup unclaimed
    OBVIOUS
  <2>5. Sum(Amount, S \cup later) = Sum(Amount, S) + Sum(Amount, later)
    <3>1. IsFiniteSet(S) /\ S \cap later = {} /\ \A a \in S \cup later : Amount[a] \in Int
      BY <1>6, <1>8, <2>1, <2>2, <2>4, FS_Union
    <3> QED
      BY <2>1, <3>1, SumUnion
  <2>6. S \cup later = Morse
    BY <1>8, <2>4
  <2> QED
    BY <2>3, <2>4, <2>5, <2>6, SumOfIsSum
<1>10. SumOf(paid) \in Nat /\ SumOf(unclaimed) \in Int /\ SumOf(later) \in Int
  <2> HIDE DEF paid, unclaimed, later
  <2>1. IsFiniteSet(paid) /\ IsFiniteSet(unclaimed) /\ IsFiniteSet(later)
    BY <1>6, <1>8, FS_Subset
  <2>2. \A a \in Morse : Amount[a] \in Nat /\ Amount[a] \in Int
    BY MigrationAssumption
  <2>3. Sum(Amount, paid) \in Nat
    BY <1>6, <2>1, <2>2, SumNat
  <2>4. Sum(Amount, unclaimed) \in Int /\ Sum(Amount, later) \in Int
    BY <1>8, <2>1, <2>2, SumType
  <2> QED
    BY <2>3, <2>4, SumOfIsSum
<1>11. BaseAt(h)[Native] \in Nat /\ BaseAt(h)[Native] > 0
       /\ ChainAmount(Native, h) = BaseAt(h)[Native] + SumOf(paid)
  <2>1. BaseAt(h) \in Bases
    BY <1>1 DEF BaseAt, Blocks
  <2>2. BaseAt(h) \in [Denoms -> Nat] /\ Native \in Denoms /\ BaseAt(h)[Native] > 0
    BY <2>1, BlockPipelineAssumption, MigrationAssumption
  <2> QED
    BY <2>2 DEF ChainAmount, Amounts
<1>12. SupplyAt(Native, h) = BaseAt(h)[Native] + SumOf(paid)
  <2>1. SupplyMatchesChain
    BY SupplyImplied
  <2>2. ChainAmount(Native, h) > 0
    BY <1>10, <1>11
  <2>3. SupplyAt(Native, h) = ChainAmount(Native, h)
    BY <2>1, <2>2, MigrationAssumption DEF SupplyMatchesChain, ChainAmount
  <2> QED
    BY <1>11, <2>3
<1>13. TotalSupplyAt(h) = BaseAt(h)[Native] + SumOf(Morse)
  <2>1. TotalSupplyAt(h) = SupplyAt(Native, h) + (SumOf(unclaimed) + SumOf(later))
    BY DEF TotalSupplyAt, UnmigratedSupply
  <2> HIDE DEF paid, unclaimed, later
  <2> QED
    BY <1>9, <1>10, <1>11, <1>12, <2>1
<1>14. UnclaimedAccounts # {} => TotalSupplyOfDay(h) = TotalSupplyAt(h)
  BY DEF TotalSupplyOfDay, TotalSupplyAt, UnmigratedSupplyByDay
<1> QED
  BY <1>13, <1>14

\* However accounts are claimed and recovered after their import, the total supply the
\* SQL functions tell of any indexed block, asked at any later time, is what the chain
\* had apart from the migration and all that the Morse accounts held: what is paid
\* moves from the unmigrated part, which get_total_supply_between_dates reads from the
\* rows as they are now, to the supply handleSupply stored.
THEOREM TotalCorrect ==
    Spec /\ OnePage /\ OneByOne /\ IsFiniteSet(Morse) => []TotalSupplyConserved
<1>1. IsFiniteSet(Morse) /\ StageInv /\ SupplyInv /\ MorseInv => TotalSupplyConserved
  BY TotalImplied
<1>2. CASE OnePage /\ OneByOne /\ IsFiniteSet(Morse)
  <2>1. Init => StageInv /\ SupplyInv /\ MorseInv
    BY StageInitial, SupplyInitial, MorseInitial
  <2>2. StageInv /\ SupplyInv /\ MorseInv /\ [Next]_vars => StageInv' /\ SupplyInv' /\ MorseInv'
    BY <1>2, StageKept, SupplyKept, MorseKept
  <2> QED
    BY <1>1, <1>2, <2>1, <2>2, PTL DEF Spec
<1>3. CASE ~(OnePage /\ OneByOne /\ IsFiniteSet(Morse))
  BY <1>3, PTL
<1> QED
  BY <1>2, <1>3

-----------------------------------------------------------------------------
(* Sums the reports take: each fold of the model is the Sum of module Sums   *)

\* The stakes unbonding returns, for some of the suppliers.
EndedStakes(before, ops, S) ==
    MapThenSumSet(LAMBDA p : before[p].stake - IF ops[p].kind = "slashEnd" THEN 1 ELSE 0, S)

LEMMA StakesIsSum ==
    ASSUME NEW S, IsFiniteSet(S), NEW f, \A x \in S : f[x] = x.stake
    PROVE  Stakes(S) = Sum(f, S)
<1> DEFINE Body(g, s) == IF s = {} THEN 0 ELSE Pick(s).stake + g[s \ {Pick(s)}]
           fold == CHOOSE g : g = [s \in SUBSET S |-> Body(g, s)]
<1>1. Stakes(S) = fold[S]
  BY DEF Stakes, MapThenSumSet, MapThenFoldSet, Pick
<1>2. PICK g : g = [s \in SUBSET S |-> NextSum(f, g, s)]
  BY FoldIsSum
<1>3. ASSUME NEW e, NEW s \in SUBSET S PROVE NextSum(f, e, s) = Body(e, s)
  <2>1. s # {} => Pick(s) \in S
    BY DEF Pick
  <2> QED
    BY <2>1 DEF NextSum
<1> HIDE DEF Body
<1>4. g = [s \in SUBSET S |-> Body(g, s)]
  BY <1>2, <1>3
<1>5. fold = [s \in SUBSET S |-> Body(fold, s)]
  BY <1>4
<1> HIDE DEF fold
<1>6. \A s \in SUBSET S : fold[s] = NextSum(f, fold, s)
  BY <1>3, <1>5
<1>7. fold[S] = Sum(f, S)
  BY <1>6, SumUnique
<1> QED
  BY <1>1, <1>7

LEMMA RelaysIsSum ==
    ASSUME NEW S, IsFiniteSet(S), NEW f, \A x \in S : f[x] = Relays[x.service]
    PROVE  RelaysOf(S) = Sum(f, S)
<1> DEFINE Body(g, s) == IF s = {} THEN 0 ELSE Relays[Pick(s).service] + g[s \ {Pick(s)}]
           fold == CHOOSE g : g = [s \in SUBSET S |-> Body(g, s)]
<1>1. RelaysOf(S) = fold[S]
  BY DEF RelaysOf, MapThenSumSet, MapThenFoldSet, Pick
<1>2. PICK g : g = [s \in SUBSET S |-> NextSum(f, g, s)]
  BY FoldIsSum
<1>3. ASSUME NEW e, NEW s \in SUBSET S PROVE NextSum(f, e, s) = Body(e, s)
  <2>1. s # {} => Pick(s) \in S
    BY DEF Pick
  <2> QED
    BY <2>1 DEF NextSum
<1> HIDE DEF Body
<1>4. g = [s \in SUBSET S |-> Body(g, s)]
  BY <1>2, <1>3
<1>5. fold = [s \in SUBSET S |-> Body(fold, s)]
  BY <1>4
<1> HIDE DEF fold
<1>6. \A s \in SUBSET S : fold[s] = NextSum(f, fold, s)
  BY <1>3, <1>5
<1>7. fold[S] = Sum(f, S)
  BY <1>6, SumUnique
<1> QED
  BY <1>1, <1>7

LEMMA DayRelaysIsSum ==
    ASSUME NEW S, IsFiniteSet(S), NEW f, \A x \in S : f[x] = Relays[x[1].service]
    PROVE  MapThenSumSet(LAMBDA m : Relays[m[1].service], S) = Sum(f, S)
<1> DEFINE Body(g, s) == IF s = {} THEN 0 ELSE Relays[Pick(s)[1].service] + g[s \ {Pick(s)}]
           fold == CHOOSE g : g = [s \in SUBSET S |-> Body(g, s)]
<1>1. MapThenSumSet(LAMBDA m : Relays[m[1].service], S) = fold[S]
  BY DEF MapThenSumSet, MapThenFoldSet, Pick
<1>2. PICK g : g = [s \in SUBSET S |-> NextSum(f, g, s)]
  BY FoldIsSum
<1>3. ASSUME NEW e, NEW s \in SUBSET S PROVE NextSum(f, e, s) = Body(e, s)
  <2>1. s # {} => Pick(s) \in S
    BY DEF Pick
  <2> QED
    BY <2>1 DEF NextSum
<1> HIDE DEF Body
<1>4. g = [s \in SUBSET S |-> Body(g, s)]
  BY <1>2, <1>3
<1>5. fold = [s \in SUBSET S |-> Body(fold, s)]
  BY <1>4
<1> HIDE DEF fold
<1>6. \A s \in SUBSET S : fold[s] = NextSum(f, fold, s)
  BY <1>3, <1>5
<1>7. fold[S] = Sum(f, S)
  BY <1>6, SumUnique
<1> QED
  BY <1>1, <1>7

LEMMA ReturnedIsSum ==
    ASSUME NEW h, NEW S, IsFiniteSet(S), NEW f, \A x \in S : f[x] = StakeBefore(x, h)
    PROVE  MapThenSumSet(LAMBDA r : StakeBefore(r, h), S) = Sum(f, S)
<1> DEFINE Body(g, s) == IF s = {} THEN 0 ELSE StakeBefore(Pick(s), h) + g[s \ {Pick(s)}]
           fold == CHOOSE g : g = [s \in SUBSET S |-> Body(g, s)]
<1>1. MapThenSumSet(LAMBDA r : StakeBefore(r, h), S) = fold[S]
  BY DEF MapThenSumSet, MapThenFoldSet, Pick
<1>2. PICK g : g = [s \in SUBSET S |-> NextSum(f, g, s)]
  BY FoldIsSum
<1>3. ASSUME NEW e, NEW s \in SUBSET S PROVE NextSum(f, e, s) = Body(e, s)
  <2>1. s # {} => Pick(s) \in S
    BY DEF Pick
  <2> QED
    BY <2>1 DEF NextSum
<1> HIDE DEF Body
<1>4. g = [s \in SUBSET S |-> Body(g, s)]
  BY <1>2, <1>3
<1>5. fold = [s \in SUBSET S |-> Body(fold, s)]
  BY <1>4
<1> HIDE DEF fold
<1>6. \A s \in SUBSET S : fold[s] = NextSum(f, fold, s)
  BY <1>3, <1>5
<1>7. fold[S] = Sum(f, S)
  BY <1>6, SumUnique
<1> QED
  BY <1>1, <1>7

LEMMA StakeOfIsSum ==
    ASSUME NEW h, NEW S, IsFiniteSet(S), NEW f, \A x \in S : f[x] = SuppliersAt(h)[x].stake
    PROVE  StakeOf(h, S) = Sum(f, S)
<1> DEFINE Body(g, s) == IF s = {} THEN 0 ELSE SuppliersAt(h)[Pick(s)].stake + g[s \ {Pick(s)}]
           fold == CHOOSE g : g = [s \in SUBSET S |-> Body(g, s)]
<1>1. StakeOf(h, S) = fold[S]
  BY DEF StakeOf, MapThenSumSet, MapThenFoldSet, Pick
<1>2. PICK g : g = [s \in SUBSET S |-> NextSum(f, g, s)]
  BY FoldIsSum
<1>3. ASSUME NEW e, NEW s \in SUBSET S PROVE NextSum(f, e, s) = Body(e, s)
  <2>1. s # {} => Pick(s) \in S
    BY DEF Pick
  <2> QED
    BY <2>1 DEF NextSum
<1> HIDE DEF Body
<1>4. g = [s \in SUBSET S |-> Body(g, s)]
  BY <1>2, <1>3
<1>5. fold = [s \in SUBSET S |-> Body(fold, s)]
  BY <1>4
<1> HIDE DEF fold
<1>6. \A s \in SUBSET S : fold[s] = NextSum(f, fold, s)
  BY <1>3, <1>5
<1>7. fold[S] = Sum(f, S)
  BY <1>6, SumUnique
<1> QED
  BY <1>1, <1>7

LEMMA StakeReturnedIsSum ==
    ASSUME NEW before, NEW ops, NEW S, IsFiniteSet(S), NEW f,
           \A x \in S : f[x] = before[x].stake - IF ops[x].kind = "slashEnd" THEN 1 ELSE 0
    PROVE  EndedStakes(before, ops, S) = Sum(f, S)
<1> DEFINE Body(g, s) ==
             IF s = {} THEN 0
             ELSE (before[Pick(s)].stake - IF ops[Pick(s)].kind = "slashEnd" THEN 1 ELSE 0)
                  + g[s \ {Pick(s)}]
           fold == CHOOSE g : g = [s \in SUBSET S |-> Body(g, s)]
<1>1. EndedStakes(before, ops, S) = fold[S]
  BY DEF EndedStakes, MapThenSumSet, MapThenFoldSet, Pick
<1>2. PICK g : g = [s \in SUBSET S |-> NextSum(f, g, s)]
  BY FoldIsSum
<1>3. ASSUME NEW e, NEW s \in SUBSET S PROVE NextSum(f, e, s) = Body(e, s)
  <2>1. s # {} => Pick(s) \in S
    BY DEF Pick
  <2> QED
    BY <2>1 DEF NextSum
<1> HIDE DEF Body
<1>4. g = [s \in SUBSET S |-> Body(g, s)]
  BY <1>2, <1>3
<1>5. fold = [s \in SUBSET S |-> Body(fold, s)]
  BY <1>4
<1> HIDE DEF fold
<1>6. \A s \in SUBSET S : fold[s] = NextSum(f, fold, s)
  BY <1>3, <1>5
<1>7. fold[S] = Sum(f, S)
  BY <1>6, SumUnique
<1> QED
  BY <1>1, <1>7

LEMMA ServiceRelaysIsSum ==
    ASSUME NEW S, IsFiniteSet(S), NEW f, \A x \in S : f[x] = Relays[x[2]]
    PROVE  ServiceRelays(S) = Sum(f, S)
<1> DEFINE Body(g, s) == IF s = {} THEN 0 ELSE Relays[Pick(s)[2]] + g[s \ {Pick(s)}]
           fold == CHOOSE g : g = [s \in SUBSET S |-> Body(g, s)]
<1>1. ServiceRelays(S) = fold[S]
  BY DEF ServiceRelays, MapThenSumSet, MapThenFoldSet, Pick
<1>2. PICK g : g = [s \in SUBSET S |-> NextSum(f, g, s)]
  BY FoldIsSum
<1>3. ASSUME NEW e, NEW s \in SUBSET S PROVE NextSum(f, e, s) = Body(e, s)
  <2>1. s # {} => Pick(s) \in S
    BY DEF Pick
  <2> QED
    BY <2>1 DEF NextSum
<1> HIDE DEF Body
<1>4. g = [s \in SUBSET S |-> Body(g, s)]
  BY <1>2, <1>3
<1>5. fold = [s \in SUBSET S |-> Body(fold, s)]
  BY <1>4
<1> HIDE DEF fold
<1>6. \A s \in SUBSET S : fold[s] = NextSum(f, fold, s)
  BY <1>3, <1>5
<1>7. fold[S] = Sum(f, S)
  BY <1>6, SumUnique
<1> QED
  BY <1>1, <1>7

-----------------------------------------------------------------------------
(* Versions and their ranges *)

\* Versions of an entity have ranges within the blocks written, and share none.
RangeIn(r, n) == r.lo \in 1..n /\ (r.hi = Open \/ r.hi \in (r.lo + 1)..n)

Ranged(rows, n) ==
    /\ \A r \in rows : RangeIn(r, n)
    /\ \A r \in rows, q \in rows, h \in 1..n :
          r.id = q.id /\ InForce(r, h) /\ InForce(q, h) => r = q

\* A version in a block that closes those of the ids.
Closed(r, b, ids) == IF r.hi = Open /\ r.id \in ids THEN [r EXCEPT !.hi = b] ELSE r

\* What becomes of version q in block n + 1.
Follows(r, q, n, ids) ==
    /\ r.id = q.id /\ r.lo = q.lo /\ RangeIn(r, n + 1)
    /\ \A h \in 1..n : InForce(r, h) <=> InForce(q, h)
    /\ InForce(r, n + 1) <=> q.hi = Open /\ q.id \notin ids
    /\ q.hi = Open => InForce(q, n)
    /\ q.hi = Open /\ q.id \notin ids => r = q
    /\ InForce(q, q.lo)

LEMMA ClosedVersion ==
    ASSUME NEW n \in Nat, NEW q, {"id", "lo", "hi"} \subseteq DOMAIN q, RangeIn(q, n), NEW ids,
           NEW r, r = Closed(q, n + 1, ids)
    PROVE  Follows(r, q, n, ids)
<1>1. Open \notin Int
  BY ReportsAssumption, Zenon
<1>2. CASE q.hi = Open /\ q.id \in ids
  <2>1. r = [q EXCEPT !.hi = n + 1]
    BY <1>2 DEF Closed
  <2>2. r.id = q.id /\ r.lo = q.lo /\ r.hi = n + 1
    BY <2>1
  <2> QED
    BY <1>1, <1>2, <2>2 DEF InForce, RangeIn, Follows
<1>3. CASE ~(q.hi = Open /\ q.id \in ids)
  <2>1. r = q
    BY <1>3 DEF Closed
  <2> QED
    BY <1>1, <1>3, <2>1 DEF InForce, RangeIn, Follows
<1> QED
  BY <1>2, <1>3

LEMMA VersionedRanged ==
    ASSUME NEW n \in Nat, NEW rows, Ranged(rows, n),
           \A q \in rows : {"id", "lo", "hi"} \subseteq DOMAIN q,
           NEW ids, NEW new, \A r \in new : r.lo = n + 1 /\ r.hi = Open,
           \A r \in new, q \in new : r.id = q.id => r = q,
           \A r \in new, q \in rows : q.id = r.id /\ q.hi = Open => q.id \in ids
    PROVE  Ranged(Versioned(rows, n + 1, ids, new), n + 1)
<1> DEFINE after == Versioned(rows, n + 1, ids, new)
<1>0. Open \notin Int
  BY ReportsAssumption, Zenon
<1>1. \A r \in after : r \in new \/ \E q \in rows : r = Closed(q, n + 1, ids)
  BY DEF Versioned, Closed
<1> HIDE DEF after
<1>2. \A r \in new : RangeIn(r, n + 1) /\ \A h \in 1..(n + 1) : InForce(r, h) => h = n + 1
  BY <1>0 DEF RangeIn, InForce
<1>3. ASSUME NEW q \in rows, NEW r, r = Closed(q, n + 1, ids)
      PROVE  /\ r.id = q.id /\ RangeIn(r, n + 1)
             /\ \A h \in 1..n : InForce(r, h) <=> InForce(q, h)
             /\ InForce(r, n + 1) <=> q.hi = Open /\ q.id \notin ids
             /\ q.hi = Open => n \in 1..n /\ InForce(q, n)
             /\ q.hi = Open /\ q.id \notin ids => r = q
  <2>1. RangeIn(q, n)
    BY DEF Ranged
  <2>2. q.hi = Open => n \in 1..n
    BY <2>1 DEF RangeIn
  <2>3. {"id", "lo", "hi"} \subseteq DOMAIN q
    OBVIOUS
  <2>4. Follows(r, q, n, ids)
    BY <1>3, <2>1, <2>3, ClosedVersion
  <2> QED
    BY <2>2, <2>4 DEF Follows
<1>4. \A r \in after : RangeIn(r, n + 1)
  BY <1>1, <1>2, <1>3
<1>5. ASSUME NEW r \in after, NEW q \in after, NEW h \in 1..(n + 1),
             r.id = q.id, InForce(r, h), InForce(q, h)
      PROVE  r = q
  <2>1. CASE r \in new /\ q \in new
    BY <1>5, <2>1
  <2>2. ASSUME NEW x \in new, NEW y \in rows, NEW z, z = Closed(y, n + 1, ids),
               x.id = z.id, InForce(x, h), InForce(z, h)
        PROVE  FALSE
    <3>1. h = n + 1
      BY <1>2, <2>2
    <3>2. z.id = y.id /\ y.hi = Open /\ y.id \notin ids
      BY <1>3, <2>2, <3>1
    <3> QED
      BY <2>2, <3>2
  <2>3. ASSUME NEW x \in rows, NEW y \in rows,
               r = Closed(x, n + 1, ids), q = Closed(y, n + 1, ids)
        PROVE  r = q
    <3>1. x.id = y.id
      BY <1>3, <1>5, <2>3
    <3>2. CASE h = n + 1
      <4>1. x = r /\ y = q /\ n \in 1..n /\ InForce(x, n) /\ InForce(y, n)
        BY <1>3, <1>5, <2>3, <3>2
      <4> QED
        BY <3>1, <4>1 DEF Ranged
    <3>3. CASE h \in 1..n
      <4>1. InForce(x, h) /\ InForce(y, h)
        BY <1>3, <1>5, <2>3, <3>3
      <4>2. x = y
        BY <3>1, <3>3, <4>1 DEF Ranged
      <4> QED
        BY <2>3, <4>2
    <3> QED
      BY <3>2, <3>3
  <2>4. CASE r \in new /\ q \notin new
    BY <1>1, <1>5, <2>2, <2>4
  <2>5. CASE r \notin new /\ q \in new
    BY <1>1, <1>5, <2>2, <2>5
  <2>6. CASE r \notin new /\ q \notin new
    BY <1>1, <2>3, <2>6
  <2> QED
    BY <2>1, <2>4, <2>5, <2>6
<1> QED
  BY <1>4, <1>5 DEF Ranged, after

-----------------------------------------------------------------------------
(* What the reports read *)

\* Blocks whose suppliers and claims are written.
SuppliersDone ==
    IF stage \in {"primitives", "params"} \/ "suppliers" \in running THEN height ELSE height + 1

OperatedInv == \A h \in 1..Len(chain) : Operated(chain[h], SuppliersAt(h - 1))

Ends == Int \cup {Open}
SupplierVersions == [id : Suppliers, status : {"Unstaked", "Unstaking", "Staked"}, stake : Nat,
                     lo : Int, hi : Ends]
ConfigVersions == [id : Suppliers \X Services,
                   domain : UNION {{o[s] : s \in DOMAIN o} : o \in Offers},
                   lo : Int, hi : Ends]

\* The version in force at a block is what the chain had then, for every supplier with
\* a stake there is one, and one begins where a block operates on the supplier.
SuppliersRight(rows, n) ==
    /\ rows \subseteq SupplierVersions
    /\ Ranged(rows, n)
    /\ \A r \in rows, h \in 1..n :
          InForce(r, h) => r.status = SuppliersAt(h)[r.id].status
                           /\ r.stake = SuppliersAt(h)[r.id].stake
    /\ \A p \in Suppliers, h \in 1..n :
          /\ SuppliersAt(h)[p].status # "Unstaked" => \E r \in rows : r.id = p /\ InForce(r, h)
          /\ p \in DOMAIN chain[h].ops <=> \E r \in rows : r.id = p /\ r.lo = h

\* While a supplier is not unstaked, the services in force are those of its offer.
ConfigsRight(rows, n) ==
    /\ rows \subseteq ConfigVersions
    /\ Ranged(rows, n)
    /\ \A p \in Suppliers, h \in 1..n :
          SuppliersAt(h)[p].status # "Unstaked" =>
            /\ \A s \in DOMAIN SuppliersAt(h)[p].offer :
                  \E c \in rows : c.id = <<p, s>> /\ InForce(c, h)
            /\ \A c \in rows :
                  c.id[1] = p /\ InForce(c, h) => /\ c.id[2] \in DOMAIN SuppliersAt(h)[p].offer
                                                  /\ c.domain = SuppliersAt(h)[p].offer[c.id[2]]

SettledRow(c, h) == [supplier |-> c[1], service |-> c[2], block |-> h]

SettledRight(rows, n) == rows = UNION {{SettledRow(c, h) : c \in chain[h].settled} : h \in 1..n}

\* What the reports read is right for every block indexSupplier has written: the
\* strengthening the three invariants below need.
ReadInv ==
    /\ OperatedInv
    /\ SuppliersRight(supplierRows, SuppliersDone)
    /\ ConfigsRight(configs, SuppliersDone)
    /\ SettledRight(settledRows, SuppliersDone)

-----------------------------------------------------------------------------

LEMMA SuppliersFrame ==
    ASSUME StageInv, NEW blk \in Blocks, chain' = Append(chain, blk)
    PROVE  \A h \in 0..Len(chain) : SuppliersAt(h)' = SuppliersAt(h)
BY AppendFrame DEF SuppliersAt

\* What an operation leaves of a supplier.
LEMMA AppliedState ==
    ASSUME NEW op \in Operations, NEW s, Possible(op, s), NEW a, a = Applied(op, s),
           "offer" \in DOMAIN s, "status" \in DOMAIN s
    PROVE  /\ op.kind = "stake" => /\ op.offer \in Offers /\ op.stake \in Nat
                                   /\ a = [status |-> "Staked", stake |-> op.stake, offer |-> op.offer]
           /\ op.kind # "stake" /\ a.status # "Unstaked" => s.status # "Unstaked" /\ a.offer = s.offer
           /\ a.status = "Unstaked" => s.status = "Unstaking" /\ op.kind \in {"end", "slashEnd"}
           /\ op.kind = "slashEnd" => SlashAtEnd
<1>1. CASE op \in [kind : {"stake"}, stake : StakeAmounts, offer : Offers]
  <2>1. op.kind = "stake" /\ op.stake \in StakeAmounts /\ op.offer \in Offers
    BY <1>1
  <2>2. a = [status |-> "Staked", stake |-> op.stake, offer |-> op.offer]
    BY <2>1 DEF Applied
  <2>3. StakeAmounts \subseteq Nat \ {0}
    BY BlockPipelineAssumption, Zenon
  <2>4. op.stake \in Nat
    BY <2>1, <2>3
  <2> QED
    BY <2>1, <2>2, <2>4
<1>2. CASE op \in [kind : {"unstake", "slash", "end"}
                          \cup IF SlashAtEnd THEN {"slashEnd"} ELSE {}]
  <2>1. op.kind \in {"unstake", "slash", "end", "slashEnd"} /\ (op.kind = "slashEnd" => SlashAtEnd)
    BY <1>2
  <2>2. CASE op.kind = "unstake"
    <3>1. a = [s EXCEPT !.status = "Unstaking"] /\ s.status = "Staked"
      BY <2>2 DEF Applied, Possible
    <3>2. a.status = "Unstaking" /\ a.offer = s.offer
      BY <3>1
    <3> QED
      BY <2>2, <3>1, <3>2
  <2>3. CASE op.kind = "slash"
    <3>1. a = [s EXCEPT !.stake = s.stake - 1] /\ s.status # "Unstaked"
      BY <2>3 DEF Applied, Possible
    <3>2. a.status = s.status /\ a.offer = s.offer
      BY <3>1
    <3> QED
      BY <2>3, <3>1, <3>2
  <2>4. CASE op.kind \in {"end", "slashEnd"}
    <3>1. a = Off /\ s.status = "Unstaking"
      BY <2>4 DEF Applied, Possible
    <3> QED
      BY <2>1, <2>4, <3>1 DEF Off
  <2> QED
    BY <2>1, <2>2, <2>3, <2>4
<1> QED
  BY <1>1, <1>2 DEF Operations

\* A block's suppliers are those before it, but for what it operates on.
LEMMA OperatedSuppliers ==
    ASSUME StageInv, OperatedInv, NEW h \in 1..Len(chain)
    PROVE  /\ \A p \in Suppliers \ DOMAIN chain[h].ops : SuppliersAt(h)[p] = SuppliersAt(h - 1)[p]
           /\ DOMAIN chain[h].ops \subseteq Suppliers
           /\ \A p \in DOMAIN chain[h].ops :
                /\ chain[h].ops[p] \in Operations
                /\ Possible(chain[h].ops[p], SuppliersAt(h - 1)[p])
                /\ SuppliersAt(h)[p] = Applied(chain[h].ops[p], SuppliersAt(h - 1)[p])
<1>1. chain[h] \in Blocks
  BY DEF StageInv
<1>2. chain[h].ops \in OperationSets
  BY <1>1 DEF Blocks
<1>3. PICK P \in SUBSET Suppliers : chain[h].ops \in [P -> Operations]
  BY <1>2 DEF OperationSets
<1>4. Operated(chain[h], SuppliersAt(h - 1))
  BY DEF OperatedInv
<1>5. SuppliersAt(h) = After(SuppliersAt(h - 1), chain[h].ops)
  BY <1>4 DEF Operated, SuppliersAt
<1> QED
  BY <1>3, <1>4, <1>5 DEF After, Operated

-----------------------------------------------------------------------------
(* What indexSupplier leaves: the tables are right for one more block *)

NewSuppliers(b) ==
    {SupplierRow(p, chain[b].suppliers[p].status, chain[b].suppliers[p].stake, b) :
        p \in DOMAIN chain[b].ops}

LEMMA SuppliersWritten ==
    ASSUME StageInv, OperatedInv, NEW n \in Nat, n + 1 \in 1..Len(chain),
           NEW rows, SuppliersRight(rows, n), NEW ids, ids = DOMAIN chain[n + 1].ops,
           NEW after, after = Versioned(rows, n + 1, ids, NewSuppliers(n + 1))
    PROVE  SuppliersRight(after, n + 1)
<1> DEFINE new == NewSuppliers(n + 1)
<1>1. /\ \A p \in Suppliers \ ids : SuppliersAt(n + 1)[p] = SuppliersAt(n)[p]
      /\ ids \subseteq Suppliers
  <2>1. (n + 1) - 1 = n
    OBVIOUS
  <2> QED
    BY <2>1, OperatedSuppliers
<1>2. SuppliersAt(n + 1) = chain[n + 1].suppliers
  BY DEF SuppliersAt
<1>3. SuppliersAt(n + 1) \in [Suppliers -> SupplierState]
  BY SuppliersTyped
<1>4. \A r \in new : /\ r \in SupplierVersions /\ r.id \in ids
                     /\ r.lo = n + 1 /\ r.hi = Open
                     /\ r.status = SuppliersAt(n + 1)[r.id].status
                     /\ r.stake = SuppliersAt(n + 1)[r.id].stake
  <2> SUFFICES ASSUME NEW r \in new
               PROVE  /\ r \in SupplierVersions /\ r.id \in ids
                      /\ r.lo = n + 1 /\ r.hi = Open
                      /\ r.status = SuppliersAt(n + 1)[r.id].status
                      /\ r.stake = SuppliersAt(n + 1)[r.id].stake
    OBVIOUS
  <2>1. PICK p \in ids : r = SupplierRow(p, SuppliersAt(n + 1)[p].status,
                                         SuppliersAt(n + 1)[p].stake, n + 1)
    BY <1>2 DEF NewSuppliers
  <2>2. PICK s \in SupplierState : s = SuppliersAt(n + 1)[p]
    BY <1>1, <1>3
  <2>3. s.status \in {"Unstaked", "Unstaking", "Staked"} /\ s.stake \in Nat
    BY DEF SupplierState
  <2>4. r = [id |-> p, status |-> s.status, stake |-> s.stake, lo |-> n + 1, hi |-> Open]
    BY <2>1, <2>2 DEF SupplierRow
  <2>5. p \in Suppliers /\ n + 1 \in Int /\ Open \in Ends
    BY <1>1 DEF Ends
  <2> QED
    BY <2>2, <2>3, <2>4, <2>5 DEF SupplierVersions
<1>5. ASSUME NEW p \in ids PROVE \E r \in new : r.id = p
  <2>1. PICK r : r = SupplierRow(p, chain[n + 1].suppliers[p].status,
                                 chain[n + 1].suppliers[p].stake, n + 1)
    OBVIOUS
  <2>2. r \in new
    BY <2>1 DEF NewSuppliers
  <2>3. r.id = p
    BY <2>1 DEF SupplierRow
  <2> QED
    BY <2>2, <2>3
<1>6. \A r \in new, q \in new : r.id = q.id => r = q
  <2> DEFINE row(p) == SupplierRow(p, chain[n + 1].suppliers[p].status,
                                   chain[n + 1].suppliers[p].stake, n + 1)
  <2>1. \A r \in new : \E p : r = row(p)
    BY DEF NewSuppliers
  <2>2. \A p : row(p).id = p
    BY DEF SupplierRow
  <2> HIDE DEF new, row
  <2> QED
    BY <2>1, <2>2
<1> HIDE DEF new
<1>7. Ranged(rows, n) /\ rows \subseteq SupplierVersions
  BY DEF SuppliersRight
<1>8. \A q \in rows : {"id", "lo", "hi"} \subseteq DOMAIN q
  BY <1>7 DEF SupplierVersions
<1>9. after = Versioned(rows, n + 1, ids, new)
  BY DEF new
<1>10. Ranged(after, n + 1)
  BY <1>4, <1>6, <1>7, <1>8, <1>9, VersionedRanged
<1>11. ASSUME NEW q \in rows, NEW r, r = Closed(q, n + 1, ids)
       PROVE  /\ r \in SupplierVersions /\ r.id = q.id /\ r.lo = q.lo
              /\ r.status = q.status /\ r.stake = q.stake
              /\ \A h \in 1..n : InForce(r, h) <=> InForce(q, h)
              /\ InForce(r, n + 1) <=> q.hi = Open /\ q.id \notin ids
              /\ q.hi = Open => InForce(q, n)
              /\ n \in 1..n
  <2>1. RangeIn(q, n)
    BY <1>7 DEF Ranged
  <2>0. {"id", "lo", "hi"} \subseteq DOMAIN q
    BY <1>8
  <2>2. /\ r.id = q.id /\ r.lo = q.lo
        /\ \A h \in 1..n : InForce(r, h) <=> InForce(q, h)
        /\ InForce(r, n + 1) <=> q.hi = Open /\ q.id \notin ids
        /\ q.hi = Open => InForce(q, n)
    <3>1. Follows(r, q, n, ids)
      BY <1>11, <2>0, <2>1, ClosedVersion
    <3> QED
      BY <3>1 DEF Follows
  <2>3. n \in 1..n
    BY <2>1 DEF RangeIn
  <2>4. r \in SupplierVersions /\ r.status = q.status /\ r.stake = q.stake
    <3>1. q \in SupplierVersions
      BY <1>7
    <3>2. CASE r = q
      BY <3>1, <3>2
    <3>3. CASE r = [q EXCEPT !.hi = n + 1]
      <4>1. PICK hi \in Ends : hi = n + 1
        BY DEF Ends
      <4>2. r = [q EXCEPT !.hi = hi]
        BY <3>3, <4>1
      <4> HIDE DEF Ends
      <4> QED
        BY <3>1, <4>2 DEF SupplierVersions
    <3> QED
      BY <1>11, <3>2, <3>3 DEF Closed
  <2> QED
    BY <2>2, <2>3, <2>4
<1>12. /\ \A r \in after : r \in new \/ \E q \in rows : r = Closed(q, n + 1, ids)
       /\ \A q \in rows : Closed(q, n + 1, ids) \in after
       /\ new \subseteq after
  BY <1>9 DEF Versioned, Closed
<1>13. \A r \in new, h \in 1..(n + 1) : InForce(r, h) <=> h = n + 1
  BY <1>4 DEF InForce
<1>14. after \subseteq SupplierVersions
  BY <1>4, <1>11, <1>12
<1>15. ASSUME NEW r \in after, NEW h \in 1..(n + 1), InForce(r, h)
       PROVE  r.status = SuppliersAt(h)[r.id].status /\ r.stake = SuppliersAt(h)[r.id].stake
  <2>1. CASE r \in new
    BY <1>4, <1>13, <1>15, <2>1
  <2>2. CASE r \notin new
    <3>1. PICK q \in rows : r = Closed(q, n + 1, ids)
      BY <1>12, <2>2
    <3>2. r.id = q.id /\ r.status = q.status /\ r.stake = q.stake /\ q.id \in Suppliers
      BY <1>7, <1>11, <3>1 DEF SupplierVersions
    <3>3. CASE h \in 1..n
      <4>1. InForce(q, h)
        BY <1>11, <1>15, <3>1, <3>3
      <4> QED
        BY <3>2, <3>3, <4>1 DEF SuppliersRight
    <3>4. CASE h = n + 1
      <4>1. q.id \notin ids /\ InForce(q, n) /\ n \in 1..n
        BY <1>11, <1>15, <3>1, <3>4
      <4>2. q.status = SuppliersAt(n)[q.id].status /\ q.stake = SuppliersAt(n)[q.id].stake
        BY <4>1 DEF SuppliersRight
      <4> QED
        BY <1>1, <3>2, <3>4, <4>1, <4>2
    <3> QED
      BY <3>3, <3>4
  <2> QED
    BY <2>1, <2>2
<1>16. ASSUME NEW p \in Suppliers, NEW h \in 1..(n + 1), SuppliersAt(h)[p].status # "Unstaked"
       PROVE  \E r \in after : r.id = p /\ InForce(r, h)
  <2>1. CASE h \in 1..n
    <3>1. PICK q \in rows : q.id = p /\ InForce(q, h)
      BY <1>16, <2>1 DEF SuppliersRight
    <3>2. PICK r \in after : r = Closed(q, n + 1, ids)
      BY <1>12
    <3> QED
      BY <1>11, <2>1, <3>1, <3>2
  <2>2. CASE h = n + 1 /\ p \in ids
    BY <1>5, <1>12, <1>13, <2>2
  <2>3. CASE h = n + 1 /\ p \notin ids
    <3>1. SuppliersAt(n)[p].status # "Unstaked"
      BY <1>1, <1>16, <2>3
    <3>2. n # 0
      <4>1. SUFFICES ASSUME n = 0 PROVE FALSE
        OBVIOUS
      <4>2. SuppliersAt(n)[p] = Off
        BY <4>1 DEF SuppliersAt
      <4> QED
        BY <3>1, <4>2 DEF Off
    <3>3. n \in 1..n
      BY <3>2
    <3>4. PICK q \in rows : q.id = p /\ InForce(q, n)
      BY <3>1, <3>3 DEF SuppliersRight
    <3>5. RangeIn(q, n) /\ q.hi = Open
      BY <1>7, <3>4, ReportsAssumption DEF Ranged, RangeIn, InForce
    <3>6. PICK r \in after : r = Closed(q, n + 1, ids)
      BY <1>12
    <3> QED
      BY <1>11, <2>3, <3>4, <3>5, <3>6
  <2> QED
    BY <2>1, <2>2, <2>3
<1>17. ASSUME NEW p \in Suppliers, NEW h \in 1..(n + 1)
       PROVE  p \in DOMAIN chain[h].ops <=> \E r \in after : r.id = p /\ r.lo = h
  <2>0. \A r \in after : (r.lo = n + 1 /\ r \in new) \/ r.lo \in 1..n
    <3>1. \A q \in rows : q.lo \in 1..n
      BY <1>7 DEF Ranged, RangeIn
    <3> QED
      BY <1>4, <1>11, <1>12, <3>1
  <2>1. CASE h \in 1..n
    <3>1. p \in DOMAIN chain[h].ops <=> \E q \in rows : q.id = p /\ q.lo = h
      BY <2>1 DEF SuppliersRight
    <3>2. ASSUME NEW q \in rows, q.id = p, q.lo = h PROVE \E r \in after : r.id = p /\ r.lo = h
      <4>1. PICK r \in after : r = Closed(q, n + 1, ids)
        BY <1>12
      <4> QED
        BY <1>11, <3>2, <4>1
    <3>3. ASSUME NEW r \in after, r.id = p, r.lo = h PROVE \E q \in rows : q.id = p /\ q.lo = h
      <4>1. r \notin new
        BY <1>4, <2>1, <3>3
      <4>2. PICK q \in rows : r = Closed(q, n + 1, ids)
        BY <1>12, <4>1
      <4> QED
        BY <1>11, <3>3, <4>2
    <3> QED
      BY <3>1, <3>2, <3>3
  <2>2. CASE h = n + 1
    <3>1. ASSUME p \in ids PROVE \E r \in after : r.id = p /\ r.lo = h
      BY <1>4, <1>5, <1>12, <2>2, <3>1
    <3>2. ASSUME NEW r \in after, r.id = p, r.lo = h PROVE p \in ids
      BY <1>4, <2>0, <2>2, <3>2
    <3> QED
      BY <2>2, <3>1, <3>2
  <2> QED
    BY <2>1, <2>2
<1> QED
  BY <1>10, <1>14, <1>15, <1>16, <1>17 DEF SuppliersRight

Staking(b) == {p \in DOMAIN chain[b].ops : chain[b].ops[p].kind = "stake"}

NewConfigs(b) ==
    UNION {{[id |-> <<p, s>>, domain |-> chain[b].ops[p].offer[s], lo |-> b, hi |-> Open] :
              s \in DOMAIN chain[b].ops[p].offer} : p \in Staking(b)}

HeldIn(rows, p) == {r \in rows : r.hi = Open /\ r.id[1] = p}

LEMMA ConfigsWritten ==
    ASSUME StageInv, OperatedInv, NEW n \in Nat, n + 1 \in 1..Len(chain),
           NEW rows, ConfigsRight(rows, n),
           NEW ids, ids = UNION {{r.id : r \in HeldIn(rows, p)} : p \in Staking(n + 1)},
           NEW after, after = Versioned(rows, n + 1, ids, NewConfigs(n + 1))
    PROVE  ConfigsRight(after, n + 1)
<1> DEFINE new == NewConfigs(n + 1)
           offer(p, h) == SuppliersAt(h)[p].offer
<1>0. (n + 1) - 1 = n /\ n \in 0..Len(chain) /\ n + 1 \in 0..Len(chain)
  OBVIOUS
<1>1. SuppliersAt(n + 1) \in [Suppliers -> SupplierState] /\ SuppliersAt(n) \in [Suppliers -> SupplierState]
  BY <1>0, SuppliersTyped
<1>2. ASSUME NEW p \in Staking(n + 1)
      PROVE  /\ p \in Suppliers
             /\ offer(p, n + 1) = chain[n + 1].ops[p].offer
             /\ offer(p, n + 1) \in Offers
             /\ DOMAIN offer(p, n + 1) \subseteq Services
  <2>1. PICK op \in Operations : /\ op = chain[n + 1].ops[p] /\ Possible(op, SuppliersAt(n)[p])
                                 /\ SuppliersAt(n + 1)[p] = Applied(op, SuppliersAt(n)[p])
                                 /\ op.kind = "stake" /\ p \in Suppliers
    BY <1>0, OperatedSuppliers DEF Staking
  <2>2. SuppliersAt(n)[p] \in SupplierState
    BY <1>1, <2>1
  <2>3. "offer" \in DOMAIN SuppliersAt(n)[p] /\ "status" \in DOMAIN SuppliersAt(n)[p]
    BY <2>2 DEF SupplierState
  <2>4. op.offer \in Offers /\ Applied(op, SuppliersAt(n)[p])
                                  = [status |-> "Staked", stake |-> op.stake, offer |-> op.offer]
    BY <2>1, <2>3, AppliedState
  <2>5. offer(p, n + 1) = op.offer
    BY <2>1, <2>4
  <2>6. DOMAIN op.offer \subseteq Services
    BY <2>4, BlockPipelineAssumption
  <2> QED
    BY <2>1, <2>4, <2>5, <2>6
<1>3. ASSUME NEW p \in Suppliers \ Staking(n + 1), SuppliersAt(n + 1)[p].status # "Unstaked"
      PROVE  SuppliersAt(n)[p].status # "Unstaked" /\ offer(p, n + 1) = offer(p, n) /\ n # 0
  <2>1. SuppliersAt(n)[p].status # "Unstaked" /\ offer(p, n + 1) = offer(p, n)
    <3>1. CASE p \in DOMAIN chain[n + 1].ops
      <4>1. PICK op \in Operations : /\ op = chain[n + 1].ops[p] /\ Possible(op, SuppliersAt(n)[p])
                                     /\ SuppliersAt(n + 1)[p] = Applied(op, SuppliersAt(n)[p])
                                     /\ op.kind # "stake"
        BY <1>0, <3>1, OperatedSuppliers DEF Staking
      <4>2. SuppliersAt(n)[p] \in SupplierState
        BY <1>1
      <4>3. "offer" \in DOMAIN SuppliersAt(n)[p] /\ "status" \in DOMAIN SuppliersAt(n)[p]
        BY <4>2 DEF SupplierState
      <4> QED
        BY <1>3, <4>1, <4>3, AppliedState
    <3>2. CASE p \notin DOMAIN chain[n + 1].ops
      <4>1. SuppliersAt(n + 1)[p] = SuppliersAt(n)[p]
        BY <1>0, <3>2, OperatedSuppliers
      <4> QED
        BY <1>3, <4>1
    <3> QED
      BY <3>1, <3>2
  <2>2. SUFFICES ASSUME n = 0 PROVE FALSE
    BY <2>1
  <2>3. SuppliersAt(n)[p] = Off
    BY <2>2 DEF SuppliersAt
  <2> QED
    BY <2>1, <2>3 DEF Off
<1>4. \A r \in new : \E p \in Staking(n + 1) : \E s \in DOMAIN offer(p, n + 1) :
        r = [id |-> <<p, s>>, domain |-> offer(p, n + 1)[s], lo |-> n + 1, hi |-> Open]
  BY <1>2 DEF NewConfigs
<1>5. ASSUME NEW p \in Staking(n + 1), NEW s \in DOMAIN offer(p, n + 1)
      PROVE  [id |-> <<p, s>>, domain |-> offer(p, n + 1)[s], lo |-> n + 1, hi |-> Open] \in new
  BY <1>2 DEF NewConfigs
<1> HIDE DEF new, offer
<1>6. \A r \in new : /\ r \in ConfigVersions /\ r.id[1] \in Staking(n + 1)
                     /\ r.lo = n + 1 /\ r.hi = Open
                     /\ r.id[2] \in DOMAIN offer(r.id[1], n + 1)
                     /\ r.domain = offer(r.id[1], n + 1)[r.id[2]]
  <2> SUFFICES ASSUME NEW r \in new
               PROVE  /\ r \in ConfigVersions /\ r.id[1] \in Staking(n + 1)
                      /\ r.lo = n + 1 /\ r.hi = Open
                      /\ r.id[2] \in DOMAIN offer(r.id[1], n + 1)
                      /\ r.domain = offer(r.id[1], n + 1)[r.id[2]]
    OBVIOUS
  <2>1. PICK p \in Staking(n + 1) : \E s \in DOMAIN offer(p, n + 1) :
          r = [id |-> <<p, s>>, domain |-> offer(p, n + 1)[s], lo |-> n + 1, hi |-> Open]
    BY <1>4
  <2>2. PICK s \in DOMAIN offer(p, n + 1) :
          r = [id |-> <<p, s>>, domain |-> offer(p, n + 1)[s], lo |-> n + 1, hi |-> Open]
    BY <2>1
  <2>3. PICK o \in Offers : o = offer(p, n + 1)
    BY <1>2 DEF offer
  <2>4. p \in Suppliers /\ s \in Services
    BY <1>2 DEF offer
  <2>5. o[s] \in UNION {{e[t] : t \in DOMAIN e} : e \in Offers}
    BY <2>3
  <2>6. n + 1 \in Int /\ Open \in Ends
    BY DEF Ends
  <2>7. r \in ConfigVersions
    BY <2>2, <2>3, <2>4, <2>5, <2>6 DEF ConfigVersions
  <2>8. r.id = <<p, s>> /\ r.domain = offer(p, n + 1)[s] /\ r.lo = n + 1 /\ r.hi = Open
    BY <2>2
  <2>9. r.id[1] = p /\ r.id[2] = s
    BY <2>8
  <2> QED
    BY <2>7, <2>8, <2>9
<1>7. \A r \in new, q \in new : r.id = q.id => r = q
  <2> DEFINE row(p, s) == [id |-> <<p, s>>, domain |-> offer(p, n + 1)[s], lo |-> n + 1, hi |-> Open]
  <2>1. \A r \in new : \E p, s : r = row(p, s)
    BY <1>4
  <2>2. \A p, s : row(p, s).id = <<p, s>>
    OBVIOUS
  <2> HIDE DEF row
  <2> QED
    BY <2>1, <2>2
<1>8. Ranged(rows, n) /\ rows \subseteq ConfigVersions
  BY DEF ConfigsRight
<1>9. \A q \in rows : {"id", "lo", "hi"} \subseteq DOMAIN q
  BY <1>8 DEF ConfigVersions
<1>10. \A q \in rows : q.hi = Open => (q.id \in ids <=> q.id[1] \in Staking(n + 1))
  BY DEF HeldIn
<1>11. \A r \in new, q \in rows : q.id = r.id /\ q.hi = Open => q.id \in ids
  BY <1>6, <1>10
<1>12. after = Versioned(rows, n + 1, ids, new)
  BY DEF new
<1>13. Ranged(after, n + 1)
  <2>1. \A r \in new : r.lo = n + 1 /\ r.hi = Open
    BY <1>6
  <2> QED
    BY <1>7, <1>8, <1>9, <1>11, <1>12, <2>1, VersionedRanged
<1>14. ASSUME NEW q \in rows, NEW r, r = Closed(q, n + 1, ids)
       PROVE  /\ r \in ConfigVersions /\ r.id = q.id /\ r.domain = q.domain
              /\ \A h \in 1..n : InForce(r, h) <=> InForce(q, h)
              /\ InForce(r, n + 1) <=> q.hi = Open /\ q.id[1] \notin Staking(n + 1)
              /\ q.hi = Open => InForce(q, n)
              /\ n \in 1..n
  <2>1. RangeIn(q, n)
    BY <1>8 DEF Ranged
  <2>0. {"id", "lo", "hi"} \subseteq DOMAIN q
    BY <1>9
  <2>2. Follows(r, q, n, ids)
    BY <1>14, <2>0, <2>1, ClosedVersion
  <2>3. n \in 1..n
    BY <2>1 DEF RangeIn
  <2>4. r \in ConfigVersions /\ r.domain = q.domain
    <3>1. q \in ConfigVersions
      BY <1>8
    <3>2. CASE r = q
      BY <3>1, <3>2
    <3>3. CASE r = [q EXCEPT !.hi = n + 1]
      <4>1. PICK hi \in Ends : hi = n + 1
        BY DEF Ends
      <4>2. r = [q EXCEPT !.hi = hi]
        BY <3>3, <4>1
      <4> HIDE DEF Ends
      <4> QED
        BY <3>1, <4>2 DEF ConfigVersions
    <3> QED
      BY <1>14, <3>2, <3>3 DEF Closed
  <2> QED
    BY <1>10, <2>2, <2>3, <2>4 DEF Follows
<1>15. /\ \A r \in after : r \in new \/ \E q \in rows : r = Closed(q, n + 1, ids)
       /\ \A q \in rows : Closed(q, n + 1, ids) \in after
       /\ new \subseteq after
  BY <1>12 DEF Versioned, Closed
<1>16. \A r \in new, h \in 1..(n + 1) : InForce(r, h) <=> h = n + 1
  BY <1>6 DEF InForce
<1>17. after \subseteq ConfigVersions
  BY <1>6, <1>14, <1>15
<1>18. ASSUME NEW p \in Suppliers, NEW h \in 1..(n + 1), SuppliersAt(h)[p].status # "Unstaked",
              NEW s \in DOMAIN offer(p, h)
       PROVE  \E c \in after : c.id = <<p, s>> /\ InForce(c, h)
  <2>1. ASSUME NEW q \in rows, q.id = <<p, s>>, InForce(Closed(q, n + 1, ids), h)
        PROVE  \E c \in after : c.id = <<p, s>> /\ InForce(c, h)
    <3>1. PICK c \in after : c = Closed(q, n + 1, ids)
      BY <1>15
    <3>2. c.id = q.id
      BY <1>14, <3>1
    <3>3. InForce(c, h)
      BY <2>1, <3>1
    <3> QED
      BY <2>1, <3>2, <3>3
  <2>2. CASE h \in 1..n
    <3>1. PICK q \in rows : q.id = <<p, s>> /\ InForce(q, h)
      BY <1>18, <2>2 DEF ConfigsRight, offer
    <3> QED
      BY <1>14, <2>1, <2>2, <3>1
  <2>3. CASE h = n + 1 /\ p \in Staking(n + 1)
    <3>1. PICK c \in new : c = [id |-> <<p, s>>, domain |-> offer(p, n + 1)[s],
                                lo |-> n + 1, hi |-> Open]
      BY <1>5, <2>3
    <3>2. InForce(c, h) /\ c.id = <<p, s>>
      BY <1>16, <2>3, <3>1
    <3> QED
      BY <1>15, <3>2
  <2>4. CASE h = n + 1 /\ p \notin Staking(n + 1)
    <3>1. SuppliersAt(n)[p].status # "Unstaked" /\ s \in DOMAIN offer(p, n) /\ n \in 1..n
      BY <1>3, <1>18, <2>4
    <3>2. PICK q \in rows : q.id = <<p, s>> /\ InForce(q, n)
      BY <3>1 DEF ConfigsRight, offer
    <3>3. RangeIn(q, n) /\ q.hi = Open
      BY <1>8, <3>2, ReportsAssumption DEF Ranged, RangeIn, InForce
    <3>4. q.id[1] \notin Staking(n + 1)
      BY <2>4, <3>2
    <3>5. InForce(Closed(q, n + 1, ids), n + 1)
      BY <1>14, <3>3, <3>4
    <3> QED
      BY <2>1, <2>4, <3>2, <3>5
  <2>5. h \in 1..n \/ h = n + 1
    OBVIOUS
  <2> QED
    BY <2>2, <2>3, <2>4, <2>5, Zenon
<1>19. ASSUME NEW p \in Suppliers, NEW h \in 1..(n + 1), SuppliersAt(h)[p].status # "Unstaked",
              NEW c \in after, c.id[1] = p, InForce(c, h)
       PROVE  c.id[2] \in DOMAIN offer(p, h) /\ c.domain = offer(p, h)[c.id[2]]
  <2>1. CASE c \in new
    BY <1>6, <1>16, <1>19, <2>1
  <2>2. CASE c \notin new
    <3>1. PICK q \in rows : c = Closed(q, n + 1, ids)
      BY <1>15, <2>2
    <3>2. c.id = q.id /\ c.domain = q.domain
      BY <1>14, <3>1
    <3>3. CASE h \in 1..n
      <4>1. InForce(q, h)
        BY <1>14, <1>19, <3>1, <3>3
      <4> QED
        BY <1>19, <3>2, <3>3, <4>1 DEF ConfigsRight, offer
    <3>4. CASE h = n + 1
      <4>1. InForce(q, n) /\ q.id[1] \notin Staking(n + 1) /\ n \in 1..n
        BY <1>14, <1>19, <3>1, <3>4
      <4>2. SuppliersAt(n)[p].status # "Unstaked" /\ offer(p, n + 1) = offer(p, n)
        BY <1>3, <1>19, <3>2, <3>4, <4>1
      <4>3. q.id[2] \in DOMAIN offer(p, n) /\ q.domain = offer(p, n)[q.id[2]]
        BY <1>19, <3>2, <4>1, <4>2 DEF ConfigsRight, offer
      <4> QED
        BY <3>2, <3>4, <4>2, <4>3
    <3> QED
      BY <3>3, <3>4
  <2> QED
    BY <2>1, <2>2
<1> QED
  BY <1>13, <1>17, <1>18, <1>19 DEF ConfigsRight, offer

LEMMA ReadInitial == Init => ReadInv
<1> SUFFICES ASSUME Init PROVE ReadInv
  OBVIOUS
<1>1. chain = <<>> /\ height = 0 /\ stage = "primitives"
      /\ supplierRows = {} /\ configs = {} /\ settledRows = {}
  BY DEF Init, ReportsInit
<1>2. SuppliersDone = 0
  BY <1>1 DEF SuppliersDone
<1>3. Len(chain) = 0
  BY <1>1
<1>4. SuppliersRight({}, 0) /\ ConfigsRight({}, 0) /\ SettledRight({}, 0)
  BY DEF SuppliersRight, ConfigsRight, SettledRight, Ranged
<1>5. OperatedInv
  BY <1>3 DEF OperatedInv
<1> QED
  BY <1>1, <1>2, <1>4, <1>5 DEF ReadInv

\* What holds of some rows and the blocks up to n, holds after a step that leaves them.
LEMMA ReadMoved ==
    ASSUME NEW n \in Nat,
           \A h \in 0..n : SuppliersAt(h)' = SuppliersAt(h), \A h \in 1..n : chain'[h] = chain[h],
           NEW rows, SuppliersRight(rows, n), supplierRows' = rows,
           NEW services, ConfigsRight(services, n), configs' = services,
           NEW claims, SettledRight(claims, n), settledRows' = claims,
           SuppliersDone' = n
    PROVE  /\ SuppliersRight(supplierRows, SuppliersDone)'
           /\ ConfigsRight(configs, SuppliersDone)'
           /\ SettledRight(settledRows, SuppliersDone)'
<1>1. \A h \in 1..n : SuppliersAt(h)' = SuppliersAt(h)
  OBVIOUS
<1>2. SuppliersRight(supplierRows, SuppliersDone)'
  BY <1>1 DEF SuppliersRight
<1>3. ConfigsRight(configs, SuppliersDone)'
  <2>1. /\ services \subseteq ConfigVersions
        /\ Ranged(services, n)
    BY DEF ConfigsRight
  <2>2. ASSUME NEW p \in Suppliers, NEW h \in 1..n, SuppliersAt(h)'[p].status # "Unstaked"
        PROVE  /\ \A s \in DOMAIN SuppliersAt(h)'[p].offer :
                    \E c \in services : c.id = <<p, s>> /\ InForce(c, h)
               /\ \A c \in services :
                    c.id[1] = p /\ InForce(c, h) =>
                        /\ c.id[2] \in DOMAIN SuppliersAt(h)'[p].offer
                        /\ c.domain = SuppliersAt(h)'[p].offer[c.id[2]]
    <3>1. PICK state : state = SuppliersAt(h)[p]
      OBVIOUS
    <3>2. SuppliersAt(h)'[p] = state
      BY <1>1, <3>1
    <3>3. state.status # "Unstaked"
      BY <2>2, <3>2
    <3>4. /\ \A s \in DOMAIN state.offer : \E c \in services : c.id = <<p, s>> /\ InForce(c, h)
          /\ \A c \in services : c.id[1] = p /\ InForce(c, h) =>
                c.id[2] \in DOMAIN state.offer /\ c.domain = state.offer[c.id[2]]
      BY <3>1, <3>3 DEF ConfigsRight
    <3> QED
      BY <3>2, <3>4
  <2> QED
    BY <2>1, <2>2 DEF ConfigsRight
<1>4. SettledRight(settledRows, SuppliersDone)'
  <2>1. \A h \in 1..n : {SettledRow(c, h) : c \in chain'[h].settled}
                         = {SettledRow(c, h) : c \in chain[h].settled}
    OBVIOUS
  <2>2. UNION {{SettledRow(c, h) : c \in chain'[h].settled} : h \in 1..n}
        = UNION {{SettledRow(c, h) : c \in chain[h].settled} : h \in 1..n}
    BY <2>1
  <2> QED
    BY <2>2 DEF SettledRight
<1> QED
  BY <1>2, <1>3, <1>4

LEMMA SettledWritten ==
    ASSUME NEW n \in Nat, NEW rows, SettledRight(rows, n),
           NEW after, after = rows \cup {SettledRow(c, n + 1) : c \in chain[n + 1].settled}
    PROVE  SettledRight(after, n + 1)
<1>1. 1..(n + 1) = (1..n) \cup {n + 1}
  OBVIOUS
<1> QED
  BY <1>1 DEF SettledRight

\* What indexSupplier writes of a block.
Indexes(b) ==
    /\ supplierRows' = Versioned(supplierRows, b, DOMAIN chain[b].ops, NewSuppliers(b))
    /\ configs' = Versioned(configs, b, UNION {{r.id : r \in HeldIn(configs, p)} : p \in Staking(b)},
                            NewConfigs(b))
    /\ settledRows' = settledRows \cup {SettledRow(c, b) : c \in chain[b].settled}

LEMMA SaveIndexes ==
    ASSUME NEW b, SaveSuppliers(b, chain[b].ops, chain[b].suppliers), SaveSettled(b, chain[b].settled)
    PROVE  Indexes(b)
<1>1. supplierRows' = Versioned(supplierRows, b, DOMAIN chain[b].ops, NewSuppliers(b))
  BY DEF SaveSuppliers, NewSuppliers
<1>2. configs' = Versioned(configs, b, UNION {{r.id : r \in HeldIn(configs, p)} : p \in Staking(b)},
                           NewConfigs(b))
  BY DEF SaveSuppliers, NewConfigs, HeldIn, Held, Staking
<1>3. settledRows' = settledRows \cup {SettledRow(c, b) : c \in chain[b].settled}
  BY DEF SaveSettled, SettledRow
<1> QED
  BY <1>1, <1>2, <1>3 DEF Indexes

\* A block without data for it: the rows are what it would have written.
LEMMA NothingIndexes ==
    ASSUME NEW b, chain[b].ops = <<>>, chain[b].settled = {},
           supplierRows' = supplierRows, configs' = configs, settledRows' = settledRows
    PROVE  Indexes(b)
<1>1. DOMAIN chain[b].ops = {}
  OBVIOUS
<1>2. NewSuppliers(b) = {} /\ Staking(b) = {} /\ NewConfigs(b) = {}
  BY <1>1 DEF NewSuppliers, Staking, NewConfigs
<1>3. \A rows : Versioned(rows, b, {}, {}) = rows
  BY DEF Versioned
<1>4. UNION {{r.id : r \in HeldIn(configs, p)} : p \in Staking(b)} = {}
  BY <1>2
<1> QED
  BY <1>1, <1>2, <1>3, <1>4 DEF Indexes

LEMMA IndexedRight ==
    ASSUME StageInv, ReadInv, SuppliersDone = height, Len(chain) = height + 1, Indexes(height + 1),
           chain' = chain, SuppliersDone' = height + 1
    PROVE  /\ SuppliersRight(supplierRows, SuppliersDone)'
           /\ ConfigsRight(configs, SuppliersDone)'
           /\ SettledRight(settledRows, SuppliersDone)'
<1>1. PICK n \in Nat : n = height
  BY DEF StageInv
<1>2. n + 1 \in 1..Len(chain)
  BY <1>1
<1>3. OperatedInv /\ SuppliersRight(supplierRows, n) /\ ConfigsRight(configs, n)
      /\ SettledRight(settledRows, n)
  BY <1>1 DEF ReadInv
<1>4. PICK rows, services, claims :
        supplierRows' = rows /\ configs' = services /\ settledRows' = claims
  OBVIOUS
<1>5. SuppliersRight(rows, n + 1)
  <2>1. PICK ids : ids = DOMAIN chain[n + 1].ops
    OBVIOUS
  <2>2. PICK old : old = supplierRows
    OBVIOUS
  <2>3. rows = Versioned(old, n + 1, ids, NewSuppliers(n + 1))
    BY <1>1, <1>4, <2>1, <2>2 DEF Indexes
  <2> QED
    BY <1>2, <1>3, <2>1, <2>2, <2>3, SuppliersWritten
<1>6. ConfigsRight(services, n + 1)
  <2>1. PICK old : old = configs
    OBVIOUS
  <2>2. PICK ids : ids = UNION {{r.id : r \in HeldIn(old, p)} : p \in Staking(n + 1)}
    OBVIOUS
  <2>3. services = Versioned(old, n + 1, ids, NewConfigs(n + 1))
    BY <1>1, <1>4, <2>1, <2>2 DEF Indexes
  <2> QED
    BY <1>2, <1>3, <2>1, <2>2, <2>3, ConfigsWritten
<1>7. SettledRight(claims, n + 1)
  <2>1. claims = settledRows \cup {SettledRow(c, n + 1) : c \in chain[n + 1].settled}
    BY <1>1, <1>4 DEF Indexes
  <2> QED
    BY <1>3, <2>1, SettledWritten
<1>8. \A h : SuppliersAt(h)' = SuppliersAt(h)
  BY DEF SuppliersAt
<1>9. n + 1 \in Nat /\ SuppliersDone' = n + 1
  BY <1>1
<1> QED
  BY <1>4, <1>5, <1>6, <1>7, <1>8, <1>9, ReadMoved

LEMMA OperatedKept ==
    ASSUME StageInv, OperatedInv, [Next]_vars
    PROVE  OperatedInv'
<1>1. CASE Produce
  <2>1. PICK blk \in Blocks : /\ chain' = Append(chain, blk)
                              /\ Operated(blk, SuppliersAt(Len(chain)))
    BY <1>1, Produced
  <2>2. /\ Len(chain') = Len(chain) + 1 /\ Len(chain) \in Nat
        /\ \A h \in 1..Len(chain) : chain'[h] = chain[h]
        /\ chain'[Len(chain) + 1] = blk
    BY <2>1, AppendFrame
  <2>3. \A h \in 0..Len(chain) : SuppliersAt(h)' = SuppliersAt(h)
    BY <2>1, SuppliersFrame
  <2>4. ASSUME NEW h \in 1..Len(chain)' PROVE Operated(chain[h], SuppliersAt(h - 1))'
    <3>1. CASE h = Len(chain) + 1
      <4>1. h - 1 = Len(chain) /\ h - 1 \in 0..Len(chain)
        BY <2>2, <3>1
      <4> QED
        BY <2>1, <2>2, <2>3, <3>1, <4>1
    <3>2. CASE h \in 1..Len(chain)
      <4>1. h - 1 \in 0..Len(chain)
        BY <2>2, <3>2
      <4>2. Operated(chain[h], SuppliersAt(h - 1))
        BY <3>2 DEF OperatedInv
      <4> QED
        BY <2>2, <2>3, <3>2, <4>1, <4>2
    <3> QED
      BY <2>2, <3>1, <3>2
  <2> QED
    BY <2>4 DEF OperatedInv
<1>2. CASE chain' = chain
  <2>1. \A h : SuppliersAt(h)' = SuppliersAt(h)
    BY <1>2 DEF SuppliersAt
  <2> QED
    BY <1>2, <2>1 DEF OperatedInv
<1> QED
  BY <1>1, <1>2 DEF Next, vars, IndexPrimitives, IndexParams, IndexMigrationAccounts,
     IndexApplications, IndexSupplier, Returns, GenerateReports, Commit, RegenerateReports

LEMMA ReadKept == StageInv /\ ReadInv /\ [Next]_vars => ReadInv'
<1> SUFFICES ASSUME StageInv, ReadInv, [Next]_vars PROVE ReadInv'
  OBVIOUS
<1>0. Len(chain) \in Nat /\ height \in Nat /\ SuppliersDone \in Nat /\ OperatedInv'
  <2>1. OperatedInv'
    BY OperatedKept DEF ReadInv
  <2> QED
    BY <2>1, LenProperties DEF StageInv, SuppliersDone
<1>1. ASSUME UNCHANGED <<chain, supplierRows, configs, settledRows>>, SuppliersDone' = SuppliersDone
      PROVE  ReadInv'
  <2>1. \A h : SuppliersAt(h)' = SuppliersAt(h)
    BY <1>1 DEF SuppliersAt
  <2>2. PICK n \in Nat : n = SuppliersDone
    BY <1>0
  <2>3. /\ SuppliersRight(supplierRows, n) /\ ConfigsRight(configs, n)
        /\ SettledRight(settledRows, n)
    BY <2>2 DEF ReadInv
  <2>4. PICK rows, services, claims :
          supplierRows = rows /\ configs = services /\ settledRows = claims
    OBVIOUS
  <2>5. supplierRows' = rows /\ configs' = services /\ settledRows' = claims /\ SuppliersDone' = n
        /\ \A h \in 1..n : chain'[h] = chain[h]
    BY <1>1, <2>2, <2>4
  <2>6. SuppliersRight(rows, n) /\ ConfigsRight(services, n) /\ SettledRight(claims, n)
    BY <2>3, <2>4
  <2>7. /\ SuppliersRight(supplierRows, SuppliersDone)'
        /\ ConfigsRight(configs, SuppliersDone)'
        /\ SettledRight(settledRows, SuppliersDone)'
    BY <2>1, <2>5, <2>6, ReadMoved
  <2> QED
    BY <1>0, <2>7 DEF ReadInv
<1>2. CASE Produce
  <2>1. PICK blk \in Blocks : /\ chain' = Append(chain, blk)
                              /\ height = Len(chain) /\ stage = "primitives"
    BY <1>2, Produced
  <2>2. SuppliersDone = height /\ SuppliersDone' = height
    BY <1>2, <2>1 DEF SuppliersDone, Produce
  <2>3. PICK n \in Nat : n = height
    BY <1>0
  <2>4. \A h \in 0..n : SuppliersAt(h)' = SuppliersAt(h)
    BY <2>1, <2>3, SuppliersFrame
  <2>5. \A h \in 1..n : chain'[h] = chain[h]
    BY <2>1, <2>3, AppendFrame
  <2>6. PICK rows, services, claims :
          supplierRows = rows /\ configs = services /\ settledRows = claims
    OBVIOUS
  <2>7. supplierRows' = rows /\ configs' = services /\ settledRows' = claims /\ SuppliersDone' = n
    BY <1>2, <2>2, <2>3, <2>6 DEF Produce, reportVars
  <2>8. SuppliersRight(rows, n) /\ ConfigsRight(services, n) /\ SettledRight(claims, n)
    BY <2>2, <2>3, <2>6 DEF ReadInv
  <2>9. /\ SuppliersRight(supplierRows, SuppliersDone)'
        /\ ConfigsRight(configs, SuppliersDone)'
        /\ SettledRight(settledRows, SuppliersDone)'
    BY <2>4, <2>5, <2>7, <2>8, ReadMoved
  <2> QED
    BY <1>0, <2>9 DEF ReadInv
<1>3. CASE IndexPrimitives
  <2>1. UNCHANGED <<chain, supplierRows, configs, settledRows>> /\ SuppliersDone' = SuppliersDone
    BY <1>3 DEF IndexPrimitives, reportVars, SuppliersDone
  <2> QED
    BY <1>1, <2>1
<1>4. CASE IndexParams
  <2>1. /\ UNCHANGED <<chain, supplierRows, configs, settledRows>>
        /\ SuppliersDone = height /\ Len(chain) = height + 1
        /\ running' = Called /\ stage' = "handlers" /\ height' = height
    BY <1>4 DEF IndexParams, reportVars, SuppliersDone, StageInv
  <2>2. CASE "suppliers" \in Called
    <3>1. SuppliersDone' = SuppliersDone
      BY <2>1, <2>2 DEF SuppliersDone
    <3> QED
      BY <1>1, <2>1, <3>1
  <2>3. CASE "suppliers" \notin Called
    <3>1. chain[height + 1].ops = <<>> /\ chain[height + 1].settled = {}
      <4>1. B = height + 1
        BY <2>1 DEF B, Tip
      <4>2. ~(\/ OfKind(Data.claims, "supplier") # {} \/ Data.ops # <<>> \/ Data.settled # {})
        BY <2>3 DEF Called
      <4> QED
        BY <4>1, <4>2 DEF Data
    <3>2. Indexes(height + 1)
      BY <2>1, <3>1, NothingIndexes
    <3>3. SuppliersDone' = height + 1
      BY <2>1, <2>3 DEF SuppliersDone
    <3> QED
      BY <1>0, <2>1, <3>2, <3>3, IndexedRight DEF ReadInv
  <2> QED
    BY <2>2, <2>3
<1>5. CASE IndexSupplier
  <2>1. /\ "suppliers" \in running /\ running' = running \ {"suppliers"}
        /\ UNCHANGED <<chain, height, stage>>
    BY <1>5 DEF IndexSupplier, Returns
  <2>2. stage = "handlers" /\ Len(chain) = height + 1 /\ SuppliersDone = height
    BY <2>1 DEF StageInv, SuppliersDone
  <2>3. SuppliersDone' = height + 1
    BY <2>1, <2>2 DEF SuppliersDone
  <2>4. Indexes(height + 1)
    <3>1. B = height + 1 /\ Data = chain[height + 1]
      BY <2>2 DEF B, Tip, Data
    <3>2. SaveSuppliers(B, Data.ops, Data.suppliers) /\ SaveSettled(B, Data.settled)
      BY <1>5 DEF IndexSupplier
    <3>3. PICK b : b = height + 1
      OBVIOUS
    <3>4. SaveSuppliers(b, chain[b].ops, chain[b].suppliers) /\ SaveSettled(b, chain[b].settled)
      BY <3>1, <3>2, <3>3
    <3> QED
      BY <3>3, <3>4, SaveIndexes
  <2> QED
    BY <1>0, <2>1, <2>2, <2>3, <2>4, IndexedRight DEF ReadInv
<1>6. CASE IndexMigrationAccounts \/ IndexApplications
  <2>1. UNCHANGED <<chain, height, stage, supplierRows, configs, settledRows>>
        /\ ("suppliers" \in running' <=> "suppliers" \in running)
    BY <1>6 DEF IndexMigrationAccounts, IndexApplications, Returns, reportVars
  <2>2. SuppliersDone' = SuppliersDone
    BY <2>1 DEF SuppliersDone
  <2> QED
    BY <1>1, <2>1, <2>2
<1>7. CASE GenerateReports
  <2>1. UNCHANGED <<chain, height, running, supplierRows, configs, settledRows>>
        /\ stage = "handlers" /\ stage' = "commit"
    BY <1>7 DEF GenerateReports, HandleAddBlockReports
  <2>2. SuppliersDone' = SuppliersDone
    BY <2>1 DEF SuppliersDone
  <2> QED
    BY <1>1, <2>1, <2>2
<1>8. CASE Commit
  <2>1. UNCHANGED <<chain, running, supplierRows, configs, settledRows>>
        /\ stage = "commit" /\ stage' = "primitives" /\ running = {} /\ height' = Len(chain)
        /\ Len(chain) = height + 1
    BY <1>8 DEF Commit, reportVars, B, Tip, StageInv
  <2>2. SuppliersDone' = SuppliersDone
    BY <2>1 DEF SuppliersDone
  <2> QED
    BY <1>1, <2>1, <2>2
<1>9. CASE RegenerateReports
  <2>1. UNCHANGED <<chain, height, stage, running, supplierRows, configs, settledRows>>
    BY <1>9 DEF RegenerateReports, UpdateBlockReportsRange
  <2>2. SuppliersDone' = SuppliersDone
    BY <2>1 DEF SuppliersDone
  <2> QED
    BY <1>1, <2>1, <2>2
<1>10. CASE UNCHANGED vars
  <2>1. UNCHANGED <<chain, height, stage, running, supplierRows, configs, settledRows>>
    BY <1>10 DEF vars, reportVars
  <2>2. SuppliersDone' = SuppliersDone
    BY <2>1 DEF SuppliersDone
  <2> QED
    BY <1>1, <2>1, <2>2
<1> QED
  BY <1>2, <1>3, <1>4, <1>5, <1>6, <1>7, <1>8, <1>9, <1>10 DEF Next

-----------------------------------------------------------------------------
(* What the reports tell of it: the rows they count are the chain's suppliers *)

\* As many rows as suppliers, with the same stakes, when each row is in force for one.
LEMMA RowsMatched ==
    ASSUME StageInv, IsFiniteSet(Suppliers), NEW n \in 0..Len(chain), SuppliersRight(supplierRows, n),
           NEW h \in 1..n, NEW S \in SUBSET Suppliers, NEW T \in SUBSET supplierRows,
           \A r \in T : InForce(r, h) /\ r.id \in S, \A p \in S : \E r \in T : r.id = p
    PROVE  Cardinality(T) = Cardinality(S) /\ Stakes(T) = StakeOf(h, S)
<1> DEFINE k == [r \in T |-> r.id]
           f == [p \in S |-> SuppliersAt(h)[p].stake]
           g == [r \in T |-> r.stake]
<1>1. IsFiniteSet(S)
  BY FS_Subset
<1>2. k \in [T -> S] /\ \A p \in S : \E r \in T : k[r] = p
  OBVIOUS
<1>3. ASSUME NEW t \in T, NEW u \in T, k[t] = k[u] PROVE t = u
  <2>1. t.id = u.id /\ InForce(t, h) /\ InForce(u, h) /\ t \in supplierRows /\ u \in supplierRows
    BY <1>3
  <2> QED
    BY <2>1 DEF SuppliersRight, Ranged
<1>4. \A p \in S : f[p] \in Int
  <2>1. SuppliersAt(h) \in [Suppliers -> SupplierState]
    BY SuppliersTyped
  <2> QED
    BY <2>1 DEF SupplierState
<1>5. \A r \in T : g[r] = f[k[r]]
  BY DEF SuppliersRight
<1>6. k \in Bijection(T, S)
  <2> HIDE DEF k
  <2> QED
    BY <1>2, <1>3, IsBijection
<1>7. IsFiniteSet(T) /\ Cardinality(T) = Cardinality(S)
  BY <1>1, <1>6, Matched
<1>8. Sum(g, T) = Sum(f, S)
  <2> HIDE DEF k, f, g
  <2> QED
    BY <1>1, <1>4, <1>5, <1>6, MatchedSum
<1>9. \A r \in T : g[r] = r.stake
  BY DEF g
<1> HIDE DEF g
<1>10. Stakes(T) = Sum(g, T)
  BY <1>7, <1>9, StakesIsSum
<1>11. \A p \in S : f[p] = SuppliersAt(h)[p].stake
  BY DEF f
<1> HIDE DEF f
<1>12. StakeOf(h, S) = Sum(f, S)
  BY <1>1, <1>11, StakeOfIsSum
<1> QED
  BY <1>7, <1>8, <1>10, <1>12

LEMMA StatusMatched ==
    ASSUME StageInv, IsFiniteSet(Suppliers), NEW n \in 0..Len(chain), SuppliersRight(supplierRows, n),
           NEW h \in 1..n, NEW status \in {"Staked", "Unstaking"}
    PROVE  /\ Cardinality(WithStatus(status, h)) = Cardinality(OnChain(h, status))
           /\ Stakes(WithStatus(status, h)) = StakeOf(h, OnChain(h, status))
<1>1. PICK S \in SUBSET Suppliers : S = OnChain(h, status)
  BY DEF OnChain
<1>2. PICK T \in SUBSET supplierRows : T = WithStatus(status, h)
  BY DEF WithStatus
<1>3. \A r \in T : InForce(r, h) /\ r.id \in S
  BY <1>1, <1>2 DEF WithStatus, OnChain, SuppliersRight, SupplierVersions
<1>4. \A p \in S : \E r \in T : r.id = p
  <2> SUFFICES ASSUME NEW p \in S PROVE \E r \in T : r.id = p
    OBVIOUS
  <2>1. p \in Suppliers /\ SuppliersAt(h)[p].status = status /\ status # "Unstaked"
    BY <1>1 DEF OnChain
  <2>2. PICK r \in supplierRows : r.id = p /\ InForce(r, h)
    BY <2>1 DEF SuppliersRight
  <2>3. r.status = status
    BY <2>1, <2>2 DEF SuppliersRight
  <2> QED
    BY <1>2, <2>2, <2>3 DEF WithStatus
<1>5. Cardinality(T) = Cardinality(S) /\ Stakes(T) = StakeOf(h, S)
  BY <1>3, <1>4, RowsMatched
<1> QED
  BY <1>1, <1>2, <1>5

\* The latest row of an earlier block is the one that was in force in the block before.
LEMMA StakeBeforeIs ==
    ASSUME StageInv, NEW n \in 0..Len(chain), SuppliersRight(supplierRows, n),
           NEW h \in 1..n, NEW r \in supplierRows, SuppliersAt(h - 1)[r.id].status # "Unstaked"
    PROVE  StakeBefore(r, h) = SuppliersAt(h - 1)[r.id].stake
<1> DEFINE earlier == {q \in supplierRows : q.id = r.id /\ q.lo < h}
           last == CHOOSE q \in earlier : \A o \in earlier : o.lo <= q.lo
<1>0. Open \notin Int /\ r.id \in Suppliers /\ \A q \in supplierRows : RangeIn(q, n)
  BY ReportsAssumption DEF SuppliersRight, SupplierVersions, Ranged
<1>1. h - 1 \in 1..n
  <2>1. SUFFICES ASSUME h - 1 = 0 PROVE FALSE
    OBVIOUS
  <2>2. SuppliersAt(h - 1)[r.id] = Off
    BY <1>0, <2>1 DEF SuppliersAt
  <2> QED
    BY <2>2 DEF Off
<1>2. PICK q \in supplierRows : q.id = r.id /\ InForce(q, h - 1)
  BY <1>0, <1>1 DEF SuppliersRight
<1>3. q \in earlier
  BY <1>0, <1>1, <1>2 DEF InForce, RangeIn
<1>4. ASSUME NEW o \in earlier, q.lo <= o.lo PROVE o = q
  <2>1. o \in supplierRows /\ o.id = q.id /\ o.lo \in 1..n /\ o.lo <= h - 1
    BY <1>0, <1>1, <1>2 DEF RangeIn
  <2>2. InForce(o, o.lo) /\ InForce(q, o.lo)
    BY <1>0, <1>1, <1>2, <1>4, <2>1 DEF InForce, RangeIn
  <2> QED
    BY <2>1, <2>2 DEF SuppliersRight, Ranged
<1>5. \A o \in earlier : o.lo \in Int
  BY <1>0 DEF RangeIn
<1>6. \A o \in earlier : o.lo <= q.lo
  BY <1>3, <1>4, <1>5
<1>7. last \in earlier /\ \A o \in earlier : o.lo <= last.lo
  <2>1. \E x \in earlier : \A o \in earlier : o.lo <= x.lo
    BY <1>3, <1>6
  <2> HIDE DEF earlier
  <2> QED
    BY <2>1
<1>8. last = q
  <2> HIDE DEF earlier, last
  <2> QED
    BY <1>3, <1>4, <1>7
<1>9. StakeBefore(r, h) = last.stake
  BY <1>3 DEF StakeBefore
<1>10. q.stake = SuppliersAt(h - 1)[r.id].stake
  BY <1>1, <1>2 DEF SuppliersRight
<1> QED
  BY <1>8, <1>9, <1>10

LEMMA EndedMatched ==
    ASSUME StageInv, OperatedInv, IsFiniteSet(Suppliers), SlashAtEnd = FALSE,
           NEW n \in 0..Len(chain), SuppliersRight(supplierRows, n), NEW h \in 1..n
    PROVE  Cardinality(UnstakedHere(h)) = Cardinality(Ended(h)) /\ Returned(h) = StakeReturned(h)
<1>1. PICK S : S = Ended(h)
  OBVIOUS
<1>2. PICK T : T = UnstakedHere(h)
  OBVIOUS
<1> DEFINE k == [r \in T |-> r.id]
           f == [p \in S |-> SuppliersAt(h - 1)[p].stake
                                - IF chain[h].ops[p].kind = "slashEnd" THEN 1 ELSE 0]
           g == [r \in T |-> StakeBefore(r, h)]
<1>3. h \in 1..Len(chain) /\ h - 1 \in 0..Len(chain)
  OBVIOUS
<1>4. SuppliersAt(h - 1) \in [Suppliers -> SupplierState]
  BY <1>3, SuppliersTyped
<1>5. S \subseteq Suppliers /\ IsFiniteSet(S)
  <2>1. S \in SUBSET Suppliers
    BY <1>1 DEF Ended, OnChain
  <2> QED
    BY <2>1, FS_Subset
\* An operation on a supplier that leaves it unstaked ends its unbonding.
<1>6. ASSUME NEW p \in DOMAIN chain[h].ops
      PROVE  /\ p \in Suppliers
             /\ SuppliersAt(h)[p].status = "Unstaked" => SuppliersAt(h - 1)[p].status # "Unstaked"
             /\ chain[h].ops[p].kind # "slashEnd"
  <2>1. PICK op \in Operations : /\ op = chain[h].ops[p] /\ Possible(op, SuppliersAt(h - 1)[p])
                                 /\ SuppliersAt(h)[p] = Applied(op, SuppliersAt(h - 1)[p])
                                 /\ p \in Suppliers
    BY <1>3, OperatedSuppliers
  <2>2. SuppliersAt(h - 1)[p] \in SupplierState
    BY <1>4, <2>1
  <2>3. "offer" \in DOMAIN SuppliersAt(h - 1)[p] /\ "status" \in DOMAIN SuppliersAt(h - 1)[p]
    BY <2>2 DEF SupplierState
  <2>4. /\ SuppliersAt(h)[p].status = "Unstaked" => SuppliersAt(h - 1)[p].status = "Unstaking"
        /\ op.kind = "slashEnd" => SlashAtEnd
    BY <2>1, <2>3, AppliedState
  <2> QED
    BY <2>1, <2>4
<1>7. \A p \in S : p \in DOMAIN chain[h].ops
  BY <1>1, <1>3, <1>5, OperatedSuppliers DEF Ended, OnChain
<1>8. \A r \in T : /\ r \in supplierRows /\ r.id \in DOMAIN chain[h].ops
                   /\ InForce(r, h) /\ r.status = "Unstaked" /\ r.id \in Suppliers
  <2> SUFFICES ASSUME NEW r \in T
               PROVE  /\ r \in supplierRows /\ r.id \in DOMAIN chain[h].ops
                      /\ InForce(r, h) /\ r.status = "Unstaked" /\ r.id \in Suppliers
    OBVIOUS
  <2>1. r \in supplierRows /\ r.status = "Unstaked" /\ r.lo = h
    BY <1>2 DEF UnstakedHere
  <2>2. r.id \in Suppliers /\ RangeIn(r, n)
    BY <2>1 DEF SuppliersRight, SupplierVersions, Ranged
  <2>3. r.id \in DOMAIN chain[h].ops
    BY <2>1, <2>2 DEF SuppliersRight
  <2>4. InForce(r, h)
    BY <2>1, <2>2 DEF InForce, RangeIn
  <2> QED
    BY <2>1, <2>2, <2>3, <2>4
<1>9. \A r \in T : r.id \in S
  <2> SUFFICES ASSUME NEW r \in T PROVE r.id \in S
    OBVIOUS
  <2>1. SuppliersAt(h)[r.id].status = "Unstaked"
    BY <1>8 DEF SuppliersRight
  <2> QED
    BY <1>1, <1>6, <1>8, <2>1 DEF Ended, OnChain
<1>10. \A p \in S : \E r \in T : r.id = p
  <2> SUFFICES ASSUME NEW p \in S PROVE \E r \in T : r.id = p
    OBVIOUS
  <2>1. PICK r \in supplierRows : r.id = p /\ r.lo = h
    BY <1>5, <1>7 DEF SuppliersRight
  <2>2. RangeIn(r, n)
    BY DEF SuppliersRight, Ranged
  <2>3. InForce(r, h)
    BY <2>1, <2>2 DEF InForce, RangeIn
  <2>4. r.status = "Unstaked"
    BY <1>1, <2>1, <2>3 DEF SuppliersRight, Ended, OnChain
  <2> QED
    BY <1>2, <2>1, <2>4 DEF UnstakedHere
<1>11. k \in [T -> S] /\ \A p \in S : \E r \in T : k[r] = p
  BY <1>9, <1>10
<1>12. ASSUME NEW t \in T, NEW u \in T, k[t] = k[u] PROVE t = u
  <2>1. t.id = u.id
    BY <1>12
  <2> QED
    BY <1>8, <2>1 DEF SuppliersRight, Ranged
<1>13. \A p \in S : f[p] = SuppliersAt(h - 1)[p].stake /\ f[p] \in Int
  BY <1>4, <1>5, <1>6, <1>7 DEF SupplierState
<1>14. \A r \in T : g[r] = f[k[r]]
  <2> SUFFICES ASSUME NEW r \in T PROVE g[r] = f[k[r]]
    OBVIOUS
  <2>1. r.id \in S /\ SuppliersAt(h - 1)[r.id].status # "Unstaked"
    BY <1>1, <1>9 DEF Ended
  <2>2. StakeBefore(r, h) = SuppliersAt(h - 1)[r.id].stake
    BY <1>8, <2>1, StakeBeforeIs
  <2>3. f[r.id] = SuppliersAt(h - 1)[r.id].stake
    BY <1>13, <2>1
  <2> QED
    BY <2>2, <2>3
<1>15. /\ \A r \in T : g[r] = StakeBefore(r, h)
       /\ \A p \in S : f[p] = SuppliersAt(h - 1)[p].stake
                                 - IF chain[h].ops[p].kind = "slashEnd" THEN 1 ELSE 0
  OBVIOUS
<1> HIDE DEF k, f, g
<1>16. k \in Bijection(T, S)
  BY <1>11, <1>12, IsBijection
<1>17. IsFiniteSet(T) /\ Cardinality(T) = Cardinality(S)
  BY <1>5, <1>16, Matched
<1>18. Sum(g, T) = Sum(f, S)
  BY <1>5, <1>13, <1>14, <1>16, MatchedSum
<1>19. Returned(h) = Sum(g, T)
  <2>1. MapThenSumSet(LAMBDA r : StakeBefore(r, h), T) = Sum(g, T)
    BY <1>15, <1>17, ReturnedIsSum
  <2> QED
    BY <1>2, <2>1 DEF Returned
<1>20. StakeReturned(h) = Sum(f, S)
  <2>1. PICK before, ops : before = SuppliersAt(h - 1) /\ ops = chain[h].ops
    OBVIOUS
  <2>2. \A p \in S : f[p] = before[p].stake - IF ops[p].kind = "slashEnd" THEN 1 ELSE 0
    BY <1>15, <2>1
  <2>3. EndedStakes(before, ops, S) = Sum(f, S)
    BY <1>5, <2>2, StakeReturnedIsSum
  <2>4. StakeReturned(h) = EndedStakes(SuppliersAt(h - 1), chain[h].ops, Ended(h))
    BY DEF StakeReturned, EndedStakes
  <2> QED
    BY <1>1, <2>1, <2>3, <2>4
<1> QED
  BY <1>1, <1>2, <1>17, <1>18, <1>19, <1>20

LEMMA SettledAt ==
    ASSUME NEW n \in Nat, SettledRight(settledRows, n), NEW h \in 1..n
    PROVE  ClaimsSettledAt(h) = {SettledRow(c, h) : c \in chain[h].settled}
<1>1. ASSUME NEW r \in ClaimsSettledAt(h) PROVE r \in {SettledRow(c, h) : c \in chain[h].settled}
  <2>1. r.block = h
    BY DEF ClaimsSettledAt
  <2>2. PICK b \in 1..n : r \in {SettledRow(c, b) : c \in chain[b].settled}
    BY DEF ClaimsSettledAt, SettledRight
  <2>3. PICK c \in chain[b].settled : r = SettledRow(c, b)
    BY <2>2
  <2>4. r.block = b
    BY <2>3 DEF SettledRow
  <2> QED
    BY <2>1, <2>3, <2>4
<1>2. ASSUME NEW c \in chain[h].settled PROVE SettledRow(c, h) \in ClaimsSettledAt(h)
  <2>1. SettledRow(c, h) \in settledRows
    BY DEF SettledRight
  <2>2. SettledRow(c, h).block = h
    BY DEF SettledRow
  <2> QED
    BY <2>1, <2>2 DEF ClaimsSettledAt
<1> QED
  BY <1>1, <1>2

\* Claims of the chain, as pairs.
LEMMA SettledPairs ==
    ASSUME StageInv, IsFiniteSet(Suppliers), IsFiniteSet(Services), NEW h \in 1..Len(chain)
    PROVE  /\ chain[h].settled \subseteq Suppliers \X Services
           /\ \A S \in SUBSET chain[h].settled : IsFiniteSet(S)
<1>1. chain[h] \in Blocks
  BY DEF StageInv
<1>2. chain[h].settled \subseteq Suppliers \X Services
  BY <1>1 DEF Blocks
<1>3. IsFiniteSet(Suppliers \X Services)
  BY FS_Product
<1>4. ASSUME NEW S \in SUBSET chain[h].settled PROVE IsFiniteSet(S)
  <2>1. S \in SUBSET (Suppliers \X Services)
    BY <1>2
  <2> QED
    BY <1>3, <2>1, FS_Subset
<1> QED
  BY <1>2, <1>4

LEMMA ClaimsMatched ==
    ASSUME StageInv, IsFiniteSet(Suppliers), IsFiniteSet(Services), NEW h \in 1..Len(chain),
           NEW S \in SUBSET chain[h].settled, NEW T, T = {SettledRow(c, h) : c \in S}
    PROVE  Cardinality(T) = Cardinality(S) /\ RelaysOf(T) = ServiceRelays(S)
<1> DEFINE k == [r \in T |-> <<r.supplier, r.service>>]
           f == [c \in S |-> Relays[c[2]]]
           g == [r \in T |-> Relays[r.service]]
<1>1. IsFiniteSet(S) /\ S \subseteq Suppliers \X Services
  BY SettledPairs
<1>2. \A c \in S : c = <<c[1], c[2]>> /\ c[2] \in Services
  BY <1>1
<1>3. \A c \in S : SettledRow(c, h).supplier = c[1] /\ SettledRow(c, h).service = c[2]
  BY DEF SettledRow
<1>4. ASSUME NEW r \in T PROVE \E c \in S : r = SettledRow(c, h) /\ k[r] = c
  <2>1. PICK c \in S : r = SettledRow(c, h)
    OBVIOUS
  <2>2. k[r] = <<c[1], c[2]>>
    BY <1>3, <2>1
  <2> QED
    BY <1>2, <2>1, <2>2
<1>5. ASSUME NEW c \in S PROVE \E r \in T : k[r] = c
  <2>1. PICK r \in T : r = SettledRow(c, h)
    OBVIOUS
  <2>2. k[r] = <<c[1], c[2]>>
    BY <1>3, <2>1
  <2> QED
    BY <1>2, <2>2
<1>6. k \in [T -> S]
  BY <1>4
<1>7. ASSUME NEW t \in T, NEW u \in T, k[t] = k[u] PROVE t = u
  BY <1>4, <1>7
<1>8. Relays \in [Services -> Nat \ {0}]
  BY ReportsAssumption, Zenon
<1>9. \A c \in S : f[c] \in Int
  BY <1>2, <1>8
<1>10. \A r \in T : g[r] = f[k[r]]
  <2> SUFFICES ASSUME NEW r \in T PROVE g[r] = f[k[r]]
    OBVIOUS
  <2>1. PICK c \in S : r = SettledRow(c, h) /\ k[r] = c
    BY <1>4
  <2>2. r.service = c[2]
    BY <1>3, <2>1
  <2> QED
    BY <2>1, <2>2
<1>11. (\A c \in S : f[c] = Relays[c[2]]) /\ (\A r \in T : g[r] = Relays[r.service])
  OBVIOUS
<1> HIDE DEF k, f, g
<1>12. k \in Bijection(T, S)
  BY <1>5, <1>6, <1>7, IsBijection
<1>13. IsFiniteSet(T) /\ Cardinality(T) = Cardinality(S)
  BY <1>1, <1>12, Matched
<1>14. Sum(g, T) = Sum(f, S)
  BY <1>1, <1>9, <1>10, <1>12, MatchedSum
<1>15. RelaysOf(T) = Sum(g, T)
  BY <1>11, <1>13, RelaysIsSum
<1>16. ServiceRelays(S) = Sum(f, S)
  BY <1>1, <1>11, ServiceRelaysIsSum
<1> QED
  BY <1>13, <1>14, <1>15, <1>16

-----------------------------------------------------------------------------
(* Reports of blocks *)

\* The hypothesis of the theorems about reports: the chain has a number of suppliers
\* and of services, as sums need.
FewSuppliers == IsFiniteSet(Suppliers) /\ IsFiniteSet(Services)

\* Blocks whose reports are computed.
ReportsDone == IF stage = "commit" THEN height + 1 ELSE height

ChainReport(h) ==
    [block |-> h,
     staked |-> Cardinality(OnChain(h, "Staked")),
     stakedTokens |-> StakeOf(h, OnChain(h, "Staked")),
     unstaking |-> Cardinality(OnChain(h, "Unstaking")),
     unstakingTokens |-> StakeOf(h, OnChain(h, "Unstaking")),
     unstaked |-> Cardinality(Ended(h)),
     unstakedTokens |-> StakeReturned(h),
     relays |-> ServiceRelays(chain[h].settled)]

\* Each block reported has one report, which is the chain's.
ReportsInv ==
    /\ {r.block : r \in blockReports} = 1..ReportsDone
    /\ \A r \in blockReports : r = ChainReport(r.block)

LEMMA ReportIs ==
    ASSUME StageInv, ReadInv, FewSuppliers, SlashAtEnd = FALSE, NEW h \in 1..SuppliersDone
    PROVE  BlockReport(h) = ChainReport(h)
<1>1. PICK n \in 0..Len(chain) : n = SuppliersDone
  BY DEF SuppliersDone, StageInv, Handlers
<1>2. OperatedInv /\ SuppliersRight(supplierRows, n) /\ SettledRight(settledRows, n)
  BY <1>1 DEF ReadInv
<1>3. IsFiniteSet(Suppliers) /\ IsFiniteSet(Services) /\ h \in 1..n /\ h \in 1..Len(chain) /\ n \in Nat
  BY <1>1 DEF FewSuppliers
<1>4. /\ Cardinality(WithStatus("Staked", h)) = Cardinality(OnChain(h, "Staked"))
      /\ Stakes(WithStatus("Staked", h)) = StakeOf(h, OnChain(h, "Staked"))
  BY <1>2, <1>3, StatusMatched
<1>5. /\ Cardinality(WithStatus("Unstaking", h)) = Cardinality(OnChain(h, "Unstaking"))
      /\ Stakes(WithStatus("Unstaking", h)) = StakeOf(h, OnChain(h, "Unstaking"))
  BY <1>2, <1>3, StatusMatched
<1>6. Cardinality(UnstakedHere(h)) = Cardinality(Ended(h)) /\ Returned(h) = StakeReturned(h)
  BY <1>2, <1>3, EndedMatched
<1>7. RelaysOf(ClaimsSettledAt(h)) = ServiceRelays(chain[h].settled)
  <2>1. PICK S \in SUBSET chain[h].settled : S = chain[h].settled
    OBVIOUS
  <2>2. PICK T : T = {SettledRow(c, h) : c \in S}
    OBVIOUS
  <2>3. RelaysOf(T) = ServiceRelays(S)
    BY <1>3, <2>2, ClaimsMatched
  <2>4. ClaimsSettledAt(h) = T
    BY <1>2, <1>3, <2>1, <2>2, SettledAt
  <2> QED
    BY <2>1, <2>3, <2>4
<1> QED
  BY <1>4, <1>5, <1>6, <1>7 DEF BlockReport, ChainReport

\* The chain's part in a report is that of the blocks up to it.
LEMMA ChainReportFrame ==
    ASSUME NEW h, h \in Nat \ {0}, SuppliersAt(h)' = SuppliersAt(h), SuppliersAt(h - 1)' = SuppliersAt(h - 1),
           chain'[h] = chain[h]
    PROVE  ChainReport(h)' = ChainReport(h)
<1>1. OnChain(h, "Staked")' = OnChain(h, "Staked") /\ OnChain(h, "Unstaking")' = OnChain(h, "Unstaking")
  BY DEF OnChain
<1>2. Ended(h)' = Ended(h)
  BY DEF Ended, OnChain
<1>3. StakeReturned(h)' = StakeReturned(h)
  <2>1. StakeReturned(h) = EndedStakes(SuppliersAt(h - 1), chain[h].ops, Ended(h))
    BY DEF StakeReturned, EndedStakes
  <2>2. StakeReturned(h)' = EndedStakes(SuppliersAt(h - 1), chain[h].ops, Ended(h))'
    BY DEF StakeReturned, EndedStakes
  <2> QED
    BY <1>2, <2>1, <2>2
<1>4. \A S : StakeOf(h, S)' = StakeOf(h, S)
  BY DEF StakeOf, MapThenSumSet, MapThenFoldSet
<1>5. ServiceRelays(chain[h].settled)' = ServiceRelays(chain[h].settled)
  BY DEF ServiceRelays, MapThenSumSet, MapThenFoldSet
<1> QED
  BY <1>1, <1>2, <1>3, <1>4, <1>5 DEF ChainReport

\* The chain of the blocks reported does not change.
LEMMA ReportedFrame ==
    ASSUME StageInv, [Next]_vars, NEW h \in 1..height + 1, h <= Len(chain)
    PROVE  /\ SuppliersAt(h)' = SuppliersAt(h) /\ SuppliersAt(h - 1)' = SuppliersAt(h - 1)
           /\ chain'[h] = chain[h]
<1>1. Len(chain) \in Nat /\ height \in Nat
  BY LenProperties DEF StageInv
<1>2. h \in 1..Len(chain) /\ h \in 0..Len(chain) /\ h - 1 \in 0..Len(chain)
  BY <1>1
<1>3. CASE Produce
  <2>1. PICK blk \in Blocks : chain' = Append(chain, blk)
    BY <1>3, Produced
  <2> QED
    BY <1>2, <2>1, AppendFrame, SuppliersFrame
<1>4. CASE chain' = chain
  BY <1>4 DEF SuppliersAt
<1> QED
  BY <1>3, <1>4 DEF Next, vars, IndexPrimitives, IndexParams, IndexMigrationAccounts,
     IndexApplications, IndexSupplier, Returns, GenerateReports, Commit, RegenerateReports

LEMMA ReportsInitial == Init => ReportsInv
BY DEF Init, ReportsInit, ReportsInv, ReportsDone

\* Which step computes reports of which blocks.
LEMMA ReportsSteps ==
    ASSUME StageInv, [Next]_vars
    PROVE  \/ GenerateReports /\ ReportsDone = height /\ ReportsDone' = height + 1
              /\ SuppliersDone = height + 1 /\ B = height + 1 /\ chain' = chain
              /\ Len(chain) = height + 1
           \/ RegenerateReports /\ ReportsDone = height /\ ReportsDone' = height
              /\ SuppliersDone = height /\ chain' = chain
           \/ /\ ReportsDone' = ReportsDone
              /\ UNCHANGED reportTables
<1>0. Len(chain) \in Nat /\ height \in Nat
  BY LenProperties DEF StageInv
<1>1. CASE GenerateReports
  BY <1>0, <1>1 DEF GenerateReports, StageInv, ReportsDone, SuppliersDone, B, Tip
<1>2. CASE RegenerateReports
  <2>1. height = Len(chain)
    BY <1>0, <1>2 DEF RegenerateReports, Indexing, Tip, StageInv
  <2>2. stage = "primitives"
    BY <1>0, <2>1 DEF StageInv
  <2> QED
    BY <1>2, <2>2 DEF RegenerateReports, ReportsDone, SuppliersDone
<1>3. CASE Produce \/ IndexPrimitives \/ IndexParams
  BY <1>3 DEF Produce, IndexPrimitives, IndexParams, ReportsDone, reportVars
<1>4. CASE IndexMigrationAccounts \/ IndexApplications \/ IndexSupplier
  BY <1>4 DEF IndexMigrationAccounts, IndexApplications, IndexSupplier, Returns, ReportsDone, reportVars
<1>5. CASE Commit
  BY <1>0, <1>5 DEF Commit, ReportsDone, reportVars, StageInv, B, Tip
<1>6. CASE UNCHANGED vars
  BY <1>6 DEF vars, ReportsDone, reportVars
<1> QED
  BY <1>1, <1>2, <1>3, <1>4, <1>5, <1>6 DEF Next

LEMMA ReportsComputed ==
    ASSUME StageInv, ReadInv, FewSuppliers, SlashAtEnd = FALSE, ReportsInv, chain' = chain,
           NEW heights, heights \subseteq 1..SuppliersDone, blockReports' = UpdateBlockReports(heights),
           1..ReportsDone' = (1..ReportsDone) \cup heights
    PROVE  ReportsInv'
<1>1. \A h \in heights : BlockReport(h) = ChainReport(h)
  BY ReportIs
<1>2. \A h : ChainReport(h).block = h
  BY DEF ChainReport
<1>3. ASSUME NEW h, h \in Nat \ {0} PROVE ChainReport(h)' = ChainReport(h)
  <2>1. /\ SuppliersAt(h)' = SuppliersAt(h) /\ SuppliersAt(h - 1)' = SuppliersAt(h - 1)
        /\ chain'[h] = chain[h]
    BY DEF SuppliersAt
  <2> QED
    BY <1>3, <2>1, ChainReportFrame
<1>4. \A r \in blockReports' : \/ r \in blockReports /\ r.block \notin heights
                               \/ \E h \in heights : r = ChainReport(h)
  BY <1>1 DEF UpdateBlockReports
<1>5. /\ \A h \in heights : ChainReport(h) \in blockReports'
      /\ \A r \in blockReports : r.block \notin heights => r \in blockReports'
  BY <1>1 DEF UpdateBlockReports
<1>6. {r.block : r \in blockReports} = 1..ReportsDone /\ \A r \in blockReports : r = ChainReport(r.block)
  BY DEF ReportsInv
<1>7. \A r \in blockReports' : r.block \in 1..ReportsDone' /\ r = ChainReport(r.block)
  BY <1>2, <1>4, <1>6
<1>8. ASSUME NEW h \in 1..ReportsDone' PROVE \E r \in blockReports' : r.block = h
  <2>1. CASE h \in heights
    BY <1>2, <1>5, <2>1
  <2>2. CASE h \notin heights
    <3>1. h \in 1..ReportsDone
      BY <2>2
    <3>2. PICK r \in blockReports : r.block = h
      BY <1>6, <3>1
    <3> QED
      BY <1>5, <2>2, <3>2
  <2> QED
    BY <2>1, <2>2
<1>9. {r.block : r \in blockReports'} = 1..ReportsDone'
  BY <1>7, <1>8
<1>10. \A r \in blockReports' : r = ChainReport(r.block)'
  <2> SUFFICES ASSUME NEW r \in blockReports' PROVE r = ChainReport(r.block)'
    OBVIOUS
  <2>1. r.block \in Nat \ {0} /\ r = ChainReport(r.block)
    BY <1>7
  <2>2. PICK h : h = r.block
    OBVIOUS
  <2>3. ChainReport(h)' = ChainReport(h)
    BY <1>3, <2>1, <2>2
  <2> QED
    BY <2>1, <2>2, <2>3
<1> QED
  BY <1>9, <1>10 DEF ReportsInv

LEMMA ReportsKept ==
    ASSUME StageInv, ReadInv, FewSuppliers, SlashAtEnd = FALSE, ReportsInv, [Next]_vars
    PROVE  ReportsInv'
<1>0. Len(chain) \in Nat /\ height \in Nat
  BY LenProperties DEF StageInv
<1>1. CASE /\ GenerateReports /\ ReportsDone = height /\ ReportsDone' = height + 1
           /\ SuppliersDone = height + 1 /\ B = height + 1 /\ chain' = chain
  <2>1. blockReports' = UpdateBlockReports({height + 1})
    BY <1>1 DEF GenerateReports, HandleAddBlockReports
  <2>2. {height + 1} \subseteq 1..SuppliersDone /\ 1..ReportsDone' = (1..ReportsDone) \cup {height + 1}
    BY <1>0, <1>1
  <2> QED
    BY <1>1, <2>1, <2>2, ReportsComputed
<1>2. CASE RegenerateReports /\ ReportsDone = height /\ ReportsDone' = height
           /\ SuppliersDone = height /\ chain' = chain
  <2>1. blockReports' = UpdateBlockReports(1..height)
    BY <1>2 DEF RegenerateReports, UpdateBlockReportsRange
  <2>2. 1..height \subseteq 1..SuppliersDone /\ 1..ReportsDone' = (1..ReportsDone) \cup (1..height)
    BY <1>0, <1>2
  <2> QED
    BY <1>2, <2>1, <2>2, ReportsComputed
<1>3. CASE ReportsDone' = ReportsDone /\ UNCHANGED reportTables
  <2>1. blockReports' = blockReports
    BY <1>3 DEF reportTables
  <2>2. ASSUME NEW r \in blockReports PROVE r = ChainReport(r.block)'
    <3>1. PICK h : h = r.block /\ h \in 1..ReportsDone
      BY DEF ReportsInv
    <3>2. h \in 1..height + 1 /\ h <= Len(chain) /\ h \in Nat \ {0}
      BY <1>0, <3>1 DEF ReportsDone, StageInv
    <3>3. ChainReport(h)' = ChainReport(h)
      BY <3>2, ReportedFrame, ChainReportFrame
    <3> QED
      BY <3>1, <3>3 DEF ReportsInv
  <2> QED
    BY <1>3, <2>1, <2>2 DEF ReportsInv
<1> QED
  BY <1>1, <1>2, <1>3, ReportsSteps

LEMMA ReportsImplied ==
    ASSUME StageInv, ReportsInv
    PROVE  ReportsMatchChain
<1>0. Len(chain) \in Nat /\ height \in Nat
  BY LenProperties DEF StageInv
<1>1. {r.block : r \in blockReports} \ {B} = Indexed \ {B}
  BY <1>0 DEF ReportsInv, ReportsDone, Indexed, B, Tip, StageInv
<1>2. \A r \in blockReports : r = ChainReport(r.block)
  BY DEF ReportsInv
<1> QED
  BY <1>1, <1>2 DEF ReportsMatchChain, ChainReport

\* However often suppliers stake, are slashed and unbond, the report of an indexed
\* block, computed when it was indexed or again at any later time, tells the suppliers,
\* stakes and relays the chain had then: the versions of historical rows in force at a
\* block stay what the chain had, whatever closes them later.
THEOREM ReportsCorrect ==
    Spec /\ FewSuppliers /\ SlashAtEnd = FALSE => []ReportsMatchChain
<1>1. StageInv /\ ReportsInv => ReportsMatchChain
  BY ReportsImplied
<1>2. CASE FewSuppliers /\ SlashAtEnd = FALSE
  <2>1. Init => StageInv /\ ReadInv /\ ReportsInv
    BY StageInitial, ReadInitial, ReportsInitial
  <2>2. StageInv /\ ReadInv /\ ReportsInv /\ [Next]_vars => StageInv' /\ ReadInv' /\ ReportsInv'
    BY <1>2, StageKept, ReadKept, ReportsKept
  <2> QED
    BY <1>1, <2>1, <2>2, PTL DEF Spec
<1>3. CASE ~(FewSuppliers /\ SlashAtEnd = FALSE)
  BY <1>3, PTL
<1> QED
  BY <1>2, <1>3

-----------------------------------------------------------------------------
(* Reports by service *)

Offering(h, s) == {p \in OnChain(h, "Staked") : s \in DOMAIN SuppliersAt(h)[p].offer}
SettledFor(h, s) == {c \in chain[h].settled : c[2] = s}

ServiceRow(h, s, table, amount, sum) ==
    [block |-> h, service |-> s, table |-> table, amount |-> amount, sum |-> sum]

OfferingRow(h, s) ==
    ServiceRow(h, s, "suppliers", Cardinality(Offering(h, s)), StakeOf(h, Offering(h, s)))
SettledForRow(h, s) ==
    ServiceRow(h, s, "relays", Cardinality(SettledFor(h, s)), ServiceRelays(SettledFor(h, s)))

ChainByService(h) ==
    {OfferingRow(h, s) : s \in Services} \cup {SettledForRow(h, s) : s \in Services}

\* The rows by service of a block reported are the chain's that count something.
ByServiceInv ==
    /\ \A r \in byService : r.block \in 1..ReportsDone
    /\ \A h \in 1..ReportsDone :
          {r \in byService : r.block = h} = {r \in ChainByService(h) : r.amount > 0}

LEMMA ByServiceIs ==
    ASSUME StageInv, ReadInv, FewSuppliers, NEW h \in 1..SuppliersDone
    PROVE  StakedByService(h) \cup RelaysByService(h) = ChainByService(h)
<1>1. PICK n \in 0..Len(chain) : n = SuppliersDone
  BY DEF SuppliersDone, StageInv, Handlers
<1>2. /\ OperatedInv /\ SuppliersRight(supplierRows, n) /\ ConfigsRight(configs, n)
      /\ SettledRight(settledRows, n)
  BY <1>1 DEF ReadInv
<1>3. IsFiniteSet(Suppliers) /\ IsFiniteSet(Services) /\ h \in 1..n /\ h \in 1..Len(chain) /\ n \in Nat
  BY <1>1 DEF FewSuppliers
<1> DEFINE offers(s) == {r \in WithStatus("Staked", h) :
                            \E c \in configs : c.id = <<r.id, s>> /\ InForce(c, h)}
           claims(s) == {c \in ClaimsSettledAt(h) : c.service = s}
<1>4. ASSUME NEW s \in Services
      PROVE  /\ Cardinality(offers(s)) = Cardinality(Offering(h, s))
             /\ Stakes(offers(s)) = StakeOf(h, Offering(h, s))
  <2>1. PICK S \in SUBSET Suppliers : S = Offering(h, s)
    BY DEF Offering, OnChain
  <2>2. PICK T \in SUBSET supplierRows : T = offers(s)
    BY DEF WithStatus
  <2>3. \A r \in T : InForce(r, h) /\ r.id \in S
    <3> SUFFICES ASSUME NEW r \in T PROVE InForce(r, h) /\ r.id \in S
      OBVIOUS
    <3>1. r \in supplierRows /\ r.status = "Staked" /\ InForce(r, h)
      BY <2>2 DEF WithStatus
    <3>2. r.id \in Suppliers /\ SuppliersAt(h)[r.id].status = "Staked"
      BY <1>2, <1>3, <3>1 DEF SuppliersRight, SupplierVersions
    <3>3. PICK c \in configs : c.id = <<r.id, s>> /\ InForce(c, h)
      BY <2>2
    <3>4. c.id[1] = r.id /\ c.id[2] = s
      BY <3>3
    <3>5. s \in DOMAIN SuppliersAt(h)[r.id].offer
      BY <1>2, <1>3, <3>2, <3>3, <3>4 DEF ConfigsRight
    <3> QED
      BY <2>1, <3>1, <3>2, <3>5 DEF Offering, OnChain
  <2>4. \A p \in S : \E r \in T : r.id = p
    <3> SUFFICES ASSUME NEW p \in S PROVE \E r \in T : r.id = p
      OBVIOUS
    <3>1. p \in Suppliers /\ SuppliersAt(h)[p].status = "Staked"
          /\ s \in DOMAIN SuppliersAt(h)[p].offer
      BY <2>1 DEF Offering, OnChain
    <3>2. PICK r \in supplierRows : r.id = p /\ InForce(r, h)
      BY <1>2, <1>3, <3>1 DEF SuppliersRight
    <3>3. r.status = "Staked"
      BY <1>2, <1>3, <3>1, <3>2 DEF SuppliersRight
    <3>4. \E c \in configs : c.id = <<r.id, s>> /\ InForce(c, h)
      BY <1>2, <1>3, <3>1, <3>2 DEF ConfigsRight
    <3> QED
      BY <2>2, <3>2, <3>3, <3>4 DEF WithStatus
  <2>5. Cardinality(T) = Cardinality(S) /\ Stakes(T) = StakeOf(h, S)
    BY <1>2, <1>3, <2>3, <2>4, RowsMatched
  <2> QED
    BY <2>1, <2>2, <2>5
<1>5. ASSUME NEW s \in Services
      PROVE  /\ Cardinality(claims(s)) = Cardinality(SettledFor(h, s))
             /\ RelaysOf(claims(s)) = ServiceRelays(SettledFor(h, s))
  <2>1. PICK S \in SUBSET chain[h].settled : S = SettledFor(h, s)
    BY DEF SettledFor
  <2>2. PICK T : T = {SettledRow(c, h) : c \in S}
    OBVIOUS
  <2>3. ClaimsSettledAt(h) = {SettledRow(c, h) : c \in chain[h].settled}
    BY <1>2, <1>3, SettledAt
  <2>4. \A c : SettledRow(c, h).service = c[2]
    BY DEF SettledRow
  <2>5. claims(s) = T
    BY <2>1, <2>2, <2>3, <2>4 DEF SettledFor
  <2>6. Cardinality(T) = Cardinality(S) /\ RelaysOf(T) = ServiceRelays(S)
    BY <1>3, <2>2, ClaimsMatched
  <2> QED
    BY <2>1, <2>5, <2>6
<1>6. StakedByService(h) = {ServiceRow(h, s, "suppliers", Cardinality(offers(s)), Stakes(offers(s))) :
                              s \in Services}
  BY DEF StakedByService, ServiceRow
<1>7. RelaysByService(h) = {ServiceRow(h, s, "relays", Cardinality(claims(s)), RelaysOf(claims(s))) :
                              s \in Services}
  BY DEF RelaysByService, ServiceRow
<1> HIDE DEF offers, claims
<1>8. StakedByService(h) = {OfferingRow(h, s) : s \in Services}
  BY <1>4, <1>6 DEF OfferingRow
<1>9. RelaysByService(h) = {SettledForRow(h, s) : s \in Services}
  BY <1>5, <1>7 DEF SettledForRow
<1> QED
  BY <1>8, <1>9 DEF ChainByService

LEMMA ByServiceFrame ==
    ASSUME NEW h, SuppliersAt(h)' = SuppliersAt(h), chain'[h] = chain[h]
    PROVE  ChainByService(h)' = ChainByService(h)
<1>1. \A s \in Services : Offering(h, s)' = Offering(h, s) /\ SettledFor(h, s)' = SettledFor(h, s)
  BY DEF Offering, SettledFor, OnChain
<1>2. \A S : StakeOf(h, S)' = StakeOf(h, S)
  BY DEF StakeOf, MapThenSumSet, MapThenFoldSet
<1>3. \A s \in Services : OfferingRow(h, s)' = OfferingRow(h, s)
  BY <1>1, <1>2 DEF OfferingRow
<1>4. \A s \in Services : SettledForRow(h, s)' = SettledForRow(h, s)
  BY <1>1 DEF SettledForRow
<1> QED
  BY <1>3, <1>4 DEF ChainByService

LEMMA ByServiceInitial == Init => ByServiceInv
BY DEF Init, ReportsInit, ByServiceInv, ReportsDone

LEMMA ByServiceKept ==
    ASSUME StageInv, ReadInv, FewSuppliers, ByServiceInv, [Next]_vars
    PROVE  ByServiceInv'
<1>0. Len(chain) \in Nat /\ height \in Nat
  BY LenProperties DEF StageInv
<1>1. \A h \in 1..height + 1 : h <= Len(chain) => ChainByService(h)' = ChainByService(h)
  BY ReportedFrame, ByServiceFrame
<1>2. CASE byService' = byService /\ ReportsDone' = ReportsDone
  <2>1. \A h \in 1..ReportsDone : h \in 1..height + 1 /\ h <= Len(chain)
    BY <1>0 DEF ReportsDone, StageInv
  <2>2. \A h \in 1..ReportsDone : ChainByService(h)' = ChainByService(h)
    BY <1>1, <2>1
  <2> QED
    BY <1>2, <2>2 DEF ByServiceInv
<1>3. CASE /\ GenerateReports /\ ReportsDone = height /\ ReportsDone' = height + 1
           /\ SuppliersDone = height + 1 /\ B = height + 1 /\ Len(chain) = height + 1
  <2>1. PICK b : b = height + 1 /\ b \in 1..SuppliersDone /\ b \in 1..height + 1 /\ b <= Len(chain)
    BY <1>0, <1>3
  <2>2. byService' = UpsertByService(b)
    BY <1>3, <2>1 DEF GenerateReports, HandleAddBlockReports
  <2>3. byService' = {r \in byService : r.block # b} \cup {r \in ChainByService(b) : r.amount > 0}
    BY <2>1, <2>2, ByServiceIs DEF UpsertByService
  <2>4. \A r \in ChainByService(b) : r.block = b
    BY DEF ChainByService, OfferingRow, SettledForRow, ServiceRow
  <2>5. \A r \in byService : r.block \in 1..height
    BY <1>3 DEF ByServiceInv
  <2>6. {r \in byService' : r.block = b} = {r \in ChainByService(b) : r.amount > 0}
    BY <2>3, <2>4
  <2>7. ASSUME NEW h \in 1..height
        PROVE  {r \in byService' : r.block = h} = {r \in ChainByService(h) : r.amount > 0}
    <3>1. {r \in byService' : r.block = h} = {r \in byService : r.block = h}
      BY <1>0, <2>1, <2>3, <2>4
    <3>2. {r \in byService : r.block = h} = {r \in ChainByService(h) : r.amount > 0}
      BY <1>3 DEF ByServiceInv
    <3> QED
      BY <3>1, <3>2
  <2>8. \A h \in 1..(height + 1) : ChainByService(h)' = ChainByService(h)
    BY <1>1, <1>3, <1>0
  <2>9. \A h \in 1..(height + 1) : {r \in byService' : r.block = h}
                                   = {r \in ChainByService(h)' : r.amount > 0}
    <3> SUFFICES ASSUME NEW h \in 1..(height + 1)
                 PROVE  {r \in byService' : r.block = h} = {r \in ChainByService(h)' : r.amount > 0}
      OBVIOUS
    <3>1. CASE h = b
      BY <2>6, <2>8, <3>1
    <3>2. CASE h \in 1..height
      BY <2>7, <2>8, <3>2
    <3> QED
      BY <1>0, <2>1, <3>1, <3>2
  <2>10. \A r \in byService' : r.block \in 1..(height + 1)
    BY <1>0, <2>1, <2>3, <2>4, <2>5
  <2> QED
    BY <1>3, <2>9, <2>10 DEF ByServiceInv
<1>4. CASE RegenerateReports /\ ReportsDone = height /\ ReportsDone' = height
  <2>1. byService' = byService
    BY <1>4 DEF RegenerateReports, UpdateBlockReportsRange
  <2> QED
    BY <1>2, <1>4, <2>1
<1>5. CASE ReportsDone' = ReportsDone /\ UNCHANGED reportTables
  BY <1>2, <1>5 DEF reportTables
<1> QED
  BY <1>3, <1>4, <1>5, ReportsSteps

LEMMA ByServiceImplied ==
    ASSUME StageInv, FewSuppliers, ByServiceInv
    PROVE  ByServiceMatchesChain
<1>0. Len(chain) \in Nat /\ height \in Nat
  BY LenProperties DEF StageInv
<1> SUFFICES ASSUME NEW h \in Indexed, NEW s \in Services
             PROVE  LET row(table) == {<<r.amount, r.sum>> :
                          r \in {r \in byService : r.block = h /\ r.service = s /\ r.table = table}}
                        expected(things, sum) ==
                          IF things = {} THEN {} ELSE {<<Cardinality(things), sum>>}
                    IN  /\ row("suppliers") = expected(Offering(h, s), StakeOf(h, Offering(h, s)))
                        /\ row("relays") = expected(SettledFor(h, s), ServiceRelays(SettledFor(h, s)))
  BY DEF ByServiceMatchesChain, Offering, SettledFor
<1> DEFINE rows(table) == {r \in byService : r.block = h /\ r.service = s /\ r.table = table}
<1>1. h \in 1..ReportsDone /\ h \in 1..Len(chain) /\ h \in 0..Len(chain)
  BY <1>0 DEF Indexed, ReportsDone, StageInv
<1>2. {r \in byService : r.block = h} = {r \in ChainByService(h) : r.amount > 0}
  BY <1>1 DEF ByServiceInv
<1>3. IsFiniteSet(Offering(h, s)) /\ IsFiniteSet(SettledFor(h, s))
  <2>1. Offering(h, s) \in SUBSET Suppliers
    BY DEF Offering, OnChain
  <2>2. SettledFor(h, s) \in SUBSET chain[h].settled
    BY DEF SettledFor
  <2>3. IsFiniteSet(Offering(h, s))
    BY <2>1, FS_Subset DEF FewSuppliers
  <2>4. IsFiniteSet(SettledFor(h, s))
    BY <1>1, <2>2, SettledPairs DEF FewSuppliers
  <2> QED
    BY <2>3, <2>4
<1>4. \A S : IsFiniteSet(S) => Cardinality(S) \in Nat /\ (Cardinality(S) > 0 <=> S # {})
  BY FS_EmptySet, FS_CardinalityType
<1>5. /\ OfferingRow(h, s).service = s /\ OfferingRow(h, s).table = "suppliers"
      /\ OfferingRow(h, s).amount = Cardinality(Offering(h, s))
      /\ OfferingRow(h, s).sum = StakeOf(h, Offering(h, s)) /\ OfferingRow(h, s).block = h
      /\ SettledForRow(h, s).service = s /\ SettledForRow(h, s).table = "relays"
      /\ SettledForRow(h, s).amount = Cardinality(SettledFor(h, s))
      /\ SettledForRow(h, s).sum = ServiceRelays(SettledFor(h, s)) /\ SettledForRow(h, s).block = h
  BY DEF OfferingRow, SettledForRow, ServiceRow
<1>6. \A t \in Services : /\ OfferingRow(h, t).service = t /\ OfferingRow(h, t).table = "suppliers"
                          /\ SettledForRow(h, t).service = t /\ SettledForRow(h, t).table = "relays"
  BY DEF OfferingRow, SettledForRow, ServiceRow
<1>7. \A r : r \in rows("suppliers") <=> r = OfferingRow(h, s) /\ r.amount > 0
  BY <1>2, <1>5, <1>6 DEF ChainByService
<1>8. \A r : r \in rows("relays") <=> r = SettledForRow(h, s) /\ r.amount > 0
  BY <1>2, <1>5, <1>6 DEF ChainByService
<1> HIDE DEF rows
<1>9. {<<r.amount, r.sum>> : r \in rows("suppliers")}
      = IF Offering(h, s) = {} THEN {} ELSE {<<Cardinality(Offering(h, s)), StakeOf(h, Offering(h, s))>>}
  <2>1. CASE Offering(h, s) = {}
    <3>1. rows("suppliers") = {}
      BY <1>3, <1>4, <1>5, <1>7, <2>1
    <3> QED
      BY <2>1, <3>1
  <2>2. CASE Offering(h, s) # {}
    <3>1. rows("suppliers") = {OfferingRow(h, s)}
      BY <1>3, <1>4, <1>5, <1>7, <2>2
    <3> QED
      BY <1>5, <2>2, <3>1
  <2> QED
    BY <2>1, <2>2
<1>10. {<<r.amount, r.sum>> : r \in rows("relays")}
       = IF SettledFor(h, s) = {} THEN {}
         ELSE {<<Cardinality(SettledFor(h, s)), ServiceRelays(SettledFor(h, s))>>}
  <2>1. CASE SettledFor(h, s) = {}
    <3>1. rows("relays") = {}
      BY <1>3, <1>4, <1>5, <1>8, <2>1
    <3> QED
      BY <2>1, <3>1
  <2>2. CASE SettledFor(h, s) # {}
    <3>1. rows("relays") = {SettledForRow(h, s)}
      BY <1>3, <1>4, <1>5, <1>8, <2>2
    <3> QED
      BY <1>5, <2>2, <3>1
  <2> QED
    BY <2>1, <2>2
<1> QED
  BY <1>9, <1>10 DEF rows

\* For each service, the rows of an indexed block add up what the chain's staked
\* suppliers that offered it had staked, and the claims settled for it: the services
\* in force at a block are those of the offers suppliers staked with, although a new
\* stake closes them all.
THEOREM ByServiceCorrect == Spec /\ FewSuppliers => []ByServiceMatchesChain
<1>1. StageInv /\ FewSuppliers /\ ByServiceInv => ByServiceMatchesChain
  BY ByServiceImplied
<1>2. CASE FewSuppliers
  <2>1. Init => StageInv /\ ReadInv /\ ByServiceInv
    BY StageInitial, ReadInitial, ByServiceInitial
  <2>2. StageInv /\ ReadInv /\ ByServiceInv /\ [Next]_vars => StageInv' /\ ReadInv' /\ ByServiceInv'
    BY <1>2, StageKept, ReadKept, ByServiceKept
  <2> QED
    BY <1>1, <1>2, <2>1, <2>2, PTL DEF Spec
<1>3. CASE ~FewSuppliers
  BY <1>3, PTL
<1> QED
  BY <1>2, <1>3

-----------------------------------------------------------------------------
(* Rewards by day *)

DayBlocks(d, m) == {b \in 1..m : DayOf(b) = d}
Settling(D) == {b \in D : chain[b].settled # {}}
ClaimsOf(D, domain, s) ==
    {x \in D \X Suppliers : /\ <<x[2], s>> \in chain[x[1]].settled
                            /\ DomainIn(x[1], x[2], s) = domain}
StakedBy(D, last, domain, s) ==
    {p \in Suppliers : \E b \in D :
        /\ b <= last /\ p \in OnChain(b, "Staked")
        /\ s \in DOMAIN SuppliersAt(b)[p].offer /\ SuppliersAt(b)[p].offer[s] = domain}

\* The rows of a day, when its blocks so far are D.
DayRight(rows, D, domain, s) ==
    /\ {r.relays : r \in rows} =
          IF ClaimsOf(D, domain, s) = {} THEN {}
          ELSE {Relays[s] * Cardinality(ClaimsOf(D, domain, s))}
    /\ \A r \in rows : r.suppliers >= Cardinality(StakedBy(D, Max(Settling(D)), domain, s))

RowsOf(d, domain, s) ==
    {r \in dailyRewards : r.day = d /\ r.domain = domain /\ r.service = s}

\* Days without blocks so far have no rows.
DailyInv ==
    \A d \in Int, domain \in Domains, s \in Services :
        DayRight(RowsOf(d, domain, s), DayBlocks(d, ReportsDone), domain, s)

LEMMA DaysTyped == \A h \in Int : DayOf(h) \in Int
<1>1. BlocksOfDay \in Nat \ {0}
  BY ReportsAssumption, Zenon
<1> QED
  BY <1>1 DEF DayOf

\* What is in force for a claim the chain settled is the offer of its supplier.
Offered(b, p, s) ==
    /\ p \in Suppliers
    /\ \E c \in configs : c.id = <<p, s>> /\ InForce(c, b)
    /\ \A c \in configs : c.id = <<p, s>> /\ InForce(c, b) => c.domain = DomainIn(b, p, s)

LEMMA SettledOffer ==
    ASSUME StageInv, OperatedInv, LateClaims = FALSE,
           NEW n \in 0..Len(chain), ConfigsRight(configs, n),
           NEW b \in 1..n, NEW p, NEW s, <<p, s>> \in chain[b].settled
    PROVE  Offered(b, p, s)
<1>1. b \in 1..Len(chain)
  OBVIOUS
<1>2. Operated(chain[b], SuppliersAt(b - 1))
  BY <1>1 DEF OperatedInv
<1>3. SuppliersAt(b) = chain[b].suppliers
  BY DEF SuppliersAt
<1>4. <<p, s>> \in Settleable(SuppliersAt(b - 1), SuppliersAt(b))
  BY <1>2, <1>3 DEF Operated
<1>5. /\ p \in Suppliers /\ SuppliersAt(b)[p].status # "Unstaked"
      /\ s \in DOMAIN SuppliersAt(b)[p].offer
  BY <1>4 DEF Settleable
<1>6. DomainIn(b, p, s) = SuppliersAt(b)[p].offer[s]
  BY <1>5 DEF DomainIn
<1>7. \E c \in configs : c.id = <<p, s>> /\ InForce(c, b)
  BY <1>5 DEF ConfigsRight
<1>8. ASSUME NEW c \in configs, c.id = <<p, s>>, InForce(c, b)
      PROVE  c.domain = DomainIn(b, p, s)
  <2>1. c.id[1] = p /\ c.id[2] = s
    BY <1>8
  <2>2. c.domain = SuppliersAt(b)[p].offer[c.id[2]]
    BY <1>5, <1>8, <2>1 DEF ConfigsRight
  <2> QED
    BY <1>6, <2>1, <2>2
<1> QED
  BY <1>5, <1>7, <1>8 DEF Offered

\* The relays of claims, with the versions they are joined with.
JoinedRelays(T) == MapThenSumSet(LAMBDA m : Relays[m[1].service], T)

Joined(h, domain, s) ==
    /\ ClaimsOfDay(h, domain, s) = {} <=> ClaimsOf(BlocksSoFar(h), domain, s) = {}
    /\ JoinedRelays(ClaimsOfDay(h, domain, s))
          = Relays[s] * Cardinality(ClaimsOf(BlocksSoFar(h), domain, s))

\* A day's claims and the versions they are joined with are the claims of the chain.
LEMMA ClaimsJoined ==
    ASSUME StageInv, FewSuppliers, OperatedInv, LateClaims = FALSE, NEW n \in 0..Len(chain),
           ConfigsRight(configs, n), SettledRight(settledRows, n), NEW h \in 1..n,
           NEW domain, NEW s \in Services
    PROVE  Joined(h, domain, s)
<1>0. PICK S, T : S = ClaimsOf(BlocksSoFar(h), domain, s) /\ T = ClaimsOfDay(h, domain, s)
  OBVIOUS
<1>1. n \in Nat /\ BlocksSoFar(h) \subseteq 1..n /\ \A b \in 1..n : b \in 1..Len(chain)
  BY DEF BlocksSoFar
<1> DEFINE k == [x \in T |-> <<x[1].block, x[1].supplier>>]
           g == [x \in T |-> Relays[x[1].service]]
<1>2. ASSUME NEW x \in T
      PROVE  \E b \in BlocksSoFar(h), p \in Suppliers :
                /\ <<p, s>> \in chain[b].settled /\ x[1] = SettledRow(<<p, s>>, b)
                /\ x = <<x[1], x[2]>> /\ x[2] \in configs /\ x[2].id = <<p, s>>
                /\ InForce(x[2], b) /\ x[2].domain = domain
  <2>1. /\ x[1] \in settledRows /\ x[2] \in configs /\ x = <<x[1], x[2]>>
        /\ x[1].service = s /\ x[1].block \in BlocksSoFar(h)
        /\ x[2].id = <<x[1].supplier, x[1].service>> /\ InForce(x[2], x[1].block)
        /\ x[2].domain = domain
    BY <1>0 DEF ClaimsOfDay, Matches
  <2>2. PICK b \in 1..n : x[1] \in {SettledRow(c, b) : c \in chain[b].settled}
    BY <2>1 DEF SettledRight
  <2>3. PICK c \in chain[b].settled : x[1] = SettledRow(c, b)
    BY <2>2
  <2>4. x[1].service = c[2] /\ x[1].supplier = c[1] /\ x[1].block = b
    BY <2>3 DEF SettledRow
  <2>5. c \in Suppliers \X Services
    BY <1>1, SettledPairs DEF FewSuppliers
  <2>6. c = <<c[1], s>> /\ c[1] \in Suppliers
    BY <2>1, <2>4, <2>5
  <2>7. PICK p \in Suppliers : p = c[1]
    BY <2>6
  <2>8. c = <<p, s>>
    BY <2>6, <2>7
  <2>9. /\ <<p, s>> \in chain[b].settled /\ x[1] = SettledRow(<<p, s>>, b)
        /\ b \in BlocksSoFar(h) /\ x[2].id = <<p, s>> /\ InForce(x[2], b)
    BY <2>1, <2>3, <2>4, <2>7, <2>8
  <2> QED
    BY <2>1, <2>9
<1>3. \A p, b : SettledRow(<<p, s>>, b).block = b /\ SettledRow(<<p, s>>, b).supplier = p
                /\ SettledRow(<<p, s>>, b).service = s
  BY DEF SettledRow
<1>4. \A x \in T : k[x] \in S
  <2> SUFFICES ASSUME NEW x \in T PROVE k[x] \in S
    OBVIOUS
  <2>1. PICK b \in BlocksSoFar(h), p \in Suppliers :
                /\ <<p, s>> \in chain[b].settled /\ x[1] = SettledRow(<<p, s>>, b)
                /\ x = <<x[1], x[2]>> /\ x[2] \in configs /\ x[2].id = <<p, s>>
                /\ InForce(x[2], b) /\ x[2].domain = domain
    BY <1>2
  <2>2. DomainIn(b, p, s) = domain
    <3>1. b \in 1..n
      BY <1>1
    <3>2. Offered(b, p, s)
      BY <2>1, <3>1, SettledOffer
    <3> QED
      BY <2>1, <3>2 DEF Offered
  <2>3. k[x] = <<b, p>>
    BY <1>3, <2>1
  <2>4. <<b, p>> \in ClaimsOf(BlocksSoFar(h), domain, s)
    BY <2>1, <2>2 DEF ClaimsOf
  <2> QED
    BY <1>0, <2>3, <2>4
<1>5. ASSUME NEW x \in T, NEW y \in T, k[x] = k[y] PROVE x = y
  <2>1. PICK b \in BlocksSoFar(h), p \in Suppliers :
                /\ <<p, s>> \in chain[b].settled /\ x[1] = SettledRow(<<p, s>>, b)
                /\ x = <<x[1], x[2]>> /\ x[2] \in configs /\ x[2].id = <<p, s>>
                /\ InForce(x[2], b) /\ x[2].domain = domain
    BY <1>2
  <2>2. PICK c \in BlocksSoFar(h), q \in Suppliers :
                /\ <<q, s>> \in chain[c].settled /\ y[1] = SettledRow(<<q, s>>, c)
                /\ y = <<y[1], y[2]>> /\ y[2] \in configs /\ y[2].id = <<q, s>>
                /\ InForce(y[2], c) /\ y[2].domain = domain
    BY <1>2
  <2>3. k[x] = <<b, p>> /\ k[y] = <<c, q>>
    BY <1>3, <2>1, <2>2
  <2>4. b = c /\ p = q
    BY <1>5, <2>3
  <2>5. b \in 1..n /\ x[2].id = y[2].id /\ InForce(x[2], b) /\ InForce(y[2], b)
    BY <1>1, <2>1, <2>2, <2>4
  <2>6. x[2] = y[2]
    BY <2>1, <2>2, <2>5 DEF ConfigsRight, Ranged
  <2> QED
    BY <2>1, <2>2, <2>4, <2>6
<1>6. ASSUME NEW y \in S PROVE \E x \in T : k[x] = y
  <2>1. PICK b \in BlocksSoFar(h), p \in Suppliers :
            y = <<b, p>> /\ <<p, s>> \in chain[b].settled /\ DomainIn(b, p, s) = domain
    BY <1>0 DEF ClaimsOf
  <2>2. b \in 1..n
    BY <1>1
  <2>3. PICK c \in configs : c.id = <<p, s>> /\ InForce(c, b)
    BY <2>1, <2>2, SettledOffer DEF Offered
  <2>4. c.domain = domain
    <3>1. Offered(b, p, s)
      BY <2>1, <2>2, SettledOffer
    <3> QED
      BY <2>1, <2>3, <3>1 DEF Offered
  <2>5. PICK r : r = SettledRow(<<p, s>>, b)
    OBVIOUS
  <2>6. r \in settledRows
    BY <2>1, <2>2, <2>5 DEF SettledRight
  <2>7. r.block = b /\ r.supplier = p /\ r.service = s
    BY <1>3, <2>5
  <2>8. PICK x \in settledRows \X configs : x = <<r, c>>
    BY <2>3, <2>6
  <2>9. x[1] = r /\ x[2] = c
    BY <2>8
  <2>10. x \in T
    BY <1>0, <2>3, <2>4, <2>7, <2>9 DEF ClaimsOfDay, Matches
  <2>11. k[x] = <<b, p>>
    BY <2>7, <2>9, <2>10
  <2> QED
    BY <2>1, <2>10, <2>11
<1>7. \A x \in T : g[x] = Relays[s]
  <2> SUFFICES ASSUME NEW x \in T PROVE x[1].service = s
    OBVIOUS
  <2> QED
    BY <1>0 DEF ClaimsOfDay
<1>8. \A x \in T : g[x] = Relays[x[1].service]
  OBVIOUS
<1>9. k \in [T -> S]
  BY <1>4
<1> HIDE DEF k, g
<1>10. k \in Bijection(T, S)
  BY <1>5, <1>6, <1>9, IsBijection
<1>11. IsFiniteSet(S)
  <2>1. IsFiniteSet(1..n)
    BY <1>1, FS_Interval
  <2>2. IsFiniteSet((1..n) \X Suppliers)
    BY <2>1, FS_Product DEF FewSuppliers
  <2>3. S \in SUBSET ((1..n) \X Suppliers)
    BY <1>0, <1>1 DEF ClaimsOf
  <2> QED
    BY <2>2, <2>3, FS_Subset
<1>12. IsFiniteSet(T) /\ Cardinality(T) = Cardinality(S)
  BY <1>10, <1>11, Matched
<1>13. Relays[s] \in Int
  <2>1. Relays \in [Services -> Nat \ {0}]
    BY ReportsAssumption, Zenon
  <2> QED
    BY <2>1
<1>14. Sum(g, T) = Relays[s] * Cardinality(T)
  BY <1>7, <1>12, <1>13, SumConstant
<1>15. JoinedRelays(T) = Sum(g, T)
  BY <1>8, <1>12, DayRelaysIsSum DEF JoinedRelays
<1>16. T = {} <=> S = {}
  BY <1>6, <1>9
<1> QED
  BY <1>0, <1>12, <1>14, <1>15, <1>16 DEF Joined

\* The suppliers the day is refreshed with are at least those the chain had.
LEMMA SuppliersOfDay ==
    ASSUME StageInv, FewSuppliers, NEW n \in 0..Len(chain), SuppliersRight(supplierRows, n),
           ConfigsRight(configs, n), NEW h \in 1..n, NEW domain, NEW s, NEW last
    PROVE  Cardinality(StakedInDay(h, domain, s))
              >= Cardinality(StakedBy(BlocksSoFar(h), last, domain, s))
<1> DEFINE from == Min(BlocksSoFar(h))
<1>1. n \in Nat
  OBVIOUS
<1>2. BlocksSoFar(h) \in SUBSET (1..h) /\ h \in BlocksSoFar(h) /\ h \in Nat
  BY <1>1 DEF BlocksSoFar
<1>3. IsFiniteSet(BlocksSoFar(h))
  <2>1. IsFiniteSet(1..h)
    BY <1>2, FS_Interval
  <2> QED
    BY <1>2, <2>1, FS_Subset
<1>4. from \in BlocksSoFar(h) /\ \A b \in BlocksSoFar(h) : from <= b
  BY <1>2, <1>3, Extremes
<1> HIDE DEF from
<1>5. Open \notin Int
  BY ReportsAssumption, Zenon
<1>6. ASSUME NEW r, NEW b \in BlocksSoFar(h), RangeIn(r, n), InForce(r, b)
      PROVE  Overlaps(r, from, h)
  BY <1>1, <1>2, <1>4, <1>5, <1>6 DEF RangeIn, InForce, Overlaps
<1>7. ASSUME NEW p \in StakedBy(BlocksSoFar(h), last, domain, s)
      PROVE  p \in StakedInDay(h, domain, s)
  <2>1. p \in Suppliers
    BY DEF StakedBy
  <2>2. PICK b \in BlocksSoFar(h) :
          /\ p \in OnChain(b, "Staked") /\ s \in DOMAIN SuppliersAt(b)[p].offer
          /\ SuppliersAt(b)[p].offer[s] = domain
    BY DEF StakedBy
  <2>3. b \in 1..n /\ SuppliersAt(b)[p].status = "Staked"
    BY <1>1, <1>2, <2>2 DEF OnChain
  <2>4. PICK r \in supplierRows : r.id = p /\ InForce(r, b)
    BY <2>1, <2>3 DEF SuppliersRight
  <2>5. r.status = "Staked" /\ RangeIn(r, n)
    BY <2>1, <2>3, <2>4 DEF SuppliersRight, Ranged
  <2>6. PICK c \in configs : c.id = <<p, s>> /\ InForce(c, b)
    BY <2>1, <2>2, <2>3 DEF ConfigsRight
  <2>7. c.id[1] = p /\ c.id[2] = s
    BY <2>6
  <2>8. c.domain = domain /\ RangeIn(c, n)
    BY <2>1, <2>2, <2>3, <2>6, <2>7 DEF ConfigsRight, Ranged
  <2>9. Overlaps(r, from, h) /\ Overlaps(c, from, h)
    BY <1>6, <2>4, <2>5, <2>6, <2>8
  <2> QED
    BY <2>1, <2>4, <2>5, <2>6, <2>8, <2>9 DEF StakedInDay, from
<1>8. StakedInDay(h, domain, s) \in SUBSET Suppliers
  BY DEF StakedInDay
<1>9. IsFiniteSet(StakedInDay(h, domain, s))
  BY <1>8, FS_Subset DEF FewSuppliers
<1>10. StakedBy(BlocksSoFar(h), last, domain, s) \in SUBSET StakedInDay(h, domain, s)
  BY <1>7
<1>11. IsFiniteSet(StakedBy(BlocksSoFar(h), last, domain, s))
  BY <1>9, <1>10, FS_Subset
<1>12. Cardinality(StakedBy(BlocksSoFar(h), last, domain, s))
         <= Cardinality(StakedInDay(h, domain, s))
  BY <1>9, <1>10, FS_Subset
<1> QED
  BY <1>9, <1>11, <1>12, FS_CardinalityType

\* A day refreshed is right.
LEMMA DayRefreshed ==
    ASSUME StageInv, FewSuppliers, ReadInv, LateClaims = FALSE, NEW h \in 1..SuppliersDone,
           NEW domain \in Domains, NEW s \in Services,
           NEW rows, rows = {r \in RefreshDomainServiceDailyRewards(h) :
                               r.day = DayOf(h) /\ r.domain = domain /\ r.service = s}
    PROVE  DayRight(rows, BlocksSoFar(h), domain, s)
<1>1. PICK n \in 0..Len(chain) : n = SuppliersDone
  BY DEF SuppliersDone, StageInv, Handlers
<1>2. /\ OperatedInv /\ SuppliersRight(supplierRows, n) /\ ConfigsRight(configs, n)
      /\ SettledRight(settledRows, n) /\ h \in 1..n
  BY <1>1 DEF ReadInv
<1>3. PICK S : S = ClaimsOf(BlocksSoFar(h), domain, s)
  OBVIOUS
<1>4. PICK T : T = ClaimsOfDay(h, domain, s)
  OBVIOUS
<1>5. /\ T = {} <=> S = {}
      /\ JoinedRelays(T) = Relays[s] * Cardinality(S)
  <2>1. Joined(h, domain, s)
    BY <1>2, ClaimsJoined
  <2> QED
    BY <1>3, <1>4, <2>1 DEF Joined
<1> DEFINE row(x) ==
             [day |-> DayOf(h), domain |-> x[1], service |-> x[2],
              relays |-> JoinedRelays(ClaimsOfDay(h, x[1], x[2])),
              suppliers |-> Cardinality(StakedInDay(h, x[1], x[2]))]
<1>6. rows = IF T = {} THEN {} ELSE {row(<<domain, s>>)}
  <2>1. \A x : row(x).day = DayOf(h) /\ row(x).domain = x[1] /\ row(x).service = x[2]
    OBVIOUS
  <2>2. RefreshDomainServiceDailyRewards(h) =
          {r \in dailyRewards : r.day # DayOf(h)}
          \cup {row(x) : x \in {x \in Domains \X Services : ClaimsOfDay(h, x[1], x[2]) # {}}}
    BY DEF RefreshDomainServiceDailyRewards, JoinedRelays
  <2> HIDE DEF row
  <2>3. ASSUME NEW r \in rows PROVE r = row(<<domain, s>>) /\ T # {}
    <3>1. PICK x \in Domains \X Services : ClaimsOfDay(h, x[1], x[2]) # {} /\ r = row(x)
      BY <2>2
    <3>2. x[1] = domain /\ x[2] = s
      BY <2>1, <3>1
    <3>3. x = <<domain, s>>
      BY <3>1, <3>2
    <3> QED
      BY <1>4, <3>1, <3>2, <3>3
  <2>4. ASSUME T # {} PROVE row(<<domain, s>>) \in rows
    <3>1. PICK x \in Domains \X Services : x = <<domain, s>>
      OBVIOUS
    <3>2. x[1] = domain /\ x[2] = s
      BY <3>1
    <3>3. row(x) \in RefreshDomainServiceDailyRewards(h)
      BY <1>4, <2>2, <2>4, <3>2
    <3> QED
      BY <2>1, <3>1, <3>2, <3>3
  <2> QED
    BY <2>3, <2>4
<1>7. row(<<domain, s>>).relays = Relays[s] * Cardinality(S)
  BY <1>4, <1>5
<1>8. row(<<domain, s>>).suppliers = Cardinality(StakedInDay(h, domain, s))
  OBVIOUS
<1>9. \A last : Cardinality(StakedInDay(h, domain, s))
                  >= Cardinality(StakedBy(BlocksSoFar(h), last, domain, s))
  BY <1>2, SuppliersOfDay
<1> HIDE DEF row
<1>10. {r.relays : r \in rows} = IF S = {} THEN {} ELSE {Relays[s] * Cardinality(S)}
  BY <1>5, <1>6, <1>7
<1>11. \A r \in rows : \A last :
         r.suppliers >= Cardinality(StakedBy(BlocksSoFar(h), last, domain, s))
  BY <1>6, <1>8, <1>9
<1> QED
  BY <1>3, <1>10, <1>11 DEF DayRight

\* Blocks indexed keep what the days are made of.
LEMMA DayFrame ==
    ASSUME StageInv, [Next]_vars, NEW D \in SUBSET (1..(height + 1)), D \subseteq 1..Len(chain),
           NEW rows, NEW domain, NEW s, DayRight(rows, D, domain, s)
    PROVE  DayRight(rows, D, domain, s)'
<1>1. Len(chain) \in Nat
  BY LenProperties DEF StageInv
<1>2. \A b \in D : /\ SuppliersAt(b)' = SuppliersAt(b) /\ SuppliersAt(b - 1)' = SuppliersAt(b - 1)
                   /\ chain'[b] = chain[b]
  <2> SUFFICES ASSUME NEW b \in D
               PROVE  /\ SuppliersAt(b)' = SuppliersAt(b) /\ SuppliersAt(b - 1)' = SuppliersAt(b - 1)
                      /\ chain'[b] = chain[b]
    OBVIOUS
  <2>1. b \in 1..(height + 1) /\ b <= Len(chain)
    BY <1>1
  <2> QED
    BY <2>1, ReportedFrame
<1>3. Settling(D)' = Settling(D)
  BY <1>2 DEF Settling
<1>4. \A b \in D, p \in Suppliers : DomainIn(b, p, s)' = DomainIn(b, p, s)
  BY <1>2 DEF DomainIn
<1>5. ClaimsOf(D, domain, s)' = ClaimsOf(D, domain, s)
  <2>1. \A x \in D \X Suppliers : x[1] \in D /\ x[2] \in Suppliers
    OBVIOUS
  <2> QED
    BY <1>2, <1>4, <2>1 DEF ClaimsOf
<1>6. \A last : StakedBy(D, last, domain, s)' = StakedBy(D, last, domain, s)
  BY <1>2 DEF StakedBy, OnChain
<1> QED
  BY <1>3, <1>5, <1>6 DEF DayRight

\* A block that settles nothing leaves a day right.
LEMMA NothingSettled ==
    ASSUME StageInv, NEW m \in Nat, m + 1 <= Len(chain), chain[m + 1].settled = {},
           NEW D \in SUBSET (1..m), NEW rows, NEW domain, NEW s, DayRight(rows, D, domain, s)
    PROVE  DayRight(rows, D \cup {m + 1}, domain, s)
<1> DEFINE E == D \cup {m + 1}
<1>1. ClaimsOf(E, domain, s) = ClaimsOf(D, domain, s)
  BY DEF ClaimsOf
<1>2. Settling(E) = Settling(D)
  BY DEF Settling
<1>3. ASSUME NEW r \in rows
      PROVE  StakedBy(E, Max(Settling(D)), domain, s) = StakedBy(D, Max(Settling(D)), domain, s)
  <2>1. ClaimsOf(D, domain, s) # {}
    <3>1. r.relays \in {q.relays : q \in rows}
      OBVIOUS
    <3> QED
      BY <3>1 DEF DayRight
  <2>2. Settling(D) # {}
    BY <2>1 DEF ClaimsOf, Settling
  <2>3. Settling(D) \in SUBSET (1..m) /\ Settling(D) \subseteq Int
    <3>1. \A b \in D : b \in 1..m /\ b \in Int
      OBVIOUS
    <3> QED
      BY <3>1 DEF Settling
  <2>4. IsFiniteSet(Settling(D))
    <3>1. IsFiniteSet(1..m)
      BY FS_Interval
    <3> QED
      BY <2>3, <3>1, FS_Subset
  <2>5. Max(Settling(D)) \in 1..m
    BY <2>2, <2>3, <2>4, Extremes
  <2> QED
    BY <2>5 DEF StakedBy
<1> HIDE DEF E
<1>4. \A r \in rows : r.suppliers >= Cardinality(StakedBy(E, Max(Settling(E)), domain, s))
  BY <1>2, <1>3 DEF DayRight
<1>5. DayRight(rows, E, domain, s)
  BY <1>1, <1>4 DEF DayRight
<1> QED
  BY <1>5 DEF E

LEMMA DailyInitial == Init => DailyInv
<1> SUFFICES ASSUME Init, NEW d \in Int, NEW domain \in Domains, NEW s \in Services
             PROVE  DayRight(RowsOf(d, domain, s), DayBlocks(d, ReportsDone), domain, s)
  BY DEF DailyInv
<1>1. DayBlocks(d, ReportsDone) = {} /\ RowsOf(d, domain, s) = {}
  BY DEF Init, ReportsInit, ReportsDone, DayBlocks, RowsOf
<1>2. ClaimsOf({}, domain, s) = {}
  BY DEF ClaimsOf
<1> QED
  BY <1>1, <1>2 DEF DayRight

\* A step that computes no day leaves all days right.
LEMMA DaysUntouched ==
    ASSUME StageInv, DailyInv, [Next]_vars, dailyRewards' = dailyRewards,
           ReportsDone' = ReportsDone
    PROVE  DailyInv'
<1> SUFFICES ASSUME NEW d \in Int, NEW domain \in Domains, NEW s \in Services
             PROVE  DayRight(RowsOf(d, domain, s), DayBlocks(d, ReportsDone), domain, s)'
  BY DEF DailyInv
<1>1. PICK D, rows : D = DayBlocks(d, ReportsDone) /\ rows = RowsOf(d, domain, s)
  OBVIOUS
<1>2. D \in SUBSET (1..(height + 1)) /\ D \subseteq 1..Len(chain)
  <2>1. Len(chain) \in Nat /\ height \in Nat
    BY LenProperties DEF StageInv
  <2> QED
    BY <1>1, <2>1 DEF DayBlocks, ReportsDone, StageInv
<1>3. DayRight(rows, D, domain, s)
  BY <1>1 DEF DailyInv
<1>4. DayRight(rows, D, domain, s)'
  BY <1>2, <1>3, DayFrame
<1>5. DayBlocks(d, ReportsDone)' = D /\ RowsOf(d, domain, s)' = rows
  BY <1>1 DEF DayBlocks, RowsOf, DayOf
<1> QED
  BY <1>4, <1>5 DEF DayRight, Settling, ClaimsOf, StakedBy

\* The reports of a block leave all days right: its own is computed anew when it
\* settles claims.
LEMMA DaysReported ==
    ASSUME StageInv, ReadInv, FewSuppliers, LateClaims = FALSE, DailyInv, GenerateReports,
           ReportsDone = height, ReportsDone' = height + 1, SuppliersDone = height + 1,
           B = height + 1, chain' = chain, Len(chain) = height + 1
    PROVE  DailyInv'
<1> SUFFICES ASSUME NEW d \in Int, NEW domain \in Domains, NEW s \in Services
             PROVE  DayRight(RowsOf(d, domain, s), DayBlocks(d, ReportsDone), domain, s)'
  BY DEF DailyInv
<1>1. height \in Nat
  BY DEF StageInv
<1>2. PICK b : b = height + 1 /\ b \in 1..SuppliersDone /\ b \in Int
  BY <1>1
<1>3. dailyRewards' = IF ClaimsSettledAt(b) = {} THEN dailyRewards
                      ELSE RefreshDomainServiceDailyRewards(b)
  BY <1>2 DEF GenerateReports, HandleAddBlockReports
<1>4. ClaimsSettledAt(b) = {} <=> chain[b].settled = {}
  <2>1. SettledRight(settledRows, SuppliersDone) /\ SuppliersDone \in Nat
    BY <1>1 DEF ReadInv
  <2>2. ClaimsSettledAt(b) = {SettledRow(c, b) : c \in chain[b].settled}
    BY <1>2, <2>1, SettledAt
  <2> QED
    BY <2>2
<1>5. PICK D, rows : D = DayBlocks(d, height) /\ rows = RowsOf(d, domain, s)
  OBVIOUS
<1>6. DayRight(rows, D, domain, s) /\ D \in SUBSET (1..height)
  BY <1>5 DEF DailyInv, DayBlocks
<1>7. PICK E, after : E = DayBlocks(d, height + 1)
                      /\ after = {r \in dailyRewards' : r.day = d /\ r.domain = domain /\ r.service = s}
  OBVIOUS
<1>8. E = IF DayOf(b) = d THEN D \cup {b} ELSE D
  BY <1>1, <1>2, <1>5, <1>7 DEF DayBlocks
<1>9. DayRight(after, E, domain, s)
  <2>1. CASE DayOf(b) # d
    <3>1. \A x, r : r = [day |-> DayOf(b), domain |-> x[1], service |-> x[2],
                         relays |-> JoinedRelays(ClaimsOfDay(b, x[1], x[2])),
                         suppliers |-> Cardinality(StakedInDay(b, x[1], x[2]))]
                    => r.day = DayOf(b)
      OBVIOUS
    <3>2. \A r : r.day = d => (r \in RefreshDomainServiceDailyRewards(b) <=> r \in dailyRewards)
      BY <2>1, <3>1 DEF RefreshDomainServiceDailyRewards, JoinedRelays
    <3>3. after = rows
      BY <1>3, <1>5, <1>7, <3>2 DEF RowsOf
    <3> QED
      BY <1>6, <1>8, <2>1, <3>3
  <2>2. CASE DayOf(b) = d /\ chain[b].settled = {}
    <3>1. after = rows
      BY <1>3, <1>4, <1>5, <1>7, <2>2 DEF RowsOf
    <3>2. DayRight(rows, D \cup {height + 1}, domain, s)
      BY <1>1, <1>2, <1>6, <2>2, NothingSettled
    <3> QED
      BY <1>2, <1>8, <2>2, <3>1, <3>2
  <2>3. CASE DayOf(b) = d /\ chain[b].settled # {}
    <3>1. after = {r \in RefreshDomainServiceDailyRewards(b) :
                     r.day = DayOf(b) /\ r.domain = domain /\ r.service = s}
      BY <1>3, <1>4, <1>7, <2>3
    <3>2. DayRight(after, BlocksSoFar(b), domain, s)
      BY <1>2, <3>1, DayRefreshed
    <3>3. BlocksSoFar(b) = E
      BY <1>2, <1>7, <2>3 DEF BlocksSoFar, DayBlocks
    <3> QED
      BY <3>2, <3>3
  <2> QED
    BY <2>1, <2>2, <2>3
<1>10. DayRight(after, E, domain, s)'
  <2>1. E \in SUBSET (1..(height + 1)) /\ E \subseteq 1..Len(chain)
    BY <1>1, <1>7 DEF DayBlocks
  <2>2. [Next]_vars
    BY DEF Next
  <2> QED
    BY <1>9, <2>1, <2>2, DayFrame
<1>11. DayBlocks(d, ReportsDone)' = E /\ RowsOf(d, domain, s)' = after
  BY <1>7 DEF DayBlocks, RowsOf, DayOf
<1> QED
  BY <1>10, <1>11 DEF DayRight, Settling, ClaimsOf, StakedBy

LEMMA DailyKept ==
    ASSUME StageInv, ReadInv, FewSuppliers, LateClaims = FALSE, DailyInv, [Next]_vars
    PROVE  DailyInv'
<1>1. CASE /\ GenerateReports /\ ReportsDone = height /\ ReportsDone' = height + 1
           /\ SuppliersDone = height + 1 /\ B = height + 1 /\ chain' = chain
           /\ Len(chain) = height + 1
  BY <1>1, DaysReported
<1>2. CASE RegenerateReports /\ ReportsDone = height /\ ReportsDone' = height
  <2>1. dailyRewards' = dailyRewards
    BY <1>2 DEF RegenerateReports, UpdateBlockReportsRange
  <2> QED
    BY <1>2, <2>1, DaysUntouched
<1>3. CASE ReportsDone' = ReportsDone /\ UNCHANGED reportTables
  BY <1>3, DaysUntouched DEF reportTables
<1> QED
  BY <1>1, <1>2, <1>3, ReportsSteps

LEMMA DailyImplied ==
    ASSUME StageInv, DailyInv
    PROVE  DailyRewardsMatchChain
<1> SUFFICES ASSUME NEW h \in Indexed, NEW domain \in Domains, NEW s \in Services,
                    stage = "primitives"
             PROVE  DayRight(RowsOf(DayOf(h), domain, s),
                             {b \in Indexed : DayOf(b) = DayOf(h)}, domain, s)
  BY DEF DailyRewardsMatchChain, DayRight, RowsOf, Settling, ClaimsOf, StakedBy
<1>1. DayOf(h) \in Int
  <2>1. h \in Int
    BY DEF Indexed, StageInv
  <2> QED
    BY <2>1, DaysTyped
<1>2. DayBlocks(DayOf(h), ReportsDone) = {b \in Indexed : DayOf(b) = DayOf(h)}
  BY DEF DayBlocks, ReportsDone, Indexed
<1> QED
  BY <1>1, <1>2 DEF DailyInv

\* Each claim settled in a day is counted once, for the domain its supplier had in
\* that block, and the suppliers staked with the domain are all counted: a day is
\* computed anew by each of its blocks that settles claims and kept by the others.
THEOREM DailyRewardsCorrect ==
    Spec /\ FewSuppliers /\ LateClaims = FALSE => []DailyRewardsMatchChain
<1>1. StageInv /\ DailyInv => DailyRewardsMatchChain
  BY DailyImplied
<1>2. CASE FewSuppliers /\ LateClaims = FALSE
  <2>1. Init => StageInv /\ ReadInv /\ DailyInv
    BY StageInitial, ReadInitial, DailyInitial
  <2>2. StageInv /\ ReadInv /\ DailyInv /\ [Next]_vars => StageInv' /\ ReadInv' /\ DailyInv'
    BY <1>2, StageKept, ReadKept, DailyKept
  <2> QED
    BY <1>1, <1>2, <2>1, <2>2, PTL DEF Spec
<1>3. CASE ~(FewSuppliers /\ LateClaims = FALSE)
  BY <1>3, PTL
<1> QED
  BY <1>2, <1>3

-----------------------------------------------------------------------------
(* Validators: the inductive invariant *)

ClosedOut == [status |-> "Unstaked", tokens |-> 0]

HasRow(rows, v) == rows[v] # Nil
IsStaked(rows, v) == HasRow(rows, v) /\ rows[v].status = "Staked"
IsUnstaking(rows, v) == HasRow(rows, v) /\ rows[v].status = "Unstaking"

Matured(v) == onChain[v] = [gone |-> "matured"]

\* A validator of the chain has a row, or its creation is still to be handled.
RowInv ==
    \A v \in Vals : InStore(v) =>
        /\ HasRow(db, v) \/ created[v] # Nil
        /\ pc = "reconcile" => HasRow(view, v)

\* Handlers only turn rows into staked ones, so one that is staked stays so until
\* the block is reconciled; and a row on record stays staked.
StakedInv ==
    \A v \in Vals :
        /\ IsStaked(db, v) => IsStaked(view, v)
        /\ v \in reported => IsStaked(db, v)

\* In the block it was created in, a validator may be bonded, once, and may be gone;
\* it cannot be unbonding.
CreatedInv ==
    \A v \in Vals : created[v] # Nil /\ InStore(v) =>
        \/ onChain[v].status = "UNBONDED"
        \/ onChain[v].status = "BONDED" /\ v \in moved

\* A validator matures in a block after the one its unbonding began in: a read
\* that had it in between moved its row to Unstaking, and no handler moves it back.
UnbondingInv ==
    \A v \in Vals : v \notin unread =>
        /\ InStore(v) /\ onChain[v].status = "UNBONDING" /\ v \notin moved => IsUnstaking(db, v)
        /\ Matured(v) => \A rows \in {db, view} : IsUnstaking(rows, v) \/ rows[v] = ClosedOut
MaturedInv == \A v \in Vals : Matured(v) => created[v] = Nil

IInv ==
    /\ TypeOK
    /\ RowInv /\ StakedInv /\ CreatedInv /\ UnbondingInv /\ MaturedInv
    /\ ListedMatchChain /\ MaturedAreClosed

-----------------------------------------------------------------------------
(* Lemmas about the store of the chain *)

\* A validator that is gone is not in the store, and has no status there.
LEMMA GoneIsAbsent ==
    ASSUME NEW how
    PROVE  [gone |-> how] \notin ChainVal
<1>1. SUFFICES ASSUME [gone |-> how] \in ChainVal PROVE FALSE
  OBVIOUS
<1>2. \A c \in ChainVal : DOMAIN c = {"status", "tokens"}
  BY DEF ChainVal
<1>3. DOMAIN [gone |-> how] = {"gone"}
  OBVIOUS
<1>4. "gone" \in {"status", "tokens"}
  BY <1>1, <1>2, <1>3
<1> QED
  BY <1>4

LEMMA MaturedIsAbsent ==
    ASSUME NEW v \in Vals, Matured(v)
    PROVE  ~InStore(v)
BY GoneIsAbsent DEF Matured, InStore

\* What an action of the chain does to the validator v, one by one.
ChainStep(v, to, crt) ==
    /\ Between /\ pc' = "chain"
    /\ v \notin moved
    /\ onChain' = [onChain EXCEPT ![v] = to]
    /\ to \in ChainVal \cup [gone : Absent]
    /\ created' = [created EXCEPT ![v] = crt]
    /\ crt \in (0..MaxTokens) \cup {Nil}
    /\ moved' \in {moved, moved \cup {v}}
    /\ UNCHANGED indexVars
    /\ \* MsgCreateValidator
       \/ crt # Nil /\ ~InStore(v) /\ to \in ChainVal /\ to.status = "UNBONDED" /\ moved' = moved
       \* the others: the validator was there
       \/ crt = created[v] /\ InStore(v) /\
          \* tokens change
          \/ to = [gone |-> "undelegated"] /\ moved' = moved
          \/ to \in ChainVal /\ to.status = onChain[v].status /\ moved' = moved
          \* the end-blocker
          \/ to \in ChainVal /\ to.status = "BONDED" /\ v \in moved'
          \/ /\ to \in ChainVal /\ to.status = "UNBONDING" /\ onChain[v].status = "BONDED"
             /\ v \in moved'
          \/ /\ \/ to = [gone |-> "matured"]
                \/ to \in ChainVal /\ to.status = "UNBONDED"
             /\ onChain[v].status = "UNBONDING" /\ v \in moved'

LEMMA ChainSteps ==
    ASSUME TypeOK, Chain
    PROVE  \E v \in Vals : \E to, crt : ChainStep(v, to, crt)
<1>0. \A c \in ChainVal : /\ c.status \in Bonds /\ c.tokens \in 0..MaxTokens
                          /\ \A b \in Bonds : [c EXCEPT !.status = b] \in ChainVal
                                              /\ [c EXCEPT !.status = b].status = b
                          /\ \A t \in 0..MaxTokens : [c EXCEPT !.tokens = t] \in ChainVal
                                                     /\ [c EXCEPT !.tokens = t].status = c.status
  BY DEF ChainVal
<1>1. PICK v \in Vals :
        \/ \E tokens \in 1..MaxTokens : ChainCreate(v, tokens)
        \/ \E tokens \in 0..MaxTokens : ChainTokens(v, tokens)
        \/ ChainBond(v) \/ ChainBeginUnbonding(v) \/ ChainMature(v)
  BY DEF Chain
<1>2. created = [created EXCEPT ![v] = created[v]] /\ created[v] \in (0..MaxTokens) \cup {Nil}
  BY DEF TypeOK
<1>3. ASSUME NEW tokens \in 1..MaxTokens, ChainCreate(v, tokens)
      PROVE  ChainStep(v, [status |-> "UNBONDED", tokens |-> tokens], tokens)
  <2>1. tokens \in 0..MaxTokens /\ tokens # Nil
    BY ValidatorsAssumption
  <2>2. [status |-> "UNBONDED", tokens |-> tokens] \in ChainVal
    BY <2>1 DEF ChainVal, Bonds
  <2> QED
    BY <1>3, <2>1, <2>2 DEF ChainCreate, Store, ChainStep
<1>4. ASSUME NEW tokens \in 0..MaxTokens, ChainTokens(v, tokens)
      PROVE  \E to : ChainStep(v, to, created[v])
  <2>1. CASE onChain[v].status = "UNBONDED" /\ tokens = 0
    <3>1. onChain' = [onChain EXCEPT ![v] = [gone |-> "undelegated"]]
      BY <1>4, <2>1 DEF ChainTokens, Store
    <3>2. [gone |-> "undelegated"] \in [gone : Absent]
      BY DEF Absent
    <3>3. ChainStep(v, [gone |-> "undelegated"], created[v])
      BY <1>2, <1>4, <3>1, <3>2 DEF ChainTokens, Store, ChainStep
    <3> QED
      BY <3>3
  <2>2. CASE ~(onChain[v].status = "UNBONDED" /\ tokens = 0)
    <3>1. onChain' = [onChain EXCEPT ![v] = [onChain[v] EXCEPT !.tokens = tokens]]
      BY <1>4, <2>2 DEF ChainTokens, Store
    <3>2. /\ [onChain[v] EXCEPT !.tokens = tokens] \in ChainVal
          /\ [onChain[v] EXCEPT !.tokens = tokens].status = onChain[v].status
      BY <1>0, <1>4 DEF ChainTokens, InStore
    <3>3. ChainStep(v, [onChain[v] EXCEPT !.tokens = tokens], created[v])
      BY <1>2, <1>4, <3>1, <3>2 DEF ChainTokens, Store, ChainStep
    <3> QED
      BY <3>3
  <2> QED
    BY <2>1, <2>2
<1>5. ASSUME ChainBond(v)
      PROVE  ChainStep(v, [onChain[v] EXCEPT !.status = "BONDED"], created[v])
  <2>1. /\ [onChain[v] EXCEPT !.status = "BONDED"] \in ChainVal
        /\ [onChain[v] EXCEPT !.status = "BONDED"].status = "BONDED"
    BY <1>0, <1>5 DEF ChainBond, InStore, Bonds
  <2> QED
    BY <1>2, <1>5, <2>1 DEF ChainBond, EndBlocker, Store, ChainStep
<1>6. ASSUME ChainBeginUnbonding(v)
      PROVE  ChainStep(v, [onChain[v] EXCEPT !.status = "UNBONDING"], created[v])
  <2>1. /\ [onChain[v] EXCEPT !.status = "UNBONDING"] \in ChainVal
        /\ [onChain[v] EXCEPT !.status = "UNBONDING"].status = "UNBONDING"
    BY <1>0, <1>6 DEF ChainBeginUnbonding, InStore, Bonds
  <2> QED
    BY <1>2, <1>6, <2>1 DEF ChainBeginUnbonding, EndBlocker, Store, ChainStep
<1>7. ASSUME ChainMature(v)
      PROVE  \E to : ChainStep(v, to, created[v])
  <2>1. CASE onChain[v].tokens = 0
    <3>1. EndBlocker(v, [gone |-> "matured"])
      BY <1>7, <2>1 DEF ChainMature
    <3>2. [gone |-> "matured"] \in [gone : Absent]
      BY DEF Absent
    <3>3. ChainStep(v, [gone |-> "matured"], created[v])
      BY <1>2, <1>7, <3>1, <3>2 DEF ChainMature, EndBlocker, Store, ChainStep
    <3> QED
      BY <3>3
  <2>2. CASE onChain[v].tokens # 0
    <3>1. EndBlocker(v, [onChain[v] EXCEPT !.status = "UNBONDED"])
      BY <1>7, <2>2 DEF ChainMature
    <3>2. /\ [onChain[v] EXCEPT !.status = "UNBONDED"] \in ChainVal
          /\ [onChain[v] EXCEPT !.status = "UNBONDED"].status = "UNBONDED"
      BY <1>0, <1>7 DEF ChainMature, InStore, Bonds
    <3>3. ChainStep(v, [onChain[v] EXCEPT !.status = "UNBONDED"], created[v])
      BY <1>2, <1>7, <3>1, <3>2 DEF ChainMature, EndBlocker, Store, ChainStep
    <3> QED
      BY <3>3
  <2> QED
    BY <2>1, <2>2
<1> QED
  BY <1>1, <1>3, <1>4, <1>5, <1>6, <1>7

-----------------------------------------------------------------------------
(* The steps *)

LEMMA InitEstablishes == ValidatorsInit => IInv
<1> SUFFICES ASSUME ValidatorsInit PROVE IInv
  OBVIOUS
<1>1. \A v \in Vals : ~InStore(v) /\ ~Matured(v)
  <2>1. \A v \in Vals : onChain[v] = [gone |-> "never"]
    BY DEF ValidatorsInit
  <2>2. [gone |-> "never"] # [gone |-> "matured"]
    <3>1. [gone |-> "never"].gone # [gone |-> "matured"].gone
      OBVIOUS
    <3> QED
      BY <3>1
  <2> QED
    BY <2>1, <2>2, GoneIsAbsent DEF InStore, Matured
<1>2. TypeOK
  <2>1. [gone |-> "never"] \in [gone : Absent]
    BY DEF Absent
  <2> QED
    BY <2>1 DEF ValidatorsInit, TypeOK
<1>3. RowInv /\ StakedInv /\ CreatedInv /\ UnbondingInv /\ MaturedInv
  BY <1>1 DEF ValidatorsInit, RowInv, StakedInv, CreatedInv, UnbondingInv, MaturedInv, IsStaked, HasRow
<1>4. ListedMatchChain /\ MaturedAreClosed
  BY <1>1 DEF ValidatorsInit, ListedMatchChain, MaturedAreClosed, Matured
<1> QED
  BY <1>2, <1>3, <1>4 DEF IInv

LEMMA ChainKeeps ==
    ASSUME IInv, Chain
    PROVE  IInv'
<1>0. PICK v \in Vals : \E to, crt : ChainStep(v, to, crt)
  BY ChainSteps DEF IInv
<1>1. PICK to, crt : ChainStep(v, to, crt)
  BY <1>0
<1>2. /\ pc \in {"indexed", "chain"} /\ pc' = "chain" /\ view = db
      /\ db' = db /\ view' = view /\ reported' = reported /\ unread' = unread /\ failed' = failed
  BY <1>1 DEF ChainStep, Between, indexVars, IInv, TypeOK
<1>3. /\ onChain'[v] = to /\ \A w \in Vals \ {v} : onChain'[w] = onChain[w]
      /\ created'[v] = crt /\ \A w \in Vals \ {v} : created'[w] = created[w]
      /\ \A w \in Vals \ {v} : w \in moved' <=> w \in moved
  BY <1>1 DEF ChainStep, IInv, TypeOK
<1>4. TypeOK'
  BY <1>1, <1>2 DEF ChainStep, IInv, TypeOK
<1>5. /\ to = [gone |-> "undelegated"] => to \notin ChainVal /\ to # [gone |-> "matured"]
      /\ to = [gone |-> "matured"] => to \notin ChainVal
      /\ to \in ChainVal => to # [gone |-> "matured"]
  <2>1. [gone |-> "undelegated"].gone # [gone |-> "matured"].gone
    OBVIOUS
  <2> QED
    BY <2>1, GoneIsAbsent
<1>6. \A w \in Vals \ {v} : (InStore(w) <=> InStore(w)') /\ (Matured(w) <=> Matured(w)')
  BY <1>3 DEF InStore, Matured
<1>7. (InStore(v)' <=> to \in ChainVal) /\ (Matured(v)' <=> to = [gone |-> "matured"])
  BY <1>3 DEF InStore, Matured
<1>8. RowInv'
  <2> SUFFICES ASSUME NEW w \in Vals, InStore(w)' PROVE HasRow(db, w) \/ created'[w] # Nil
    BY <1>2 DEF RowInv, HasRow
  <2>1. CASE w = v
    BY <1>1, <1>3, <2>1 DEF ChainStep, IInv, RowInv
  <2>2. CASE w # v
    BY <1>3, <1>6, <2>2 DEF IInv, RowInv
  <2> QED
    BY <2>1, <2>2
<1>9. StakedInv'
  BY <1>2 DEF IInv, StakedInv, IsStaked, HasRow
<1>10. CreatedInv'
  <2> SUFFICES ASSUME NEW w \in Vals, created'[w] # Nil, InStore(w)'
               PROVE  \/ onChain'[w].status = "UNBONDED"
                      \/ onChain'[w].status = "BONDED" /\ w \in moved'
    BY DEF CreatedInv
  <2>1. CASE w = v
    <3>1. CASE ~InStore(v)
      BY <1>1, <1>3, <2>1, <3>1 DEF ChainStep
    <3>2. CASE InStore(v)
      <4>1. crt = created[v]
        BY <1>1, <3>2 DEF ChainStep
      <4>2. onChain[v].status = "UNBONDED"
        BY <1>1, <1>3, <2>1, <3>2, <4>1 DEF ChainStep, IInv, CreatedInv
      <4>3. to.status \in {"UNBONDED", "BONDED"} /\ (to.status = "BONDED" => v \in moved')
        BY <1>1, <1>3, <1>5, <1>7, <2>1, <3>2, <4>2 DEF ChainStep
      <4> QED
        BY <1>3, <2>1, <4>3
    <3> QED
      BY <3>1, <3>2
  <2>2. CASE w # v
    BY <1>3, <1>6, <2>2 DEF IInv, CreatedInv
  <2> QED
    BY <2>1, <2>2
<1>11. UnbondingInv'
  <2> SUFFICES ASSUME NEW w \in Vals, w \notin unread
               PROVE  /\ InStore(w)' /\ onChain'[w].status = "UNBONDING" /\ w \notin moved'
                            => IsUnstaking(db, w)
                      /\ Matured(w)' => IsUnstaking(db, w) \/ db[w] = ClosedOut
    BY <1>2 DEF UnbondingInv, IsUnstaking, HasRow, ClosedOut
  <2>1. CASE w = v
    <3>1. ASSUME InStore(w)', onChain'[w].status = "UNBONDING", w \notin moved'
          PROVE  IsUnstaking(db, w)
      <4>1. InStore(v) /\ onChain[v].status = "UNBONDING" /\ v \notin moved
        BY <1>1, <1>3, <1>5, <1>7, <2>1, <3>1 DEF ChainStep
      <4> QED
        BY <2>1, <4>1 DEF IInv, UnbondingInv
    <3>2. ASSUME Matured(w)' PROVE IsUnstaking(db, w)
      <4>1. InStore(v) /\ onChain[v].status = "UNBONDING" /\ v \notin moved
        BY <1>1, <1>5, <1>7, <2>1, <3>2 DEF ChainStep
      <4> QED
        BY <2>1, <4>1 DEF IInv, UnbondingInv
    <3> QED
      BY <3>1, <3>2
  <2>2. CASE w # v
    BY <1>3, <1>6, <2>2 DEF IInv, UnbondingInv
  <2> QED
    BY <2>1, <2>2
<1>12. MaturedInv'
  <2> SUFFICES ASSUME NEW w \in Vals, Matured(w)' PROVE created'[w] = Nil
    BY DEF MaturedInv
  <2>1. CASE w = v
    <3>1. InStore(v) /\ onChain[v].status = "UNBONDING" /\ v \notin moved /\ crt = created[v]
      BY <1>1, <1>5, <1>7, <2>1 DEF ChainStep
    <3>2. created[v] = Nil
      BY <3>1 DEF IInv, CreatedInv
    <3> QED
      BY <1>3, <2>1, <3>1, <3>2
  <2>2. CASE w # v
    BY <1>3, <1>6, <2>2 DEF IInv, MaturedInv
  <2> QED
    BY <2>1, <2>2
<1>13. ListedMatchChain' /\ MaturedAreClosed'
  BY <1>2 DEF ListedMatchChain, MaturedAreClosed
<1> QED
  BY <1>4, <1>8, <1>9, <1>10, <1>11, <1>12, <1>13 DEF IInv

LEMMA BeginKeeps ==
    ASSUME IInv, BeginBlock
    PROVE  IInv'
BY DEF BeginBlock, Between, chainVars, indexVars, IInv, TypeOK, RowInv, StakedInv, CreatedInv,
       UnbondingInv, MaturedInv, ListedMatchChain, MaturedAreClosed, InStore, Matured, HasRow,
       IsStaked, IsUnstaking

LEMMA HandleKeeps ==
    ASSUME IInv, HandleValidatorMsgCreate
    PROVE  IInv'
<1>1. /\ pc = "handle" /\ pc' = "reconcile" /\ view = db
      /\ UNCHANGED <<onChain, moved, created, db, reported, unread, failed>>
  BY DEF HandleValidatorMsgCreate, chainVars, IInv, TypeOK
<1>2. \A v \in Vals : \/ created[v] = Nil /\ view'[v] = db[v]
                      \/ created[v] # Nil /\ view'[v] = [status |-> "Staked", tokens |-> created[v]]
  BY <1>1 DEF HandleValidatorMsgCreate
<1>3. \A v \in Vals : created[v] # Nil => [status |-> "Staked", tokens |-> created[v]] \in Row
  BY DEF IInv, TypeOK, Row
<1>4. TypeOK'
  <2>1. view' \in [Vals -> Row \cup {Nil}]
    <3>1. \A v \in Vals : view'[v] \in Row \cup {Nil}
      BY <1>2, <1>3 DEF IInv, TypeOK
    <3>2. view' = [v \in Vals |-> view'[v]]
      BY DEF HandleValidatorMsgCreate
    <3> QED
      BY <3>1, <3>2
  <2> QED
    BY <1>1, <2>1 DEF IInv, TypeOK
<1>5. \A v \in Vals : created[v] # Nil => IsStaked(view', v)
  <2> SUFFICES ASSUME NEW v \in Vals, created[v] # Nil PROVE IsStaked(view', v)
    OBVIOUS
  <2>1. view'[v] \in Row /\ view'[v] = [status |-> "Staked", tokens |-> created[v]]
    BY <1>2, <1>3
  <2>2. view'[v].status = "Staked"
    BY <2>1
  <2>3. view'[v] # Nil
    BY <2>1, ValidatorsAssumption
  <2> QED
    BY <2>2, <2>3 DEF IsStaked, HasRow
<1>6. RowInv'
  BY <1>1, <1>2, <1>5 DEF IInv, RowInv, InStore, HasRow, IsStaked
<1>7. StakedInv'
  BY <1>1, <1>2, <1>5 DEF IInv, StakedInv, HasRow, IsStaked
<1>8. CreatedInv' /\ MaturedInv'
  BY <1>1 DEF IInv, CreatedInv, MaturedInv, InStore, Matured
<1>9. UnbondingInv'
  <2>1. \A v \in Vals : Matured(v) => view'[v] = view[v]
    BY <1>1, <1>2 DEF IInv, MaturedInv
  <2> QED
    BY <1>1, <2>1 DEF IInv, UnbondingInv, InStore, Matured, IsUnstaking, HasRow
<1>10. ListedMatchChain' /\ MaturedAreClosed'
  BY <1>1 DEF ListedMatchChain, MaturedAreClosed
<1> QED
  BY <1>4, <1>6, <1>7, <1>8, <1>9, <1>10 DEF IInv

LEMMA CrashKeeps ==
    ASSUME IInv, Crash
    PROVE  IInv'
<1>1. /\ pc' = "handle" /\ view' = db /\ reported' = {}
      /\ UNCHANGED <<onChain, moved, created, db, unread, failed>>
  BY DEF Crash, chainVars
<1>2. TypeOK'
  BY <1>1 DEF IInv, TypeOK
<1>3. RowInv' /\ StakedInv' /\ CreatedInv' /\ MaturedInv'
  BY <1>1 DEF IInv, RowInv, StakedInv, CreatedInv, MaturedInv, InStore, Matured, IsStaked, HasRow
<1>4. UnbondingInv'
  BY <1>1 DEF IInv, UnbondingInv, InStore, Matured, IsUnstaking, HasRow
<1>5. ListedMatchChain' /\ MaturedAreClosed'
  BY <1>1 DEF ListedMatchChain, MaturedAreClosed
<1> QED
  BY <1>2, <1>3, <1>4, <1>5 DEF IInv

LEMMA StutterKeeps ==
    ASSUME IInv, UNCHANGED validatorVars
    PROVE  IInv'
BY DEF validatorVars, IInv, TypeOK, RowInv, StakedInv, CreatedInv, UnbondingInv, MaturedInv,
       ListedMatchChain, MaturedAreClosed, InStore, InSync, Matured, HasRow, IsStaked, IsUnstaking

\* The row a validator has after a read: that of the chain when it was listed.
LEMMA ReconciledRow ==
    ASSUME IInv, pc = "reconcile", NEW listed, listed \subseteq {w \in Vals : InStore(w)},
           NEW v \in Vals
    PROVE  /\ Reconciled(v, listed) \in Row \cup {Nil}
           /\ v \in listed => /\ InStore(v) /\ view[v] # Nil
                              /\ Reconciled(v, listed) = [status |-> StatusFor[onChain[v].status],
                                                          tokens |-> onChain[v].tokens]
                              /\ Reconciled(v, listed) \in Row
           /\ v \notin listed => Reconciled(v, listed) = IF IsUnstaking(view, v) THEN ClosedOut ELSE view[v]
<1>1. ClosedOut \in Row /\ view[v] \in Row \cup {Nil}
  BY ValidatorsAssumption DEF IInv, TypeOK, ClosedOut, Row
<1>2. ASSUME v \in listed
      PROVE  /\ InStore(v) /\ view[v] # Nil
             /\ Reconciled(v, listed) = [status |-> StatusFor[onChain[v].status],
                                         tokens |-> onChain[v].tokens]
             /\ Reconciled(v, listed) \in Row
  <2>1. InStore(v) /\ view[v] # Nil
    BY <1>2 DEF IInv, RowInv, HasRow
  <2>2. onChain[v].status \in Bonds /\ onChain[v].tokens \in 0..MaxTokens
    BY <2>1 DEF InStore, ChainVal
  <2>3. /\ MapBondStatus(onChain[v].status) = StatusFor[onChain[v].status]
        /\ StatusFor[onChain[v].status] \in {"Staked", "Unstaking", "Unstaked"}
    BY <2>2 DEF MapBondStatus, StatusFor, Bonds
  <2>4. Reconciled(v, listed) = [status |-> MapBondStatus(onChain[v].status),
                                 tokens |-> onChain[v].tokens]
    BY <1>2, <2>1 DEF Reconciled
  <2> QED
    BY <2>1, <2>2, <2>3, <2>4 DEF Row
<1>3. ASSUME v \notin listed
      PROVE  Reconciled(v, listed) = IF IsUnstaking(view, v) THEN ClosedOut ELSE view[v]
  BY <1>3 DEF Reconciled, Tracked, IsUnstaking, HasRow, ClosedOut
<1> QED
  BY <1>1, <1>2, <1>3

LEMMA ReconcileKeeps ==
    ASSUME IInv, NEW listed, listed \subseteq {w \in Vals : InStore(w)}, Reconcile(listed)
    PROVE  IInv'
<1>1. /\ pc = "reconcile" /\ pc' = "indexed" /\ failed' = FALSE
      /\ onChain' = onChain /\ moved' = {} /\ db' = view'
      /\ db' = [v \in Vals |-> Reconciled(v, listed)]
      /\ created' = [v \in Vals |-> Nil]
      /\ reported' = Reported(listed)
      /\ unread' = {v \in Vals : IF InStore(v) THEN v \notin listed ELSE v \in unread}
  BY DEF Reconcile, Read, Committed
<1>2. \A v \in Vals :
        /\ v \in listed => /\ InStore(v) /\ db'[v] \in Row
                           /\ db'[v] = [status |-> StatusFor[onChain[v].status],
                                        tokens |-> onChain[v].tokens]
        /\ v \notin listed => db'[v] = IF IsUnstaking(view, v) THEN ClosedOut ELSE view[v]
        /\ db'[v] \in Row \cup {Nil}
  BY <1>1, ReconciledRow
<1>3. Nil \notin Row /\ ClosedOut \in Row /\ ClosedOut.status = "Unstaked"
  BY ValidatorsAssumption DEF ClosedOut, Row
<1>4. \A v \in Vals : (InStore(v) <=> InStore(v)') /\ (Matured(v) <=> Matured(v)')
  BY <1>1 DEF InStore, Matured
<1>5. TypeOK'
  <2>1. db' \in [Vals -> Row \cup {Nil}]
    BY <1>1, <1>2
  <2>2. reported' \subseteq Vals
    BY <1>1 DEF IInv, TypeOK, Reported
  <2> QED
    BY <1>1, <2>1, <2>2 DEF IInv, TypeOK
<1>6. RowInv'
  <2> SUFFICES ASSUME NEW v \in Vals, InStore(v) PROVE db'[v] # Nil
    BY <1>1, <1>4 DEF RowInv, HasRow
  <2>1. view[v] # Nil
    BY <1>1 DEF IInv, RowInv, HasRow
  <2> QED
    BY <1>2, <1>3, <2>1
\* The staked rows the read did not list are left alone, and are those on record.
<1>7. \A v \in Vals \ listed : IsStaked(db', v) <=> IsStaked(view, v)
  BY <1>2, <1>3 DEF IsStaked, IsUnstaking, HasRow
<1>8. \A v \in Vals : Tracked(v) /\ view[v].status # "Unstaking" <=> IsStaked(view, v)
  BY DEF Tracked, IsStaked, HasRow
<1>9. \A v \in Vals : v \in reported' <=> v \notin listed /\ IsStaked(view, v)
  <2>1. \A v \in Vals : v \in reported' <=>
          v \notin listed /\ (v \in reported \/ IsStaked(view, v))
    BY <1>1, <1>8 DEF Reported
  <2> QED
    BY <2>1 DEF IInv, StakedInv
<1>10. StakedInv'
  BY <1>1, <1>7, <1>9 DEF StakedInv, IsStaked, HasRow
<1>11. CreatedInv' /\ MaturedInv'
  BY <1>1 DEF CreatedInv, MaturedInv
<1>12. UnbondingInv'
  <2> SUFFICES ASSUME NEW v \in Vals, v \notin unread'
               PROVE  /\ InStore(v) /\ onChain[v].status = "UNBONDING" => IsUnstaking(db', v)
                      /\ Matured(v) => IsUnstaking(db', v) \/ db'[v] = ClosedOut
    BY <1>1, <1>4 DEF UnbondingInv, IsUnstaking, HasRow, ClosedOut
  <2>1. ASSUME InStore(v), onChain[v].status = "UNBONDING" PROVE IsUnstaking(db', v)
    <3>1. v \in listed
      BY <1>1, <2>1
    <3>2. StatusFor["UNBONDING"] = "Unstaking"
      BY DEF StatusFor
    <3>3. /\ db'[v] \in Row
          /\ db'[v] = [status |-> StatusFor[onChain[v].status], tokens |-> onChain[v].tokens]
      BY <1>2, <3>1
    <3>4. db'[v].status = "Unstaking"
      BY <2>1, <3>2, <3>3
    <3>5. db'[v] # Nil
      BY <1>3, <3>3
    <3> QED
      BY <3>4, <3>5 DEF IsUnstaking, HasRow
  <2>2. ASSUME Matured(v) PROVE db'[v] = ClosedOut
    <3>1. v \notin listed /\ v \notin unread
      BY <1>1, <2>2, MaturedIsAbsent
    <3>2. IsUnstaking(view, v) \/ view[v] = ClosedOut
      BY <2>2, <3>1 DEF IInv, UnbondingInv
    <3> QED
      BY <1>2, <3>1, <3>2
  <2> QED
    BY <2>1, <2>2
<1>13. ListedMatchChain'
  <2>1. ASSUME NEW v \in Vals, InStore(v), v \notin unread'
        PROVE  db'[v] = [status |-> StatusFor[onChain'[v].status], tokens |-> onChain'[v].tokens]
    <3>1. v \in listed
      BY <1>1, <2>1
    <3> QED
      BY <1>1, <1>2, <3>1
  <2>2. ASSUME \A v \in unread' : ~InStore(v)
        PROVE  reported' = {v \in Vals : ~InStore(v) /\ db'[v] # Nil /\ db'[v].status = "Staked"}
    <3>1. \A v \in Vals : v \in listed <=> InStore(v)
      BY <1>1, <2>2
    <3>2. reported' \subseteq Vals
      BY <1>5 DEF TypeOK
    <3>3. \A v \in Vals : v \in reported' <=> ~InStore(v) /\ IsStaked(db', v)
      BY <1>7, <1>9, <3>1
    <3> QED
      BY <3>2, <3>3 DEF IsStaked, HasRow
  <2> QED
    BY <1>4, <2>1, <2>2, <1>5 DEF ListedMatchChain, InSync, TypeOK
<1>14. MaturedAreClosed'
  <2> SUFFICES ASSUME NEW v \in Vals, Matured(v), v \notin unread' PROVE db'[v] = ClosedOut
    BY <1>1 DEF MaturedAreClosed, Matured, ClosedOut
  <2>1. v \notin listed /\ v \notin unread
    BY <1>1, MaturedIsAbsent
  <2>2. IsUnstaking(view, v) \/ view[v] = ClosedOut
    BY <2>1 DEF IInv, UnbondingInv
  <2> QED
    BY <1>2, <2>1, <2>2
<1> QED
  BY <1>5, <1>6, <1>10, <1>11, <1>12, <1>13, <1>14 DEF IInv

LEMMA ReadFailedKeeps ==
    ASSUME IInv, ReadFailed
    PROVE  IInv'
<1>1. /\ pc = "reconcile" /\ pc' = "indexed" /\ failed' = TRUE
      /\ onChain' = onChain /\ moved' = {} /\ db' = view /\ view' = view
      /\ created' = [v \in Vals |-> Nil] /\ reported' = reported
      /\ unread' = {v \in Vals : IF InStore(v) THEN TRUE ELSE v \in unread}
  BY DEF ReadFailed, Read, Committed
<1>2. \A v \in Vals : (InStore(v) <=> InStore(v)') /\ (Matured(v) <=> Matured(v)')
  BY <1>1 DEF InStore, Matured
<1>3. TypeOK'
  BY <1>1 DEF IInv, TypeOK
<1>4. RowInv' /\ StakedInv' /\ CreatedInv' /\ MaturedInv'
  BY <1>1, <1>2 DEF IInv, RowInv, StakedInv, CreatedInv, MaturedInv, HasRow, IsStaked
<1>5. UnbondingInv'
  BY <1>1, <1>2 DEF IInv, UnbondingInv, HasRow, IsUnstaking
<1>6. ListedMatchChain' /\ MaturedAreClosed'
  BY <1>1, <1>2 DEF ListedMatchChain, MaturedAreClosed
<1> QED
  BY <1>3, <1>4, <1>5, <1>6 DEF IInv

LEMMA NextKeeps == IInv /\ [ValidatorsNext]_validatorVars => IInv'
<1> SUFFICES ASSUME IInv, [ValidatorsNext]_validatorVars PROVE IInv'
  OBVIOUS
<1>1. CASE Chain
  BY <1>1, ChainKeeps
<1>2. CASE BeginBlock
  BY <1>2, BeginKeeps
<1>3. CASE HandleValidatorMsgCreate
  BY <1>3, HandleKeeps
<1>4. CASE ReconcileValidators
  BY <1>4, ReconcileKeeps DEF ReconcileValidators
<1>5. CASE ReconcilePartial
  BY <1>5, ReconcileKeeps DEF ReconcilePartial
<1>6. CASE ReadFailed
  BY <1>6, ReadFailedKeeps
<1>7. CASE Crash
  BY <1>7, CrashKeeps
<1>8. CASE UNCHANGED validatorVars
  BY <1>8, StutterKeeps
<1> QED
  BY <1>1, <1>2, <1>3, <1>4, <1>5, <1>6, <1>7, <1>8 DEF ValidatorsNext

-----------------------------------------------------------------------------
(* The theorems *)

LEMMA Invariance == ValidatorsSpec => []IInv
BY InitEstablishes, NextKeeps, PTL DEF ValidatorsSpec

\* After every block, whatever reads failed, were partial, or were rolled back
\* before, the rows reconcileValidators has listed agree with the chain, and the
\* rows it refuses to close are the ones on record.
THEOREM ListedCorrect == ValidatorsSpec => []ListedMatchChain
<1>1. IInv => ListedMatchChain
  BY DEF IInv
<1> QED
  BY <1>1, Invariance, PTL

\* A validator the chain removed at the end of its unbonding is closed out by the
\* next answered read of reconcileValidators, if the last read that could have it did.
THEOREM MaturedCorrect == ValidatorsSpec => []MaturedAreClosed
<1>1. IInv => MaturedAreClosed
  BY DEF IInv
<1> QED
  BY <1>1, Invariance, PTL

\* No row goes from Staked to Unstaked unless the chain has the validator unbonded:
\* reconcileValidators closes only rows that are Unstaking when it runs.
THEOREM WipedNever == ValidatorsSpec => StakedNeverWiped
<1>1. ASSUME IInv, [ValidatorsNext]_validatorVars
      PROVE  [\A v \in Vals :
                db[v] # Nil /\ db[v].status = "Staked" /\ db'[v].status = "Unstaked"
                    => InStore(v) /\ onChain[v].status = "UNBONDED"]_db
  <2> SUFFICES ASSUME db' # db, NEW v \in Vals, IsStaked(db, v), db'[v].status = "Unstaked"
               PROVE  InStore(v) /\ onChain[v].status = "UNBONDED"
    BY DEF IsStaked, HasRow
  <2>1. IsStaked(view, v)
    BY <1>1 DEF IInv, StakedInv
  <2>2. ASSUME NEW listed, listed \subseteq {w \in Vals : InStore(w)}, Reconcile(listed)
        PROVE  InStore(v) /\ onChain[v].status = "UNBONDED"
    <3>1. pc = "reconcile" /\ db'[v] = Reconciled(v, listed)
      BY <2>2 DEF Reconcile, Committed
    <3>2. v \in listed
      BY <1>1, <2>1, <2>2, <3>1, ReconciledRow DEF IsStaked, IsUnstaking
    <3>3. InStore(v) /\ StatusFor[onChain[v].status] = "Unstaked"
      BY <1>1, <2>2, <3>1, <3>2, ReconciledRow
    <3>4. onChain[v].status \in Bonds
      BY <3>3 DEF InStore, ChainVal
    <3> QED
      BY <3>3, <3>4 DEF StatusFor, Bonds
  <2>3. CASE ReadFailed
    BY <2>1, <2>3 DEF ReadFailed, Committed, IsStaked
  <2>4. CASE Chain
    <3>1. db' = db
      BY <1>1, <2>4, ChainSteps DEF IInv, ChainStep, indexVars
    <3> QED
      BY <3>1
  <2> QED
    BY <1>1, <2>2, <2>3, <2>4 DEF ValidatorsNext, validatorVars, BeginBlock, indexVars, HandleValidatorMsgCreate,
       Crash, ReconcileValidators, ReconcilePartial
<1> QED
  BY <1>1, Invariance, PTL DEF ValidatorsSpec, StakedNeverWiped
=============================================================================
