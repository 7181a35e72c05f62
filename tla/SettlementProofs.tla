-------------------------- MODULE SettlementProofs --------------------------
(***************************************************************************)
(* Proofs about Settlement, for any pairs, services, claims, rewards and   *)
(* ratios, and any number of blocks and failed attempts.                   *)
(***************************************************************************)
EXTENDS Settlement, SequenceTheorems, Sums

-----------------------------------------------------------------------------
(* The chain *)

SameBlocks(old, new, n) == \A h \in 1..n : new[h] = old[h]

\* What holds of every finalized block, of one that is in its place already, and
\* of the events the chain gave it.
BlockOK(h) ==
    LET b == chain[h]
    IN  /\ IsBlock(b)
        /\ b.form = 1 => b.ratio = None
        /\ \A g \in 1..h : chain[g].form <= b.form
        /\ b.events = [k \in DOMAIN b.claims |->
                          Attributes(b.claims[k], FormAt(b.form), RatioAt(h))]
        /\ ~Repeats => \A k, l \in DOMAIN b.claims : k # l => b.claims[k].pair # b.claims[l].pair
        /\ \A i, j \in DOMAIN b.messages :
              i # j => \/ b.messages[i].pair # b.messages[j].pair
                       \/ b.messages[i].service # b.messages[j].service
        /\ ~Mixed => b.claims = <<>> \/ b.rewards = {}

ChainInv ==
    /\ chain \in Seq({chain[h] : h \in 1..Len(chain)})
    /\ \A h \in 1..Len(chain) : BlockOK(h)

LEMMA DataOK ==
    ASSUME NEW d \in Settling \cup Rewarding \cup Creating
    PROVE  /\ d.claims \in Seq(Claim) /\ d.messages \in Seq(Claim) /\ d.rewards \subseteq Rewards
           /\ ~Repeats => \A k, l \in DOMAIN d.claims : k # l => d.claims[k].pair # d.claims[l].pair
           /\ \A i, j \in DOMAIN d.messages :
                 i # j => \/ d.messages[i].pair # d.messages[j].pair
                          \/ d.messages[i].service # d.messages[j].service
           /\ ~Mixed => d.claims = <<>> \/ d.rewards = {}
<1>1. CASE d \in Settling
  <2>1. PICK c \in Settleable, r \in IF Mixed THEN SUBSET Rewards ELSE {{}} :
          d = [claims |-> c, rewards |-> r, messages |-> <<>>]
    BY <1>1 DEF Settling
  <2>2. c \in Seq(Claim)
        /\ (~Repeats => \A k, l \in DOMAIN c : k # l => c[k].pair # c[l].pair)
    <3>1. CASE c \in {<<e>> : e \in Claim}
      <4>1. PICK e \in Claim : c = <<e>>
        BY <3>1
      <4> QED
        BY <4>1
    <3>2. CASE c \in {t \in Claim \X Claim : Repeats \/ t[1].pair # t[2].pair}
      <4>1. PICK x \in Claim, y \in Claim : c = <<x, y>> /\ (Repeats \/ x.pair # y.pair)
        BY <3>2
      <4> QED
        BY <4>1
    <3> QED
      BY <2>1, <3>1, <3>2 DEF Settleable
  <2>3. r \subseteq Rewards /\ (~Mixed => r = {})
    BY <2>1
  <2>4. d.claims = c /\ d.rewards = r /\ d.messages = <<>>
    BY <2>1
  <2> QED
    BY <2>2, <2>3, <2>4
<1>2. CASE d \in Rewarding
  <2>1. d.claims = <<>> /\ d.rewards \subseteq Rewards /\ d.messages = <<>>
    BY <1>2 DEF Rewarding
  <2> QED
    BY <2>1
<1>3. CASE d \in Creating
  <2>1. PICK m \in Creatable : d = [claims |-> <<>>, rewards |-> {}, messages |-> m]
    BY <1>3 DEF Creating
  <2>2. PICK x \in Claim, y \in Claim :
          m = <<x, y>> /\ (x.pair # y.pair \/ x.service # y.service)
    BY <2>1 DEF Creatable
  <2>3. d.claims = <<>> /\ d.rewards = {} /\ d.messages = m
    BY <2>1
  <2> QED
    BY <2>2, <2>3
<1> QED
  BY <1>1, <1>2, <1>3

-----------------------------------------------------------------------------
(* The mint ratio in force *)

Updates(blocks, h) == {k \in 1..h : blocks[k].ratio # None}

\* The parameter as the chain has it after the block at height h.
StoredIn(blocks, h) ==
    IF Updates(blocks, h) = {} THEN None ELSE blocks[Max(Updates(blocks, h))].ratio

Stored(h) == StoredIn(chain, h)

LEMMA LastUpdate ==
    ASSUME NEW blocks, NEW h \in Nat, Updates(blocks, h) # {}
    PROVE  /\ Max(Updates(blocks, h)) \in Updates(blocks, h)
           /\ \A k \in Updates(blocks, h) : k <= Max(Updates(blocks, h))
<1>1. IsFiniteSet(Updates(blocks, h)) /\ Updates(blocks, h) \subseteq Int
  <2>1. Updates(blocks, h) \subseteq 1..h
    BY DEF Updates
  <2>2. IsFiniteSet(1..h)
    BY FS_Interval
  <2>3. IsFiniteSet(Updates(blocks, h))
    BY <2>1, <2>2, FS_Subset
  <2> QED
    BY <2>1, <2>3
<1> QED
  BY <1>1, Extremes

LEMMA RatioIsStored ==
    ASSUME NEW blocks, NEW h \in Nat
    PROVE  RatioIn(blocks, h) = Or(StoredIn(blocks, h), 2)
<1>1. CASE Updates(blocks, h) = {}
  BY <1>1 DEF RatioIn, StoredIn, Or, Updates
<1>2. CASE Updates(blocks, h) # {}
  <2>1. blocks[Max(Updates(blocks, h))].ratio # None
    BY <1>2, LastUpdate DEF Updates
  <2> QED
    BY <1>2, <2>1 DEF RatioIn, StoredIn, Or, Updates
<1> QED
  BY <1>1, <1>2

\* Blocks that follow change nothing.
LEMMA StoredSame ==
    ASSUME NEW old, NEW new, NEW h \in Nat, \A k \in 1..h : new[k].ratio = old[k].ratio
    PROVE  StoredIn(new, h) = StoredIn(old, h) /\ RatioIn(new, h) = RatioIn(old, h)
<1>1. Updates(new, h) = Updates(old, h)
  BY DEF Updates
<1>2. StoredIn(new, h) = StoredIn(old, h)
  <2>1. CASE Updates(old, h) = {}
    BY <1>1, <2>1 DEF StoredIn
  <2>2. CASE Updates(old, h) # {}
    <3>1. Max(Updates(old, h)) \in 1..h
      BY <2>2, LastUpdate DEF Updates
    <3> QED
      BY <1>1, <2>2, <3>1 DEF StoredIn
  <2> QED
    BY <2>1, <2>2
<1> QED
  BY <1>2, RatioIsStored

LEMMA StoredNext ==
    ASSUME NEW blocks, NEW h \in Nat \ {0}
    PROVE  StoredIn(blocks, h) = Or(blocks[h].ratio, StoredIn(blocks, h - 1))
<1>1. CASE blocks[h].ratio = None
  <2>1. Updates(blocks, h) = Updates(blocks, h - 1)
    BY <1>1 DEF Updates
  <2> QED
    BY <1>1, <2>1 DEF StoredIn, Or
<1>2. CASE blocks[h].ratio # None
  <2>1. h \in Updates(blocks, h)
    BY <1>2 DEF Updates
  <2>2. Max(Updates(blocks, h)) \in 1..h /\ h <= Max(Updates(blocks, h))
    BY <2>1, LastUpdate DEF Updates
  <2>3. Max(Updates(blocks, h)) = h
    BY <2>2
  <2> QED
    BY <1>2, <2>1, <2>3 DEF StoredIn, Or
<1> QED
  BY <1>1, <1>2

LEMMA StoredType ==
    ASSUME NEW h \in 0..Len(chain), Len(chain) \in Nat, ChainInv
    PROVE  Stored(h) \in Ratios \cup {None} /\ RatioAt(h) \in Ratios \cup {2}
<1>1. CASE Updates(chain, h) = {}
  BY <1>1, RatioIsStored DEF Stored, StoredIn, Or, RatioAt
<1>2. CASE Updates(chain, h) # {}
  <2>0. h \in Nat
    OBVIOUS
  <2>1. Max(Updates(chain, h)) \in 1..h /\ chain[Max(Updates(chain, h))].ratio # None
    BY <1>2, <2>0, LastUpdate DEF Updates
  <2> DEFINE m == Max(Updates(chain, h))
  <2>2. chain[Max(Updates(chain, h))].ratio \in Ratios
    <3>1. m \in 1..Len(chain) /\ chain[m].ratio # None
      BY <2>0, <2>1
    <3> HIDE DEF m
    <3>2. IsBlock(chain[m])
      BY <3>1 DEF ChainInv, BlockOK
    <3>3. chain[m].ratio \in Ratios
      BY <3>1, <3>2 DEF IsBlock
    <3> QED
      BY <3>3 DEF m
  <2> QED
    BY <1>2, <2>1, <2>2, RatioIsStored DEF Stored, StoredIn, Or, RatioAt
<1> QED
  BY <1>1, <1>2

-----------------------------------------------------------------------------
(* The chain only grows *)

LEMMA ChainSame ==
    ASSUME ChainInv, chain' = chain
    PROVE  ChainInv' /\ \A h : RatioAt(h)' = RatioAt(h) /\ Stored(h)' = Stored(h)
<1>1. \A h : RatioAt(h)' = RatioAt(h) /\ Stored(h)' = Stored(h)
  BY DEF RatioAt, Stored
<1>2. \A h \in 1..Len(chain) : BlockOK(h)'
  BY <1>1 DEF ChainInv, BlockOK
<1> QED
  BY <1>1, <1>2 DEF ChainInv

LEMMA LastFormIs ==
    ASSUME ChainInv
    PROVE  /\ Len(chain) \in Nat /\ LastForm \in 1..3
           /\ \A g \in 1..Len(chain) : chain[g].form \in 1..3 /\ chain[g].form <= LastForm
<1>1. Len(chain) \in Nat /\ (chain # <<>> => Len(chain) \in 1..Len(chain))
  BY DEF ChainInv
<1>2. \A g \in 1..Len(chain) : chain[g].form \in 1..3
  BY DEF ChainInv, BlockOK, IsBlock
<1>3. CASE chain = <<>>
  BY <1>1, <1>3 DEF LastForm
<1>4. CASE chain # <<>>
  <2>1. BlockOK(Len(chain))
    BY <1>1, <1>4 DEF ChainInv
  <2>2. \A g \in 1..Len(chain) : chain[g].form <= chain[Len(chain)].form
    BY <2>1 DEF BlockOK
  <2> QED
    BY <1>1, <1>2, <1>4, <2>2 DEF LastForm
<1> QED
  BY <1>3, <1>4

LEMMA ChainGrows ==
    ASSUME ChainInv, Produce
    PROVE  /\ ChainInv' /\ Len(chain') = Len(chain) + 1 /\ Len(chain) \in Nat
           /\ \A h \in 1..Len(chain) : chain'[h] = chain[h]
           /\ \A h \in 0..Len(chain) : RatioAt(h)' = RatioAt(h) /\ Stored(h)' = Stored(h)
<1>0. PICK n \in Nat : n = Len(chain)
  BY LastFormIs
<1>1. PICK form \in LastForm..3, data \in Settling \cup Rewarding \cup Creating,
           ratio \in Ratios \cup {None} :
        (form = 1 => ratio = None) /\ chain' = Append(chain, Finalized(form, ratio, data))
  BY DEF Produce
<1> DEFINE new == Finalized(form, ratio, data)
           marked == Append(chain, [ratio |-> ratio])
<1>2. n \in Nat /\ form \in 1..3 /\ \A g \in 1..n : chain[g].form \in 1..3 /\ chain[g].form <= form
  BY <1>0, LastFormIs
<1>3. /\ chain' \in Seq({chain[h] : h \in 1..n} \cup {new})
      /\ Len(chain') = n + 1 /\ chain'[n + 1] = new
      /\ \A h \in 1..n : chain'[h] = chain[h]
  <2>0. \A s, S, e : s \in Seq(S) => /\ Append(s, e) \in Seq(S \cup {e})
                                    /\ Len(Append(s, e)) = Len(s) + 1
                                    /\ Append(s, e)[Len(s) + 1] = e
                                    /\ \A h \in 1..Len(s) : Append(s, e)[h] = s[h]
    OBVIOUS
  <2> HIDE DEF new
  <2> QED
    BY <1>0, <1>1, <2>0 DEF ChainInv, new
<1>4. /\ Len(marked) = n + 1 /\ marked[n + 1].ratio = ratio
      /\ \A h \in 1..n : marked[h] = chain[h]
  BY <1>0 DEF ChainInv
<1>5. /\ new.form = form /\ new.ratio = ratio /\ new.claims = data.claims
      /\ new.rewards = data.rewards /\ new.messages = data.messages
      /\ new.events = [k \in DOMAIN data.claims |->
                          Attributes(data.claims[k], FormAt(form), RatioIn(marked, n + 1))]
  BY <1>0 DEF Finalized
<1> HIDE DEF new, marked
<1>6. RatioIn(marked, n + 1) = RatioIn(chain', n + 1)
  <2>1. \A k \in 1..(n + 1) : chain'[k].ratio = marked[k].ratio
    BY <1>2, <1>3, <1>4, <1>5
  <2> QED
    BY <1>2, <2>1, StoredSame
<1>7. \A h \in 0..n : RatioAt(h)' = RatioAt(h) /\ Stored(h)' = Stored(h)
  <2> SUFFICES ASSUME NEW h \in 0..n
               PROVE  RatioIn(chain', h) = RatioIn(chain, h) /\ StoredIn(chain', h) = StoredIn(chain, h)
    BY DEF RatioAt, Stored
  <2>1. h \in Nat /\ \A k \in 1..h : chain'[k].ratio = chain[k].ratio
    BY <1>2, <1>3
  <2> QED
    BY <2>1, StoredSame
<1>8. \A h \in 1..n : BlockOK(h)'
  <2> SUFFICES ASSUME NEW h \in 1..n PROVE BlockOK(h)'
    OBVIOUS
  <2>1. BlockOK(h) /\ chain'[h] = chain[h] /\ RatioAt(h)' = RatioAt(h)
    BY <1>0, <1>3, <1>7 DEF ChainInv
  <2>2. \A g \in 1..h : chain'[g] = chain[g]
    BY <1>2, <1>3
  <2> QED
    BY <2>1, <2>2 DEF BlockOK
<1>9. BlockOK(n + 1)'
  <2>1. IsBlock(new)
    <3>1. ratio \in Ratios \cup {None}
      BY <1>1
    <3> QED
      BY <1>2, <1>5, <3>1, DataOK DEF IsBlock
  <2>2. new.events = [k \in DOMAIN new.claims |->
                        Attributes(new.claims[k], FormAt(new.form), RatioAt(n + 1)')]
    BY <1>5, <1>6 DEF RatioAt
  <2>3. new.form = 1 => new.ratio = None
    BY <1>1, <1>5
  <2>4. \A g \in 1..(n + 1) : chain'[g].form <= new.form
    BY <1>2, <1>3, <1>5
  <2>5. /\ ~Repeats => \A k, l \in DOMAIN new.claims :
                          k # l => new.claims[k].pair # new.claims[l].pair
        /\ \A i, j \in DOMAIN new.messages :
              i # j => \/ new.messages[i].pair # new.messages[j].pair
                       \/ new.messages[i].service # new.messages[j].service
        /\ ~Mixed => new.claims = <<>> \/ new.rewards = {}
    BY <1>5, DataOK
  <2> QED
    BY <1>3, <2>1, <2>2, <2>3, <2>4, <2>5 DEF BlockOK
<1>10. chain' \in Seq({chain'[h] : h \in 1..Len(chain')})
  BY <1>3
<1>11. \A h \in 1..Len(chain') : BlockOK(h)'
  <2> SUFFICES ASSUME NEW h \in 1..(n + 1) PROVE BlockOK(h)'
    BY <1>3
  <2>1. h \in 1..n \/ h = n + 1
    OBVIOUS
  <2> QED
    BY <1>8, <1>9, <2>1
<1> QED
  BY <1>0, <1>2, <1>3, <1>7, <1>10, <1>11 DEF ChainInv

-----------------------------------------------------------------------------
(* Types, and the parameter: as the last block left it, or this one sets it *)

TypeInv ==
    /\ height \in Nat /\ height \in {Len(chain) - 1, Len(chain)} /\ crashes \in 0..MaxCrashes
    /\ pending \subseteq Waiting \cup Handlers \cup Writes
    /\ "begin" \in pending => pending = Waiting
    /\ pending # Waiting => Indexing

ParamInv ==
    /\ param = Stored(height)
    /\ cached = IF pending = Waiting THEN param ELSE Stored(B)

RowsInv == \A r \in created \cup settled \cup transfers \cup summary : r.blockId \in 1..Len(chain)

BaseInv == ChainInv /\ TypeInv /\ ParamInv /\ RowsInv

LEMMA Blocks ==
    ASSUME ChainInv, TypeInv
    PROVE  /\ Len(chain) \in Nat /\ height \in 0..Len(chain) /\ height \in Nat /\ B = Len(chain)
           /\ Indexing => B \in 1..Len(chain) /\ B = height + 1 /\ B - 1 = height
           /\ ~Indexing => height = Len(chain)
           /\ pending # Waiting => Indexing
<1>1. Len(chain) \in Nat
  BY DEF ChainInv
<1> QED
  BY <1>1 DEF TypeInv, B, Indexing

\* What a bulk insert leaves, of this block and of the others.
LEMMA ReplacedIs ==
    ASSUME NEW table, NEW rows, \A r \in rows : r.blockId = B,
           \A r, s \in rows : r.id = s.id => r = s
    PROVE  /\ \A r \in Replaced(table, rows) : r \in table \/ r.blockId = B
           /\ \A h : h # B => At(Replaced(table, rows), h) = At(table, h)
           /\ At(Replaced(table, rows), B) = IF rows = {} THEN At(table, B) ELSE rows
<1>1. CASE rows = {}
  BY <1>1 DEF Replaced
<1>2. CASE rows # {}
  <2>1. \A r \in rows : r = CHOOSE s \in rows : s.id = r.id
    <3> SUFFICES ASSUME NEW r \in rows PROVE r = CHOOSE s \in rows : s.id = r.id
      OBVIOUS
    <3>1. \E s \in rows : s.id = r.id
      OBVIOUS
    <3> QED
      BY <3>1
  <2>2. {r \in rows : r = CHOOSE s \in rows : s.id = r.id} = rows
    BY <2>1
  <2>3. Replaced(table, rows) = {r \in table : r.blockId # B} \cup rows
    BY <1>2, <2>2 DEF Replaced
  <2> QED
    BY <1>2, <2>3 DEF At
<1> QED
  BY <1>1, <1>2

LEMMA RowsInBlock ==
    /\ \A r \in {SettledRow(k) : k \in DOMAIN Data.events} : r.blockId = B
    /\ \A r \in {CreatedRow(i) : i \in DOMAIN Data.messages} : r.blockId = B
    /\ \A r \in ClaimTransfers : r.blockId = B
    /\ \A r \in RewardTransfers : r.blockId = B
    /\ \A records : \A r \in Summarized(records) : r.blockId = B
<1>1. \A r \in {SettledRow(k) : k \in DOMAIN Data.events} : r.blockId = B
  BY DEF SettledRow
<1>2. \A r \in {CreatedRow(i) : i \in DOMAIN Data.messages} : r.blockId = B
  BY DEF CreatedRow
<1>3. \A r \in ClaimTransfers : r.blockId = B
  BY DEF ClaimTransfers, Transfer
<1>4. \A r \in RewardTransfers : r.blockId = B
  BY DEF RewardTransfers, Transfer
<1>5. ASSUME NEW records, NEW r \in Summarized(records) PROVE r.blockId = B
  <2>1. PICK key : r = SummaryRow({t \in records : SummaryKey(t) = key})
    BY <1>5 DEF Summarized
  <2> QED
    BY <2>1 DEF SummaryRow
<1> QED
  BY <1>1, <1>2, <1>3, <1>4, <1>5

\* A bulk insert adds rows of the block only.
LEMMA ReplacedIn ==
    ASSUME NEW table, NEW rows, \A r \in rows : r.blockId = B
    PROVE  \A r \in Replaced(table, rows) : r \in table \/ r.blockId = B
BY DEF Replaced

LEMMA BaseInit == Init => BaseInv
<1> SUFFICES ASSUME Init PROVE BaseInv
  OBVIOUS
<1>1. chain = <<>> /\ Len(chain) = 0 /\ height = 0
  BY DEF Init
<1>2. ChainInv
  BY <1>1 DEF ChainInv
<1>3. TypeInv /\ RowsInv
  BY <1>1, SettlementAssumption DEF Init, TypeInv, RowsInv, Indexing, Waiting
<1>4. Stored(0) = None
  BY DEF Stored, StoredIn, Updates
<1>5. ParamInv
  BY <1>1, <1>4 DEF Init, ParamInv
<1> QED
  BY <1>2, <1>3, <1>5 DEF BaseInv

LEMMA TypeStep ==
    ASSUME ChainInv, TypeInv, [Next]_vars
    PROVE  TypeInv'
<1>0. /\ Len(chain) \in Nat /\ height \in 0..Len(chain) /\ height \in Nat /\ B = Len(chain)
      /\ Indexing => B = height + 1
      /\ ~Indexing => height = Len(chain)
  BY Blocks
<1> USE DEF TypeInv
<1>1. CASE Produce
  BY <1>0, <1>1, ChainGrows DEF Produce, Indexing
<1>2. CASE BeginBlock
  BY <1>2 DEF BeginBlock, Called, Handlers, Waiting, Indexing
<1>3. ASSUME NEW handler, NEW writes, writes \subseteq Writes, Handled(handler, writes),
             handler \in Handlers
      PROVE  TypeInv'
  <2>1. handler \in pending /\ handler # "begin"
    BY <1>3 DEF Handled, Handlers
  <2>2. pending # Waiting /\ "begin" \notin pending
    BY <2>1 DEF Waiting
  <2>3. "begin" \notin pending'
    BY <1>3, <2>2 DEF Handled, Writes
  <2> QED
    BY <1>3, <2>2, <2>3 DEF Handled, Indexing
<1>4. ASSUME NEW write \in Writes \cup Handlers, Written(write)
      PROVE  TypeInv'
  <2>1. write \in pending /\ write # "begin"
    BY <1>4 DEF Written, Handlers, Writes
  <2>2. pending # Waiting /\ "begin" \notin pending
    BY <2>1 DEF Waiting
  <2>3. "begin" \notin pending'
    BY <1>4, <2>2 DEF Written
  <2> QED
    BY <1>4, <2>2, <2>3 DEF Written, Indexing
<1>5. CASE Commit
  BY <1>0, <1>5 DEF Commit, Waiting, Indexing
<1>6. CASE Crash
  BY <1>6, SettlementAssumption DEF Crash, Waiting, Indexing
<1>7. CASE UNCHANGED vars
  BY <1>7 DEF vars, Indexing
<1>8. CASE HandleMsgCreateClaim
  BY <1>4, <1>8 DEF HandleMsgCreateClaim, Handlers
<1>9. CASE HandleEventClaimSettled
  BY <1>3, <1>9 DEF HandleEventClaimSettled, Handlers, Writes
<1>10. CASE HandleEventSettlementBatch
  BY <1>3, <1>10 DEF HandleEventSettlementBatch, Handlers, Writes
<1>11. CASE WriteSettled
  BY <1>4, <1>11 DEF WriteSettled, Writes
<1>12. CASE WriteTransfers("claimTransfers", ClaimTransfers)
  BY <1>4, <1>12 DEF WriteTransfers, Writes
<1>13. CASE WriteTransfers("rewardTransfers", RewardTransfers)
  BY <1>4, <1>13 DEF WriteTransfers, Writes
<1>14. CASE WriteSummary("claimSummary", ClaimTransfers)
  BY <1>4, <1>14 DEF WriteSummary, Writes
<1>15. CASE WriteSummary("rewardSummary", RewardTransfers)
  BY <1>4, <1>15 DEF WriteSummary, Writes
<1> QED
  BY <1>1, <1>2, <1>5, <1>6, <1>7, <1>8, <1>9, <1>10, <1>11, <1>12, <1>13, <1>14, <1>15
     DEF Next, Handler

LEMMA ParamStep ==
    ASSUME ChainInv, TypeInv, ParamInv, [Next]_vars
    PROVE  ParamInv'
<1>0. /\ Len(chain) \in Nat /\ height \in 0..Len(chain) /\ height \in Nat /\ B = Len(chain)
      /\ Indexing => B \in 1..Len(chain) /\ B = height + 1 /\ B - 1 = height
      /\ ~Indexing => height = Len(chain)
      /\ pending # Waiting => Indexing
  BY Blocks
<1>1. CASE Produce
  <2>1. pending = Waiting /\ pending' = pending /\ height' = height
        /\ param' = param /\ cached' = cached
    BY <1>0, <1>1 DEF Produce
  <2>2. Stored(height)' = Stored(height)
    BY <1>0, <1>1, <2>1, ChainGrows DEF Stored
  <2> QED
    BY <2>1, <2>2 DEF ParamInv
<1>2. ASSUME chain' = chain
      PROVE  Stored(height') = StoredIn(chain', height') /\ Stored(B)' = Stored(B) /\ B' = B
  BY <1>2 DEF Stored, B
<1>3. CASE BeginBlock
  <2>1. Indexing /\ pending = Waiting /\ cached' = Or(Data.ratio, param)
        /\ chain' = chain /\ height' = height /\ param' = param
    BY <1>3 DEF BeginBlock
  <2>2. Stored(B) = Or(chain[B].ratio, Stored(B - 1))
    BY <1>0, <2>1, StoredNext DEF Stored
  <2>3. cached' = Stored(B)
    BY <1>0, <2>1, <2>2 DEF ParamInv, Data
  <2>4. pending' # Waiting
    BY <1>3 DEF BeginBlock, Called, Handlers, Waiting
  <2> QED
    BY <1>2, <2>1, <2>3, <2>4 DEF ParamInv, Stored
<1>4. ASSUME NEW handler \in Handlers \cup Writes, handler \in pending, "begin" \notin pending',
             chain' = chain, height' = height, param' = param, cached' = cached
      PROVE  ParamInv'
  <2>1. pending # Waiting /\ pending' # Waiting
    BY <1>4 DEF Waiting, Handlers, Writes
  <2> QED
    BY <1>2, <1>4, <2>1 DEF ParamInv, Stored
<1>5. ASSUME NEW handler \in Handlers, NEW writes \in SUBSET Writes, Handled(handler, writes)
      PROVE  ParamInv'
  <2>1. "begin" \notin pending
    BY <1>5 DEF Handled, Handlers, TypeInv, Waiting
  <2>2. "begin" \notin pending'
    BY <1>5, <2>1 DEF Handled, Writes
  <2> QED
    BY <1>4, <1>5, <2>2 DEF Handled
<1>6. ASSUME NEW write \in Writes \cup Handlers, Written(write)
      PROVE  ParamInv'
  <2>1. "begin" \notin pending
    BY <1>6 DEF Written, Handlers, Writes, TypeInv, Waiting
  <2> QED
    BY <1>4, <1>6, <2>1 DEF Written
<1>7. CASE Commit
  <2>1. Indexing /\ pending = {} /\ chain' = chain /\ height' = B /\ param' = cached
        /\ pending' = Waiting /\ cached' = cached
    BY <1>7 DEF Commit
  <2>2. cached = Stored(B)
    BY <2>1 DEF ParamInv, Waiting
  <2>3. Stored(height)' = Stored(B)
    BY <1>0, <2>1 DEF Stored, B
  <2> QED
    BY <2>1, <2>2, <2>3 DEF ParamInv
<1>8. CASE Crash
  BY <1>2, <1>8 DEF Crash, ParamInv, Stored
<1>9. CASE UNCHANGED vars
  BY <1>2, <1>9 DEF vars, ParamInv, Stored
<1>10. CASE HandleMsgCreateClaim
  BY <1>6, <1>10 DEF HandleMsgCreateClaim, Handlers
<1>11. CASE HandleEventClaimSettled
  BY <1>5, <1>11 DEF HandleEventClaimSettled, Handlers, Writes
<1>12. CASE HandleEventSettlementBatch
  BY <1>5, <1>12 DEF HandleEventSettlementBatch, Handlers, Writes
<1>13. CASE WriteSettled
  BY <1>6, <1>13 DEF WriteSettled, Writes
<1>14. CASE WriteTransfers("claimTransfers", ClaimTransfers)
  BY <1>6, <1>14 DEF WriteTransfers, Writes
<1>15. CASE WriteTransfers("rewardTransfers", RewardTransfers)
  BY <1>6, <1>15 DEF WriteTransfers, Writes
<1>16. CASE WriteSummary("claimSummary", ClaimTransfers)
  BY <1>6, <1>16 DEF WriteSummary, Writes
<1>17. CASE WriteSummary("rewardSummary", RewardTransfers)
  BY <1>6, <1>17 DEF WriteSummary, Writes
<1> QED
  BY <1>1, <1>3, <1>7, <1>8, <1>9, <1>10, <1>11, <1>12, <1>13, <1>14, <1>15, <1>16, <1>17
     DEF Next, Handler

LEMMA RowsStep ==
    ASSUME ChainInv, TypeInv, RowsInv, [Next]_vars
    PROVE  RowsInv'
<1>0. /\ Len(chain) \in Nat /\ B = Len(chain) /\ (Indexing => B \in 1..Len(chain))
      /\ pending # Waiting => Indexing
  BY Blocks
<1> USE DEF RowsInv
<1>1. CASE Produce
  BY <1>0, <1>1, ChainGrows DEF Produce, tables
<1>2. CASE UNCHANGED <<chain, created, settled, transfers, summary>>
  BY <1>2
<1>3. ASSUME NEW write \in Writes \cup Handlers, Written(write)
      PROVE  B \in 1..Len(chain) /\ chain' = chain
  BY <1>0, <1>3 DEF Written, Waiting, Writes, Handlers
<1>4. CASE HandleMsgCreateClaim
  <2>1. B \in 1..Len(chain) /\ chain' = chain
    BY <1>3, <1>4 DEF HandleMsgCreateClaim, Handlers
  <2>2. \A r \in created' : r \in created \/ r.blockId = B
    BY <1>4, RowsInBlock, ReplacedIn DEF HandleMsgCreateClaim
  <2> QED
    BY <1>4, <2>1, <2>2 DEF HandleMsgCreateClaim
<1>5. CASE WriteSettled
  <2>1. B \in 1..Len(chain) /\ chain' = chain
    BY <1>3, <1>5 DEF WriteSettled, Writes
  <2>2. \A r \in settled' : r \in settled \/ r.blockId = B
    BY <1>5, RowsInBlock, ReplacedIn DEF WriteSettled
  <2> QED
    BY <1>5, <2>1, <2>2 DEF WriteSettled
<1>6. ASSUME NEW write \in Writes, NEW records, WriteTransfers(write, records),
             \A r \in records : r.blockId = B
      PROVE  RowsInv'
  <2>1. B \in 1..Len(chain) /\ chain' = chain
    BY <1>3, <1>6 DEF WriteTransfers
  <2>2. \A r \in transfers' : r \in transfers \/ r.blockId = B
    BY <1>6, ReplacedIn DEF WriteTransfers
  <2> QED
    BY <1>6, <2>1, <2>2 DEF WriteTransfers
<1>7. ASSUME NEW write \in Writes, NEW records, WriteSummary(write, records)
      PROVE  RowsInv'
  <2>1. B \in 1..Len(chain) /\ chain' = chain
    BY <1>3, <1>7 DEF WriteSummary
  <2>2. \A r \in summary' : r \in summary \/ r.blockId = B
    BY <1>7, RowsInBlock, ReplacedIn DEF WriteSummary
  <2> QED
    BY <1>7, <2>1, <2>2 DEF WriteSummary
<1>8. WriteTransfers("claimTransfers", ClaimTransfers) => RowsInv'
  BY <1>6, RowsInBlock DEF Writes
<1>9. WriteTransfers("rewardTransfers", RewardTransfers) => RowsInv'
  BY <1>6, RowsInBlock DEF Writes
<1>10. WriteSummary("claimSummary", ClaimTransfers) \/ WriteSummary("rewardSummary", RewardTransfers)
       => RowsInv'
  BY <1>7 DEF Writes
<1>11. BeginBlock \/ HandleEventClaimSettled \/ HandleEventSettlementBatch \/ Commit \/ Crash
       \/ UNCHANGED vars => UNCHANGED <<chain, created, settled, transfers, summary>>
  BY DEF BeginBlock, HandleEventClaimSettled, HandleEventSettlementBatch, Handled, Commit, Crash,
         vars, tables
<1> QED
  BY <1>1, <1>2, <1>4, <1>5, <1>8, <1>9, <1>10, <1>11 DEF Next, Handler

LEMMA BaseStep == BaseInv /\ [Next]_vars => BaseInv'
<1> SUFFICES ASSUME BaseInv, [Next]_vars PROVE BaseInv'
  OBVIOUS
<1>1. ChainInv'
  <2>1. CASE Produce
    BY <2>1, ChainGrows DEF BaseInv
  <2>2. CASE ~Produce
    <3>1. chain' = chain
      BY <2>2 DEF Next, Handler, Crash, vars, BeginBlock, Commit, HandleMsgCreateClaim, Written,
            HandleEventClaimSettled, HandleEventSettlementBatch, Handled, WriteSettled,
            WriteTransfers, WriteSummary
    <3> QED
      BY <3>1, ChainSame DEF BaseInv
  <2> QED
    BY <2>1, <2>2
<1> QED
  BY <1>1, TypeStep, ParamStep, RowsStep DEF BaseInv

LEMMA BaseTypes == BaseInv => TypeOK
<1> SUFFICES ASSUME BaseInv PROVE TypeOK
  OBVIOUS
<1>1. \A h \in 1..Len(chain) : IsBlock(chain[h])
  BY DEF BaseInv, ChainInv, BlockOK
<1>2. {param, cached} \subseteq Ratios \cup {None}
  <2>1. Stored(height) \in Ratios \cup {None} /\ Stored(B) \in Ratios \cup {None}
    BY Blocks, StoredType DEF BaseInv
  <2> QED
    BY <2>1 DEF BaseInv, ParamInv
<1> QED
  BY <1>1, <1>2 DEF TypeOK, BaseInv, TypeInv, RowsInv

\* The chain finalizes blocks of the kinds it has, the indexer is at most one block
\* behind, and it knows no mint ratio that the chain has not set, whatever attempts
\* fail: the block transaction is the only writer of the parameter.
THEOREM TypeCorrect == Spec => []TypeOK
<1>1. Init => BaseInv
  BY BaseInit
<1>2. BaseInv /\ [Next]_vars => BaseInv'
  BY BaseStep
<1> QED
  BY <1>1, <1>2, BaseTypes, PTL DEF Spec

-----------------------------------------------------------------------------
(* Relays that are estimated for a claim *)

LEMMA Quotient ==
    ASSUME NEW q \in Nat, NEW d \in Nat \ {0}, NEW r \in 0..(d - 1)
    PROVE  (q * d + r) \div d = q
<1> DEFINE a == q * d + r
           p == a \div d
<1>1. a \in Nat /\ p \in Int /\ d * p <= a /\ a < d * p + d
  <2>1. q * d \in Nat
    OBVIOUS
  <2>2. a \in Nat
    BY <2>1
  <2> HIDE DEF a
  <2> QED
    BY <2>2
<1>2. \A x, y \in Int : x <= y => d * x <= d * y
  OBVIOUS
<1>3. ~(p < q)
  <2> SUFFICES ASSUME p + 1 <= q PROVE FALSE
    BY <1>1
  <2>1. d * (p + 1) <= d * q
    BY <1>1, <1>2
  <2>2. d * (p + 1) = d * p + d /\ d * q = q * d
    BY <1>1
  <2> QED
    BY <1>1, <2>1, <2>2
<1>4. ~(q < p)
  <2> SUFFICES ASSUME q + 1 <= p PROVE FALSE
    BY <1>1
  <2>1. d * (q + 1) <= d * p
    BY <1>1, <1>2
  <2>2. d * (q + 1) = q * d + d /\ d * p \in Int /\ q * d \in Int
    BY <1>1
  <2> QED
    BY <1>1, <2>1, <2>2
<1>5. p = q
  BY <1>1, <1>3, <1>4
<1> QED
  BY <1>5

LEMMA WorkFields ==
    ASSUME NEW w \in Works
    PROVE  /\ w.relays \in Nat /\ w.claimed \in Nat /\ w.settled \in Nat /\ w.inflation \in Nat
           /\ w.settled <= w.claimed /\ (w.settled = 0 => w.inflation = 0)
BY SettlementAssumption

\* Rounding gives back the relays the chain estimated, which the event of an older
\* form gives as compute units only.
LEMMA EstimatedIs ==
    ASSUME NEW w \in Works, NEW e \in {None, Estimated(w)}
    PROVE  NumEstimatedRelays(e, Estimated(w) * UnitsPerRelay, w.relays * UnitsPerRelay, w.relays)
           = Estimated(w)
<1> DEFINE n == Estimated(w)
           U == UnitsPerRelay
<1>1. n \in Nat /\ n # None /\ U \in Nat \ {0} /\ w.relays \in Nat
      /\ (w.relays = 0 => n = 0)
  BY WorkFields, SettlementAssumption DEF Estimated
<1>2. CASE e # None
  BY <1>1, <1>2 DEF NumEstimatedRelays
<1>3. CASE e = None /\ w.relays = 0
  BY <1>1, <1>3 DEF NumEstimatedRelays
<1>4. CASE e = None /\ w.relays # 0
  <2>1. (U * w.relays + 0) \div w.relays = U
    BY <1>1, <1>4, Quotient
  <2>2. w.relays * U = U * w.relays + 0
    BY <1>1
  <2>3. (w.relays * U) \div w.relays = U
    BY <2>1, <2>2
  <2>4. 2 * U \in Nat \ {0} /\ U \in 0..(2 * U - 1)
    BY <1>1
  <2>5. (n * (2 * U) + U) \div (2 * U) = n
    BY <1>1, <2>4, Quotient
  <2>6. 2 * (n * U) + U = n * (2 * U) + U
    BY <1>1
  <2>7. (2 * (n * U) + U) \div (2 * U) = n
    BY <2>5, <2>6
  <2> QED
    BY <1>1, <1>4, <2>3, <2>7 DEF NumEstimatedRelays
<1> QED
  BY <1>2, <1>3, <1>4

-----------------------------------------------------------------------------
(* Claims that are created *)

CreatedOK(h) ==
    {<<r.id[2], r.numRelays, r.claimedAmount, r.numEstimatedRelays>> : r \in At(created, h)}
    = {LET w == chain[h].messages[i].work
       IN  <<i, w.relays, w.claimed, Estimated(w)>> : i \in DOMAIN chain[h].messages}

\* What a failed attempt leaves of the block that is indexed, the next replaces; a
\* block without messages has left nothing.
CreatedInv ==
    /\ \A h \in 1..height : CreatedOK(h)
    /\ Indexing => /\ Data.messages = <<>> => At(created, B) = {}
                   /\ {"begin", "messages"} \cap pending = {} => CreatedOK(B)

LEMMA CreatedRowIs ==
    ASSUME ChainInv, B \in 1..Len(chain), NEW i \in DOMAIN Data.messages
    PROVE  LET w == Data.messages[i].work
               r == CreatedRow(i)
           IN  /\ r.id = <<B, i>> /\ r.blockId = B /\ r.numRelays = w.relays
               /\ r.claimedAmount = w.claimed /\ r.numEstimatedRelays = Estimated(w)
<1> DEFINE m == Data.messages[i]
           about == {k \in DOMAIN Data.messages : /\ Data.messages[k].pair = m.pair
                                                  /\ Data.messages[k].service = m.service}
<1>1. BlockOK(B) /\ Data = chain[B]
  BY DEF ChainInv, Data
<1>2. Data.messages \in Seq(Claim)
  BY <1>1 DEF BlockOK, IsBlock
<1>3. m \in Claim /\ m.work \in Works
  <2>1. m \in Claim
    BY <1>2
  <2> HIDE DEF m
  <2> QED
    BY <2>1 DEF Claim
<1>4. about = {i}
  BY <1>1 DEF BlockOK
<1>5. Min(about) = i
  <2>1. i \in Int
    BY <1>2
  <2>2. \A x : {x} # {} /\ \A y \in {x} : y = x
    OBVIOUS
  <2>3. IsFiniteSet({i}) /\ {i} \subseteq Int /\ {i} # {}
    BY <2>1, FS_Singleton
  <2>4. Min({i}) \in {i}
    BY <2>3, Extremes
  <2> QED
    BY <1>4, <2>4
<1>6. EventOf(m) = m
  BY <1>5 DEF EventOf
<1> DEFINE new == IF Form = "detailed" THEN Estimated(m.work) ELSE None
<1>7. NumEstimatedRelays(new, Estimated(m.work) * UnitsPerRelay,
                         m.work.relays * UnitsPerRelay, m.work.relays) = Estimated(m.work)
  BY <1>3, EstimatedIs
<1> QED
  BY <1>6, <1>7 DEF CreatedRow

LEMMA CreatedWritten ==
    ASSUME BaseInv, CreatedInv, HandleMsgCreateClaim
    PROVE  CreatedOK(B)' /\ \A h : h # B => At(created, h)' = At(created, h)
<1>1. chain' = chain /\ B' = B /\ B \in 1..Len(chain) /\ Indexing
  BY Blocks DEF BaseInv, HandleMsgCreateClaim, Written, Waiting, B
<1> DEFINE rows == {CreatedRow(i) : i \in DOMAIN Data.messages}
<1>2. \A i \in DOMAIN Data.messages :
        LET w == Data.messages[i].work
            r == CreatedRow(i)
        IN  /\ r.id = <<B, i>> /\ r.blockId = B /\ r.numRelays = w.relays
            /\ r.claimedAmount = w.claimed /\ r.numEstimatedRelays = Estimated(w)
  BY <1>1, CreatedRowIs DEF BaseInv
<1>3. (\A r \in rows : r.blockId = B) /\ \A r, s \in rows : r.id = s.id => r = s
  BY <1>2
<1>4. created' = Replaced(created, rows)
  BY DEF HandleMsgCreateClaim
<1>5. /\ \A h : h # B => At(created', h) = At(created, h)
      /\ At(created', B) = IF rows = {} THEN At(created, B) ELSE rows
  <2> HIDE DEF rows
  <2> QED
    BY <1>3, <1>4, ReplacedIs
<1>6. At(created', B) = rows
  <2>1. Data.messages \in Seq(Claim)
    BY <1>1 DEF BaseInv, ChainInv, BlockOK, IsBlock, Data
  <2>2. CASE Data.messages = <<>>
    <3>1. rows = {}
      BY <2>2
    <3>2. At(created, B) = {}
      BY <1>1, <2>2 DEF CreatedInv
    <3> QED
      BY <1>5, <3>1, <3>2
  <2>3. CASE Data.messages # <<>>
    <3>1. 1 \in DOMAIN Data.messages
      BY <2>1, <2>3
    <3>2. rows # {}
      BY <3>1
    <3> QED
      BY <1>5, <3>2
  <2> QED
    BY <2>2, <2>3
<1>7. {<<r.id[2], r.numRelays, r.claimedAmount, r.numEstimatedRelays>> : r \in rows}
      = {LET w == chain[B].messages[i].work
         IN  <<i, w.relays, w.claimed, Estimated(w)>> : i \in DOMAIN chain[B].messages}
  BY <1>2 DEF Data
<1> QED
  BY <1>1, <1>5, <1>6, <1>7 DEF CreatedOK, At

\* A step that writes no claim, and is not the last nor the first of the block.
LEMMA CreatedKept ==
    ASSUME BaseInv, CreatedInv, chain' = chain, created' = created, height' = height,
           Indexing => {"begin", "messages"} \cap pending \subseteq pending'
    PROVE  CreatedInv'
<1>1. \A h : CreatedOK(h)' <=> CreatedOK(h)
  BY DEF CreatedOK, At
<1>2. B' = B /\ Data' = Data /\ Indexing' = Indexing
  BY DEF B, Data, Indexing
<1> QED
  BY <1>1, <1>2 DEF CreatedInv, At

LEMMA CreatedStep ==
    ASSUME BaseInv, CreatedInv, [Next]_vars
    PROVE  CreatedInv'
<1>0. /\ Len(chain) \in Nat /\ height \in 0..Len(chain) /\ height \in Nat /\ B = Len(chain)
      /\ Indexing => B \in 1..Len(chain) /\ B = height + 1
      /\ ~Indexing => height = Len(chain)
      /\ pending # Waiting => Indexing
  BY Blocks DEF BaseInv
<1>1. CASE Produce
  <2>1. /\ Len(chain') = Len(chain) + 1 /\ \A h \in 1..Len(chain) : chain'[h] = chain[h]
    BY <1>1, ChainGrows DEF BaseInv
  <2>2. height = Len(chain) /\ height' = height /\ created' = created /\ pending' = pending
        /\ pending = Waiting
    BY <1>0, <1>1 DEF Produce, tables
  <2>3. \A h \in 1..height : CreatedOK(h)'
    BY <1>0, <2>1, <2>2 DEF CreatedInv, CreatedOK, At
  <2>4. B' = Len(chain) + 1 /\ At(created, B)' = {}
    BY <1>0, <2>1, <2>2 DEF B, At, BaseInv, RowsInv
  <2> QED
    BY <2>2, <2>3, <2>4 DEF CreatedInv, Waiting
<1>2. CASE BeginBlock
  <2>1. Indexing /\ pending' = Called /\ chain' = chain /\ created' = created /\ height' = height
    BY <1>2 DEF BeginBlock, tables
  <2>2. B' = B /\ Data' = Data /\ Indexing' = Indexing /\ \A h : CreatedOK(h)' <=> CreatedOK(h)
    BY <2>1 DEF B, Data, Indexing, CreatedOK, At
  <2>3. "messages" \notin pending' => Data.messages = <<>>
    BY <2>1 DEF Called, Handlers
  <2>4. ASSUME Data.messages = <<>> PROVE CreatedOK(B)
    <3>1. At(created, B) = {} /\ DOMAIN chain[B].messages = {}
      BY <2>1, <2>4 DEF CreatedInv, Data
    <3> QED
      BY <3>1 DEF CreatedOK
  <2>5. Data.messages = <<>> => At(created, B)' = {}
    BY <2>1, <2>2 DEF CreatedInv, At
  <2> QED
    BY <2>1, <2>2, <2>3, <2>4, <2>5 DEF CreatedInv
<1>3. CASE HandleMsgCreateClaim
  <2>1. Indexing /\ chain' = chain /\ height' = height
    BY <1>0, <1>3 DEF HandleMsgCreateClaim, Written, Waiting
  <2>2. CreatedOK(B)' /\ (\A h : h # B => At(created, h)' = At(created, h)) /\ B' = B
    BY <1>3, <2>1, CreatedWritten DEF B
  <2>3. \A h \in 1..height : CreatedOK(h)'
    <3> SUFFICES ASSUME NEW h \in 1..height PROVE CreatedOK(h)'
      OBVIOUS
    <3>1. h # B /\ CreatedOK(h)
      BY <1>0, <2>1 DEF CreatedInv
    <3> QED
      BY <2>1, <2>2, <3>1 DEF CreatedOK
  <2>4. Data.messages = <<>> => At(created, B)' = {}
    <3> SUFFICES ASSUME Data.messages = <<>> PROVE At(created', B) = {}
      BY <2>2 DEF At
    <3>1. \A i \in DOMAIN Data.messages : FALSE
      OBVIOUS
    <3>2. created' = created
      BY <1>3, <3>1 DEF HandleMsgCreateClaim, Replaced
    <3> QED
      BY <2>1, <3>2 DEF CreatedInv
  <2>5. Data' = Data
    BY <2>1 DEF Data, B
  <2> QED
    BY <2>1, <2>2, <2>3, <2>4, <2>5 DEF CreatedInv
<1>4. CASE Commit
  <2>1. Indexing /\ pending = {} /\ chain' = chain /\ created' = created /\ height' = B
    BY <1>4 DEF Commit, tables
  <2>2. \A h \in 1..B : CreatedOK(h)
    BY <1>0, <2>1 DEF CreatedInv
  <2>3. \A h \in 1..height' : CreatedOK(h)'
    BY <2>1, <2>2 DEF CreatedOK, At
  <2>4. ~Indexing'
    BY <1>0, <2>1 DEF Indexing
  <2> QED
    BY <2>3, <2>4 DEF CreatedInv
<1>5. CASE Crash
  BY <1>5, CreatedKept DEF Crash, tables, CreatedInv, Waiting, CreatedOK, At, B, Data, Indexing
<1>6. ASSUME NEW handler, NEW writes, Handled(handler, writes), handler \in {"claims", "batch"}
      PROVE  CreatedInv'
  <2>1. "messages" # handler /\ "begin" # handler
    BY <1>6
  <2> QED
    BY <1>6, <2>1, CreatedKept DEF Handled, tables
<1>7. ASSUME NEW write \in Writes, Written(write), created' = created
      PROVE  CreatedInv'
  <2>1. "messages" # write /\ "begin" # write
    BY <1>7 DEF Writes
  <2> QED
    BY <1>7, <2>1, CreatedKept DEF Written
<1>8. CASE UNCHANGED vars
  BY <1>8, CreatedKept DEF vars, tables
<1>9. CASE HandleEventClaimSettled \/ HandleEventSettlementBatch
  BY <1>6, <1>9 DEF HandleEventClaimSettled, HandleEventSettlementBatch
<1>10. CASE WriteSettled
  BY <1>7, <1>10 DEF WriteSettled, Writes
<1>11. CASE WriteTransfers("claimTransfers", ClaimTransfers)
  BY <1>7, <1>11 DEF WriteTransfers, Writes
<1>12. CASE WriteTransfers("rewardTransfers", RewardTransfers)
  BY <1>7, <1>12 DEF WriteTransfers, Writes
<1>13. CASE WriteSummary("claimSummary", ClaimTransfers)
  BY <1>7, <1>13 DEF WriteSummary, Writes
<1>14. CASE WriteSummary("rewardSummary", RewardTransfers)
  BY <1>7, <1>14 DEF WriteSummary, Writes
<1> QED
  BY <1>1, <1>2, <1>3, <1>4, <1>5, <1>8, <1>9, <1>10, <1>11, <1>12, <1>13, <1>14 DEF Next, Handler

\* Each message that creates a claim is stored with what its own claim is about,
\* found among the events of the transaction by application, supplier and service.
THEOREM CreatedCorrect == Spec => []CreatedMatchMessages
<1>1. Init => BaseInv /\ CreatedInv
  <2> SUFFICES ASSUME Init PROVE BaseInv /\ CreatedInv
    OBVIOUS
  <2>1. height = 0 /\ ~Indexing
    BY DEF Init, Indexing
  <2> QED
    BY <2>1, BaseInit DEF CreatedInv
<1>2. BaseInv /\ CreatedInv /\ [Next]_vars => BaseInv' /\ CreatedInv'
  BY BaseStep, CreatedStep
<1>3. CreatedInv => CreatedMatchMessages
  BY DEF CreatedInv, CreatedMatchMessages, CreatedOK
<1> QED
  BY <1>1, <1>2, <1>3, PTL DEF Spec

-----------------------------------------------------------------------------
(* Shares of a claim *)

LEMMA TotalIsSum ==
    ASSUME NEW f, NEW S
    PROVE  Total(f, S) = Sum(f, S)
BY DEF Total, Sum

EntrySet == [recipient : {"owner", "dao"}, amount : Nat,
             reason : {"relay", "inflation", "reimbursement", "unspecified"}]

\* The amounts of the entries that are in a set.
Chosen(entries, E) == {i \in DOMAIN entries : entries[i] \in E}
AmountsIn(entries, E) ==
    Sum([i \in Chosen(entries, E) |-> entries[i].amount], Chosen(entries, E))

For(reasons) == {e \in EntrySet : e.reason \in reasons}
To(recipient) == {e \in EntrySet : e.recipient = recipient}

LEMMA AmountsAre ==
    ASSUME NEW entries \in Seq(EntrySet), NEW reasons
    PROVE  Amounts(entries, reasons) = AmountsIn(entries, For(reasons))
<1>1. {i \in DOMAIN entries : entries[i].reason \in reasons} = Chosen(entries, For(reasons))
  BY DEF Chosen, For
<1> QED
  BY <1>1, TotalIsSum DEF Amounts, AmountsIn

LEMMA ChosenIs ==
    ASSUME NEW entries \in Seq(EntrySet), NEW E
    PROVE  /\ IsFiniteSet(Chosen(entries, E))
           /\ AmountsIn(entries, E) \in Int
<1> DEFINE S == Chosen(entries, E)
           f == [i \in S |-> entries[i].amount]
<1>1. IsFiniteSet(S)
  <2>1. S \in SUBSET (1..Len(entries)) /\ Len(entries) \in Nat
    BY DEF Chosen
  <2>2. IsFiniteSet(1..Len(entries))
    BY <2>1, FS_Interval
  <2> HIDE DEF S
  <2> QED
    BY <2>1, <2>2, FS_Subset
<1>2. AmountsIn(entries, E) = Sum(f, S)
  BY DEF AmountsIn
<1>3. \A i \in S : f[i] \in Int
  <2>1. \A i \in S : entries[i] \in EntrySet
    BY DEF Chosen
  <2>2. \A e \in EntrySet : e.amount \in Int
    BY DEF EntrySet
  <2> QED
    BY <2>1, <2>2
<1> HIDE DEF S, f
<1>4. Sum(f, S) \in Int
  BY <1>1, <1>3, SumType
<1> QED
  BY <1>1, <1>2, <1>4 DEF S, f

LEMMA AmountsOfTwo ==
    ASSUME NEW s \in Seq(EntrySet), NEW t \in Seq(EntrySet), NEW E
    PROVE  AmountsIn(s \o t, E) = AmountsIn(s, E) + AmountsIn(t, E)
<1> DEFINE n == Len(s)
           u == s \o t
           S == Chosen(s, E)
           T == Chosen(t, E)
           D == {n + i : i \in T}
           f == [i \in S |-> s[i].amount]
           g == [i \in T |-> t[i].amount]
           h == [i \in Chosen(u, E) |-> u[i].amount]
<1>1. /\ u \in Seq(EntrySet) /\ n \in Nat /\ Len(u) = n + Len(t) /\ Len(t) \in Nat
      /\ DOMAIN s = 1..n /\ DOMAIN t = 1..Len(t) /\ DOMAIN u = 1..(n + Len(t))
      /\ \A i \in 1..n : u[i] = s[i]
      /\ \A i \in 1..Len(t) : u[n + i] = t[i]
  OBVIOUS
<1>2. Chosen(u, E) = S \cup D /\ S \cap D = {}
  <2> HIDE DEF u, n
  <2>1. \A i \in DOMAIN u : i \in 1..n \/ (i - n \in 1..Len(t) /\ i = n + (i - n))
    BY <1>1
  <2>2. \A i \in S : i \in 1..n
    BY <1>1 DEF Chosen
  <2>3. \A i \in D : i \in (n + 1)..(n + Len(t))
    BY <1>1 DEF Chosen
  <2>4. \A i \in Chosen(u, E) : i \in S \/ i \in D
    <3> SUFFICES ASSUME NEW i \in Chosen(u, E), i \notin S PROVE i \in D
      OBVIOUS
    <3>1. i \in DOMAIN u /\ u[i] \in E
      BY DEF Chosen
    <3>2. i \notin 1..n
      BY <1>1, <3>1 DEF Chosen
    <3>3. i - n \in 1..Len(t) /\ i = n + (i - n)
      BY <2>1, <3>1, <3>2
    <3>4. u[i] = t[i - n]
      BY <1>1, <3>3
    <3>5. i - n \in T
      BY <1>1, <3>1, <3>3, <3>4 DEF Chosen
    <3> QED
      BY <3>3, <3>5
  <2>5. \A i \in S : i \in Chosen(u, E)
    BY <1>1, <2>2 DEF Chosen
  <2>6. \A i \in T : n + i \in Chosen(u, E)
    BY <1>1 DEF Chosen
  <2>7. \A i \in D : i \in Chosen(u, E)
    BY <2>6
  <2> HIDE DEF S, D
  <2> QED
    BY <1>1, <2>2, <2>3, <2>4, <2>5, <2>7
<1>3. IsFiniteSet(S) /\ IsFiniteSet(T)
  BY ChosenIs
<1>4. /\ \A i \in S : f[i] \in Int /\ h[i] = f[i]
      /\ \A i \in T : g[i] \in Int /\ h[n + i] = g[i]
  <2> HIDE DEF u, n
  <2>1. \A i \in S : i \in Chosen(u, E) /\ i \in 1..n
    BY <1>1, <1>2 DEF Chosen
  <2>2. \A i \in T : n + i \in Chosen(u, E) /\ i \in 1..Len(t)
    BY <1>1, <1>2 DEF Chosen
  <2>0. \A e \in EntrySet : e.amount \in Nat
    BY DEF EntrySet
  <2>3. \A i \in S : s[i].amount \in Nat
    BY <1>1, <2>0, <2>1
  <2>4. \A i \in T : t[i].amount \in Nat
    BY <1>1, <2>0, <2>2
  <2> QED
    BY <1>1, <2>1, <2>2, <2>3, <2>4
<1> DEFINE k == [i \in D |-> i - n]
<1>5. k \in Bijection(D, T)
  <2> HIDE DEF u, S, f, g, h
  <2>1. T \subseteq Nat
    BY <1>1 DEF Chosen
  <2>2. k \in [D -> T] /\ (\A i \in T : n + i \in D /\ k[n + i] = i) /\ \A i \in D : k[i] = i - n
    BY <1>1, <2>1
  <2>3. \A i, j \in D : k[i] = k[j] => i = j
    BY <1>1, <2>1
  <2>4. \A i \in T : \E j \in D : k[j] = i
    BY <2>2
  <2> HIDE DEF k, T, D
  <2> QED
    BY <2>2, <2>3, <2>4, IsBijection
<1>6. \A j \in D : h[j] = g[k[j]] /\ k[j] \in T
  <2> SUFFICES ASSUME NEW j \in D PROVE h[j] = g[k[j]] /\ k[j] \in T
    OBVIOUS
  <2>1. PICK i \in T : j = n + i
    OBVIOUS
  <2>2. k[j] = i
    <3>1. i \in Nat
      BY <1>1 DEF Chosen
    <3> HIDE DEF u, S, T, f, g, h
    <3> QED
      BY <1>1, <2>1, <3>1
  <2> HIDE DEF k, h, g, D, T, n
  <2> QED
    BY <1>4, <2>1, <2>2
<1> HIDE DEF u, S, T, D, f, g, h, k, n
<1>7. IsFiniteSet(D)
  BY <1>3, <1>5, Matched
<1>8. Sum(h, S) = Sum(f, S)
  BY <1>3, <1>4, SumSame
<1>9. Sum(h, D) = Sum(g, T)
  <2>1. \A i \in T : g[i] \in Int
    BY <1>4
  <2>2. \A j \in D : h[j] = g[k[j]]
    BY <1>6
  <2> QED
    BY <1>3, <1>5, <2>1, <2>2, MatchedSum
<1>10. Sum(h, S \cup D) = Sum(h, S) + Sum(h, D)
  <2>1. \A i \in S \cup D : h[i] \in Int
    BY <1>4, <1>6
  <2> QED
    BY <1>2, <1>3, <1>7, <2>1, SumUnion
<1>11. /\ AmountsIn(u, E) = Sum(h, Chosen(u, E))
       /\ AmountsIn(s, E) = Sum(f, S)
       /\ AmountsIn(t, E) = Sum(g, T)
  BY <1>1, ChosenIs DEF AmountsIn, h, f, g, S, T
<1> QED
  BY <1>2, <1>8, <1>9, <1>10, <1>11 DEF u

LEMMA AmountsOfPositive ==
    ASSUME NEW e \in EntrySet, NEW E
    PROVE  /\ Positive(e) \in Seq(EntrySet)
           /\ AmountsIn(Positive(e), E) = IF e \in E THEN e.amount ELSE 0
<1> DEFINE s == Positive(e)
           S == Chosen(s, E)
           f == [i \in S |-> s[i].amount]
<1>1. s \in Seq(EntrySet) /\ e.amount \in Nat
  <2>1. e.amount \in Nat
    BY DEF EntrySet
  <2>2. <<e>> \in Seq(EntrySet) /\ <<>> \in Seq(EntrySet)
    OBVIOUS
  <2> QED
    BY <2>1, <2>2 DEF Positive
<1>2. AmountsIn(s, E) = Sum(f, S)
  BY DEF AmountsIn
<1>3. CASE e.amount > 0 /\ e \in E
  <2>1. s = <<e>>
    BY <1>3 DEF Positive
  <2>2. S = {1} /\ f[1] = e.amount
    BY <1>3, <2>1 DEF Chosen
  <2> HIDE DEF s, S, f
  <2>3. IsFiniteSet({}) /\ {} \cup {1} = {1}
    BY FS_EmptySet
  <2>4. Sum(f, {} \cup {1}) = Sum(f, {}) + f[1]
    <3>1. f[1] \in Int /\ 1 \notin {} /\ \A x \in {} : f[x] \in Int
      BY <1>1, <2>2
    <3> QED
      BY <2>3, <3>1, SumAdd
  <2> QED
    BY <1>1, <1>2, <1>3, <2>2, <2>3, <2>4, SumEmpty DEF s
<1>4. CASE ~(e.amount > 0 /\ e \in E)
  <2>1. S = {}
    <3>1. CASE e.amount > 0
      BY <1>4, <3>1 DEF Positive, Chosen
    <3>2. CASE ~(e.amount > 0)
      BY <3>2 DEF Positive, Chosen
    <3> QED
      BY <3>1, <3>2
  <2>2. Sum(f, S) = 0
    <3> HIDE DEF f, S
    <3> QED
      BY <2>1, SumEmpty
  <2> QED
    BY <1>1, <1>2, <1>4, <2>2
<1> QED
  BY <1>1, <1>3, <1>4

\* The ratio of a block is at most the whole.
LEMMA RatioIs ==
    ASSUME ChainInv, NEW h \in 1..Len(chain), NEW w \in Works
    PROVE  /\ RatioAt(h) \in 0..2 /\ MintedOf(w, RatioAt(h)) \in Nat
           /\ RatioAt(h) = 2 => MintedOf(w, RatioAt(h)) = w.settled
<1>1. RatioAt(h) \in 0..2
  <2>1. Len(chain) \in Nat /\ h \in 0..Len(chain)
    BY DEF ChainInv
  <2>2. RatioAt(h) \in Ratios \cup {2}
    BY <2>1, StoredType
  <2>3. Ratios \subseteq 0..2
    BY SettlementAssumption, Zenon
  <2>4. RatioAt(h) \in (0..2) \cup {2}
    BY <2>2, <2>3, Zenon
  <2> QED
    BY <2>4
<1>2. w.settled \in Nat
  BY WorkFields
<1> QED
  BY <1>1, <1>2 DEF MintedOf

LEMMA SharesAre ==
    ASSUME NEW w \in Works, NEW ratio, MintedOf(w, ratio) \in Nat
    PROVE  /\ Shares(w, ratio) \in Seq(EntrySet) /\ TotalShares(w, ratio) \in Seq(EntrySet)
           /\ Amounts(Shares(w, ratio), {"inflation"}) = w.inflation
           /\ Amounts(Shares(w, ratio), {"reimbursement"}) = w.inflation
           /\ Amounts(TotalShares(w, ratio), {"unspecified"}) = MintedOf(w, ratio) + 2 * w.inflation
           /\ \A shares \in {Shares(w, ratio), TotalShares(w, ratio)} : \A a :
                AmountsIn(shares, To(a)) = IF a = "owner" THEN MintedOf(w, ratio)
                                           ELSE IF a = "dao" THEN 2 * w.inflation ELSE 0
<1> DEFINE relay == Entry("owner", "relay", MintedOf(w, ratio))
           inflation == Entry("dao", "inflation", w.inflation)
           reimbursement == Entry("dao", "reimbursement", w.inflation)
           owner == Entry("owner", "unspecified", MintedOf(w, ratio))
           dao == Entry("dao", "unspecified", 2 * w.inflation)
           Of(e, E) == IF e \in E THEN e.amount ELSE 0
<1>0. w.inflation \in Nat /\ 2 * w.inflation \in Nat
  BY WorkFields
<1>1. relay \in EntrySet /\ inflation \in EntrySet /\ reimbursement \in EntrySet
      /\ owner \in EntrySet /\ dao \in EntrySet
  <2>1. relay \in EntrySet
    BY DEF Entry, EntrySet
  <2>2. inflation \in EntrySet /\ reimbursement \in EntrySet
    BY <1>0 DEF Entry, EntrySet
  <2>3. owner \in EntrySet
    BY DEF Entry, EntrySet
  <2>4. dao \in EntrySet
    BY <1>0 DEF Entry, EntrySet
  <2> QED
    BY <2>1, <2>2, <2>3, <2>4
<1>2. /\ relay.reason = "relay" /\ relay.amount = MintedOf(w, ratio)
      /\ inflation.reason = "inflation" /\ inflation.amount = w.inflation
      /\ reimbursement.reason = "reimbursement" /\ reimbursement.amount = w.inflation
      /\ owner.reason = "unspecified" /\ owner.amount = MintedOf(w, ratio)
      /\ dao.reason = "unspecified" /\ dao.amount = 2 * w.inflation
      /\ relay.recipient = "owner" /\ inflation.recipient = "dao"
      /\ reimbursement.recipient = "dao" /\ owner.recipient = "owner" /\ dao.recipient = "dao"
  BY DEF Entry
<1> HIDE DEF relay, inflation, reimbursement, owner, dao
<1>3. ASSUME NEW e \in EntrySet, NEW E
      PROVE  /\ Positive(e) \in Seq(EntrySet)
             /\ AmountsIn(Positive(e), E) = Of(e, E)
  BY AmountsOfPositive
<1>4. /\ Positive(relay) \o Positive(inflation) \in Seq(EntrySet)
      /\ (Positive(relay) \o Positive(inflation)) \o Positive(reimbursement) \in Seq(EntrySet)
      /\ Positive(owner) \o Positive(dao) \in Seq(EntrySet)
  BY <1>1, <1>3
<1>5. Shares(w, ratio) = (Positive(relay) \o Positive(inflation)) \o Positive(reimbursement)
  BY DEF Shares, relay, inflation, reimbursement
<1>6. TotalShares(w, ratio) = Positive(owner) \o Positive(dao)
  BY DEF TotalShares, owner, dao
<1>7. ASSUME NEW E
      PROVE  /\ AmountsIn(Shares(w, ratio), E)
                = Of(relay, E) + Of(inflation, E) + Of(reimbursement, E)
             /\ AmountsIn(TotalShares(w, ratio), E) = Of(owner, E) + Of(dao, E)
  <2>1. AmountsIn(Positive(relay) \o Positive(inflation), E) = Of(relay, E) + Of(inflation, E)
    BY <1>1, <1>3, AmountsOfTwo
  <2>2. Positive(reimbursement) \in Seq(EntrySet)
        /\ AmountsIn(Positive(reimbursement), E) = Of(reimbursement, E)
    BY <1>1, <1>3
  <2>3. AmountsIn((Positive(relay) \o Positive(inflation)) \o Positive(reimbursement), E)
        = AmountsIn(Positive(relay) \o Positive(inflation), E)
          + AmountsIn(Positive(reimbursement), E)
    <3> DEFINE both == Positive(relay) \o Positive(inflation)
               last == Positive(reimbursement)
    <3>1. both \in Seq(EntrySet) /\ last \in Seq(EntrySet)
      BY <1>4, <2>2, Zenon
    <3> HIDE DEF both, last
    <3>2. AmountsIn(both \o last, E) = AmountsIn(both, E) + AmountsIn(last, E)
      BY <3>1, AmountsOfTwo
    <3> QED
      BY <3>2, Zenon DEF both, last
  <2>4. AmountsIn(Positive(owner) \o Positive(dao), E) = Of(owner, E) + Of(dao, E)
    BY <1>1, <1>3, AmountsOfTwo
  <2> HIDE DEF Of
  <2>5. AmountsIn(Shares(w, ratio), E) = Of(relay, E) + Of(inflation, E) + Of(reimbursement, E)
    BY <1>5, <2>1, <2>2, <2>3, Zenon
  <2> QED
    BY <1>6, <2>4, <2>5, Zenon
<1>8. Shares(w, ratio) \in Seq(EntrySet) /\ TotalShares(w, ratio) \in Seq(EntrySet)
  BY <1>4, <1>5, <1>6
<1>9. /\ \A reasons : Amounts(Shares(w, ratio), reasons) = AmountsIn(Shares(w, ratio), For(reasons))
      /\ \A reasons : Amounts(TotalShares(w, ratio), reasons)
                       = AmountsIn(TotalShares(w, ratio), For(reasons))
  BY <1>8, AmountsAre
<1>10. /\ Of(relay, For({"inflation"})) = 0 /\ Of(inflation, For({"inflation"})) = w.inflation
       /\ Of(reimbursement, For({"inflation"})) = 0
  BY <1>1, <1>2 DEF For
<1>11. /\ Of(relay, For({"reimbursement"})) = 0 /\ Of(inflation, For({"reimbursement"})) = 0
       /\ Of(reimbursement, For({"reimbursement"})) = w.inflation
  BY <1>1, <1>2 DEF For
<1>12. /\ Of(owner, For({"unspecified"})) = MintedOf(w, ratio)
       /\ Of(dao, For({"unspecified"})) = 2 * w.inflation
  BY <1>1, <1>2 DEF For
<1>13. ASSUME NEW a
       PROVE  /\ Of(relay, To(a)) = IF a = "owner" THEN MintedOf(w, ratio) ELSE 0
              /\ Of(owner, To(a)) = IF a = "owner" THEN MintedOf(w, ratio) ELSE 0
              /\ Of(inflation, To(a)) = IF a = "dao" THEN w.inflation ELSE 0
              /\ Of(reimbursement, To(a)) = IF a = "dao" THEN w.inflation ELSE 0
              /\ Of(dao, To(a)) = IF a = "dao" THEN 2 * w.inflation ELSE 0
  BY <1>1, <1>2 DEF To
<1> HIDE DEF Of
<1>14. Amounts(Shares(w, ratio), {"inflation"}) = w.inflation
  BY <1>0, <1>7, <1>9, <1>10
<1>15. Amounts(Shares(w, ratio), {"reimbursement"}) = w.inflation
  BY <1>0, <1>7, <1>9, <1>11
<1>16. Amounts(TotalShares(w, ratio), {"unspecified"}) = MintedOf(w, ratio) + 2 * w.inflation
  BY <1>7, <1>9, <1>12
<1>17. ASSUME NEW a
       PROVE  /\ AmountsIn(Shares(w, ratio), To(a))
                 = IF a = "owner" THEN MintedOf(w, ratio)
                   ELSE IF a = "dao" THEN 2 * w.inflation ELSE 0
              /\ AmountsIn(TotalShares(w, ratio), To(a))
                 = IF a = "owner" THEN MintedOf(w, ratio)
                   ELSE IF a = "dao" THEN 2 * w.inflation ELSE 0
  BY <1>0, <1>7, <1>13
<1> QED
  BY <1>8, <1>14, <1>15, <1>16, <1>17

-----------------------------------------------------------------------------
(* Claims that are settled *)

\* The events of a block whose form is the first are settled with the whole ratio.
LEMMA FormIs ==
    ASSUME ChainInv, B \in 1..Len(chain)
    PROVE  /\ Form \in {"result", "total", "detailed"}
           /\ Form = "result" => RatioAt(B) = 2
<1>1. Data = chain[B] /\ BlockOK(B) /\ Data.form \in 1..3
  BY DEF ChainInv, Data, BlockOK, IsBlock
<1>2. /\ Data.form = 1 => Form = "result"
      /\ Data.form = 2 => Form = "total"
      /\ Data.form = 3 => Form = "detailed"
  BY DEF Form, FormAt, Forms
<1>3. ASSUME Data.form = 1 PROVE RatioAt(B) = 2
  <2>1. \A g \in 1..B : BlockOK(g) /\ chain[g].form \in 1..3 /\ chain[g].form <= 1
    <3> SUFFICES ASSUME NEW g \in 1..B
                 PROVE  BlockOK(g) /\ chain[g].form \in 1..3 /\ chain[g].form <= 1
      OBVIOUS
    <3>1. g \in 1..Len(chain)
      BY DEF ChainInv
    <3>2. BlockOK(g)
      BY <3>1 DEF ChainInv
    <3>3. chain[g].form \in 1..3
      BY <3>2 DEF BlockOK, IsBlock
    <3>4. chain[g].form <= chain[B].form
      BY <1>1 DEF BlockOK
    <3> QED
      BY <1>1, <1>3, <3>2, <3>3, <3>4
  <2>2. \A g \in 1..B : chain[g].ratio = None
    <3> SUFFICES ASSUME NEW g \in 1..B PROVE chain[g].ratio = None
      OBVIOUS
    <3>1. BlockOK(g) /\ chain[g].form = 1
      BY <2>1
    <3> QED
      BY <3>1 DEF BlockOK
  <2>3. Updates(chain, B) = {} /\ B \in Nat
    BY <2>2 DEF Updates
  <2> QED
    BY <2>3 DEF RatioAt, RatioIn, Updates
<1> QED
  BY <1>1, <1>2, <1>3

New(value) == IF Form = "detailed" THEN value ELSE None

LEMMA EventIs ==
    ASSUME ChainInv, B \in 1..Len(chain), NEW k \in DOMAIN Data.events
    PROVE  LET c == chain[B].claims[k]
               w == c.work
               minted == MintedOf(w, RatioAt(B))
               a == Data.events[k]
           IN  /\ k \in DOMAIN chain[B].claims /\ w \in Works
               /\ a.pair = c.pair /\ a.service = c.service /\ a.claimed = w.claimed
               /\ a.settledUpokt = New(w.settled) /\ a.mintRatio = New(RatioAt(B))
               /\ a.mintedUpokt = New(minted)
               /\ a.overservicingLoss = New(w.claimed - w.settled)
               /\ a.deflationLoss = New(w.settled - minted)
               /\ a.numRelays = w.relays /\ a.claimedUnits = w.relays * UnitsPerRelay
               /\ a.estimatedUnits = Estimated(w) * UnitsPerRelay
               /\ a.numEstimatedRelays = New(Estimated(w))
               /\ a.shares = IF Form = "total" THEN TotalShares(w, RatioAt(B))
                             ELSE Shares(w, RatioAt(B))
               /\ a.inflation = w.inflation /\ a.burn = w.settled
<1> DEFINE c == chain[B].claims[k]
<1>1. BlockOK(B) /\ Data = chain[B]
  BY DEF ChainInv, Data
<1>2. k \in DOMAIN chain[B].claims /\ Data.events[k] = Attributes(c, Form, RatioAt(B))
  BY <1>1 DEF BlockOK, Form
<1>3. c \in Claim
  <2>1. chain[B].claims \in Seq(Claim)
    BY <1>1 DEF BlockOK, IsBlock
  <2> QED
    BY <1>2, <2>1
<1>4. c.work \in Works
  <2> HIDE DEF c
  <2> QED
    BY <1>3 DEF Claim
<1> HIDE DEF c
<1> QED
  BY <1>2, <1>4 DEF Attributes, New, c

LEMMA BurnIs ==
    ASSUME ChainInv, B \in 1..Len(chain), ~Repeats, NEW k \in DOMAIN Data.events
    PROVE  EffectiveBurn(Data.events[k]) = chain[B].claims[k].work.settled
<1> DEFINE w == chain[B].claims[k].work
           a == Data.events[k]
           over == Overserviced(a.pair)
<1>1. \A j \in DOMAIN Data.events :
        /\ j \in DOMAIN chain[B].claims
        /\ Data.events[j].pair = chain[B].claims[j].pair
        /\ Data.events[j].claimed = chain[B].claims[j].work.claimed
        /\ Data.events[j].burn = chain[B].claims[j].work.settled
  BY EventIs
<1>2. a.settledUpokt = New(w.settled) /\ w \in Works /\ w.settled # None
  <2>1. a.settledUpokt = New(w.settled) /\ w \in Works
    BY EventIs
  <2> QED
    BY <2>1, WorkFields, SettlementAssumption
<1>3. over = IF w.settled < w.claimed THEN {k} ELSE {}
  <2>1. BlockOK(B)
    BY DEF ChainInv
  <2>2. \A j \in DOMAIN Data.events : Data.events[j].pair = a.pair => j = k
    BY <1>1, <2>1 DEF BlockOK
  <2> QED
    BY <1>1, <2>2 DEF Overserviced
<1>4. w.settled \in Nat /\ w.claimed \in Nat /\ w.settled <= w.claimed
  BY <1>2, WorkFields
<1>5. EffectiveBurn(a) = Or(New(w.settled),
                            IF over = {} THEN w.claimed ELSE Data.events[Max(over)].burn)
  BY <1>1, <1>2 DEF EffectiveBurn
<1>6. (IF over = {} THEN w.claimed ELSE Data.events[Max(over)].burn) = w.settled
  <2>1. CASE w.settled < w.claimed
    <3>1. over = {k} /\ k \in Int
      <4>1. chain[B].claims \in Seq(Claim)
        BY DEF ChainInv, BlockOK, IsBlock
      <4>2. k \in Int
        BY <1>1, <4>1
      <4> QED
        BY <1>3, <2>1, <4>2
    <3>2. IsFiniteSet({k}) /\ {k} \subseteq Int /\ {k} # {}
      BY <3>1, FS_Singleton
    <3>3. Max({k}) \in {k}
      BY <3>2, Extremes
    <3>4. Max(over) = k
      BY <3>1, <3>3
    <3> QED
      BY <1>1, <3>1, <3>4
  <2>2. CASE ~(w.settled < w.claimed)
    BY <1>3, <1>4, <2>2
  <2> QED
    BY <2>1, <2>2
<1> HIDE DEF w, a, over
<1>7. EffectiveBurn(a) = w.settled
  BY <1>2, <1>5, <1>6 DEF Or, New
<1> QED
  BY <1>7 DEF a, w

LEMMA PartsAre ==
    ASSUME ChainInv, B \in 1..Len(chain), ~Repeats, cached = Stored(B),
           NEW k \in DOMAIN Data.events
    PROVE  LET w == chain[B].claims[k].work
               minted == MintedOf(w, RatioAt(B))
               parts == SettlementParts(Data.events[k])
           IN  /\ parts.minted = minted /\ parts.burnt = w.settled /\ parts.relay = minted
               /\ parts.inflation = w.inflation /\ parts.reimbursement = w.inflation
               /\ Form = "total" =>
                    InflationPlusReimbursement(Data.events[k]) = w.inflation + w.inflation
<1> DEFINE c == chain[B].claims[k]
           w == c.work
           minted == MintedOf(w, RatioAt(B))
           a == Data.events[k]
<1>1. /\ w \in Works /\ a.mintedUpokt = New(minted) /\ a.mintRatio = New(RatioAt(B))
      /\ a.inflation = w.inflation /\ a.burn = w.settled
      /\ a.shares = IF Form = "total" THEN TotalShares(w, RatioAt(B)) ELSE Shares(w, RatioAt(B))
  BY EventIs
<1>2. EffectiveBurn(a) = w.settled
  BY BurnIs
<1>3. Form \in {"result", "total", "detailed"} /\ (Form = "result" => RatioAt(B) = 2)
  BY FormIs
<1>4. minted \in Nat /\ minted # None /\ (RatioAt(B) = 2 => minted = w.settled)
      /\ w.inflation \in Nat
  <2>1. minted \in Nat /\ (RatioAt(B) = 2 => minted = w.settled)
    BY <1>1, RatioIs
  <2> QED
    BY <1>1, <2>1, WorkFields, SettlementAssumption
<1>5. /\ Amounts(Shares(w, RatioAt(B)), {"inflation"}) = w.inflation
      /\ Amounts(Shares(w, RatioAt(B)), {"reimbursement"}) = w.inflation
      /\ Amounts(TotalShares(w, RatioAt(B)), {"unspecified"}) = minted + 2 * w.inflation
  BY <1>1, <1>4, SharesAre
<1>6. Or(cached, 2) = RatioAt(B)
  <2>1. B \in Nat
    OBVIOUS
  <2> QED
    BY <2>1, RatioIsStored DEF Stored, RatioAt
<1> HIDE DEF c, w, minted, a
<1>7. CASE Form = "result"
  <2>1. SettlementParts(a) = FromResult(a) /\ a.mintedUpokt = None /\ minted = w.settled
    BY <1>1, <1>3, <1>4, <1>7 DEF SettlementParts, New
  <2>2. FromResult(a).minted = minted /\ FromResult(a).burnt = w.settled
        /\ FromResult(a).relay = minted
        /\ FromResult(a).inflation = w.inflation /\ FromResult(a).reimbursement = w.inflation
    BY <1>1, <1>2, <2>1 DEF FromResult, Or
  <2> QED
    BY <1>7, <2>1, <2>2 DEF c, w, minted, a
<1>8. CASE Form = "detailed"
  <2>1. SettlementParts(a) = FromDetailedDistribution(a) /\ a.mintedUpokt = minted
        /\ a.shares = Shares(w, RatioAt(B))
    BY <1>1, <1>8 DEF SettlementParts, New
  <2> DEFINE parts == FromDetailedDistribution(a)
  <2>2. parts.minted = minted /\ parts.burnt = w.settled /\ parts.relay = minted
        /\ parts.inflation = w.inflation /\ parts.reimbursement = w.inflation
    BY <1>2, <1>4, <1>5, <2>1 DEF FromDetailedDistribution, Or
  <2> QED
    BY <1>8, <2>1, <2>2 DEF c, w, minted, a
<1>9. CASE Form = "total"
  <2>1. SettlementParts(a) = FromDistribution(a) /\ a.mintedUpokt = None /\ a.mintRatio = None
        /\ a.shares = TotalShares(w, RatioAt(B))
    BY <1>1, <1>9 DEF SettlementParts, New
  <2>2. MintedAfterRatio(a) = minted
    <3>1. MintRatio(a) = RatioAt(B)
      BY <1>6, <2>1 DEF MintRatio, Or
    <3> QED
      BY <1>2, <2>1, <3>1 DEF MintedAfterRatio, Or, MintedOf, minted
  <2>3. InflationPlusReimbursement(a) = 2 * w.inflation
    BY <1>4, <1>5, <2>1, <2>2 DEF InflationPlusReimbursement
  <2>4. (2 * w.inflation) \div 2 = w.inflation
    BY <1>4
  <2> DEFINE parts == FromDistribution(a)
  <2>5. parts.minted = minted /\ parts.burnt = w.settled /\ parts.relay = minted
        /\ parts.inflation = w.inflation /\ parts.reimbursement = w.inflation
    BY <1>2, <2>2, <2>3, <2>4 DEF FromDistribution
  <2>6. InflationPlusReimbursement(a) = w.inflation + w.inflation
    BY <1>4, <2>3
  <2> QED
    BY <2>1, <2>5, <2>6 DEF c, w, minted, a
<1> QED
  BY <1>3, <1>7, <1>8, <1>9

LEMMA SettledRowIs ==
    ASSUME ChainInv, B \in 1..Len(chain), ~Repeats, cached = Stored(B),
           NEW k \in DOMAIN Data.events
    PROVE  LET c == chain[B].claims[k]
               w == c.work
               minted == MintedOf(w, RatioAt(B))
               r == SettledRow(k)
           IN  /\ r.id = <<B, k>> /\ r.blockId = B /\ r.serviceId = c.service
               /\ r.settledAmount = w.settled /\ r.mintedAmount = minted
               /\ r.overservicingLoss = w.claimed - w.settled
               /\ r.deflationLoss = w.settled - minted /\ r.burnt = w.settled
               /\ r.mints = <<minted, w.inflation, w.inflation>>
               /\ r.numEstimatedRelays = Estimated(w)
<1> DEFINE c == chain[B].claims[k]
           w == c.work
           minted == MintedOf(w, RatioAt(B))
           a == Data.events[k]
           parts == SettlementParts(a)
<1>1. /\ w \in Works /\ a.service = c.service /\ a.claimed = w.claimed
      /\ a.overservicingLoss = New(w.claimed - w.settled)
      /\ a.deflationLoss = New(w.settled - minted)
      /\ a.numRelays = w.relays /\ a.claimedUnits = w.relays * UnitsPerRelay
      /\ a.estimatedUnits = Estimated(w) * UnitsPerRelay
      /\ a.numEstimatedRelays = New(Estimated(w))
  BY EventIs
<1>2. EffectiveBurn(a) = w.settled
  BY BurnIs
<1>3. /\ parts.minted = minted /\ parts.burnt = w.settled /\ parts.relay = minted
      /\ parts.inflation = w.inflation /\ parts.reimbursement = w.inflation
  BY PartsAre
<1>4. w.settled \in Nat /\ w.claimed \in Nat /\ minted \in Nat /\ \A x \in Int : x # None
  <2>1. \A x \in Int : x # None
    BY SettlementAssumption, Zenon
  <2> QED
    BY <1>1, <2>1, WorkFields, RatioIs
<1>5. NumEstimatedRelays(a.numEstimatedRelays, a.estimatedUnits, a.claimedUnits, a.numRelays)
      = Estimated(w)
  BY <1>1, EstimatedIs DEF New
<1> HIDE DEF c, w, minted, a, parts
<1>6. Or(a.overservicingLoss, a.claimed - EffectiveBurn(a)) = w.claimed - w.settled
  <2>1. w.claimed - w.settled # None
    BY <1>4
  <2> QED
    BY <1>1, <1>2, <2>1 DEF Or, New
<1>7. Or(a.deflationLoss, EffectiveBurn(a) - parts.minted) = w.settled - minted
  <2>1. w.settled - minted # None
    BY <1>4
  <2> QED
    BY <1>1, <1>2, <1>3, <2>1 DEF Or, New
<1>8. /\ SettledRow(k).id = <<B, k>> /\ SettledRow(k).blockId = B
      /\ SettledRow(k).serviceId = a.service
      /\ SettledRow(k).settledAmount = EffectiveBurn(a)
      /\ SettledRow(k).mintedAmount = parts.minted
      /\ SettledRow(k).overservicingLoss = Or(a.overservicingLoss, a.claimed - EffectiveBurn(a))
      /\ SettledRow(k).deflationLoss = Or(a.deflationLoss, EffectiveBurn(a) - parts.minted)
      /\ SettledRow(k).burnt = parts.burnt
      /\ SettledRow(k).mints = <<parts.relay, parts.inflation, parts.reimbursement>>
      /\ SettledRow(k).numEstimatedRelays
         = NumEstimatedRelays(a.numEstimatedRelays, a.estimatedUnits, a.claimedUnits, a.numRelays)
  BY DEF SettledRow, a, parts
<1>9. /\ SettledRow(k).id = <<B, k>> /\ SettledRow(k).blockId = B
      /\ SettledRow(k).serviceId = c.service
      /\ SettledRow(k).settledAmount = w.settled /\ SettledRow(k).mintedAmount = minted
      /\ SettledRow(k).overservicingLoss = w.claimed - w.settled
      /\ SettledRow(k).deflationLoss = w.settled - minted
      /\ SettledRow(k).burnt = w.settled
      /\ SettledRow(k).mints = <<minted, w.inflation, w.inflation>>
      /\ SettledRow(k).numEstimatedRelays = Estimated(w)
  BY <1>1, <1>2, <1>3, <1>5, <1>6, <1>7, <1>8
<1> QED
  BY <1>9 DEF c, w, minted

SettledOK(h) ==
    {<<r.id[2], r.serviceId, r.settledAmount, r.mintedAmount, r.overservicingLoss,
       r.deflationLoss, r.burnt, r.mints, r.numEstimatedRelays>> : r \in At(settled, h)}
    = {LET c == chain[h].claims[k]
           w == c.work
           minted == MintedOf(w, RatioAt(h))
       IN  <<k, c.service, w.settled, minted, w.claimed - w.settled, w.settled - minted,
             w.settled, <<minted, w.inflation, w.inflation>>, Estimated(w)>>
       : k \in Claims(h)}

SettledInv ==
    /\ ~Repeats
    /\ \A h \in 1..height : SettledOK(h)
    /\ Indexing => /\ Data.events = <<>> => At(settled, B) = {}
                   /\ {"begin", "claims", "settled"} \cap pending = {} => SettledOK(B)

LEMMA SettledWritten ==
    ASSUME BaseInv, SettledInv, WriteSettled
    PROVE  SettledOK(B)' /\ \A h : h # B => At(settled, h)' = At(settled, h)
<1>1. /\ chain' = chain /\ B' = B /\ B \in 1..Len(chain) /\ Indexing
      /\ ChainInv /\ ~Repeats /\ cached = Stored(B)
  <2>1. pending # Waiting /\ chain' = chain
    BY DEF WriteSettled, Written, Waiting
  <2> QED
    BY <2>1, Blocks DEF BaseInv, ParamInv, SettledInv, B
<1> DEFINE rows == {SettledRow(k) : k \in DOMAIN Data.events}
<1>2. \A k \in DOMAIN Data.events :
        LET c == chain[B].claims[k]
            w == c.work
            minted == MintedOf(w, RatioAt(B))
            r == SettledRow(k)
        IN  /\ r.id = <<B, k>> /\ r.blockId = B /\ r.serviceId = c.service
            /\ r.settledAmount = w.settled /\ r.mintedAmount = minted
            /\ r.overservicingLoss = w.claimed - w.settled
            /\ r.deflationLoss = w.settled - minted /\ r.burnt = w.settled
            /\ r.mints = <<minted, w.inflation, w.inflation>>
            /\ r.numEstimatedRelays = Estimated(w)
  BY <1>1, SettledRowIs
<1>3. (\A r \in rows : r.blockId = B) /\ \A r, s \in rows : r.id = s.id => r = s
  BY <1>2
<1>4. settled' = Replaced(settled, rows)
  BY DEF WriteSettled
<1>5. /\ \A h : h # B => At(settled', h) = At(settled, h)
      /\ At(settled', B) = IF rows = {} THEN At(settled, B) ELSE rows
  <2> HIDE DEF rows
  <2> QED
    BY <1>3, <1>4, ReplacedIs
<1>6. BlockOK(B) /\ Data = chain[B] /\ DOMAIN Data.events = Claims(B)
  BY <1>1 DEF ChainInv, Data, BlockOK, Claims
<1>7. At(settled', B) = rows
  <2>1. Data.events = <<>> \/ DOMAIN Data.events # {}
    <3>1. Data.claims \in Seq(Claim)
      BY <1>6 DEF BlockOK, IsBlock
    <3>2. Data.events \in Seq({Data.events[k] : k \in DOMAIN Data.events})
      BY <1>6, <3>1 DEF BlockOK
    <3> QED
      BY <3>2
  <2>2. CASE Data.events = <<>>
    <3>1. rows = {}
      BY <2>2
    <3>2. At(settled, B) = {}
      BY <1>1, <2>2 DEF SettledInv
    <3> QED
      BY <1>5, <3>1, <3>2
  <2>3. CASE DOMAIN Data.events # {}
    <3>1. rows # {}
      BY <2>3
    <3> QED
      BY <1>5, <3>1
  <2> QED
    BY <2>1, <2>2, <2>3
<1>8. {<<r.id[2], r.serviceId, r.settledAmount, r.mintedAmount, r.overservicingLoss,
         r.deflationLoss, r.burnt, r.mints, r.numEstimatedRelays>> : r \in rows}
      = {LET c == chain[B].claims[k]
             w == c.work
             minted == MintedOf(w, RatioAt(B))
         IN  <<k, c.service, w.settled, minted, w.claimed - w.settled, w.settled - minted,
               w.settled, <<minted, w.inflation, w.inflation>>, Estimated(w)>>
         : k \in Claims(B)}
  <2> DEFINE kept(r) == <<r.id[2], r.serviceId, r.settledAmount, r.mintedAmount,
                          r.overservicingLoss, r.deflationLoss, r.burnt, r.mints,
                          r.numEstimatedRelays>>
             paid(k) == LET c == chain[B].claims[k]
                            w == c.work
                            minted == MintedOf(w, RatioAt(B))
                        IN  <<k, c.service, w.settled, minted, w.claimed - w.settled,
                              w.settled - minted, w.settled,
                              <<minted, w.inflation, w.inflation>>, Estimated(w)>>
  <2>1. ASSUME NEW k \in DOMAIN Data.events PROVE kept(SettledRow(k)) = paid(k)
    BY <1>2
  <2> HIDE DEF kept, paid
  <2>2. {kept(r) : r \in rows} = {paid(k) : k \in Claims(B)}
    BY <1>6, <2>1
  <2> QED
    BY <2>2 DEF kept, paid
<1>9. RatioAt(B)' = RatioAt(B) /\ Claims(B)' = Claims(B) /\ chain'[B'] = chain[B]
  BY <1>1 DEF RatioAt, Claims
<1>10. At(settled, B)' = rows
  BY <1>1, <1>7 DEF At
<1> HIDE DEF rows
<1> QED
  BY <1>1, <1>5, <1>8, <1>9, <1>10 DEF SettledOK, At

LEMMA SettledSame ==
    ASSUME NEW h, At(settled, h)' = At(settled, h), chain'[h] = chain[h], RatioAt(h)' = RatioAt(h)
    PROVE  SettledOK(h)' <=> SettledOK(h)
BY DEF SettledOK, Claims

LEMMA SettledKept ==
    ASSUME BaseInv, SettledInv, chain' = chain, settled' = settled, height' = height,
           Indexing => \/ {"begin", "claims", "settled"} \cap pending \subseteq pending'
                       \/ "settled" \in pending'
    PROVE  SettledInv'
<1>1. \A h : SettledOK(h)' <=> SettledOK(h)
  BY SettledSame DEF At, RatioAt
<1>2. B' = B /\ Data' = Data /\ Indexing' = Indexing
  BY DEF B, Data, Indexing
<1> QED
  BY <1>1, <1>2 DEF SettledInv, At

LEMMA SettledStep ==
    ASSUME BaseInv, SettledInv, [Next]_vars
    PROVE  SettledInv'
<1>0. /\ Len(chain) \in Nat /\ height \in 0..Len(chain) /\ height \in Nat /\ B = Len(chain)
      /\ Indexing => B \in 1..Len(chain) /\ B = height + 1
      /\ ~Indexing => height = Len(chain)
      /\ pending # Waiting => Indexing
  BY Blocks DEF BaseInv
<1>1. CASE Produce
  <2>1. /\ Len(chain') = Len(chain) + 1 /\ \A h \in 1..Len(chain) : chain'[h] = chain[h]
        /\ \A h \in 0..Len(chain) : RatioAt(h)' = RatioAt(h)
    BY <1>1, ChainGrows DEF BaseInv
  <2>2. height = Len(chain) /\ height' = height /\ settled' = settled /\ pending' = pending
        /\ pending = Waiting
    BY <1>0, <1>1 DEF Produce, tables
  <2>3. \A h \in 1..height : SettledOK(h)'
    <3> SUFFICES ASSUME NEW h \in 1..height PROVE SettledOK(h)'
      OBVIOUS
    <3>1. SettledOK(h) /\ h \in 1..Len(chain) /\ h \in 0..Len(chain)
      BY <1>0 DEF SettledInv
    <3> QED
      BY <2>1, <2>2, <3>1, SettledSame DEF At
  <2>4. B' = Len(chain) + 1 /\ At(settled, B)' = {}
    BY <1>0, <2>1, <2>2 DEF B, At, BaseInv, RowsInv
  <2> QED
    BY <2>2, <2>3, <2>4 DEF SettledInv, Waiting
<1>2. CASE BeginBlock
  <2>1. Indexing /\ pending' = Called /\ chain' = chain /\ settled' = settled /\ height' = height
    BY <1>2 DEF BeginBlock, tables
  <2>2. /\ B' = B /\ Data' = Data /\ Indexing' = Indexing
        /\ \A h : SettledOK(h)' <=> SettledOK(h)
    BY <2>1, SettledSame DEF B, Data, Indexing, At, RatioAt
  <2>3. "claims" \notin pending' => Data.events = <<>>
    BY <2>1 DEF Called, Handlers
  <2>4. ASSUME Data.events = <<>> PROVE SettledOK(B)
    <3>1. BlockOK(B) /\ At(settled, B) = {}
      BY <1>0, <2>1, <2>4 DEF SettledInv, BaseInv, ChainInv
    <3>2. Claims(B) = {}
      BY <2>4, <3>1 DEF BlockOK, Claims, Data
    <3> QED
      BY <3>1, <3>2 DEF SettledOK
  <2>5. Data.events = <<>> => At(settled, B)' = {}
    BY <2>1, <2>2 DEF SettledInv, At
  <2> QED
    BY <2>1, <2>2, <2>3, <2>4, <2>5 DEF SettledInv
<1>3. CASE WriteSettled
  <2>1. Indexing /\ chain' = chain /\ height' = height /\ B' = B
    BY <1>0, <1>3 DEF WriteSettled, Written, Waiting, B
  <2>2. SettledOK(B)' /\ \A h : h # B => At(settled, h)' = At(settled, h)
    BY <1>3, SettledWritten
  <2>3. \A h \in 1..height : SettledOK(h)'
    <3> SUFFICES ASSUME NEW h \in 1..height PROVE SettledOK(h)'
      OBVIOUS
    <3>1. h # B /\ SettledOK(h)
      BY <1>0, <2>1 DEF SettledInv
    <3> QED
      BY <2>1, <2>2, <3>1, SettledSame DEF RatioAt
  <2>4. Data.events = <<>> => At(settled, B)' = {}
    <3> SUFFICES ASSUME Data.events = <<>> PROVE At(settled', B) = {}
      BY <2>1 DEF At
    <3>1. \A k \in DOMAIN Data.events : FALSE
      OBVIOUS
    <3>2. settled' = settled
      BY <1>3, <3>1 DEF WriteSettled, Replaced
    <3> QED
      BY <2>1, <3>2 DEF SettledInv
  <2>5. Data' = Data /\ Indexing' = Indexing
    BY <2>1 DEF Data, B, Indexing
  <2> QED
    BY <2>1, <2>2, <2>3, <2>4, <2>5 DEF SettledInv
<1>4. CASE Commit
  <2>1. Indexing /\ pending = {} /\ chain' = chain /\ settled' = settled /\ height' = B
    BY <1>4 DEF Commit, tables
  <2>2. \A h \in 1..B : SettledOK(h)
    BY <1>0, <2>1 DEF SettledInv
  <2>3. \A h \in 1..height' : SettledOK(h)'
    BY <2>1, <2>2, SettledSame DEF At, RatioAt
  <2>4. ~Indexing'
    BY <1>0, <2>1 DEF Indexing
  <2> QED
    BY <2>3, <2>4 DEF SettledInv
<1>5. CASE Crash
  <2>1. chain' = chain /\ settled' = settled /\ height' = height /\ "begin" \in pending'
    BY <1>5 DEF Crash, tables, Waiting
  <2>2. /\ B' = B /\ Data' = Data /\ Indexing' = Indexing
        /\ \A h : SettledOK(h)' <=> SettledOK(h)
    BY <2>1, SettledSame DEF B, Data, Indexing, At, RatioAt
  <2> QED
    BY <2>1, <2>2 DEF SettledInv, At
<1>6. CASE HandleEventClaimSettled
  <2>1. "settled" \in pending' /\ UNCHANGED <<chain, settled, height>>
    BY <1>6 DEF HandleEventClaimSettled, Handled, tables
  <2> QED
    BY <2>1, SettledKept
<1>7. CASE HandleEventSettlementBatch
  <2>1. pending \ {"batch"} \subseteq pending' /\ UNCHANGED <<chain, settled, height>>
    BY <1>7 DEF HandleEventSettlementBatch, Handled, tables
  <2> QED
    BY <2>1, SettledKept
<1>8. ASSUME NEW write \in {"messages", "claimTransfers", "claimSummary", "rewardTransfers",
                            "rewardSummary"}, Written(write), settled' = settled
      PROVE  SettledInv'
  <2>1. pending \ {write} \subseteq pending' /\ UNCHANGED <<chain, height>>
    BY <1>8 DEF Written
  <2> QED
    BY <1>8, <2>1, SettledKept
<1>9. CASE UNCHANGED vars
  BY <1>9, SettledKept DEF vars, tables
<1>10. CASE HandleMsgCreateClaim
  BY <1>8, <1>10 DEF HandleMsgCreateClaim
<1>11. CASE WriteTransfers("claimTransfers", ClaimTransfers)
  BY <1>8, <1>11 DEF WriteTransfers
<1>12. CASE WriteTransfers("rewardTransfers", RewardTransfers)
  BY <1>8, <1>12 DEF WriteTransfers
<1>13. CASE WriteSummary("claimSummary", ClaimTransfers)
  BY <1>8, <1>13 DEF WriteSummary
<1>14. CASE WriteSummary("rewardSummary", RewardTransfers)
  BY <1>8, <1>14 DEF WriteSummary
<1> QED
  BY <1>1, <1>2, <1>3, <1>4, <1>5, <1>6, <1>7, <1>9, <1>10, <1>11, <1>12, <1>13, <1>14
     DEF Next, Handler

\* If no block settles two claims of one application and supplier, every indexed claim
\* is settled for the amounts of the chain, whatever the form of its event: the burn
\* of an overserviced claim, the mint ratio of its own block and the relays that the
\* older forms leave out are derived exactly.
THEOREM SettledCorrect == ~Repeats /\ Spec => []SettledMatchChain
<1>1. ~Repeats /\ Init => BaseInv /\ SettledInv
  <2> SUFFICES ASSUME ~Repeats, Init PROVE BaseInv /\ SettledInv
    OBVIOUS
  <2>1. height = 0 /\ ~Indexing
    BY DEF Init, Indexing
  <2> QED
    BY <2>1, BaseInit DEF SettledInv
<1>2. BaseInv /\ SettledInv /\ [Next]_vars => BaseInv' /\ SettledInv'
  BY BaseStep, SettledStep
<1>3. SettledInv => SettledMatchChain
  BY DEF SettledInv, SettledMatchChain, SettledOK
<1> QED
  BY <1>1, <1>2, <1>3, PTL DEF Spec

\* A handler of claims that has not returned yet never throws for good: what is left
\* of the total of an older event after its mint is never negative.  One that was
\* would stop the indexer at its block for ever.
HandlerReturns == Indexing /\ "claims" \in pending => ~Throws

THEOREM NeverThrows == ~Repeats /\ Spec => []HandlerReturns
<1>1. ~Repeats /\ Init => BaseInv /\ SettledInv
  <2> SUFFICES ASSUME ~Repeats, Init PROVE BaseInv /\ SettledInv
    OBVIOUS
  <2>1. height = 0 /\ ~Indexing
    BY DEF Init, Indexing
  <2> QED
    BY <2>1, BaseInit DEF SettledInv
<1>2. BaseInv /\ SettledInv /\ [Next]_vars => BaseInv' /\ SettledInv'
  BY BaseStep, SettledStep
<1>3. BaseInv /\ SettledInv => HandlerReturns
  <2> SUFFICES ASSUME BaseInv, SettledInv, Indexing, "claims" \in pending,
                      Form = "total", NEW k \in DOMAIN Data.events
               PROVE  ~(InflationPlusReimbursement(Data.events[k]) < 0)
    BY DEF HandlerReturns, Throws
  <2>1. ChainInv /\ ~Repeats /\ B \in 1..Len(chain)
    BY Blocks DEF BaseInv, SettledInv
  <2>2. cached = Stored(B)
    BY DEF BaseInv, ParamInv, Waiting
  <2> DEFINE w == chain[B].claims[k].work
  <2>3. InflationPlusReimbursement(Data.events[k]) = w.inflation + w.inflation
    BY <2>1, <2>2, PartsAre
  <2>4. w \in Works
    BY <2>1, EventIs
  <2>5. w.inflation \in Nat
    BY <2>4, WorkFields
  <2> HIDE DEF w
  <2> QED
    BY <2>3, <2>5
<1> QED
  BY <1>1, <1>2, <1>3, PTL DEF Spec

-----------------------------------------------------------------------------
(* Transfers: what the handlers write for a block is what the chain pays in it *)

TransferAt(h, id, event, entry) ==
    [id |-> id, blockId |-> h, eventClaimSettledId |-> event, recipientId |-> entry.recipient,
     opReason |-> entry.reason, amount |-> entry.amount]

SharesAt(h) ==
    UNION {{<<k, i>> : i \in DOMAIN chain[h].events[k].shares} : k \in DOMAIN chain[h].events}

PaidForClaims(h) ==
    {TransferAt(h, <<h, x[1], x[2]>>, <<h, x[1]>>, chain[h].events[x[1]].shares[x[2]]) :
        x \in SharesAt(h)}

Listed(h) == {r \in chain[h].rewards : r.opType = "mod_to_acct" /\ r.reason \in {"validator", "delegator"}}

PaidAsRewards(h) ==
    {TransferAt(h, <<h, None, r.id>>, None, Entry(r.recipient, r.reason, r.amount)) : r \in Listed(h)}

Paid(h) == PaidForClaims(h) \cup PaidAsRewards(h)

ServiceAt(h, t) ==
    IF t.eventClaimSettledId = None THEN None ELSE chain[h].events[t.eventClaimSettledId[2]].service

KeyAt(h, t) == <<t.recipientId, t.opReason, ServiceAt(h, t)>>

GroupAt(h, records, key) == {t \in records : KeyAt(h, t) = key}

SummaryRowAt(h, group) ==
    LET some == CHOOSE t \in group : TRUE
    IN  [id |-> <<h, some.recipientId, some.opReason, ServiceAt(h, some)>>, blockId |-> h,
         recipientId |-> some.recipientId, opReason |-> some.opReason,
         serviceId |-> ServiceAt(h, some),
         amount |-> AmountOf(group), transferCount |-> Cardinality(group)]

SummarizedAt(h, records) ==
    {SummaryRowAt(h, {t \in records : KeyAt(h, t) = key}) : key \in {KeyAt(h, t) : t \in records}}

LEMMA PaidIs ==
    /\ ClaimTransfers = PaidForClaims(B) /\ RewardTransfers = PaidAsRewards(B)
    /\ \A records : Summarized(records) = SummarizedAt(B, records)
<1>1. ClaimTransfers = PaidForClaims(B)
  BY DEF ClaimTransfers, PaidForClaims, SharesOfBlock, SharesAt, Transfer, TransferAt, Data
<1>2. RewardTransfers = PaidAsRewards(B)
  BY DEF RewardTransfers, PaidAsRewards, Listed, Transfer, TransferAt, Data
<1>3. \A t : SummaryKey(t) = KeyAt(B, t) /\ ServiceOf(t) = ServiceAt(B, t)
  BY DEF SummaryKey, KeyAt, ServiceOf, ServiceAt, Data
<1>4. \A group : SummaryRow(group) = SummaryRowAt(B, group)
  BY <1>3 DEF SummaryRow, SummaryRowAt
<1>5. ASSUME NEW records PROVE Summarized(records) = SummarizedAt(B, records)
  BY <1>3, <1>4 DEF Summarized, SummarizedAt
<1> QED
  BY <1>1, <1>2, <1>5

\* A block that is in its place pays what it paid.
LEMMA PaidSame ==
    ASSUME NEW h, chain'[h] = chain[h]
    PROVE  /\ Paid(h)' = Paid(h) /\ SummarizedAt(h, Paid(h))' = SummarizedAt(h, Paid(h))
<1>1. PaidForClaims(h)' = PaidForClaims(h) /\ PaidAsRewards(h)' = PaidAsRewards(h)
  BY DEF PaidForClaims, SharesAt, PaidAsRewards, Listed
<1>2. Paid(h)' = Paid(h)
  BY <1>1 DEF Paid
<1>3. \A t : KeyAt(h, t)' = KeyAt(h, t) /\ ServiceAt(h, t)' = ServiceAt(h, t)
  BY DEF KeyAt, ServiceAt
<1>4. \A group : SummaryRowAt(h, group)' = SummaryRowAt(h, group)
  BY <1>3 DEF SummaryRowAt
<1>5. SummarizedAt(h, Paid(h))' = SummarizedAt(h, Paid(h))
  BY <1>2, <1>3, <1>4 DEF SummarizedAt
<1> QED
  BY <1>2, <1>5

\* Ids of transfers, and of the rows of their summary, are of one row each.
LEMMA PaidIds ==
    ASSUME ChainInv, NEW h \in 1..Len(chain)
    PROVE  /\ \A r \in PaidForClaims(h) \cup PaidAsRewards(h) : r.blockId = h
           /\ \A r, s \in PaidForClaims(h) : r.id = s.id => r = s
           /\ \A r, s \in PaidAsRewards(h) : r.id = s.id => r = s
<1>0. \A a, b, c, d, e : <<a, b, c>> = <<a, d, e>> => b = d /\ c = e
  OBVIOUS
<1>1. \A r \in PaidForClaims(h) \cup PaidAsRewards(h) : r.blockId = h
  <2>0. \A id, event, entry : TransferAt(h, id, event, entry).blockId = h
    BY DEF TransferAt
  <2>1. \A r \in PaidForClaims(h) : r.blockId = h
    BY <2>0, Zenon DEF PaidForClaims
  <2>2. \A r \in PaidAsRewards(h) : r.blockId = h
    BY <2>0, Zenon DEF PaidAsRewards
  <2> QED
    BY <2>1, <2>2
<1>2. ASSUME NEW r \in PaidForClaims(h), NEW s \in PaidForClaims(h), r.id = s.id PROVE r = s
  <2>1. PICK x \in SharesAt(h) :
          r = TransferAt(h, <<h, x[1], x[2]>>, <<h, x[1]>>, chain[h].events[x[1]].shares[x[2]])
    BY DEF PaidForClaims
  <2>2. PICK y \in SharesAt(h) :
          s = TransferAt(h, <<h, y[1], y[2]>>, <<h, y[1]>>, chain[h].events[y[1]].shares[y[2]])
    BY DEF PaidForClaims
  <2>3. r.id = <<h, x[1], x[2]>> /\ s.id = <<h, y[1], y[2]>>
    BY <2>1, <2>2 DEF TransferAt
  <2>4. x[1] = y[1] /\ x[2] = y[2]
    <3>1. <<h, x[1], x[2]>> = <<h, y[1], y[2]>>
      BY <1>2, <2>3
    <3> QED
      BY <1>0, <3>1, Zenon
  <2> QED
    BY <2>1, <2>2, <2>4
<1>3. ASSUME NEW r \in PaidAsRewards(h), NEW s \in PaidAsRewards(h), r.id = s.id PROVE r = s
  <2>1. PICK x \in Listed(h) :
          r = TransferAt(h, <<h, None, x.id>>, None, Entry(x.recipient, x.reason, x.amount))
    BY DEF PaidAsRewards
  <2>2. PICK y \in Listed(h) :
          s = TransferAt(h, <<h, None, y.id>>, None, Entry(y.recipient, y.reason, y.amount))
    BY DEF PaidAsRewards
  <2>3. r.id = <<h, None, x.id>> /\ s.id = <<h, None, y.id>>
    BY <2>1, <2>2 DEF TransferAt
  <2>4. x.id = y.id /\ x \in Rewards /\ y \in Rewards
    <3>1. chain[h].rewards \subseteq Rewards
      BY DEF ChainInv, BlockOK, IsBlock
    <3>2. x \in Rewards /\ y \in Rewards
      BY <3>1 DEF Listed
    <3>3. <<h, None, x.id>> = <<h, None, y.id>>
      BY <1>3, <2>3
    <3>4. x.id = y.id
      BY <1>0, <3>3, Zenon
    <3> QED
      BY <3>2, <3>4
  <2>5. x = y
    BY <2>4, SettlementAssumption
  <2> QED
    BY <2>1, <2>2, <2>5
<1> QED
  BY <1>1, <1>2, <1>3

LEMMA SummaryIds ==
    ASSUME NEW h, NEW records
    PROVE  /\ \A r \in SummarizedAt(h, records) : r.blockId = h
           /\ \A r, s \in SummarizedAt(h, records) : r.id = s.id => r = s
           /\ (SummarizedAt(h, records) = {}) <=> (records = {})
           /\ \A key \in {KeyAt(h, t) : t \in records} :
                LET r == SummaryRowAt(h, GroupAt(h, records, key))
                IN  r \in SummarizedAt(h, records) /\ key = <<r.recipientId, r.opReason, r.serviceId>>
<1> DEFINE Group(key) == GroupAt(h, records, key)
           Keys == {KeyAt(h, t) : t \in records}
<1>1. ASSUME NEW key \in Keys
      PROVE  LET r == SummaryRowAt(h, Group(key))
             IN  /\ r.id = <<h, r.recipientId, r.opReason, r.serviceId>> /\ r.blockId = h
                 /\ key = <<r.recipientId, r.opReason, r.serviceId>>
  <2> DEFINE some == CHOOSE t \in Group(key) : TRUE
             r == SummaryRowAt(h, Group(key))
  <2>1. some \in Group(key)
    <3>1. \E t : t \in Group(key)
      BY <1>1 DEF GroupAt
    <3> HIDE DEF Group
    <3> QED
      BY <3>1
  <2>2. KeyAt(h, some) = key
    BY <2>1 DEF GroupAt
  <2> HIDE DEF Group
  <2>3. /\ r.recipientId = some.recipientId /\ r.opReason = some.opReason
        /\ r.serviceId = ServiceAt(h, some) /\ r.blockId = h
        /\ r.id = <<h, some.recipientId, some.opReason, ServiceAt(h, some)>>
    BY DEF SummaryRowAt
  <2> HIDE DEF r, some
  <2>4. /\ r.id = <<h, r.recipientId, r.opReason, r.serviceId>> /\ r.blockId = h
        /\ key = <<r.recipientId, r.opReason, r.serviceId>>
    BY <2>2, <2>3 DEF KeyAt
  <2> QED
    BY <2>4 DEF r
<1>2. SummarizedAt(h, records) = {SummaryRowAt(h, Group(key)) : key \in Keys}
  BY DEF SummarizedAt, GroupAt
<1>3. (Keys = {}) <=> (records = {})
  OBVIOUS
<1> HIDE DEF Group, Keys
<1>4. ASSUME NEW r \in SummarizedAt(h, records), NEW s \in SummarizedAt(h, records), r.id = s.id
      PROVE  r = s
  <2>1. PICK c \in Keys : r = SummaryRowAt(h, Group(c))
    BY <1>2
  <2>2. PICK d \in Keys : s = SummaryRowAt(h, Group(d))
    BY <1>2
  <2>3. c = d
    BY <1>1, <1>4, <2>1, <2>2
  <2> QED
    BY <2>1, <2>2, <2>3
<1>5. \A r \in SummarizedAt(h, records) : r.blockId = h
  BY <1>1, <1>2
<1>6. (SummarizedAt(h, records) = {}) <=> (records = {})
  BY <1>2, <1>3
<1>7. \A key \in Keys : LET r == SummaryRowAt(h, Group(key))
                       IN  /\ r \in SummarizedAt(h, records)
                           /\ key = <<r.recipientId, r.opReason, r.serviceId>>
  BY <1>1, <1>2
<1> QED
  BY <1>4, <1>5, <1>6, <1>7 DEF Group, Keys

\* A transfer is counted in the summary row of its key.
LEMMA SummaryOfTransfer ==
    ASSUME NEW h, NEW records, NEW t \in records,
           NEW r, r = SummaryRowAt(h, GroupAt(h, records, KeyAt(h, t)))
    PROVE  /\ r \in SummarizedAt(h, records)
           /\ KeyAt(h, t) = <<r.recipientId, r.opReason, r.serviceId>>
<1>1. \A key \in {KeyAt(h, u) : u \in records} :
         LET q == SummaryRowAt(h, GroupAt(h, records, key))
         IN  q \in SummarizedAt(h, records) /\ key = <<q.recipientId, q.opReason, q.serviceId>>
  BY SummaryIds
<1>2. KeyAt(h, t) \in {KeyAt(h, u) : u \in records}
  OBVIOUS
<1> QED
  BY <1>1, <1>2, Zenon

-----------------------------------------------------------------------------
(* Transfers that are written: all that a block pays, or nothing yet *)

OfClaims == {"claims", "claimTransfers", "claimSummary"}
OfRewards == {"batch", "rewardTransfers", "rewardSummary"}
ForTransfers == {"begin", "claims", "batch", "claimTransfers", "rewardTransfers"}
ForSummary == {"begin", "claims", "batch", "claimSummary", "rewardSummary"}

Summary(h) == SummarizedAt(h, Paid(h))

PastPaid == \A h \in 1..height : At(transfers, h) = Paid(h) /\ At(summary, h) = Summary(h)

\* Claims and rewards of one block would delete each other's rows: only one of the
\* two has any.
NowPaid ==
    /\ At(transfers, B) \in {{}, Paid(B)} /\ At(summary, B) \in {{}, Summary(B)}
    /\ ForTransfers \cap pending = {} => At(transfers, B) = Paid(B)
    /\ ForSummary \cap pending = {} => At(summary, B) = Summary(B)
    /\ OfClaims \cap pending # {} => Data.events # <<>>
    /\ OfRewards \cap pending # {} => RewardTransfers # {}

PaidInv == ~Mixed /\ PastPaid /\ (Indexing => NowPaid)

LEMMA OneKind ==
    ASSUME ChainInv, ~Mixed, B \in 1..Len(chain)
    PROVE  /\ Data.events # <<>> => PaidAsRewards(B) = {}
           /\ RewardTransfers # {} => PaidForClaims(B) = {}
           /\ Data.events = <<>> => PaidForClaims(B) = {}
<1>1. BlockOK(B) /\ Data = chain[B] /\ (Data.claims = <<>> \/ Data.rewards = {})
  BY DEF ChainInv, Data, BlockOK
<1>2. DOMAIN Data.events = DOMAIN Data.claims /\ (Data.claims = <<>> => Data.events = <<>>)
  <2>1. Data.events = [k \in DOMAIN Data.claims |->
                         Attributes(Data.claims[k], FormAt(Data.form), RatioAt(B))]
    BY <1>1 DEF BlockOK
  <2> QED
    BY <2>1
<1>3. DOMAIN Data.events = {} => PaidForClaims(B) = {}
  BY <1>1 DEF PaidForClaims, SharesAt
<1>4. Data.rewards = {} => PaidAsRewards(B) = {}
  BY <1>1 DEF PaidAsRewards, Listed
<1>5. RewardTransfers = PaidAsRewards(B)
  BY PaidIs
<1> QED
  BY <1>1, <1>2, <1>3, <1>4, <1>5

\* What a write of one of the two leaves is what the block pays.
LEMMA PaidWritten ==
    ASSUME ChainInv, ~Mixed, B \in 1..Len(chain), NEW table, NEW all, NEW rows,
           At(table, B) \in {{}, all}, rows = all,
           \A r \in rows : r.blockId = B, \A r, s \in rows : r.id = s.id => r = s
    PROVE  /\ At(Replaced(table, rows), B) = all
           /\ \A h : h # B => At(Replaced(table, rows), h) = At(table, h)
<1>1. /\ \A h : h # B => At(Replaced(table, rows), h) = At(table, h)
      /\ At(Replaced(table, rows), B) = IF rows = {} THEN At(table, B) ELSE rows
  BY ReplacedIs
<1> QED
  BY <1>1

LEMMA TransfersAre ==
    ASSUME ChainInv, ~Mixed, B \in 1..Len(chain)
    PROVE  /\ Data.events # <<>> => ClaimTransfers = Paid(B)
           /\ RewardTransfers # {} => RewardTransfers = Paid(B)
           /\ \A r \in Paid(B) : r.blockId = B
           /\ Data.events # <<>> \/ RewardTransfers # {} => \A r, s \in Paid(B) : r.id = s.id => r = s
           /\ \A r \in Summary(B) : r.blockId = B
           /\ \A r, s \in Summary(B) : r.id = s.id => r = s
           /\ \A records : Summarized(records) = SummarizedAt(B, records)
<1>1. /\ ClaimTransfers = PaidForClaims(B) /\ RewardTransfers = PaidAsRewards(B)
      /\ \A records : Summarized(records) = SummarizedAt(B, records)
  BY PaidIs
<1>2. /\ Data.events # <<>> => PaidAsRewards(B) = {}
      /\ RewardTransfers # {} => PaidForClaims(B) = {}
  BY OneKind
<1>3. /\ \A r \in PaidForClaims(B) \cup PaidAsRewards(B) : r.blockId = B
      /\ \A r, s \in PaidForClaims(B) : r.id = s.id => r = s
      /\ \A r, s \in PaidAsRewards(B) : r.id = s.id => r = s
  BY PaidIds
<1>4. /\ \A r \in Summary(B) : r.blockId = B
      /\ \A r, s \in Summary(B) : r.id = s.id => r = s
  BY SummaryIds DEF Summary
<1> QED
  BY <1>1, <1>2, <1>3, <1>4 DEF Paid

LEMMA PaidKept ==
    ASSUME BaseInv, PaidInv, UNCHANGED <<chain, transfers, summary, height>>,
           Indexing => /\ ForTransfers \cap pending' = {} => ForTransfers \cap pending = {}
                       /\ ForSummary \cap pending' = {} => ForSummary \cap pending = {}
                       /\ OfClaims \cap pending' # {} => OfClaims \cap pending # {}
                       /\ OfRewards \cap pending' # {} => OfRewards \cap pending # {}
    PROVE  PaidInv'
<1>1. B' = B /\ Data' = Data /\ Indexing' = Indexing
  BY DEF B, Data, Indexing
<1>2. \A h : Paid(h)' = Paid(h) /\ Summary(h)' = Summary(h) /\ At(transfers, h)' = At(transfers, h)
            /\ At(summary, h)' = At(summary, h)
  BY PaidSame DEF Summary, At
<1>3. RewardTransfers' = RewardTransfers
  BY <1>1 DEF RewardTransfers, Transfer
<1>4. PastPaid'
  BY <1>2 DEF PaidInv, PastPaid
<1>5. Indexing' => NowPaid'
  BY <1>1, <1>2, <1>3 DEF PaidInv, NowPaid
<1> QED
  BY <1>4, <1>5 DEF PaidInv

LEMMA PaidProduce ==
    ASSUME BaseInv, PaidInv, Produce
    PROVE  PaidInv'
<1>0. /\ Len(chain) \in Nat /\ height = Len(chain) /\ B = Len(chain) /\ pending = Waiting
  BY Blocks DEF BaseInv, Produce
<1>1. /\ Len(chain') = Len(chain) + 1 /\ \A h \in 1..Len(chain) : chain'[h] = chain[h]
  BY ChainGrows DEF BaseInv
<1>2. height' = height /\ transfers' = transfers /\ summary' = summary /\ pending' = pending
  BY DEF Produce, tables
<1>3. PastPaid'
  <2> SUFFICES ASSUME NEW h \in 1..height
               PROVE  (At(transfers, h) = Paid(h) /\ At(summary, h) = Summary(h))'
    BY <1>2 DEF PastPaid
  <2>1. Paid(h)' = Paid(h) /\ Summary(h)' = Summary(h)
    BY <1>0, <1>1, PaidSame DEF Summary
  <2>2. At(transfers, h) = Paid(h) /\ At(summary, h) = Summary(h)
    BY DEF PaidInv, PastPaid
  <2> QED
    BY <1>2, <2>1, <2>2 DEF At
<1>4. B' = Len(chain) + 1 /\ At(transfers, B)' = {} /\ At(summary, B)' = {}
  BY <1>0, <1>1, <1>2 DEF B, At, BaseInv, RowsInv
<1>5. NowPaid'
  BY <1>0, <1>2, <1>4 DEF NowPaid, Waiting, ForTransfers, ForSummary, OfClaims, OfRewards
<1> QED
  BY <1>3, <1>5 DEF PaidInv

LEMMA PaidBegin ==
    ASSUME BaseInv, PaidInv, BeginBlock
    PROVE  PaidInv'
<1>0. ChainInv /\ Indexing /\ B \in 1..Len(chain) /\ NowPaid /\ ~Mixed
  BY Blocks DEF BaseInv, BeginBlock, PaidInv
<1>1. UNCHANGED <<chain, transfers, summary, height>> /\ pending' = Called
  BY DEF BeginBlock, tables
<1>2. B' = B /\ Data' = Data /\ Indexing' = Indexing
  BY <1>1 DEF B, Data, Indexing
<1>3. \A h : Paid(h)' = Paid(h) /\ Summary(h)' = Summary(h) /\ At(transfers, h)' = At(transfers, h)
            /\ At(summary, h)' = At(summary, h)
  BY <1>1, PaidSame DEF Summary, At
<1>4. RewardTransfers' = RewardTransfers
  BY <1>2 DEF RewardTransfers, Transfer
<1>5. Called \subseteq Handlers
  BY DEF Called
<1>6. ("claims" \in Called <=> Data.events # <<>>) /\ ("batch" \in Called <=> RewardTransfers # {})
  BY DEF Called, Handlers
<1>7. "claims" \notin Called /\ "batch" \notin Called => Paid(B) = {} /\ Summary(B) = {}
  <2> SUFFICES ASSUME Data.events = <<>>, RewardTransfers = {} PROVE Paid(B) = {} /\ Summary(B) = {}
    BY <1>6
  <2>1. Paid(B) = {}
    BY <1>0, OneKind, PaidIs DEF Paid
  <2> QED
    BY <2>1, SummaryIds DEF Summary
<1>8. PastPaid'
  BY <1>1, <1>3 DEF PaidInv, PastPaid
<1>9. NowPaid'
  <2>1. (At(transfers, B) \in {{}, Paid(B)} /\ At(summary, B) \in {{}, Summary(B)})'
    BY <1>0, <1>2, <1>3 DEF NowPaid
  <2>2. (ForTransfers \cap pending = {} => At(transfers, B) = Paid(B))'
    BY <1>0, <1>1, <1>2, <1>3, <1>7 DEF NowPaid, ForTransfers
  <2>3. (ForSummary \cap pending = {} => At(summary, B) = Summary(B))'
    BY <1>0, <1>1, <1>2, <1>3, <1>7 DEF NowPaid, ForSummary
  <2>4. (OfClaims \cap pending # {} => Data.events # <<>>)'
    BY <1>1, <1>2, <1>5, <1>6 DEF OfClaims, Handlers
  <2>5. (OfRewards \cap pending # {} => RewardTransfers # {})'
    BY <1>1, <1>4, <1>5, <1>6 DEF OfRewards, Handlers
  <2> QED
    BY <2>1, <2>2, <2>3, <2>4, <2>5 DEF NowPaid
<1> QED
  BY <1>8, <1>9 DEF PaidInv

\* A write of transfers.
LEMMA PaidTransfers ==
    ASSUME BaseInv, PaidInv, NEW write \in {"claimTransfers", "rewardTransfers"}, NEW records,
           WriteTransfers(write, records), records = Paid(B)
    PROVE  PaidInv'
<1>0. ChainInv /\ Indexing /\ B \in 1..Len(chain) /\ NowPaid /\ ~Mixed /\ B = height + 1
      /\ height \in Nat /\ write \in pending
  <2>1. pending # Waiting
    BY DEF WriteTransfers, Written, Waiting
  <2> QED
    BY <2>1, Blocks DEF BaseInv, PaidInv, WriteTransfers, Written
<1>1. /\ UNCHANGED <<chain, summary, height>> /\ pending' = pending \ {write}
      /\ transfers' = Replaced(transfers, records)
  BY DEF WriteTransfers, Written
<1>2. B' = B /\ Data' = Data /\ Indexing' = Indexing
  BY <1>1 DEF B, Data, Indexing
<1>3. \A h : Paid(h)' = Paid(h) /\ Summary(h)' = Summary(h) /\ At(summary, h)' = At(summary, h)
  BY <1>1, PaidSame DEF Summary, At
<1>4. RewardTransfers' = RewardTransfers
  BY <1>2 DEF RewardTransfers, Transfer
<1>5. Data.events # <<>> \/ RewardTransfers # {}
  BY <1>0 DEF NowPaid, OfClaims, OfRewards
<1>6. /\ At(transfers', B) = Paid(B)
      /\ \A h : h # B => At(transfers', h) = At(transfers, h)
  <2>1. \A r \in records : r.blockId = B
    BY <1>0, TransfersAre
  <2>2. \A r, s \in records : r.id = s.id => r = s
    BY <1>0, <1>5, TransfersAre
  <2>3. At(transfers, B) \in {{}, Paid(B)}
    BY <1>0 DEF NowPaid
  <2> QED
    BY <1>0, <1>1, <2>1, <2>2, <2>3, PaidWritten
<1>7. PastPaid'
  BY <1>0, <1>1, <1>3, <1>6 DEF PaidInv, PastPaid, At
<1>8. NowPaid'
  <2>1. At(transfers, B)' = Paid(B)'
    BY <1>2, <1>3, <1>6 DEF At
  <2>2. (At(summary, B) \in {{}, Summary(B)})'
    BY <1>0, <1>2, <1>3 DEF NowPaid
  <2>3. (ForSummary \cap pending = {} => At(summary, B) = Summary(B))'
    <3>1. ForSummary \cap pending' = ForSummary \cap pending
      BY <1>1 DEF ForSummary
    <3> QED
      BY <1>0, <1>2, <1>3, <3>1 DEF NowPaid
  <2>4. (OfClaims \cap pending # {} => Data.events # <<>>)'
    BY <1>0, <1>1, <1>2 DEF NowPaid
  <2>5. (OfRewards \cap pending # {} => RewardTransfers # {})'
    BY <1>0, <1>1, <1>4 DEF NowPaid
  <2> QED
    BY <2>1, <2>2, <2>3, <2>4, <2>5 DEF NowPaid
<1> QED
  BY <1>7, <1>8 DEF PaidInv

\* A write of their summary.
LEMMA PaidSummary ==
    ASSUME BaseInv, PaidInv, NEW write \in {"claimSummary", "rewardSummary"}, NEW records,
           WriteSummary(write, records), records = Paid(B)
    PROVE  PaidInv'
<1>0. ChainInv /\ Indexing /\ B \in 1..Len(chain) /\ NowPaid /\ ~Mixed /\ B = height + 1
      /\ height \in Nat /\ write \in pending
  <2>1. pending # Waiting
    BY DEF WriteSummary, Written, Waiting
  <2> QED
    BY <2>1, Blocks DEF BaseInv, PaidInv, WriteSummary, Written
<1>1. /\ UNCHANGED <<chain, transfers, height>> /\ pending' = pending \ {write}
      /\ summary' = Replaced(summary, Summarized(records))
  BY DEF WriteSummary, Written
<1>2. B' = B /\ Data' = Data /\ Indexing' = Indexing
  BY <1>1 DEF B, Data, Indexing
<1>3. \A h : Paid(h)' = Paid(h) /\ Summary(h)' = Summary(h) /\ At(transfers, h)' = At(transfers, h)
  BY <1>1, PaidSame DEF Summary, At
<1>4. RewardTransfers' = RewardTransfers
  BY <1>2 DEF RewardTransfers, Transfer
<1>5. /\ At(summary', B) = Summary(B)
      /\ \A h : h # B => At(summary', h) = At(summary, h)
  <2>1. Summarized(records) = Summary(B)
    BY <1>0, TransfersAre DEF Summary
  <2>2. (\A r \in Summary(B) : r.blockId = B) /\ \A r, s \in Summary(B) : r.id = s.id => r = s
    BY <1>0, TransfersAre
  <2>3. At(summary, B) \in {{}, Summary(B)}
    BY <1>0 DEF NowPaid
  <2> QED
    BY <1>0, <1>1, <2>1, <2>2, <2>3, PaidWritten
<1>6. PastPaid'
  BY <1>0, <1>1, <1>3, <1>5 DEF PaidInv, PastPaid, At
<1>7. NowPaid'
  <2>1. At(summary, B)' = Summary(B)'
    BY <1>2, <1>3, <1>5 DEF At
  <2>2. (At(transfers, B) \in {{}, Paid(B)})'
    BY <1>0, <1>2, <1>3 DEF NowPaid
  <2>3. (ForTransfers \cap pending = {} => At(transfers, B) = Paid(B))'
    <3>1. ForTransfers \cap pending' = ForTransfers \cap pending
      BY <1>1 DEF ForTransfers
    <3> QED
      BY <1>0, <1>2, <1>3, <3>1 DEF NowPaid
  <2>4. (OfClaims \cap pending # {} => Data.events # <<>>)'
    BY <1>0, <1>1, <1>2 DEF NowPaid
  <2>5. (OfRewards \cap pending # {} => RewardTransfers # {})'
    BY <1>0, <1>1, <1>4 DEF NowPaid
  <2> QED
    BY <2>1, <2>2, <2>3, <2>4, <2>5 DEF NowPaid
<1> QED
  BY <1>6, <1>7 DEF PaidInv

LEMMA PaidStep ==
    ASSUME BaseInv, PaidInv, [Next]_vars
    PROVE  PaidInv'
<1>0. /\ Len(chain) \in Nat /\ height \in 0..Len(chain) /\ height \in Nat
      /\ Indexing => B \in 1..Len(chain) /\ B = height + 1
      /\ pending # Waiting => Indexing
  BY Blocks DEF BaseInv
<1> USE DEF ForTransfers, ForSummary, OfClaims, OfRewards
<1>1. CASE Produce
  BY <1>1, PaidProduce
<1>2. CASE BeginBlock
  BY <1>2, PaidBegin
<1>3. CASE HandleMsgCreateClaim
  <2>1. UNCHANGED <<chain, transfers, summary, height>> /\ pending' = pending \ {"messages"}
    BY <1>3 DEF HandleMsgCreateClaim, Written
  <2> QED
    BY <2>1, PaidKept
<1>4. CASE WriteSettled
  <2>1. UNCHANGED <<chain, transfers, summary, height>> /\ pending' = pending \ {"settled"}
    BY <1>4 DEF WriteSettled, Written
  <2> QED
    BY <2>1, PaidKept
<1>5. CASE HandleEventClaimSettled
  <2>1. /\ UNCHANGED <<chain, transfers, summary, height>> /\ "claims" \in pending
        /\ pending' = (pending \ {"claims"}) \cup {"settled", "claimTransfers", "claimSummary"}
    BY <1>5 DEF HandleEventClaimSettled, Handled, tables
  <2> QED
    BY <2>1, PaidKept
<1>6. CASE HandleEventSettlementBatch
  <2>1. /\ UNCHANGED <<chain, transfers, summary, height>> /\ "batch" \in pending
        /\ pending' = (pending \ {"batch"}) \cup {"rewardTransfers", "rewardSummary"}
    BY <1>6 DEF HandleEventSettlementBatch, Handled, tables
  <2> QED
    BY <2>1, PaidKept
<1>7. CASE WriteTransfers("claimTransfers", ClaimTransfers)
  <2>1. "claimTransfers" \in pending
    BY <1>7 DEF WriteTransfers, Written
  <2>2. ClaimTransfers = Paid(B)
    BY <1>0, <2>1, TransfersAre DEF BaseInv, PaidInv, NowPaid, Waiting
  <2> QED
    BY <1>7, <2>2, PaidTransfers
<1>8. CASE WriteTransfers("rewardTransfers", RewardTransfers)
  <2>1. "rewardTransfers" \in pending
    BY <1>8 DEF WriteTransfers, Written
  <2>2. RewardTransfers = Paid(B)
    BY <1>0, <2>1, TransfersAre DEF BaseInv, PaidInv, NowPaid, Waiting
  <2> QED
    BY <1>8, <2>2, PaidTransfers
<1>9. CASE WriteSummary("claimSummary", ClaimTransfers)
  <2>1. "claimSummary" \in pending
    BY <1>9 DEF WriteSummary, Written
  <2>2. ClaimTransfers = Paid(B)
    BY <1>0, <2>1, TransfersAre DEF BaseInv, PaidInv, NowPaid, Waiting
  <2> QED
    BY <1>9, <2>2, PaidSummary
<1>10. CASE WriteSummary("rewardSummary", RewardTransfers)
  <2>1. "rewardSummary" \in pending
    BY <1>10 DEF WriteSummary, Written
  <2>2. RewardTransfers = Paid(B)
    BY <1>0, <2>1, TransfersAre DEF BaseInv, PaidInv, NowPaid, Waiting
  <2> QED
    BY <1>10, <2>2, PaidSummary
<1>11. CASE Commit
  <2>1. Indexing /\ pending = {} /\ height' = B /\ UNCHANGED <<chain, transfers, summary>>
    BY <1>11 DEF Commit, tables
  <2>2. \A h \in 1..B : At(transfers, h) = Paid(h) /\ At(summary, h) = Summary(h)
    BY <1>0, <2>1 DEF PaidInv, PastPaid, NowPaid
  <2>3. \A h : Paid(h)' = Paid(h) /\ Summary(h)' = Summary(h)
    BY <2>1, PaidSame DEF Summary
  <2>4. PastPaid'
    BY <2>1, <2>2, <2>3 DEF PastPaid, At
  <2>5. ~Indexing'
    BY <1>0, <2>1 DEF Indexing, B
  <2> QED
    BY <2>4, <2>5 DEF PaidInv
<1>12. CASE Crash
  <2>1. UNCHANGED <<chain, transfers, summary, height>> /\ pending' = {"begin"}
    BY <1>12 DEF Crash, tables, Waiting
  <2> QED
    BY <2>1, PaidKept
<1>13. CASE UNCHANGED vars
  BY <1>13, PaidKept DEF vars, tables
<1> QED
  BY <1>1, <1>2, <1>3, <1>4, <1>5, <1>6, <1>7, <1>8, <1>9, <1>10, <1>11, <1>12, <1>13
     DEF Next, Handler

-----------------------------------------------------------------------------
(* What a block pays adds up *)

LEMMA FiniteImage ==
    ASSUME NEW S, IsFiniteSet(S), NEW f, NEW T, T = {f[x] : x \in S}
    PROVE  IsFiniteSet(T)
<1> DEFINE g == [x \in S |-> f[x]]
<1>1. g \in Surjection(S, T)
  <2>1. g \in [S -> T] /\ \A t \in T : \E x \in S : g[x] = t
    OBVIOUS
  <2> QED
    BY <2>1 DEF Surjection
<1> QED
  BY <1>1, FS_Surjection

Amount(S) == [r \in S |-> r.amount]

LEMMA AmountIs ==
    ASSUME NEW all, NEW rows \in SUBSET all, IsFiniteSet(all), \A r \in all : r.amount \in Int
    PROVE  AmountOf(rows) = Sum(Amount(all), rows)
<1>1. IsFiniteSet(rows)
  BY FS_Subset
<1>2. AmountOf(rows) = Sum(Amount(rows), rows)
  BY TotalIsSum DEF AmountOf, Amount
<1>3. \A r \in rows : Amount(all)[r] \in Int /\ Amount(rows)[r] = Amount(all)[r]
  BY DEF Amount
<1>4. Sum(Amount(rows), rows) = Sum(Amount(all), rows)
  BY <1>1, <1>3, SumSame
<1> QED
  BY <1>2, <1>4

\* What the chain gives an account for one claim.
Given(h, k, a) ==
    LET w == chain[h].claims[k].work
    IN  IF a = "owner" THEN MintedOf(w, RatioAt(h)) ELSE IF a = "dao" THEN 2 * w.inflation ELSE 0

LEMMA EventAt ==
    ASSUME ChainInv, NEW h \in 1..Len(chain)
    PROVE  /\ DOMAIN chain[h].events = Claims(h) /\ IsFiniteSet(Claims(h)) /\ Claims(h) \subseteq Nat
           /\ \A k \in Claims(h) :
                /\ chain[h].events[k].service = chain[h].claims[k].service
                /\ chain[h].events[k].service \in Services
                /\ chain[h].events[k].shares \in Seq(EntrySet)
                /\ \A a : /\ Given(h, k, a) \in Nat
                          /\ AmountsIn(chain[h].events[k].shares, To(a)) = Given(h, k, a)
<1>1. chain[h].claims \in Seq(Claim)
  BY DEF ChainInv, BlockOK, IsBlock
<1>2. chain[h].events = [k \in DOMAIN chain[h].claims |->
                           Attributes(chain[h].claims[k], FormAt(chain[h].form), RatioAt(h))]
  BY DEF ChainInv, BlockOK
<1>3. PICK n \in Nat : n = Len(chain[h].claims) /\ Claims(h) = 1..n
  BY <1>1 DEF Claims
<1>4. IsFiniteSet(Claims(h)) /\ Claims(h) \subseteq Nat
  <2>1. IsFiniteSet(1..n)
    BY FS_Interval
  <2> QED
    BY <1>3, <2>1
<1>5. ASSUME NEW k \in Claims(h)
      PROVE  /\ chain[h].events[k].service = chain[h].claims[k].service
             /\ chain[h].events[k].service \in Services
             /\ chain[h].events[k].shares \in Seq(EntrySet)
             /\ \A a : /\ Given(h, k, a) \in Nat
                       /\ AmountsIn(chain[h].events[k].shares, To(a)) = Given(h, k, a)
  <2> DEFINE c == chain[h].claims[k]
             shares == chain[h].events[k].shares
  <2>1. c \in Claim
    BY <1>1 DEF Claims
  <2>2. c.work \in Works /\ c.service \in Services
    BY <2>1 DEF Claim
  <2>3. chain[h].events[k] = Attributes(c, FormAt(chain[h].form), RatioAt(h))
    BY <1>2 DEF Claims
  <2> HIDE DEF c
  <2>4. /\ chain[h].events[k].service = c.service
        /\ shares \in {Shares(c.work, RatioAt(h)), TotalShares(c.work, RatioAt(h))}
    BY <2>3 DEF Attributes
  <2>5. MintedOf(c.work, RatioAt(h)) \in Nat
    BY <2>2, RatioIs
  <2>6. c.work.inflation \in Nat
    BY <2>2, WorkFields
  <2> HIDE DEF shares
  <2>7. shares \in Seq(EntrySet)
    BY <2>2, <2>4, <2>5, SharesAre
  <2>8. \A a : AmountsIn(shares, To(a)) = IF a = "owner" THEN MintedOf(c.work, RatioAt(h))
                                           ELSE IF a = "dao" THEN 2 * c.work.inflation ELSE 0
    BY <2>2, <2>4, <2>5, SharesAre
  <2>9. \A a : Given(h, k, a) = IF a = "owner" THEN MintedOf(c.work, RatioAt(h))
                                ELSE IF a = "dao" THEN 2 * c.work.inflation ELSE 0
    BY DEF Given, c
  <2>10. \A a : Given(h, k, a) \in Nat
    BY <2>5, <2>6, <2>9
  <2>11. \A a : AmountsIn(shares, To(a)) = Given(h, k, a)
    BY <2>8, <2>9
  <2> QED
    BY <2>2, <2>4, <2>7, <2>10, <2>11 DEF shares, c
<1> QED
  BY <1>2, <1>4, <1>5 DEF Claims

\* The transfer of one share of one claim, and of one reward.
ForShare(h, k, i) == TransferAt(h, <<h, k, i>>, <<h, k>>, chain[h].events[k].shares[i])
AsReward(h, r) == TransferAt(h, <<h, None, r.id>>, None, Entry(r.recipient, r.reason, r.amount))

LEMMA ForShareIs ==
    ASSUME ChainInv, NEW h \in 1..Len(chain), NEW k \in Claims(h),
           NEW i \in DOMAIN chain[h].events[k].shares
    PROVE  LET t == ForShare(h, k, i)
               e == chain[h].events[k].shares[i]
           IN  /\ t \in PaidForClaims(h) /\ t.id = <<h, k, i>> /\ t.amount = e.amount
               /\ t.recipientId = e.recipient /\ t.amount \in Nat
               /\ t.eventClaimSettledId = <<h, k>> /\ t.eventClaimSettledId[2] = k
               /\ t.eventClaimSettledId # None
               /\ ServiceAt(h, t) = chain[h].claims[k].service /\ ServiceAt(h, t) \in Services
<1> DEFINE e == chain[h].events[k].shares[i]
           t == ForShare(h, k, i)
<1>1. /\ DOMAIN chain[h].events = Claims(h) /\ Claims(h) \subseteq Nat
      /\ chain[h].events[k].service = chain[h].claims[k].service
      /\ chain[h].events[k].service \in Services
      /\ chain[h].events[k].shares \in Seq(EntrySet)
  BY EventAt
<1>2. e \in EntrySet
  BY <1>1
<1>3. e.amount \in Nat
  BY <1>2 DEF EntrySet
<1>4. <<k, i>> \in SharesAt(h)
  BY <1>1 DEF SharesAt
<1>5. t \in PaidForClaims(h)
  <2>1. PICK x \in SharesAt(h) : x[1] = k /\ x[2] = i
    BY <1>4
  <2>2. t = TransferAt(h, <<h, x[1], x[2]>>, <<h, x[1]>>, chain[h].events[x[1]].shares[x[2]])
    BY <2>1 DEF ForShare
  <2> HIDE DEF t
  <2> QED
    BY <2>2 DEF PaidForClaims
<1>6. /\ t.id = <<h, k, i>> /\ t.amount = e.amount /\ t.recipientId = e.recipient
      /\ t.eventClaimSettledId = <<h, k>>
  BY DEF ForShare, TransferAt
<1>7. <<h, k>> \in Nat \X Nat /\ <<h, k>>[2] = k
  BY <1>1 DEF ChainInv
<1>8. <<h, k>> # None
  BY <1>7, SettlementAssumption
<1> HIDE DEF t, e
<1>9. ServiceAt(h, t) = chain[h].events[k].service
  BY <1>6, <1>7, <1>8 DEF ServiceAt
<1> QED
  BY <1>1, <1>3, <1>5, <1>6, <1>7, <1>8, <1>9 DEF t, e

LEMMA AsRewardIs ==
    ASSUME ChainInv, NEW h \in 1..Len(chain), NEW r \in Listed(h)
    PROVE  LET t == AsReward(h, r)
           IN  /\ t \in PaidAsRewards(h) /\ t.id = <<h, None, r.id>> /\ t.amount = r.amount
               /\ t.recipientId = r.recipient /\ t.amount \in Nat
               /\ t.eventClaimSettledId = None /\ ServiceAt(h, t) = None
<1> DEFINE t == AsReward(h, r)
<1>1. r \in Rewards
  BY DEF Listed, ChainInv, BlockOK, IsBlock
<1>2. r.amount \in Nat
  BY <1>1, SettlementAssumption
<1>3. t \in PaidAsRewards(h)
  BY DEF PaidAsRewards, AsReward
<1>4. /\ t.id = <<h, None, r.id>> /\ t.amount = r.amount /\ t.recipientId = r.recipient
      /\ t.eventClaimSettledId = None
  BY DEF AsReward, TransferAt, Entry
<1> HIDE DEF t
<1>5. ServiceAt(h, t) = None
  BY <1>4 DEF ServiceAt
<1> QED
  BY <1>2, <1>3, <1>4, <1>5 DEF t

LEMMA PaidFinite ==
    ASSUME ChainInv, NEW h \in 1..Len(chain)
    PROVE  /\ IsFiniteSet(Paid(h)) /\ IsFiniteSet(Listed(h))
           /\ \A t \in PaidForClaims(h) : \E k \in Claims(h) :
                \E i \in DOMAIN chain[h].events[k].shares : t = ForShare(h, k, i)
           /\ \A t \in PaidAsRewards(h) : \E r \in Listed(h) : t = AsReward(h, r)
           /\ \A t \in Paid(h) : /\ t.amount \in Nat
                                 /\ ServiceAt(h, t) = IF t.eventClaimSettledId = None THEN None
                                      ELSE chain[h].claims[t.eventClaimSettledId[2]].service
<1>1. /\ DOMAIN chain[h].events = Claims(h) /\ IsFiniteSet(Claims(h))
      /\ \A k \in Claims(h) : chain[h].events[k].shares \in Seq(EntrySet)
  BY EventAt
<1> DEFINE Of(k) == {<<k, i>> : i \in DOMAIN chain[h].events[k].shares}
           At2 == [k \in Claims(h) |-> Of(k)]
<1>2. SharesAt(h) = UNION {At2[k] : k \in Claims(h)}
  BY <1>1 DEF SharesAt
<1>3. ASSUME NEW k \in Claims(h) PROVE IsFiniteSet(At2[k])
  <2> DEFINE D == DOMAIN chain[h].events[k].shares
             f == [i \in D |-> <<k, i>>]
  <2>1. PICK n \in Nat : D = 1..n
    BY <1>1
  <2>2. IsFiniteSet(D)
    <3>1. IsFiniteSet(1..n)
      BY FS_Interval
    <3> QED
      BY <2>1, <3>1, Zenon
  <2>3. At2[k] = {f[i] : i \in D}
    OBVIOUS
  <2> HIDE DEF D, f, At2
  <2> QED
    BY <2>2, <2>3, FiniteImage
<1> HIDE DEF At2
<1>4. IsFiniteSet({At2[k] : k \in Claims(h)})
  BY <1>1, FiniteImage
<1>5. IsFiniteSet(SharesAt(h))
  BY <1>2, <1>3, <1>4, FS_UNION
<1>6. IsFiniteSet(PaidForClaims(h))
  <2> DEFINE f == [x \in SharesAt(h) |-> TransferAt(h, <<h, x[1], x[2]>>, <<h, x[1]>>,
                                                   chain[h].events[x[1]].shares[x[2]])]
  <2>1. PaidForClaims(h) = {f[x] : x \in SharesAt(h)}
    BY DEF PaidForClaims
  <2> HIDE DEF f
  <2> QED
    BY <1>5, <2>1, FiniteImage
<1>7. IsFiniteSet(Listed(h))
  <2>1. Listed(h) \subseteq Rewards
    BY DEF Listed, ChainInv, BlockOK, IsBlock
  <2> QED
    BY <2>1, FS_Subset, SettlementAssumption
<1>8. IsFiniteSet(PaidAsRewards(h))
  <2> DEFINE f == [r \in Listed(h) |-> AsReward(h, r)]
  <2>1. PaidAsRewards(h) = {f[x] : x \in Listed(h)}
    BY DEF PaidAsRewards, AsReward
  <2> HIDE DEF f
  <2> QED
    BY <1>7, <2>1, FiniteImage
<1>9. IsFiniteSet(Paid(h))
  BY <1>6, <1>8, FS_Union DEF Paid
<1>10. \A t \in PaidForClaims(h) : \E k \in Claims(h) :
         \E i \in DOMAIN chain[h].events[k].shares : t = ForShare(h, k, i)
  <2> SUFFICES ASSUME NEW t \in PaidForClaims(h)
               PROVE  \E k \in Claims(h) :
                        \E i \in DOMAIN chain[h].events[k].shares : t = ForShare(h, k, i)
    OBVIOUS
  <2>1. PICK x \in SharesAt(h) :
          t = TransferAt(h, <<h, x[1], x[2]>>, <<h, x[1]>>, chain[h].events[x[1]].shares[x[2]])
    BY DEF PaidForClaims
  <2>2. PICK k \in Claims(h) : x \in {<<k, i>> : i \in DOMAIN chain[h].events[k].shares}
    BY <1>1 DEF SharesAt
  <2>4. PICK i \in DOMAIN chain[h].events[k].shares : x = <<k, i>>
    BY <2>2
  <2>3. x[1] = k /\ x[2] = i
    BY <2>4
  <2> QED
    BY <2>1, <2>3 DEF ForShare
<1>11. \A t \in PaidAsRewards(h) : \E r \in Listed(h) : t = AsReward(h, r)
  BY DEF PaidAsRewards, AsReward
<1>12. ASSUME NEW t \in Paid(h)
       PROVE  /\ t.amount \in Nat
              /\ ServiceAt(h, t) = IF t.eventClaimSettledId = None THEN None
                                   ELSE chain[h].claims[t.eventClaimSettledId[2]].service
  <2>1. CASE t \in PaidForClaims(h)
    <3>1. PICK k \in Claims(h) : \E i \in DOMAIN chain[h].events[k].shares : t = ForShare(h, k, i)
      BY <1>10, <2>1
    <3>2. PICK i \in DOMAIN chain[h].events[k].shares : t = ForShare(h, k, i)
      BY <3>1
    <3> QED
      BY <3>2, ForShareIs
  <2>2. CASE t \in PaidAsRewards(h)
    <3>1. PICK r \in Listed(h) : t = AsReward(h, r)
      BY <1>11, <2>2
    <3> QED
      BY <3>1, AsRewardIs
  <2> QED
    BY <2>1, <2>2 DEF Paid
<1> QED
  BY <1>7, <1>9, <1>10, <1>11, <1>12

\* An account receives the rewards of a batch for it.
LEMMA PaidByBatch ==
    ASSUME ChainInv, NEW h \in 1..Len(chain), NEW a
    PROVE  AmountOf({t \in PaidAsRewards(h) : t.recipientId = a})
           = AmountOf({r \in Rewarded(h) : r.recipient = a})
<1> DEFINE T == {t \in PaidAsRewards(h) : t.recipientId = a}
           R == {r \in Listed(h) : r.recipient = a}
           k == [r \in R |-> AsReward(h, r)]
<1>1. IsFiniteSet(Paid(h)) /\ IsFiniteSet(Listed(h))
      /\ \A t \in PaidAsRewards(h) : \E r \in Listed(h) : t = AsReward(h, r)
  BY PaidFinite
<1>2. ASSUME NEW r \in Listed(h)
      PROVE  /\ AsReward(h, r) \in PaidAsRewards(h) /\ AsReward(h, r).id = <<h, None, r.id>>
             /\ AsReward(h, r).amount = r.amount /\ AsReward(h, r).recipientId = r.recipient
             /\ AsReward(h, r).amount \in Nat
  BY AsRewardIs
<1>3. Listed(h) \subseteq Rewards /\ Rewarded(h) = Listed(h)
  <2>1. chain[h].rewards \subseteq Rewards
    BY DEF ChainInv, BlockOK, IsBlock
  <2>2. \A r \in Rewards : r.reason \in {"validator", "delegator", "other"}
    BY SettlementAssumption
  <2> QED
    BY <2>1, <2>2 DEF Listed, Rewarded
<1>4. T \subseteq Paid(h) /\ IsFiniteSet(T) /\ IsFiniteSet(R)
  BY <1>1, FS_Subset DEF Paid
<1>5. k \in Bijection(R, T)
  <2>1. k \in [R -> T] /\ \A r \in R : k[r] = AsReward(h, r)
    BY <1>2
  <2>2. ASSUME NEW r \in R, NEW s \in R, k[r] = k[s] PROVE r = s
    <3>1. <<h, None, r.id>> = <<h, None, s.id>>
      BY <1>2, <2>1, <2>2
    <3>2. r.id = s.id
      BY <3>1
    <3> QED
      BY <1>3, <3>2, SettlementAssumption
  <2>3. \A t \in T : \E r \in R : k[r] = t
    BY <1>1, <1>2, <2>1
  <2> HIDE DEF k, R, T
  <2> QED
    BY <2>1, <2>2, <2>3, IsBijection
<1>6. /\ \A t \in T : t.amount \in Int /\ Amount(T)[t] \in Int
      /\ \A r \in R : r.amount \in Int /\ Amount(R)[r] = Amount(T)[k[r]]
  <2>1. \A t \in T : t.amount \in Int /\ Amount(T)[t] = t.amount
    BY <1>1, <1>2 DEF Amount
  <2>2. \A r \in R : r.amount \in Int /\ Amount(R)[r] = r.amount /\ k[r] \in T /\ k[r].amount = r.amount
    BY <1>2 DEF Amount
  <2> HIDE DEF k, R, T
  <2> QED
    BY <2>1, <2>2
<1> HIDE DEF k, R, T
<1>7. Sum(Amount(R), R) = Sum(Amount(T), T)
  BY <1>4, <1>5, <1>6, MatchedSum
<1>8. AmountOf(T) = Sum(Amount(T), T)
  BY <1>4, <1>6, AmountIs
<1>9. AmountOf(R) = Sum(Amount(R), R)
  BY <1>4, <1>6, AmountIs
<1> QED
  BY <1>3, <1>7, <1>8, <1>9 DEF T, R

\* An account receives what the chain gives it for each claim.
LEMMA PaidByClaims ==
    ASSUME ChainInv, NEW h \in 1..Len(chain), NEW a
    PROVE  AmountOf({t \in PaidForClaims(h) : t.recipientId = a})
           = Sum([k \in Claims(h) |-> Given(h, k, a)], Claims(h))
<1> DEFINE T == {t \in PaidForClaims(h) : t.recipientId = a}
           f == Amount(T)
           K == Claims(h)
           key == [t \in T |-> t.eventClaimSettledId[2]]
           g == [k \in K |-> Given(h, k, a)]
           group == [k \in K |-> {t \in T : key[t] = k}]
<1>1. IsFiniteSet(Paid(h))
      /\ \A t \in PaidForClaims(h) : \E k \in Claims(h) :
           \E i \in DOMAIN chain[h].events[k].shares : t = ForShare(h, k, i)
  BY PaidFinite
<1>2. T \subseteq Paid(h) /\ IsFiniteSet(T)
  BY <1>1, FS_Subset DEF Paid
<1>3. /\ IsFiniteSet(K)
      /\ \A k \in K : /\ chain[h].events[k].shares \in Seq(EntrySet)
                      /\ Given(h, k, a) \in Nat
                      /\ AmountsIn(chain[h].events[k].shares, To(a)) = Given(h, k, a)
  BY EventAt
<1>4. ASSUME NEW k \in K, NEW i \in DOMAIN chain[h].events[k].shares
      PROVE  LET t == ForShare(h, k, i)
                 e == chain[h].events[k].shares[i]
             IN  /\ t \in PaidForClaims(h) /\ t.id = <<h, k, i>> /\ t.amount = e.amount
                 /\ t.recipientId = e.recipient /\ t.amount \in Nat /\ t.eventClaimSettledId[2] = k
  BY ForShareIs
<1>5. \A t \in T : /\ t.amount \in Nat /\ f[t] = t.amount /\ key[t] \in K
                   /\ key[t] = t.eventClaimSettledId[2]
  <2> SUFFICES ASSUME NEW t \in T
               PROVE  t.amount \in Nat /\ t.eventClaimSettledId[2] \in K
    BY DEF Amount
  <2>1. PICK k \in K : \E i \in DOMAIN chain[h].events[k].shares : t = ForShare(h, k, i)
    BY <1>1
  <2>2. PICK i \in DOMAIN chain[h].events[k].shares : t = ForShare(h, k, i)
    BY <2>1
  <2> HIDE DEF T, K
  <2> QED
    BY <1>4, <2>2
<1>6. ASSUME NEW k \in K
      PROVE  Given(h, k, a) = Sum(f, {t \in T : key[t] = k})
  <2> DEFINE shares == chain[h].events[k].shares
             C == Chosen(shares, To(a))
             G == {t \in T : key[t] = k}
             m == [i \in C |-> ForShare(h, k, i)]
             amounts == [i \in C |-> shares[i].amount]
  <2>1. shares \in Seq(EntrySet) /\ IsFiniteSet(G)
    BY <1>2, <1>3, FS_Subset
  <2>2. \A i \in DOMAIN shares : i \in C <=> shares[i].recipient = a
    <3> HIDE DEF shares
    <3>1. \A i \in DOMAIN shares : shares[i] \in EntrySet
      BY <2>1
    <3> QED
      BY <3>1 DEF Chosen, To
  <2>3. ASSUME NEW i \in C
        PROVE  /\ i \in DOMAIN shares /\ ForShare(h, k, i) \in G
               /\ ForShare(h, k, i).id = <<h, k, i>>
               /\ f[ForShare(h, k, i)] = shares[i].amount /\ shares[i].amount \in Nat
    <3>1. i \in DOMAIN shares
      BY DEF Chosen
    <3> HIDE DEF C
    <3>2. ForShare(h, k, i) \in T
      BY <1>4, <2>2, <3>1
    <3> HIDE DEF T, f
    <3>3. ForShare(h, k, i) \in G
      BY <1>4, <1>5, <3>1, <3>2
    <3> QED
      BY <1>4, <1>5, <3>1, <3>2, <3>3
  <2>4. ASSUME NEW t \in G
        PROVE  \E i \in C : t = ForShare(h, k, i)
    <3>1. PICK l \in K : \E i \in DOMAIN chain[h].events[l].shares : t = ForShare(h, l, i)
      BY <1>1
    <3>2. PICK i \in DOMAIN chain[h].events[l].shares : t = ForShare(h, l, i)
      BY <3>1
    <3>3. l = k
      BY <1>4, <1>5, <3>2
    <3>4. shares[i].recipient = a
      BY <1>4, <3>2, <3>3
    <3> QED
      BY <2>2, <3>2, <3>3, <3>4
  <2>5. m \in Bijection(C, G)
    <3>0. \A i \in C : m[i] = ForShare(h, k, i)
      OBVIOUS
    <3> HIDE DEF C, G, shares, T, K
    <3>1. m \in [C -> G]
      BY <2>3
    <3>2. ASSUME NEW i \in C, NEW j \in C, m[i] = m[j] PROVE i = j
      <4>1. <<h, k, i>> = <<h, k, j>>
        BY <2>3, <3>0, <3>2
      <4> QED
        BY <4>1
    <3>3. \A t \in G : \E i \in C : m[i] = t
      BY <2>4, <3>0
    <3> HIDE DEF m
    <3> QED
      BY <3>1, <3>2, <3>3, IsBijection
  <2>6. \A i \in C : amounts[i] = f[m[i]]
    BY <2>3
  <2>7. \A t \in G : f[t] \in Int
    <3> HIDE DEF f, key
    <3> QED
      BY <1>5
  <2>8. AmountsIn(shares, To(a)) = Sum(amounts, C)
    BY DEF AmountsIn
  <2> HIDE DEF C, G, shares, T, K, m, amounts, f
  <2>9. Sum(amounts, C) = Sum(f, G)
    BY <2>1, <2>5, <2>6, <2>7, MatchedSum
  <2>10. AmountsIn(shares, To(a)) = Given(h, k, a)
    BY <1>3 DEF shares
  <2> QED
    BY <2>8, <2>9, <2>10 DEF G
<1>7. AmountOf(T) = Sum(f, T)
  <2>0. \A t \in T : t.amount \in Nat
    BY <1>5, Zenon
  <2>1. \A t \in T : t.amount \in Int
    <3> HIDE DEF T
    <3> QED
      BY <2>0
  <2> HIDE DEF T
  <2> QED
    BY <1>2, <2>1, AmountIs
<1>8. (\A t \in T : f[t] \in Int) /\ (\A t \in T : key[t] \in K)
  <2> HIDE DEF f, key, T, K
  <2> QED
    BY <1>5
<1>9. \A k \in K : g[k] = Sum(f, group[k])
  BY <1>6
<1>10. \A k \in K : \A t : t \in group[k] <=> t \in T /\ key[t] = k
  <2> HIDE DEF T, K, key
  <2> QED
    OBVIOUS
<1> HIDE DEF T, f, K, key, g, group
<1>11. Sum(g, K) = Sum(f, T)
  <2>1. IsFiniteSet(K)
    BY <1>3
  <2> QED
    BY <1>2, <2>1, <1>8, <1>9, <1>10, SumOfGroups
<1> QED
  BY <1>7, <1>11 DEF T, g, K

LEMMA ReceivedIs ==
    ASSUME ChainInv, ~Mixed, NEW h \in 1..Len(chain), At(transfers, h) = Paid(h), NEW a
    PROVE  Received(h, a) = AmountOf({r \in Rewarded(h) : r.recipient = a})
                            + Total([k \in Claims(h) |-> Given(h, k, a)], Claims(h))
<1> DEFINE g == [k \in Claims(h) |-> Given(h, k, a)]
<1>1. chain[h].claims = <<>> \/ chain[h].rewards = {}
  BY DEF ChainInv, BlockOK
<1>2. Total(g, Claims(h)) = Sum(g, Claims(h))
  BY TotalIsSum
<1>3. AmountOf({t \in PaidAsRewards(h) : t.recipientId = a})
      = AmountOf({r \in Rewarded(h) : r.recipient = a})
  BY PaidByBatch
<1>4. AmountOf({t \in PaidForClaims(h) : t.recipientId = a}) = Sum(g, Claims(h))
  BY PaidByClaims
<1>5. AmountOf({}) = 0
  BY TotalIsSum, SumEmpty DEF AmountOf
<1>6. CASE chain[h].claims = <<>>
  <2>1. Claims(h) = {} /\ DOMAIN chain[h].events = {}
    BY <1>6, EventAt DEF Claims
  <2>2. PaidForClaims(h) = {}
    BY <2>1 DEF PaidForClaims, SharesAt
  <2>3. Paid(h) = PaidAsRewards(h)
    BY <2>2 DEF Paid
  <2>4. Sum(g, Claims(h)) = 0
    BY <2>1, SumEmpty
  <2>5. \A S : IsFiniteSet(S) /\ (\A r \in S : r.amount \in Int) => AmountOf(S) \in Int
    <3> SUFFICES ASSUME NEW S, IsFiniteSet(S), \A r \in S : r.amount \in Int PROVE AmountOf(S) \in Int
      OBVIOUS
    <3>1. AmountOf(S) = Sum(Amount(S), S)
      BY AmountIs
    <3>2. \A r \in S : Amount(S)[r] \in Int
      BY DEF Amount
    <3> QED
      BY <3>1, <3>2, SumType
  <2>6. Received(h, a) \in Int
    <3>1. IsFiniteSet(Paid(h)) /\ \A t \in Paid(h) : t.amount \in Nat
      BY PaidFinite
    <3>2. IsFiniteSet({t \in Paid(h) : t.recipientId = a})
      BY <3>1, FS_Subset
    <3> QED
      BY <2>5, <3>1, <3>2 DEF Received
  <2> HIDE DEF g
  <2>7. Received(h, a) = AmountOf({r \in Rewarded(h) : r.recipient = a})
    BY <1>3, <2>3 DEF Received
  <2> QED
    BY <1>2, <2>4, <2>6, <2>7 DEF g
<1>7. CASE chain[h].rewards = {}
  <2>1. Listed(h) = {} /\ {r \in Rewarded(h) : r.recipient = a} = {}
    BY <1>7 DEF Listed, Rewarded
  <2>2. PaidAsRewards(h) = {}
    BY <2>1 DEF PaidAsRewards
  <2>3. Paid(h) = PaidForClaims(h)
    BY <2>2 DEF Paid
  <2>4. Sum(g, Claims(h)) \in Int
    <3>1. IsFiniteSet(Claims(h)) /\ \A k \in Claims(h) : g[k] \in Int
      BY EventAt
    <3> HIDE DEF g
    <3> QED
      BY <3>1, SumType
  <2> HIDE DEF g
  <2>5. Received(h, a) = Sum(g, Claims(h))
    BY <1>4, <2>3 DEF Received
  <2>6. AmountOf({r \in Rewarded(h) : r.recipient = a}) = 0
    BY <1>5, <2>1, Zenon
  <2> QED
    BY <1>2, <2>4, <2>5, <2>6 DEF g
<1> QED
  BY <1>1, <1>6, <1>7

-----------------------------------------------------------------------------
(* The summary adds up to the transfers *)

RowsOf(h, records, a, s) == {r \in SummarizedAt(h, records) : r.recipientId = a /\ r.serviceId = s}
DetailOf(h, records, a, s) == {t \in records : t.recipientId = a /\ ServiceAt(h, t) = s}

\* What the rows of an account and a service add up to, whatever is added of each
\* transfer: a row stands for the transfers with one reason.
LEMMA RowsAdd ==
    ASSUME NEW h, NEW records, IsFiniteSet(records), NEW a, NEW s,
           NEW f, \A t \in records : f[t] \in Int,
           NEW v, \A r \in SummarizedAt(h, records) :
                    v[r] = Sum(f, GroupAt(h, records, <<r.recipientId, r.opReason, r.serviceId>>))
    PROVE  Sum(v, RowsOf(h, records, a, s)) = Sum(f, DetailOf(h, records, a, s))
<1> DEFINE D == DetailOf(h, records, a, s)
           rows == RowsOf(h, records, a, s)
           key == [t \in D |-> t.opReason]
           K == {key[t] : t \in D}
           group == [c \in K |-> GroupAt(h, records, <<a, c, s>>)]
           g == [c \in K |-> Sum(f, GroupAt(h, records, <<a, c, s>>))]
           k == [r \in rows |-> r.opReason]
<1>1. IsFiniteSet(D) /\ D \subseteq records
  BY FS_Subset DEF DetailOf
<1>2. IsFiniteSet(K)
  <2> HIDE DEF key, D
  <2> QED
    BY <1>1, FiniteImage
<1>3. \A t \in D : f[t] \in Int
  BY <1>1
<1>4. \A b, c, d, e, i, j : <<b, c, d>> = <<e, i, j>> => b = e /\ c = i /\ d = j
  OBVIOUS
<1>5. \A c \in K : \A t : t \in group[c] <=> t \in D /\ key[t] = c
  <2> SUFFICES ASSUME NEW c \in K, NEW t PROVE t \in group[c] <=> t \in D /\ key[t] = c
    OBVIOUS
  <2>1. t \in group[c] <=> t \in records /\ <<t.recipientId, t.opReason, ServiceAt(h, t)>> = <<a, c, s>>
    BY DEF GroupAt, KeyAt
  <2>2. t \in group[c] <=> t \in records /\ t.recipientId = a /\ t.opReason = c /\ ServiceAt(h, t) = s
    <3> HIDE DEF group, K
    <3> QED
      BY <2>1, <1>4
  <2>3. t \in D <=> t \in records /\ t.recipientId = a /\ ServiceAt(h, t) = s
    BY DEF DetailOf
  <2>4. t \in D => key[t] = t.opReason
    OBVIOUS
  <2> HIDE DEF group, K, D, key
  <2> QED
    BY <2>2, <2>3, <2>4
<1>6. \A c \in K : g[c] = Sum(f, group[c])
  BY Zenon
<1>7. Sum(g, K) = Sum(f, D)
  <2>1. \A t \in D : key[t] \in K
    OBVIOUS
  <2> HIDE DEF D, K, key, group, g
  <2> QED
    BY <1>1, <1>2, <1>3, <1>5, <1>6, <2>1, SumOfGroups
<1>8. ASSUME NEW r \in rows
      PROVE  /\ r.opReason \in K /\ v[r] = g[r.opReason]
             /\ r = SummaryRowAt(h, GroupAt(h, records, <<a, r.opReason, s>>))
  <2>1. /\ r \in SummarizedAt(h, records) /\ r.recipientId = a /\ r.serviceId = s
    BY DEF RowsOf
  <2>2. PICK t \in records : r = SummaryRowAt(h, GroupAt(h, records, KeyAt(h, t)))
    BY <2>1 DEF SummarizedAt, GroupAt
  <2>3. KeyAt(h, t) = <<a, r.opReason, s>>
    <3>1. KeyAt(h, t) = <<r.recipientId, r.opReason, r.serviceId>>
      BY <2>2, SummaryOfTransfer, Zenon
    <3> QED
      BY <2>1, <3>1
  <2>4. t.recipientId = a /\ t.opReason = r.opReason /\ ServiceAt(h, t) = s
    BY <1>4, <2>3 DEF KeyAt
  <2>5. t \in D
    BY <2>4 DEF DetailOf
  <2>6. r.opReason \in K
    BY <2>4, <2>5
  <2>7. v[r] = Sum(f, GroupAt(h, records, <<a, r.opReason, s>>))
    BY <2>1
  <2>8. v[r] = g[r.opReason]
    BY <2>6, <2>7, Zenon
  <2> QED
    BY <2>2, <2>3, <2>6, <2>8
<1>9. ASSUME NEW c \in K PROVE \E r \in rows : r.opReason = c
  <2>1. PICK t \in D : t.opReason = c
    OBVIOUS
  <2>2. t \in records /\ KeyAt(h, t) = <<a, c, s>>
    BY <2>1 DEF DetailOf, KeyAt
  <2> DEFINE r == SummaryRowAt(h, GroupAt(h, records, KeyAt(h, t)))
  <2>3. r \in SummarizedAt(h, records) /\ KeyAt(h, t) = <<r.recipientId, r.opReason, r.serviceId>>
    <3> HIDE DEF rows, D, K, k, key, group, g
    <3> QED
      BY <2>2, SummaryOfTransfer, Zenon
  <2> HIDE DEF r
  <2>4. r.recipientId = a /\ r.opReason = c /\ r.serviceId = s
    BY <1>4, <2>2, <2>3
  <2>5. r \in rows
    BY <2>3, <2>4 DEF RowsOf
  <2> QED
    BY <2>4, <2>5
<1>10. k \in Bijection(rows, K)
  <2>0. \A r \in rows : k[r] = r.opReason
    OBVIOUS
  <2> HIDE DEF K
  <2>1. k \in [rows -> K]
    BY <1>8
  <2> HIDE DEF rows, k
  <2>2. ASSUME NEW r \in rows, NEW q \in rows, k[r] = k[q] PROVE r = q
    <3>1. r.opReason = q.opReason
      BY <2>0, <2>2, Zenon
    <3>2. /\ r = SummaryRowAt(h, GroupAt(h, records, <<a, r.opReason, s>>))
          /\ q = SummaryRowAt(h, GroupAt(h, records, <<a, q.opReason, s>>))
      BY <1>8, Zenon
    <3> QED
      BY <3>1, <3>2, Zenon
  <2>3. \A c \in K : \E r \in rows : k[r] = c
    BY <1>9, <2>0
  <2> QED
    BY <2>1, <2>2, <2>3, IsBijection
<1>11. \A c \in K : g[c] \in Int
  <2> SUFFICES ASSUME NEW c \in K PROVE g[c] \in Int
    OBVIOUS
  <2>1. IsFiniteSet(GroupAt(h, records, <<a, c, s>>))
        /\ \A t \in GroupAt(h, records, <<a, c, s>>) : f[t] \in Int
    BY FS_Subset DEF GroupAt
  <2>2. Sum(f, GroupAt(h, records, <<a, c, s>>)) \in Int
    BY <2>1, SumType
  <2> QED
    BY <2>2
<1>12. \A r \in rows : v[r] = g[k[r]]
  <2> HIDE DEF g, K
  <2> QED
    BY <1>8
<1> HIDE DEF rows, K, g, k, D
<1>13. Sum(v, rows) = Sum(g, K)
  BY <1>2, <1>10, <1>11, <1>12, MatchedSum
<1> QED
  BY <1>7, <1>13 DEF rows, D

LEMMA SummaryAdds ==
    ASSUME NEW h, NEW records, IsFiniteSet(records), \A t \in records : t.amount \in Nat,
           NEW a, NEW s
    PROVE  LET rows == RowsOf(h, records, a, s)
               detail == DetailOf(h, records, a, s)
           IN  /\ AmountOf(rows) = AmountOf(detail)
               /\ Total([r \in rows |-> r.transferCount], rows) = Cardinality(detail)
<1> DEFINE all == SummarizedAt(h, records)
           rows == RowsOf(h, records, a, s)
           detail == DetailOf(h, records, a, s)
           one == [t \in records |-> 1]
           counts == [r \in all |-> r.transferCount]
           some == [r \in rows |-> r.transferCount]
           Group(r) == GroupAt(h, records, <<r.recipientId, r.opReason, r.serviceId>>)
<1>1. detail \subseteq records /\ rows \subseteq all /\ IsFiniteSet(detail)
  BY FS_Subset DEF DetailOf, RowsOf
<1>2. IsFiniteSet(all)
  <2> DEFINE f == [t \in records |-> SummaryRowAt(h, GroupAt(h, records, KeyAt(h, t)))]
  <2>1. all = {f[t] : t \in records}
    BY DEF SummarizedAt, GroupAt
  <2> HIDE DEF all, f
  <2> QED
    BY <2>1, FiniteImage
<1>3. IsFiniteSet(rows)
  BY <1>1, <1>2, FS_Subset
<1>4. ASSUME NEW r \in all
      PROVE  r.amount = AmountOf(Group(r)) /\ r.transferCount = Cardinality(Group(r))
             /\ Group(r) \in SUBSET records /\ IsFiniteSet(Group(r))
  <2>1. PICK t \in records : r = SummaryRowAt(h, GroupAt(h, records, KeyAt(h, t)))
    BY DEF SummarizedAt, GroupAt
  <2>2. KeyAt(h, t) = <<r.recipientId, r.opReason, r.serviceId>>
    BY <2>1, SummaryOfTransfer, Zenon
  <2>3. r = SummaryRowAt(h, Group(r))
    BY <2>1, <2>2, Zenon
  <2>4. \A G : LET q == SummaryRowAt(h, G) IN q.amount = AmountOf(G) /\ q.transferCount = Cardinality(G)
    BY DEF SummaryRowAt
  <2>5. Group(r) \in SUBSET records /\ IsFiniteSet(Group(r))
    BY FS_Subset DEF GroupAt
  <2> HIDE DEF Group
  <2> QED
    BY <2>3, <2>4, <2>5
<1>5. \A r \in all : Amount(all)[r] = Sum(Amount(records), Group(r)) /\ r.amount \in Int
  <2> SUFFICES ASSUME NEW r \in all
               PROVE  r.amount = Sum(Amount(records), Group(r)) /\ r.amount \in Int
    BY DEF Amount
  <2>1. \A t \in records : t.amount \in Int /\ Amount(records)[t] \in Int
    BY DEF Amount
  <2>2. AmountOf(Group(r)) = Sum(Amount(records), Group(r))
    BY <1>4, <2>1, AmountIs
  <2>3. Sum(Amount(records), Group(r)) \in Int
    BY <1>4, <2>1, SumType
  <2> HIDE DEF Group
  <2> QED
    BY <1>4, <2>2, <2>3
<1>6. \A r \in all : counts[r] = Sum(one, Group(r)) /\ counts[r] \in Int
  <2> SUFFICES ASSUME NEW r \in all
               PROVE  r.transferCount = Sum(one, Group(r)) /\ r.transferCount \in Int
    OBVIOUS
  <2>1. \A t \in Group(r) : one[t] = 1
    BY <1>4
  <2>2. Cardinality(Group(r)) \in Nat
    BY <1>4, FS_CardinalityType
  <2> HIDE DEF Group, one, all
  <2>3. Sum(one, Group(r)) = 1 * Cardinality(Group(r))
    BY <1>4, <2>1, SumConstant
  <2> QED
    BY <1>4, <2>2, <2>3
<1>7. AmountOf(rows) = AmountOf(detail)
  <2>1. \A t \in records : t.amount \in Int /\ Amount(records)[t] \in Int
    BY DEF Amount
  <2>2. AmountOf(rows) = Sum(Amount(all), rows)
    <3> HIDE DEF Group, all, rows
    <3> QED
      BY <1>1, <1>2, <1>5, AmountIs
  <2>3. AmountOf(detail) = Sum(Amount(records), detail)
    BY <1>1, <2>1, AmountIs
  <2>4. Sum(Amount(all), rows) = Sum(Amount(records), detail)
    BY <1>5, <2>1, RowsAdd
  <2> QED
    BY <2>2, <2>3, <2>4
<1>8. Total(some, rows) = Cardinality(detail)
  <2>1. \A t \in records : one[t] \in Int
    OBVIOUS
  <2>2. Sum(counts, rows) = Sum(one, detail)
    <3> HIDE DEF one, counts
    <3> QED
      BY <1>6, <2>1, RowsAdd
  <2>3. \A t \in detail : one[t] = 1
    BY <1>1
  <2>4. Cardinality(detail) \in Nat
    BY <1>1, FS_CardinalityType
  <2>5. \A r \in rows : some[r] = counts[r]
    BY <1>1
  <2>6. \A r \in rows : counts[r] \in Int
    BY <1>1, <1>6
  <2> HIDE DEF one, counts, some, rows, detail, all
  <2>7. Sum(one, detail) = 1 * Cardinality(detail)
    BY <1>1, <2>3, SumConstant
  <2>8. Total(some, rows) = Sum(some, rows)
    BY TotalIsSum
  <2>9. Sum(some, rows) = Sum(counts, rows)
    BY <1>3, <2>5, <2>6, SumSame
  <2> QED
    BY <2>2, <2>4, <2>7, <2>8, <2>9
<1> QED
  BY <1>7, <1>8

\* If no block both settles claims and rewards validators, the transfers of an indexed
\* block give every account what the chain paid it, and the summary of each account and
\* service adds up to them: two handlers fill the two tables, in any order of their
\* statements and after any failed attempts, and neither deletes rows of the other.
THEOREM TransfersCorrect == ~Mixed /\ Spec => []TransfersMatchChain
<1>1. ~Mixed /\ Init => BaseInv /\ PaidInv
  <2> SUFFICES ASSUME ~Mixed, Init PROVE BaseInv /\ PaidInv
    OBVIOUS
  <2>1. height = 0 /\ ~Indexing
    BY DEF Init, Indexing
  <2> QED
    BY <2>1, BaseInit DEF PaidInv, PastPaid
<1>2. BaseInv /\ PaidInv /\ [Next]_vars => BaseInv' /\ PaidInv'
  BY BaseStep, PaidStep
<1>3. BaseInv /\ PaidInv => TransfersMatchChain
  <2> SUFFICES ASSUME BaseInv, PaidInv PROVE TransfersMatchChain
    OBVIOUS
  <2>1. ChainInv /\ ~Mixed /\ \A h \in 1..height : h \in 1..Len(chain)
    BY Blocks DEF BaseInv, PaidInv
  <2>2. \A h \in 1..height : At(transfers, h) = Paid(h) /\ At(summary, h) = Summary(h)
    BY DEF PaidInv, PastPaid
  <2>3. ReceivedMatchChain
    <3> SUFFICES ASSUME NEW h \in 1..height, NEW a
                 PROVE  Received(h, a) = AmountOf({r \in Rewarded(h) : r.recipient = a})
                                         + Total([k \in Claims(h) |-> Given(h, k, a)], Claims(h))
      BY DEF ReceivedMatchChain, Given
    <3> QED
      BY <2>1, <2>2, ReceivedIs
  <2>4. SummaryMatchesTransfers
    <3> SUFFICES ASSUME NEW h \in 1..height, NEW a, NEW s
                 PROVE  /\ AmountOf(RowsFor(h, a, s)) = AmountOf(Detail(h, a, s))
                        /\ Total([r \in RowsFor(h, a, s) |-> r.transferCount], RowsFor(h, a, s))
                           = Cardinality(Detail(h, a, s))
      BY DEF SummaryMatchesTransfers
    <3>1. /\ IsFiniteSet(Paid(h))
          /\ \A t \in Paid(h) : t.amount \in Nat /\ ServiceAt(h, t) = ServiceIn(h, t)
      BY <2>1, PaidFinite DEF ServiceIn
    <3>2. Detail(h, a, s) = DetailOf(h, Paid(h), a, s)
      BY <2>2, <3>1 DEF Detail, DetailOf
    <3>3. RowsFor(h, a, s) = RowsOf(h, Paid(h), a, s)
      BY <2>2 DEF RowsFor, RowsOf, Summary
    <3> QED
      BY <3>1, <3>2, <3>3, SummaryAdds
  <2> QED
    BY <2>3, <2>4 DEF TransfersMatchChain
<1> QED
  BY <1>1, <1>2, <1>3, PTL DEF Spec
=============================================================================
