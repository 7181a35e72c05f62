------------------------------- MODULE Supply -------------------------------
(***************************************************************************)
(* The supply of each denomination over the blocks of the chain, as        *)
(* handleSupply keeps it: a BlockSupply for every known denomination and   *)
(* block points at a Supply row, which blocks share as long as the amount  *)
(* stays the same.                                                         *)
(*                                                                         *)
(* The denominations known so far are read page by page and without an     *)
(* order, so a page may repeat rows of an earlier one and the result may   *)
(* lack some (fetchPaginatedRecords).  Everything is written in the block  *)
(* transaction: a failed attempt leaves nothing behind.                    *)
(***************************************************************************)
EXTENDS Integers, FiniteSets

CONSTANTS Denoms,     \* denominations the chain may have
          PageLimit   \* rows a page of the database holds

ASSUME SupplyAssumption == PageLimit \in Nat \ {0}

VARIABLES supplyDenoms,   \* ids of the SupplyDenom table
          supplies,       \* the Supply table: id -> amount
          blockSupplies   \* the BlockSupply table: id -> supplyId

supplyVars == <<supplyDenoms, supplies, blockSupplies>>

Ids == Denoms \X Nat     \* getSupplyId: a denomination and a height

SupplyTypeOK ==
    /\ supplyDenoms \subseteq Denoms
    /\ DOMAIN supplies \subseteq Ids /\ \A id \in DOMAIN supplies : supplies[id] \in Nat
    /\ DOMAIN blockSupplies \subseteq Ids
    /\ \A id \in DOMAIN blockSupplies : blockSupplies[id] \in Ids

SupplyInit ==
    /\ supplyDenoms = {}
    /\ supplies = <<>>
    /\ blockSupplies = <<>>

\* A function with the entries of g over those of f: rows saved into a table.
Over(g, f) == [x \in DOMAIN g \cup DOMAIN f |-> IF x \in DOMAIN g THEN g[x] ELSE f[x]]

\* What pages of PageLimit rows of a table, each in whatever order, may yield:
\* all of a table that fits in a page, and no less than a page otherwise.
FetchPaginatedRecords(rows) ==
    IF Cardinality(rows) < PageLimit
    THEN {rows}
    ELSE {read \in SUBSET rows : Cardinality(read) >= PageLimit}

\* bank.totalSupply at a height lists the denominations that have a supply.
TotalSupply(amounts) == {d \in Denoms : amounts[d] > 0}

\* The row the block starts from: that of the block before.
PreviousSupply(d, B) ==
    LET before == <<d, IF B = 1 THEN 1 ELSE B - 1>>
    IN  IF before \in DOMAIN blockSupplies THEN blockSupplies[before] ELSE <<d, B>>

\* Mutant: the new supply row is saved and the BlockSupply not moved to it.
SupplyIdKept(d, B, start, changed) == start

\* The supply row the BlockSupply of the block ends with.
SupplyId(d, B, start, changed) == IF changed THEN <<d, B>> ELSE start

\* handleSupply for block B, whose amounts are given.  It throws if the query
\* lists nothing, and the block is tried again.
HandleSupply(B, amounts) ==
    LET listed == TotalSupply(amounts) IN
    /\ listed # {}
    /\ supplyDenoms' = supplyDenoms \cup listed
    /\ \E read \in FetchPaginatedRecords(supplyDenoms) :
        LET denoms == read \cup listed
            start == [d \in denoms |-> PreviousSupply(d, B)]
            missing == {d \in listed : start[d] \notin DOMAIN supplies}
            changed == {d \in listed \ missing : supplies[start[d]] # amounts[d]}
            \* getSupplyRecord: the row of this block.
            new == [id \in {<<d, B>> : d \in missing \cup changed} |-> amounts[id[1]]]
        IN  /\ supplies' = Over(new, supplies)
            /\ blockSupplies' =
                  Over([id \in denoms \X {B} |->
                          SupplyId(id[1], B, start[id[1]], id[1] \in changed)], blockSupplies)

-----------------------------------------------------------------------------
(* What readers ask *)

\* The supply of a denomination at a height: the row its BlockSupply points at.
HasSupplyAt(d, h) == <<d, h>> \in DOMAIN blockSupplies /\ blockSupplies[<<d, h>>] \in DOMAIN supplies

SupplyAt(d, h) == supplies[blockSupplies[<<d, h>>]]
=============================================================================
