----------------------------- MODULE Suppliers -----------------------------
(***************************************************************************)
(* indexSupplier: the suppliers and service configurations a block changes *)
(* are read, the block's messages and events are applied to them in memory *)
(* one after the other, and the result replaces the rows that were read.   *)
(*                                                                         *)
(* The rows of the block are deleted, and the old ones closed, inside the  *)
(* block transaction; the new ones are inserted outside it, one statement  *)
(* per table.  A failed attempt leaves its rows behind, and the next one   *)
(* reads before it deletes.                                                *)
(*                                                                         *)
(* Abstractions: only rows in force are kept; an owner, a revenue share or *)
(* an endpoint follows its row; failed transactions are left out; a block  *)
(* without supplier data changes nothing and is left out.                  *)
(***************************************************************************)
EXTENDS Integers, Sequences, FiniteSets

CONSTANTS Suppliers, Services,
          None,          \* no supplier, no row, no amount
          Derived,       \* whether slashing events lack the stake after the slash
          Restakes,      \* whether a supplier may stake in the block its services are activated
          RetryRelative, \* whether an attempt may fail after it inserted rows computed from stored ones
          MaxStake,      \* bound: stake of a supplier
          MaxData,       \* bound: messages and events of a block
          MaxHeight,     \* bound: blocks
          MaxCrashes     \* bound: failed attempts

Unbonding == {"no", "voluntary", "below_min"}
ChainSupplier == [stake : 0..MaxStake, unbonding : Unbonding,
                  services : (SUBSET Services) \ {{}}, pending : BOOLEAN]
Supplier == [stake : Int, status : {"Staked", "Unstaking", "Unstaked"}]

ASSUME SuppliersAssumption ==
    /\ None \notin Suppliers \cup Services \cup Int \cup BOOLEAN
    /\ None \notin ChainSupplier /\ None \notin Supplier
    /\ Derived \in BOOLEAN /\ Restakes \in BOOLEAN /\ RetryRelative \in BOOLEAN
    /\ MaxStake \in Nat \ {0} /\ MaxData \in Nat /\ MaxHeight \in Nat /\ MaxCrashes \in Nat

VARIABLES onChain,       \* the supplier store of the chain
          txData,        \* messages of the block, each followed by its events
          finalizedData, \* events of the finalized block
          height,        \* last block whose transaction committed
          crashes,       \* attempts that failed so far
          supplierRows,  \* the Supplier table
          serviceRows,   \* the SupplierServiceConfig table
          record,        \* per supplier: what is known of it while the block is processed
          toClose,       \* ids of the rows to close: suppliers, services
          dropped,       \* rows deleted or closed inside the block transaction
          handled,       \* data already applied
          pc             \* "chain", "begin", "handle", "insert"

vars == <<onChain, txData, finalizedData, height, crashes, supplierRows, serviceRows,
          record, toClose, dropped, handled, pc>>
chainVars == <<onChain, txData, finalizedData>>
tables == <<supplierRows, serviceRows>>
memory == <<record, toClose, dropped, handled>>

SupplierRow == [id : Suppliers, row : Supplier, lo : Nat, att : Nat]
ServiceRow == [id : Suppliers \X Services, activated : BOOLEAN, lo : Nat, att : Nat]
Record == [supplier : Supplier \cup {None}, services : [Services -> BOOLEAN \cup {None}]]

Data == txData \o finalizedData
B == height + 1          \* the block being indexed

NoRecord == [p \in Suppliers |-> [supplier |-> None, services |-> [s \in Services |-> None]]]
Nothing == [suppliers |-> {}, services |-> {}]

TypeOK ==
    /\ onChain \in [Suppliers -> ChainSupplier \cup {None}]
    /\ Len(Data) <= MaxData + 1
    /\ height \in 0..MaxHeight /\ crashes \in 0..MaxCrashes
    /\ supplierRows \subseteq SupplierRow
    /\ serviceRows \subseteq ServiceRow
    /\ record \in [Suppliers -> Record]
    /\ toClose.suppliers \subseteq Suppliers /\ toClose.services \subseteq Suppliers \X Services
    /\ dropped.suppliers \subseteq SupplierRow /\ dropped.services \subseteq ServiceRow
    /\ handled \in 0..Len(Data)
    /\ pc \in {"chain", "begin", "handle", "insert"}
    /\ pc \in {"chain", "begin"} => dropped = Nothing /\ record = NoRecord

-----------------------------------------------------------------------------
(* The chain (external): begin-block, transactions, end-block *)

OnChain(p) == onChain[p] # None

InBlock(kind, p) == \E i \in DOMAIN Data : Data[i].kind = kind /\ Data[i].supplier = p

\* No event of the end-block yet.
Delivering == \A i \in DOMAIN finalizedData : finalizedData[i].kind = "activated"

Store(p, to) ==
    /\ pc = "chain" /\ height < MaxHeight /\ Len(Data) < MaxData
    /\ onChain' = [onChain EXCEPT ![p] = to]
    /\ UNCHANGED <<height, crashes, tables, memory, pc>>

Deliver(p, to, emitted) ==
    /\ Delivering
    /\ Store(p, to)
    /\ txData' = txData \o emitted
    /\ UNCHANGED finalizedData

Finalize(p, to, emitted) ==
    /\ Store(p, to)
    /\ finalizedData' = finalizedData \o emitted
    /\ UNCHANGED txData

\* A session starts: the services staked before it become active.
ChainActivate(p) ==
    /\ txData = <<>> /\ Delivering
    /\ OnChain(p) /\ onChain[p].pending
    /\ Finalize(p, [onChain[p] EXCEPT !.pending = FALSE],
                <<[kind |-> "activated", supplier |-> p]>>)

Staked(stake, services) ==
    [stake |-> stake, unbonding |-> "no", services |-> services, pending |-> TRUE]

\* MsgStakeSupplier; the stake may be left out when it does not change.
ChainStake(p, stake, services) ==
    /\ Restakes \/ ~InBlock("activated", p)
    /\ IF stake = None THEN OnChain(p)
       ELSE OnChain(p) => stake >= onChain[p].stake
    /\ Deliver(p, Staked(IF stake = None THEN onChain[p].stake ELSE stake, services),
               <<[kind |-> "stake", supplier |-> p, stake |-> stake, services |-> services]>>)

\* MsgClaimMorseSupplier adds to a stake that may exist already.
ChainClaim(p, claimed, services) ==
    LET stake == claimed + (IF OnChain(p) THEN onChain[p].stake ELSE 0)
    IN  /\ Restakes \/ ~InBlock("activated", p)
        /\ stake <= MaxStake
        /\ Deliver(p, Staked(stake, services),
                   <<[kind |-> "claim", supplier |-> p, stake |-> claimed, services |-> services]>>)

UnbondingBegin(p) == [kind |-> "unbondingBegin", supplier |-> p]

ChainUnstake(p) ==
    /\ OnChain(p) /\ onChain[p].unbonding = "no"
    /\ Deliver(p, [onChain[p] EXCEPT !.unbonding = "voluntary"],
               <<[kind |-> "unstake", supplier |-> p], UnbondingBegin(p)>>)

\* A claim without proof is slashed; below the minimum stake unbonding begins.
ChainSlash(p) ==
    LET after == onChain[p].stake - 1
        begins == after = 0 /\ onChain[p].unbonding = "no"
    IN  /\ OnChain(p) /\ onChain[p].stake > 0
        /\ Finalize(p, [onChain[p] EXCEPT !.stake = after,
                                          !.unbonding = IF begins THEN "below_min" ELSE @],
                    <<[kind |-> "slashed", supplier |-> p, penalty |-> 1,
                       after |-> IF Derived THEN None ELSE after]>>
                    \o (IF begins THEN <<UnbondingBegin(p)>> ELSE <<>>))

\* Unbonding takes more than one block.
ChainUnbondingEnd(p) ==
    /\ OnChain(p) /\ onChain[p].unbonding # "no"
    /\ ~InBlock("unbondingBegin", p)
    /\ Finalize(p, None, <<[kind |-> "unbondingEnd", supplier |-> p]>>)

Chain == \E p \in Suppliers :
    \/ ChainActivate(p) \/ ChainUnstake(p) \/ ChainSlash(p) \/ ChainUnbondingEnd(p)
    \/ \E services \in (SUBSET Services) \ {{}} :
        \/ \E stake \in (1..MaxStake) \cup {None} : ChainStake(p, stake, services)
        \/ \E claimed \in 1..MaxStake : ChainClaim(p, claimed, services)

-----------------------------------------------------------------------------
(* The block handler *)

Init ==
    /\ onChain = [p \in Suppliers |-> None]
    /\ txData = <<>> /\ finalizedData = <<>>
    /\ height = 0 /\ crashes = 0
    /\ supplierRows = {} /\ serviceRows = {}
    /\ record = NoRecord /\ toClose = Nothing /\ dropped = Nothing /\ handled = 0
    /\ pc = "chain"

Named(kinds) == {Data[i].supplier : i \in {i \in DOMAIN Data : Data[i].kind \in kinds}}

\* Suppliers whose row is read, and suppliers whose service rows are read.
SupplierIds == Named({"stake", "claim", "unstake", "slashed", "unbondingBegin", "unbondingEnd"})
SuppliersToFetchServices == Named({"stake", "claim", "activated"})

\* What a query returns when an id has several rows in force: the last one of
\* an order it does not determine.
Readings(rows) == {S \in SUBSET rows :
    /\ \A r, t \in S : r.id = t.id => r = t
    /\ \A r \in rows : \E t \in S : t.id = r.id}

FetchSupplierData ==
    /\ pc = "begin" \/ (pc = "chain" /\ Data # <<>>)
    /\ \E S \in Readings({r \in supplierRows : r.id \in SupplierIds}),
          V \in Readings({r \in serviceRows : r.id[1] \in SuppliersToFetchServices}) :
        /\ record' = [p \in Suppliers |->
             [supplier |-> IF \E r \in S : r.id = p THEN (CHOOSE r \in S : r.id = p).row ELSE None,
              services |-> [s \in Services |->
                 IF \E r \in V : r.id = <<p, s>> THEN (CHOOSE r \in V : r.id = <<p, s>>).activated
                                                 ELSE None]]]
        /\ toClose' = [suppliers |-> {r.id : r \in S}, services |-> {}]
    /\ pc' = "handle"
    /\ UNCHANGED <<chainVars, height, crashes, tables, dropped, handled>>

Handle(kind) ==
    /\ pc = "handle" /\ handled < Len(Data)
    /\ Data[handled + 1].kind = kind
    /\ handled' = handled + 1
    /\ UNCHANGED <<chainVars, height, crashes, tables, dropped, pc>>

Datum == Data[handled + 1]
Current == record[Datum.supplier]
Loaded == Current.supplier # None

SetSupplier(supplier) ==
    /\ record' = [record EXCEPT ![Datum.supplier].supplier = supplier]
    /\ UNCHANGED toClose

HeldServices == {s \in Services : Current.services[s] # None}

Close(services) ==
    toClose' = [toClose EXCEPT !.services = @ \cup ({Datum.supplier} \X services)]

\* Mutant: services that are not staked again are left in force.
ReplaceStaked(stake) ==
    /\ record' = [record EXCEPT ![Datum.supplier] =
          [supplier |-> [stake |-> stake, status |-> "Staked"],
           services |-> [s \in Services |-> IF s \in Datum.services THEN FALSE ELSE None]]]
    /\ Close(Datum.services)

\* The supplier and its services are those of the message, not active yet.
Replace(stake) ==
    /\ record' = [record EXCEPT ![Datum.supplier] =
          [supplier |-> [stake |-> stake, status |-> "Staked"],
           services |-> [s \in Services |-> IF s \in Datum.services THEN FALSE ELSE None]]]
    /\ Close(HeldServices \cup Datum.services)

\* Without a stake in the message the one of the row stands.
HandleSupplierStakeMsg ==
    /\ Handle("stake")
    /\ Datum.stake # None \/ Loaded
    /\ Replace(IF Datum.stake # None THEN Datum.stake ELSE Current.supplier.stake)

\* Mutant: the supplier is expected to exist.
HandleClaimExisting ==
    /\ Handle("claim")
    /\ Loaded
    /\ Replace(Datum.stake + Current.supplier.stake)

\* The claimed stake is added to the one of the row, if there is one.
HandleClaimSupplier ==
    /\ Handle("claim")
    /\ Replace(Datum.stake + (IF Loaded THEN Current.supplier.stake ELSE 0))

HandleUnstakeSupplierMsg ==
    /\ Handle("unstake")
    /\ Loaded
    /\ SetSupplier([Current.supplier EXCEPT !.status = "Unstaking"])

\* The reason and the height are set, the status is not.
HandleSupplierUnbondingBeginEvent ==
    /\ Handle("unbondingBegin")
    /\ Loaded
    /\ SetSupplier(Current.supplier)

\* Only the services that were read with the supplier are closed.
HandleSupplierUnbondingEndEvent ==
    /\ Handle("unbondingEnd")
    /\ Loaded
    /\ record' = [record EXCEPT ![Datum.supplier] =
          [supplier |-> [stake |-> 0, status |-> "Unstaked"],
           services |-> [s \in Services |-> None]]]
    /\ Close(HeldServices)

HandleEventSupplierSlashed ==
    /\ Handle("slashed")
    /\ Loaded
    /\ SetSupplier([Current.supplier EXCEPT !.stake =
                      IF Datum.after # None THEN Datum.after ELSE @ - Datum.penalty])

\* Every service not active yet becomes so; the others are saved as they are.
HandleEventSupplierServiceConfigActivated ==
    /\ Handle("activated")
    /\ record' = [record EXCEPT ![Datum.supplier].services =
          [s \in Services |-> IF @[s] = None THEN None ELSE TRUE]]
    /\ Close({s \in HeldServices : Current.services[s] = FALSE})

SuppliersToSave ==
    {[id |-> p, row |-> record[p].supplier, lo |-> B, att |-> crashes] :
        p \in {p \in Suppliers : record[p].supplier # None}}

ServicesToSave ==
    {[id |-> id, activated |-> record[id[1]].services[id[2]], lo |-> B, att |-> crashes] :
        id \in {id \in Suppliers \X Services : record[id[1]].services[id[2]] # None}}

\* Mutant: rows of a failed attempt are not deleted.
DroppedOld(rows, toSave, ids) ==
    {r \in rows : r.lo # B /\ r.id \in ids}

\* Rows of this block, if there is something to save, and old rows to close.
Dropped(rows, toSave, ids) ==
    {r \in rows : (toSave # {} /\ r.lo = B) \/ r.id \in ids}

\* The statements of the block transaction.
DeleteAndClose ==
    /\ pc = "handle" /\ handled = Len(Data)
    /\ dropped' = [suppliers |-> Dropped(supplierRows, SuppliersToSave, toClose.suppliers),
                   services |-> Dropped(serviceRows, ServicesToSave, toClose.services)]
    /\ pc' = "insert"
    /\ UNCHANGED <<chainVars, height, crashes, tables, record, toClose, handled>>

\* The inserts commit at once, in any order.
SaveSuppliers ==
    /\ pc = "insert"
    /\ ~(SuppliersToSave \subseteq supplierRows)
    /\ supplierRows' = supplierRows \cup SuppliersToSave
    /\ UNCHANGED <<chainVars, height, crashes, serviceRows, memory, pc>>

SaveServices ==
    /\ pc = "insert"
    /\ ~(ServicesToSave \subseteq serviceRows)
    /\ serviceRows' = serviceRows \cup ServicesToSave
    /\ UNCHANGED <<chainVars, height, crashes, supplierRows, memory, pc>>

Forget ==
    /\ record' = NoRecord /\ toClose' = Nothing /\ dropped' = Nothing /\ handled' = 0

\* The block transaction commits.
Commit ==
    /\ pc = "insert"
    /\ SuppliersToSave \subseteq supplierRows /\ ServicesToSave \subseteq serviceRows
    /\ supplierRows' = supplierRows \ dropped.suppliers
    /\ serviceRows' = serviceRows \ dropped.services
    /\ height' = B
    /\ txData' = <<>> /\ finalizedData' = <<>>
    /\ Forget
    /\ pc' = "chain"
    /\ UNCHANGED <<onChain, crashes>>

\* A change computed from stored rows: applied twice, it is not the same.
Relative(d) ==
    \/ d.kind \in {"claim", "activated"}
    \/ d.kind = "slashed" /\ d.after = None

Left == \E r \in supplierRows \cup serviceRows : r.lo = B

\* A failure in any handler of the block: its transaction is rolled back.
Crash ==
    /\ pc \in {"handle", "insert"}
    /\ crashes < MaxCrashes
    /\ RetryRelative \/ ~Left \/ \A i \in DOMAIN Data : ~Relative(Data[i])
    /\ crashes' = crashes + 1
    /\ Forget
    /\ pc' = "begin"
    /\ UNCHANGED <<chainVars, height, tables>>

IndexSupplier ==
    \/ FetchSupplierData
    \/ HandleSupplierStakeMsg \/ HandleClaimSupplier \/ HandleUnstakeSupplierMsg
    \/ HandleSupplierUnbondingBeginEvent \/ HandleSupplierUnbondingEndEvent
    \/ HandleEventSupplierSlashed \/ HandleEventSupplierServiceConfigActivated
    \/ DeleteAndClose \/ SaveSuppliers \/ SaveServices \/ Commit

Next == Chain \/ IndexSupplier \/ Crash

Spec == Init /\ [][Next]_vars

\* The indexer runs and is restarted.
FairSpec == Spec /\ WF_vars(IndexSupplier)

-----------------------------------------------------------------------------
(* Properties *)

Indexed == pc = "chain" /\ Data = <<>>

InForce(p) == {r.row : r \in {r \in supplierRows : r.id = p}}

One(rows, id) == Cardinality({r \in rows : r.id = id}) = 1

\* After every block a supplier the chain has is one row with the chain's stake,
\* Unstaking if it asked to unbond, and one that left it is one Unstaked row
\* without stake, although the rows are replaced half inside the block
\* transaction and half outside it.
SuppliersMatchChain ==
    Indexed => \A p \in Suppliers :
        IF OnChain(p)
        THEN /\ One(supplierRows, p)
             /\ InForce(p) = {[stake |-> onChain[p].stake,
                    status |-> IF onChain[p].unbonding = "voluntary" THEN "Unstaking" ELSE "Staked"]}
        ELSE InForce(p) # {} => /\ One(supplierRows, p)
                                /\ InForce(p) = {[stake |-> 0, status |-> "Unstaked"]}

\* After every block each service a supplier is staked for is one row in force,
\* active if the chain has activated it, and a service it gave up is none.
ServicesMatchChain ==
    Indexed => \A p \in Suppliers : OnChain(p) =>
        {<<r.id[2], r.activated>> : r \in {r \in serviceRows : r.id[1] = p}}
            = {<<s, ~onChain[p].pending>> : s \in onChain[p].services}
        /\ \A s \in onChain[p].services : One(serviceRows, <<p, s>>)

\* Every block is indexed in the end: no message or event finds its supplier
\* missing, at the first attempt or at a later one.
BlocksAreIndexed == (pc = "handle") ~> (pc = "chain")
=============================================================================
