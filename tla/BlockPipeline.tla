--------------------------- MODULE BlockPipeline ----------------------------
(***************************************************************************)
(* The stages a block goes through (indexer.manager.ts), with what they    *)
(* leave for readers who ask about the whole chain: the supply             *)
(* (handleSupply), the import and recovery of Morse accounts               *)
(* (handleAuthzExec), their claims and the suppliers (concurrent handlers  *)
(* of one stage), and the reports SQL functions compute from the result.   *)
(*                                                                         *)
(* Everything here is written in the block transaction, or in bulk inserts *)
(* whose failures BulkInsert and Suppliers are about; a failed attempt is  *)
(* undone and not modelled.  Operations of applications only mark the      *)
(* accounts they claim.                                                    *)
(***************************************************************************)
EXTENDS Migration, Reports

CONSTANTS Bases,              \* supplies the chain may have, apart from claims
          StakeAmounts,       \* stakes of a supplier
          Offers,             \* what a supplier may offer: domains of services
          ImportWithRecovery, \* whether the block of the import may recover accounts
          Delegated,          \* whether claims may be sent inside a MsgExec
          SlashAtEnd,         \* whether a supplier may be slashed when unbonding ends
          LateClaims,         \* whether a service may be given up with claims to settle
          MaxChanges,         \* bound: changes in all blocks
          MaxHeight           \* bound: blocks

ASSUME BlockPipelineAssumption ==
    /\ Bases \subseteq [Denoms -> Nat] /\ \A b \in Bases : b[Native] > 0
    /\ StakeAmounts \subseteq Nat \ {0}
    /\ \A o \in Offers : o # <<>> /\ DOMAIN o \subseteq Services
    /\ {ImportWithRecovery, Delegated, SlashAtEnd, LateClaims} \subseteq BOOLEAN
    /\ MaxChanges \in Nat /\ MaxHeight \in Nat

VARIABLES chain,    \* finalized blocks, up to the one being indexed
          height,   \* the last block indexed
          stage,    \* the stage the block being indexed is in
          running   \* handlers of the concurrent stage that did not return yet

vars == <<chain, height, stage, running, supplyVars, migrationVars, reportVars>>

-----------------------------------------------------------------------------
(* The chain (external) *)

Off == [status |-> "Unstaked", stake |-> 0, offer |-> <<>>]

\* A block's state of the chain: the one before the first block is empty.
SuppliersAt(h) == IF h = 0 THEN [p \in Suppliers |-> Off] ELSE chain[h].suppliers
BaseAt(h) == IF h = 0 THEN CHOOSE b \in Bases : TRUE ELSE chain[h].base
ImportedBy(h) == \E b \in 1..h : chain[b].import

Paid(b) == chain[b].claims \cup chain[b].delegated \cup chain[b].recovered
PaidBy(h) == UNION {Paid(b) : b \in 1..h}

Operations ==
    [kind : {"stake"}, stake : StakeAmounts, offer : Offers]
    \cup [kind : {"unstake", "slash", "end"} \cup IF SlashAtEnd THEN {"slashEnd"} ELSE {}]

\* MsgStakeSupplier ends an unbonding; a stake only grows.
Possible(op, s) ==
    CASE op.kind = "stake" -> op.stake >= s.stake
      [] op.kind = "unstake" -> s.status = "Staked"
      [] op.kind = "slash" -> s.status # "Unstaked" /\ s.stake > 0
      [] op.kind = "end" -> s.status = "Unstaking"
      [] op.kind = "slashEnd" -> s.status = "Unstaking" /\ s.stake > 0

Applied(op, s) ==
    CASE op.kind = "stake" -> [status |-> "Staked", stake |-> op.stake, offer |-> op.offer]
      [] op.kind = "unstake" -> [s EXCEPT !.status = "Unstaking"]
      [] op.kind = "slash" -> [s EXCEPT !.stake = @ - 1]
      [] OTHER -> Off

\* What a block may do to suppliers: at most one operation on each.
OperationsOf(before, left) ==
    {ops \in UNION {[P -> Operations] : P \in {P \in SUBSET Suppliers : Cardinality(P) <= left}} :
        \A p \in DOMAIN ops : Possible(ops[p], before[p])}

After(before, ops) ==
    [p \in Suppliers |-> IF p \in DOMAIN ops THEN Applied(ops[p], before[p]) ELSE before[p]]

\* Claims of suppliers settle before their unbonding ends, and for services they
\* still offer unless LateClaims.
Settleable(before, after) ==
    {c \in Suppliers \X Services :
        /\ after[c[1]].status # "Unstaked"
        /\ \/ c[2] \in DOMAIN after[c[1]].offer
           \/ LateClaims /\ c[2] \in DOMAIN before[c[1]].offer}

Tip == Len(chain)
Indexing == height < Tip

\* Changes the blocks to come may have: a payment, an operation, a settled claim, the
\* import and a new base count as one.
Left == IF Tip = 0 THEN MaxChanges ELSE chain[Tip].left

\* At most n of the things.
Few(things, n) == {few \in SUBSET things : Cardinality(few) <= n}

\* The import is made once; an account is paid once, after the import.
Migrating(import, left) ==
    LET free == IF ImportedBy(Tip) \/ import THEN Morse \ PaidBy(Tip) ELSE {}
    IN  {m \in [recovered : IF import /\ ~ImportWithRecovery THEN {{}} ELSE Few(free, left),
                claims : Few(free, left),
                delegated : IF Delegated THEN Few(free, left) ELSE {{}}] :
            /\ m.recovered \cap m.claims = {}
            /\ m.delegated \cap (m.recovered \cup m.claims) = {}}

\* The amounts bank.totalSupply lists at the block: claims and recoveries are paid
\* with new coins.
Amounts(base, paid) == [base EXCEPT ![Native] = @ + SumOf(paid)]

Produce ==
    /\ ~Indexing /\ Tip < MaxHeight
    /\ \E base \in Bases, import \in IF ImportedBy(Tip) THEN {FALSE} ELSE BOOLEAN,
          ops \in OperationsOf(SuppliersAt(Tip), Left) :
        LET after == After(SuppliersAt(Tip), ops)
            left == Left - Cardinality(DOMAIN ops) - (IF import THEN 1 ELSE 0)
                         - (IF base = BaseAt(Tip) THEN 0 ELSE 1) IN
        \E m \in Migrating(import, left), settled \in Few(Settleable(SuppliersAt(Tip), after), left) :
            LET remaining == left - Cardinality(m.recovered \cup m.claims \cup m.delegated)
                                  - Cardinality(settled)
            IN  /\ remaining \in Nat
                /\ chain' = Append(chain,
                      [base |-> base, import |-> import, ops |-> ops, suppliers |-> after,
                       settled |-> settled, recovered |-> m.recovered, claims |-> m.claims,
                       delegated |-> m.delegated, left |-> remaining])
    /\ UNCHANGED <<height, stage, running, supplyVars, migrationVars, reportVars>>

-----------------------------------------------------------------------------
(* The block handler *)

B == Tip
Data == chain[B]

\* The handlers of the concurrent stage that have data: one without returns at once.
Called ==
    {handler \in {"migration", "applications", "suppliers"} :
        CASE handler = "migration" -> OfKind(Data.claims, "account") # {}
          [] handler = "applications" -> OfKind(Data.claims, "application") # {}
          [] handler = "suppliers" -> \/ OfKind(Data.claims, "supplier") # {}
                                      \/ Data.ops # <<>> \/ Data.settled # {}}

Init ==
    /\ chain = <<>> /\ height = 0
    /\ stage = "primitives" /\ running = {}
    /\ SupplyInit /\ MigrationInit /\ ReportsInit

\* handleBlock and handleSupply.
IndexPrimitives ==
    /\ Indexing /\ stage = "primitives"
    /\ HandleSupply(B, Amounts(Data.base, PaidBy(B)))
    /\ stage' = "params"
    /\ UNCHANGED <<chain, height, running, migrationVars, reportVars>>

\* indexParams: messages inside MsgExec.
IndexParams ==
    /\ stage = "params"
    /\ HandleAuthzExec(B, Data.import, Data.recovered)
    /\ stage' = "handlers" /\ running' = Called
    /\ UNCHANGED <<chain, height, supplyVars, reportVars>>

Returns(handler) ==
    /\ handler \in running
    /\ running' = running \ {handler}
    /\ UNCHANGED <<chain, height, stage, supplyVars>>

IndexMigrationAccounts ==
    /\ Returns("migration")
    /\ HandleMsgClaimMorseAccount(B, Data.claims)
    /\ UNCHANGED reportVars

IndexApplications ==
    /\ Returns("applications")
    /\ MarkStakeClaimed(B, Data.claims, "application")
    /\ UNCHANGED reportVars

\* indexSupplier; the claims settled are inserted by another handler, any time
\* before the reports.
IndexSupplier ==
    /\ Returns("suppliers")
    /\ MarkStakeClaimed(B, Data.claims, "supplier")
    /\ SaveSuppliers(B, Data.ops, Data.suppliers)
    /\ SaveSettled(B, Data.settled)
    /\ UNCHANGED reportTables

\* Mutant: the reports do not wait for the handlers that still run.
GenerateReportsEarly ==
    /\ stage = "handlers" /\ running # {}
    /\ HandleAddBlockReports(B)
    /\ stage' = "commit"
    /\ UNCHANGED <<chain, height, running, supplyVars, migrationVars>>

GenerateReports ==
    /\ stage = "handlers" /\ running = {}
    /\ HandleAddBlockReports(B)
    /\ stage' = "commit"
    /\ UNCHANGED <<chain, height, running, supplyVars, migrationVars>>

Commit ==
    /\ stage = "commit" /\ running = {}
    /\ height' = B
    /\ stage' = "primitives"
    /\ UNCHANGED <<chain, running, supplyVars, migrationVars, reportVars>>

\* An operator has the reports of all blocks computed again.
RegenerateReports ==
    /\ ~Indexing /\ height > 0
    /\ UpdateBlockReportsRange(1, height)
    /\ UNCHANGED <<chain, height, stage, running, supplyVars, migrationVars>>

Next ==
    \/ Produce
    \/ IndexPrimitives \/ IndexParams
    \/ IndexMigrationAccounts \/ IndexApplications \/ IndexSupplier
    \/ GenerateReports \/ Commit \/ RegenerateReports

Spec == Init /\ [][Next]_vars

-----------------------------------------------------------------------------
(* Properties *)

Indexed == 1..height

\* The BlockSupply of an indexed block leads to the amount the chain had then, for
\* every denomination it had, although rows are shared between blocks and the
\* denominations known are read page by page.
SupplyMatchesChain ==
    \A h \in Indexed, d \in Denoms :
        LET amount == Amounts(BaseAt(h), PaidBy(h))[d]
        IN  amount > 0 => HasSupplyAt(d, h) /\ SupplyAt(d, h) = amount

\* From the import on, the total supply the SQL functions tell of any indexed block,
\* asked at any later time, is that of the chain with everything not migrated by
\* then: an account paid later is still counted, one paid by then is not counted
\* twice.  The function of one day answers the same as long as some account is
\* unclaimed.
TotalSupplyConserved ==
    \A h \in Indexed :
        stage = "primitives" /\ ImportedBy(h) =>
            LET total == BaseAt(h)[Native] + SumOf(Morse) IN
            /\ TotalSupplyAt(h) = total
            /\ UnclaimedAccounts # {} => TotalSupplyOfDay(h) = total

\* An account is claimed in the index when, and since, it was paid on the chain;
\* each claim and recovery of balances is stored with the amount of its account.
\* Import, recovery and three kinds of claims are written by different handlers.
MorseMatchesChain ==
    stage = "primitives" =>
        /\ \A a \in Rows, h \in Indexed :
              a \in Paid(h) <=> morse[a].claimed /\ morse[a].claimedAt = h
        /\ \A a \in Rows : morse[a].claimed => morse[a].claimedAt \in Indexed
        /\ \A h \in Indexed :
              /\ {<<m[3], msgClaims[m]>> : m \in {m \in DOMAIN msgClaims : m[1] = h}}
                 = {<<a, Amount[a]>> : a \in OfKind(chain[h].claims, "account")}
              /\ {<<r.account, r.amount>> :
                    r \in {msgRecovers[m] : m \in {m \in DOMAIN msgRecovers : m[1] = h}}}
                 = {<<a, Amount[a]>> : a \in chain[h].recovered}

OnChain(h, status) == {p \in Suppliers : SuppliersAt(h)[p].status = status}
StakeOf(h, suppliers) == MapThenSumSet(LAMBDA p : SuppliersAt(h)[p].stake, suppliers)
Ended(h) == {p \in OnChain(h, "Unstaked") : SuppliersAt(h - 1)[p].status # "Unstaked"}
\* The stake unbonding returns: a slash in the last block is taken from it.
StakeReturned(h) ==
    MapThenSumSet(LAMBDA p : SuppliersAt(h - 1)[p].stake
                                - IF chain[h].ops[p].kind = "slashEnd" THEN 1 ELSE 0, Ended(h))

ServiceRelays(claims) == MapThenSumSet(LAMBDA c : Relays[c[2]], claims)

\* The report of an indexed block, computed when it was indexed or again at any
\* later time, has the suppliers, their stake and the relays the chain had at that
\* block; the stake of each unbonding is counted once, in the block it is returned.
ReportsMatchChain ==
    /\ {r.block : r \in blockReports} \ {B} = Indexed \ {B}
    /\ \A r \in {r \in blockReports : r.block \in Indexed} :
        LET h == r.block IN
        r = [block |-> h,
             staked |-> Cardinality(OnChain(h, "Staked")),
             stakedTokens |-> StakeOf(h, OnChain(h, "Staked")),
             unstaking |-> Cardinality(OnChain(h, "Unstaking")),
             unstakingTokens |-> StakeOf(h, OnChain(h, "Unstaking")),
             unstaked |-> Cardinality(Ended(h)),
             unstakedTokens |-> StakeReturned(h),
             relays |-> ServiceRelays(chain[h].settled)]

\* For each service, the rows of an indexed block add up what the chain's staked
\* suppliers that offer it have staked, and the claims settled for it.
ByServiceMatchesChain ==
    \A h \in Indexed, s \in Services :
        LET offering == {p \in OnChain(h, "Staked") : s \in DOMAIN SuppliersAt(h)[p].offer}
            settled == {c \in chain[h].settled : c[2] = s}
            row(table) == {<<r.amount, r.sum>> :
                r \in {r \in byService : r.block = h /\ r.service = s /\ r.table = table}}
            expected(things, sum) == IF things = {} THEN {} ELSE {<<Cardinality(things), sum>>}
        IN  /\ row("suppliers") = expected(offering, StakeOf(h, offering))
            /\ row("relays") = expected(settled, ServiceRelays(settled))

\* The domain a supplier has for a service in a block, or had before it gave it up.
DomainIn(h, p, s) ==
    LET offer == IF s \in DOMAIN SuppliersAt(h)[p].offer THEN SuppliersAt(h)[p].offer
                 ELSE SuppliersAt(h - 1)[p].offer
    IN  IF s \in DOMAIN offer THEN offer[s] ELSE None

\* Each claim settled in a day is counted once, for the domain its supplier had in
\* that block, however often suppliers stake again with other domains; and the
\* suppliers that were staked with the domain by the day's last settlement are
\* counted, at least.
DailyRewardsMatchChain ==
    \A h \in Indexed, domain \in Domains, s \in Services :
        LET blocks == {b \in Indexed : DayOf(b) = DayOf(h)}
            settling == {b \in blocks : chain[b].settled # {}}
            claims == {x \in blocks \X Suppliers : /\ <<x[2], s>> \in chain[x[1]].settled
                                                   /\ DomainIn(x[1], x[2], s) = domain}
            staked == {p \in Suppliers : \E b \in blocks :
                          /\ b <= Max(settling) /\ p \in OnChain(b, "Staked")
                          /\ s \in DOMAIN SuppliersAt(b)[p].offer /\ SuppliersAt(b)[p].offer[s] = domain}
            rows == {r \in dailyRewards : r.day = DayOf(h) /\ r.domain = domain /\ r.service = s}
        IN  stage = "primitives" =>
            /\ {r.relays : r \in rows} =
                  IF claims = {} THEN {} ELSE {Relays[s] * Cardinality(claims)}
            /\ \A r \in rows : r.suppliers >= Cardinality(staked)
=============================================================================
