------------------------------ MODULE Reports -------------------------------
(***************************************************************************)
(* What the database itself computes from the indexed rows: at the end of  *)
(* each block handleAddBlockReports calls the SQL functions of             *)
(* mappings/dbFunctions, inside the block transaction.  They read          *)
(* historical tables: a row stands for an entity from block lo up to, and  *)
(* without, block hi, and a change closes it and writes the next.          *)
(*                                                                         *)
(* Modelled for suppliers and their services; the functions of             *)
(* applications, gateways and validators are the same text with another    *)
(* table, without services for the last two.                               *)
(*                                                                         *)
(* Abstractions: a supplier has one domain for a service, or none; all     *)
(* claims of a service have the same relays; rows of indexSupplier are     *)
(* given as Suppliers shows them to be.                                    *)
(***************************************************************************)
EXTENDS Integers, FiniteSets, FiniteSetsExt

CONSTANTS Suppliers, Services, Domains,
          Relays,         \* Relays[s]: the relays of a claim about service s
          BlocksOfDay,    \* blocks the chain finalizes in a day
          Open            \* the end of a range that is not closed yet

ASSUME ReportsAssumption ==
    /\ Relays \in [Services -> Nat \ {0}]
    /\ BlocksOfDay \in Nat \ {0}
    /\ Open \notin Int

VARIABLES supplierRows,  \* the suppliers table
          configs,       \* the supplier_service_configs table
          settledRows,   \* the event_claim_settleds table
          blockReports,  \* the columns of the blocks table that reports fill
          byService,     \* staked_suppliers_by_block_and_services and relay_by_block_and_services
          dailyRewards   \* domain_service_daily_rewards

reportTables == <<blockReports, byService, dailyRewards>>
reportVars == <<supplierRows, configs, settledRows, reportTables>>

ReportsInit ==
    /\ supplierRows = {} /\ configs = {} /\ settledRows = {}
    /\ blockReports = {} /\ byService = {} /\ dailyRewards = {}

-----------------------------------------------------------------------------
(* Ranges of historical rows *)

InForce(row, h) == row.lo <= h /\ (row.hi = Open \/ h < row.hi)      \* range @> h

Overlaps(row, from, to) == row.lo <= to /\ (row.hi = Open \/ from < row.hi)

\* Old rows of the ids are closed and new rows written for block B.
Versioned(rows, B, ids, new) ==
    {IF r.hi = Open /\ r.id \in ids THEN [r EXCEPT !.hi = B] ELSE r : r \in rows} \cup new

SupplierRow(p, status, stake, B) ==
    [id |-> p, status |-> status, stake |-> stake, lo |-> B, hi |-> Open]

Held(p) == {r \in configs : r.hi = Open /\ r.id[1] = p}

\* What indexSupplier leaves: a row for each supplier with an operation in the
\* block, and the services of those that stake.  Services stay in force when
\* unbonding ends: they are read only for stakes, claims and activations.
SaveSuppliers(B, ops, after) ==
    LET staking == {p \in DOMAIN ops : ops[p].kind = "stake"} IN
    /\ supplierRows' = Versioned(supplierRows, B, DOMAIN ops,
          {SupplierRow(p, after[p].status, after[p].stake, B) : p \in DOMAIN ops})
    /\ configs' = Versioned(configs, B, UNION {{r.id : r \in Held(p)} : p \in staking},
          UNION {{[id |-> <<p, s>>, domain |-> ops[p].offer[s], lo |-> B, hi |-> Open] :
                    s \in DOMAIN ops[p].offer} : p \in staking})

SaveSettled(B, claims) ==
    settledRows' = settledRows \cup
        {[supplier |-> c[1], service |-> c[2], block |-> B] : c \in claims}

-----------------------------------------------------------------------------
(* The functions *)

Stakes(rows) == MapThenSumSet(LAMBDA r : r.stake, rows)
RelaysOf(claims) == MapThenSumSet(LAMBDA c : Relays[c.service], claims)

WithStatus(status, h) == {r \in supplierRows : r.status = status /\ InForce(r, h)}

\* Rows of suppliers that became unstaked in the block.
UnstakedHere(h) == {r \in supplierRows : r.status = "Unstaked" /\ r.lo = h}

\* The stake of the version before: that of the latest row of an earlier block.
StakeBefore(r, h) ==
    LET earlier == {q \in supplierRows : q.id = r.id /\ q.lo < h}
    IN  IF earlier = {} THEN 0
        ELSE (CHOOSE q \in earlier : \A o \in earlier : o.lo <= q.lo).stake

\* Mutant: the stake of the row written when unbonding ends.
ReturnedByRow(h) == Stakes(UnstakedHere(h))

\* update_block_unstaked_suppliers.
Returned(h) == MapThenSumSet(LAMBDA r : StakeBefore(r, h), UnstakedHere(h))

ClaimsSettledAt(h) == {c \in settledRows : c.block = h}

\* update_block_reports.
BlockReport(h) ==
    [block |-> h,
     staked |-> Cardinality(WithStatus("Staked", h)),
     stakedTokens |-> Stakes(WithStatus("Staked", h)),
     unstaking |-> Cardinality(WithStatus("Unstaking", h)),
     unstakingTokens |-> Stakes(WithStatus("Unstaking", h)),
     unstaked |-> Cardinality(UnstakedHere(h)),
     unstakedTokens |-> Returned(h),
     relays |-> RelaysOf(ClaimsSettledAt(h))]

UpdateBlockReports(heights) ==
    {r \in blockReports : r.block \notin heights} \cup {BlockReport(h) : h \in heights}

\* The upserts by service: the rows of the block are deleted and computed anew.
\* A service nobody stakes, or has no claim for, has no row.
StakedByService(h) ==
    {LET rows == {r \in WithStatus("Staked", h) :
                    \E c \in configs : c.id = <<r.id, s>> /\ InForce(c, h)}
     IN  [block |-> h, service |-> s, table |-> "suppliers",
          amount |-> Cardinality(rows), sum |-> Stakes(rows)] : s \in Services}

RelaysByService(h) ==
    {LET rows == {c \in ClaimsSettledAt(h) : c.service = s}
     IN  [block |-> h, service |-> s, table |-> "relays",
          amount |-> Cardinality(rows), sum |-> RelaysOf(rows)] : s \in Services}

UpsertByService(h) ==
    {r \in byService : r.block # h}
    \cup {r \in StakedByService(h) \cup RelaysByService(h) : r.amount > 0}

DayOf(h) == (h - 1) \div BlocksOfDay
BlocksSoFar(h) == {b \in 1..h : DayOf(b) = DayOf(h)}

\* Mutant: a claim is joined with every version of its supplier's service.
MatchesAnyVersion(c, config) == config.id = <<c.supplier, c.service>>

\* A claim goes to the domain its supplier has for the service in that block.
Matches(c, config) == config.id = <<c.supplier, c.service>> /\ InForce(config, c.block)

ClaimsOfDay(h, domain, s) ==
    {x \in settledRows \X configs :
        /\ x[1].service = s /\ x[1].block \in BlocksSoFar(h)
        /\ Matches(x[1], x[2]) /\ x[2].domain = domain}

\* Suppliers that were staked and had the service in the day, not necessarily
\* at the same time.
StakedInDay(h, domain, s) ==
    LET from == Min(BlocksSoFar(h))
    IN  {p \in Suppliers :
            /\ \E c \in configs : c.id = <<p, s>> /\ c.domain = domain /\ Overlaps(c, from, h)
            /\ \E r \in supplierRows : r.id = p /\ r.status = "Staked" /\ Overlaps(r, from, h)}

\* refresh_domain_service_daily_rewards: the day is computed anew, up to h.
RefreshDomainServiceDailyRewards(h) ==
    {r \in dailyRewards : r.day # DayOf(h)}
    \cup {[day |-> DayOf(h), domain |-> x[1], service |-> x[2],
           relays |-> MapThenSumSet(LAMBDA m : Relays[m[1].service], ClaimsOfDay(h, x[1], x[2])),
           suppliers |-> Cardinality(StakedInDay(h, x[1], x[2]))]
          : x \in {x \in Domains \X Services : ClaimsOfDay(h, x[1], x[2]) # {}}}

\* handleAddBlockReports: the functions write different tables or columns, and
\* the day is refreshed only in blocks that settle claims.
HandleAddBlockReports(h) ==
    /\ blockReports' = UpdateBlockReports({h})
    /\ byService' = UpsertByService(h)
    /\ dailyRewards' = IF ClaimsSettledAt(h) = {} THEN dailyRewards
                       ELSE RefreshDomainServiceDailyRewards(h)
    /\ UNCHANGED <<supplierRows, configs, settledRows>>

\* update_block_reports_range, which an operator calls for blocks already indexed.
UpdateBlockReportsRange(from, to) ==
    /\ blockReports' = UpdateBlockReports(from..to)
    /\ UNCHANGED <<supplierRows, configs, settledRows, byService, dailyRewards>>
=============================================================================
