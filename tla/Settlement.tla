----------------------------- MODULE Settlement -----------------------------
(***************************************************************************)
(* Claims and their settlement (pocket/relays.ts): what the messages that  *)
(* create claims, the events that settle them and the batches that reward  *)
(* validators leave in MsgCreateClaim, EventClaimSettled,                  *)
(* mod_to_acct_transfers and mod_to_acct_transfers_summarized.             *)
(*                                                                         *)
(* The chain changed the form of its events twice, and each form leaves    *)
(* out something the indexer has to derive: the amount settled, from the   *)
(* overserviced events of the block; the amount minted, from the mint      *)
(* ratio stored as a Param; the inflation, from the total distributed.     *)
(*                                                                         *)
(* Abstractions: a pair is an application with a supplier; the mint ratio  *)
(* is counted in halves; every supplier has the same owner; a block only   *)
(* settles, rewards or creates claims unless Mixed; a bulk insert is one   *)
(* step (BulkInsert has its statements).                                   *)
(***************************************************************************)
EXTENDS Integers, Sequences, FiniteSets, FiniteSetsExt

CONSTANTS Pairs, Services,
          Works,         \* what a claim may be about: relays and amounts
          Rewards,       \* events of a settlement batch a block may have
          Ratios,        \* mint ratios an update may set, in halves
          UnitsPerRelay, \* compute units of a relay
          Difficulty,    \* relays estimated for each relay of a claim
          None,          \* no claim, no attribute, no parameter
          Repeats,       \* whether a block may settle two claims of one pair
          Mixed,         \* whether one block may settle claims and reward validators
          MaxData,       \* bound: claims, rewards and messages of all blocks
          MaxHeight,     \* bound: blocks
          MaxCrashes     \* bound: failed attempts

ASSUME SettlementAssumption ==
    /\ Works \subseteq [relays : Nat, claimed : Nat, settled : Nat, inflation : Nat]
    /\ \A w \in Works : w.settled <= w.claimed /\ (w.settled = 0 => w.inflation = 0)
    /\ Rewards \subseteq [id : Nat, opType : {"mod_to_acct", "other"},
                          recipient : STRING, amount : Nat,
                          reason : {"validator", "delegator", "other"}]
    /\ IsFiniteSet(Rewards) /\ \A r, s \in Rewards : r.id = s.id => r = s
    /\ Ratios \subseteq 0..2
    /\ UnitsPerRelay \in Nat \ {0} /\ Difficulty \in Nat
    /\ None \notin Int /\ None \notin Nat \X Nat /\ Mixed \in BOOLEAN /\ Repeats \in BOOLEAN
    /\ MaxData \in Nat /\ MaxHeight \in Nat /\ MaxCrashes \in Nat

VARIABLES chain,     \* finalized blocks, up to the one being indexed
          height,    \* last block whose transaction committed
          crashes,   \* attempts that stopped so far
          param,     \* the stored mint_ratio, as of the last commit
          cached,    \* mint_ratio as the block transaction sees it
          pending,   \* handlers to run and bulk inserts to do for the block
          created,   \* MsgCreateClaim, committed
          settled,   \* EventClaimSettled, committed
          transfers, \* mod_to_acct_transfers, committed
          summary    \* mod_to_acct_transfers_summarized, committed

vars == <<chain, height, crashes, param, cached, pending, created, settled, transfers, summary>>
tables == <<created, settled, transfers, summary>>

-----------------------------------------------------------------------------
(* The chain (external) *)

Forms == <<"result", "total", "detailed">>
FormAt(n) == Forms[n]

Claim == [pair : Pairs, service : Services, work : Works]

IsBlock(b) ==
    /\ b.form \in 1..3 /\ b.ratio \in Ratios \cup {None}
    /\ b.claims \in Seq(Claim) /\ DOMAIN b.events = DOMAIN b.claims
    /\ b.rewards \subseteq Rewards /\ b.messages \in Seq(Claim)

\* What a block may settle, and the claims of its transaction, which are not about
\* one service of one application and supplier.
Settleable ==
    {<<c>> : c \in Claim} \cup {t \in Claim \X Claim : Repeats \/ t[1].pair # t[2].pair}
Creatable ==
    {t \in Claim \X Claim : t[1].pair # t[2].pair \/ t[1].service # t[2].service}

\* A block settles claims, rewards validators, or has one transaction.
Settling ==
    {[claims |-> c, rewards |-> r, messages |-> <<>>] :
        c \in Settleable, r \in IF Mixed THEN SUBSET Rewards ELSE {{}}}
Rewarding == {[claims |-> <<>>, rewards |-> r, messages |-> <<>>] : r \in SUBSET Rewards}
Creating == {[claims |-> <<>>, rewards |-> {}, messages |-> m] : m \in Creatable}

Size(data) == Len(data.claims) + Cardinality(data.rewards) + Len(data.messages)

LastForm == IF chain = <<>> THEN 1 ELSE chain[Len(chain)].form

\* The ratio the chain settles the block at height h with: its messages come
\* first, and 1 is the ratio before there is a parameter.
RatioIn(blocks, h) ==
    LET updates == {k \in 1..h : blocks[k].ratio # None}
    IN  IF updates = {} THEN 2 ELSE blocks[Max(updates)].ratio
RatioAt(h) == RatioIn(chain, h)

MintedOf(work, ratio) == (work.settled * ratio) \div 2

Entry(recipient, reason, amount) ==
    [recipient |-> recipient, reason |-> reason, amount |-> amount]

\* A share of nothing is left out.
Positive(entry) == IF entry.amount > 0 THEN <<entry>> ELSE <<>>

\* Who receives what of a settled claim.
Shares(work, ratio) ==
    Positive(Entry("owner", "relay", MintedOf(work, ratio)))
    \o Positive(Entry("dao", "inflation", work.inflation))
    \o Positive(Entry("dao", "reimbursement", work.inflation))

\* The older map of shares has one amount for each address, without a reason.
TotalShares(work, ratio) ==
    Positive(Entry("owner", "unspecified", MintedOf(work, ratio)))
    \o Positive(Entry("dao", "unspecified", 2 * work.inflation))

Estimated(work) == work.relays * Difficulty

\* The attributes of the event that settles a claim, as getAttributes returns
\* them; None is one that the form has not.
Attributes(claim, form, ratio) ==
    LET new(value) == IF form = "detailed" THEN value ELSE None
        minted == MintedOf(claim.work, ratio)
    IN  [pair |-> claim.pair, service |-> claim.service,
         claimed |-> claim.work.claimed,
         settledUpokt |-> new(claim.work.settled),
         mintRatio |-> new(ratio),
         mintedUpokt |-> new(minted),
         overservicingLoss |-> new(claim.work.claimed - claim.work.settled),
         deflationLoss |-> new(claim.work.settled - minted),
         numRelays |-> claim.work.relays,
         claimedUnits |-> claim.work.relays * UnitsPerRelay,
         estimatedUnits |-> Estimated(claim.work) * UnitsPerRelay,
         numEstimatedRelays |-> new(Estimated(claim.work)),
         shares |-> IF form = "total" THEN TotalShares(claim.work, ratio)
                    ELSE Shares(claim.work, ratio),
         inflation |-> claim.work.inflation,   \* settlement_result: its mints
         burn |-> claim.work.settled]          \* settlement_result and overserviced events

\* The block as the chain serves it: with the events of its settlement.
Finalized(form, ratio, data) ==
    LET inForce == RatioIn(Append(chain, [ratio |-> ratio]), Len(chain) + 1)
    IN  [form |-> form, ratio |-> ratio,
         claims |-> data.claims, rewards |-> data.rewards, messages |-> data.messages,
         events |-> [k \in DOMAIN data.claims |->
                        Attributes(data.claims[k], FormAt(form), inForce)]]

-----------------------------------------------------------------------------
(* The indexer *)

B == Len(chain)          \* the block being indexed
Data == chain[B]
Form == FormAt(Data.form)

Or(value, default) == IF value = None THEN default ELSE value

\* The block's overserviced events of an application and a supplier.
Overserviced(pair) ==
    {k \in DOMAIN Data.events : Data.events[k].pair = pair /\ Data.events[k].burn < Data.events[k].claimed}

\* What a claim settles for: the event says so, or the last overserviced event of
\* its application and supplier does, or it is what was claimed.
EffectiveBurn(a) ==
    LET overserviced == Overserviced(a.pair)
    IN  Or(a.settledUpokt,
           IF overserviced = {} THEN a.claimed ELSE Data.events[Max(overserviced)].burn)

MintRatio(a) == Or(a.mintRatio, Or(cached, 2))

Total(f, S) == MapThenSumSet(LAMBDA x : f[x], S)
AmountOf(rows) == Total([r \in rows |-> r.amount], rows)

Amounts(entries, reasons) ==
    LET chosen == {i \in DOMAIN entries : entries[i].reason \in reasons}
    IN  Total([i \in chosen |-> entries[i].amount], chosen)

\* What was minted and burnt for a claim, by the form of its event.
FromResult(a) ==
    [minted |-> Or(a.mintedUpokt, EffectiveBurn(a)), burnt |-> a.burn,
     relay |-> a.burn, inflation |-> a.inflation, reimbursement |-> a.inflation]

FromDetailedDistribution(a) ==
    LET minted == Or(a.mintedUpokt, EffectiveBurn(a))
    IN  [minted |-> minted, burnt |-> EffectiveBurn(a), relay |-> minted,
         inflation |-> Amounts(a.shares, {"inflation"}),
         reimbursement |-> Amounts(a.shares, {"reimbursement"})]

MintedAfterRatio(a) == Or(a.mintedUpokt, (EffectiveBurn(a) * MintRatio(a)) \div 2)

InflationPlusReimbursement(a) ==
    Amounts(a.shares, {"unspecified"}) - MintedAfterRatio(a)

\* Mutant: the rest of the total is taken for inflation, and its reimbursement.
FromDistributionUnhalved(a) ==
    LET inflation == InflationPlusReimbursement(a)
    IN  [minted |-> MintedAfterRatio(a), burnt |-> EffectiveBurn(a), relay |-> MintedAfterRatio(a),
         inflation |-> inflation, reimbursement |-> inflation]

\* What the total leaves after the relay mint is the inflation and, once more,
\* its reimbursement.
FromDistribution(a) ==
    LET inflation == InflationPlusReimbursement(a) \div 2
    IN  [minted |-> MintedAfterRatio(a), burnt |-> EffectiveBurn(a), relay |-> MintedAfterRatio(a),
         inflation |-> inflation, reimbursement |-> inflation]

SettlementParts(a) ==
    CASE Form = "result"   -> FromResult(a)
      [] Form = "detailed" -> FromDetailedDistribution(a)
      [] OTHER             -> FromDistribution(a)

\* A negative rest makes the handler throw, at every attempt: the block is never
\* indexed.
Throws == Form = "total" /\ \E k \in DOMAIN Data.events : InflationPlusReimbursement(Data.events[k]) < 0

\* Rounded; both divisors are guarded.
NumEstimatedRelays(estimated, estimatedUnits, claimedUnits, relays) ==
    LET cupr == claimedUnits \div relays
    IN  IF estimated # None THEN estimated
        ELSE IF relays = 0 \/ cupr = 0 THEN 0
        ELSE (2 * estimatedUnits + cupr) \div (2 * cupr)

\* The row of a settled claim. Its claimedAmount is the effective burn too.
SettledRow(k) ==
    LET a == Data.events[k]
        parts == SettlementParts(a)
    IN  [id |-> <<B, k>>, blockId |-> B, serviceId |-> a.service,
         numEstimatedRelays |-> NumEstimatedRelays(a.numEstimatedRelays, a.estimatedUnits,
                                                   a.claimedUnits, a.numRelays),
         settledAmount |-> EffectiveBurn(a), mintedAmount |-> parts.minted,
         overservicingLoss |-> Or(a.overservicingLoss, a.claimed - EffectiveBurn(a)),
         deflationLoss |-> Or(a.deflationLoss, EffectiveBurn(a) - parts.minted),
         mints |-> <<parts.relay, parts.inflation, parts.reimbursement>>, burnt |-> parts.burnt]

Transfer(id, event, entry) ==
    [id |-> id, blockId |-> B, eventClaimSettledId |-> event, recipientId |-> entry.recipient,
     opReason |-> entry.reason, amount |-> entry.amount]

SharesOfBlock == UNION {{<<k, i>> : i \in DOMAIN Data.events[k].shares} : k \in DOMAIN Data.events}

\* Mutant: the transfers of one claim share an id.
ClaimTransfersOneId ==
    {Transfer(<<B, x[1], 0>>, <<B, x[1]>>, Data.events[x[1]].shares[x[2]]) : x \in SharesOfBlock}

\* One transfer for each share, numbered within its event.
ClaimTransfers ==
    {Transfer(<<B, x[1], x[2]>>, <<B, x[1]>>, Data.events[x[1]].shares[x[2]]) : x \in SharesOfBlock}

\* Only the rewards of validators and delegators become transfers.
RewardTransfers ==
    {Transfer(<<B, None, r.id>>, None, Entry(r.recipient, r.reason, r.amount)) :
        r \in {r \in Data.rewards : r.opType = "mod_to_acct" /\ r.reason \in {"validator", "delegator"}}}

ServiceOf(transfer) ==
    IF transfer.eventClaimSettledId = None THEN None
    ELSE Data.events[transfer.eventClaimSettledId[2]].service

SummaryKey(t) == <<t.recipientId, t.opReason, ServiceOf(t)>>

\* One row for each group; it takes the service of one of its transfers.
SummaryRow(group) ==
    LET some == CHOOSE t \in group : TRUE
    IN  [id |-> <<B, some.recipientId, some.opReason, ServiceOf(some)>>, blockId |-> B,
         recipientId |-> some.recipientId, opReason |-> some.opReason, serviceId |-> ServiceOf(some),
         amount |-> AmountOf(group), transferCount |-> Cardinality(group)]

Summarized(records) ==
    {SummaryRow({t \in records : SummaryKey(t) = key}) : key \in {SummaryKey(t) : t \in records}}

\* Mutant: the event of a message is looked up without its service.
EventOfAnyService(m) ==
    Data.messages[Min({k \in DOMAIN Data.messages : Data.messages[k].pair = m.pair})]

\* The first event of the transaction about the message's service, application
\* and supplier; the transaction has one for each message, in their order.
EventOf(m) ==
    Data.messages[Min({k \in DOMAIN Data.messages : /\ Data.messages[k].pair = m.pair
                                                    /\ Data.messages[k].service = m.service})]

CreatedRow(i) ==
    LET m == Data.messages[i]
        work == EventOf(m).work
        new == IF Form = "detailed" THEN Estimated(work) ELSE None
    IN  [id |-> <<B, i>>, blockId |-> B, pair |-> m.pair, serviceId |-> m.service,
         numRelays |-> work.relays, claimedAmount |-> work.claimed,
         numEstimatedRelays |-> NumEstimatedRelays(new, Estimated(work) * UnitsPerRelay,
                                                   work.relays * UnitsPerRelay, work.relays)]

\* A bulk insert: nothing if it has no rows; the rows of the block are deleted
\* first, and of two rows with one id the first stays.
Replaced(table, rows) ==
    IF rows = {} THEN table
    ELSE {r \in table : r.blockId # B} \cup {r \in rows : r = CHOOSE s \in rows : s.id = r.id}

\* What the block waits for: to begin, or the handlers to run and their writes.
Waiting == {"begin"}
Handlers == {"messages", "claims", "batch"}
Writes == {"settled", "claimTransfers", "claimSummary", "rewardTransfers", "rewardSummary"}

Init ==
    /\ chain = <<>> /\ height = 0 /\ crashes = 0
    /\ param = None /\ cached = None
    /\ pending = Waiting
    /\ created = {} /\ settled = {} /\ transfers = {} /\ summary = {}

Indexing == height < Len(chain)

\* The chain finalizes its next block, which updates the mint ratio or not.
Produce ==
    /\ ~Indexing
    /\ Len(chain) < MaxHeight
    /\ \E form \in LastForm..3, data \in Settling \cup Rewarding \cup Creating :
        /\ Size(data) + MapThenSumSet(LAMBDA h : Size(chain[h]), DOMAIN chain) <= MaxData
        /\ \E ratio \in IF form = 1 THEN {None} ELSE Ratios \cup {None} :
            chain' = Append(chain, Finalized(form, ratio, data))
    /\ UNCHANGED <<height, crashes, param, cached, pending, tables>>

\* The handlers of the block that have data: one without returns at once.
Called ==
    {handler \in Handlers :
        CASE handler = "messages" -> Data.messages # <<>>
          [] handler = "claims"   -> Data.events # <<>>
          [] handler = "batch"    -> RewardTransfers # {}}

\* Mutant: the parameters are stored when the other handlers are done.
BeginBlockParamsLast ==
    /\ Indexing /\ pending = Waiting
    /\ cached' = param
    /\ pending' = Called
    /\ UNCHANGED <<chain, height, crashes, param, tables>>

\* The parameters of the block are stored before any other handler is started.
BeginBlock ==
    /\ Indexing /\ pending = Waiting
    /\ cached' = Or(Data.ratio, param)
    /\ pending' = Called
    /\ UNCHANGED <<chain, height, crashes, param, tables>>

Handled(handler, writes) ==
    /\ handler \in pending
    /\ pending' = (pending \ {handler}) \cup writes
    /\ UNCHANGED <<chain, height, crashes, param, cached, tables>>

HandleEventClaimSettled ==
    /\ "claims" \in pending /\ ~Throws
    /\ Handled("claims", {"settled", "claimTransfers", "claimSummary"})

HandleEventSettlementBatch ==
    Handled("batch", {"rewardTransfers", "rewardSummary"})

Written(write) ==
    /\ write \in pending
    /\ pending' = pending \ {write}
    /\ UNCHANGED <<chain, height, crashes, param, cached>>

HandleMsgCreateClaim ==
    /\ Written("messages")
    /\ created' = Replaced(created, {CreatedRow(i) : i \in DOMAIN Data.messages})
    /\ UNCHANGED <<settled, transfers, summary>>

WriteSettled ==
    /\ Written("settled")
    /\ settled' = Replaced(settled, {SettledRow(k) : k \in DOMAIN Data.events})
    /\ UNCHANGED <<created, transfers, summary>>

WriteTransfers(write, records) ==
    /\ Written(write)
    /\ transfers' = Replaced(transfers, records)
    /\ UNCHANGED <<created, settled, summary>>

WriteSummary(write, records) ==
    /\ Written(write)
    /\ summary' = Replaced(summary, Summarized(records))
    /\ UNCHANGED <<created, settled, transfers>>

\* Every handler returned: the block transaction, with the parameters, commits.
Commit ==
    /\ Indexing /\ pending = {}
    /\ height' = B
    /\ param' = cached
    /\ pending' = Waiting
    /\ UNCHANGED <<chain, crashes, cached, tables>>

\* A statement fails or the process stops: what was inserted stays, what is in the
\* block transaction does not.
Crash ==
    /\ Indexing /\ pending # Waiting
    /\ crashes < MaxCrashes
    /\ crashes' = crashes + 1
    /\ cached' = param
    /\ pending' = Waiting
    /\ UNCHANGED <<chain, height, param, tables>>

Handler ==
    \/ BeginBlock \/ Commit
    \/ HandleMsgCreateClaim \/ HandleEventClaimSettled \/ HandleEventSettlementBatch
    \/ WriteSettled
    \/ WriteTransfers("claimTransfers", ClaimTransfers)
    \/ WriteSummary("claimSummary", ClaimTransfers)
    \/ WriteTransfers("rewardTransfers", RewardTransfers)
    \/ WriteSummary("rewardSummary", RewardTransfers)

Next == Produce \/ Handler \/ Crash

Spec == Init /\ [][Next]_vars

\* The indexer keeps running: the supervisor restarts it always.
FairSpec == Spec /\ WF_vars(Handler)

-----------------------------------------------------------------------------
(* Properties *)

TypeOK ==
    /\ \A h \in 1..Len(chain) : IsBlock(chain[h])
    /\ height \in {Len(chain) - 1, Len(chain)} /\ crashes \in 0..MaxCrashes
    /\ {param, cached} \subseteq Ratios \cup {None}
    /\ pending \subseteq Waiting \cup Handlers \cup Writes
    /\ \A r \in created \cup settled \cup transfers \cup summary : r.blockId \in 1..Len(chain)

At(table, h) == {r \in table : r.blockId = h}
Claims(h) == DOMAIN chain[h].claims

\* Whatever the form of the events, an indexed claim is settled for the amounts
\* the chain settled, minted, burnt and lost, with the relays it estimated:
\* what an older form leaves out is derived from the overserviced events and the
\* mint ratio in force, which the parameters of the same block may have changed.
SettledMatchChain ==
    \A h \in 1..height :
        {<<r.id[2], r.serviceId, r.settledAmount, r.mintedAmount, r.overservicingLoss,
           r.deflationLoss, r.burnt, r.mints, r.numEstimatedRelays>> : r \in At(settled, h)}
        = {LET c == chain[h].claims[k]
               w == c.work
               minted == MintedOf(w, RatioAt(h))
           IN  <<k, c.service, w.settled, minted, w.claimed - w.settled, w.settled - minted,
                 w.settled, <<minted, w.inflation, w.inflation>>, Estimated(w)>>
           : k \in Claims(h)}

Received(h, recipient) == AmountOf({r \in At(transfers, h) : r.recipientId = recipient})

Rewarded(h) == {r \in chain[h].rewards : r.opType = "mod_to_acct" /\ r.reason # "other"}

\* The transfers of an indexed block give every account what the chain gave it
\* for the claims and as rewards, although handlers of claims and of batches
\* write the same table, and a failed attempt may have filled it.
ReceivedMatchChain ==
    \A h \in 1..height : \A a \in {"owner", "dao"} \cup {r.recipient : r \in Rewards} :
        Received(h, a) =
            AmountOf({r \in Rewarded(h) : r.recipient = a})
          + Total([k \in Claims(h) |->
                LET w == chain[h].claims[k].work
                IN  IF a = "owner" THEN MintedOf(w, RatioAt(h))
                    ELSE IF a = "dao" THEN 2 * w.inflation ELSE 0], Claims(h))

ServiceIn(h, t) ==
    IF t.eventClaimSettledId = None THEN None
    ELSE chain[h].claims[t.eventClaimSettledId[2]].service

Detail(h, a, s) == {t \in At(transfers, h) : t.recipientId = a /\ ServiceIn(h, t) = s}
RowsFor(h, a, s) == {r \in At(summary, h) : r.recipientId = a /\ r.serviceId = s}

\* In an indexed block the summary of each account and service adds up to its
\* transfers, as many as the summary counts.
SummaryMatchesTransfers ==
    \A h \in 1..height :
        \A a \in {t.recipientId : t \in At(transfers, h) \cup At(summary, h)},
           s \in Services \cup {None} :
            LET rows == RowsFor(h, a, s)
            IN  /\ AmountOf(rows) = AmountOf(Detail(h, a, s))
                /\ Total([r \in rows |-> r.transferCount], rows) = Cardinality(Detail(h, a, s))

\* Of mod_to_acct_transfers and its summary, which two handlers of a block fill:
\* both survive whole, with what the chain paid.
TransfersMatchChain == ReceivedMatchChain /\ SummaryMatchesTransfers

\* Each message that creates a claim is stored with the relays and the amount of
\* its own claim, although the events of a transaction do not say which message
\* they belong to.
CreatedMatchMessages ==
    \A h \in 1..height :
        {<<r.id[2], r.numRelays, r.claimedAmount, r.numEstimatedRelays>> : r \in At(created, h)}
        = {LET w == chain[h].messages[i].work
           IN  <<i, w.relays, w.claimed, Estimated(w)>> : i \in DOMAIN chain[h].messages}

\* Every finalized block is indexed in the end: no claim of the oldest forms
\* makes the handler throw, which would stop the indexer for ever.
EveryBlockIndexed == Indexing ~> ~Indexing
=============================================================================
