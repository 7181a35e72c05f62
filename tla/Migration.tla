----------------------------- MODULE Migration ------------------------------
(***************************************************************************)
(* Morse accounts on their way into the chain, as the index follows them.  *)
(*                                                                         *)
(* The authority imports all accounts once, and recovers some of them,     *)
(* with messages inside a MsgExec (handleAuthzExec, in the stage before    *)
(* all others); owners claim theirs with three kinds of messages, which    *)
(* three handlers of the next stage see, concurrently.  A claim or a       *)
(* recovery marks the account claimed at its block.  From what is          *)
(* unclaimed now and what was claimed later, the SQL functions of supply   *)
(* tell what was unmigrated at any earlier height.                         *)
(*                                                                         *)
(* Abstractions: an account has one amount (its balance and stakes); the   *)
(* Message, AuthzExec and AuthzMsgExec rows, signatures and denominations  *)
(* are left out.                                                           *)
(***************************************************************************)
EXTENDS Supply, Sequences, SequencesExt

CONSTANTS Morse,      \* Morse accounts
          Kind,       \* Kind[a]: the message that claims it
          Amount,     \* Amount[a]: what it holds
          None,
          Native,     \* the denomination claims are paid in
          Batched     \* whether a transaction may carry several claims or recoveries

Kinds == {"account", "application", "supplier"}

\* A message is known by its block, its transaction (the accounts the
\* transaction is about) and, a claim, the account it is about itself.
Messages == (Nat \X (SUBSET Morse)) \cup (Nat \X (SUBSET Morse) \X Morse)

MorseRow == [claimed : BOOLEAN, claimedAt : Nat, message : Messages \cup {None}]

ASSUME MigrationAssumption ==
    /\ Kind \in [Morse -> Kinds]
    /\ Amount \in [Morse -> Nat \ {0}]
    /\ Native \in Denoms
    /\ Batched \in BOOLEAN
    /\ None \notin MorseRow

VARIABLES morse,         \* the MorseClaimableAccount table
          msgClaims,     \* the MsgClaimMorseAccount table: message -> amount
          msgRecovers    \* the MsgRecoverMorseAccount table: message -> account and amount

migrationVars == <<morse, msgClaims, msgRecovers>>

Unclaimed == [claimed |-> FALSE, claimedAt |-> 0, message |-> None]
Claimed(B, message) == [claimed |-> TRUE, claimedAt |-> B, message |-> message]

MigrationTypeOK ==
    /\ morse \in [Morse -> MorseRow \cup {None}]
    /\ DOMAIN msgClaims \subseteq Messages
    /\ \A m \in DOMAIN msgClaims : msgClaims[m] \in Nat
    /\ DOMAIN msgRecovers \subseteq Messages
    /\ \A m \in DOMAIN msgRecovers : msgRecovers[m].account \in Morse

MigrationInit ==
    /\ morse = [a \in Morse |-> None]
    /\ msgClaims = <<>>
    /\ msgRecovers = <<>>

\* The transactions that claim, or recover, a set of accounts.
Transactions(accounts) ==
    IF Batched /\ accounts # {} THEN {accounts} ELSE {{a} : a \in accounts}

TxOf(a, accounts) == CHOOSE tx \in Transactions(accounts) : a \in tx

\* updateMorseClaimableAccounts: rows are changed where they are, whatever
\* their block range; there is nothing to change before the import.
MarkClaimed(rows, B, message) ==
    [a \in Morse |-> IF a \in DOMAIN message /\ rows[a] # None
                     THEN Claimed(B, message[a]) ELSE rows[a]]

\* handleMsgImportMorseClaimableAccounts: a row for every account.
Imported(rows) == [a \in Morse |-> Unclaimed]

\* Inside a MsgExec the id of a recovery is that of the MsgExec.
ExecId(B, tx) == <<B, tx>>
RecoverMessages(B, recovered) == [a \in recovered |-> ExecId(B, TxOf(a, recovered))]

\* Mutant: recoveries are stored and the accounts not marked.
HandleAuthzExecUnmarked(B, import, recovered) ==
    /\ morse' = IF import THEN Imported(morse) ELSE morse
    /\ msgRecovers' =
          Over([m \in {ExecId(B, tx) : tx \in Transactions(recovered)} |->
                  LET a == Last(SetToSeq(m[2])) IN [account |-> a, amount |-> Amount[a]]],
               msgRecovers)
    /\ UNCHANGED msgClaims

\* handleAuthzExec: the rows of the import and the updates of the recoveries
\* are written concurrently, in either order.  Recoveries of one MsgExec share
\* their id, and one row of them stays.
HandleAuthzExec(B, import, recovered) ==
    LET messages == RecoverMessages(B, recovered)
        imported(rows) == IF import THEN Imported(rows) ELSE rows
    IN  /\ \/ morse' = MarkClaimed(imported(morse), B, messages)
           \/ morse' = imported(MarkClaimed(morse, B, messages))
        /\ msgRecovers' =
              Over([m \in {ExecId(B, tx) : tx \in Transactions(recovered)} |->
                      LET a == Last(SetToSeq(m[2])) IN [account |-> a, amount |-> Amount[a]]],
                   msgRecovers)
        /\ UNCHANGED msgClaims

OfKind(accounts, kind) == {a \in accounts : Kind[a] = kind}

ClaimMessages(B, claimed) == [a \in claimed |-> <<B, TxOf(a, claimed), a>>]

\* The balance of the claim: that of the last EventMorseAccountClaimed of the
\* transaction, there being one for every claim in it.
BalanceCoin(message) == Amount[Last(SetToSeq(message[2]))]

\* handleMsgClaimMorseAccount.
HandleMsgClaimMorseAccount(B, claims) ==
    LET messages == ClaimMessages(B, OfKind(claims, "account")) IN
    /\ morse' = MarkClaimed(morse, B, messages)
    /\ msgClaims' = Over([m \in {messages[a] : a \in DOMAIN messages} |-> BalanceCoin(m)], msgClaims)
    /\ UNCHANGED msgRecovers

\* What handleMsgClaimMorseApplication and indexSupplier do to the accounts.
MarkStakeClaimed(B, claims, kind) ==
    /\ morse' = MarkClaimed(morse, B, ClaimMessages(B, OfKind(claims, kind)))
    /\ UNCHANGED <<msgClaims, msgRecovers>>

-----------------------------------------------------------------------------
(* What readers ask: dbFunctions/supply.ts *)

SumOf(accounts) == MapThenSumSet(LAMBDA a : Amount[a], accounts)

Rows == {a \in Morse : morse[a] # None}
UnclaimedAccounts == {a \in Rows : ~morse[a].claimed}

\* Mutant: claims of the block itself count as unclaimed before it.
RecentlyClaimedSince(L) == {a \in Rows : morse[a].claimed /\ morse[a].claimedAt >= L}

RecentlyClaimed(L) == {a \in Rows : morse[a].claimed /\ morse[a].claimedAt > L}

\* get_total_supply_between_dates and get_supply_composition_between_dates,
\* whose latest block is L.
UnmigratedSupply(L) == SumOf(UnclaimedAccounts) + SumOf(RecentlyClaimed(L))

\* get_total_supply_by_day: with no unclaimed account the SUM over them is
\* NULL, and so is what is added to it; a NULL counts as zero at the end.
UnmigratedSupplyByDay(L) ==
    IF UnclaimedAccounts = {} THEN 0 ELSE UnmigratedSupply(L)

\* There is no row for a block without a supply in the native denomination.
TotalSupplyAt(L) == SupplyAt(Native, L) + UnmigratedSupply(L)
TotalSupplyOfDay(L) == SupplyAt(Native, L) + UnmigratedSupplyByDay(L)
=============================================================================
