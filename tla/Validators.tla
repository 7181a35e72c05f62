----------------------------- MODULE Validators -----------------------------
(***************************************************************************)
(* The life of validators in the index: handleValidatorMsgCreate, then, on *)
(* every block, reconcileValidators against the staking module's state at  *)
(* that block.  The read of that state may fail, and is then given up for  *)
(* the block.                                                              *)
(*                                                                         *)
(* Abstractions: a validator is its bond status and its tokens, the        *)
(* description, commission and minimal self delegation follow the tokens;  *)
(* blocks follow each other for ever and need no height.                   *)
(***************************************************************************)
EXTENDS Naturals

CONSTANTS Vals,
          Nil,       \* no validator, no row
          MaxTokens  \* bound: tokens of a validator


VARIABLES onChain,   \* the validator store of the chain
          moved,     \* validators the end-blocker has gone over in this block
          created,   \* MsgCreateValidator of this block: tokens, Nil for none
          db,        \* the Validator table, committed
          view,      \* the Validator table as the block transaction sees it
          reported,  \* reportedMissingFromChain, in the memory of the process
          pc,        \* "indexed", "chain", "handle", "reconcile"
          unread,    \* for the properties: on the chain, and left out by the last read then
          failed     \* for the properties: whether the last read failed

validatorVars == <<onChain, moved, created, db, view, reported, pc, unread, failed>>
chainVars == <<onChain, moved, created>>
indexVars == <<db, view, reported, unread, failed>>

Bonds == {"BONDED", "UNBONDING", "UNBONDED"}
ChainVal == [status : Bonds, tokens : 0..MaxTokens]

\* How a validator that is not in the store left it, if it ever was there.
Absent == {"never", "matured", "undelegated"}

Row == [status : {"Staked", "Unstaking", "Unstaked"}, tokens : 0..MaxTokens]

ASSUME ValidatorsAssumption ==
    /\ MaxTokens \in Nat \ {0}
    /\ Nil \notin Row /\ Nil \notin 0..MaxTokens

TypeOK ==
    /\ onChain \in [Vals -> ChainVal \cup [gone : Absent]]
    /\ moved \subseteq Vals
    /\ created \in [Vals -> (0..MaxTokens) \cup {Nil}]
    /\ db \in [Vals -> Row \cup {Nil}]
    /\ view \in [Vals -> Row \cup {Nil}]
    /\ reported \subseteq Vals
    /\ pc \in {"indexed", "chain", "handle", "reconcile"}
    /\ pc \in {"indexed", "chain", "handle"} => view = db
    /\ unread \subseteq Vals
    /\ failed \in BOOLEAN

-----------------------------------------------------------------------------
(* The chain (external): the staking module *)

InStore(v) == onChain[v] \in ChainVal

Between == pc \in {"indexed", "chain"}

Store(v, to) ==
    /\ Between
    /\ onChain' = [onChain EXCEPT ![v] = to]
    /\ pc' = "chain"
    /\ UNCHANGED indexVars

\* MsgCreateValidator: the end-blocker may bond it.
ChainCreate(v, tokens) ==
    /\ ~InStore(v) /\ v \notin moved
    /\ Store(v, [status |-> "UNBONDED", tokens |-> tokens])
    /\ created' = [created EXCEPT ![v] = tokens]
    /\ UNCHANGED moved

\* Delegations, undelegations, slashes, rewards; a validator that is unbonded
\* leaves the store with its last delegation.
ChainTokens(v, tokens) ==
    /\ InStore(v) /\ v \notin moved
    /\ tokens # onChain[v].tokens
    /\ Store(v, IF onChain[v].status = "UNBONDED" /\ tokens = 0
                THEN [gone |-> "undelegated"]
                ELSE [onChain[v] EXCEPT !.tokens = tokens])
    /\ UNCHANGED <<moved, created>>

\* The end-blocker goes over a validator at most once in a block; unbonding
\* takes more than a block, and one with no delegation left then is removed.
EndBlocker(v, to) ==
    /\ InStore(v) /\ v \notin moved
    /\ Store(v, to)
    /\ moved' = moved \cup {v}
    /\ UNCHANGED created

ChainBond(v) ==
    /\ InStore(v) /\ onChain[v].status # "BONDED" /\ onChain[v].tokens > 0
    /\ EndBlocker(v, [onChain[v] EXCEPT !.status = "BONDED"])

ChainBeginUnbonding(v) ==
    /\ InStore(v) /\ onChain[v].status = "BONDED"
    /\ EndBlocker(v, [onChain[v] EXCEPT !.status = "UNBONDING"])

ChainMature(v) ==
    /\ InStore(v) /\ onChain[v].status = "UNBONDING"
    /\ EndBlocker(v, IF onChain[v].tokens = 0 THEN [gone |-> "matured"]
                     ELSE [onChain[v] EXCEPT !.status = "UNBONDED"])

Chain ==
    \E v \in Vals :
        \/ \E tokens \in 1..MaxTokens : ChainCreate(v, tokens)
        \/ \E tokens \in 0..MaxTokens : ChainTokens(v, tokens)
        \/ ChainBond(v) \/ ChainBeginUnbonding(v) \/ ChainMature(v)

-----------------------------------------------------------------------------
(* The block handler *)

ValidatorsInit ==
    /\ onChain = [v \in Vals |-> [gone |-> "never"]]
    /\ moved = {}
    /\ created = [v \in Vals |-> Nil]
    /\ db = [v \in Vals |-> Nil] /\ view = db
    /\ reported = {}
    /\ pc = "indexed"
    /\ unread = {}
    /\ failed = FALSE

BeginBlock ==
    /\ Between
    /\ pc' = "handle"
    /\ UNCHANGED <<chainVars, indexVars>>

\* The rows of the messages, written before reconcile starts.
HandleValidatorMsgCreate ==
    /\ pc = "handle"
    /\ view' = [v \in Vals |-> IF created[v] = Nil THEN view[v]
                               ELSE [status |-> "Staked", tokens |-> created[v]]]
    /\ pc' = "reconcile"
    /\ UNCHANGED <<chainVars, db, reported, unread, failed>>

MapBondStatus(status) ==
    CASE status = "BONDED" -> "Staked"
      [] status = "UNBONDING" -> "Unstaking"
      [] OTHER -> "Unstaked"

Tracked(v) == view[v] # Nil /\ view[v].status \in {"Staked", "Unstaking"}

\* Mutant: only the rows still active are refreshed.
ReconciledTracked(v, listed) ==
    CASE Tracked(v) /\ v \in listed ->
            [status |-> MapBondStatus(onChain[v].status), tokens |-> onChain[v].tokens]
      [] v \notin listed /\ Tracked(v) /\ view[v].status = "Unstaking" ->
            [status |-> "Unstaked", tokens |-> 0]
      [] OTHER -> view[v]

\* Mutant: every active row that is not listed is closed out.
ReconciledWiping(v, listed) ==
    CASE view[v] # Nil /\ v \in listed ->
            [status |-> MapBondStatus(onChain[v].status), tokens |-> onChain[v].tokens]
      [] v \notin listed /\ Tracked(v) -> [status |-> "Unstaked", tokens |-> 0]
      [] OTHER -> view[v]

\* Mutant: only the validators the chain lists are looked at.
ReconciledListed(v, listed) ==
    IF view[v] # Nil /\ v \in listed
    THEN [status |-> MapBondStatus(onChain[v].status), tokens |-> onChain[v].tokens]
    ELSE view[v]

\* A row whose validator the chain lists takes its status and tokens; one that
\* is Unstaking and not listed is closed out; the others are left alone.
Reconciled(v, listed) ==
    CASE view[v] # Nil /\ v \in listed ->
            [status |-> MapBondStatus(onChain[v].status), tokens |-> onChain[v].tokens]
      [] v \notin listed /\ Tracked(v) /\ view[v].status = "Unstaking" ->
            [status |-> "Unstaked", tokens |-> 0]
      [] OTHER -> view[v]

\* Mutant: a validator that is back is not forgotten.
ReportedForever(listed) ==
    reported \cup {v \in Vals \ listed : Tracked(v) /\ view[v].status # "Unstaking"}

\* A Staked row that is not listed is reported; a listed one is forgotten.
Reported(listed) ==
    (reported \ listed) \cup {v \in Vals \ listed : Tracked(v) /\ view[v].status # "Unstaking"}

\* The block is done and its transaction commits with the given rows.
Committed(rows) ==
    /\ db' = rows /\ view' = rows
    /\ moved' = {} /\ created' = [v \in Vals |-> Nil]
    /\ pc' = "indexed"
    /\ UNCHANGED onChain

Read(listed) == unread' = {v \in Vals : IF InStore(v) THEN v \notin listed ELSE v \in unread}

Reconcile(listed) ==
    /\ pc = "reconcile"
    /\ Read(listed)
    /\ failed' = FALSE
    /\ reported' = Reported(listed)
    /\ Committed([v \in Vals |-> Reconciled(v, listed)])

ReconcileValidators == Reconcile({v \in Vals : InStore(v)})

\* The read left validators out.
ReconcilePartial ==
    \E listed \in SUBSET {v \in Vals : InStore(v)} :
        listed # {v \in Vals : InStore(v)} /\ Reconcile(listed)

\* The read failed: given up until the next block.
ReadFailed ==
    /\ pc = "reconcile"
    /\ Read({})
    /\ failed' = TRUE
    /\ Committed(view)
    /\ UNCHANGED reported

\* A failure elsewhere in the block: rolled back, and attempted again by a
\* process that starts anew.
Crash ==
    /\ pc \in {"handle", "reconcile"}
    /\ view' = db
    /\ reported' = {}
    /\ pc' = "handle"
    /\ UNCHANGED <<chainVars, db, unread, failed>>

ValidatorsNext ==
    \/ Chain
    \/ BeginBlock \/ HandleValidatorMsgCreate
    \/ ReconcileValidators \/ ReconcilePartial \/ ReadFailed
    \/ Crash

ValidatorsSpec == ValidatorsInit /\ [][ValidatorsNext]_validatorVars

\* The indexer runs, and neither reads nor attempts fail for ever.
FairSpec ==
    /\ ValidatorsSpec
    /\ WF_validatorVars(BeginBlock)
    /\ SF_validatorVars(HandleValidatorMsgCreate)
    /\ SF_validatorVars(ReconcileValidators)

-----------------------------------------------------------------------------
(* Properties *)

StatusFor == [BONDED |-> "Staked", UNBONDING |-> "Unstaking", UNBONDED |-> "Unstaked"]

InSync(v) == db[v] = [status |-> StatusFor[onChain[v].status], tokens |-> onChain[v].tokens]

\* After every block the row of each validator that the block's read listed has
\* the chain's status and tokens, whatever reads failed or attempts were rolled
\* back before; and when the read was good, the rows that reconcile refuses to
\* close are on record, those and no other.
ListedMatchChain ==
    pc = "indexed" =>
        /\ \A v \in Vals : InStore(v) /\ v \notin unread => InSync(v)
        /\ ~failed /\ (\A v \in unread : ~InStore(v)) =>
              reported = {v \in Vals : ~InStore(v) /\ db[v] # Nil /\ db[v].status = "Staked"}

\* "Running every block means the reconcile itself has already moved the row to
\* Unstaking well before the chain drops it" (reconcileValidators): a validator
\* removed at the end of its unbonding is Unstaked without stake after the next
\* answered read, provided the last read before the removal had it.
MaturedAreClosed ==
    pc = "indexed" /\ ~failed => \A v \in Vals :
        onChain[v] = [gone |-> "matured"] /\ v \notin unread
            => db[v] = [status |-> "Unstaked", tokens |-> 0]

\* "A Staked row missing from the chain read is an impossible state - report it
\* instead of wiping it" (reconcileValidators): no read, however partial, takes
\* a row from Staked to Unstaked unless the chain has the validator unbonded.
StakedNeverWiped ==
    [][\A v \in Vals :
        db[v] # Nil /\ db[v].status = "Staked" /\ db'[v].status = "Unstaked"
            => InStore(v) /\ onChain[v].status = "UNBONDED"]_db

\* "Running every block is what makes giving up on this block safe - the next
\* one reads the same set again" (reconcileValidators): a validator that stays
\* as it is on the chain is brought in sync again and again, whatever reads
\* failed or were partial before.
GivingUpIsSafe ==
    \A v \in Vals, c \in ChainVal :
        <>[](onChain[v] = c) => []<>(onChain[v] = c /\ InSync(v))
=============================================================================
