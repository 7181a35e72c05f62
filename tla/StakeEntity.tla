---------------------------- MODULE StakeEntity ----------------------------
(***************************************************************************)
(* indexStakeEntity: the order in which the messages and events of one     *)
(* block reach the handlers of applications and of gateways.               *)
(*                                                                         *)
(* The data of the block is grouped by the entity it is about, the groups  *)
(* of entities that one event updates together are merged, and the groups  *)
(* are handled concurrently, each in its own order.  A handler reads and   *)
(* writes the rows of its entities over several awaits, so that two        *)
(* handlers at work on one entity would overwrite each other.              *)
(*                                                                         *)
(* An event that names its entity by an attribute the scheduler does not   *)
(* look for stops it before any handler is called, and the block is tried  *)
(* again.                                                                  *)
(*                                                                         *)
(* Abstractions: a datum is its kind, its transaction, the attribute it    *)
(* names its entities by, and these; the position in the block stands for  *)
(* idx, which grows with it among the messages, and among the events, of   *)
(* one transaction.  The names are the scheduler's own, so that a module   *)
(* about the handlers it calls can extend this one.                        *)
(***************************************************************************)
EXTENDS Naturals, Sequences

CONSTANTS Entities,  \* addresses of applications (or of gateways)
          Txs,       \* transactions of a block, by index
          MaxBlock   \* bound: data in a block

ASSUME StakeEntityAssumption ==
    /\ Txs \subseteq Nat
    /\ MaxBlock \in Nat

VARIABLES block,   \* the data, in the order the chain executed it
          failed,  \* transactions whose code is not 0
          status,  \* how far the handler of each datum is
          progress \* "grouping", "running", "threw", or "returned" once
                   \* Promise.all resolved

scheduleVars == <<block, failed, status, progress>>

\* A message names its entity by a path, an event of a transfer by source_address
\* and destination_address: getEntityIdArg knows these.  An event of an unbonding
\* has the whole application, or gateway, which it knows too, or in newer versions
\* application_address, or gateway_address, which only the handlers read.
Keys == {"known", "address"}

\* Messages and events of a transaction are about one entity; an event of the
\* end of the block (EventTransferEnd) may be about two.
OneId == {<<e>> : e \in Entities}
TwoIds == {<<d, e>> : d, e \in Entities}
TxData == [kind : {"msg"}, key : {"known"}, tx : Txs, ids : OneId]
          \cup [kind : {"event"}, key : Keys, tx : Txs, ids : OneId]
FinalizedData == [kind : {"finalized"}, key : Keys, tx : {0}, ids : OneId]
                 \cup [kind : {"finalized"}, key : {"known"}, tx : {0}, ids : TwoIds]
BlockData == TxData \cup FinalizedData

Finalized(i) == block[i].kind = "finalized"

\* Transactions run one after the other, then the end of the block.
ChainOrdered ==
    \A i, j \in DOMAIN block : i < j =>
        /\ Finalized(i) => Finalized(j)
        /\ ~Finalized(j) => block[i].tx <= block[j].tx

\* filterEventsByTxStatus and filterMsgByTxStatus.
Success(i) == Finalized(i) \/ block[i].tx \notin failed

-----------------------------------------------------------------------------
(* Grouping *)

\* getIdOfBondingEvents and getIdOfUnbondingEvents look for one attribute alone.
HasId(i) == block[i].key = "known"

\* getEntityId: the entity a datum is grouped by is the first it is about.
EntityId(i) == block[i].ids[1]

IdsOf(i) == {block[i].ids[n] : n \in DOMAIN block[i].ids}

\* Mutant: the groups are not merged.
TogetherUnmerged(d, e) == d = e

\* groupConnectedComponents: two entities are in the same component when no
\* set of entities that takes every event whole tells them apart.
Together(d, e) ==
    \A S \in SUBSET Entities :
        (\A i \in DOMAIN block : Success(i) => IdsOf(i) \subseteq S \/ IdsOf(i) \cap S = {})
            => (d \in S <=> e \in S)

SameGroup(i, j) == Together(EntityId(i), EntityId(j))

\* Mutant: messages come before events even across transactions.
BeforeByRank(i, j) ==
    \/ ~Finalized(i) /\ Finalized(j)
    \/ Finalized(i) /\ Finalized(j) /\ i < j
    \/ /\ ~Finalized(i) /\ ~Finalized(j)
       /\ \/ block[i].kind = "msg" /\ block[j].kind = "event"
          \/ block[i].kind = block[j].kind /\ i < j

\* orderBy: finalized events last, by idx; the rest by tx, then messages
\* before events, then by idx.
Before(i, j) ==
    \/ ~Finalized(i) /\ Finalized(j)
    \/ Finalized(i) /\ Finalized(j) /\ i < j
    \/ /\ ~Finalized(i) /\ ~Finalized(j)
       /\ \/ block[i].tx < block[j].tx
          \/ /\ block[i].tx = block[j].tx
             /\ \/ block[i].kind = "msg" /\ block[j].kind = "event"
                \/ block[i].kind = block[j].kind /\ i < j

-----------------------------------------------------------------------------
(* Handling *)

ScheduleInit ==
    /\ block \in UNION {[1..n -> BlockData] : n \in 0..MaxBlock}
    /\ ChainOrdered
    /\ failed \in SUBSET Txs
    /\ status = [i \in DOMAIN block |-> "waiting"]
    /\ progress = "grouping"

Handled == {i \in DOMAIN block : Success(i)}

\* The groups are formed before any handler is called.
Group ==
    /\ progress = "grouping"
    /\ \A i \in Handled : HasId(i)
    /\ progress' = "running"
    /\ UNCHANGED <<block, failed, status>>

\* "entityId not found for event type"; failed transactions are left out by then.
Throw ==
    /\ progress = "grouping"
    /\ \E i \in Handled : ~HasId(i)
    /\ progress' = "threw"
    /\ UNCHANGED <<block, failed, status>>

\* The error reaches _indexingHandler, and the block is indexed anew.
Retry ==
    /\ progress = "threw"
    /\ progress' = "grouping"
    /\ UNCHANGED <<block, failed, status>>

\* The loop over one group awaits a handler before it calls the next.
Start(i) ==
    /\ progress = "running"
    /\ i \in Handled
    /\ status[i] = "waiting"
    /\ \A j \in Handled : SameGroup(i, j) /\ Before(j, i) => status[j] = "done"
    /\ status' = [status EXCEPT ![i] = "running"]
    /\ UNCHANGED <<block, failed, progress>>

Finish(i) ==
    /\ status[i] = "running"
    /\ status' = [status EXCEPT ![i] = "done"]
    /\ UNCHANGED <<block, failed, progress>>

\* Promise.all over the groups.
Return ==
    /\ progress = "running"
    /\ \A i \in Handled : status[i] = "done"
    /\ progress' = "returned"
    /\ UNCHANGED <<block, failed, status>>

ScheduleNext == Group \/ Throw \/ Retry \/ Return \/ \E i \in DOMAIN block : Start(i) \/ Finish(i)

Schedule == ScheduleInit /\ [][ScheduleNext]_scheduleVars

\* A handler is called once it can be, and returns (its retries are bounded); a
\* block that threw is tried again.
FairSchedule == Schedule /\ WF_scheduleVars(ScheduleNext)

-----------------------------------------------------------------------------
(* Properties *)

\* The data of failed transactions reaches no handler.
ScheduleTypeOK ==
    /\ block \in Seq(BlockData)
    /\ failed \subseteq Txs
    /\ status \in [DOMAIN block -> {"waiting", "running", "done"}]
    /\ progress \in {"grouping", "running", "threw", "returned"}
    /\ \A i \in DOMAIN block : ~Success(i) => status[i] = "waiting"

Share(i, j) == IdsOf(i) \cap IdsOf(j) # {}

\* "This function is used to call handlers in order to avoid updating the same
\* entity twice or more at the same time" (indexStakeEntity), although groups
\* are handled concurrently and an event may update two entities.
OneAtATime ==
    \A i, j \in DOMAIN block :
        i # j /\ Share(i, j) => ~(status[i] = "running" /\ status[j] = "running")

\* An event that a later message of its own transaction overtakes.
Overtaken(i, j) ==
    block[i].kind = "event" /\ block[j].kind = "msg" /\ block[i].tx = block[j].tx

\* Whatever the grouping, each entity sees the data about it in the order the
\* chain executed it, except that within a transaction messages come first.
InChainOrder ==
    \A i, j \in DOMAIN block :
        /\ i < j /\ Share(i, j) /\ Success(i)
        /\ status[j] # "waiting"
        /\ ~Overtaken(i, j)
        => status[i] = "done"

\* "older versions of this event included this attribute" (gateway) and "Older
\* versions of this event included the whole application" (the handlers of
\* unbonding events): they take the newer versions too, which have the address
\* alone, so that a block with such an event should be handled.  It never is.
NewerEventsHandled ==
    <>(\A i \in DOMAIN block : Success(i) /\ block[i].key = "address" => status[i] = "done")
=============================================================================
