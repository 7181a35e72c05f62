---------------------------- MODULE Applications ----------------------------
(***************************************************************************)
(* The life of applications in the index: the handlers of the messages and *)
(* events of a block, then reconcileApplications against the chain's state *)
(* at that block.                                                          *)
(*                                                                         *)
(* The handlers of one application run one after the other and those of    *)
(* different applications touch different rows (StakeEntity), so the data  *)
(* of a block are handled here in their order.  reconcileApplications runs *)
(* in every block with application data: all their types trigger it.       *)
(*                                                                         *)
(* Abstractions: the current version of each row; the rows of messages and *)
(* events, and the block ids in an application's row, are left out.        *)
(***************************************************************************)
EXTENDS Naturals, Sequences

CONSTANTS Apps, Services, Gateways,
          None,       \* no application, or no value
          MaxStake,   \* bound: stake of an application
          MaxData,    \* bound: data in a block
          MaxOps      \* bound: operations of the chain

VARIABLES onChain,        \* the application store of the chain
          ops,            \* operations of the chain so far
          data,           \* messages and events of the block, not yet handled
          pc,             \* "chain" between blocks, "handle", "reconcile"
          apps,           \* the Application table
          appServices,    \* the ApplicationService table: <<application, service>>
          appGateways     \* the ApplicationGateway table: <<application, gateway>>

chainVars == <<onChain, ops>>
tables == <<apps, appServices, appGateways>>
vars == <<chainVars, data, pc, tables>>

ChainApp == [stake : 1..MaxStake, unbonding : BOOLEAN, transferTo : Apps \cup {None},
             services : (SUBSET Services) \ {{}}, gateways : SUBSET Gateways]

Reasons == {None, "below_min_stake", "elective", "transfer"}
Row == [status : {"Staked", "Unstaking", "Unstaked"}, stake : Nat,
        transferringTo : Apps \cup {None}, reason : Reasons, destination : Apps \cup {None}]

ASSUME ApplicationsAssumption ==
    /\ None \notin Apps /\ None \notin ChainApp /\ None \notin Row
    /\ MaxStake \in Nat \ {0} /\ MaxData \in Nat /\ MaxOps \in Nat

TypeOK ==
    /\ onChain \in [Apps -> ChainApp \cup {None}]
    /\ ops \in 0..MaxOps
    /\ Len(data) <= MaxData + 1
    /\ pc \in {"chain", "handle", "reconcile"}
    /\ apps \in [Apps -> Row \cup {None}]
    /\ appServices \subseteq Apps \X Services
    /\ appGateways \subseteq Apps \X Gateways

-----------------------------------------------------------------------------
(* The chain (external): application module operations and their data *)

OnChain(a) == onChain[a] # None
Free(a) == OnChain(a) /\ ~onChain[a].unbonding /\ onChain[a].transferTo = None

InBlock(kind, a) == \E i \in DOMAIN data : data[i].kind = kind /\ data[i].app = a

\* One operation of the chain leaves the application store as given and adds
\* its messages and events to the block.
Emit(store, emitted) ==
    /\ pc = "chain"
    /\ ops < MaxOps /\ Len(data) < MaxData
    /\ onChain' = store
    /\ data' = data \o emitted
    /\ ops' = ops + 1
    /\ UNCHANGED <<pc, tables>>

\* A stake of an application already there keeps its delegations and a
\* transfer under way, and cancels its unbonding.
Staked(a, stake, services) ==
    [stake |-> stake, unbonding |-> FALSE, services |-> services,
     transferTo |-> IF OnChain(a) THEN onChain[a].transferTo ELSE None,
     gateways |-> IF OnChain(a) THEN onChain[a].gateways ELSE {}]

\* MsgStakeApplication.
ChainStake(a, stake, services) ==
    /\ OnChain(a) => onChain[a].stake <= stake
    /\ Emit([onChain EXCEPT ![a] = Staked(a, stake, services)],
            <<[kind |-> "stake", app |-> a, stake |-> stake, services |-> services]>>)

\* MsgClaimMorseApplication: the claimed stake is added, the service replaces.
ChainClaim(a, claimed, service) ==
    LET before == IF OnChain(a) THEN onChain[a].stake ELSE 0 IN
    /\ before + claimed <= MaxStake
    /\ Emit([onChain EXCEPT ![a] = Staked(a, before + claimed, {service})],
            <<[kind |-> "claim", app |-> a, stake |-> claimed, services |-> {service}]>>)

\* MsgUnstakeApplication and its EventApplicationUnbondingBegin.
ChainUnstake(a) ==
    /\ Free(a)
    /\ Emit([onChain EXCEPT ![a].unbonding = TRUE],
            <<[kind |-> "unstake", app |-> a],
              [kind |-> "unbondingBegin", app |-> a, reason |-> "elective"]>>)

\* Settlement burns stake; below the minimum it starts the unbonding.
ChainSettle(a) ==
    /\ OnChain(a) /\ onChain[a].stake > 1
    /\ Emit([onChain EXCEPT ![a].stake = @ - 1], <<[kind |-> "settled", app |-> a]>>)

ChainBelowMinimum(a) ==
    /\ Free(a) /\ onChain[a].stake = 1
    /\ Emit([onChain EXCEPT ![a].unbonding = TRUE],
            <<[kind |-> "unbondingBegin", app |-> a, reason |-> "below_min_stake"]>>)

\* A session or more after the block in which the unbonding began.
ChainUnbondingEnd(a) ==
    /\ OnChain(a) /\ onChain[a].unbonding /\ ~InBlock("unbondingBegin", a)
    /\ Emit([onChain EXCEPT ![a] = None], <<[kind |-> "unbondingEnd", app |-> a]>>)

ChainDelegate(a, g) ==
    /\ Free(a) /\ g \notin onChain[a].gateways
    /\ Emit([onChain EXCEPT ![a].gateways = @ \cup {g}],
            <<[kind |-> "delegate", app |-> a, gateway |-> g]>>)

ChainUndelegate(a, g) ==
    /\ OnChain(a) /\ g \in onChain[a].gateways
    /\ Emit([onChain EXCEPT ![a].gateways = @ \ {g}],
            <<[kind |-> "undelegate", app |-> a, gateway |-> g]>>)

\* MsgTransferApplication and its EventTransferBegin.
ChainTransfer(a, b) ==
    /\ a # b /\ Free(a) /\ ~OnChain(b)
    /\ Emit([onChain EXCEPT ![a].transferTo = b],
            <<[kind |-> "transfer", app |-> a, to |-> b], [kind |-> "transferBegin", app |-> a]>>)

\* At the end of a later session: the source leaves the store and the destination
\* takes its place, unless it was staked in the meantime.
ChainTransferEnd(a) ==
    LET b == onChain[a].transferTo IN
    /\ OnChain(a) /\ b # None /\ ~InBlock("transfer", a)
    /\ IF OnChain(b)
       THEN Emit([onChain EXCEPT ![a].transferTo = None], <<[kind |-> "transferError", app |-> a]>>)
       ELSE Emit([onChain EXCEPT ![a] = None, ![b] = [onChain[a] EXCEPT !.transferTo = None]],
                 <<[kind |-> "transferEnd", app |-> a, to |-> b]>>)

Chain ==
    \E a \in Apps :
        \/ \E stake \in 1..MaxStake, services \in (SUBSET Services) \ {{}} : ChainStake(a, stake, services)
        \/ \E claimed \in 1..MaxStake, service \in Services : ChainClaim(a, claimed, service)
        \/ ChainUnstake(a)
        \/ ChainSettle(a)
        \/ ChainBelowMinimum(a)
        \/ ChainUnbondingEnd(a)
        \/ \E g \in Gateways : ChainDelegate(a, g) \/ ChainUndelegate(a, g)
        \/ \E b \in Apps : ChainTransfer(a, b)
        \/ ChainTransferEnd(a)

-----------------------------------------------------------------------------
(* The handlers *)

Init ==
    /\ onChain = [a \in Apps |-> None]
    /\ ops = 0
    /\ data = <<>>
    /\ pc = "chain"
    /\ apps = [a \in Apps |-> None]
    /\ appServices = {}
    /\ appGateways = {}

\* A block with application data is finalized, and indexed.
BeginBlock ==
    /\ pc = "chain" /\ data # <<>>
    /\ pc' = "handle"
    /\ UNCHANGED <<chainVars, data, tables>>

\* The handler of the first datum returned; the others need the row they load.
Handle(kind) ==
    /\ pc = "handle" /\ data # <<>> /\ Head(data).kind = kind
    /\ data' = Tail(data)
    /\ UNCHANGED <<chainVars, pc>>

Loaded(a) == apps[a] # None

ServicesOf(a) == {s \in Services : <<a, s>> \in appServices}
GatewaysOf(a) == {g \in Gateways : <<a, g>> \in appGateways}

\* Mutant: the row is written anew, the transfer under way included.
StakeApplicationAnew(a, stake, services) ==
    /\ apps' = [apps EXCEPT ![a] = [status |-> "Staked", stake |-> stake, transferringTo |-> None,
                                    reason |-> None, destination |-> None]]
    /\ appServices' = (appServices \ ({a} \X Services)) \cup ({a} \X services)
    /\ UNCHANGED appGateways

\* _stakeApplication: the row is written anew but for the transfer under way.
\* The services of the message become those of the application: the current
\* rows are closed and the new ones inserted after that.
StakeApplication(a, stake, services) ==
    /\ apps' = [apps EXCEPT ![a] =
           [status |-> "Staked", stake |-> stake,
            transferringTo |-> IF Loaded(a) THEN apps[a].transferringTo ELSE None,
            reason |-> None, destination |-> None]]
    /\ appServices' = (appServices \ ({a} \X Services)) \cup ({a} \X services)
    /\ UNCHANGED appGateways

\* Mutant: only an application that has a row can stake.
HandleAppMsgRestake ==
    /\ Handle("stake")
    /\ Loaded(Head(data).app)
    /\ StakeApplication(Head(data).app, Head(data).stake, Head(data).services)

HandleAppMsgStake ==
    /\ Handle("stake")
    /\ StakeApplication(Head(data).app, Head(data).stake, Head(data).services)

\* _handleMsgClaimMorseApplication: the claimed stake, over that of the row.
ClaimedStake(a, claimed) == claimed + (IF Loaded(a) THEN apps[a].stake ELSE 0)

HandleMsgClaimMorseApplication ==
    /\ Handle("claim")
    /\ StakeApplication(Head(data).app, ClaimedStake(Head(data).app, Head(data).stake),
                        Head(data).services)

HandleDelegateToGatewayMsg ==
    /\ Handle("delegate")
    /\ appGateways' = appGateways \cup {<<Head(data).app, Head(data).gateway>>}
    /\ UNCHANGED <<apps, appServices>>

HandleUndelegateFromGatewayMsg ==
    /\ Handle("undelegate")
    /\ appGateways' = appGateways \ {<<Head(data).app, Head(data).gateway>>}
    /\ UNCHANGED <<apps, appServices>>

\* stakeStatus is left to reconcile; only block ids change here.
HandleUnstakeApplicationMsg ==
    /\ Handle("unstake")
    /\ Loaded(Head(data).app)
    /\ UNCHANGED tables

HandleApplicationUnbondingBeginEvent ==
    /\ Handle("unbondingBegin")
    /\ Loaded(Head(data).app)
    /\ apps' = [apps EXCEPT ![Head(data).app].reason = Head(data).reason]
    /\ UNCHANGED <<appServices, appGateways>>

HandleApplicationUnbondingEndEvent ==
    /\ Handle("unbondingEnd")
    /\ Loaded(Head(data).app)
    /\ appServices' = appServices \ ({Head(data).app} \X Services)
    /\ UNCHANGED <<apps, appGateways>>

HandleTransferApplicationMsg ==
    /\ Handle("transfer")
    /\ Loaded(Head(data).app)
    /\ apps' = [apps EXCEPT ![Head(data).app].transferringTo = Head(data).to]
    /\ UNCHANGED <<appServices, appGateways>>

HandleTransferApplicationBeginEvent ==
    /\ Handle("transferBegin")
    /\ Loaded(Head(data).app)
    /\ UNCHANGED tables

\* The destination's row is created unless it is left from an earlier stake;
\* the services and delegations of the source are moved to it.
HandleTransferApplicationEndEvent ==
    LET a == Head(data).app
        b == Head(data).to
        destination == IF Loaded(b) THEN apps[b]
                       ELSE [status |-> "Staked", stake |-> apps[a].stake, transferringTo |-> None,
                             reason |-> None, destination |-> None]
    IN
    /\ Handle("transferEnd")
    /\ Loaded(a)
    /\ apps' = [apps EXCEPT ![a] = [@ EXCEPT !.transferringTo = None, !.reason = "transfer",
                                             !.destination = b],
                            ![b] = destination]
    /\ appServices' = (appServices \ ({a} \X Services)) \cup ({b} \X ServicesOf(a))
    /\ appGateways' = (appGateways \ ({a} \X Gateways)) \cup ({b} \X GatewaysOf(a))

HandleTransferApplicationErrorEvent ==
    /\ Handle("transferError")
    /\ Loaded(Head(data).app)
    /\ apps' = [apps EXCEPT ![Head(data).app].transferringTo = None]
    /\ UNCHANGED <<appServices, appGateways>>

\* EventClaimSettled and the like have no handler here, and trigger reconcile.
PassSettlement ==
    /\ Handle("settled")
    /\ UNCHANGED tables

AllHandled ==
    /\ pc = "handle" /\ data = <<>>
    /\ pc' = "reconcile"
    /\ UNCHANGED <<chainVars, data, tables>>

\* Mutant: only the applications the chain lists are looked at.
ReconciledListed(a) ==
    IF Loaded(a) /\ OnChain(a)
    THEN [apps[a] EXCEPT !.stake = onChain[a].stake,
                         !.status = IF onChain[a].unbonding THEN "Unstaking" ELSE "Staked"]
    ELSE apps[a]

\* reconcileApplications: rows of listed applications take the chain's stake
\* and status; a row that is Unstaking and not listed is closed out, one that
\* is Staked and not listed is reported and left alone.
Reconciled(a) ==
    CASE ~Loaded(a) -> None
      [] Loaded(a) /\ OnChain(a) ->
            [apps[a] EXCEPT !.stake = onChain[a].stake,
                            !.status = IF onChain[a].unbonding THEN "Unstaking" ELSE "Staked"]
      [] Loaded(a) /\ ~OnChain(a) /\ apps[a].status = "Unstaking" ->
            [apps[a] EXCEPT !.stake = 0, !.status = "Unstaked"]
      [] OTHER -> apps[a]

ReconcileApplications ==
    /\ pc = "reconcile"
    /\ apps' = [a \in Apps |-> Reconciled(a)]
    /\ pc' = "chain"
    /\ UNCHANGED <<chainVars, data, appServices, appGateways>>

Indexer == \/ BeginBlock \/ HandleAppMsgStake \/ HandleMsgClaimMorseApplication
           \/ HandleDelegateToGatewayMsg \/ HandleUndelegateFromGatewayMsg
           \/ HandleUnstakeApplicationMsg \/ HandleApplicationUnbondingBeginEvent
           \/ HandleApplicationUnbondingEndEvent \/ HandleTransferApplicationMsg
           \/ HandleTransferApplicationBeginEvent \/ HandleTransferApplicationEndEvent
           \/ HandleTransferApplicationErrorEvent \/ PassSettlement \/ AllHandled
           \/ ReconcileApplications

Next == Chain \/ Indexer

Spec == Init /\ [][Next]_vars

\* The indexer keeps running; a handler that finds its rows returns.
FairSpec == Spec /\ WF_vars(Indexer)

-----------------------------------------------------------------------------
(* Properties *)

Indexed == pc = "chain" /\ data = <<>>

\* After every block, an application in the chain's store has the chain's
\* stake, status, services and transfer in the index, whichever way it came
\* there (staked, claimed, transferred to) and whatever its earlier row was.
ListedMatchChain ==
    Indexed => \A a \in Apps : OnChain(a) =>
        /\ Loaded(a)
        /\ apps[a].stake = onChain[a].stake
        /\ apps[a].status = IF onChain[a].unbonding THEN "Unstaking" ELSE "Staked"
        /\ apps[a].transferringTo = onChain[a].transferTo
        /\ ServicesOf(a) = onChain[a].services
        /\ onChain[a].gateways \subseteq GatewaysOf(a)

\* After every block, an application that unbonded is Unstaked, with no stake
\* and no service left: nothing else would ever close its row.
UnbondedAreClosed ==
    Indexed => \A a \in Apps :
        ~OnChain(a) /\ Loaded(a) /\ apps[a].reason \in {"elective", "below_min_stake"} =>
            apps[a].status = "Unstaked" /\ apps[a].stake = 0 /\ ServicesOf(a) = {}

\* No handler throws for want of a row, so that no block is retried for ever:
\* whatever the chain does to an application, its row is there by then.
BlocksAreIndexed == (pc = "handle") ~> (pc = "chain")

\* "source will be absent from AllApplications after transfer, so reconcile
\* marks it Unstaked via tracked loop" (_handleTransferApplicationEndEvent).
TransferredAreClosed ==
    Indexed => \A a \in Apps :
        ~OnChain(a) /\ Loaded(a) /\ apps[a].reason = "transfer" => apps[a].status = "Unstaked"
=============================================================================
