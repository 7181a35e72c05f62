----------------------------- MODULE Delegations -----------------------------
(***************************************************************************)
(* Gateways and the delegations of applications to them.                   *)
(*                                                                         *)
(* indexStake handles the gateway data and the application data of a block *)
(* concurrently: indexStakeEntity keeps the handlers of one gateway, and   *)
(* those of one application, apart, but an ApplicationGateway row is about *)
(* one of each.  The handlers that read such rows before they write are    *)
(* modelled step by step, one read or one statement at a time.             *)
(*                                                                         *)
(* Handlers of different applications touch different rows, and so do      *)
(* those of different gateways: the application data of a block are        *)
(* handled here in their order, and so are its gateway data.               *)
(*                                                                         *)
(* Abstractions: the current version of each row; the rows of messages and *)
(* events, and the heights and block ids of a gateway, are left out, and   *)
(* so is EventGatewayUnstaked, with which a transaction of older chains    *)
(* closed a gateway at once.                                               *)
(***************************************************************************)
EXTENDS Naturals, Sequences

CONSTANTS Apps, Gateways,
          None,         \* no gateway, no row
          MaxStake,     \* bound: stake of a gateway
          EndTogether,  \* whether a block may end an unbonding and a transfer
          MaxData,      \* bound: data of a block, of gateways and of applications
          MaxOps        \* bound: operations of the chain

VARIABLES onChain,     \* the gateway store of the chain
          delegated,   \* delegations on the chain: <<application, gateway>>
          unbonded,    \* applications that unbonded, or took over from one that had
          ops,         \* operations of the chain so far
          gatewayData, \* gateway messages and events of the block, not yet handled
          appData,     \* application messages and events, likewise
          pc,          \* "chain" between blocks, "handle"
          gateways,    \* the Gateway table
          delegations, \* the ApplicationGateway table
          undelegates, \* rows the handler of the gateway event has read, or None
          moving,      \* gateways the handler of the transfer has read, or None
          statements   \* statements that handler has still to run

chainVars == <<onChain, delegated, unbonded, ops>>
gatewayVars == <<gatewayData, gateways, undelegates>>
appVars == <<appData, moving, statements>>
vars == <<chainVars, gatewayVars, appVars, pc, delegations>>

ChainGateway == [stake : 1..MaxStake, unstaking : BOOLEAN]
Row == [status : {"Staked", "Unstaking", "Unstaked"}, stake : 0..MaxStake]

ASSUME DelegationsAssumption ==
    /\ None \notin ChainGateway /\ None \notin Row
    /\ \A some \in SUBSET Gateways : some # None
    /\ MaxStake \in Nat \ {0} /\ MaxData \in Nat /\ MaxOps \in Nat
    /\ EndTogether \in BOOLEAN

TypeOK ==
    /\ onChain \in [Gateways -> ChainGateway \cup {None}]
    /\ delegated \subseteq Apps \X Gateways
    /\ ops \in 0..MaxOps
    /\ pc \in {"chain", "handle"}
    /\ gateways \in [Gateways -> Row \cup {None}]
    /\ delegations \subseteq Apps \X Gateways
    /\ unbonded \subseteq Apps
    /\ undelegates = None \/ undelegates \subseteq Apps \X Gateways
    /\ moving = None \/ moving \subseteq Gateways
    /\ statements \subseteq {"create", "remove"}
    /\ pc = "chain" => undelegates = None /\ moving = None

-----------------------------------------------------------------------------
(* The chain (external) *)

OnChain(g) == onChain[g] # None

Emit(forGateways, forApps) ==
    /\ pc = "chain"
    /\ ops < MaxOps /\ Len(gatewayData) + Len(appData) < MaxData
    /\ gatewayData' = gatewayData \o forGateways
    /\ appData' = appData \o forApps
    /\ ops' = ops + 1
    /\ UNCHANGED <<pc, gateways, delegations, undelegates, moving, statements>>

InBlock(data, kind) == \E i \in DOMAIN data : data[i].kind = kind

\* The unbondings and the transfers of a block end after its messages.
Ended == \/ InBlock(gatewayData, "unbondingEnd")
         \/ InBlock(appData, "transferEnd") \/ InBlock(appData, "unbondingEnd")

\* MsgStakeGateway: stake anew, or more, which also cancels an unbonding.
ChainStake(g, stake) ==
    /\ ~Ended
    /\ OnChain(g) => onChain[g].stake <= stake
    /\ onChain' = [onChain EXCEPT ![g] = [stake |-> stake, unstaking |-> FALSE]]
    /\ Emit(<<[kind |-> "stake", gateway |-> g, stake |-> stake]>>, <<>>)
    /\ UNCHANGED <<delegated, unbonded>>

\* MsgUnstakeGateway and its EventGatewayUnbondingBegin.
ChainUnstake(g) ==
    /\ ~Ended
    /\ OnChain(g) /\ ~onChain[g].unstaking
    /\ onChain' = [onChain EXCEPT ![g].unstaking = TRUE]
    /\ Emit(<<[kind |-> "unstake", gateway |-> g], [kind |-> "unbondingBegin", gateway |-> g]>>, <<>>)
    /\ UNCHANGED <<delegated, unbonded>>

\* A session or more later, the gateway and the delegations to it are removed.
ChainUnbondingEnd(g) ==
    /\ OnChain(g) /\ onChain[g].unstaking
    /\ ~\E i \in DOMAIN gatewayData : gatewayData[i] = [kind |-> "unbondingBegin", gateway |-> g]
    /\ EndTogether \/ ~InBlock(appData, "transferEnd")
    /\ onChain' = [onChain EXCEPT ![g] = None]
    /\ delegated' = delegated \ (Apps \X {g})
    /\ Emit(<<[kind |-> "unbondingEnd", gateway |-> g]>>, <<>>)
    /\ UNCHANGED unbonded

ChainDelegate(a, g) ==
    /\ ~Ended
    /\ OnChain(g) /\ ~onChain[g].unstaking /\ <<a, g>> \notin delegated
    /\ delegated' = delegated \cup {<<a, g>>}
    /\ Emit(<<>>, <<[kind |-> "delegate", app |-> a, gateway |-> g]>>)
    /\ UNCHANGED <<onChain, unbonded>>

ChainUndelegate(a, g) ==
    /\ ~Ended
    /\ <<a, g>> \in delegated
    /\ delegated' = delegated \ {<<a, g>>}
    /\ Emit(<<>>, <<[kind |-> "undelegate", app |-> a, gateway |-> g]>>)
    /\ UNCHANGED <<onChain, unbonded>>

\* EventTransferEnd: the destination, new on the chain, takes the delegations.
ChainTransferEnd(a, b) ==
    /\ a # b /\ \A g \in Gateways : <<b, g>> \notin delegated
    /\ EndTogether \/ ~InBlock(gatewayData, "unbondingEnd")
    /\ delegated' = (delegated \ ({a} \X Gateways))
                        \cup {<<b, g>> : g \in {g \in Gateways : <<a, g>> \in delegated}}
    /\ unbonded' = IF a \in unbonded THEN unbonded \cup {b} ELSE unbonded
    /\ Emit(<<>>, <<[kind |-> "transferEnd", app |-> a, to |-> b]>>)
    /\ UNCHANGED onChain

\* EventApplicationUnbondingEnd: the application leaves, its delegations too.
ChainAppUnbondingEnd(a) ==
    /\ delegated' = delegated \ ({a} \X Gateways)
    /\ unbonded' = unbonded \cup {a}
    /\ Emit(<<>>, <<[kind |-> "unbondingEnd", app |-> a]>>)
    /\ UNCHANGED onChain

Chain ==
    \/ \E g \in Gateways :
        \/ \E stake \in 1..MaxStake : ChainStake(g, stake)
        \/ ChainUnstake(g) \/ ChainUnbondingEnd(g)
        \/ \E a \in Apps : ChainDelegate(a, g) \/ ChainUndelegate(a, g)
    \/ \E a, b \in Apps : ChainTransferEnd(a, b)
    \/ \E a \in Apps : ChainAppUnbondingEnd(a)

-----------------------------------------------------------------------------
(* The gateway handlers *)

Init ==
    /\ onChain = [g \in Gateways |-> None]
    /\ delegated = {} /\ unbonded = {} /\ ops = 0
    /\ gatewayData = <<>> /\ appData = <<>>
    /\ pc = "chain"
    /\ gateways = [g \in Gateways |-> None] /\ delegations = {}
    /\ undelegates = None /\ moving = None /\ statements = {}

BeginBlock ==
    /\ pc = "chain" /\ (gatewayData # <<>> \/ appData # <<>>)
    /\ pc' = "handle"
    /\ UNCHANGED <<chainVars, gatewayVars, appVars, delegations>>

\* The handler of the next gateway datum; all but the stake need the row.
Gateway(kind) == pc = "handle" /\ gatewayData # <<>> /\ Head(gatewayData).kind = kind

Loaded == gateways[Head(gatewayData).gateway] # None

GatewayDone ==
    /\ gatewayData' = Tail(gatewayData)
    /\ UNCHANGED <<chainVars, appVars, pc>>

HandleGatewayMsgStake ==
    /\ Gateway("stake")
    /\ gateways' = [gateways EXCEPT ![Head(gatewayData).gateway] =
                        [status |-> "Staked", stake |-> Head(gatewayData).stake]]
    /\ GatewayDone
    /\ UNCHANGED <<delegations, undelegates>>

HandleGatewayMsgUnstake ==
    /\ Gateway("unstake") /\ Loaded
    /\ gateways' = [gateways EXCEPT ![Head(gatewayData).gateway].status = "Unstaking"]
    /\ GatewayDone
    /\ UNCHANGED <<delegations, undelegates>>

\* Mutant: the unbonding is expected to begin with this event.
HandleEventUnbondingBeginOfStaked ==
    /\ Gateway("unbondingBegin") /\ Loaded
    /\ gateways[Head(gatewayData).gateway].status = "Staked"
    /\ GatewayDone
    /\ UNCHANGED <<gateways, delegations, undelegates>>

\* Only the end height of the unbonding changes.
HandleEventGatewayUnbondingBegin ==
    /\ Gateway("unbondingBegin") /\ Loaded
    /\ GatewayDone
    /\ UNCHANGED <<gateways, delegations, undelegates>>

\* Mutant: the rows are not filtered by the gateway.
GetAllUndelegates ==
    /\ Gateway("unbondingEnd") /\ Loaded
    /\ undelegates = None
    /\ undelegates' = delegations
    /\ UNCHANGED <<chainVars, gatewayData, gateways, appVars, pc, delegations>>

\* getUndelegatesForUnstakedGateway: the rows to remove are read first ...
GetUndelegatesForUnstakedGateway ==
    /\ Gateway("unbondingEnd") /\ Loaded
    /\ undelegates = None
    /\ undelegates' = delegations \cap (Apps \X {Head(gatewayData).gateway})
    /\ UNCHANGED <<chainVars, gatewayData, gateways, appVars, pc, delegations>>

\* Mutant: the stake of a gateway that is gone is kept.
HandleEventUnbondingEndKeepsStake ==
    /\ Gateway("unbondingEnd")
    /\ undelegates # None
    /\ gateways' = [gateways EXCEPT ![Head(gatewayData).gateway].status = "Unstaked"]
    /\ delegations' = delegations \ undelegates
    /\ undelegates' = None
    /\ GatewayDone

\* ... and removed with the gateway's row saved after that.
HandleEventGatewayUnbondingEnd ==
    /\ Gateway("unbondingEnd")
    /\ undelegates # None
    /\ gateways' = [gateways EXCEPT ![Head(gatewayData).gateway] = [status |-> "Unstaked", stake |-> 0]]
    /\ delegations' = delegations \ undelegates
    /\ undelegates' = None
    /\ GatewayDone

-----------------------------------------------------------------------------
(* The application handlers that write ApplicationGateway *)

App(kind) == pc = "handle" /\ appData # <<>> /\ Head(appData).kind = kind

AppDone ==
    /\ appData' = Tail(appData)
    /\ UNCHANGED <<chainVars, gatewayVars, pc>>

HandleDelegateToGatewayMsg ==
    /\ App("delegate")
    /\ delegations' = delegations \cup {<<Head(appData).app, Head(appData).gateway>>}
    /\ AppDone
    /\ UNCHANGED <<moving, statements>>

HandleUndelegateFromGatewayMsg ==
    /\ App("undelegate")
    /\ delegations' = delegations \ {<<Head(appData).app, Head(appData).gateway>>}
    /\ AppDone
    /\ UNCHANGED <<moving, statements>>

\* fetchAllApplicationGatewayByApplicationId of the source ...
FetchSourceApplicationGateways ==
    /\ App("transferEnd")
    /\ moving = None
    /\ moving' = {g \in Gateways : <<Head(appData).app, g>> \in delegations}
    /\ statements' = {"create", "remove"}
    /\ UNCHANGED <<chainVars, gatewayVars, appData, pc, delegations>>

\* ... whose rows are created for the destination, and removed, in either order.
HandleTransferApplicationEndEvent(statement) ==
    /\ App("transferEnd")
    /\ statement \in statements
    /\ delegations' = IF statement = "create" THEN delegations \cup ({Head(appData).to} \X moving)
                      ELSE delegations \ ({Head(appData).app} \X moving)
    /\ statements' = statements \ {statement}
    /\ IF statements = {statement}
       THEN moving' = None /\ AppDone
       ELSE UNCHANGED <<moving, chainVars, gatewayVars, appData, pc>>

\* It removes the services of the application, and no delegation.
HandleApplicationUnbondingEndEvent ==
    /\ App("unbondingEnd")
    /\ AppDone
    /\ UNCHANGED <<moving, statements, delegations>>

EndBlock ==
    /\ pc = "handle" /\ gatewayData = <<>> /\ appData = <<>>
    /\ pc' = "chain"
    /\ UNCHANGED <<chainVars, gatewayVars, appVars, delegations>>

Indexer ==
    \/ BeginBlock \/ EndBlock
    \/ HandleGatewayMsgStake \/ HandleGatewayMsgUnstake \/ HandleEventGatewayUnbondingBegin
    \/ GetUndelegatesForUnstakedGateway \/ HandleEventGatewayUnbondingEnd
    \/ HandleDelegateToGatewayMsg \/ HandleUndelegateFromGatewayMsg
    \/ HandleApplicationUnbondingEndEvent \/ FetchSourceApplicationGateways
    \/ \E statement \in {"create", "remove"} : HandleTransferApplicationEndEvent(statement)

Next == Chain \/ Indexer

Spec == Init /\ [][Next]_vars

\* The indexer keeps running; a handler that finds its row returns.
FairSpec == Spec /\ WF_vars(Indexer)

-----------------------------------------------------------------------------
(* Properties *)

Indexed == pc = "chain" /\ gatewayData = <<>> /\ appData = <<>>

\* After every block, whatever the order in which its gateway and application
\* data were handled, the index has the delegations of the chain, and no other
\* but those an application that unbonded left behind.
DelegationsMatchChain ==
    Indexed => /\ delegated \subseteq delegations
               /\ delegations \ delegated \subseteq unbonded \X Gateways

\* Gateways are not reconciled: their rows follow the chain's store through
\* their messages and events alone, over unstaking, restaking and removal.
GatewaysMatchChain ==
    Indexed => \A g \in Gateways :
        IF OnChain(g)
        THEN gateways[g] = [status |-> IF onChain[g].unstaking THEN "Unstaking" ELSE "Staked",
                            stake |-> onChain[g].stake]
        ELSE gateways[g] \in {None, [status |-> "Unstaked", stake |-> 0]}

\* Every block is handled to its end: no handler throws for want of a row.
BlocksAreIndexed == (pc = "handle") ~> (pc = "chain")

=============================================================================
