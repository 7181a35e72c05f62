--------------------------- MODULE PocketStaking ----------------------------
(***************************************************************************)
(* The messages of pocket.application, pocket.gateway and                  *)
(* pocket.supplier, as their generated codecs under src/src/client/pocket  *)
(* have them (see Schema).  A name two of them use is preceded by the      *)
(* package.                                                                *)
(***************************************************************************)
EXTENDS Schema

base == INSTANCE BaseTypes
shared == INSTANCE PocketShared

ApplicationUnbondingReason ==
  [APPLICATION_UNBONDING_REASON_ELECTIVE |-> 0,
    APPLICATION_UNBONDING_REASON_BELOW_MIN_STAKE |-> 1,
    APPLICATION_UNBONDING_REASON_MIGRATION |-> 2]

SupplierUnbondingReason ==
  [SUPPLIER_UNBONDING_REASON_UNSPECIFIED |-> 0, SUPPLIER_UNBONDING_REASON_VOLUNTARY |-> 1,
    SUPPLIER_UNBONDING_REASON_BELOW_MIN_STAKE |-> 2, SUPPLIER_UNBONDING_REASON_MIGRATION |-> 3]

UndelegatingGatewayList == <<Many(Str(2, "gatewayAddresses"))>>
Application_PendingUndelegationsEntry ==
  <<U64(1, "key"), Msg(2, "value", UndelegatingGatewayList)>>
PendingApplicationTransfer == <<Str(1, "destinationAddress"), U64(2, "sessionEndHeight")>>
Application ==
  <<Str(1, "address"), Msg(2, "stake", base!Coin),
    Many(Msg(3, "serviceConfigs", shared!ApplicationServiceConfig)),
    Many(Str(4, "delegateeGatewayAddresses")),
    Entries(Msg(5, "pendingUndelegations", Application_PendingUndelegationsEntry)),
    U64(6, "unstakeSessionEndHeight"), Msg(7, "pendingTransfer", PendingApplicationTransfer)>>
EventApplicationStaked == <<Msg(1, "application", Application), I64(2, "sessionEndHeight")>>
EventRedelegation == <<Msg(1, "application", Application), I64(2, "sessionEndHeight")>>
EventTransferBegin ==
  <<Str(1, "sourceAddress"), Str(2, "destinationAddress"),
    Msg(3, "sourceApplication", Application), I64(4, "sessionEndHeight"),
    I64(5, "transferEndHeight")>>
EventTransferEnd ==
  <<Str(1, "sourceAddress"), Str(2, "destinationAddress"),
    Msg(3, "destinationApplication", Application), I64(4, "sessionEndHeight"),
    I64(5, "transferEndHeight")>>
EventTransferError ==
  <<Str(1, "sourceAddress"), Str(2, "destinationAddress"),
    Msg(3, "sourceApplication", Application), I64(4, "sessionEndHeight"), Str(5, "error")>>
EventApplicationUnbondingBegin ==
  <<Msg(1, "application", Application), Enm(2, "reason", ApplicationUnbondingReason),
    I64(3, "sessionEndHeight"), I64(4, "unbondingEndHeight")>>
EventApplicationUnbondingEnd ==
  <<Msg(1, "application", Application), Enm(2, "reason", ApplicationUnbondingReason),
    I64(3, "sessionEndHeight"), I64(4, "unbondingEndHeight")>>
EventApplicationUnbondingCanceled ==
  <<Msg(1, "application", Application), I64(2, "sessionEndHeight")>>
ApplicationParams == <<U64(1, "maxDelegatedGateways"), Msg(2, "minStake", base!Coin)>>
ApplicationGenesisState ==
  <<Msg(1, "params", ApplicationParams), Many(Msg(2, "applicationList", Application))>>
ApplicationModule == <<Str(1, "authority")>>
ApplicationQueryParams == [request |-> <<>>, response |-> <<Msg(1, "params", ApplicationParams)>>]
QueryGetApplication ==
  [request  |-> <<Str(1, "address")>>,
   response |-> <<Msg(1, "application", Application)>>]
QueryAllApplications ==
  [request  |-> <<Msg(1, "pagination", base!PageRequest), Str(2, "delegateeGatewayAddress")>>,
   response |-> <<Many(Msg(1, "applications", Application)),
                Msg(2, "pagination", base!PageResponse)>>]
ApplicationMsgUpdateParams ==
  [request  |-> <<Str(1, "authority"), Msg(2, "params", ApplicationParams)>>,
   response |-> <<>>]
MsgStakeApplication ==
  [request  |-> <<Str(1, "address"), Msg(2, "stake", base!Coin),
                Many(Msg(3, "services", shared!ApplicationServiceConfig))>>,
   response |-> <<>>]
MsgUnstakeApplication == [request |-> <<Str(1, "address")>>, response |-> <<>>]
MsgDelegateToGateway ==
  [request  |-> <<Str(1, "appAddress"), Str(2, "gatewayAddress")>>,
   response |-> <<>>]
MsgUndelegateFromGateway ==
  [request  |-> <<Str(1, "appAddress"), Str(2, "gatewayAddress")>>,
   response |-> <<>>]
MsgTransferApplication ==
  [request  |-> <<Str(1, "sourceAddress"), Str(2, "destinationAddress")>>,
   response |-> <<>>]
ApplicationMsgUpdateParam ==
  [request  |-> <<Str(1, "authority"), Str(2, "name"), Opt(U64(3, "asUint64")),
                Msg(4, "asCoin", base!Coin)>>,
   response |-> <<>>]
PendingUndelegation == <<Str(1, "applicationAddress"), Str(2, "gatewayAddress")>>
Gateway == <<Str(1, "address"), Msg(2, "stake", base!Coin), U64(3, "unstakeSessionEndHeight")>>
EventGatewayStaked == <<Msg(1, "gateway", Gateway), I64(2, "sessionEndHeight")>>
EventGatewayUnbondingBegin ==
  <<Msg(1, "gateway", Gateway), I64(3, "sessionEndHeight"), I64(4, "unbondingEndHeight")>>
EventGatewayUnbondingEnd ==
  <<Msg(1, "gateway", Gateway), I64(3, "sessionEndHeight"), I64(4, "unbondingEndHeight")>>
EventGatewayUnbondingCanceled == <<Msg(1, "gateway", Gateway), I64(2, "sessionEndHeight")>>
GatewayParams == <<Msg(1, "minStake", base!Coin)>>
GatewayGenesisState == <<Msg(1, "params", GatewayParams), Many(Msg(2, "gatewayList", Gateway))>>
GatewayModule == <<Str(1, "authority")>>
GatewayQueryParams == [request |-> <<>>, response |-> <<Msg(1, "params", GatewayParams)>>]
QueryGetGateway ==
  [request  |-> <<Str(1, "address")>>,
   response |-> <<Msg(1, "gateway", Gateway)>>]
QueryAllGateways ==
  [request  |-> <<Msg(1, "pagination", base!PageRequest)>>,
   response |-> <<Many(Msg(1, "gateways", Gateway)), Msg(2, "pagination", base!PageResponse)>>]
GatewayMsgUpdateParams ==
  [request  |-> <<Str(1, "authority"), Msg(2, "params", GatewayParams)>>,
   response |-> <<>>]
MsgStakeGateway ==
  [request  |-> <<Str(1, "address"), Msg(2, "stake", base!Coin)>>,
   response |-> <<>>]
MsgUnstakeGateway == [request |-> <<Str(1, "address")>>, response |-> <<>>]
GatewayMsgUpdateParam ==
  [request  |-> <<Str(1, "authority"), Str(2, "name"), Msg(3, "asCoin", base!Coin)>>,
   response |-> <<>>]
EventSupplierStaked == <<I64(2, "sessionEndHeight"), Str(3, "operatorAddress")>>
EventSupplierUnbondingBegin ==
  <<Msg(1, "supplier", shared!Supplier), Enm(2, "reason", SupplierUnbondingReason),
    I64(3, "sessionEndHeight"), I64(4, "unbondingEndHeight")>>
EventSupplierUnbondingEnd ==
  <<Msg(1, "supplier", shared!Supplier), Enm(2, "reason", SupplierUnbondingReason),
    I64(3, "sessionEndHeight"), I64(4, "unbondingEndHeight")>>
EventSupplierUnbondingCanceled ==
  <<Msg(1, "supplier", shared!Supplier), I64(3, "height"), I64(2, "sessionEndHeight")>>
EventSupplierServiceConfigActivated ==
  <<I64(2, "activationHeight"), Str(3, "operatorAddress"), Str(4, "serviceId")>>
SupplierParams == <<Msg(1, "minStake", base!Coin), Msg(2, "stakingFee", base!Coin)>>
SupplierGenesisState ==
  <<Msg(1, "params", SupplierParams), CamelKey(Many(Msg(2, "supplierList", shared!Supplier)))>>
SupplierModule == <<Str(1, "authority")>>
SupplierQueryParams == [request |-> <<>>, response |-> <<Msg(1, "params", SupplierParams)>>]
QueryGetSupplier ==
  [request  |-> <<Str(1, "operatorAddress"), Bln(2, "dehydrated")>>,
   response |-> <<Msg(1, "supplier", shared!Supplier)>>]
QueryAllSuppliers ==
  [request  |-> <<Msg(1, "pagination", base!PageRequest), Str(2, "serviceId"),
                Str(3, "operatorAddress"), Str(4, "ownerAddress"), Bln(5, "dehydrated")>>,
   response |-> <<Many(Msg(1, "supplier", shared!Supplier)),
                Msg(2, "pagination", base!PageResponse)>>]
SupplierMsgUpdateParams ==
  [request  |-> <<Str(1, "authority"), Msg(2, "params", SupplierParams)>>,
   response |-> <<>>]
MsgStakeSupplier ==
  [request  |-> <<Str(1, "signer"), Str(2, "ownerAddress"), Str(3, "operatorAddress"),
                Msg(4, "stake", base!Coin),
                Many(Msg(5, "services", shared!SupplierServiceConfig))>>,
   response |-> <<>>]
MsgUnstakeSupplier ==
  [request  |-> <<Str(1, "signer"), Str(2, "operatorAddress")>>,
   response |-> <<>>]
SupplierMsgUpdateParam ==
  [request  |-> <<Str(1, "authority"), Str(2, "name"), Msg(3, "asCoin", base!Coin)>>,
   response |-> <<>>]
=============================================================================
