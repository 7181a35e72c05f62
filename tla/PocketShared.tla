--------------------------- MODULE PocketShared -----------------------------
(***************************************************************************)
(* The messages of pocket.shared, as their generated codecs in             *)
(* src/src/client/pocket/shared have them (see Schema).                    *)
(***************************************************************************)
EXTENDS Schema

base == INSTANCE BaseTypes

ConfigOptions ==
  [UNKNOWN_CONFIG |-> 0, TIMEOUT |-> 1]

RPCType ==
  [UNKNOWN_RPC |-> 0, GRPC |-> 1, WEBSOCKET |-> 2, JSON_RPC |-> 3, REST |-> 4, COMET_BFT |-> 5]

Params ==
  <<U64(1, "numBlocksPerSession"), U64(2, "gracePeriodEndOffsetBlocks"),
    U64(3, "claimWindowOpenOffsetBlocks"), U64(4, "claimWindowCloseOffsetBlocks"),
    U64(5, "proofWindowOpenOffsetBlocks"), U64(6, "proofWindowCloseOffsetBlocks"),
    U64(7, "supplierUnbondingPeriodSessions"), U64(8, "applicationUnbondingPeriodSessions"),
    U64(9, "computeUnitsToTokensMultiplier"), U64(10, "gatewayUnbondingPeriodSessions"),
    U64(11, "computeUnitCostGranularity")>>
GenesisState == <<Msg(1, "params", Params)>>
Module == <<Str(1, "authority")>>
ParamsUpdate == <<I64(1, "effectiveHeight"), Msg(2, "params", Params)>>
QueryParams == [request |-> <<>>, response |-> <<Msg(1, "params", Params)>>]
Metadata == <<Byt(1, "experimentalApiSpecs")>>
Service ==
  <<Str(1, "id"), Str(2, "name"), U64(3, "computeUnitsPerRelay"), Str(4, "ownerAddress"),
    Msg(5, "metadata", Metadata)>>
ApplicationServiceConfig == <<Str(1, "serviceId")>>
ConfigOption == <<Enm(1, "key", ConfigOptions), Str(2, "value")>>
SupplierEndpoint ==
  <<Str(1, "url"), Enm(2, "rpcType", RPCType), Many(Msg(3, "configs", ConfigOption))>>
ServiceRevenueShare == <<Str(1, "address"), U64(3, "revSharePercentage")>>
SupplierServiceConfig ==
  <<Str(1, "serviceId"), Many(Msg(2, "endpoints", SupplierEndpoint)),
    Many(Msg(3, "revShare", ServiceRevenueShare))>>
ServiceConfigUpdate ==
  <<Str(1, "operatorAddress"), Msg(2, "service", SupplierServiceConfig),
    I64(3, "activationHeight"), I64(4, "deactivationHeight")>>
Supplier ==
  <<Str(1, "ownerAddress"), Str(2, "operatorAddress"), Msg(3, "stake", base!Coin),
    Many(Msg(4, "services", SupplierServiceConfig)), U64(5, "unstakeSessionEndHeight"),
    Many(Msg(6, "serviceConfigHistory", ServiceConfigUpdate))>>
MsgUpdateParams ==
  [request  |-> <<Str(1, "authority"), Msg(2, "params", Params)>>,
   response |-> <<>>]
MsgUpdateParam ==
  [request  |-> <<Str(1, "authority"), Str(2, "name"), Opt(Str(3, "asString")),
                Opt(U64(6, "asUint64")), Opt(Byt(7, "asBytes"))>>,
   response |-> <<>>]
=============================================================================
