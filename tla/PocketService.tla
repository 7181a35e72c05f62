--------------------------- MODULE PocketService ----------------------------
(***************************************************************************)
(* The messages of pocket.service, as their generated codecs in            *)
(* src/src/client/pocket/service have them (see Schema).                   *)
(***************************************************************************)
EXTENDS Schema

base == INSTANCE BaseTypes
session == INSTANCE PocketSession
shared == INSTANCE PocketShared

EventRelayMiningDifficultyUpdated ==
  <<Str(1, "serviceId"), Str(2, "prevTargetHashHexEncoded"), Str(3, "newTargetHashHexEncoded"),
    U64(4, "prevNumRelaysEma"), U64(5, "newNumRelaysEma")>>
Params == <<Msg(1, "addServiceFee", base!Coin), U64(2, "targetNumRelays")>>
RelayMiningDifficulty ==
  <<Str(1, "serviceId"), I64(2, "blockHeight"), U64(3, "numRelaysEma"), Byt(4, "targetHash")>>
GenesisState ==
  <<Msg(1, "params", Params), Many(Msg(2, "serviceList", shared!Service)),
    CamelKey(Many(Msg(3, "relayMiningDifficultyList", RelayMiningDifficulty)))>>
Module == <<Str(1, "authority")>>
QueryParams == [request |-> <<>>, response |-> <<Msg(1, "params", Params)>>]
QueryGetService ==
  [request  |-> <<Str(1, "id"), Bln(2, "dehydrated")>>,
   response |-> <<Msg(1, "service", shared!Service)>>]
QueryAllServices ==
  [request  |-> <<Msg(1, "pagination", base!PageRequest), Bln(2, "dehydrated")>>,
   response |-> <<Many(Msg(1, "service", shared!Service)),
                Msg(2, "pagination", base!PageResponse)>>]
QueryGetRelayMiningDifficulty ==
  [request  |-> <<CamelKey(Str(1, "serviceId"))>>,
   response |-> <<CamelKey(Msg(1, "relayMiningDifficulty", RelayMiningDifficulty))>>]
QueryAllRelayMiningDifficulty ==
  [request  |-> <<Msg(1, "pagination", base!PageRequest)>>,
   response |-> <<CamelKey(Many(Msg(1, "relayMiningDifficulty", RelayMiningDifficulty))),
                Msg(2, "pagination", base!PageResponse)>>]
QueryGetRelayMiningDifficultyAtHeightRequest ==
  <<CamelKey(Str(1, "serviceId")), CamelKey(I64(2, "blockHeight"))>>
RelayMiningDifficultyUpdate ==
  <<I64(1, "effectiveHeight"), Msg(2, "difficulty", RelayMiningDifficulty)>>
QueryRelayMiningDifficultyHistory ==
  [request  |-> <<CamelKey(Str(1, "serviceId")), Msg(2, "pagination", base!PageRequest)>>,
   response |-> <<CamelKey(Many(Msg(1, "relayMiningDifficultyHistory", RelayMiningDifficultyUpdate))),
                Msg(2, "pagination", base!PageResponse)>>]
RelayRequestMetadata ==
  <<Msg(1, "sessionHeader", session!SessionHeader), Byt(2, "signature"),
    Str(3, "supplierOperatorAddress")>>
RelayRequest == <<Msg(1, "meta", RelayRequestMetadata), Byt(2, "payload")>>
RelayResponseMetadata ==
  <<Msg(1, "sessionHeader", session!SessionHeader), Byt(2, "supplierOperatorSignature")>>
RelayMinerError ==
  <<Str(1, "codespace"), U32(2, "code"), Str(3, "description"), Str(4, "message")>>
RelayResponse ==
  <<Msg(1, "meta", RelayResponseMetadata), Byt(2, "payload"), Byt(4, "payloadHash"),
    Msg(3, "relayMinerError", RelayMinerError)>>
Relay == <<Msg(1, "req", RelayRequest), Msg(2, "res", RelayResponse)>>
MsgUpdateParams ==
  [request  |-> <<Str(1, "authority"), Msg(2, "params", Params)>>,
   response |-> <<>>]
MsgUpdateParam ==
  [request  |-> <<Str(1, "authority"), Str(2, "name"), Msg(3, "asCoin", base!Coin),
                Opt(U64(4, "asUint64"))>>,
   response |-> <<>>]
MsgAddService ==
  [request  |-> <<Str(1, "ownerAddress"), Msg(2, "service", shared!Service)>>,
   response |-> <<>>]
=============================================================================
