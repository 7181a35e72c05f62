--------------------------- MODULE PocketSession ----------------------------
(***************************************************************************)
(* The messages of pocket.session, as their generated codecs in            *)
(* src/src/client/pocket/session have them (see Schema).                   *)
(***************************************************************************)
EXTENDS Schema

shared == INSTANCE PocketShared
actors == INSTANCE PocketStaking

Params == <<U64(3, "numSuppliersPerSession")>>
GenesisState == <<Msg(1, "params", Params)>>
Module == <<Str(1, "authority")>>
ParamsUpdate == <<I64(1, "effectiveHeight"), Msg(2, "params", Params)>>
QueryParams == [request |-> <<>>, response |-> <<Msg(1, "params", Params)>>]
SessionHeader ==
  <<Str(1, "applicationAddress"), Str(2, "serviceId"), Str(3, "sessionId"),
    I64(4, "sessionStartBlockHeight"), I64(5, "sessionEndBlockHeight")>>
Session ==
  <<Msg(1, "header", SessionHeader), Str(2, "sessionId"), I64(3, "sessionNumber"),
    I64(4, "numBlocksPerSession"), Msg(5, "application", actors!Application),
    Many(Msg(6, "suppliers", shared!Supplier))>>
QueryGetSession ==
  [request  |-> <<Str(1, "applicationAddress"), Str(2, "serviceId"), I64(3, "blockHeight")>>,
   response |-> <<Msg(1, "session", Session)>>]
MsgUpdateParams ==
  [request  |-> <<Str(1, "authority"), Msg(2, "params", Params)>>,
   response |-> <<>>]
MsgUpdateParam ==
  [request  |-> <<Str(1, "authority"), Str(2, "name"), Opt(U64(3, "asUint64"))>>,
   response |-> <<>>]
=============================================================================
