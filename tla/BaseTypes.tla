----------------------------- MODULE BaseTypes ------------------------------
(***************************************************************************)
(* The messages of google.protobuf, cosmos.base and cometbft.crypto that   *)
(* the other packages are built from, as their generated codecs under      *)
(* src/src/client have them (see Schema).                                  *)
(***************************************************************************)
EXTENDS Schema

PublicKey == <<Opt(Byt(1, "ed25519")), Opt(Byt(2, "secp256k1")), Opt(Byt(3, "bls12381"))>>
Proof == <<I64(1, "total"), I64(2, "index"), Byt(3, "leafHash"), Many(Byt(4, "aunts"))>>
ValueOp == <<Byt(1, "key"), Msg(2, "proof", Proof)>>
DominoOp == <<Str(1, "key"), Str(2, "input"), Str(3, "output")>>
ProofOp == <<Str(1, "type"), Byt(2, "key"), Byt(3, "data")>>
ProofOps == <<Many(Msg(1, "ops", ProofOp))>>
App == <<U64(1, "protocol"), Str(2, "software")>>
Consensus == <<U64(1, "block"), U64(2, "app")>>
PageRequest ==
  <<Byt(1, "key"), U64(2, "offset"), U64(3, "limit"), Bln(4, "countTotal"), Bln(5, "reverse")>>
PageResponse == <<Byt(1, "nextKey"), U64(2, "total")>>
Coin == <<Str(1, "denom"), Str(2, "amount")>>
DecCoin == <<Str(1, "denom"), Str(2, "amount")>>
IntProto == <<Str(1, "int")>>
DecProto == <<Str(1, "dec")>>
Any == <<Str(1, "typeUrl"), Byt(2, "value")>>
Duration == <<I64(1, "seconds"), I32(2, "nanos")>>
Timestamp == <<I64(1, "seconds"), I32(2, "nanos")>>
DoubleValue == <<Dbl(1, "value")>>
FloatValue == <<Flt(1, "value")>>
Int64Value == <<I64(1, "value")>>
UInt64Value == <<U64(1, "value")>>
Int32Value == <<I32(1, "value")>>
UInt32Value == <<U32(1, "value")>>
BoolValue == <<Bln(1, "value")>>
StringValue == <<Str(1, "value")>>
BytesValue == <<Byt(1, "value")>>
=============================================================================
