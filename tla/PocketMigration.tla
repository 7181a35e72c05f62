-------------------------- MODULE PocketMigration ---------------------------
(***************************************************************************)
(* The messages of pocket.migration, as their generated codecs in          *)
(* src/src/client/pocket/migration have them (see Schema).                 *)
(***************************************************************************)
EXTENDS Schema

base == INSTANCE BaseTypes
shared == INSTANCE PocketShared
actors == INSTANCE PocketStaking

MorseSupplierClaimSignerType ==
  [MORSE_SUPPLIER_CLAIM_SIGNER_TYPE_UNSPECIFIED |-> 0,
    MORSE_SUPPLIER_CLAIM_SIGNER_TYPE_CUSTODIAL_SIGNED_BY_NODE_ADDR |-> 1,
    MORSE_SUPPLIER_CLAIM_SIGNER_TYPE_NON_CUSTODIAL_SIGNED_BY_NODE_ADDR |-> 2,
    MORSE_SUPPLIER_CLAIM_SIGNER_TYPE_NON_CUSTODIAL_SIGNED_BY_OWNER |-> 3]

EventImportMorseClaimableAccounts ==
  <<I64(1, "createdAtHeight"), Byt(2, "morseAccountStateHash"), U64(3, "numAccounts")>>
EventMorseAccountClaimed ==
  <<I64(1, "sessionEndHeight"), Str(3, "shannonDestAddress"), Str(4, "morseSrcAddress"),
    Str(5, "claimedBalance")>>
EventMorseApplicationClaimed ==
  <<I64(1, "sessionEndHeight"), Str(3, "morseSrcAddress"),
    Msg(5, "application", actors!Application), Str(6, "claimedBalance"),
    Str(7, "claimedApplicationStake")>>
EventMorseSupplierClaimed ==
  <<I64(1, "sessionEndHeight"), Str(9, "claimedBalance"), Str(8, "morseNodeAddress"),
    Str(6, "morseOutputAddress"), Enm(7, "claimSignerType", MorseSupplierClaimSignerType),
    Str(10, "claimedSupplierStake"), Msg(5, "supplier", shared!Supplier)>>
EventMorseAccountRecovered ==
  <<I64(1, "sessionEndHeight"), Str(5, "recoveredBalance"), Str(3, "shannonDestAddress"),
    Str(4, "morseSrcAddress")>>
EventMorseAccountRecoveredAdmin ==
  <<I64(1, "sessionEndHeight"), Str(2, "recoveredBalance"), Str(3, "shannonDestAddress"),
    Str(4, "morseSrcAddress"), Bln(5, "isAdminRecovery")>>
Params ==
  <<Bln(1, "waiveMorseClaimGasFees"), Bln(2, "allowMorseAccountImportOverwrite"),
    Bln(3, "morseAccountClaimingEnabled")>>
MorseClaimableAccount ==
  <<Str(1, "shannonDestAddress"), Str(2, "morseSrcAddress"),
    Msg(5, "unstakedBalance", base!Coin), Msg(6, "supplierStake", base!Coin),
    Msg(7, "applicationStake", base!Coin), I64(8, "claimedAtHeight"),
    Str(9, "morseOutputAddress"), Time(10, "unstakingTime")>>
GenesisState ==
  <<Msg(1, "params", Params),
    CamelKey(Many(Msg(2, "morseClaimableAccountList", MorseClaimableAccount)))>>
Module == <<Str(1, "authority")>>
MorseApplication ==
  <<Byt(1, "address"), Byt(2, "publicKey"), Bln(3, "jailed"), I32(4, "status"),
    Str(6, "stakedTokens"), Time(8, "unstakingTime")>>
MorseApplications == <<Many(Msg(1, "applications", MorseApplication))>>
MorseAuthAccount == <<Str(1, "type"), Byt(3, "value")>>
MorseAuth == <<Many(Msg(1, "accounts", MorseAuthAccount))>>
MorseValidator ==
  <<Byt(1, "address"), Byt(2, "publicKey"), Bln(3, "jailed"), I32(4, "status"),
    Str(7, "stakedTokens"), Time(8, "unstakingTime"), Byt(9, "outputAddress")>>
MorsePos == <<Many(Msg(1, "validators", MorseValidator))>>
MorseTendermintAppState ==
  <<Msg(1, "application", MorseApplications), Msg(2, "auth", MorseAuth),
    Msg(3, "pos", MorsePos)>>
MorseStateExport == <<Str(1, "appHash"), Msg(2, "appState", MorseTendermintAppState)>>
MorsePublicKey == <<Byt(2, "value")>>
MorseAccount ==
  <<Byt(1, "address"), Msg(2, "pubKey", MorsePublicKey), Many(Msg(3, "coins", base!Coin))>>
MorseModuleAccount == <<Msg(1, "baseAccount", MorseAccount), Str(2, "name")>>
MorseAccountState == <<Many(Msg(2, "accounts", MorseClaimableAccount))>>
QueryParams == [request |-> <<>>, response |-> <<Msg(1, "params", Params)>>]
QueryMorseClaimableAccount ==
  [request  |-> <<Str(1, "address")>>,
   response |-> <<CamelKey(Msg(1, "morseClaimableAccount", MorseClaimableAccount))>>]
QueryAllMorseClaimableAccount ==
  [request  |-> <<Msg(1, "pagination", base!PageRequest)>>,
   response |-> <<CamelKey(Many(Msg(1, "morseClaimableAccount", MorseClaimableAccount))),
                Msg(2, "pagination", base!PageResponse)>>]
MsgUpdateParams ==
  [request  |-> <<Str(1, "authority"), Msg(2, "params", Params)>>,
   response |-> <<>>]
MsgImportMorseClaimableAccounts ==
  [request  |-> <<Str(1, "authority"), Msg(2, "morseAccountState", MorseAccountState),
                Byt(3, "morseAccountStateHash")>>,
   response |-> <<>>]
MsgClaimMorseAccount ==
  [request  |-> <<Str(4, "shannonSigningAddress"), Str(1, "shannonDestAddress"),
                Byt(5, "morsePublicKey"), Byt(3, "morseSignature")>>,
   response |-> <<>>]
MsgClaimMorseApplication ==
  [request  |-> <<Str(5, "shannonSigningAddress"), Str(1, "shannonDestAddress"),
                Byt(6, "morsePublicKey"), Byt(3, "morseSignature"),
                Msg(4, "serviceConfig", shared!ApplicationServiceConfig)>>,
   response |-> <<>>]
MsgClaimMorseSupplier ==
  <<Str(6, "shannonSigningAddress"), Str(1, "shannonOwnerAddress"),
    Str(2, "shannonOperatorAddress"), Str(3, "morseNodeAddress"), Byt(7, "morsePublicKey"),
    Byt(4, "morseSignature"), Bln(8, "signerIsOutputAddress"),
    Many(Msg(5, "services", shared!SupplierServiceConfig))>>
MsgClaimMorseSupplierResponse == <<>>
MsgRecoverMorseAccount ==
  [request  |-> <<Str(1, "authority"), Str(2, "shannonDestAddress"), Str(3, "morseSrcAddress")>>,
   response |-> <<>>]
MsgAdminRecoverMorseAccount ==
  [request  |-> <<Str(1, "authority"), Str(2, "shannonDestAddress"), Str(3, "morseSrcAddress")>>,
   response |-> <<>>]
=============================================================================
