-------------------------- MODULE CosmosAccounts ----------------------------
(***************************************************************************)
(* The messages of cosmos.auth, cosmos.authz and cosmos.bank, as their     *)
(* generated codecs under src/src/client/cosmos have them (see Schema).    *)
(* A name two of them use is preceded by the package.                      *)
(***************************************************************************)
EXTENDS Schema

base == INSTANCE BaseTypes

ModuleAccountPermission == <<Str(1, "account"), Many(Str(2, "permissions"))>>
AuthModule ==
  <<Str(1, "bech32Prefix"), Many(Msg(2, "moduleAccountPermissions", ModuleAccountPermission)),
    Str(3, "authority"), Bln(4, "enableUnorderedTransactions")>>
BaseAccount ==
  <<Str(1, "address"), Msg(2, "pubKey", base!Any), U64(3, "accountNumber"), U64(4, "sequence")>>
ModuleAccount ==
  <<Msg(1, "baseAccount", BaseAccount), Str(2, "name"), Many(Str(3, "permissions"))>>
ModuleCredential == <<Str(1, "moduleName"), Many(Byt(2, "derivationKeys"))>>
AuthParams ==
  <<U64(1, "maxMemoCharacters"), U64(2, "txSigLimit"), U64(3, "txSizeCostPerByte"),
    U64(4, "sigVerifyCostEd25519"), U64(5, "sigVerifyCostSecp256k1")>>
AuthGenesisState == <<Msg(1, "params", AuthParams), Many(Msg(2, "accounts", base!Any))>>
QueryAccounts ==
  [request  |-> <<Msg(1, "pagination", base!PageRequest)>>,
   response |-> <<Many(Msg(1, "accounts", base!Any)), Msg(2, "pagination", base!PageResponse)>>]
QueryAccount == [request |-> <<Str(1, "address")>>, response |-> <<Msg(1, "account", base!Any)>>]
AuthQueryParams == [request |-> <<>>, response |-> <<Msg(1, "params", AuthParams)>>]
QueryModuleAccounts == [request |-> <<>>, response |-> <<Many(Msg(1, "accounts", base!Any))>>]
QueryModuleAccountByName ==
  [request  |-> <<Str(1, "name")>>,
   response |-> <<Msg(1, "account", base!Any)>>]
Bech32Prefix == [request |-> <<>>, response |-> <<Str(1, "bech32Prefix")>>]
AddressBytesToString ==
  [request  |-> <<Byt(1, "addressBytes")>>,
   response |-> <<Str(1, "addressString")>>]
AddressStringToBytes ==
  [request  |-> <<Str(1, "addressString")>>,
   response |-> <<Byt(1, "addressBytes")>>]
QueryAccountAddressByID ==
  [request  |-> <<I64(1, "id"), U64(2, "accountId")>>,
   response |-> <<Str(1, "accountAddress")>>]
QueryAccountInfo ==
  [request  |-> <<Str(1, "address")>>,
   response |-> <<Msg(1, "info", BaseAccount)>>]
AuthMsgUpdateParams ==
  [request  |-> <<Str(1, "authority"), Msg(2, "params", AuthParams)>>,
   response |-> <<>>]
AuthzModule == <<>>
GenericAuthorization == <<Str(1, "msg")>>
Grant == <<Msg(1, "authorization", base!Any), Time(2, "expiration")>>
GrantAuthorization ==
  <<Str(1, "granter"), Str(2, "grantee"), Msg(3, "authorization", base!Any),
    Time(4, "expiration")>>
GrantQueueItem == <<Many(Str(1, "msgTypeUrls"))>>
EventGrant == <<Str(2, "msgTypeUrl"), Str(3, "granter"), Str(4, "grantee")>>
EventRevoke == <<Str(2, "msgTypeUrl"), Str(3, "granter"), Str(4, "grantee")>>
AuthzGenesisState == <<Many(Msg(1, "authorization", GrantAuthorization))>>
QueryGrants ==
  [request  |-> <<Str(1, "granter"), Str(2, "grantee"), Str(3, "msgTypeUrl"),
                Msg(4, "pagination", base!PageRequest)>>,
   response |-> <<Many(Msg(1, "grants", Grant)), Msg(2, "pagination", base!PageResponse)>>]
QueryGranterGrants ==
  [request  |-> <<Str(1, "granter"), Msg(2, "pagination", base!PageRequest)>>,
   response |-> <<Many(Msg(1, "grants", GrantAuthorization)),
                Msg(2, "pagination", base!PageResponse)>>]
QueryGranteeGrants ==
  [request  |-> <<Str(1, "grantee"), Msg(2, "pagination", base!PageRequest)>>,
   response |-> <<Many(Msg(1, "grants", GrantAuthorization)),
                Msg(2, "pagination", base!PageResponse)>>]
MsgGrant ==
  [request  |-> <<Str(1, "granter"), Str(2, "grantee"), Msg(3, "grant", Grant)>>,
   response |-> <<>>]
MsgExec ==
  [request  |-> <<Str(1, "grantee"), Many(Msg(2, "msgs", base!Any))>>,
   response |-> <<Many(Byt(1, "results"))>>]
MsgRevoke ==
  [request  |-> <<Str(1, "granter"), Str(2, "grantee"), Str(3, "msgTypeUrl")>>,
   response |-> <<>>]
BankModule ==
  <<Many(Str(1, "blockedModuleAccountsOverride")), Str(2, "authority"),
    Many(Str(3, "restrictionsOrder"))>>
SendAuthorization == <<Many(Msg(1, "spendLimit", base!Coin)), Many(Str(2, "allowList"))>>
SendEnabled == <<Str(1, "denom"), Bln(2, "enabled")>>
BankParams == <<Many(Msg(1, "sendEnabled", SendEnabled)), Bln(2, "defaultSendEnabled")>>
Input == <<Str(1, "address"), Many(Msg(2, "coins", base!Coin))>>
Output == <<Str(1, "address"), Many(Msg(2, "coins", base!Coin))>>
Supply == <<Many(Msg(1, "total", base!Coin))>>
DenomUnit == <<Str(1, "denom"), U32(2, "exponent"), Many(Str(3, "aliases"))>>
Metadata ==
  <<Str(1, "description"), Many(Msg(2, "denomUnits", DenomUnit)), Str(3, "base"),
    Str(4, "display"), Str(5, "name"), Str(6, "symbol"), Str(7, "uri"), Str(8, "uriHash")>>
Balance == <<Str(1, "address"), Many(Msg(2, "coins", base!Coin))>>
BankGenesisState ==
  <<Msg(1, "params", BankParams), Many(Msg(2, "balances", Balance)),
    Many(Msg(3, "supply", base!Coin)), Many(Msg(4, "denomMetadata", Metadata)),
    Many(Msg(5, "sendEnabled", SendEnabled))>>
QueryBalance ==
  [request  |-> <<Str(1, "address"), Str(2, "denom")>>,
   response |-> <<Msg(1, "balance", base!Coin)>>]
QueryAllBalances ==
  [request  |-> <<Str(1, "address"), Msg(2, "pagination", base!PageRequest),
                Bln(3, "resolveDenom")>>,
   response |-> <<Many(Msg(1, "balances", base!Coin)), Msg(2, "pagination", base!PageResponse)>>]
QuerySpendableBalances ==
  [request  |-> <<Str(1, "address"), Msg(2, "pagination", base!PageRequest)>>,
   response |-> <<Many(Msg(1, "balances", base!Coin)), Msg(2, "pagination", base!PageResponse)>>]
QuerySpendableBalanceByDenom ==
  [request  |-> <<Str(1, "address"), Str(2, "denom")>>,
   response |-> <<Msg(1, "balance", base!Coin)>>]
QueryTotalSupply ==
  [request  |-> <<Msg(1, "pagination", base!PageRequest)>>,
   response |-> <<Many(Msg(1, "supply", base!Coin)), Msg(2, "pagination", base!PageResponse)>>]
QuerySupplyOf == [request |-> <<Str(1, "denom")>>, response |-> <<Msg(1, "amount", base!Coin)>>]
BankQueryParams == [request |-> <<>>, response |-> <<Msg(1, "params", BankParams)>>]
QueryDenomsMetadata ==
  [request  |-> <<Msg(1, "pagination", base!PageRequest)>>,
   response |-> <<Many(Msg(1, "metadatas", Metadata)), Msg(2, "pagination", base!PageResponse)>>]
QueryDenomMetadata ==
  [request  |-> <<Str(1, "denom")>>,
   response |-> <<Msg(1, "metadata", Metadata)>>]
QueryDenomMetadataByQueryString ==
  [request  |-> <<Str(1, "denom")>>,
   response |-> <<Msg(1, "metadata", Metadata)>>]
QueryDenomOwnersRequest == <<Str(1, "denom"), Msg(2, "pagination", base!PageRequest)>>
DenomOwner == <<Str(1, "address"), Msg(2, "balance", base!Coin)>>
QueryDenomOwnersResponse ==
  <<Many(Msg(1, "denomOwners", DenomOwner)), Msg(2, "pagination", base!PageResponse)>>
QueryDenomOwnersByQuery ==
  [request  |-> <<Str(1, "denom"), Msg(2, "pagination", base!PageRequest)>>,
   response |-> <<Many(Msg(1, "denomOwners", DenomOwner)),
                Msg(2, "pagination", base!PageResponse)>>]
QuerySendEnabled ==
  [request  |-> <<Many(Str(1, "denoms")), Msg(99, "pagination", base!PageRequest)>>,
   response |-> <<Many(Msg(1, "sendEnabled", SendEnabled)),
                Msg(99, "pagination", base!PageResponse)>>]
MsgSend ==
  [request  |-> <<Str(1, "fromAddress"), Str(2, "toAddress"), Many(Msg(3, "amount", base!Coin))>>,
   response |-> <<>>]
MsgMultiSend ==
  [request  |-> <<Many(Msg(1, "inputs", Input)), Many(Msg(2, "outputs", Output))>>,
   response |-> <<>>]
BankMsgUpdateParams ==
  [request  |-> <<Str(1, "authority"), Msg(2, "params", BankParams)>>,
   response |-> <<>>]
MsgSetSendEnabled ==
  [request  |-> <<Str(1, "authority"), Many(Msg(2, "sendEnabled", SendEnabled)),
                Many(Str(3, "useDefaultFor"))>>,
   response |-> <<>>]
=============================================================================
