----------------------------- MODULE CosmosTx -------------------------------
(***************************************************************************)
(* The messages about transactions, blocks and nodes of cosmos.tx,         *)
(* cosmos.base, cosmos.crypto and cometbft.p2p, as their generated codecs  *)
(* under src/src/client have them (see Schema).  A signature that is made  *)
(* of signatures is followed one level deep (Inner...).  A name two of     *)
(* them use is preceded by the package.                                    *)
(***************************************************************************)
EXTENDS Schema

base == INSTANCE BaseTypes
abci == INSTANCE CometAbci
types == INSTANCE CometTypes

BroadcastMode ==
  [BROADCAST_MODE_UNSPECIFIED |-> 0, BROADCAST_MODE_BLOCK |-> 1, BROADCAST_MODE_SYNC |-> 2,
    BROADCAST_MODE_ASYNC |-> 3]

OrderBy ==
  [ORDER_BY_UNSPECIFIED |-> 0, ORDER_BY_ASC |-> 1, ORDER_BY_DESC |-> 2]

SignMode ==
  [SIGN_MODE_UNSPECIFIED |-> 0, SIGN_MODE_DIRECT |-> 1, SIGN_MODE_TEXTUAL |-> 2,
    SIGN_MODE_DIRECT_AUX |-> 3, SIGN_MODE_LEGACY_AMINO_JSON |-> 127, SIGN_MODE_EIP_191 |-> 191]

PacketPing == <<>>
PacketPong == <<>>
PacketMsg == <<I32(1, "channelId"), Bln(2, "eof"), Byt(3, "data")>>
Packet ==
  <<Msg(1, "packetPing", PacketPing), Msg(2, "packetPong", PacketPong),
    Msg(3, "packetMsg", PacketMsg)>>
AuthSigMessage == <<Msg(1, "pubKey", base!PublicKey), Byt(2, "sig")>>
PexRequest == <<>>
NetAddress == <<Str(1, "id"), Str(2, "ip"), U32(3, "port")>>
PexAddrs == <<Many(Msg(1, "addrs", NetAddress))>>
Message == <<Msg(1, "pexRequest", PexRequest), Msg(2, "pexAddrs", PexAddrs)>>
ProtocolVersion == <<U64(1, "p2p"), U64(2, "block"), U64(3, "app")>>
DefaultNodeInfoOther == <<Str(1, "txIndex"), Str(2, "rpcAddress")>>
DefaultNodeInfo ==
  <<Msg(1, "protocolVersion", ProtocolVersion), Str(2, "defaultNodeId"), Str(3, "listenAddr"),
    Str(4, "network"), Str(5, "version"), Byt(6, "channels"), Str(7, "moniker"),
    Msg(8, "other", DefaultNodeInfoOther)>>
Attribute == <<Str(1, "key"), Str(2, "value")>>
StringEvent == <<Str(1, "type"), Many(Msg(2, "attributes", Attribute))>>
ABCIMessageLog == <<U32(1, "msgIndex"), Str(2, "log"), Many(Msg(3, "events", StringEvent))>>
TxResponse ==
  <<I64(1, "height"), Str(2, "txhash"), Str(3, "codespace"), U32(4, "code"), Str(5, "data"),
    Str(6, "rawLog"), Many(Msg(7, "logs", ABCIMessageLog)), Str(8, "info"), I64(9, "gasWanted"),
    I64(10, "gasUsed"), Msg(11, "tx", base!Any), Str(12, "timestamp"),
    Many(Msg(13, "events", abci!Event))>>
GasInfo == <<U64(1, "gasWanted"), U64(2, "gasUsed")>>
Result ==
  <<Byt(1, "data"), Str(2, "log"), Many(Msg(3, "events", abci!Event)),
    Many(Msg(4, "msgResponses", base!Any))>>
SimulationResponse == <<Msg(1, "gasInfo", GasInfo), Msg(2, "result", Result)>>
MsgData == <<Str(1, "msgType"), Byt(2, "data")>>
TxMsgData == <<Many(Msg(1, "data", MsgData)), Many(Msg(2, "msgResponses", base!Any))>>
SearchTxsResult ==
  <<U64(1, "totalCount"), U64(2, "count"), U64(3, "pageNumber"), U64(4, "pageTotal"),
    U64(5, "limit"), Many(Msg(6, "txs", TxResponse))>>
SearchBlocksResult ==
  <<I64(1, "totalCount"), I64(2, "count"), I64(3, "pageNumber"), I64(4, "pageTotal"),
    I64(5, "limit"), Many(Msg(6, "blocks", types!Block))>>
ConfigCall ==
  [request  |-> <<>>,
   response |-> <<Str(1, "minimumGasPrice"), Str(2, "pruningKeepRecent"),
                Str(3, "pruningInterval"), U64(4, "haltHeight")>>]
Status ==
  [request  |-> <<>>,
   response |-> <<U64(1, "earliestStoreHeight"), U64(2, "height"), Time(3, "timestamp"),
                Byt(4, "appHash"), Byt(5, "validatorHash")>>]
Validator ==
  <<Str(1, "address"), Msg(2, "pubKey", base!Any), I64(3, "votingPower"),
    I64(4, "proposerPriority")>>
GetValidatorSetByHeight ==
  [request  |-> <<I64(1, "height"), Msg(2, "pagination", base!PageRequest)>>,
   response |-> <<I64(1, "blockHeight"), Many(Msg(2, "validators", Validator)),
                Msg(3, "pagination", base!PageResponse)>>]
GetLatestValidatorSet ==
  [request  |-> <<Msg(1, "pagination", base!PageRequest)>>,
   response |-> <<I64(1, "blockHeight"), Many(Msg(2, "validators", Validator)),
                Msg(3, "pagination", base!PageResponse)>>]
Header ==
  <<Msg(1, "version", base!Consensus), Str(2, "chainId"), I64(3, "height"), Time(4, "time"),
    Msg(5, "lastBlockId", types!BlockID), Byt(6, "lastCommitHash"), Byt(7, "dataHash"),
    Byt(8, "validatorsHash"), Byt(9, "nextValidatorsHash"), Byt(10, "consensusHash"),
    Byt(11, "appHash"), Byt(12, "lastResultsHash"), Byt(13, "evidenceHash"),
    Str(14, "proposerAddress")>>
Block ==
  <<Msg(1, "header", Header), Msg(2, "data", types!Data), Msg(3, "evidence", types!EvidenceList),
    Msg(4, "lastCommit", types!Commit)>>
GetBlockByHeight ==
  [request  |-> <<I64(1, "height")>>,
   response |-> <<Msg(1, "blockId", types!BlockID), Msg(2, "block", types!Block),
                Msg(3, "sdkBlock", Block)>>]
GetLatestBlock ==
  [request  |-> <<>>,
   response |-> <<Msg(1, "blockId", types!BlockID), Msg(2, "block", types!Block),
                Msg(3, "sdkBlock", Block)>>]
GetSyncing == [request |-> <<>>, response |-> <<Bln(1, "syncing")>>]
Module == <<Str(1, "path"), Str(2, "version"), Str(3, "sum")>>
VersionInfo ==
  <<Str(1, "name"), Str(2, "appName"), Str(3, "version"), Str(4, "gitCommit"),
    Str(5, "buildTags"), Str(6, "goVersion"), Many(Msg(7, "buildDeps", Module)),
    Str(8, "cosmosSdkVersion")>>
GetNodeInfo ==
  [request  |-> <<>>,
   response |-> <<Msg(1, "defaultNodeInfo", DefaultNodeInfo),
                Msg(2, "applicationVersion", VersionInfo)>>]
ABCIQueryRequest == <<Byt(1, "data"), Str(2, "path"), I64(3, "height"), Bln(4, "prove")>>
ProofOp == <<Str(1, "type"), Byt(2, "key"), Byt(3, "data")>>
ProofOps == <<Many(Msg(1, "ops", ProofOp))>>
ABCIQueryResponse ==
  <<U32(1, "code"), Str(3, "log"), Str(4, "info"), I64(5, "index"), Byt(6, "key"),
    Byt(7, "value"), Msg(8, "proofOps", ProofOps), I64(9, "height"), Str(10, "codespace")>>
Ed25519PubKey == <<Byt(1, "key")>>
Ed25519PrivKey == <<Byt(1, "key")>>
BIP44Params ==
  <<U32(1, "purpose"), U32(2, "coinType"), U32(3, "account"), Bln(4, "change"),
    U32(5, "addressIndex")>>
Record_Local == <<Msg(1, "privKey", base!Any)>>
Record_Ledger == <<Msg(1, "path", BIP44Params)>>
Record_Multi == <<>>
Record_Offline == <<>>
Record ==
  <<Str(1, "name"), Msg(2, "pubKey", base!Any), Msg(3, "local", Record_Local),
    Msg(4, "ledger", Record_Ledger), Msg(5, "multi", Record_Multi),
    Msg(6, "offline", Record_Offline)>>
LegacyAminoPubKey == <<U32(1, "threshold"), Many(Msg(2, "publicKeys", base!Any))>>
MultiSignature == <<Many(Byt(1, "signatures"))>>
CompactBitArray == <<U32(1, "extraBitsStored"), Byt(2, "elems")>>
Secp256k1PubKey == <<Byt(1, "key")>>
Secp256k1PrivKey == <<Byt(1, "key")>>
Secp256r1PubKey == <<Byt(1, "key")>>
Secp256r1PrivKey == <<Byt(1, "secret")>>
Config == <<Bln(1, "skipAnteHandler"), Bln(2, "skipPostHandler")>>
SignatureDescriptor_Data_Single == <<Enm(1, "mode", SignMode), Byt(2, "signature")>>
InnerSignatureDescriptor_Data == <<Msg(1, "single", SignatureDescriptor_Data_Single)>>
SignatureDescriptor_Data_Multi ==
  <<Msg(1, "bitarray", CompactBitArray),
    Many(Msg(2, "signatures", InnerSignatureDescriptor_Data))>>
SignatureDescriptor_Data ==
  <<Msg(1, "single", SignatureDescriptor_Data_Single),
    Msg(2, "multi", SignatureDescriptor_Data_Multi)>>
SignatureDescriptor ==
  <<Msg(1, "publicKey", base!Any), Msg(2, "data", SignatureDescriptor_Data), U64(3, "sequence")>>
SignatureDescriptors == <<Many(Msg(1, "signatures", SignatureDescriptor))>>
GetTxsEventRequest ==
  <<Many(Str(1, "events")), Msg(2, "pagination", base!PageRequest), Enm(3, "orderBy", OrderBy),
    U64(4, "page"), U64(5, "limit"), Str(6, "query")>>
TxBody ==
  <<Many(Msg(1, "messages", base!Any)), Str(2, "memo"), U64(3, "timeoutHeight"),
    Bln(4, "unordered"), Time(5, "timeoutTimestamp"),
    Many(Msg(1023, "extensionOptions", base!Any)),
    Many(Msg(2047, "nonCriticalExtensionOptions", base!Any))>>
ModeInfo_Single == <<Enm(1, "mode", SignMode)>>
InnerModeInfo == <<Msg(1, "single", ModeInfo_Single)>>
ModeInfo_Multi ==
  <<Msg(1, "bitarray", CompactBitArray), Many(Msg(2, "modeInfos", InnerModeInfo))>>
ModeInfo == <<Msg(1, "single", ModeInfo_Single), Msg(2, "multi", ModeInfo_Multi)>>
SignerInfo == <<Msg(1, "publicKey", base!Any), Msg(2, "modeInfo", ModeInfo), U64(3, "sequence")>>
Fee ==
  <<Many(Msg(1, "amount", base!Coin)), U64(2, "gasLimit"), Str(3, "payer"), Str(4, "granter")>>
Tip == <<Many(Msg(1, "amount", base!Coin)), Str(2, "tipper")>>
AuthInfo == <<Many(Msg(1, "signerInfos", SignerInfo)), Msg(2, "fee", Fee), Msg(3, "tip", Tip)>>
Tx == <<Msg(1, "body", TxBody), Msg(2, "authInfo", AuthInfo), Many(Byt(3, "signatures"))>>
GetTxsEventResponse ==
  <<Many(Msg(1, "txs", Tx)), Many(Msg(2, "txResponses", TxResponse)),
    Msg(3, "pagination", base!PageResponse), U64(4, "total")>>
BroadcastTx ==
  [request  |-> <<Byt(1, "txBytes"), Enm(2, "mode", BroadcastMode)>>,
   response |-> <<Msg(1, "txResponse", TxResponse)>>]
Simulate ==
  [request  |-> <<Msg(1, "tx", Tx), Byt(2, "txBytes")>>,
   response |-> <<Msg(1, "gasInfo", GasInfo), Msg(2, "result", Result)>>]
GetTx ==
  [request  |-> <<Str(1, "hash")>>,
   response |-> <<Msg(1, "tx", Tx), Msg(2, "txResponse", TxResponse)>>]
GetBlockWithTxs ==
  [request  |-> <<I64(1, "height"), Msg(2, "pagination", base!PageRequest)>>,
   response |-> <<Many(Msg(1, "txs", Tx)), Msg(2, "blockId", types!BlockID),
                Msg(3, "block", types!Block), Msg(4, "pagination", base!PageResponse)>>]
TxDecode == [request |-> <<Byt(1, "txBytes")>>, response |-> <<Msg(1, "tx", Tx)>>]
TxEncode == [request |-> <<Msg(1, "tx", Tx)>>, response |-> <<Byt(1, "txBytes")>>]
TxEncodeAmino == [request |-> <<Str(1, "aminoJson")>>, response |-> <<Byt(1, "aminoBinary")>>]
TxDecodeAmino == [request |-> <<Byt(1, "aminoBinary")>>, response |-> <<Str(1, "aminoJson")>>]
TxRaw == <<Byt(1, "bodyBytes"), Byt(2, "authInfoBytes"), Many(Byt(3, "signatures"))>>
SignDoc ==
  <<Byt(1, "bodyBytes"), Byt(2, "authInfoBytes"), Str(3, "chainId"), U64(4, "accountNumber")>>
SignDocDirectAux ==
  <<Byt(1, "bodyBytes"), Msg(2, "publicKey", base!Any), Str(3, "chainId"),
    U64(4, "accountNumber"), U64(5, "sequence"), Msg(6, "tip", Tip)>>
AuxSignerData ==
  <<Str(1, "address"), Msg(2, "signDoc", SignDocDirectAux), Enm(3, "mode", SignMode),
    Byt(4, "sig")>>
=============================================================================
