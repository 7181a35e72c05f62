------------------------------ MODULE MCClients ------------------------------
(***************************************************************************)
(* The uses the indexer makes of the generated clients: reading messages   *)
(* and lists from a node (Rpc) and deriving Param rows from the messages   *)
(* of a block (ParamUpdates).  They share no state; a behaviour is one of  *)
(* them.  The catalogue is of the messages the check reads.                *)
(***************************************************************************)
EXTENDS Rpc, ParamUpdates

VARIABLE
  work   \* what the behaviour is about: "messages", "lists" or "params"

vars == <<rpcVars, paramVars, work>>

Init ==
  /\ work \in {"messages", "lists", "params"}
  /\ RpcInit /\ (work # "lists" => members = <<{}>>)
  /\ ParamsInit

Next ==
  /\ \/ work = "messages" /\ ReceiveAny /\ UNCHANGED paramVars
     \/ work = "lists" /\ ListNext /\ UNCHANGED paramVars
     \/ work = "params" /\ ParamsNext /\ UNCHANGED rpcVars
  /\ UNCHANGED work

Spec == Init /\ [][Next]_vars

-----------------------------------------------------------------------------
(* The catalogue *)

types == INSTANCE CometTypes
abci == INSTANCE CometAbci
accounts == INSTANCE CosmosAccounts
tx == INSTANCE CosmosTx
governance == INSTANCE CosmosGovernance

BaseTypesMessages ==
  [PublicKey |-> base!PublicKey, Proof |-> base!Proof, ValueOp |-> base!ValueOp,
    DominoOp |-> base!DominoOp, ProofOp |-> base!ProofOp, ProofOps |-> base!ProofOps,
    App |-> base!App, Consensus |-> base!Consensus, PageRequest |-> base!PageRequest,
    PageResponse |-> base!PageResponse, Coin |-> base!Coin, DecCoin |-> base!DecCoin,
    IntProto |-> base!IntProto, DecProto |-> base!DecProto, Any |-> base!Any,
    Duration |-> base!Duration, Timestamp |-> base!Timestamp, DoubleValue |-> base!DoubleValue,
    FloatValue |-> base!FloatValue, Int64Value |-> base!Int64Value,
    UInt64Value |-> base!UInt64Value, Int32Value |-> base!Int32Value,
    UInt32Value |-> base!UInt32Value, BoolValue |-> base!BoolValue,
    StringValue |-> base!StringValue, BytesValue |-> base!BytesValue]

CometTypesMessages ==
  [PartSetHeader |-> types!PartSetHeader, BlockID |-> types!BlockID, Header |-> types!Header,
    Data |-> types!Data, Vote |-> types!Vote,
    DuplicateVoteEvidence |-> types!DuplicateVoteEvidence, CommitSig |-> types!CommitSig,
    Commit |-> types!Commit, SignedHeader |-> types!SignedHeader, Validator |-> types!Validator,
    ValidatorSet |-> types!ValidatorSet, LightBlock |-> types!LightBlock,
    LightClientAttackEvidence |-> types!LightClientAttackEvidence, Evidence |-> types!Evidence,
    EvidenceList |-> types!EvidenceList, Block |-> types!Block,
    CanonicalPartSetHeader |-> types!CanonicalPartSetHeader,
    CanonicalBlockID |-> types!CanonicalBlockID, CanonicalProposal |-> types!CanonicalProposal,
    CanonicalVote |-> types!CanonicalVote,
    CanonicalVoteExtension |-> types!CanonicalVoteExtension,
    EventDataRoundState |-> types!EventDataRoundState, BlockParams |-> types!BlockParams,
    EvidenceParams |-> types!EvidenceParams, ValidatorParams |-> types!ValidatorParams,
    VersionParams |-> types!VersionParams, ABCIParams |-> types!ABCIParams,
    SynchronyParams |-> types!SynchronyParams, FeatureParams |-> types!FeatureParams,
    ConsensusParams |-> types!ConsensusParams, HashedParams |-> types!HashedParams,
    Part |-> types!Part, ExtendedCommitSig |-> types!ExtendedCommitSig,
    ExtendedCommit |-> types!ExtendedCommit, Proposal |-> types!Proposal,
    BlockMeta |-> types!BlockMeta, TxProof |-> types!TxProof,
    SimpleValidator |-> types!SimpleValidator]

CometAbciMessages ==
  [EchoRequest |-> abci!EchoRequest, FlushRequest |-> abci!FlushRequest,
    InfoRequest |-> abci!InfoRequest, ValidatorUpdate |-> abci!ValidatorUpdate,
    InitChainRequest |-> abci!InitChainRequest, QueryRequest |-> abci!QueryRequest,
    CheckTxRequest |-> abci!CheckTxRequest, CommitRequest |-> abci!CommitRequest,
    ListSnapshotsRequest |-> abci!ListSnapshotsRequest, Snapshot |-> abci!Snapshot,
    OfferSnapshotRequest |-> abci!OfferSnapshotRequest,
    LoadSnapshotChunkRequest |-> abci!LoadSnapshotChunkRequest,
    ApplySnapshotChunkRequest |-> abci!ApplySnapshotChunkRequest, Validator |-> abci!Validator,
    ExtendedVoteInfo |-> abci!ExtendedVoteInfo, ExtendedCommitInfo |-> abci!ExtendedCommitInfo,
    Misbehavior |-> abci!Misbehavior, PrepareProposalRequest |-> abci!PrepareProposalRequest,
    VoteInfo |-> abci!VoteInfo, CommitInfo |-> abci!CommitInfo,
    ProcessProposalRequest |-> abci!ProcessProposalRequest,
    ExtendVoteRequest |-> abci!ExtendVoteRequest,
    VerifyVoteExtensionRequest |-> abci!VerifyVoteExtensionRequest,
    FinalizeBlockRequest |-> abci!FinalizeBlockRequest, Request |-> abci!Request,
    ExceptionResponse |-> abci!ExceptionResponse, EchoResponse |-> abci!EchoResponse,
    FlushResponse |-> abci!FlushResponse,
    InfoResponse_LanePrioritiesEntry |-> abci!InfoResponse_LanePrioritiesEntry,
    InfoResponse |-> abci!InfoResponse, InitChainResponse |-> abci!InitChainResponse,
    QueryResponse |-> abci!QueryResponse, EventAttribute |-> abci!EventAttribute,
    Event |-> abci!Event, CheckTxResponse |-> abci!CheckTxResponse,
    CommitResponse |-> abci!CommitResponse, ListSnapshotsResponse |-> abci!ListSnapshotsResponse,
    OfferSnapshotResponse |-> abci!OfferSnapshotResponse,
    LoadSnapshotChunkResponse |-> abci!LoadSnapshotChunkResponse,
    ApplySnapshotChunkResponse |-> abci!ApplySnapshotChunkResponse,
    PrepareProposalResponse |-> abci!PrepareProposalResponse,
    ProcessProposalResponse |-> abci!ProcessProposalResponse,
    ExtendVoteResponse |-> abci!ExtendVoteResponse,
    VerifyVoteExtensionResponse |-> abci!VerifyVoteExtensionResponse,
    ExecTxResult |-> abci!ExecTxResult, FinalizeBlockResponse |-> abci!FinalizeBlockResponse,
    Response |-> abci!Response, TxResult |-> abci!TxResult]

CosmosAccountsMessages ==
  [ModuleAccountPermission |-> accounts!ModuleAccountPermission,
    AuthModule |-> accounts!AuthModule, BaseAccount |-> accounts!BaseAccount,
    ModuleAccount |-> accounts!ModuleAccount, ModuleCredential |-> accounts!ModuleCredential,
    AuthParams |-> accounts!AuthParams, AuthGenesisState |-> accounts!AuthGenesisState,
    QueryAccountsRequest |-> accounts!QueryAccounts.request,
    QueryAccountsResponse |-> accounts!QueryAccounts.response,
    QueryAccountRequest |-> accounts!QueryAccount.request,
    QueryAccountResponse |-> accounts!QueryAccount.response,
    AuthQueryParamsRequest |-> accounts!AuthQueryParams.request,
    AuthQueryParamsResponse |-> accounts!AuthQueryParams.response,
    QueryModuleAccountsRequest |-> accounts!QueryModuleAccounts.request,
    QueryModuleAccountsResponse |-> accounts!QueryModuleAccounts.response,
    QueryModuleAccountByNameRequest |-> accounts!QueryModuleAccountByName.request,
    QueryModuleAccountByNameResponse |-> accounts!QueryModuleAccountByName.response,
    Bech32PrefixRequest |-> accounts!Bech32Prefix.request,
    Bech32PrefixResponse |-> accounts!Bech32Prefix.response,
    AddressBytesToStringRequest |-> accounts!AddressBytesToString.request,
    AddressBytesToStringResponse |-> accounts!AddressBytesToString.response,
    AddressStringToBytesRequest |-> accounts!AddressStringToBytes.request,
    AddressStringToBytesResponse |-> accounts!AddressStringToBytes.response,
    QueryAccountAddressByIDRequest |-> accounts!QueryAccountAddressByID.request,
    QueryAccountAddressByIDResponse |-> accounts!QueryAccountAddressByID.response,
    QueryAccountInfoRequest |-> accounts!QueryAccountInfo.request,
    QueryAccountInfoResponse |-> accounts!QueryAccountInfo.response,
    AuthMsgUpdateParams |-> accounts!AuthMsgUpdateParams.request,
    AuthMsgUpdateParamsResponse |-> accounts!AuthMsgUpdateParams.response,
    AuthzModule |-> accounts!AuthzModule, GenericAuthorization |-> accounts!GenericAuthorization,
    Grant |-> accounts!Grant, GrantAuthorization |-> accounts!GrantAuthorization,
    GrantQueueItem |-> accounts!GrantQueueItem, EventGrant |-> accounts!EventGrant,
    EventRevoke |-> accounts!EventRevoke, AuthzGenesisState |-> accounts!AuthzGenesisState,
    QueryGrantsRequest |-> accounts!QueryGrants.request,
    QueryGrantsResponse |-> accounts!QueryGrants.response,
    QueryGranterGrantsRequest |-> accounts!QueryGranterGrants.request,
    QueryGranterGrantsResponse |-> accounts!QueryGranterGrants.response,
    QueryGranteeGrantsRequest |-> accounts!QueryGranteeGrants.request,
    QueryGranteeGrantsResponse |-> accounts!QueryGranteeGrants.response,
    MsgGrant |-> accounts!MsgGrant.request, MsgGrantResponse |-> accounts!MsgGrant.response,
    MsgExec |-> accounts!MsgExec.request, MsgExecResponse |-> accounts!MsgExec.response,
    MsgRevoke |-> accounts!MsgRevoke.request, MsgRevokeResponse |-> accounts!MsgRevoke.response,
    BankModule |-> accounts!BankModule, SendAuthorization |-> accounts!SendAuthorization,
    SendEnabled |-> accounts!SendEnabled, BankParams |-> accounts!BankParams,
    Input |-> accounts!Input, Output |-> accounts!Output, Supply |-> accounts!Supply,
    DenomUnit |-> accounts!DenomUnit, Metadata |-> accounts!Metadata,
    Balance |-> accounts!Balance, BankGenesisState |-> accounts!BankGenesisState,
    QueryBalanceRequest |-> accounts!QueryBalance.request,
    QueryBalanceResponse |-> accounts!QueryBalance.response,
    QueryAllBalancesRequest |-> accounts!QueryAllBalances.request,
    QueryAllBalancesResponse |-> accounts!QueryAllBalances.response,
    QuerySpendableBalancesRequest |-> accounts!QuerySpendableBalances.request,
    QuerySpendableBalancesResponse |-> accounts!QuerySpendableBalances.response,
    QuerySpendableBalanceByDenomRequest |-> accounts!QuerySpendableBalanceByDenom.request,
    QuerySpendableBalanceByDenomResponse |-> accounts!QuerySpendableBalanceByDenom.response,
    QueryTotalSupplyRequest |-> accounts!QueryTotalSupply.request,
    QueryTotalSupplyResponse |-> accounts!QueryTotalSupply.response,
    QuerySupplyOfRequest |-> accounts!QuerySupplyOf.request,
    QuerySupplyOfResponse |-> accounts!QuerySupplyOf.response,
    BankQueryParamsRequest |-> accounts!BankQueryParams.request,
    BankQueryParamsResponse |-> accounts!BankQueryParams.response,
    QueryDenomsMetadataRequest |-> accounts!QueryDenomsMetadata.request,
    QueryDenomsMetadataResponse |-> accounts!QueryDenomsMetadata.response,
    QueryDenomMetadataRequest |-> accounts!QueryDenomMetadata.request,
    QueryDenomMetadataResponse |-> accounts!QueryDenomMetadata.response,
    QueryDenomMetadataByQueryStringRequest |-> accounts!QueryDenomMetadataByQueryString.request,
    QueryDenomMetadataByQueryStringResponse |-> accounts!QueryDenomMetadataByQueryString.response,
    QueryDenomOwnersRequest |-> accounts!QueryDenomOwnersRequest,
    DenomOwner |-> accounts!DenomOwner,
    QueryDenomOwnersResponse |-> accounts!QueryDenomOwnersResponse,
    QueryDenomOwnersByQueryRequest |-> accounts!QueryDenomOwnersByQuery.request,
    QueryDenomOwnersByQueryResponse |-> accounts!QueryDenomOwnersByQuery.response,
    QuerySendEnabledRequest |-> accounts!QuerySendEnabled.request,
    QuerySendEnabledResponse |-> accounts!QuerySendEnabled.response,
    MsgSend |-> accounts!MsgSend.request, MsgSendResponse |-> accounts!MsgSend.response,
    MsgMultiSend |-> accounts!MsgMultiSend.request,
    MsgMultiSendResponse |-> accounts!MsgMultiSend.response,
    BankMsgUpdateParams |-> accounts!BankMsgUpdateParams.request,
    BankMsgUpdateParamsResponse |-> accounts!BankMsgUpdateParams.response,
    MsgSetSendEnabled |-> accounts!MsgSetSendEnabled.request,
    MsgSetSendEnabledResponse |-> accounts!MsgSetSendEnabled.response]

CosmosStakingMessages ==
  [Module |-> staking!Module,
    StakeAuthorization_Validators |-> staking!StakeAuthorization_Validators,
    StakeAuthorization |-> staking!StakeAuthorization, Params |-> staking!Params,
    LastValidatorPower |-> staking!LastValidatorPower, Description |-> staking!Description,
    CommissionRates |-> staking!CommissionRates, Commission |-> staking!Commission,
    Validator |-> staking!Validator, Delegation |-> staking!Delegation,
    UnbondingDelegationEntry |-> staking!UnbondingDelegationEntry,
    UnbondingDelegation |-> staking!UnbondingDelegation,
    RedelegationEntry |-> staking!RedelegationEntry, Redelegation |-> staking!Redelegation,
    GenesisState |-> staking!GenesisState,
    QueryValidatorsRequest |-> staking!QueryValidators.request,
    QueryValidatorsResponse |-> staking!QueryValidators.response,
    QueryValidatorRequest |-> staking!QueryValidator.request,
    QueryValidatorResponse |-> staking!QueryValidator.response,
    QueryValidatorDelegationsRequest |-> staking!QueryValidatorDelegations.request,
    DelegationResponse |-> staking!DelegationResponse,
    QueryValidatorDelegationsResponse |-> staking!QueryValidatorDelegations.response,
    QueryValidatorUnbondingDelegationsRequest |-> staking!QueryValidatorUnbondingDelegations.request,
    QueryValidatorUnbondingDelegationsResponse |-> staking!QueryValidatorUnbondingDelegations.response,
    QueryDelegationRequest |-> staking!QueryDelegation.request,
    QueryDelegationResponse |-> staking!QueryDelegation.response,
    QueryUnbondingDelegationRequest |-> staking!QueryUnbondingDelegation.request,
    QueryUnbondingDelegationResponse |-> staking!QueryUnbondingDelegation.response,
    QueryDelegatorDelegationsRequest |-> staking!QueryDelegatorDelegations.request,
    QueryDelegatorDelegationsResponse |-> staking!QueryDelegatorDelegations.response,
    QueryDelegatorUnbondingDelegationsRequest |-> staking!QueryDelegatorUnbondingDelegations.request,
    QueryDelegatorUnbondingDelegationsResponse |-> staking!QueryDelegatorUnbondingDelegations.response,
    QueryRedelegationsRequest |-> staking!QueryRedelegations.request,
    RedelegationEntryResponse |-> staking!RedelegationEntryResponse,
    RedelegationResponse |-> staking!RedelegationResponse,
    QueryRedelegationsResponse |-> staking!QueryRedelegations.response,
    QueryDelegatorValidatorsRequest |-> staking!QueryDelegatorValidators.request,
    QueryDelegatorValidatorsResponse |-> staking!QueryDelegatorValidators.response,
    QueryDelegatorValidatorRequest |-> staking!QueryDelegatorValidator.request,
    QueryDelegatorValidatorResponse |-> staking!QueryDelegatorValidator.response,
    QueryHistoricalInfoRequest |-> staking!QueryHistoricalInfo.request,
    HistoricalInfo |-> staking!HistoricalInfo,
    QueryHistoricalInfoResponse |-> staking!QueryHistoricalInfo.response,
    QueryPoolRequest |-> staking!QueryPool.request, Pool |-> staking!Pool,
    QueryPoolResponse |-> staking!QueryPool.response,
    QueryParamsRequest |-> staking!QueryParams.request,
    QueryParamsResponse |-> staking!QueryParams.response, ValAddresses |-> staking!ValAddresses,
    DVPair |-> staking!DVPair, DVPairs |-> staking!DVPairs, DVVTriplet |-> staking!DVVTriplet,
    DVVTriplets |-> staking!DVVTriplets, ValidatorUpdates |-> staking!ValidatorUpdates,
    MsgCreateValidator |-> staking!MsgCreateValidator.request,
    MsgCreateValidatorResponse |-> staking!MsgCreateValidator.response,
    MsgEditValidator |-> staking!MsgEditValidator.request,
    MsgEditValidatorResponse |-> staking!MsgEditValidator.response,
    MsgDelegate |-> staking!MsgDelegate.request,
    MsgDelegateResponse |-> staking!MsgDelegate.response,
    MsgBeginRedelegate |-> staking!MsgBeginRedelegate.request,
    MsgBeginRedelegateResponse |-> staking!MsgBeginRedelegate.response,
    MsgUndelegate |-> staking!MsgUndelegate.request,
    MsgUndelegateResponse |-> staking!MsgUndelegate.response,
    MsgCancelUnbondingDelegation |-> staking!MsgCancelUnbondingDelegation.request,
    MsgCancelUnbondingDelegationResponse |-> staking!MsgCancelUnbondingDelegation.response,
    MsgUpdateParams |-> staking!MsgUpdateParams.request,
    MsgUpdateParamsResponse |-> staking!MsgUpdateParams.response]

CosmosTxMessages ==
  [PacketPing |-> tx!PacketPing, PacketPong |-> tx!PacketPong, PacketMsg |-> tx!PacketMsg,
    Packet |-> tx!Packet, AuthSigMessage |-> tx!AuthSigMessage, PexRequest |-> tx!PexRequest,
    NetAddress |-> tx!NetAddress, PexAddrs |-> tx!PexAddrs, Message |-> tx!Message,
    ProtocolVersion |-> tx!ProtocolVersion, DefaultNodeInfoOther |-> tx!DefaultNodeInfoOther,
    DefaultNodeInfo |-> tx!DefaultNodeInfo, Attribute |-> tx!Attribute,
    StringEvent |-> tx!StringEvent, ABCIMessageLog |-> tx!ABCIMessageLog,
    TxResponse |-> tx!TxResponse, GasInfo |-> tx!GasInfo, Result |-> tx!Result,
    SimulationResponse |-> tx!SimulationResponse, MsgData |-> tx!MsgData,
    TxMsgData |-> tx!TxMsgData, SearchTxsResult |-> tx!SearchTxsResult,
    SearchBlocksResult |-> tx!SearchBlocksResult, ConfigRequest |-> tx!ConfigCall.request,
    ConfigResponse |-> tx!ConfigCall.response, StatusRequest |-> tx!Status.request,
    StatusResponse |-> tx!Status.response,
    GetValidatorSetByHeightRequest |-> tx!GetValidatorSetByHeight.request,
    Validator |-> tx!Validator,
    GetValidatorSetByHeightResponse |-> tx!GetValidatorSetByHeight.response,
    GetLatestValidatorSetRequest |-> tx!GetLatestValidatorSet.request,
    GetLatestValidatorSetResponse |-> tx!GetLatestValidatorSet.response,
    GetBlockByHeightRequest |-> tx!GetBlockByHeight.request, Header |-> tx!Header,
    Block |-> tx!Block, GetBlockByHeightResponse |-> tx!GetBlockByHeight.response,
    GetLatestBlockRequest |-> tx!GetLatestBlock.request,
    GetLatestBlockResponse |-> tx!GetLatestBlock.response,
    GetSyncingRequest |-> tx!GetSyncing.request, GetSyncingResponse |-> tx!GetSyncing.response,
    GetNodeInfoRequest |-> tx!GetNodeInfo.request, Module |-> tx!Module,
    VersionInfo |-> tx!VersionInfo, GetNodeInfoResponse |-> tx!GetNodeInfo.response,
    ABCIQueryRequest |-> tx!ABCIQueryRequest, ProofOp |-> tx!ProofOp, ProofOps |-> tx!ProofOps,
    ABCIQueryResponse |-> tx!ABCIQueryResponse, Ed25519PubKey |-> tx!Ed25519PubKey,
    Ed25519PrivKey |-> tx!Ed25519PrivKey, BIP44Params |-> tx!BIP44Params,
    Record_Local |-> tx!Record_Local, Record_Ledger |-> tx!Record_Ledger,
    Record_Multi |-> tx!Record_Multi, Record_Offline |-> tx!Record_Offline, Record |-> tx!Record,
    LegacyAminoPubKey |-> tx!LegacyAminoPubKey, MultiSignature |-> tx!MultiSignature,
    CompactBitArray |-> tx!CompactBitArray, Secp256k1PubKey |-> tx!Secp256k1PubKey,
    Secp256k1PrivKey |-> tx!Secp256k1PrivKey, Secp256r1PubKey |-> tx!Secp256r1PubKey,
    Secp256r1PrivKey |-> tx!Secp256r1PrivKey, Config |-> tx!Config,
    SignatureDescriptor_Data_Single |-> tx!SignatureDescriptor_Data_Single,
    SignatureDescriptor_Data_Multi |-> tx!SignatureDescriptor_Data_Multi,
    SignatureDescriptor_Data |-> tx!SignatureDescriptor_Data,
    SignatureDescriptor |-> tx!SignatureDescriptor,
    SignatureDescriptors |-> tx!SignatureDescriptors,
    GetTxsEventRequest |-> tx!GetTxsEventRequest, TxBody |-> tx!TxBody,
    ModeInfo_Single |-> tx!ModeInfo_Single, ModeInfo_Multi |-> tx!ModeInfo_Multi,
    ModeInfo |-> tx!ModeInfo, SignerInfo |-> tx!SignerInfo, Fee |-> tx!Fee, Tip |-> tx!Tip,
    AuthInfo |-> tx!AuthInfo, Tx |-> tx!Tx, GetTxsEventResponse |-> tx!GetTxsEventResponse,
    BroadcastTxRequest |-> tx!BroadcastTx.request,
    BroadcastTxResponse |-> tx!BroadcastTx.response, SimulateRequest |-> tx!Simulate.request,
    SimulateResponse |-> tx!Simulate.response, GetTxRequest |-> tx!GetTx.request,
    GetTxResponse |-> tx!GetTx.response, GetBlockWithTxsRequest |-> tx!GetBlockWithTxs.request,
    GetBlockWithTxsResponse |-> tx!GetBlockWithTxs.response,
    TxDecodeRequest |-> tx!TxDecode.request, TxDecodeResponse |-> tx!TxDecode.response,
    TxEncodeRequest |-> tx!TxEncode.request, TxEncodeResponse |-> tx!TxEncode.response,
    TxEncodeAminoRequest |-> tx!TxEncodeAmino.request,
    TxEncodeAminoResponse |-> tx!TxEncodeAmino.response,
    TxDecodeAminoRequest |-> tx!TxDecodeAmino.request,
    TxDecodeAminoResponse |-> tx!TxDecodeAmino.response, TxRaw |-> tx!TxRaw,
    SignDoc |-> tx!SignDoc, SignDocDirectAux |-> tx!SignDocDirectAux,
    AuxSignerData |-> tx!AuxSignerData]

CosmosGovernanceMessages ==
  [GovModuleModule |-> governance!GovModuleModule, GovV1Deposit |-> governance!GovV1Deposit,
    GovV1WeightedVoteOption |-> governance!GovV1WeightedVoteOption,
    GovV1Vote |-> governance!GovV1Vote, GovV1TallyResult |-> governance!GovV1TallyResult,
    GovV1Proposal |-> governance!GovV1Proposal,
    GovV1DepositParams |-> governance!GovV1DepositParams,
    GovV1VotingParams |-> governance!GovV1VotingParams,
    GovV1TallyParams |-> governance!GovV1TallyParams, Params |-> governance!Params,
    GovV1GenesisState |-> governance!GovV1GenesisState,
    QueryConstitutionRequest |-> governance!QueryConstitution.request,
    QueryConstitutionResponse |-> governance!QueryConstitution.response,
    GovV1QueryProposalRequest |-> governance!GovV1QueryProposal.request,
    GovV1QueryProposalResponse |-> governance!GovV1QueryProposal.response,
    GovV1QueryProposalsRequest |-> governance!GovV1QueryProposals.request,
    GovV1QueryProposalsResponse |-> governance!GovV1QueryProposals.response,
    GovV1QueryVoteRequest |-> governance!GovV1QueryVote.request,
    GovV1QueryVoteResponse |-> governance!GovV1QueryVote.response,
    GovV1QueryVotesRequest |-> governance!GovV1QueryVotes.request,
    GovV1QueryVotesResponse |-> governance!GovV1QueryVotes.response,
    GovV1QueryParamsRequest |-> governance!GovV1QueryParams.request,
    GovV1QueryParamsResponse |-> governance!GovV1QueryParams.response,
    GovV1QueryDepositRequest |-> governance!GovV1QueryDeposit.request,
    GovV1QueryDepositResponse |-> governance!GovV1QueryDeposit.response,
    GovV1QueryDepositsRequest |-> governance!GovV1QueryDeposits.request,
    GovV1QueryDepositsResponse |-> governance!GovV1QueryDeposits.response,
    GovV1QueryTallyResultRequest |-> governance!GovV1QueryTallyResult.request,
    GovV1QueryTallyResultResponse |-> governance!GovV1QueryTallyResult.response,
    GovV1MsgSubmitProposal |-> governance!GovV1MsgSubmitProposal.request,
    GovV1MsgSubmitProposalResponse |-> governance!GovV1MsgSubmitProposal.response,
    MsgExecLegacyContent |-> governance!MsgExecLegacyContent.request,
    MsgExecLegacyContentResponse |-> governance!MsgExecLegacyContent.response,
    GovV1MsgVote |-> governance!GovV1MsgVote.request,
    GovV1MsgVoteResponse |-> governance!GovV1MsgVote.response,
    GovV1MsgVoteWeighted |-> governance!GovV1MsgVoteWeighted.request,
    GovV1MsgVoteWeightedResponse |-> governance!GovV1MsgVoteWeighted.response,
    GovV1MsgDeposit |-> governance!GovV1MsgDeposit.request,
    GovV1MsgDepositResponse |-> governance!GovV1MsgDeposit.response,
    MsgUpdateParams |-> governance!MsgUpdateParams.request,
    MsgUpdateParamsResponse |-> governance!MsgUpdateParams.response,
    MsgCancelProposal |-> governance!MsgCancelProposal.request,
    MsgCancelProposalResponse |-> governance!MsgCancelProposal.response,
    GovV1beta1Deposit |-> governance!GovV1beta1Deposit,
    GovV1beta1WeightedVoteOption |-> governance!GovV1beta1WeightedVoteOption,
    GovV1beta1Vote |-> governance!GovV1beta1Vote,
    GovV1beta1TallyResult |-> governance!GovV1beta1TallyResult,
    GovV1beta1Proposal |-> governance!GovV1beta1Proposal,
    GovV1beta1DepositParams |-> governance!GovV1beta1DepositParams,
    GovV1beta1VotingParams |-> governance!GovV1beta1VotingParams,
    GovV1beta1TallyParams |-> governance!GovV1beta1TallyParams,
    GovV1beta1GenesisState |-> governance!GovV1beta1GenesisState,
    TextProposal |-> governance!TextProposal,
    GovV1beta1QueryProposalRequest |-> governance!GovV1beta1QueryProposal.request,
    GovV1beta1QueryProposalResponse |-> governance!GovV1beta1QueryProposal.response,
    GovV1beta1QueryProposalsRequest |-> governance!GovV1beta1QueryProposals.request,
    GovV1beta1QueryProposalsResponse |-> governance!GovV1beta1QueryProposals.response,
    GovV1beta1QueryVoteRequest |-> governance!GovV1beta1QueryVote.request,
    GovV1beta1QueryVoteResponse |-> governance!GovV1beta1QueryVote.response,
    GovV1beta1QueryVotesRequest |-> governance!GovV1beta1QueryVotes.request,
    GovV1beta1QueryVotesResponse |-> governance!GovV1beta1QueryVotes.response,
    GovV1beta1QueryParamsRequest |-> governance!GovV1beta1QueryParams.request,
    GovV1beta1QueryParamsResponse |-> governance!GovV1beta1QueryParams.response,
    GovV1beta1QueryDepositRequest |-> governance!GovV1beta1QueryDeposit.request,
    GovV1beta1QueryDepositResponse |-> governance!GovV1beta1QueryDeposit.response,
    GovV1beta1QueryDepositsRequest |-> governance!GovV1beta1QueryDeposits.request,
    GovV1beta1QueryDepositsResponse |-> governance!GovV1beta1QueryDeposits.response,
    GovV1beta1QueryTallyResultRequest |-> governance!GovV1beta1QueryTallyResult.request,
    GovV1beta1QueryTallyResultResponse |-> governance!GovV1beta1QueryTallyResult.response,
    GovV1beta1MsgSubmitProposal |-> governance!GovV1beta1MsgSubmitProposal.request,
    GovV1beta1MsgSubmitProposalResponse |-> governance!GovV1beta1MsgSubmitProposal.response,
    GovV1beta1MsgVote |-> governance!GovV1beta1MsgVote.request,
    GovV1beta1MsgVoteResponse |-> governance!GovV1beta1MsgVote.response,
    GovV1beta1MsgVoteWeighted |-> governance!GovV1beta1MsgVoteWeighted.request,
    GovV1beta1MsgVoteWeightedResponse |-> governance!GovV1beta1MsgVoteWeighted.response,
    GovV1beta1MsgDeposit |-> governance!GovV1beta1MsgDeposit.request,
    GovV1beta1MsgDepositResponse |-> governance!GovV1beta1MsgDeposit.response,
    GroupModule |-> governance!GroupModule, EventCreateGroup |-> governance!EventCreateGroup,
    EventUpdateGroup |-> governance!EventUpdateGroup,
    EventCreateGroupPolicy |-> governance!EventCreateGroupPolicy,
    EventUpdateGroupPolicy |-> governance!EventUpdateGroupPolicy,
    EventSubmitProposal |-> governance!EventSubmitProposal,
    EventWithdrawProposal |-> governance!EventWithdrawProposal,
    EventVote |-> governance!EventVote, EventExec |-> governance!EventExec,
    EventLeaveGroup |-> governance!EventLeaveGroup,
    GroupTallyResult |-> governance!GroupTallyResult,
    EventProposalPruned |-> governance!EventProposalPruned,
    EventTallyError |-> governance!EventTallyError, GroupInfo |-> governance!GroupInfo,
    Member |-> governance!Member, GroupMember |-> governance!GroupMember,
    GroupPolicyInfo |-> governance!GroupPolicyInfo, GroupProposal |-> governance!GroupProposal,
    GroupVote |-> governance!GroupVote, GroupGenesisState |-> governance!GroupGenesisState,
    QueryGroupInfoRequest |-> governance!QueryGroupInfo.request,
    QueryGroupInfoResponse |-> governance!QueryGroupInfo.response,
    QueryGroupPolicyInfoRequest |-> governance!QueryGroupPolicyInfo.request,
    QueryGroupPolicyInfoResponse |-> governance!QueryGroupPolicyInfo.response,
    QueryGroupMembersRequest |-> governance!QueryGroupMembers.request,
    QueryGroupMembersResponse |-> governance!QueryGroupMembers.response,
    QueryGroupsByAdminRequest |-> governance!QueryGroupsByAdmin.request,
    QueryGroupsByAdminResponse |-> governance!QueryGroupsByAdmin.response,
    QueryGroupPoliciesByGroupRequest |-> governance!QueryGroupPoliciesByGroup.request,
    QueryGroupPoliciesByGroupResponse |-> governance!QueryGroupPoliciesByGroup.response,
    QueryGroupPoliciesByAdminRequest |-> governance!QueryGroupPoliciesByAdmin.request,
    QueryGroupPoliciesByAdminResponse |-> governance!QueryGroupPoliciesByAdmin.response,
    GroupQueryProposalRequest |-> governance!GroupQueryProposal.request,
    GroupQueryProposalResponse |-> governance!GroupQueryProposal.response,
    QueryProposalsByGroupPolicyRequest |-> governance!QueryProposalsByGroupPolicy.request,
    QueryProposalsByGroupPolicyResponse |-> governance!QueryProposalsByGroupPolicy.response,
    QueryVoteByProposalVoterRequest |-> governance!QueryVoteByProposalVoter.request,
    QueryVoteByProposalVoterResponse |-> governance!QueryVoteByProposalVoter.response,
    QueryVotesByProposalRequest |-> governance!QueryVotesByProposal.request,
    QueryVotesByProposalResponse |-> governance!QueryVotesByProposal.response,
    QueryVotesByVoterRequest |-> governance!QueryVotesByVoter.request,
    QueryVotesByVoterResponse |-> governance!QueryVotesByVoter.response,
    QueryGroupsByMemberRequest |-> governance!QueryGroupsByMember.request,
    QueryGroupsByMemberResponse |-> governance!QueryGroupsByMember.response,
    GroupQueryTallyResultRequest |-> governance!GroupQueryTallyResult.request,
    GroupQueryTallyResultResponse |-> governance!GroupQueryTallyResult.response,
    QueryGroupsRequest |-> governance!QueryGroups.request,
    QueryGroupsResponse |-> governance!QueryGroups.response,
    MemberRequest |-> governance!MemberRequest,
    MsgCreateGroup |-> governance!MsgCreateGroup.request,
    MsgCreateGroupResponse |-> governance!MsgCreateGroup.response,
    MsgUpdateGroupMembers |-> governance!MsgUpdateGroupMembers.request,
    MsgUpdateGroupMembersResponse |-> governance!MsgUpdateGroupMembers.response,
    MsgUpdateGroupAdmin |-> governance!MsgUpdateGroupAdmin.request,
    MsgUpdateGroupAdminResponse |-> governance!MsgUpdateGroupAdmin.response,
    MsgUpdateGroupMetadata |-> governance!MsgUpdateGroupMetadata.request,
    MsgUpdateGroupMetadataResponse |-> governance!MsgUpdateGroupMetadata.response,
    MsgCreateGroupPolicy |-> governance!MsgCreateGroupPolicy.request,
    MsgCreateGroupPolicyResponse |-> governance!MsgCreateGroupPolicy.response,
    MsgUpdateGroupPolicyAdmin |-> governance!MsgUpdateGroupPolicyAdmin.request,
    MsgUpdateGroupPolicyAdminResponse |-> governance!MsgUpdateGroupPolicyAdmin.response,
    MsgCreateGroupWithPolicy |-> governance!MsgCreateGroupWithPolicy,
    MsgCreateGroupWithPolicyResponse |-> governance!MsgCreateGroupWithPolicyResponse,
    MsgUpdateGroupPolicyDecisionPolicy |-> governance!MsgUpdateGroupPolicyDecisionPolicy.request,
    MsgUpdateGroupPolicyDecisionPolicyResponse |-> governance!MsgUpdateGroupPolicyDecisionPolicy.response,
    MsgUpdateGroupPolicyMetadata |-> governance!MsgUpdateGroupPolicyMetadata.request,
    MsgUpdateGroupPolicyMetadataResponse |-> governance!MsgUpdateGroupPolicyMetadata.response,
    GroupMsgSubmitProposal |-> governance!GroupMsgSubmitProposal.request,
    GroupMsgSubmitProposalResponse |-> governance!GroupMsgSubmitProposal.response,
    MsgWithdrawProposal |-> governance!MsgWithdrawProposal.request,
    MsgWithdrawProposalResponse |-> governance!MsgWithdrawProposal.response,
    GroupMsgVote |-> governance!GroupMsgVote.request,
    GroupMsgVoteResponse |-> governance!GroupMsgVote.response,
    MsgExec |-> governance!MsgExec.request, MsgExecResponse |-> governance!MsgExec.response,
    MsgLeaveGroup |-> governance!MsgLeaveGroup.request,
    MsgLeaveGroupResponse |-> governance!MsgLeaveGroup.response,
    DecisionPolicyWindows |-> governance!DecisionPolicyWindows,
    ThresholdDecisionPolicy |-> governance!ThresholdDecisionPolicy,
    PercentageDecisionPolicy |-> governance!PercentageDecisionPolicy]

PocketStakingMessages ==
  [UndelegatingGatewayList |-> actors!UndelegatingGatewayList,
    Application_PendingUndelegationsEntry |-> actors!Application_PendingUndelegationsEntry,
    PendingApplicationTransfer |-> actors!PendingApplicationTransfer,
    Application |-> actors!Application, EventApplicationStaked |-> actors!EventApplicationStaked,
    EventRedelegation |-> actors!EventRedelegation,
    EventTransferBegin |-> actors!EventTransferBegin,
    EventTransferEnd |-> actors!EventTransferEnd,
    EventTransferError |-> actors!EventTransferError,
    EventApplicationUnbondingBegin |-> actors!EventApplicationUnbondingBegin,
    EventApplicationUnbondingEnd |-> actors!EventApplicationUnbondingEnd,
    EventApplicationUnbondingCanceled |-> actors!EventApplicationUnbondingCanceled,
    ApplicationParams |-> actors!ApplicationParams,
    ApplicationGenesisState |-> actors!ApplicationGenesisState,
    ApplicationModule |-> actors!ApplicationModule,
    ApplicationQueryParamsRequest |-> actors!ApplicationQueryParams.request,
    ApplicationQueryParamsResponse |-> actors!ApplicationQueryParams.response,
    QueryGetApplicationRequest |-> actors!QueryGetApplication.request,
    QueryGetApplicationResponse |-> actors!QueryGetApplication.response,
    QueryAllApplicationsRequest |-> actors!QueryAllApplications.request,
    QueryAllApplicationsResponse |-> actors!QueryAllApplications.response,
    ApplicationMsgUpdateParams |-> actors!ApplicationMsgUpdateParams.request,
    ApplicationMsgUpdateParamsResponse |-> actors!ApplicationMsgUpdateParams.response,
    MsgStakeApplication |-> actors!MsgStakeApplication.request,
    MsgStakeApplicationResponse |-> actors!MsgStakeApplication.response,
    MsgUnstakeApplication |-> actors!MsgUnstakeApplication.request,
    MsgUnstakeApplicationResponse |-> actors!MsgUnstakeApplication.response,
    MsgDelegateToGateway |-> actors!MsgDelegateToGateway.request,
    MsgDelegateToGatewayResponse |-> actors!MsgDelegateToGateway.response,
    MsgUndelegateFromGateway |-> actors!MsgUndelegateFromGateway.request,
    MsgUndelegateFromGatewayResponse |-> actors!MsgUndelegateFromGateway.response,
    MsgTransferApplication |-> actors!MsgTransferApplication.request,
    MsgTransferApplicationResponse |-> actors!MsgTransferApplication.response,
    ApplicationMsgUpdateParam |-> actors!ApplicationMsgUpdateParam.request,
    ApplicationMsgUpdateParamResponse |-> actors!ApplicationMsgUpdateParam.response,
    PendingUndelegation |-> actors!PendingUndelegation, Gateway |-> actors!Gateway,
    EventGatewayStaked |-> actors!EventGatewayStaked,
    EventGatewayUnbondingBegin |-> actors!EventGatewayUnbondingBegin,
    EventGatewayUnbondingEnd |-> actors!EventGatewayUnbondingEnd,
    EventGatewayUnbondingCanceled |-> actors!EventGatewayUnbondingCanceled,
    GatewayParams |-> actors!GatewayParams, GatewayGenesisState |-> actors!GatewayGenesisState,
    GatewayModule |-> actors!GatewayModule,
    GatewayQueryParamsRequest |-> actors!GatewayQueryParams.request,
    GatewayQueryParamsResponse |-> actors!GatewayQueryParams.response,
    QueryGetGatewayRequest |-> actors!QueryGetGateway.request,
    QueryGetGatewayResponse |-> actors!QueryGetGateway.response,
    QueryAllGatewaysRequest |-> actors!QueryAllGateways.request,
    QueryAllGatewaysResponse |-> actors!QueryAllGateways.response,
    GatewayMsgUpdateParams |-> actors!GatewayMsgUpdateParams.request,
    GatewayMsgUpdateParamsResponse |-> actors!GatewayMsgUpdateParams.response,
    MsgStakeGateway |-> actors!MsgStakeGateway.request,
    MsgStakeGatewayResponse |-> actors!MsgStakeGateway.response,
    MsgUnstakeGateway |-> actors!MsgUnstakeGateway.request,
    MsgUnstakeGatewayResponse |-> actors!MsgUnstakeGateway.response,
    GatewayMsgUpdateParam |-> actors!GatewayMsgUpdateParam.request,
    GatewayMsgUpdateParamResponse |-> actors!GatewayMsgUpdateParam.response,
    EventSupplierStaked |-> actors!EventSupplierStaked,
    EventSupplierUnbondingBegin |-> actors!EventSupplierUnbondingBegin,
    EventSupplierUnbondingEnd |-> actors!EventSupplierUnbondingEnd,
    EventSupplierUnbondingCanceled |-> actors!EventSupplierUnbondingCanceled,
    EventSupplierServiceConfigActivated |-> actors!EventSupplierServiceConfigActivated,
    SupplierParams |-> actors!SupplierParams,
    SupplierGenesisState |-> actors!SupplierGenesisState,
    SupplierModule |-> actors!SupplierModule,
    SupplierQueryParamsRequest |-> actors!SupplierQueryParams.request,
    SupplierQueryParamsResponse |-> actors!SupplierQueryParams.response,
    QueryGetSupplierRequest |-> actors!QueryGetSupplier.request,
    QueryGetSupplierResponse |-> actors!QueryGetSupplier.response,
    QueryAllSuppliersRequest |-> actors!QueryAllSuppliers.request,
    QueryAllSuppliersResponse |-> actors!QueryAllSuppliers.response,
    SupplierMsgUpdateParams |-> actors!SupplierMsgUpdateParams.request,
    SupplierMsgUpdateParamsResponse |-> actors!SupplierMsgUpdateParams.response,
    MsgStakeSupplier |-> actors!MsgStakeSupplier.request,
    MsgStakeSupplierResponse |-> actors!MsgStakeSupplier.response,
    MsgUnstakeSupplier |-> actors!MsgUnstakeSupplier.request,
    MsgUnstakeSupplierResponse |-> actors!MsgUnstakeSupplier.response,
    SupplierMsgUpdateParam |-> actors!SupplierMsgUpdateParam.request,
    SupplierMsgUpdateParamResponse |-> actors!SupplierMsgUpdateParam.response]

PocketSharedMessages ==
  [Params |-> shared!Params, GenesisState |-> shared!GenesisState, Module |-> shared!Module,
    ParamsUpdate |-> shared!ParamsUpdate, QueryParamsRequest |-> shared!QueryParams.request,
    QueryParamsResponse |-> shared!QueryParams.response, Metadata |-> shared!Metadata,
    Service |-> shared!Service, ApplicationServiceConfig |-> shared!ApplicationServiceConfig,
    ConfigOption |-> shared!ConfigOption, SupplierEndpoint |-> shared!SupplierEndpoint,
    ServiceRevenueShare |-> shared!ServiceRevenueShare,
    SupplierServiceConfig |-> shared!SupplierServiceConfig,
    ServiceConfigUpdate |-> shared!ServiceConfigUpdate, Supplier |-> shared!Supplier,
    MsgUpdateParams |-> shared!MsgUpdateParams.request,
    MsgUpdateParamsResponse |-> shared!MsgUpdateParams.response,
    MsgUpdateParam |-> shared!MsgUpdateParam.request,
    MsgUpdateParamResponse |-> shared!MsgUpdateParam.response]

PocketSessionMessages ==
  [Params |-> session!Params, GenesisState |-> session!GenesisState, Module |-> session!Module,
    ParamsUpdate |-> session!ParamsUpdate, QueryParamsRequest |-> session!QueryParams.request,
    QueryParamsResponse |-> session!QueryParams.response,
    QueryGetSessionRequest |-> session!QueryGetSession.request,
    SessionHeader |-> session!SessionHeader, Session |-> session!Session,
    QueryGetSessionResponse |-> session!QueryGetSession.response,
    MsgUpdateParams |-> session!MsgUpdateParams.request,
    MsgUpdateParamsResponse |-> session!MsgUpdateParams.response,
    MsgUpdateParam |-> session!MsgUpdateParam.request,
    MsgUpdateParamResponse |-> session!MsgUpdateParam.response]

PocketProofMessages ==
  [EventClaimCreated |-> proof!EventClaimCreated, EventClaimUpdated |-> proof!EventClaimUpdated,
    EventProofSubmitted |-> proof!EventProofSubmitted,
    EventProofUpdated |-> proof!EventProofUpdated,
    EventProofValidityChecked |-> proof!EventProofValidityChecked, Params |-> proof!Params,
    Claim |-> proof!Claim, Proof |-> proof!Proof, GenesisState |-> proof!GenesisState,
    Module |-> proof!Module, QueryParamsRequest |-> proof!QueryParams.request,
    QueryParamsResponse |-> proof!QueryParams.response,
    QueryGetClaimRequest |-> proof!QueryGetClaim.request,
    QueryGetClaimResponse |-> proof!QueryGetClaim.response,
    QueryAllClaimsRequest |-> proof!QueryAllClaims.request,
    QueryAllClaimsResponse |-> proof!QueryAllClaims.response,
    QueryGetProofRequest |-> proof!QueryGetProof.request,
    QueryGetProofResponse |-> proof!QueryGetProof.response,
    QueryAllProofsRequest |-> proof!QueryAllProofs.request,
    QueryAllProofsResponse |-> proof!QueryAllProofs.response,
    MsgUpdateParams |-> proof!MsgUpdateParams.request,
    MsgUpdateParamsResponse |-> proof!MsgUpdateParams.response,
    MsgUpdateParam |-> proof!MsgUpdateParam.request,
    MsgUpdateParamResponse |-> proof!MsgUpdateParam.response,
    MsgCreateClaim |-> proof!MsgCreateClaim.request,
    MsgCreateClaimResponse |-> proof!MsgCreateClaim.response,
    MsgSubmitProof |-> proof!MsgSubmitProof.request,
    MsgSubmitProofResponse |-> proof!MsgSubmitProof.response, SessionSMT |-> proof!SessionSMT]

PocketServiceMessages ==
  [EventRelayMiningDifficultyUpdated |-> service!EventRelayMiningDifficultyUpdated,
    Params |-> service!Params, RelayMiningDifficulty |-> service!RelayMiningDifficulty,
    GenesisState |-> service!GenesisState, Module |-> service!Module,
    QueryParamsRequest |-> service!QueryParams.request,
    QueryParamsResponse |-> service!QueryParams.response,
    QueryGetServiceRequest |-> service!QueryGetService.request,
    QueryGetServiceResponse |-> service!QueryGetService.response,
    QueryAllServicesRequest |-> service!QueryAllServices.request,
    QueryAllServicesResponse |-> service!QueryAllServices.response,
    QueryGetRelayMiningDifficultyRequest |-> service!QueryGetRelayMiningDifficulty.request,
    QueryGetRelayMiningDifficultyResponse |-> service!QueryGetRelayMiningDifficulty.response,
    QueryAllRelayMiningDifficultyRequest |-> service!QueryAllRelayMiningDifficulty.request,
    QueryAllRelayMiningDifficultyResponse |-> service!QueryAllRelayMiningDifficulty.response,
    QueryGetRelayMiningDifficultyAtHeightRequest |-> service!QueryGetRelayMiningDifficultyAtHeightRequest,
    QueryRelayMiningDifficultyHistoryRequest |-> service!QueryRelayMiningDifficultyHistory.request,
    RelayMiningDifficultyUpdate |-> service!RelayMiningDifficultyUpdate,
    QueryRelayMiningDifficultyHistoryResponse |-> service!QueryRelayMiningDifficultyHistory.response,
    RelayRequestMetadata |-> service!RelayRequestMetadata, RelayRequest |-> service!RelayRequest,
    RelayResponseMetadata |-> service!RelayResponseMetadata,
    RelayMinerError |-> service!RelayMinerError, RelayResponse |-> service!RelayResponse,
    Relay |-> service!Relay, MsgUpdateParams |-> service!MsgUpdateParams.request,
    MsgUpdateParamsResponse |-> service!MsgUpdateParams.response,
    MsgUpdateParam |-> service!MsgUpdateParam.request,
    MsgUpdateParamResponse |-> service!MsgUpdateParam.response,
    MsgAddService |-> service!MsgAddService.request,
    MsgAddServiceResponse |-> service!MsgAddService.response]

PocketMigrationMessages ==
  [EventImportMorseClaimableAccounts |-> migration!EventImportMorseClaimableAccounts,
    EventMorseAccountClaimed |-> migration!EventMorseAccountClaimed,
    EventMorseApplicationClaimed |-> migration!EventMorseApplicationClaimed,
    EventMorseSupplierClaimed |-> migration!EventMorseSupplierClaimed,
    EventMorseAccountRecovered |-> migration!EventMorseAccountRecovered,
    EventMorseAccountRecoveredAdmin |-> migration!EventMorseAccountRecoveredAdmin,
    Params |-> migration!Params, MorseClaimableAccount |-> migration!MorseClaimableAccount,
    GenesisState |-> migration!GenesisState, Module |-> migration!Module,
    MorseApplication |-> migration!MorseApplication,
    MorseApplications |-> migration!MorseApplications,
    MorseAuthAccount |-> migration!MorseAuthAccount, MorseAuth |-> migration!MorseAuth,
    MorseValidator |-> migration!MorseValidator, MorsePos |-> migration!MorsePos,
    MorseTendermintAppState |-> migration!MorseTendermintAppState,
    MorseStateExport |-> migration!MorseStateExport, MorsePublicKey |-> migration!MorsePublicKey,
    MorseAccount |-> migration!MorseAccount, MorseModuleAccount |-> migration!MorseModuleAccount,
    MorseAccountState |-> migration!MorseAccountState,
    QueryParamsRequest |-> migration!QueryParams.request,
    QueryParamsResponse |-> migration!QueryParams.response,
    QueryMorseClaimableAccountRequest |-> migration!QueryMorseClaimableAccount.request,
    QueryMorseClaimableAccountResponse |-> migration!QueryMorseClaimableAccount.response,
    QueryAllMorseClaimableAccountRequest |-> migration!QueryAllMorseClaimableAccount.request,
    QueryAllMorseClaimableAccountResponse |-> migration!QueryAllMorseClaimableAccount.response,
    MsgUpdateParams |-> migration!MsgUpdateParams.request,
    MsgUpdateParamsResponse |-> migration!MsgUpdateParams.response,
    MsgImportMorseClaimableAccounts |-> migration!MsgImportMorseClaimableAccounts.request,
    MsgImportMorseClaimableAccountsResponse |-> migration!MsgImportMorseClaimableAccounts.response,
    MsgClaimMorseAccount |-> migration!MsgClaimMorseAccount.request,
    MsgClaimMorseAccountResponse |-> migration!MsgClaimMorseAccount.response,
    MsgClaimMorseApplication |-> migration!MsgClaimMorseApplication.request,
    MsgClaimMorseApplicationResponse |-> migration!MsgClaimMorseApplication.response,
    MsgClaimMorseSupplier |-> migration!MsgClaimMorseSupplier,
    MsgClaimMorseSupplierResponse |-> migration!MsgClaimMorseSupplierResponse,
    MsgRecoverMorseAccount |-> migration!MsgRecoverMorseAccount.request,
    MsgRecoverMorseAccountResponse |-> migration!MsgRecoverMorseAccount.response,
    MsgAdminRecoverMorseAccount |-> migration!MsgAdminRecoverMorseAccount.request,
    MsgAdminRecoverMorseAccountResponse |-> migration!MsgAdminRecoverMorseAccount.response]

PocketTokenomicsMessages ==
  [EventClaimExpired |-> tokenomics!EventClaimExpired,
    EventClaimSettled_RewardDistributionEntry |-> tokenomics!EventClaimSettled_RewardDistributionEntry,
    EventClaimSettled |-> tokenomics!EventClaimSettled,
    EventApplicationOverserviced |-> tokenomics!EventApplicationOverserviced,
    EventSupplierSlashed |-> tokenomics!EventSupplierSlashed,
    EventClaimDiscarded |-> tokenomics!EventClaimDiscarded,
    EventApplicationReimbursementRequest |-> tokenomics!EventApplicationReimbursementRequest,
    MintAllocationPercentages |-> tokenomics!MintAllocationPercentages,
    MintEqualsBurnClaimDistribution |-> tokenomics!MintEqualsBurnClaimDistribution,
    Params |-> tokenomics!Params, GenesisState |-> tokenomics!GenesisState,
    Module |-> tokenomics!Module, QueryParamsRequest |-> tokenomics!QueryParams.request,
    QueryParamsResponse |-> tokenomics!QueryParams.response,
    MsgUpdateParams |-> tokenomics!MsgUpdateParams.request,
    MsgUpdateParamsResponse |-> tokenomics!MsgUpdateParams.response,
    MsgUpdateParam |-> tokenomics!MsgUpdateParam.request,
    MsgUpdateParamResponse |-> tokenomics!MsgUpdateParam.response,
    MintBurnOp |-> tokenomics!MintBurnOp, ModToModTransfer |-> tokenomics!ModToModTransfer,
    ModToAcctTransfer |-> tokenomics!ModToAcctTransfer,
    ClaimSettlementResult |-> tokenomics!ClaimSettlementResult]

MCCatalogue ==
  [base |-> BaseTypesMessages, types |-> CometTypesMessages, abci |-> CometAbciMessages,
    accounts |-> CosmosAccountsMessages, staking |-> CosmosStakingMessages,
    tx |-> CosmosTxMessages, governance |-> CosmosGovernanceMessages,
    actors |-> PocketStakingMessages, shared |-> PocketSharedMessages,
    session |-> PocketSessionMessages, proof |-> PocketProofMessages,
    service |-> PocketServiceMessages, migration |-> PocketMigrationMessages,
    tokenomics |-> PocketTokenomicsMessages]
=============================================================================
