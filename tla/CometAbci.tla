----------------------------- MODULE CometAbci ------------------------------
(***************************************************************************)
(* The messages of cometbft.abci.v2, as their generated codecs in          *)
(* src/src/client/cometbft/abci/v2 have them (see Schema).                 *)
(***************************************************************************)
EXTENDS Schema

base == INSTANCE BaseTypes
types == INSTANCE CometTypes

ApplySnapshotChunkResult ==
  [APPLY_SNAPSHOT_CHUNK_RESULT_UNKNOWN |-> 0, APPLY_SNAPSHOT_CHUNK_RESULT_ACCEPT |-> 1,
    APPLY_SNAPSHOT_CHUNK_RESULT_ABORT |-> 2, APPLY_SNAPSHOT_CHUNK_RESULT_RETRY |-> 3,
    APPLY_SNAPSHOT_CHUNK_RESULT_RETRY_SNAPSHOT |-> 4,
    APPLY_SNAPSHOT_CHUNK_RESULT_REJECT_SNAPSHOT |-> 5]

CheckTxType ==
  [CHECK_TX_TYPE_UNKNOWN |-> 0, CHECK_TX_TYPE_RECHECK |-> 1, CHECK_TX_TYPE_CHECK |-> 2]

MisbehaviorType ==
  [MISBEHAVIOR_TYPE_UNKNOWN |-> 0, MISBEHAVIOR_TYPE_DUPLICATE_VOTE |-> 1,
    MISBEHAVIOR_TYPE_LIGHT_CLIENT_ATTACK |-> 2]

OfferSnapshotResult ==
  [OFFER_SNAPSHOT_RESULT_UNKNOWN |-> 0, OFFER_SNAPSHOT_RESULT_ACCEPT |-> 1,
    OFFER_SNAPSHOT_RESULT_ABORT |-> 2, OFFER_SNAPSHOT_RESULT_REJECT |-> 3,
    OFFER_SNAPSHOT_RESULT_REJECT_FORMAT |-> 4, OFFER_SNAPSHOT_RESULT_REJECT_SENDER |-> 5]

ProcessProposalStatus ==
  [PROCESS_PROPOSAL_STATUS_UNKNOWN |-> 0, PROCESS_PROPOSAL_STATUS_ACCEPT |-> 1,
    PROCESS_PROPOSAL_STATUS_REJECT |-> 2]

VerifyVoteExtensionStatus ==
  [VERIFY_VOTE_EXTENSION_STATUS_UNKNOWN |-> 0, VERIFY_VOTE_EXTENSION_STATUS_ACCEPT |-> 1,
    VERIFY_VOTE_EXTENSION_STATUS_REJECT |-> 2]

EchoRequest == <<Str(1, "message")>>
FlushRequest == <<>>
InfoRequest ==
  <<Str(1, "version"), U64(2, "blockVersion"), U64(3, "p2pVersion"), Str(4, "abciVersion")>>
ValidatorUpdate == <<I64(2, "power"), Byt(3, "pubKeyBytes"), Str(4, "pubKeyType")>>
InitChainRequest ==
  <<Time(1, "time"), Str(2, "chainId"), Msg(3, "consensusParams", types!ConsensusParams),
    Many(Msg(4, "validators", ValidatorUpdate)), Byt(5, "appStateBytes"),
    I64(6, "initialHeight")>>
QueryRequest == <<Byt(1, "data"), Str(2, "path"), I64(3, "height"), Bln(4, "prove")>>
CheckTxRequest == <<Byt(1, "tx"), Enm(3, "type", CheckTxType)>>
CommitRequest == <<>>
ListSnapshotsRequest == <<>>
Snapshot ==
  <<U64(1, "height"), U32(2, "format"), U32(3, "chunks"), Byt(4, "hash"), Byt(5, "metadata")>>
OfferSnapshotRequest == <<Msg(1, "snapshot", Snapshot), Byt(2, "appHash")>>
LoadSnapshotChunkRequest == <<U64(1, "height"), U32(2, "format"), U32(3, "chunk")>>
ApplySnapshotChunkRequest == <<U32(1, "index"), Byt(2, "chunk"), Str(3, "sender")>>
Validator == <<Byt(1, "address"), I64(3, "power")>>
ExtendedVoteInfo ==
  <<Msg(1, "validator", Validator), Byt(3, "voteExtension"), Byt(4, "extensionSignature"),
    Enm(5, "blockIdFlag", types!BlockIDFlag), Byt(6, "nonRpVoteExtension"),
    Byt(7, "nonRpExtensionSignature")>>
ExtendedCommitInfo == <<I32(1, "round"), Many(Msg(2, "votes", ExtendedVoteInfo))>>
Misbehavior ==
  <<Enm(1, "type", MisbehaviorType), Msg(2, "validator", Validator), I64(3, "height"),
    Time(4, "time"), I64(5, "totalVotingPower")>>
PrepareProposalRequest ==
  <<I64(1, "maxTxBytes"), Many(Byt(2, "txs")), Msg(3, "localLastCommit", ExtendedCommitInfo),
    Many(Msg(4, "misbehavior", Misbehavior)), I64(5, "height"), Time(6, "time"),
    Byt(7, "nextValidatorsHash"), Byt(8, "proposerAddress")>>
VoteInfo == <<Msg(1, "validator", Validator), Enm(3, "blockIdFlag", types!BlockIDFlag)>>
CommitInfo == <<I32(1, "round"), Many(Msg(2, "votes", VoteInfo))>>
ProcessProposalRequest ==
  <<Many(Byt(1, "txs")), Msg(2, "proposedLastCommit", CommitInfo),
    Many(Msg(3, "misbehavior", Misbehavior)), Byt(4, "hash"), I64(5, "height"), Time(6, "time"),
    Byt(7, "nextValidatorsHash"), Byt(8, "proposerAddress")>>
ExtendVoteRequest ==
  <<Byt(1, "hash"), I64(2, "height"), Time(3, "time"), Many(Byt(4, "txs")),
    Msg(5, "proposedLastCommit", CommitInfo), Many(Msg(6, "misbehavior", Misbehavior)),
    Byt(7, "nextValidatorsHash"), Byt(8, "proposerAddress")>>
VerifyVoteExtensionRequest ==
  <<Byt(1, "hash"), Byt(2, "validatorAddress"), I64(3, "height"), Byt(4, "voteExtension"),
    Byt(5, "nonRpVoteExtension")>>
FinalizeBlockRequest ==
  <<Many(Byt(1, "txs")), Msg(2, "decidedLastCommit", CommitInfo),
    Many(Msg(3, "misbehavior", Misbehavior)), Byt(4, "hash"), I64(5, "height"), Time(6, "time"),
    Byt(7, "nextValidatorsHash"), Byt(8, "proposerAddress"), I64(9, "syncingToHeight")>>
Request ==
  <<Msg(1, "echo", EchoRequest), Msg(2, "flush", FlushRequest), Msg(3, "info", InfoRequest),
    Msg(5, "initChain", InitChainRequest), Msg(6, "query", QueryRequest),
    Msg(8, "checkTx", CheckTxRequest), Msg(11, "commit", CommitRequest),
    Msg(12, "listSnapshots", ListSnapshotsRequest),
    Msg(13, "offerSnapshot", OfferSnapshotRequest),
    Msg(14, "loadSnapshotChunk", LoadSnapshotChunkRequest),
    Msg(15, "applySnapshotChunk", ApplySnapshotChunkRequest),
    Msg(16, "prepareProposal", PrepareProposalRequest),
    Msg(17, "processProposal", ProcessProposalRequest), Msg(18, "extendVote", ExtendVoteRequest),
    Msg(19, "verifyVoteExtension", VerifyVoteExtensionRequest),
    Msg(20, "finalizeBlock", FinalizeBlockRequest)>>
ExceptionResponse == <<Str(1, "error")>>
EchoResponse == <<Str(1, "message")>>
FlushResponse == <<>>
InfoResponse_LanePrioritiesEntry == <<Str(1, "key"), U32(2, "value")>>
InfoResponse ==
  <<Str(1, "data"), Str(2, "version"), U64(3, "appVersion"), I64(4, "lastBlockHeight"),
    Byt(5, "lastBlockAppHash"),
    Entries(Msg(6, "lanePriorities", InfoResponse_LanePrioritiesEntry)), Str(7, "defaultLane")>>
InitChainResponse ==
  <<Msg(1, "consensusParams", types!ConsensusParams),
    Many(Msg(2, "validators", ValidatorUpdate)), Byt(3, "appHash")>>
QueryResponse ==
  <<U32(1, "code"), Str(3, "log"), Str(4, "info"), I64(5, "index"), Byt(6, "key"),
    Byt(7, "value"), Msg(8, "proofOps", base!ProofOps), I64(9, "height"), Str(10, "codespace")>>
EventAttribute == <<Str(1, "key"), Str(2, "value"), Bln(3, "index")>>
Event == <<Str(1, "type"), Many(Msg(2, "attributes", EventAttribute))>>
CheckTxResponse ==
  <<U32(1, "code"), Byt(2, "data"), Str(3, "log"), Str(4, "info"), SnakeKey(I64(5, "gasWanted")),
    SnakeKey(I64(6, "gasUsed")), Many(Msg(7, "events", Event)), Str(8, "codespace"),
    Str(12, "laneId")>>
CommitResponse == <<I64(3, "retainHeight")>>
ListSnapshotsResponse == <<Many(Msg(1, "snapshots", Snapshot))>>
OfferSnapshotResponse == <<Enm(1, "result", OfferSnapshotResult)>>
LoadSnapshotChunkResponse == <<Byt(1, "chunk")>>
ApplySnapshotChunkResponse ==
  <<Enm(1, "result", ApplySnapshotChunkResult), Packed(U32(2, "refetchChunks")),
    Many(Str(3, "rejectSenders"))>>
PrepareProposalResponse == <<Many(Byt(1, "txs"))>>
ProcessProposalResponse == <<Enm(1, "status", ProcessProposalStatus)>>
ExtendVoteResponse == <<Byt(1, "voteExtension"), Byt(2, "nonRpExtension")>>
VerifyVoteExtensionResponse == <<Enm(1, "status", VerifyVoteExtensionStatus)>>
ExecTxResult ==
  <<U32(1, "code"), Byt(2, "data"), Str(3, "log"), Str(4, "info"), SnakeKey(I64(5, "gasWanted")),
    SnakeKey(I64(6, "gasUsed")), Many(Msg(7, "events", Event)), Str(8, "codespace")>>
FinalizeBlockResponse ==
  <<Many(Msg(1, "events", Event)), Many(Msg(2, "txResults", ExecTxResult)),
    Many(Msg(3, "validatorUpdates", ValidatorUpdate)),
    Msg(4, "consensusParamUpdates", types!ConsensusParams), Byt(5, "appHash"),
    Msg(6, "nextBlockDelay", base!Duration)>>
Response ==
  <<Msg(1, "exception", ExceptionResponse), Msg(2, "echo", EchoResponse),
    Msg(3, "flush", FlushResponse), Msg(4, "info", InfoResponse),
    Msg(6, "initChain", InitChainResponse), Msg(7, "query", QueryResponse),
    Msg(9, "checkTx", CheckTxResponse), Msg(12, "commit", CommitResponse),
    Msg(13, "listSnapshots", ListSnapshotsResponse),
    Msg(14, "offerSnapshot", OfferSnapshotResponse),
    Msg(15, "loadSnapshotChunk", LoadSnapshotChunkResponse),
    Msg(16, "applySnapshotChunk", ApplySnapshotChunkResponse),
    Msg(17, "prepareProposal", PrepareProposalResponse),
    Msg(18, "processProposal", ProcessProposalResponse),
    Msg(19, "extendVote", ExtendVoteResponse),
    Msg(20, "verifyVoteExtension", VerifyVoteExtensionResponse),
    Msg(21, "finalizeBlock", FinalizeBlockResponse)>>
TxResult == <<I64(1, "height"), U32(2, "index"), Byt(3, "tx"), Msg(4, "result", ExecTxResult)>>
=============================================================================
