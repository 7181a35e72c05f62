---------------------------- MODULE CometTypes ------------------------------
(***************************************************************************)
(* The messages of cometbft.types.v2, as their generated codecs in         *)
(* src/src/client/cometbft/types/v2 have them (see Schema).                *)
(***************************************************************************)
EXTENDS Schema

base == INSTANCE BaseTypes

BlockIDFlag ==
  [BLOCK_ID_FLAG_UNKNOWN |-> 0, BLOCK_ID_FLAG_ABSENT |-> 1, BLOCK_ID_FLAG_COMMIT |-> 2,
    BLOCK_ID_FLAG_NIL |-> 3]

SignedMsgType ==
  [SIGNED_MSG_TYPE_UNKNOWN |-> 0, SIGNED_MSG_TYPE_PREVOTE |-> 1,
    SIGNED_MSG_TYPE_PRECOMMIT |-> 2, SIGNED_MSG_TYPE_PROPOSAL |-> 32]

PartSetHeader == <<U32(1, "total"), Byt(2, "hash")>>
BlockID == <<Byt(1, "hash"), Msg(2, "partSetHeader", PartSetHeader)>>
Header ==
  <<Msg(1, "version", base!Consensus), Str(2, "chainId"), I64(3, "height"), Time(4, "time"),
    Msg(5, "lastBlockId", BlockID), Byt(6, "lastCommitHash"), Byt(7, "dataHash"),
    Byt(8, "validatorsHash"), Byt(9, "nextValidatorsHash"), Byt(10, "consensusHash"),
    Byt(11, "appHash"), Byt(12, "lastResultsHash"), Byt(13, "evidenceHash"),
    Byt(14, "proposerAddress")>>
Data == <<Many(Byt(1, "txs"))>>
Vote ==
  <<Enm(1, "type", SignedMsgType), I64(2, "height"), I32(3, "round"), Msg(4, "blockId", BlockID),
    Time(5, "timestamp"), Byt(6, "validatorAddress"), I32(7, "validatorIndex"),
    Byt(8, "signature"), Byt(9, "extension"), Byt(10, "extensionSignature"),
    Byt(11, "nonRpExtension"), Byt(12, "nonRpExtensionSignature")>>
DuplicateVoteEvidence ==
  <<Msg(1, "voteA", Vote), Msg(2, "voteB", Vote), I64(3, "totalVotingPower"),
    I64(4, "validatorPower"), Time(5, "timestamp")>>
CommitSig ==
  <<Enm(1, "blockIdFlag", BlockIDFlag), Byt(2, "validatorAddress"), Time(3, "timestamp"),
    Byt(4, "signature")>>
Commit ==
  <<I64(1, "height"), I32(2, "round"), Msg(3, "blockId", BlockID),
    Many(Msg(4, "signatures", CommitSig))>>
SignedHeader == <<Msg(1, "header", Header), Msg(2, "commit", Commit)>>
Validator ==
  <<Byt(1, "address"), Msg(2, "pubKey", base!PublicKey), I64(3, "votingPower"),
    I64(4, "proposerPriority"), Byt(5, "pubKeyBytes"), Str(6, "pubKeyType")>>
ValidatorSet ==
  <<Many(Msg(1, "validators", Validator)), Msg(2, "proposer", Validator),
    I64(3, "totalVotingPower")>>
LightBlock == <<Msg(1, "signedHeader", SignedHeader), Msg(2, "validatorSet", ValidatorSet)>>
LightClientAttackEvidence ==
  <<Msg(1, "conflictingBlock", LightBlock), I64(2, "commonHeight"),
    Many(Msg(3, "byzantineValidators", Validator)), I64(4, "totalVotingPower"),
    Time(5, "timestamp")>>
Evidence ==
  <<Msg(1, "duplicateVoteEvidence", DuplicateVoteEvidence),
    Msg(2, "lightClientAttackEvidence", LightClientAttackEvidence)>>
EvidenceList == <<Many(Msg(1, "evidence", Evidence))>>
Block ==
  <<Msg(1, "header", Header), Msg(2, "data", Data), Msg(3, "evidence", EvidenceList),
    Msg(4, "lastCommit", Commit)>>
CanonicalPartSetHeader == <<U32(1, "total"), Byt(2, "hash")>>
CanonicalBlockID == <<Byt(1, "hash"), Msg(2, "partSetHeader", CanonicalPartSetHeader)>>
CanonicalProposal ==
  <<Enm(1, "type", SignedMsgType), Sfx(2, "height"), Sfx(3, "round"), I64(4, "polRound"),
    Msg(5, "blockId", CanonicalBlockID), Time(6, "timestamp"), Str(7, "chainId")>>
CanonicalVote ==
  <<Enm(1, "type", SignedMsgType), Sfx(2, "height"), Sfx(3, "round"),
    Msg(4, "blockId", CanonicalBlockID), Time(5, "timestamp"), Str(6, "chainId")>>
CanonicalVoteExtension ==
  <<Byt(1, "extension"), Sfx(2, "height"), Sfx(3, "round"), Str(4, "chainId")>>
EventDataRoundState == <<I64(1, "height"), I32(2, "round"), Str(3, "step")>>
BlockParams == <<I64(1, "maxBytes"), I64(2, "maxGas")>>
EvidenceParams ==
  <<I64(1, "maxAgeNumBlocks"), Msg(2, "maxAgeDuration", base!Duration), I64(3, "maxBytes")>>
ValidatorParams == <<Many(Str(1, "pubKeyTypes"))>>
VersionParams == <<U64(1, "app")>>
ABCIParams == <<I64(1, "voteExtensionsEnableHeight")>>
SynchronyParams == <<Msg(1, "precision", base!Duration), Msg(2, "messageDelay", base!Duration)>>
FeatureParams ==
  <<Box(1, "voteExtensionsEnableHeight", base!Int64Value),
    Box(2, "pbtsEnableHeight", base!Int64Value)>>
ConsensusParams ==
  <<Msg(1, "block", BlockParams), Msg(2, "evidence", EvidenceParams),
    Msg(3, "validator", ValidatorParams), Msg(4, "version", VersionParams),
    Msg(5, "abci", ABCIParams), Msg(6, "synchrony", SynchronyParams),
    Msg(7, "feature", FeatureParams)>>
HashedParams == <<I64(1, "blockMaxBytes"), I64(2, "blockMaxGas")>>
Part == <<U32(1, "index"), Byt(2, "bytes"), Msg(3, "proof", base!Proof)>>
ExtendedCommitSig ==
  <<Enm(1, "blockIdFlag", BlockIDFlag), Byt(2, "validatorAddress"), Time(3, "timestamp"),
    Byt(4, "signature"), Byt(5, "extension"), Byt(6, "extensionSignature"),
    Byt(7, "nonRpExtension"), Byt(8, "nonRpExtensionSignature")>>
ExtendedCommit ==
  <<I64(1, "height"), I32(2, "round"), Msg(3, "blockId", BlockID),
    Many(Msg(4, "extendedSignatures", ExtendedCommitSig))>>
Proposal ==
  <<Enm(1, "type", SignedMsgType), I64(2, "height"), I32(3, "round"), I32(4, "polRound"),
    Msg(5, "blockId", BlockID), Time(6, "timestamp"), Byt(7, "signature")>>
BlockMeta ==
  <<Msg(1, "blockId", BlockID), I64(2, "blockSize"), Msg(3, "header", Header), I64(4, "numTxs")>>
TxProof == <<Byt(1, "rootHash"), Byt(2, "data"), Msg(3, "proof", base!Proof)>>
SimpleValidator == <<Msg(1, "pubKey", base!PublicKey), I64(2, "votingPower")>>
=============================================================================
