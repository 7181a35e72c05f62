------------------------- MODULE PocketTokenomics ---------------------------
(***************************************************************************)
(* The messages of pocket.tokenomics, as their generated codecs in         *)
(* src/src/client/pocket/tokenomics have them (see Schema).                *)
(***************************************************************************)
EXTENDS Schema

base == INSTANCE BaseTypes
proof == INSTANCE PocketProof

ClaimExpirationReason ==
  [EXPIRATION_REASON_UNSPECIFIED |-> 0, PROOF_MISSING |-> 1, PROOF_INVALID |-> 2]

SettlementOpReason ==
  [UNSPECIFIED |-> 0, UNSPECIFIED_TLM_SUPPLIER_SLASH_MODULE_TRANSFER |-> 11,
    UNSPECIFIED_TLM_SUPPLIER_SLASH_STAKE_BURN |-> 12,
    TLM_RELAY_BURN_EQUALS_MINT_SUPPLIER_STAKE_MINT |-> 1,
    TLM_RELAY_BURN_EQUALS_MINT_APPLICATION_STAKE_BURN |-> 2,
    TLM_RELAY_BURN_EQUALS_MINT_TOKENOMICS_CLAIM_DISTRIBUTION_MINT |-> 19,
    TLM_RELAY_BURN_EQUALS_MINT_SUPPLIER_SHAREHOLDER_REWARD_DISTRIBUTION |-> 4,
    TLM_RELAY_BURN_EQUALS_MINT_DAO_REWARD_DISTRIBUTION |-> 15,
    TLM_RELAY_BURN_EQUALS_MINT_SOURCE_OWNER_REWARD_DISTRIBUTION |-> 17,
    TLM_RELAY_BURN_EQUALS_MINT_APPLICATION_REWARD_DISTRIBUTION |-> 18,
    TLM_RELAY_BURN_EQUALS_MINT_VALIDATOR_REWARD_DISTRIBUTION |-> 20,
    TLM_RELAY_BURN_EQUALS_MINT_DELEGATOR_REWARD_DISTRIBUTION |-> 23,
    TLM_GLOBAL_MINT_INFLATION |-> 3, TLM_GLOBAL_MINT_DAO_REWARD_DISTRIBUTION |-> 5,
    TLM_GLOBAL_MINT_SUPPLIER_SHAREHOLDER_REWARD_DISTRIBUTION |-> 7,
    TLM_GLOBAL_MINT_SOURCE_OWNER_REWARD_DISTRIBUTION |-> 8,
    TLM_GLOBAL_MINT_APPLICATION_REWARD_DISTRIBUTION |-> 9,
    TLM_GLOBAL_MINT_VALIDATOR_REWARD_DISTRIBUTION |-> 21,
    TLM_GLOBAL_MINT_DELEGATOR_REWARD_DISTRIBUTION |-> 24,
    TLM_GLOBAL_MINT_REIMBURSEMENT_REQUEST_ESCROW_DAO_TRANSFER |-> 10,
    TLM_GLOBAL_MINT_SUPPLIER_SHAREHOLDER_REWARD_MODULE_TRANSFER |-> 13,
    TLM_GLOBAL_MINT_REIMBURSEMENT_REQUEST_ESCROW_MODULE_TRANSFER |-> 14]

EventClaimExpired ==
  <<Enm(2, "expirationReason", ClaimExpirationReason), U64(3, "numRelays"),
    U64(4, "numClaimedComputeUnits"), U64(5, "numEstimatedComputeUnits"), Str(7, "claimedUpokt"),
    Str(8, "serviceId"), Str(9, "applicationAddress"), I64(10, "sessionEndBlockHeight"),
    I32(11, "claimProofStatusInt"), Str(12, "supplierOperatorAddress")>>
EventClaimSettled_RewardDistributionEntry == <<Str(1, "key"), Str(2, "value")>>
EventClaimSettled ==
  <<I32(2, "proofRequirementInt"), U64(3, "numRelays"), U64(4, "numClaimedComputeUnits"),
    U64(5, "numEstimatedComputeUnits"), Str(8, "claimedUpokt"), Str(9, "serviceId"),
    Str(10, "applicationAddress"), I64(11, "sessionEndBlockHeight"),
    I32(12, "claimProofStatusInt"), Str(13, "supplierOperatorAddress"),
    Entries(Msg(14, "rewardDistribution", EventClaimSettled_RewardDistributionEntry))>>
EventApplicationOverserviced ==
  <<Str(1, "applicationAddr"), Str(2, "supplierOperatorAddr"), Str(5, "expectedBurn"),
    Str(6, "effectiveBurn")>>
EventSupplierSlashed ==
  <<Str(3, "proofMissingPenalty"), Str(4, "serviceId"), Str(5, "applicationAddress"),
    I64(6, "sessionEndBlockHeight"), I32(7, "claimProofStatusInt"),
    Str(8, "supplierOperatorAddress")>>
EventClaimDiscarded ==
  <<Str(2, "error"), Str(3, "serviceId"), Str(4, "applicationAddress"),
    I64(5, "sessionEndBlockHeight"), I32(6, "claimProofStatusInt"),
    Str(7, "supplierOperatorAddress")>>
EventApplicationReimbursementRequest ==
  <<Str(1, "applicationAddr"), Str(2, "supplierOperatorAddr"), Str(3, "supplierOwnerAddr"),
    Str(4, "serviceId"), Str(5, "sessionId"), Str(7, "amount")>>
MintAllocationPercentages ==
  <<Dbl(1, "dao"), Dbl(2, "proposer"), Dbl(3, "supplier"), Dbl(4, "sourceOwner"),
    Dbl(5, "application")>>
MintEqualsBurnClaimDistribution ==
  <<Dbl(1, "dao"), Dbl(2, "proposer"), Dbl(3, "supplier"), Dbl(4, "sourceOwner"),
    Dbl(5, "application")>>
Params ==
  <<Str(6, "daoRewardAddress"), Msg(1, "mintAllocationPercentages", MintAllocationPercentages),
    Dbl(7, "globalInflationPerClaim"),
    Msg(8, "mintEqualsBurnClaimDistribution", MintEqualsBurnClaimDistribution),
    Dbl(9, "mintRatio")>>
GenesisState == <<Msg(1, "params", Params)>>
Module == <<Str(1, "authority")>>
QueryParams == [request |-> <<>>, response |-> <<Msg(1, "params", Params)>>]
MsgUpdateParams ==
  [request  |-> <<Str(1, "authority"), Msg(2, "params", Params)>>,
   response |-> <<>>]
MsgUpdateParam ==
  [request  |-> <<Str(1, "authority"), Str(2, "name"),
                Msg(3, "asMintAllocationPercentages", MintAllocationPercentages),
                Opt(Str(4, "asString")), Opt(Dbl(5, "asFloat")),
                Msg(6, "asMintEqualsBurnClaimDistribution", MintEqualsBurnClaimDistribution)>>,
   response |-> <<>>]
MintBurnOp ==
  <<Enm(1, "opReason", SettlementOpReason), CamelKey(Str(2, "DestinationModule")),
    Msg(3, "coin", base!Coin)>>
ModToModTransfer ==
  <<Enm(1, "opReason", SettlementOpReason), CamelKey(Str(2, "SenderModule")),
    CamelKey(Str(3, "RecipientModule")), Msg(4, "coin", base!Coin)>>
ModToAcctTransfer ==
  <<Enm(1, "opReason", SettlementOpReason), CamelKey(Str(2, "SenderModule")),
    CamelKey(Str(3, "RecipientAddress")), Msg(4, "coin", base!Coin)>>
ClaimSettlementResult ==
  <<Msg(1, "claim", proof!Claim), Many(Msg(2, "mints", MintBurnOp)),
    Many(Msg(3, "burns", MintBurnOp)), Many(Msg(4, "modToModTransfers", ModToModTransfer)),
    Many(Msg(5, "modToAcctTransfers", ModToAcctTransfer))>>
=============================================================================
