---------------------------- MODULE PocketProof -----------------------------
(***************************************************************************)
(* The messages of pocket.proof, as their generated codecs in              *)
(* src/src/client/pocket/proof have them (see Schema).                     *)
(***************************************************************************)
EXTENDS Schema

base == INSTANCE BaseTypes
session == INSTANCE PocketSession

ClaimProofStage ==
  [CLAIMED |-> 0, PROVEN |-> 1, SETTLED |-> 2, EXPIRED |-> 3]

ClaimProofStatus ==
  [PENDING_VALIDATION |-> 0, VALIDATED |-> 1, INVALID |-> 2]

ProofRequirementReason ==
  [NOT_REQUIRED |-> 0, PROBABILISTIC |-> 1, THRESHOLD |-> 2]

EventClaimCreated ==
  <<U64(2, "numRelays"), U64(4, "numClaimedComputeUnits"), U64(5, "numEstimatedComputeUnits"),
    Str(7, "claimedUpokt"), Str(8, "serviceId"), Str(9, "applicationAddress"),
    I64(10, "sessionEndBlockHeight"), I32(11, "claimProofStatusInt"),
    Str(12, "supplierOperatorAddress")>>
EventClaimUpdated ==
  <<U64(2, "numRelays"), U64(4, "numClaimedComputeUnits"), U64(5, "numEstimatedComputeUnits"),
    Str(7, "claimedUpokt"), Str(8, "serviceId"), Str(9, "applicationAddress"),
    I64(10, "sessionEndBlockHeight"), I32(11, "claimProofStatusInt"),
    Str(12, "supplierOperatorAddress")>>
EventProofSubmitted ==
  <<U64(3, "numRelays"), U64(4, "numClaimedComputeUnits"), U64(5, "numEstimatedComputeUnits"),
    Str(7, "claimedUpokt"), Str(8, "serviceId"), Str(9, "applicationAddress"),
    I64(10, "sessionEndBlockHeight"), I32(11, "claimProofStatusInt"),
    Str(12, "supplierOperatorAddress")>>
EventProofUpdated ==
  <<U64(3, "numRelays"), U64(4, "numClaimedComputeUnits"), U64(5, "numEstimatedComputeUnits"),
    Str(7, "claimedUpokt"), Str(8, "serviceId"), Str(9, "applicationAddress"),
    I64(10, "sessionEndBlockHeight"), I32(11, "claimProofStatusInt"),
    Str(12, "supplierOperatorAddress")>>
EventProofValidityChecked ==
  <<U64(2, "blockHeight"), Str(4, "failureReason"), Str(8, "serviceId"),
    Str(9, "applicationAddress"), I64(10, "sessionEndBlockHeight"),
    I32(11, "claimProofStatusInt"), Str(12, "supplierOperatorAddress")>>
Params ==
  <<Dbl(2, "proofRequestProbability"), Msg(3, "proofRequirementThreshold", base!Coin),
    Msg(4, "proofMissingPenalty", base!Coin), Msg(5, "proofSubmissionFee", base!Coin)>>
Claim ==
  <<Str(1, "supplierOperatorAddress"), Msg(2, "sessionHeader", session!SessionHeader),
    Byt(3, "rootHash"), Enm(4, "proofValidationStatus", ClaimProofStatus)>>
Proof ==
  <<Str(1, "supplierOperatorAddress"), Msg(2, "sessionHeader", session!SessionHeader),
    Byt(3, "closestMerkleProof")>>
GenesisState ==
  <<Msg(1, "params", Params), Many(Msg(2, "claimList", Claim)),
    Many(Msg(3, "proofList", Proof))>>
Module == <<Str(1, "authority")>>
QueryParams == [request |-> <<>>, response |-> <<Msg(1, "params", Params)>>]
QueryGetClaim ==
  [request  |-> <<Str(1, "sessionId"), Str(2, "supplierOperatorAddress")>>,
   response |-> <<Msg(1, "claim", Claim)>>]
QueryAllClaims ==
  [request  |-> <<Msg(1, "pagination", base!PageRequest), Opt(Str(2, "supplierOperatorAddress")),
                Opt(Str(3, "sessionId")), Opt(U64(4, "sessionEndHeight"))>>,
   response |-> <<Many(Msg(1, "claims", Claim)), Msg(2, "pagination", base!PageResponse)>>]
QueryGetProof ==
  [request  |-> <<Str(1, "sessionId"), Str(2, "supplierOperatorAddress")>>,
   response |-> <<Msg(1, "proof", Proof)>>]
QueryAllProofs ==
  [request  |-> <<Msg(1, "pagination", base!PageRequest), Opt(Str(2, "supplierOperatorAddress")),
                Opt(Str(3, "sessionId")), Opt(U64(4, "sessionEndHeight"))>>,
   response |-> <<Many(Msg(1, "proofs", Proof)), Msg(2, "pagination", base!PageResponse)>>]
MsgUpdateParams ==
  [request  |-> <<Str(1, "authority"), Msg(2, "params", Params)>>,
   response |-> <<>>]
MsgUpdateParam ==
  [request  |-> <<Str(1, "authority"), Str(2, "name"), Opt(Byt(7, "asBytes")),
                Opt(Dbl(8, "asFloat")), Msg(9, "asCoin", base!Coin)>>,
   response |-> <<>>]
MsgCreateClaim ==
  [request  |-> <<Str(1, "supplierOperatorAddress"),
                Msg(2, "sessionHeader", session!SessionHeader), Byt(3, "rootHash")>>,
   response |-> <<>>]
MsgSubmitProof ==
  [request  |-> <<Str(1, "supplierOperatorAddress"),
                Msg(2, "sessionHeader", session!SessionHeader), Byt(3, "proof")>>,
   response |-> <<>>]
SessionSMT ==
  <<Msg(1, "sessionHeader", session!SessionHeader), Str(2, "supplierOperatorAddress"),
    Byt(3, "smtRoot")>>
=============================================================================
