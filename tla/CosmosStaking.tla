--------------------------- MODULE CosmosStaking ----------------------------
(***************************************************************************)
(* The messages of cosmos.staking, as their generated codecs in            *)
(* src/src/client/cosmos/staking have them (see Schema).                   *)
(***************************************************************************)
EXTENDS Schema

base == INSTANCE BaseTypes
abci == INSTANCE CometAbci
types == INSTANCE CometTypes

AuthorizationType ==
  [AUTHORIZATION_TYPE_UNSPECIFIED |-> 0, AUTHORIZATION_TYPE_DELEGATE |-> 1,
    AUTHORIZATION_TYPE_UNDELEGATE |-> 2, AUTHORIZATION_TYPE_REDELEGATE |-> 3,
    AUTHORIZATION_TYPE_CANCEL_UNBONDING_DELEGATION |-> 4]

BondStatus ==
  [BOND_STATUS_UNSPECIFIED |-> 0, BOND_STATUS_UNBONDED |-> 1, BOND_STATUS_UNBONDING |-> 2,
    BOND_STATUS_BONDED |-> 3]

Infraction ==
  [INFRACTION_UNSPECIFIED |-> 0, INFRACTION_DOUBLE_SIGN |-> 1, INFRACTION_DOWNTIME |-> 2]

Module ==
  <<Many(Str(1, "hooksOrder")), Str(2, "authority"), Str(3, "bech32PrefixValidator"),
    Str(4, "bech32PrefixConsensus")>>
StakeAuthorization_Validators == <<Many(Str(1, "address"))>>
StakeAuthorization ==
  <<Msg(1, "maxTokens", base!Coin), Msg(2, "allowList", StakeAuthorization_Validators),
    Msg(3, "denyList", StakeAuthorization_Validators),
    Enm(4, "authorizationType", AuthorizationType)>>
Params ==
  <<Msg(1, "unbondingTime", base!Duration), U32(2, "maxValidators"), U32(3, "maxEntries"),
    U32(4, "historicalEntries"), Str(5, "bondDenom"), Str(6, "minCommissionRate")>>
LastValidatorPower == <<Str(1, "address"), I64(2, "power")>>
Description ==
  <<Str(1, "moniker"), Str(2, "identity"), Str(3, "website"), Str(4, "securityContact"),
    Str(5, "details")>>
CommissionRates == <<Str(1, "rate"), Str(2, "maxRate"), Str(3, "maxChangeRate")>>
Commission == <<Msg(1, "commissionRates", CommissionRates), Time(2, "updateTime")>>
Validator ==
  <<Str(1, "operatorAddress"), Msg(2, "consensusPubkey", base!Any), Bln(3, "jailed"),
    Enm(4, "status", BondStatus), Str(5, "tokens"), Str(6, "delegatorShares"),
    Msg(7, "description", Description), I64(8, "unbondingHeight"), Time(9, "unbondingTime"),
    Msg(10, "commission", Commission), Str(11, "minSelfDelegation"),
    I64(12, "unbondingOnHoldRefCount"), Packed(U64(13, "unbondingIds"))>>
Delegation == <<Str(1, "delegatorAddress"), Str(2, "validatorAddress"), Str(3, "shares")>>
UnbondingDelegationEntry ==
  <<I64(1, "creationHeight"), Time(2, "completionTime"), Str(3, "initialBalance"),
    Str(4, "balance"), U64(5, "unbondingId"), I64(6, "unbondingOnHoldRefCount")>>
UnbondingDelegation ==
  <<Str(1, "delegatorAddress"), Str(2, "validatorAddress"),
    Many(Msg(3, "entries", UnbondingDelegationEntry))>>
RedelegationEntry ==
  <<I64(1, "creationHeight"), Time(2, "completionTime"), Str(3, "initialBalance"),
    Str(4, "sharesDst"), U64(5, "unbondingId"), I64(6, "unbondingOnHoldRefCount")>>
Redelegation ==
  <<Str(1, "delegatorAddress"), Str(2, "validatorSrcAddress"), Str(3, "validatorDstAddress"),
    Many(Msg(4, "entries", RedelegationEntry))>>
GenesisState ==
  <<Msg(1, "params", Params), Byt(2, "lastTotalPower"),
    Many(Msg(3, "lastValidatorPowers", LastValidatorPower)),
    Many(Msg(4, "validators", Validator)), Many(Msg(5, "delegations", Delegation)),
    Many(Msg(6, "unbondingDelegations", UnbondingDelegation)),
    Many(Msg(7, "redelegations", Redelegation)), Bln(8, "exported")>>
QueryValidators ==
  [request  |-> <<Str(1, "status"), Msg(2, "pagination", base!PageRequest)>>,
   response |-> <<Many(Msg(1, "validators", Validator)), Msg(2, "pagination", base!PageResponse)>>]
QueryValidator ==
  [request  |-> <<Str(1, "validatorAddr")>>,
   response |-> <<Msg(1, "validator", Validator)>>]
DelegationResponse == <<Msg(1, "delegation", Delegation), Msg(2, "balance", base!Coin)>>
QueryValidatorDelegations ==
  [request  |-> <<Str(1, "validatorAddr"), Msg(2, "pagination", base!PageRequest)>>,
   response |-> <<Many(Msg(1, "delegationResponses", DelegationResponse)),
                Msg(2, "pagination", base!PageResponse)>>]
QueryValidatorUnbondingDelegations ==
  [request  |-> <<Str(1, "validatorAddr"), Msg(2, "pagination", base!PageRequest)>>,
   response |-> <<Many(Msg(1, "unbondingResponses", UnbondingDelegation)),
                Msg(2, "pagination", base!PageResponse)>>]
QueryDelegation ==
  [request  |-> <<Str(1, "delegatorAddr"), Str(2, "validatorAddr")>>,
   response |-> <<Msg(1, "delegationResponse", DelegationResponse)>>]
QueryUnbondingDelegation ==
  [request  |-> <<Str(1, "delegatorAddr"), Str(2, "validatorAddr")>>,
   response |-> <<Msg(1, "unbond", UnbondingDelegation)>>]
QueryDelegatorDelegations ==
  [request  |-> <<Str(1, "delegatorAddr"), Msg(2, "pagination", base!PageRequest)>>,
   response |-> <<Many(Msg(1, "delegationResponses", DelegationResponse)),
                Msg(2, "pagination", base!PageResponse)>>]
QueryDelegatorUnbondingDelegations ==
  [request  |-> <<Str(1, "delegatorAddr"), Msg(2, "pagination", base!PageRequest)>>,
   response |-> <<Many(Msg(1, "unbondingResponses", UnbondingDelegation)),
                Msg(2, "pagination", base!PageResponse)>>]
RedelegationEntryResponse == <<Msg(1, "redelegationEntry", RedelegationEntry), Str(4, "balance")>>
RedelegationResponse ==
  <<Msg(1, "redelegation", Redelegation), Many(Msg(2, "entries", RedelegationEntryResponse))>>
QueryRedelegations ==
  [request  |-> <<Str(1, "delegatorAddr"), Str(2, "srcValidatorAddr"), Str(3, "dstValidatorAddr"),
                Msg(4, "pagination", base!PageRequest)>>,
   response |-> <<Many(Msg(1, "redelegationResponses", RedelegationResponse)),
                Msg(2, "pagination", base!PageResponse)>>]
QueryDelegatorValidators ==
  [request  |-> <<Str(1, "delegatorAddr"), Msg(2, "pagination", base!PageRequest)>>,
   response |-> <<Many(Msg(1, "validators", Validator)), Msg(2, "pagination", base!PageResponse)>>]
QueryDelegatorValidator ==
  [request  |-> <<Str(1, "delegatorAddr"), Str(2, "validatorAddr")>>,
   response |-> <<Msg(1, "validator", Validator)>>]
HistoricalInfo == <<Msg(1, "header", types!Header), Many(Msg(2, "valset", Validator))>>
QueryHistoricalInfo ==
  [request  |-> <<I64(1, "height")>>,
   response |-> <<Msg(1, "hist", HistoricalInfo)>>]
Pool == <<Str(1, "notBondedTokens"), Str(2, "bondedTokens")>>
QueryPool == [request |-> <<>>, response |-> <<Msg(1, "pool", Pool)>>]
QueryParams == [request |-> <<>>, response |-> <<Msg(1, "params", Params)>>]
ValAddresses == <<Many(Str(1, "addresses"))>>
DVPair == <<Str(1, "delegatorAddress"), Str(2, "validatorAddress")>>
DVPairs == <<Many(Msg(1, "pairs", DVPair))>>
DVVTriplet ==
  <<Str(1, "delegatorAddress"), Str(2, "validatorSrcAddress"), Str(3, "validatorDstAddress")>>
DVVTriplets == <<Many(Msg(1, "triplets", DVVTriplet))>>
ValidatorUpdates == <<Many(Msg(1, "updates", abci!ValidatorUpdate))>>
MsgCreateValidator ==
  [request  |-> <<Msg(1, "description", Description), Msg(2, "commission", CommissionRates),
                Str(3, "minSelfDelegation"), Str(4, "delegatorAddress"),
                Str(5, "validatorAddress"), Msg(6, "pubkey", base!Any),
                Msg(7, "value", base!Coin)>>,
   response |-> <<>>]
MsgEditValidator ==
  [request  |-> <<Msg(1, "description", Description), Str(2, "validatorAddress"),
                Str(3, "commissionRate"), Str(4, "minSelfDelegation")>>,
   response |-> <<>>]
MsgDelegate ==
  [request  |-> <<Str(1, "delegatorAddress"), Str(2, "validatorAddress"),
                Msg(3, "amount", base!Coin)>>,
   response |-> <<>>]
MsgBeginRedelegate ==
  [request  |-> <<Str(1, "delegatorAddress"), Str(2, "validatorSrcAddress"),
                Str(3, "validatorDstAddress"), Msg(4, "amount", base!Coin)>>,
   response |-> <<Time(1, "completionTime")>>]
MsgUndelegate ==
  [request  |-> <<Str(1, "delegatorAddress"), Str(2, "validatorAddress"),
                Msg(3, "amount", base!Coin)>>,
   response |-> <<Time(1, "completionTime"), Msg(2, "amount", base!Coin)>>]
MsgCancelUnbondingDelegation ==
  [request  |-> <<Str(1, "delegatorAddress"), Str(2, "validatorAddress"),
                Msg(3, "amount", base!Coin), I64(4, "creationHeight")>>,
   response |-> <<>>]
MsgUpdateParams ==
  [request  |-> <<Str(1, "authority"), Msg(2, "params", Params)>>,
   response |-> <<>>]
=============================================================================
