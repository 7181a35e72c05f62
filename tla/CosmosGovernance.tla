------------------------- MODULE CosmosGovernance ---------------------------
(***************************************************************************)
(* The messages of cosmos.group and cosmos.gov, as their generated codecs  *)
(* under src/src/client/cosmos have them (see Schema).  A name two         *)
(* packages use is preceded by the package.                                *)
(***************************************************************************)
EXTENDS Schema

base == INSTANCE BaseTypes

Exec ==
  [EXEC_UNSPECIFIED |-> 0, EXEC_TRY |-> 1]

GovV1ProposalStatus ==
  [PROPOSAL_STATUS_UNSPECIFIED |-> 0, PROPOSAL_STATUS_DEPOSIT_PERIOD |-> 1,
    PROPOSAL_STATUS_VOTING_PERIOD |-> 2, PROPOSAL_STATUS_PASSED |-> 3,
    PROPOSAL_STATUS_REJECTED |-> 4, PROPOSAL_STATUS_FAILED |-> 5]

GovV1VoteOption ==
  [VOTE_OPTION_UNSPECIFIED |-> 0, VOTE_OPTION_YES |-> 1, VOTE_OPTION_ABSTAIN |-> 2,
    VOTE_OPTION_NO |-> 3, VOTE_OPTION_NO_WITH_VETO |-> 4]

GovV1beta1ProposalStatus ==
  [PROPOSAL_STATUS_UNSPECIFIED |-> 0, PROPOSAL_STATUS_DEPOSIT_PERIOD |-> 1,
    PROPOSAL_STATUS_VOTING_PERIOD |-> 2, PROPOSAL_STATUS_PASSED |-> 3,
    PROPOSAL_STATUS_REJECTED |-> 4, PROPOSAL_STATUS_FAILED |-> 5]

GovV1beta1VoteOption ==
  [VOTE_OPTION_UNSPECIFIED |-> 0, VOTE_OPTION_YES |-> 1, VOTE_OPTION_ABSTAIN |-> 2,
    VOTE_OPTION_NO |-> 3, VOTE_OPTION_NO_WITH_VETO |-> 4]

GroupProposalStatus ==
  [PROPOSAL_STATUS_UNSPECIFIED |-> 0, PROPOSAL_STATUS_SUBMITTED |-> 1,
    PROPOSAL_STATUS_ACCEPTED |-> 2, PROPOSAL_STATUS_REJECTED |-> 3,
    PROPOSAL_STATUS_ABORTED |-> 4, PROPOSAL_STATUS_WITHDRAWN |-> 5]

GroupVoteOption ==
  [VOTE_OPTION_UNSPECIFIED |-> 0, VOTE_OPTION_YES |-> 1, VOTE_OPTION_ABSTAIN |-> 2,
    VOTE_OPTION_NO |-> 3, VOTE_OPTION_NO_WITH_VETO |-> 4]

ProposalExecutorResult ==
  [PROPOSAL_EXECUTOR_RESULT_UNSPECIFIED |-> 0, PROPOSAL_EXECUTOR_RESULT_NOT_RUN |-> 1,
    PROPOSAL_EXECUTOR_RESULT_SUCCESS |-> 2, PROPOSAL_EXECUTOR_RESULT_FAILURE |-> 3]

GovModuleModule == <<U64(1, "maxMetadataLen"), Str(2, "authority")>>
GovV1Deposit == <<U64(1, "proposalId"), Str(2, "depositor"), Many(Msg(3, "amount", base!Coin))>>
GovV1WeightedVoteOption == <<Enm(1, "option", GovV1VoteOption), Str(2, "weight")>>
GovV1Vote ==
  <<U64(1, "proposalId"), Str(2, "voter"), Many(Msg(4, "options", GovV1WeightedVoteOption)),
    Str(5, "metadata")>>
GovV1TallyResult ==
  <<Str(1, "yesCount"), Str(2, "abstainCount"), Str(3, "noCount"), Str(4, "noWithVetoCount")>>
GovV1Proposal ==
  <<U64(1, "id"), Many(Msg(2, "messages", base!Any)), Enm(3, "status", GovV1ProposalStatus),
    Msg(4, "finalTallyResult", GovV1TallyResult), Time(5, "submitTime"),
    Time(6, "depositEndTime"), Many(Msg(7, "totalDeposit", base!Coin)),
    Time(8, "votingStartTime"), Time(9, "votingEndTime"), Str(10, "metadata"), Str(11, "title"),
    Str(12, "summary"), Str(13, "proposer"), Bln(14, "expedited"), Str(15, "failedReason")>>
GovV1DepositParams ==
  <<Many(Msg(1, "minDeposit", base!Coin)), Msg(2, "maxDepositPeriod", base!Duration)>>
GovV1VotingParams == <<Msg(1, "votingPeriod", base!Duration)>>
GovV1TallyParams == <<Str(1, "quorum"), Str(2, "threshold"), Str(3, "vetoThreshold")>>
Params ==
  <<Many(Msg(1, "minDeposit", base!Coin)), Msg(2, "maxDepositPeriod", base!Duration),
    Msg(3, "votingPeriod", base!Duration), Str(4, "quorum"), Str(5, "threshold"),
    Str(6, "vetoThreshold"), Str(7, "minInitialDepositRatio"), Str(8, "proposalCancelRatio"),
    Str(9, "proposalCancelDest"), Msg(10, "expeditedVotingPeriod", base!Duration),
    Str(11, "expeditedThreshold"), Many(Msg(12, "expeditedMinDeposit", base!Coin)),
    Bln(13, "burnVoteQuorum"), Bln(14, "burnProposalDepositPrevote"), Bln(15, "burnVoteVeto"),
    Str(16, "minDepositRatio")>>
GovV1GenesisState ==
  <<U64(1, "startingProposalId"), Many(Msg(2, "deposits", GovV1Deposit)),
    Many(Msg(3, "votes", GovV1Vote)), Many(Msg(4, "proposals", GovV1Proposal)),
    Msg(5, "depositParams", GovV1DepositParams), Msg(6, "votingParams", GovV1VotingParams),
    Msg(7, "tallyParams", GovV1TallyParams), Msg(8, "params", Params), Str(9, "constitution")>>
QueryConstitution == [request |-> <<>>, response |-> <<Str(1, "constitution")>>]
GovV1QueryProposal ==
  [request  |-> <<U64(1, "proposalId")>>,
   response |-> <<Msg(1, "proposal", GovV1Proposal)>>]
GovV1QueryProposals ==
  [request  |-> <<Enm(1, "proposalStatus", GovV1ProposalStatus), Str(2, "voter"),
                Str(3, "depositor"), Msg(4, "pagination", base!PageRequest)>>,
   response |-> <<Many(Msg(1, "proposals", GovV1Proposal)),
                Msg(2, "pagination", base!PageResponse)>>]
GovV1QueryVote ==
  [request  |-> <<U64(1, "proposalId"), Str(2, "voter")>>,
   response |-> <<Msg(1, "vote", GovV1Vote)>>]
GovV1QueryVotes ==
  [request  |-> <<U64(1, "proposalId"), Msg(2, "pagination", base!PageRequest)>>,
   response |-> <<Many(Msg(1, "votes", GovV1Vote)), Msg(2, "pagination", base!PageResponse)>>]
GovV1QueryParams ==
  [request  |-> <<Str(1, "paramsType")>>,
   response |-> <<Msg(1, "votingParams", GovV1VotingParams),
                Msg(2, "depositParams", GovV1DepositParams),
                Msg(3, "tallyParams", GovV1TallyParams), Msg(4, "params", Params)>>]
GovV1QueryDeposit ==
  [request  |-> <<U64(1, "proposalId"), Str(2, "depositor")>>,
   response |-> <<Msg(1, "deposit", GovV1Deposit)>>]
GovV1QueryDeposits ==
  [request  |-> <<U64(1, "proposalId"), Msg(2, "pagination", base!PageRequest)>>,
   response |-> <<Many(Msg(1, "deposits", GovV1Deposit)), Msg(2, "pagination", base!PageResponse)>>]
GovV1QueryTallyResult ==
  [request  |-> <<U64(1, "proposalId")>>,
   response |-> <<Msg(1, "tally", GovV1TallyResult)>>]
GovV1MsgSubmitProposal ==
  [request  |-> <<Many(Msg(1, "messages", base!Any)), Many(Msg(2, "initialDeposit", base!Coin)),
                Str(3, "proposer"), Str(4, "metadata"), Str(5, "title"), Str(6, "summary"),
                Bln(7, "expedited")>>,
   response |-> <<U64(1, "proposalId")>>]
MsgExecLegacyContent ==
  [request  |-> <<Msg(1, "content", base!Any), Str(2, "authority")>>,
   response |-> <<>>]
GovV1MsgVote ==
  [request  |-> <<U64(1, "proposalId"), Str(2, "voter"), Enm(3, "option", GovV1VoteOption),
                Str(4, "metadata")>>,
   response |-> <<>>]
GovV1MsgVoteWeighted ==
  [request  |-> <<U64(1, "proposalId"), Str(2, "voter"),
                Many(Msg(3, "options", GovV1WeightedVoteOption)), Str(4, "metadata")>>,
   response |-> <<>>]
GovV1MsgDeposit ==
  [request  |-> <<U64(1, "proposalId"), Str(2, "depositor"), Many(Msg(3, "amount", base!Coin))>>,
   response |-> <<>>]
MsgUpdateParams ==
  [request  |-> <<Str(1, "authority"), Msg(2, "params", Params)>>,
   response |-> <<>>]
MsgCancelProposal ==
  [request  |-> <<U64(1, "proposalId"), Str(2, "proposer")>>,
   response |-> <<U64(1, "proposalId"), Time(2, "canceledTime"), U64(3, "canceledHeight")>>]
GovV1beta1Deposit ==
  <<U64(1, "proposalId"), Str(2, "depositor"), Many(Msg(3, "amount", base!Coin))>>
GovV1beta1WeightedVoteOption == <<Enm(1, "option", GovV1beta1VoteOption), Str(2, "weight")>>
GovV1beta1Vote ==
  <<U64(1, "proposalId"), Str(2, "voter"), Enm(3, "option", GovV1beta1VoteOption),
    Many(Msg(4, "options", GovV1beta1WeightedVoteOption))>>
GovV1beta1TallyResult == <<Str(1, "yes"), Str(2, "abstain"), Str(3, "no"), Str(4, "noWithVeto")>>
GovV1beta1Proposal ==
  <<U64(1, "proposalId"), Msg(2, "content", base!Any),
    Enm(3, "status", GovV1beta1ProposalStatus),
    Msg(4, "finalTallyResult", GovV1beta1TallyResult), Time(5, "submitTime"),
    Time(6, "depositEndTime"), Many(Msg(7, "totalDeposit", base!Coin)),
    Time(8, "votingStartTime"), Time(9, "votingEndTime")>>
GovV1beta1DepositParams ==
  <<Many(Msg(1, "minDeposit", base!Coin)), Msg(2, "maxDepositPeriod", base!Duration)>>
GovV1beta1VotingParams == <<Msg(1, "votingPeriod", base!Duration)>>
GovV1beta1TallyParams == <<Byt(1, "quorum"), Byt(2, "threshold"), Byt(3, "vetoThreshold")>>
GovV1beta1GenesisState ==
  <<U64(1, "startingProposalId"), Many(Msg(2, "deposits", GovV1beta1Deposit)),
    Many(Msg(3, "votes", GovV1beta1Vote)), Many(Msg(4, "proposals", GovV1beta1Proposal)),
    Msg(5, "depositParams", GovV1beta1DepositParams),
    Msg(6, "votingParams", GovV1beta1VotingParams),
    Msg(7, "tallyParams", GovV1beta1TallyParams)>>
TextProposal == <<Str(1, "title"), Str(2, "description")>>
GovV1beta1QueryProposal ==
  [request  |-> <<U64(1, "proposalId")>>,
   response |-> <<Msg(1, "proposal", GovV1beta1Proposal)>>]
GovV1beta1QueryProposals ==
  [request  |-> <<Enm(1, "proposalStatus", GovV1beta1ProposalStatus), Str(2, "voter"),
                Str(3, "depositor"), Msg(4, "pagination", base!PageRequest)>>,
   response |-> <<Many(Msg(1, "proposals", GovV1beta1Proposal)),
                Msg(2, "pagination", base!PageResponse)>>]
GovV1beta1QueryVote ==
  [request  |-> <<U64(1, "proposalId"), Str(2, "voter")>>,
   response |-> <<Msg(1, "vote", GovV1beta1Vote)>>]
GovV1beta1QueryVotes ==
  [request  |-> <<U64(1, "proposalId"), Msg(2, "pagination", base!PageRequest)>>,
   response |-> <<Many(Msg(1, "votes", GovV1beta1Vote)), Msg(2, "pagination", base!PageResponse)>>]
GovV1beta1QueryParams ==
  [request  |-> <<Str(1, "paramsType")>>,
   response |-> <<Msg(1, "votingParams", GovV1beta1VotingParams),
                Msg(2, "depositParams", GovV1beta1DepositParams),
                Msg(3, "tallyParams", GovV1beta1TallyParams)>>]
GovV1beta1QueryDeposit ==
  [request  |-> <<U64(1, "proposalId"), Str(2, "depositor")>>,
   response |-> <<Msg(1, "deposit", GovV1beta1Deposit)>>]
GovV1beta1QueryDeposits ==
  [request  |-> <<U64(1, "proposalId"), Msg(2, "pagination", base!PageRequest)>>,
   response |-> <<Many(Msg(1, "deposits", GovV1beta1Deposit)),
                Msg(2, "pagination", base!PageResponse)>>]
GovV1beta1QueryTallyResult ==
  [request  |-> <<U64(1, "proposalId")>>,
   response |-> <<Msg(1, "tally", GovV1beta1TallyResult)>>]
GovV1beta1MsgSubmitProposal ==
  [request  |-> <<Msg(1, "content", base!Any), Many(Msg(2, "initialDeposit", base!Coin)),
                Str(3, "proposer")>>,
   response |-> <<U64(1, "proposalId")>>]
GovV1beta1MsgVote ==
  [request  |-> <<U64(1, "proposalId"), Str(2, "voter"), Enm(3, "option", GovV1beta1VoteOption)>>,
   response |-> <<>>]
GovV1beta1MsgVoteWeighted ==
  [request  |-> <<U64(1, "proposalId"), Str(2, "voter"),
                Many(Msg(3, "options", GovV1beta1WeightedVoteOption))>>,
   response |-> <<>>]
GovV1beta1MsgDeposit ==
  [request  |-> <<U64(1, "proposalId"), Str(2, "depositor"), Many(Msg(3, "amount", base!Coin))>>,
   response |-> <<>>]
GroupModule == <<Msg(1, "maxExecutionPeriod", base!Duration), U64(2, "maxMetadataLen")>>
EventCreateGroup == <<U64(1, "groupId")>>
EventUpdateGroup == <<U64(1, "groupId")>>
EventCreateGroupPolicy == <<Str(1, "address")>>
EventUpdateGroupPolicy == <<Str(1, "address")>>
EventSubmitProposal == <<U64(1, "proposalId")>>
EventWithdrawProposal == <<U64(1, "proposalId")>>
EventVote == <<U64(1, "proposalId")>>
EventExec == <<U64(1, "proposalId"), Enm(2, "result", ProposalExecutorResult), Str(3, "logs")>>
EventLeaveGroup == <<U64(1, "groupId"), Str(2, "address")>>
GroupTallyResult ==
  <<Str(1, "yesCount"), Str(2, "abstainCount"), Str(3, "noCount"), Str(4, "noWithVetoCount")>>
EventProposalPruned ==
  <<U64(1, "proposalId"), Enm(2, "status", GroupProposalStatus),
    Msg(3, "tallyResult", GroupTallyResult)>>
EventTallyError == <<U64(1, "proposalId"), Str(2, "errorMessage")>>
GroupInfo ==
  <<U64(1, "id"), Str(2, "admin"), Str(3, "metadata"), U64(4, "version"), Str(5, "totalWeight"),
    Time(6, "createdAt")>>
Member == <<Str(1, "address"), Str(2, "weight"), Str(3, "metadata"), Time(4, "addedAt")>>
GroupMember == <<U64(1, "groupId"), Msg(2, "member", Member)>>
GroupPolicyInfo ==
  <<Str(1, "address"), U64(2, "groupId"), Str(3, "admin"), Str(4, "metadata"), U64(5, "version"),
    Msg(6, "decisionPolicy", base!Any), Time(7, "createdAt")>>
GroupProposal ==
  <<U64(1, "id"), Str(2, "groupPolicyAddress"), Str(3, "metadata"), Many(Str(4, "proposers")),
    Time(5, "submitTime"), U64(6, "groupVersion"), U64(7, "groupPolicyVersion"),
    Enm(8, "status", GroupProposalStatus), Msg(9, "finalTallyResult", GroupTallyResult),
    Time(10, "votingPeriodEnd"), Enm(11, "executorResult", ProposalExecutorResult),
    Many(Msg(12, "messages", base!Any)), Str(13, "title"), Str(14, "summary")>>
GroupVote ==
  <<U64(1, "proposalId"), Str(2, "voter"), Enm(3, "option", GroupVoteOption), Str(4, "metadata"),
    Time(5, "submitTime")>>
GroupGenesisState ==
  <<U64(1, "groupSeq"), Many(Msg(2, "groups", GroupInfo)),
    Many(Msg(3, "groupMembers", GroupMember)), U64(4, "groupPolicySeq"),
    Many(Msg(5, "groupPolicies", GroupPolicyInfo)), U64(6, "proposalSeq"),
    Many(Msg(7, "proposals", GroupProposal)), Many(Msg(8, "votes", GroupVote))>>
QueryGroupInfo == [request |-> <<U64(1, "groupId")>>, response |-> <<Msg(1, "info", GroupInfo)>>]
QueryGroupPolicyInfo ==
  [request  |-> <<Str(1, "address")>>,
   response |-> <<Msg(1, "info", GroupPolicyInfo)>>]
QueryGroupMembers ==
  [request  |-> <<U64(1, "groupId"), Msg(2, "pagination", base!PageRequest)>>,
   response |-> <<Many(Msg(1, "members", GroupMember)), Msg(2, "pagination", base!PageResponse)>>]
QueryGroupsByAdmin ==
  [request  |-> <<Str(1, "admin"), Msg(2, "pagination", base!PageRequest)>>,
   response |-> <<Many(Msg(1, "groups", GroupInfo)), Msg(2, "pagination", base!PageResponse)>>]
QueryGroupPoliciesByGroup ==
  [request  |-> <<U64(1, "groupId"), Msg(2, "pagination", base!PageRequest)>>,
   response |-> <<Many(Msg(1, "groupPolicies", GroupPolicyInfo)),
                Msg(2, "pagination", base!PageResponse)>>]
QueryGroupPoliciesByAdmin ==
  [request  |-> <<Str(1, "admin"), Msg(2, "pagination", base!PageRequest)>>,
   response |-> <<Many(Msg(1, "groupPolicies", GroupPolicyInfo)),
                Msg(2, "pagination", base!PageResponse)>>]
GroupQueryProposal ==
  [request  |-> <<U64(1, "proposalId")>>,
   response |-> <<Msg(1, "proposal", GroupProposal)>>]
QueryProposalsByGroupPolicy ==
  [request  |-> <<Str(1, "address"), Msg(2, "pagination", base!PageRequest)>>,
   response |-> <<Many(Msg(1, "proposals", GroupProposal)),
                Msg(2, "pagination", base!PageResponse)>>]
QueryVoteByProposalVoter ==
  [request  |-> <<U64(1, "proposalId"), Str(2, "voter")>>,
   response |-> <<Msg(1, "vote", GroupVote)>>]
QueryVotesByProposal ==
  [request  |-> <<U64(1, "proposalId"), Msg(2, "pagination", base!PageRequest)>>,
   response |-> <<Many(Msg(1, "votes", GroupVote)), Msg(2, "pagination", base!PageResponse)>>]
QueryVotesByVoter ==
  [request  |-> <<Str(1, "voter"), Msg(2, "pagination", base!PageRequest)>>,
   response |-> <<Many(Msg(1, "votes", GroupVote)), Msg(2, "pagination", base!PageResponse)>>]
QueryGroupsByMember ==
  [request  |-> <<Str(1, "address"), Msg(2, "pagination", base!PageRequest)>>,
   response |-> <<Many(Msg(1, "groups", GroupInfo)), Msg(2, "pagination", base!PageResponse)>>]
GroupQueryTallyResult ==
  [request  |-> <<U64(1, "proposalId")>>,
   response |-> <<Msg(1, "tally", GroupTallyResult)>>]
QueryGroups ==
  [request  |-> <<Msg(2, "pagination", base!PageRequest)>>,
   response |-> <<Many(Msg(1, "groups", GroupInfo)), Msg(2, "pagination", base!PageResponse)>>]
MemberRequest == <<Str(1, "address"), Str(2, "weight"), Str(3, "metadata")>>
MsgCreateGroup ==
  [request  |-> <<Str(1, "admin"), Many(Msg(2, "members", MemberRequest)), Str(3, "metadata")>>,
   response |-> <<U64(1, "groupId")>>]
MsgUpdateGroupMembers ==
  [request  |-> <<Str(1, "admin"), U64(2, "groupId"),
                Many(Msg(3, "memberUpdates", MemberRequest))>>,
   response |-> <<>>]
MsgUpdateGroupAdmin ==
  [request  |-> <<Str(1, "admin"), U64(2, "groupId"), Str(3, "newAdmin")>>,
   response |-> <<>>]
MsgUpdateGroupMetadata ==
  [request  |-> <<Str(1, "admin"), U64(2, "groupId"), Str(3, "metadata")>>,
   response |-> <<>>]
MsgCreateGroupPolicy ==
  [request  |-> <<Str(1, "admin"), U64(2, "groupId"), Str(3, "metadata"),
                Msg(4, "decisionPolicy", base!Any)>>,
   response |-> <<Str(1, "address")>>]
MsgUpdateGroupPolicyAdmin ==
  [request  |-> <<Str(1, "admin"), Str(2, "groupPolicyAddress"), Str(3, "newAdmin")>>,
   response |-> <<>>]
MsgCreateGroupWithPolicy ==
  <<Str(1, "admin"), Many(Msg(2, "members", MemberRequest)), Str(3, "groupMetadata"),
    Str(4, "groupPolicyMetadata"), Bln(5, "groupPolicyAsAdmin"),
    Msg(6, "decisionPolicy", base!Any)>>
MsgCreateGroupWithPolicyResponse == <<U64(1, "groupId"), Str(2, "groupPolicyAddress")>>
MsgUpdateGroupPolicyDecisionPolicy ==
  [request  |-> <<Str(1, "admin"), Str(2, "groupPolicyAddress"),
                Msg(3, "decisionPolicy", base!Any)>>,
   response |-> <<>>]
MsgUpdateGroupPolicyMetadata ==
  [request  |-> <<Str(1, "admin"), Str(2, "groupPolicyAddress"), Str(3, "metadata")>>,
   response |-> <<>>]
GroupMsgSubmitProposal ==
  [request  |-> <<Str(1, "groupPolicyAddress"), Many(Str(2, "proposers")), Str(3, "metadata"),
                Many(Msg(4, "messages", base!Any)), Enm(5, "exec", Exec), Str(6, "title"),
                Str(7, "summary")>>,
   response |-> <<U64(1, "proposalId")>>]
MsgWithdrawProposal ==
  [request  |-> <<U64(1, "proposalId"), Str(2, "address")>>,
   response |-> <<>>]
GroupMsgVote ==
  [request  |-> <<U64(1, "proposalId"), Str(2, "voter"), Enm(3, "option", GroupVoteOption),
                Str(4, "metadata"), Enm(5, "exec", Exec)>>,
   response |-> <<>>]
MsgExec ==
  [request  |-> <<U64(1, "proposalId"), Str(2, "executor")>>,
   response |-> <<Enm(2, "result", ProposalExecutorResult)>>]
MsgLeaveGroup == [request |-> <<Str(1, "address"), U64(2, "groupId")>>, response |-> <<>>]
DecisionPolicyWindows ==
  <<Msg(1, "votingPeriod", base!Duration), Msg(2, "minExecutionPeriod", base!Duration)>>
ThresholdDecisionPolicy == <<Str(1, "threshold"), Msg(2, "windows", DecisionPolicyWindows)>>
PercentageDecisionPolicy == <<Str(1, "percentage"), Msg(2, "windows", DecisionPolicyWindows)>>
=============================================================================
