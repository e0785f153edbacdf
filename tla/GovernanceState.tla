---------------------------- MODULE GovernanceState ----------------------------
(***************************************************************************)
(* The accounts the governance program keeps for one Realm and one         *)
(* Governance of it, as the variables that the modules TokenOwnerRecords,  *)
(* Proposals, Voting and Governance act on.  An account that does not      *)
(* exist is not in the domain of its function.                             *)
(***************************************************************************)
EXTENDS Integers, FiniteSets, VoteResolution

CONSTANTS
    Members,         \* token owner records (one per mint and token owner)
    MintOf,          \* [Members -> Mints], the governing mint of a record
    Proposals,       \* proposal accounts
    Signatories,     \* wallets that can be signatories of proposals
    Authorities,     \* wallets that can be lock authorities
    LockIds,         \* lock ids an authority may use
    Configs,         \* governance configurations the DAO may set
    Realms,          \* realm configurations the realm authority may set
    Ballots,         \* [voteType, options, hasDeny] a proposal may be created with
    Percentages,     \* weight percentages of a voter's choices
    Amounts,         \* token amounts of a deposit or revocation
    MintAmounts,     \* token amounts minted or burned outside the program
    InitialSupply,   \* [Mints -> Nat], the tokens there are to begin with
    AddinWeights,    \* weights a voter weight or max voter weight plugin reports
    SUPPLY_FRACTION_BASE,  \* 100% of a supply fraction
    MAX_OUTSTANDING, \* outstanding proposals per record, 10 in the code
    MaxSupply,       \* bound: [Mints -> Nat], the tokens of a mint there can be
    MAX_TIME,        \* bound: the last instant of the clock
    LAST_START       \* bound: the last instant a vote starts at

\* The two voting populations of a realm.
Mints == {"community", "council"}
OtherMint(mint) == CHOOSE other \in Mints : other # mint

TokenTypes == {"Liquid", "Membership", "Dormant"}

\* u64::MAX as min weight to create a proposal: creation is disabled.
WeightDisabled == -1

\* Optional timestamps: the clock starts at 1.
NotSet == 0
NoExpiry == 0

\* GovernanceConfig
ConfigType == [voteThreshold : [Mints -> 0..100],
               vetoThreshold : [Mints -> 0..100],
               voteTipping   : [Mints -> VoteTippings],
               minWeightToCreateProposal : [Mints -> Nat \cup {WeightDisabled}],
               baseTime : Nat, coolOffTime : Nat, holdUpTime : Nat, depositExempt : 0..254]

\* assert_is_valid_governance_config
ValidConfig(c) == \E mint \in Mints : c.voteThreshold[mint] # ThresholdDisabled

\* RealmConfig and RealmConfigAccount.  maxWeightSource is the one of the
\* community mint; maxWeightAddin and weightAddin say whether a plugin is set.
RealmType == [hasCouncil : BOOLEAN,
              tokenType  : [Mints -> TokenTypes],
              maxWeightSource : [kind : {"SupplyFraction", "Absolute"}, value : Nat],
              weightAddin     : [Mints -> BOOLEAN],
              maxWeightAddin  : [Mints -> BOOLEAN]]

ASSUME ConstantsAssumption ==
    /\ IsFiniteSet(Members) /\ IsFiniteSet(Proposals) /\ IsFiniteSet(Signatories)
    /\ MintOf \in [Members -> Mints]
    /\ Configs \subseteq ConfigType /\ \A c \in Configs : ValidConfig(c)
    /\ Realms \subseteq RealmType
    /\ \A b \in Ballots : ValidOptions(b.voteType, b.options)
    /\ Ballots \subseteq [voteType : VoteTypes, options : Nat, hasDeny : BOOLEAN]
    /\ Percentages \subseteq 0..100
    /\ Amounts \subseteq Nat /\ MintAmounts \subseteq Nat /\ AddinWeights \subseteq Nat
    /\ InitialSupply \in [Mints -> Nat]
    /\ SUPPLY_FRACTION_BASE \in Nat \ {0}
    /\ MAX_OUTSTANDING \in Nat /\ MaxSupply \in [Mints -> Nat]
    /\ MAX_TIME \in Nat \ {0} /\ LAST_START \in Nat

VARIABLES
    now,             \* the Clock sysvar's unix_timestamp
    realm,           \* the realm's configuration
    lockAuthorities, \* per mint, the wallets that may lock its records
    config,          \* the governance's config
    requiredSignatories,   \* the governance's RequiredSignatory accounts
    activeProposals, \* the governance's active_proposal_count
    supply,          \* per mint, the SPL mint's supply
    holding,         \* per mint, the balance of the realm's holding account
    tor,             \* TokenOwnerRecord accounts
    proposal,        \* Proposal accounts
    voteRecords,     \* VoteRecord accounts
    proposalDeposit  \* ProposalDeposit accounts, in units of the security deposit

realmVars    == <<realm, lockAuthorities>>
govVars      == <<config, requiredSignatories, activeProposals>>
tokenVars    == <<supply, holding>>
proposalVars == <<proposal, voteRecords, proposalDeposit>>
vars == <<now, realmVars, govVars, tokenVars, tor, proposalVars>>

LockType == [authority : Authorities, id : LockIds, expiry : Nat]

TokenOwnerRecordType == [deposit : Nat, unrelinquished : Nat,
                         outstanding : Nat, locks : SUBSET LockType]

ProposalStates == {"Draft", "SigningOff", "Voting", "Succeeded", "Executing",
                   "Completed", "Cancelled", "Defeated", "Vetoed"}
ActiveStates == {"Draft", "SigningOff", "Voting"}

ProposalType == [state : ProposalStates, mint : Mints, owner : Members,
                 voteType : VoteTypes, hasDeny : BOOLEAN,
                 weights : Seq(Nat), deny : Nat, veto : Nat, winners : SUBSET Nat,
                 signatories : SUBSET Signatories, signedOff : SUBSET Signatories,
                 votingAt : Nat, votingCompletedAt : Nat, closed : BOOLEAN,
                 maxVoteWeight : Nat, voteThreshold : 0..100]

VoteType == [kind : {"Approve", "Deny", "Veto"}, choices : Seq(0..100)]
VoteRecordType == [proposal : Proposals, voter : Members, vote : VoteType,
                   weight : Nat, relinquished : BOOLEAN]

\* Every account holds values of its Rust type: in particular no counter and no
\* weight that the handlers subtract from ever goes below zero.
TypeOK ==
    /\ now \in 1..MAX_TIME
    /\ realm \in RealmType
    /\ lockAuthorities \in [Mints -> SUBSET Authorities]
    /\ config \in ConfigType
    /\ requiredSignatories \in SUBSET Signatories
    /\ activeProposals \in Nat
    /\ supply \in [Mints -> Nat] /\ holding \in [Mints -> Nat]
    /\ DOMAIN tor \subseteq Members
    /\ \A m \in DOMAIN tor : tor[m] \in TokenOwnerRecordType
    /\ DOMAIN proposal \subseteq Proposals
    /\ \A p \in DOMAIN proposal : proposal[p] \in ProposalType
    /\ voteRecords \subseteq VoteRecordType
    /\ DOMAIN proposalDeposit \subseteq Proposals
    /\ \A p \in DOMAIN proposalDeposit : proposalDeposit[p] \in Nat \ {0}

-----------------------------------------------------------------------------
(* What several handlers ask of the accounts *)

\* RealmV2::assert_is_valid_governing_token_mint
IsGoverningMint(mint) == mint = "community" \/ realm.hasCouncil

\* A new account next to the existing ones.
Created(accounts, key, account) ==
    [k \in DOMAIN accounts \cup {key} |-> IF k = key THEN account ELSE accounts[k]]

\* decrease_outstanding_proposal_count, saturating_sub of active_proposal_count
DecreasedTwice(count) == count - 2
Decreased(count) == SaturatingSub(count, 1)

ActiveProposalsOf(m) ==
    {p \in DOMAIN proposal : proposal[p].owner = m /\ proposal[p].state \in ActiveStates}
LiveVotesOf(m) == {r \in voteRecords : r.voter = m /\ ~r.relinquished}
VotesOn(p) == {r \in voteRecords : r.proposal = p}

\* The weight a member votes with: the deposit, or what the plugin reports.
VoterWeights(m) ==
    IF realm.weightAddin[MintOf[m]] THEN AddinWeights ELSE {tor[m].deposit}

VotingBaseTimeEnd(p) == proposal[p].votingAt + config.baseTime
VotingMaxTimeEnd(p) == VotingBaseTimeEnd(p) + config.coolOffTime
HasVotingBaseTimeEnded(p) == VotingBaseTimeEnd(p) < now
HasVotingEndedNever(p) == FALSE
HasVotingMaxTimeEnded(p) == VotingMaxTimeEnd(p) < now
=============================================================================
