--------------------------- MODULE AccountVersions ---------------------------
(***************************************************************************)
(* Accounts that an earlier version of the governance program created.      *)
(* They are read into today's layout and, where they cannot grow, written   *)
(* back into their own: what the old layout has no room for is forgotten    *)
(* unless the writer changes the account's type.                            *)
(*                                                                         *)
(* A governance, the record of one token owner, and its proposals with one  *)
(* transaction each.  What decides a vote, who signs and when is modelled   *)
(* in Governance and Execution; an action here has the reads, the changes   *)
(* and the writes of its handler, in any outcome.  The owner is the only    *)
(* voter and a proposal is in its voting state from the start.              *)
(***************************************************************************)
EXTENDS Integers, FiniteSets

CONSTANTS
    Proposals, LegacyProposals,   \* all of them, and those that exist from the start
    RequiredOnes,                 \* signatories a governance may require
    LockIds,
    Weight,                       \* the deposit of the owner
    U32,                          \* 2^32: the old count of votes was half as wide
    LegacyTotals,                 \* total_votes_count, which followed it
    Percentages,                  \* vote thresholds
    DEFAULT_DEPOSIT_EXEMPT_PROPOSAL_COUNT

VARIABLES
    governanceAccount, recordAccount, proposalAccounts, transactionAccounts, voteAccounts,
    requiredSignatories,          \* the RequiredSignatory accounts
    agreed, granted               \* history: the config and the locks that were set
versionVars == <<governanceAccount, recordAccount, proposalAccounts, transactionAccounts, voteAccounts,
                 requiredSignatories, agreed, granted>>

Versions == {"V1", "V2"}
Disabled == -1   \* VoteThreshold::Disabled, beside percentages
Put(accounts, key, account) == [k \in DOMAIN accounts \cup {key} |-> IF k = key THEN account ELSE accounts[k]]
Drop(accounts, key) == [k \in DOMAIN accounts \ {key} |-> accounts[k]]
SaturatingSub(n) == IF n = 0 THEN 0 ELSE n - 1

-----------------------------------------------------------------------------
(* Governance: the config of old had one threshold, and zeros where three more are now *)

LegacyConfig(pct, unused) ==
    [community_vote_threshold |-> pct, council_vote_threshold |-> 0, council_veto_vote_threshold |-> 0,
     community_veto_vote_threshold |-> 0, deposit_exempt_proposal_count |-> unused]
ValidConfig(config) ==
    /\ 0 \notin {config.community_vote_threshold, config.council_vote_threshold,
                 config.council_veto_vote_threshold, config.community_veto_vote_threshold}
    /\ {config.community_vote_threshold, config.council_vote_threshold} # {Disabled}
Migrated(config) ==
    IF config.council_vote_threshold # 0 THEN config
    ELSE [config EXCEPT
            !.council_vote_threshold = config.community_vote_threshold,
            !.council_veto_vote_threshold = config.community_vote_threshold,
            !.community_veto_vote_threshold = Disabled,
            !.deposit_exempt_proposal_count = DEFAULT_DEPOSIT_EXEMPT_PROPOSAL_COUNT]

GovernanceV1(config) == [type |-> "V1", config |-> config]

ReadGovernance ==
    LET account == governanceAccount
        counts  == IF account.type = "V1" THEN [required |-> 0, active |-> 0]
                   ELSE [required |-> account.required_signatories_count,
                         active |-> account.active_proposal_count]
    IN  [type |-> account.type, config |-> Migrated(account.config),
         required_signatories_count |-> counts.required, active_proposal_count |-> counts.active]

GovernanceWritten(data) == IF data.type = "V1" THEN GovernanceV1(data.config) ELSE data

GovernanceWrittenAsV2(data) == [data EXCEPT !.type = "V2"]

-----------------------------------------------------------------------------
(* Token owner record: version 0 has two counts of votes in the place of one *)

TokenOwnerRecordV1(version, votes, outstanding) ==
    [type |-> "V1", version |-> version, unrelinquished_votes_count |-> votes,
     outstanding_proposal_count |-> outstanding]

ReadRecord ==
    LET account == recordAccount
    IN  [type |-> account.type, version |-> 1,
         unrelinquished_votes_count |-> IF account.version < 1 THEN account.unrelinquished_votes_count % U32
                                        ELSE account.unrelinquished_votes_count,
         outstanding_proposal_count |-> account.outstanding_proposal_count,
         locks |-> IF account.type = "V1" THEN {} ELSE account.locks]

RecordWritten(data) ==
    IF data.type = "V2" THEN data
    ELSE TokenOwnerRecordV1(data.version, data.unrelinquished_votes_count, data.outstanding_proposal_count)

\* A mistake: the account grows, its type stays.
RecordWrittenResizedOnly(data) == RecordWritten(data)

\* An account of the old type is shorter than any record with a lock: it grows and changes its type.
RecordWrittenWithResize(data) == RecordWritten([data EXCEPT !.type = "V2"])


-----------------------------------------------------------------------------
(* Proposals, their transactions and votes *)

Panic == [type |-> "Panic"]   \* the transaction fails and changes nothing

ProposalV1(state, yes, no) == [type |-> "V1", state |-> state, yes_votes_count |-> yes, no_votes_count |-> no]

\* The old layout has no results of options: the state of the proposal implies them.
ReadProposal(p) ==
    LET account == proposalAccounts[p]
    IN  IF account.type = "V2" THEN account
        ELSE [type |-> "V1", state |-> account.state,
              vote_weight |-> account.yes_votes_count, deny_vote_weight |-> account.no_votes_count,
              veto_vote_weight |-> 0,
              vote_result |-> IF account.state \in {"Succeeded", "Executing", "Completed"}
                              THEN "Succeeded" ELSE "None"]

ProposalWritten(data) ==
    IF data.type = "V2" THEN data
    ELSE IF data.veto_vote_weight > 0 THEN Panic
    ELSE ProposalV1(data.state, data.vote_weight, data.deny_vote_weight)

ProposalInstructionV1(executed) == [type |-> "V1", executed |-> executed]
ReadTransaction(p) ==
    LET account == transactionAccounts[p]
    IN  IF account.type = "V2" THEN account
        ELSE [type |-> "V1", instructions |-> 1, executed |-> account.executed]
TransactionWritten(data) ==
    IF data.type = "V2" THEN data
    ELSE IF data.instructions # 1 THEN Panic
    ELSE ProposalInstructionV1(data.executed)

VoteRecordV1(kind) == [type |-> "V1", vote_weight |-> <<kind, Weight>>, is_relinquished |-> FALSE]
ReadVote(p) ==
    LET account == voteAccounts[p]
    IN  IF account.type = "V2" THEN account
        ELSE [type |-> "V1", is_relinquished |-> account.is_relinquished,
              vote |-> account.vote_weight[1], voter_weight |-> account.vote_weight[2]]
VoteWritten(data) ==
    IF data.type = "V2" THEN data
    ELSE [type |-> "V1", is_relinquished |-> data.is_relinquished, vote_weight |-> <<data.vote, data.voter_weight>>]
-----------------------------------------------------------------------------
(* Handlers *)

\* What older programs leave behind: any mixture of old and new accounts.  Records of
\* the old versions may not have counted the proposal, and hold the total of votes in
\* the upper half of their count.
VersionInit ==
    /\ agreed \in {Migrated(LegacyConfig(pct, 0)) : pct \in Percentages} /\ granted = {}
    /\ governanceAccount \in
          {GovernanceV1(LegacyConfig(agreed.community_vote_threshold, 3)), GovernanceV1(agreed),
           [type |-> "V2", config |-> agreed, required_signatories_count |-> 0,
            active_proposal_count |-> Cardinality(LegacyProposals)]}
    /\ \E type \in Versions, kind \in {"None", "Approve", "Deny"} :
          /\ voteAccounts = [p \in IF kind = "None" THEN {} ELSE LegacyProposals |-> VoteRecordV1(kind)]
          /\ proposalAccounts = [p \in LegacyProposals |->
                ProposalV1("Voting", IF kind = "Approve" THEN Weight ELSE 0, IF kind = "Deny" THEN Weight ELSE 0)]
          /\ \E total \in LegacyTotals, version \in {0, 1}, counted \in {0, Cardinality(LegacyProposals)} :
                LET record == TokenOwnerRecordV1(version,
                                 Cardinality(DOMAIN voteAccounts) + (IF version = 0 THEN total * U32 ELSE 0), counted)
                IN  recordAccount = IF type = "V1" THEN record
                                    ELSE [type |-> "V2", version |-> version, locks |-> {},
                                          unrelinquished_votes_count |-> record.unrelinquished_votes_count,
                                          outstanding_proposal_count |-> counted]
    /\ transactionAccounts = [p \in LegacyProposals |-> ProposalInstructionV1(FALSE)]
    /\ requiredSignatories = {}

CreateProposal(p) ==
    LET governance == ReadGovernance
        record     == ReadRecord
    IN  /\ p \notin DOMAIN proposalAccounts
        /\ proposalAccounts' = Put(proposalAccounts, p, [type |-> "V2", state |-> "Voting",
              vote_weight |-> 0, deny_vote_weight |-> 0, veto_vote_weight |-> 0, vote_result |-> "None"])
        /\ transactionAccounts' = Put(transactionAccounts, p, [type |-> "V2", instructions |-> 2, executed |-> FALSE])
        /\ recordAccount' = RecordWritten([record EXCEPT !.outstanding_proposal_count = @ + 1])
        /\ governanceAccount' = GovernanceWrittenAsV2([governance EXCEPT !.active_proposal_count = @ + 1])
        /\ UNCHANGED <<voteAccounts, requiredSignatories, agreed, granted>>

IsVoting(p) == p \in DOMAIN proposalAccounts /\ ReadProposal(p).state = "Voting"

\* The vote on p ends in the given state.
Decided(data, state) ==
    [data EXCEPT !.state = state,
                 !.vote_result = IF state \in {"Succeeded", "Defeated"} THEN state ELSE @]
Released(record) == [record EXCEPT !.outstanding_proposal_count = SaturatingSub(@)]
GovernanceReleased ==
    LET governance == ReadGovernance
    IN  GovernanceWritten([governance EXCEPT !.active_proposal_count = SaturatingSub(@)])

Counted(data, vote, weight) ==
    CASE vote = "Approve" -> [data EXCEPT !.vote_weight = @ + weight]
      [] vote = "Deny"    -> [data EXCEPT !.deny_vote_weight = @ + weight]
      [] vote = "Veto"    -> [data EXCEPT !.veto_vote_weight = @ + weight]

Outcomes(vote) == {"Voting", CASE vote = "Approve" -> "Succeeded" [] vote = "Deny" -> "Defeated" [] OTHER -> "Vetoed"}

CastVote(p, vote, state) ==
    LET record  == [ReadRecord EXCEPT !.unrelinquished_votes_count = @ + 1]
        counted == Counted(ReadProposal(p), vote, Weight)
        tips    == state # "Voting"
        written == ProposalWritten(IF tips THEN Decided(counted, state) ELSE counted)
    IN  /\ IsVoting(p) /\ p \notin DOMAIN voteAccounts /\ state \in Outcomes(vote)
        /\ written # Panic
        /\ recordAccount' = RecordWritten(IF tips THEN Released(record) ELSE record)
        /\ governanceAccount' = IF tips THEN GovernanceReleased ELSE governanceAccount
        /\ proposalAccounts' = Put(proposalAccounts, p, written)
        /\ voteAccounts' = Put(voteAccounts, p,
              [type |-> "V2", is_relinquished |-> FALSE, vote |-> vote, voter_weight |-> Weight])
        /\ UNCHANGED <<transactionAccounts, requiredSignatories, agreed, granted>>

RelinquishVote(p) ==
    LET record == ReadRecord
        vote   == ReadVote(p)
        kept   == VoteWritten([vote EXCEPT !.is_relinquished = TRUE])
        uncounted == ProposalWritten(Counted(ReadProposal(p), vote.vote, -vote.voter_weight))
    IN  /\ p \in DOMAIN voteAccounts /\ ~vote.is_relinquished
        /\ IF IsVoting(p)
           THEN voteAccounts' = Drop(voteAccounts, p) /\ proposalAccounts' = Put(proposalAccounts, p, uncounted)
           ELSE voteAccounts' = Put(voteAccounts, p, kept) /\ UNCHANGED proposalAccounts
        /\ recordAccount' = RecordWritten([record EXCEPT !.unrelinquished_votes_count = @ - 1])
        /\ UNCHANGED <<governanceAccount, transactionAccounts, requiredSignatories, agreed, granted>>

\* FinalizeVote and CancelProposal
EndVote(p, state) ==
    /\ IsVoting(p)
    /\ proposalAccounts' = Put(proposalAccounts, p, ProposalWritten(Decided(ReadProposal(p), state)))
    /\ recordAccount' = RecordWritten(Released(ReadRecord))
    /\ governanceAccount' = GovernanceReleased
    /\ UNCHANGED <<voteAccounts, transactionAccounts, requiredSignatories, agreed, granted>>
FinalizeVote(p)   == \E state \in {"Succeeded", "Defeated"} : EndVote(p, state)
CancelProposal(p) == EndVote(p, "Cancelled")

\* A proposal has one transaction: its execution completes it.
ExecuteTransaction(p) ==
    LET data        == ReadProposal(p)
        transaction == ReadTransaction(p)
    IN  /\ p \in DOMAIN proposalAccounts
        /\ data.state = "Succeeded" /\ data.vote_result = "Succeeded" /\ ~transaction.executed
        /\ proposalAccounts' = Put(proposalAccounts, p, ProposalWritten([data EXCEPT !.state = "Completed"]))
        /\ transactionAccounts' = Put(transactionAccounts, p, TransactionWritten([transaction EXCEPT !.executed = TRUE]))
        /\ UNCHANGED <<governanceAccount, recordAccount, voteAccounts, requiredSignatories, agreed, granted>>

SetGovernanceConfig(config) ==
    /\ ValidConfig(config)
    /\ governanceAccount' = GovernanceWritten([ReadGovernance EXCEPT !.config = config])
    /\ agreed' = config
    /\ UNCHANGED <<recordAccount, proposalAccounts, transactionAccounts, voteAccounts, requiredSignatories, granted>>

AddRequiredSignatory(s) ==
    /\ s \notin requiredSignatories
    /\ governanceAccount' = GovernanceWritten([ReadGovernance EXCEPT !.required_signatories_count = @ + 1])
    /\ requiredSignatories' = requiredSignatories \cup {s}
    /\ UNCHANGED <<recordAccount, proposalAccounts, transactionAccounts, voteAccounts, agreed, granted>>

RemoveRequiredSignatory(s) ==
    /\ s \in requiredSignatories
    /\ ReadGovernance.required_signatories_count > 0
    /\ governanceAccount' = GovernanceWritten([ReadGovernance EXCEPT !.required_signatories_count = @ - 1])
    /\ requiredSignatories' = requiredSignatories \ {s}
    /\ UNCHANGED <<recordAccount, proposalAccounts, transactionAccounts, voteAccounts, agreed, granted>>

SetTokenOwnerRecordLock(id) ==
    /\ recordAccount' = RecordWrittenWithResize([ReadRecord EXCEPT !.locks = @ \cup {id}])
    /\ granted' = granted \cup {id}
    /\ UNCHANGED <<governanceAccount, proposalAccounts, transactionAccounts, voteAccounts, requiredSignatories, agreed>>

RelinquishTokenOwnerRecordLocks(id) ==
    /\ id \in ReadRecord.locks
    /\ recordAccount' = RecordWritten([ReadRecord EXCEPT !.locks = @ \ {id}])
    /\ granted' = granted \ {id}
    /\ UNCHANGED <<governanceAccount, proposalAccounts, transactionAccounts, voteAccounts, requiredSignatories, agreed>>

NewConfig(pct) ==
    [community_vote_threshold |-> pct, council_vote_threshold |-> Disabled, council_veto_vote_threshold |-> Disabled,
     community_veto_vote_threshold |-> pct, deposit_exempt_proposal_count |-> 0]

VersionNext ==
    \/ \E p \in Proposals :
          \/ CreateProposal(p) \/ RelinquishVote(p) \/ FinalizeVote(p) \/ CancelProposal(p) \/ ExecuteTransaction(p)
          \/ \E vote \in {"Approve", "Deny", "Veto"} : \E state \in Outcomes(vote) : CastVote(p, vote, state)
    \/ \E pct \in Percentages : SetGovernanceConfig(NewConfig(pct))
    \/ \E s \in RequiredOnes : AddRequiredSignatory(s) \/ RemoveRequiredSignatory(s)
    \/ \E id \in LockIds : SetTokenOwnerRecordLock(id) \/ RelinquishTokenOwnerRecordLocks(id)

-----------------------------------------------------------------------------
(* Properties *)

ActiveOnes == {p \in DOMAIN proposalAccounts : IsVoting(p)}
LiveVotes  == {p \in DOMAIN voteAccounts : ~ReadVote(p).is_relinquished}

\* Counters that an old account did not have, or drops, run behind what they count and
\* never ahead: a deposit, a limit or a required signature is never asked for something
\* that is not there.  The count of live votes is kept by every version.
CountersNeverAhead ==
    /\ ReadGovernance.active_proposal_count <= Cardinality(ActiveOnes)
    /\ ReadGovernance.required_signatories_count <= Cardinality(requiredSignatories)
    /\ ReadRecord.outstanding_proposal_count <= Cardinality(ActiveOnes)
    /\ ReadRecord.unrelinquished_votes_count = Cardinality(LiveVotes)

\* A vote weighs in the proposal what its record says, in whatever mixture of versions
\* they are stored, until the vote is decided; and an option reads as succeeded exactly
\* when the state of its proposal says so.
VotesAndResultsKept ==
    \A p \in DOMAIN proposalAccounts :
        LET data == ReadProposal(p)
            cast(vote) == IF p \in DOMAIN voteAccounts /\ ReadVote(p).vote = vote
                          THEN ReadVote(p).voter_weight ELSE 0
        IN  /\ data.vote_weight = cast("Approve") /\ data.deny_vote_weight = cast("Deny")
            /\ data.veto_vote_weight = cast("Veto")
            /\ data.vote_result = "Succeeded" <=> data.state \in {"Succeeded", "Completed"}
            /\ data.state = "Completed" => ReadTransaction(p).executed

\* Writing an account for the sake of one field keeps the others: a config reads as it was
\* last agreed, migrated once and not again, and no lock is lost.
AccountsKept == ReadGovernance.config = agreed /\ ReadRecord.locks = granted

\* The three together (state/governance.rs, token_owner_record.rs, proposal.rs: serialize
\* and the functions that read the accounts).
VersionsSound == CountersNeverAhead /\ VotesAndResultsKept /\ AccountsKept
=============================================================================
