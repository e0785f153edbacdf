--------------------------- MODULE FoundationsProofs ---------------------------
(***************************************************************************)
(* Theorems about what the governance program stands on, for every weight, *)
(* threshold, number of proposals, signatories, locks, realms and wallets: *)
(* votes are decided exactly, accounts of two versions keep what they say, *)
(* and authority over a realm passes from hand to hand.                    *)
(***************************************************************************)
EXTENDS Foundations, OperatorLemmas

-----------------------------------------------------------------------------
(* Votes *)

VoteInv ==
    /\ max \in Nat /\ pct \in Thresholds /\ tipping \in VoteTippings
    /\ yes \in Nat /\ deny \in Nat

LEMMA VoteInvHolds ==
  /\ Init => VoteInv
  /\ VoteInv /\ (Next \/ UNCHANGED vars) => VoteInv'
<1>1. Init => VoteInv
  BY VoteTalliesAssumption DEF Init, VoteInv
<1>2. VoteInv /\ (Next \/ UNCHANGED vars) => VoteInv'
  BY DEF VoteInv, Next, CastYes, CastDeny, vars
<1>. QED
  BY <1>1, <1>2

LEMMA TallyIsDecidedExactly ==
  ASSUME VoteInv
  PROVE  TallyDecidedExactly
<1>1. pct \in 0..100 /\ max \in Nat /\ thr = MinVoteThresholdWeight(pct, max)
  BY VoteTalliesAssumption DEF VoteInv, thr
<1>2. thr \in 0..max /\ ThresholdIsLeastSufficient(pct, max)
  BY <1>1, ThresholdIsExactAlways
<1>3. /\ TipAgreesWithResolution(yes, deny, max, thr, tipping)
      /\ TipIsIrreversible(yes, deny, max, thr, tipping)
  BY <1>1, <1>2, TipAgreesAlways, TipIsFinalAlways DEF VoteInv
<1>4. SpreadKeepsWeight
  <2>1. ASSUME NEW a \in Thresholds, NEW b \in Thresholds, a + b <= 100
        PROVE  SpreadVoteKeepsWeight(<<a, b, 100 - a - b>>, max)
    <3>1. a \in 0..100 /\ b \in 0..100 /\ 100 - a - b \in 0..100
      BY <2>1, VoteTalliesAssumption
    <3>2. <<a, b, 100 - a - b>> \in Seq(0..100)
      BY <3>1
    <3>. QED  BY <1>1, <3>2, SpreadKeepsWeightAlways
  <2>. QED  BY <2>1 DEF SpreadKeepsWeight
<1>. QED
  BY <1>2, <1>3, <1>4 DEF TallyDecidedExactly

-----------------------------------------------------------------------------
(* Realms *)

\* The inductive invariant: a realm has the two fields that handlers read.
RealmInv ==
    /\ \A r \in DOMAIN realms : "authority" \in DOMAIN realms[r]
    /\ RealmsOf!CheckedAuthorityActs

LEMMA RealmInitInv == RealmsOf!RealmInit => RealmInv
BY DEF RealmsOf!RealmInit, RealmInv, RealmsOf!CheckedAuthorityActs

\* Creating realms, governances and treasuries, and deposits.
LEMMA OpenStepKeepsRealms ==
  ASSUME RealmInv, RealmsOf!OpenStep
  PROVE  RealmInv' /\ RealmsOf!PassedOn
<1>1. ASSUME NEW r \in Names, NEW a \in Keys \cup RealmsOf!Address, NEW w \in MinWeights,
             RealmsOf!CreateRealm(r, a, w)
      PROVE  RealmInv' /\ RealmsOf!PassedOn
  <2>1. /\ r \notin DOMAIN realms /\ DOMAIN realms' = DOMAIN realms \cup {r}
        /\ \A n \in DOMAIN realms : realms'[n] = realms[n]
        /\ "authority" \in DOMAIN realms'[r] /\ realms'[r].authority = a
        /\ unchecked' = IF a \in RealmsOf!Address THEN unchecked \cup {r} ELSE unchecked
        /\ governances' = governances /\ treasuries' = treasuries
    BY <1>1 DEF RealmsOf!CreateRealm
  <2>2. RealmInv'
    BY <2>1 DEF RealmInv, RealmsOf!CheckedAuthorityActs
  <2>. QED  BY <2>1, <2>2 DEF RealmsOf!PassedOn
<1>2. ASSUME NEW key \in RecordKeys, NEW amount \in 0..MAX_DEPOSIT, RealmsOf!Deposit(key, amount)
      PROVE  RealmInv' /\ RealmsOf!PassedOn
  BY <1>2 DEF RealmsOf!Deposit, RealmInv, RealmsOf!CheckedAuthorityActs, RealmsOf!PassedOn
<1>3. ASSUME NEW g \in governances, RealmsOf!CreateNativeTreasury(g)
      PROVE  RealmInv' /\ RealmsOf!PassedOn
  BY <1>3 DEF RealmsOf!CreateNativeTreasury, RealmInv, RealmsOf!CheckedAuthorityActs, RealmsOf!PassedOn
<1>. QED
  BY <1>1, <1>2, <1>3 DEF RealmsOf!OpenStep

\* What somebody signs: handing on the authority, creating governances, delegating.
LEMMA SignedStepKeepsRealms ==
  ASSUME RealmInv, NEW signer \in RealmsOf!Signers, RealmsOf!SignedStep(signer), lastSigner' = signer
  PROVE  RealmInv' /\ RealmsOf!PassedOn
<1>1. ASSUME NEW r \in Names, NEW action \in {"SetChecked", "SetUnchecked", "Remove"},
             NEW new \in Keys \cup RealmsOf!Address \cup {NoKey},
             RealmsOf!SetRealmAuthority(r, signer, action, new)
      PROVE  RealmInv' /\ RealmsOf!PassedOn
  <2>1. /\ r \in DOMAIN realms /\ realms[r].authority = signer /\ "authority" \in DOMAIN realms[r]
        /\ realms' = [realms EXCEPT ![r].authority = new]
        /\ governances' = governances /\ treasuries' = treasuries
    BY <1>1 DEF RealmsOf!SetRealmAuthority, RealmsOf!IsAuthority, RealmInv
  <2>2. /\ DOMAIN realms' = DOMAIN realms
        /\ \A n \in DOMAIN realms : n # r => realms'[n] = realms[n]
        /\ realms'[r] = [realms[r] EXCEPT !.authority = new]
        /\ DOMAIN realms'[r] = DOMAIN realms[r] /\ realms'[r].authority = new
    BY <2>1
  <2>3. /\ r \notin unchecked' => (new \in governances /\ new[1] = r) \/ new = NoKey
        /\ unchecked \subseteq unchecked'
    BY <1>1 DEF RealmsOf!SetRealmAuthority
  <2>4. RealmInv'
    BY <2>1, <2>2, <2>3 DEF RealmInv, RealmsOf!CheckedAuthorityActs
  <2>. QED  BY <2>1, <2>2, <2>4 DEF RealmsOf!PassedOn
<1>2. ASSUME NEW r \in Names, NEW seed \in Seeds, NEW key \in RecordKeys,
             RealmsOf!CreateGovernance(r, seed, key, signer)
      PROVE  RealmInv' /\ RealmsOf!PassedOn
  BY <1>2 DEF RealmsOf!CreateGovernance, RealmInv, RealmsOf!CheckedAuthorityActs, RealmsOf!PassedOn
<1>3. ASSUME NEW key \in RecordKeys, NEW new \in Keys \cup {NoKey},
             RealmsOf!SetGovernanceDelegate(key, signer, new)
      PROVE  RealmInv' /\ RealmsOf!PassedOn
  BY <1>3 DEF RealmsOf!SetGovernanceDelegate, RealmInv, RealmsOf!CheckedAuthorityActs, RealmsOf!PassedOn
<1>. QED
  BY <1>1, <1>2, <1>3 DEF RealmsOf!SignedStep

LEMMA RealmStep ==
  ASSUME RealmInv, RealmsOf!RealmNext
  PROVE  RealmInv' /\ RealmsOf!PassedOn /\ RealmsOf!CheckedAuthorityActs'
BY OpenStepKeepsRealms, SignedStepKeepsRealms DEF RealmsOf!RealmNext, RealmInv

-----------------------------------------------------------------------------
(* Accounts of two versions: what is read from what is stored *)

RequiredOf(a)    == IF a.type = "V1" THEN 0 ELSE a.required_signatories_count
ActiveOf(a)      == IF a.type = "V1" THEN 0 ELSE a.active_proposal_count
VotesOf(a)       == IF a.version < 1 THEN a.unrelinquished_votes_count % U32 ELSE a.unrelinquished_votes_count
LocksOf(a)       == IF a.type = "V1" THEN {} ELSE a.locks

DataOf(a) ==
    IF a.type = "V2" THEN a
    ELSE [type |-> "V1", state |-> a.state,
          vote_weight |-> a.yes_votes_count, deny_vote_weight |-> a.no_votes_count, veto_vote_weight |-> 0,
          vote_result |-> IF a.state \in {"Succeeded", "Executing", "Completed"} THEN "Succeeded" ELSE "None"]
VoteOf(a) == IF a.type = "V2" THEN a.vote ELSE a.vote_weight[1]

\* The governance's account reads as the config that was agreed, migrated or not.
GovernanceFits ==
    /\ governanceAccount.type \in {"V1", "V2"}
    /\ agreed.council_vote_threshold # 0 /\ Accounts!Migrated(governanceAccount.config) = agreed
    /\ RequiredOf(governanceAccount) \in Nat /\ ActiveOf(governanceAccount) \in Nat

IsGovernanceData(g) ==
    /\ DOMAIN g = {"type", "config", "required_signatories_count", "active_proposal_count"}
    /\ g.type \in {"V1", "V2"} /\ g.config.council_vote_threshold # 0
    /\ g.required_signatories_count \in Nat /\ g.active_proposal_count \in Nat

LEMMA GovernanceRead ==
  ASSUME GovernanceFits
  PROVE  LET g == Accounts!ReadGovernance IN
         /\ IsGovernanceData(g) /\ g.config = agreed
         /\ g.required_signatories_count = RequiredOf(governanceAccount)
         /\ g.active_proposal_count = ActiveOf(governanceAccount)
BY DEF GovernanceFits, IsGovernanceData, Accounts!ReadGovernance, RequiredOf, ActiveOf

\* Writing keeps the counters, or forgets them.
LEMMA GovernanceWritten ==
  ASSUME NEW g, IsGovernanceData(g), agreed' = g.config,
         \/ governanceAccount' = Accounts!GovernanceWritten(g)
         \/ governanceAccount' = Accounts!GovernanceWrittenAsV2(g)
  PROVE  /\ GovernanceFits'
         /\ RequiredOf(governanceAccount)' <= g.required_signatories_count
         /\ ActiveOf(governanceAccount)' <= g.active_proposal_count
<1>1. Accounts!Migrated(g.config) = g.config
  BY DEF IsGovernanceData, Accounts!Migrated
<1>2. /\ governanceAccount'.type \in {"V1", "V2"} /\ governanceAccount'.config = g.config
      /\ governanceAccount'.type = "V2" =>
            /\ governanceAccount'.required_signatories_count = g.required_signatories_count
            /\ governanceAccount'.active_proposal_count = g.active_proposal_count
  BY DEF IsGovernanceData, Accounts!GovernanceWritten, Accounts!GovernanceWrittenAsV2, Accounts!GovernanceV1
<1>. QED
  BY <1>1, <1>2 DEF IsGovernanceData, GovernanceFits, RequiredOf, ActiveOf

\* The record reads with the locks that were granted.
RecordFits ==
    /\ recordAccount.type \in {"V1", "V2"} /\ recordAccount.version \in Int
    /\ LocksOf(recordAccount) = granted
    /\ VotesOf(recordAccount) \in Nat /\ recordAccount.outstanding_proposal_count \in Nat

IsRecordData(r) ==
    /\ DOMAIN r = {"type", "version", "unrelinquished_votes_count", "outstanding_proposal_count", "locks"}
    /\ r.type \in {"V1", "V2"} /\ r.version = 1
    /\ r.unrelinquished_votes_count \in Nat /\ r.outstanding_proposal_count \in Nat

LEMMA RecordRead ==
  ASSUME RecordFits
  PROVE  LET r == Accounts!ReadRecord IN
         /\ IsRecordData(r) /\ r.locks = granted /\ (r.type = "V1" => r.locks = {})
         /\ r.unrelinquished_votes_count = VotesOf(recordAccount)
         /\ r.outstanding_proposal_count = recordAccount.outstanding_proposal_count
BY DEF RecordFits, IsRecordData, Accounts!ReadRecord, VotesOf, LocksOf

LEMMA RecordWritten ==
  ASSUME NEW r, IsRecordData(r), granted' = r.locks,
         \/ recordAccount' = Accounts!RecordWritten(r) /\ (r.type = "V1" => r.locks = {})
         \/ recordAccount' = Accounts!RecordWrittenWithResize(r)
  PROVE  /\ RecordFits'
         /\ VotesOf(recordAccount)' = r.unrelinquished_votes_count
         /\ recordAccount'.outstanding_proposal_count = r.outstanding_proposal_count
<1>1. /\ recordAccount'.version = 1 /\ recordAccount'.unrelinquished_votes_count = r.unrelinquished_votes_count
      /\ recordAccount'.outstanding_proposal_count = r.outstanding_proposal_count
      /\ \/ recordAccount'.type = "V1" /\ r.locks = {}
         \/ recordAccount'.type = "V2" /\ recordAccount'.locks = r.locks
  BY DEF IsRecordData, Accounts!RecordWritten, Accounts!RecordWrittenWithResize, Accounts!TokenOwnerRecordV1
<1>. QED
  BY <1>1 DEF IsRecordData, RecordFits, VotesOf, LocksOf

-----------------------------------------------------------------------------
(* Proposals, their transactions and votes *)

States == {"Voting", "Succeeded", "Defeated", "Vetoed", "Cancelled", "Completed"}
Kinds  == {"Approve", "Deny", "Veto"}

\* A proposal as handlers see it.  The old layout has no veto votes.
IsData(d) ==
    /\ DOMAIN d = {"type", "state", "vote_weight", "deny_vote_weight", "veto_vote_weight", "vote_result"}
    /\ d.type \in {"V1", "V2"} /\ d.state \in States
    /\ d.vote_weight \in Nat /\ d.deny_vote_weight \in Nat /\ d.veto_vote_weight \in Nat
    /\ d.type = "V1" => d.veto_vote_weight = 0
    /\ d.vote_result = "Succeeded" <=> d.state \in {"Succeeded", "Completed"}

SameVotes(d, e) ==
    /\ d.state = e.state /\ d.vote_weight = e.vote_weight
    /\ d.deny_vote_weight = e.deny_vote_weight /\ d.veto_vote_weight = e.veto_vote_weight

LEMMA ProposalRead ==
  ASSUME NEW p
  PROVE  /\ Accounts!ReadProposal(p) = DataOf(proposalAccounts[p])
         /\ Accounts!ReadProposal(p)' = DataOf(proposalAccounts'[p])
BY DEF Accounts!ReadProposal, DataOf

LEMMA ProposalWritten ==
  ASSUME NEW d, IsData(d)
  PROVE  /\ IsData(DataOf(Accounts!ProposalWritten(d)))
         /\ SameVotes(DataOf(Accounts!ProposalWritten(d)), d)
<1>1. CASE d.type = "V2"
  BY <1>1 DEF Accounts!ProposalWritten, DataOf, SameVotes
<1>2. CASE d.type = "V1"
  <2>1. Accounts!ProposalWritten(d) = [type |-> "V1", state |-> d.state, yes_votes_count |-> d.vote_weight,
                                       no_votes_count |-> d.deny_vote_weight]
    BY <1>2 DEF IsData, Accounts!ProposalWritten, Accounts!ProposalV1
  <2>2. DataOf(Accounts!ProposalWritten(d)) =
           [type |-> "V1", state |-> d.state, vote_weight |-> d.vote_weight,
            deny_vote_weight |-> d.deny_vote_weight, veto_vote_weight |-> 0,
            vote_result |-> IF d.state \in {"Succeeded", "Executing", "Completed"} THEN "Succeeded" ELSE "None"]
    BY <2>1 DEF DataOf
  <2>. QED  BY <1>2, <2>2 DEF IsData, SameVotes, States
<1>. QED
  BY <1>1, <1>2 DEF IsData

IsTransaction(a) ==
    \/ a.type = "V1"
    \/ a.type = "V2" /\ DOMAIN a = {"type", "instructions", "executed"}

LEMMA TransactionRead ==
  ASSUME NEW p, IsTransaction(transactionAccounts[p])
  PROVE  Accounts!ReadTransaction(p).executed = transactionAccounts[p].executed
BY DEF IsTransaction, Accounts!ReadTransaction

LEMMA TransactionWritten ==
  ASSUME NEW p, IsTransaction(transactionAccounts[p]), NEW a,
         a = Accounts!TransactionWritten([Accounts!ReadTransaction(p) EXCEPT !.executed = TRUE])
  PROVE  IsTransaction(a) /\ a.executed = TRUE
BY DEF IsTransaction, Accounts!ReadTransaction, Accounts!TransactionWritten, Accounts!ProposalInstructionV1

IsVote(a) ==
    /\ \/ a.type = "V1" /\ a.vote_weight[2] = Weight
       \/ /\ a.type = "V2" /\ DOMAIN a = {"type", "is_relinquished", "vote", "voter_weight"}
          /\ a.voter_weight = Weight
    /\ VoteOf(a) \in Kinds /\ a.is_relinquished \in BOOLEAN

LEMMA VoteRead ==
  ASSUME NEW p, IsVote(voteAccounts[p])
  PROVE  LET vote == Accounts!ReadVote(p) IN
         /\ vote.vote = VoteOf(voteAccounts[p]) /\ vote.voter_weight = Weight
         /\ vote.is_relinquished = voteAccounts[p].is_relinquished
BY DEF IsVote, Accounts!ReadVote, VoteOf

LEMMA VoteWritten ==
  ASSUME NEW p, IsVote(voteAccounts[p]), NEW a,
         a = Accounts!VoteWritten([Accounts!ReadVote(p) EXCEPT !.is_relinquished = TRUE])
  PROVE  IsVote(a) /\ VoteOf(a) = VoteOf(voteAccounts[p]) /\ a.is_relinquished = TRUE
<1>1. CASE voteAccounts[p].type = "V1"
  BY <1>1 DEF IsVote, Accounts!ReadVote, Accounts!VoteWritten, VoteOf
<1>2. CASE voteAccounts[p].type = "V2"
  BY <1>2 DEF IsVote, Accounts!ReadVote, Accounts!VoteWritten, VoteOf
<1>. QED
  BY <1>1, <1>2 DEF IsVote

-----------------------------------------------------------------------------
(* The inductive invariant *)

\* What the vote on a proposal gives to one of its options.
CastFor(p, kind) == IF p \in DOMAIN voteAccounts /\ VoteOf(voteAccounts[p]) = kind THEN Weight ELSE 0

ProposalFits(p) ==
    LET d == DataOf(proposalAccounts[p])
    IN  /\ IsData(d) /\ IsTransaction(transactionAccounts[p])
        /\ d.vote_weight = CastFor(p, "Approve") /\ d.deny_vote_weight = CastFor(p, "Deny")
        /\ d.veto_vote_weight = CastFor(p, "Veto")
        /\ d.state = "Completed" => transactionAccounts[p].executed = TRUE

AccountsFit ==
    /\ IsFiniteSet(DOMAIN proposalAccounts) /\ DOMAIN transactionAccounts = DOMAIN proposalAccounts
    /\ DOMAIN voteAccounts \subseteq DOMAIN proposalAccounts
    /\ \A p \in DOMAIN proposalAccounts : ProposalFits(p)
    /\ \A p \in DOMAIN voteAccounts : IsVote(voteAccounts[p])

VotedOn == {p \in DOMAIN proposalAccounts : DataOf(proposalAccounts[p]).state = "Voting"}
Live    == {p \in DOMAIN voteAccounts : ~voteAccounts[p].is_relinquished}

CountersFit ==
    /\ IsFiniteSet(requiredSignatories)
    /\ ActiveOf(governanceAccount) <= Cardinality(VotedOn)
    /\ RequiredOf(governanceAccount) <= Cardinality(requiredSignatories)
    /\ recordAccount.outstanding_proposal_count <= Cardinality(VotedOn)
    /\ VotesOf(recordAccount) = Cardinality(Live)

AccountInv == GovernanceFits /\ RecordFits /\ AccountsFit /\ CountersFit

\* The instance counts as the library does.
LEMMA SameCount == ASSUME NEW S PROVE Accounts!Cardinality(S) = Cardinality(S)
BY DEF Accounts!Cardinality, Cardinality

LEMMA InvImpliesSound ==
  ASSUME AccountInv
  PROVE  Accounts!VersionsSound
<1>1. Accounts!ActiveOnes = VotedOn
  BY ProposalRead DEF Accounts!ActiveOnes, Accounts!IsVoting, VotedOn
<1>2. Accounts!LiveVotes = Live
  BY VoteRead DEF AccountInv, AccountsFit, Accounts!LiveVotes, Live
<1>3. Accounts!CountersNeverAhead
  <2>1. /\ Accounts!ReadGovernance.required_signatories_count = RequiredOf(governanceAccount)
        /\ Accounts!ReadGovernance.active_proposal_count = ActiveOf(governanceAccount)
        /\ Accounts!ReadRecord.unrelinquished_votes_count = VotesOf(recordAccount)
        /\ Accounts!ReadRecord.outstanding_proposal_count = recordAccount.outstanding_proposal_count
    BY GovernanceRead, RecordRead DEF AccountInv
  <2>. QED  BY <1>1, <1>2, <2>1, SameCount DEF AccountInv, CountersFit, Accounts!CountersNeverAhead
<1>4. Accounts!AccountsKept
  BY GovernanceRead, RecordRead DEF AccountInv, Accounts!AccountsKept
<1>5. ASSUME NEW p \in DOMAIN proposalAccounts
      PROVE  LET data == Accounts!ReadProposal(p)
                 cast(vote) == IF p \in DOMAIN voteAccounts /\ Accounts!ReadVote(p).vote = vote
                               THEN Accounts!ReadVote(p).voter_weight ELSE 0
             IN  /\ data.vote_weight = cast("Approve") /\ data.deny_vote_weight = cast("Deny")
                 /\ data.veto_vote_weight = cast("Veto")
                 /\ data.vote_result = "Succeeded" <=> data.state \in {"Succeeded", "Completed"}
                 /\ data.state = "Completed" => Accounts!ReadTransaction(p).executed
  <2>1. ProposalFits(p) /\ (p \in DOMAIN voteAccounts => IsVote(voteAccounts[p]))
    BY DEF AccountInv, AccountsFit
  <2>2. p \in DOMAIN voteAccounts => /\ Accounts!ReadVote(p).vote = VoteOf(voteAccounts[p])
                                     /\ Accounts!ReadVote(p).voter_weight = Weight
    BY <2>1, VoteRead
  <2>3. Accounts!ReadTransaction(p).executed = transactionAccounts[p].executed
    BY <2>1, TransactionRead DEF ProposalFits
  <2>. QED  BY <2>1, <2>2, <2>3, ProposalRead DEF ProposalFits, CastFor, IsData
<1>. QED
  BY <1>3, <1>4, <1>5 DEF Accounts!VersionsSound, Accounts!VotesAndResultsKept

-----------------------------------------------------------------------------
(* Initial accounts *)

\* A count of votes in the lower half of an old number is read without the upper half.
LEMMA LowerHalf ==
  ASSUME NEW n \in Nat, NEW total \in Nat, n < U32
  PROVE  (n + total * U32) % U32 = n
<1>. DEFINE v == total * U32
<1>1. v \in Nat /\ v = total * U32 /\ U32 \in Nat /\ U32 > 0
  BY FoundationsAssumption
<1>. QED
  BY <1>1

LEMMA VersionInitFits ==
  ASSUME Accounts!VersionInit
  PROVE  AccountInv
<1>1. PICK percent \in Percentages : agreed = Accounts!Migrated(Accounts!LegacyConfig(percent, 0))
  BY DEF Accounts!VersionInit
<1>2. percent \in 1..100
  BY FoundationsAssumption
<1>. DEFINE N == Cardinality(LegacyProposals)
<1>3. N \in Nat /\ N < U32 /\ Accounts!Cardinality(LegacyProposals) = N /\ IsFiniteSet(LegacyProposals)
  BY FoundationsAssumption, FS_CardinalityType, SameCount
<1>. HIDE DEF N
<1>4. GovernanceFits
  <2>1. /\ agreed.council_vote_threshold = percent /\ agreed.community_vote_threshold = percent
        /\ agreed = [community_vote_threshold |-> percent, council_vote_threshold |-> percent,
                     council_veto_vote_threshold |-> percent, community_veto_vote_threshold |-> Accounts!Disabled,
                     deposit_exempt_proposal_count |-> DEFAULT_DEPOSIT_EXEMPT_PROPOSAL_COUNT]
    BY <1>1, <1>2 DEF Accounts!Migrated, Accounts!LegacyConfig
  <2>2. /\ Accounts!Migrated(agreed) = agreed
        /\ Accounts!Migrated(Accounts!LegacyConfig(agreed.community_vote_threshold, 3)) = agreed
    <3>1. Accounts!Migrated(Accounts!LegacyConfig(percent, 3)) =
             [community_vote_threshold |-> percent, council_vote_threshold |-> percent,
              council_veto_vote_threshold |-> percent, community_veto_vote_threshold |-> Accounts!Disabled,
              deposit_exempt_proposal_count |-> DEFAULT_DEPOSIT_EXEMPT_PROPOSAL_COUNT]
      BY <1>2 DEF Accounts!Migrated, Accounts!LegacyConfig
    <3>2. Accounts!Migrated(agreed) = agreed
      BY <1>2, <2>1 DEF Accounts!Migrated
    <3>3. Accounts!Migrated(Accounts!LegacyConfig(percent, 3)) = agreed
      BY <2>1, <3>1
    <3>. QED  BY <2>1, <3>2, <3>3
  <2>3. governanceAccount \in
           {Accounts!GovernanceV1(Accounts!LegacyConfig(agreed.community_vote_threshold, 3)),
            Accounts!GovernanceV1(agreed),
            [type |-> "V2", config |-> agreed, required_signatories_count |-> 0, active_proposal_count |-> N]}
    BY <1>3 DEF Accounts!VersionInit
  <2>. QED  BY <1>2, <1>3, <2>1, <2>2, <2>3 DEF Accounts!GovernanceV1, GovernanceFits, RequiredOf, ActiveOf
<1>5. PICK type \in Accounts!Versions, kind \in {"None", "Approve", "Deny"} :
         /\ voteAccounts = [p \in IF kind = "None" THEN {} ELSE LegacyProposals |-> Accounts!VoteRecordV1(kind)]
         /\ proposalAccounts = [p \in LegacyProposals |->
               Accounts!ProposalV1("Voting", IF kind = "Approve" THEN Weight ELSE 0,
                                             IF kind = "Deny" THEN Weight ELSE 0)]
         /\ \E total \in LegacyTotals, version \in {0, 1}, counted \in {0, Accounts!Cardinality(LegacyProposals)} :
               LET record == Accounts!TokenOwnerRecordV1(version,
                                Accounts!Cardinality(DOMAIN voteAccounts) + (IF version = 0 THEN total * U32 ELSE 0),
                                counted)
               IN  recordAccount = IF type = "V1" THEN record
                                   ELSE [type |-> "V2", version |-> version, locks |-> {},
                                         unrelinquished_votes_count |-> record.unrelinquished_votes_count,
                                         outstanding_proposal_count |-> counted]
  BY DEF Accounts!VersionInit
<1>6. AccountsFit /\ VotedOn = LegacyProposals /\ Live = DOMAIN voteAccounts
  <2>1. /\ DOMAIN proposalAccounts = LegacyProposals /\ DOMAIN voteAccounts \subseteq LegacyProposals
        /\ DOMAIN transactionAccounts = LegacyProposals
    BY <1>5 DEF Accounts!VersionInit
  <2>2. ASSUME NEW p \in LegacyProposals
        PROVE  /\ proposalAccounts[p] = [type |-> "V1", state |-> "Voting",
                     yes_votes_count |-> IF kind = "Approve" THEN Weight ELSE 0,
                     no_votes_count |-> IF kind = "Deny" THEN Weight ELSE 0]
               /\ transactionAccounts[p].type = "V1"
               /\ p \in DOMAIN voteAccounts <=> kind # "None"
    BY <1>5 DEF Accounts!VersionInit, Accounts!ProposalV1, Accounts!ProposalInstructionV1
  <2>3. ASSUME NEW p \in DOMAIN voteAccounts
        PROVE  /\ voteAccounts[p].type = "V1" /\ voteAccounts[p].vote_weight[1] = kind /\ kind # "None"
               /\ voteAccounts[p].vote_weight[2] = Weight /\ voteAccounts[p].is_relinquished = FALSE
    BY <1>5 DEF Accounts!VoteRecordV1
  <2>4. \A p \in DOMAIN voteAccounts : IsVote(voteAccounts[p]) /\ VoteOf(voteAccounts[p]) = kind
    BY <1>5, <2>3 DEF IsVote, VoteOf, Kinds
  <2>5. ASSUME NEW p \in LegacyProposals
        PROVE  ProposalFits(p) /\ DataOf(proposalAccounts[p]).state = "Voting"
    <3>1. DataOf(proposalAccounts[p]) =
             [type |-> "V1", state |-> "Voting", vote_weight |-> IF kind = "Approve" THEN Weight ELSE 0,
              deny_vote_weight |-> IF kind = "Deny" THEN Weight ELSE 0, veto_vote_weight |-> 0,
              vote_result |-> "None"]
      BY <2>2 DEF DataOf
    <3>2. /\ CastFor(p, "Approve") = IF kind = "Approve" THEN Weight ELSE 0
          /\ CastFor(p, "Deny") = IF kind = "Deny" THEN Weight ELSE 0
          /\ CastFor(p, "Veto") = 0
      BY <1>5, <2>2, <2>4 DEF CastFor
    <3>. QED  BY <2>2, <3>1, <3>2, FoundationsAssumption DEF ProposalFits, IsData, IsTransaction, States
  <2>. QED  BY <1>3, <2>1, <2>3, <2>4, <2>5 DEF AccountsFit, VotedOn, Live
<1>7. PICK total \in LegacyTotals, version \in {0, 1}, counted \in {0, N} :
         /\ recordAccount.type = type /\ recordAccount.version = version
         /\ recordAccount.unrelinquished_votes_count
               = Cardinality(DOMAIN voteAccounts) + (IF version = 0 THEN total * U32 ELSE 0)
         /\ recordAccount.outstanding_proposal_count = counted
         /\ type = "V2" => recordAccount.locks = {}
  BY <1>3, <1>5, SameCount DEF Accounts!TokenOwnerRecordV1, Accounts!Versions
<1>8. Cardinality(DOMAIN voteAccounts) \in Nat /\ Cardinality(DOMAIN voteAccounts) <= N
  <2>1. DOMAIN voteAccounts \subseteq LegacyProposals
    BY <1>5
  <2>. QED  BY <1>3, <2>1, FS_Subset, FS_CardinalityType DEF N
<1>9. VotesOf(recordAccount) = Cardinality(DOMAIN voteAccounts)
  <2>1. total \in Nat
    BY FoundationsAssumption
  <2>2. CASE version = 0
    <3>. DEFINE k == Cardinality(DOMAIN voteAccounts)
    <3>1. k \in Nat /\ k < U32 /\ recordAccount.version = 0
          /\ recordAccount.unrelinquished_votes_count = k + total * U32
      BY <1>3, <1>7, <1>8, <2>2, FoundationsAssumption
    <3>. HIDE DEF k
    <3>2. (k + total * U32) % U32 = k
      BY <2>1, <3>1, LowerHalf
    <3>3. VotesOf(recordAccount) = k
      BY <3>1, <3>2 DEF VotesOf
    <3>. QED  BY <3>3 DEF k
  <2>3. CASE version = 1
    BY <1>7, <1>8, <2>3 DEF VotesOf
  <2>. QED  BY <2>2, <2>3
<1>10. RecordFits
  BY <1>3, <1>5, <1>7, <1>8, <1>9 DEF RecordFits, LocksOf, Accounts!VersionInit, Accounts!Versions
<1>11. CountersFit
  <2>1. ActiveOf(governanceAccount) <= N /\ RequiredOf(governanceAccount) = 0
    BY <1>3 DEF Accounts!VersionInit, Accounts!GovernanceV1, ActiveOf, RequiredOf
  <2>2. requiredSignatories = {}
    BY DEF Accounts!VersionInit
  <2>. QED  BY <1>3, <1>6, <1>7, <1>9, <2>1, <2>2, FS_EmptySet DEF CountersFit, N
<1>. QED
  BY <1>4, <1>6, <1>10, <1>11 DEF AccountInv

-----------------------------------------------------------------------------
(* What a step does to one proposal *)

\* The transactions and votes of the other proposals stay.
OthersStay(p) ==
    /\ DOMAIN transactionAccounts' = DOMAIN transactionAccounts \cup {p}
    /\ DOMAIN voteAccounts' \subseteq DOMAIN voteAccounts \cup {p}
    /\ DOMAIN voteAccounts \subseteq DOMAIN voteAccounts' \cup {p}
    /\ \A q \in DOMAIN transactionAccounts : q # p => transactionAccounts'[q] = transactionAccounts[q]
    /\ \A q \in DOMAIN voteAccounts : q # p => voteAccounts'[q] = voteAccounts[q]

\* What is read of p afterwards is d, with which its transaction and its vote agree.
Becomes(p, d) ==
    /\ IsData(d) /\ IsTransaction(transactionAccounts'[p])
    /\ p \in DOMAIN voteAccounts' => IsVote(voteAccounts'[p])
    /\ d.vote_weight = CastFor(p, "Approve")' /\ d.deny_vote_weight = CastFor(p, "Deny")'
    /\ d.veto_vote_weight = CastFor(p, "Veto")'
    /\ d.state = "Completed" => transactionAccounts'[p].executed = TRUE

LEMMA OneProposalChanges ==
  ASSUME AccountsFit, NEW p, NEW d, OthersStay(p), Becomes(p, d),
         proposalAccounts' = Accounts!Put(proposalAccounts, p, Accounts!ProposalWritten(d))
  PROVE  /\ AccountsFit'
         /\ VotedOn' = IF d.state = "Voting" THEN VotedOn \cup {p} ELSE VotedOn \ {p}
<1>. DEFINE e == DataOf(proposalAccounts'[p])
<1>1. /\ DOMAIN proposalAccounts' = DOMAIN proposalAccounts \cup {p}
      /\ proposalAccounts'[p] = Accounts!ProposalWritten(d)
      /\ \A q \in DOMAIN proposalAccounts : q # p => proposalAccounts'[q] = proposalAccounts[q]
  BY DEF Accounts!Put
<1>2. IsData(e) /\ SameVotes(e, d)
  BY <1>1, ProposalWritten DEF Becomes
<1>3. ProposalFits(p)'
  <2>. HIDE DEF e
  <2>1. ProposalFits(p)' <=>
           /\ IsData(e) /\ IsTransaction(transactionAccounts'[p])
           /\ e.vote_weight = CastFor(p, "Approve")' /\ e.deny_vote_weight = CastFor(p, "Deny")'
           /\ e.veto_vote_weight = CastFor(p, "Veto")'
           /\ e.state = "Completed" => transactionAccounts'[p].executed = TRUE
    BY DEF ProposalFits, e
  <2>. QED  BY <1>2, <2>1 DEF Becomes, SameVotes
<1>4. ASSUME NEW q \in DOMAIN proposalAccounts, q # p PROVE ProposalFits(q)'
  <2>1. /\ proposalAccounts'[q] = proposalAccounts[q] /\ transactionAccounts'[q] = transactionAccounts[q]
        /\ ProposalFits(q)
    BY <1>1, <1>4 DEF AccountsFit, OthersStay
  <2>2. ASSUME NEW kind PROVE CastFor(q, kind)' = CastFor(q, kind)
    BY <1>4 DEF OthersStay, CastFor
  <2>. QED  BY <2>1, <2>2 DEF ProposalFits
<1>5. \A q \in DOMAIN voteAccounts' : IsVote(voteAccounts'[q]) /\ q \in DOMAIN proposalAccounts'
  BY <1>1 DEF AccountsFit, OthersStay, Becomes
<1>6. IsFiniteSet(DOMAIN proposalAccounts') /\ DOMAIN transactionAccounts' = DOMAIN proposalAccounts'
  BY <1>1, FS_AddElement DEF AccountsFit, OthersStay
<1>7. AccountsFit'
  BY <1>1, <1>3, <1>4, <1>5, <1>6 DEF AccountsFit
<1>8. VotedOn' = IF d.state = "Voting" THEN VotedOn \cup {p} ELSE VotedOn \ {p}
  <2>1. e.state = d.state
    BY <1>2 DEF SameVotes
  <2>2. VotedOn' = {q \in DOMAIN proposalAccounts' : DataOf(proposalAccounts'[q]).state = "Voting"}
    BY DEF VotedOn
  <2>3. \A q \in DOMAIN proposalAccounts : q # p => DataOf(proposalAccounts'[q]) = DataOf(proposalAccounts[q])
    BY <1>1
  <2>. QED  BY <1>1, <2>1, <2>2, <2>3 DEF VotedOn
<1>. QED
  BY <1>7, <1>8

\* Without a change to proposals, transactions and votes.
LEMMA AccountsStay ==
  ASSUME AccountsFit, UNCHANGED <<proposalAccounts, transactionAccounts, voteAccounts>>
  PROVE  AccountsFit' /\ VotedOn' = VotedOn /\ Live' = Live
BY DEF AccountsFit, ProposalFits, CastFor, VotedOn, Live

LEMMA Finitely ==
  ASSUME AccountsFit
  PROVE  /\ IsFiniteSet(VotedOn) /\ IsFiniteSet(Live)
         /\ Cardinality(VotedOn) \in Nat /\ Cardinality(Live) \in Nat
         /\ \A p : /\ Cardinality(VotedOn \cup {p}) \in Nat /\ Cardinality(VotedOn \ {p}) \in Nat
                   /\ Cardinality(Live \ {p}) \in Nat
                   /\ Cardinality(VotedOn \cup {p}) = IF p \in VotedOn THEN Cardinality(VotedOn) ELSE Cardinality(VotedOn) + 1
                   /\ Cardinality(VotedOn \ {p}) = IF p \in VotedOn THEN Cardinality(VotedOn) - 1 ELSE Cardinality(VotedOn)
                   /\ Cardinality(Live \cup {p}) = IF p \in Live THEN Cardinality(Live) ELSE Cardinality(Live) + 1
                   /\ Cardinality(Live \ {p}) = IF p \in Live THEN Cardinality(Live) - 1 ELSE Cardinality(Live)
<1>1. VotedOn \subseteq DOMAIN proposalAccounts /\ Live \subseteq DOMAIN proposalAccounts
  BY DEF VotedOn, Live, AccountsFit
<1>2. IsFiniteSet(VotedOn) /\ IsFiniteSet(Live)
  BY <1>1, FS_Subset DEF AccountsFit
<1>. QED
  BY <1>2, FS_CardinalityType, FS_AddElement, FS_RemoveElement

-----------------------------------------------------------------------------
(* Handlers that change the governance or the record only *)

\* Whatever of the governance's account is written, proposals and votes stay.
LEMMA GovernanceChanges ==
  ASSUME AccountInv, NEW g, IsGovernanceData(g), agreed' = g.config,
         governanceAccount' = Accounts!GovernanceWritten(g),
         g.active_proposal_count = ActiveOf(governanceAccount),
         g.required_signatories_count <= Cardinality(requiredSignatories'), IsFiniteSet(requiredSignatories'),
         UNCHANGED <<recordAccount, proposalAccounts, transactionAccounts, voteAccounts, granted>>
  PROVE  AccountInv'
<1>1. /\ GovernanceFits' /\ RequiredOf(governanceAccount)' <= g.required_signatories_count
      /\ ActiveOf(governanceAccount)' <= ActiveOf(governanceAccount)
  BY GovernanceWritten
<1>2. AccountsFit' /\ VotedOn' = VotedOn /\ Live' = Live
  BY AccountsStay DEF AccountInv
<1>3. RecordFits' /\ VotesOf(recordAccount)' = VotesOf(recordAccount)
  BY DEF AccountInv, RecordFits, VotesOf, LocksOf
<1>4. /\ g.required_signatories_count \in Nat /\ ActiveOf(governanceAccount) \in Nat
      /\ RequiredOf(governanceAccount)' \in Nat /\ ActiveOf(governanceAccount)' \in Nat
  BY <1>1 DEF AccountInv, GovernanceFits, IsGovernanceData
<1>5. Cardinality(VotedOn) \in Nat /\ Cardinality(requiredSignatories') \in Nat
  BY Finitely, FS_CardinalityType DEF AccountInv
<1>. QED
  BY <1>1, <1>2, <1>3, <1>4, <1>5 DEF AccountInv, CountersFit

LEMMA SetGovernanceConfigKeeps ==
  ASSUME AccountInv, NEW c, Accounts!SetGovernanceConfig(c)
  PROVE  AccountInv'
<1>. DEFINE r == Accounts!ReadGovernance  g == [r EXCEPT !.config = c]
<1>1. /\ IsGovernanceData(r) /\ r.required_signatories_count = RequiredOf(governanceAccount)
      /\ r.active_proposal_count = ActiveOf(governanceAccount)
  BY GovernanceRead DEF AccountInv
<1>2. /\ c.council_vote_threshold # 0 /\ agreed' = c
      /\ governanceAccount' = Accounts!GovernanceWritten(g)
      /\ UNCHANGED <<recordAccount, proposalAccounts, transactionAccounts, voteAccounts, requiredSignatories, granted>>
  BY DEF Accounts!SetGovernanceConfig, Accounts!ValidConfig
<1>. HIDE DEF r
<1>3. /\ IsGovernanceData(g) /\ g.config = c
      /\ g.required_signatories_count = RequiredOf(governanceAccount)
      /\ g.active_proposal_count = ActiveOf(governanceAccount)
  BY <1>1, <1>2 DEF IsGovernanceData
<1>. HIDE DEF g
<1>. QED
  BY <1>2, <1>3, GovernanceChanges DEF AccountInv, CountersFit

LEMMA AddRequiredSignatoryKeeps ==
  ASSUME AccountInv, NEW s, Accounts!AddRequiredSignatory(s)
  PROVE  AccountInv'
<1>. DEFINE r == Accounts!ReadGovernance  g == [r EXCEPT !.required_signatories_count = @ + 1]
<1>1. /\ IsGovernanceData(r) /\ r.required_signatories_count = RequiredOf(governanceAccount)
      /\ r.active_proposal_count = ActiveOf(governanceAccount) /\ r.config = agreed
  BY GovernanceRead DEF AccountInv
<1>2. /\ s \notin requiredSignatories /\ requiredSignatories' = requiredSignatories \cup {s}
      /\ governanceAccount' = Accounts!GovernanceWritten(g)
      /\ UNCHANGED <<recordAccount, proposalAccounts, transactionAccounts, voteAccounts, agreed, granted>>
  BY DEF Accounts!AddRequiredSignatory
<1>. HIDE DEF r
<1>3. /\ IsGovernanceData(g) /\ g.config = agreed
      /\ g.required_signatories_count = RequiredOf(governanceAccount) + 1
      /\ g.active_proposal_count = ActiveOf(governanceAccount)
  BY <1>1 DEF IsGovernanceData
<1>4. IsFiniteSet(requiredSignatories') /\ Cardinality(requiredSignatories') = Cardinality(requiredSignatories) + 1
  BY <1>2, FS_AddElement DEF AccountInv, CountersFit
<1>. HIDE DEF g
<1>5. g.required_signatories_count <= Cardinality(requiredSignatories')
  BY <1>3, <1>4, FS_CardinalityType DEF AccountInv, CountersFit, GovernanceFits
<1>. QED
  BY <1>2, <1>3, <1>4, <1>5, GovernanceChanges

LEMMA RemoveRequiredSignatoryKeeps ==
  ASSUME AccountInv, NEW s, Accounts!RemoveRequiredSignatory(s)
  PROVE  AccountInv'
<1>. DEFINE r == Accounts!ReadGovernance  g == [r EXCEPT !.required_signatories_count = @ - 1]
<1>1. /\ IsGovernanceData(r) /\ r.required_signatories_count = RequiredOf(governanceAccount)
      /\ r.active_proposal_count = ActiveOf(governanceAccount) /\ r.config = agreed
  BY GovernanceRead DEF AccountInv
<1>2. /\ s \in requiredSignatories /\ requiredSignatories' = requiredSignatories \ {s}
      /\ r.required_signatories_count > 0
      /\ governanceAccount' = Accounts!GovernanceWritten(g)
      /\ UNCHANGED <<recordAccount, proposalAccounts, transactionAccounts, voteAccounts, agreed, granted>>
  BY DEF Accounts!RemoveRequiredSignatory
<1>. HIDE DEF r
<1>3. /\ IsGovernanceData(g) /\ g.config = agreed
      /\ g.required_signatories_count = RequiredOf(governanceAccount) - 1
      /\ g.active_proposal_count = ActiveOf(governanceAccount)
  BY <1>1, <1>2 DEF IsGovernanceData
<1>4. IsFiniteSet(requiredSignatories') /\ Cardinality(requiredSignatories') = Cardinality(requiredSignatories) - 1
  BY <1>2, FS_RemoveElement DEF AccountInv, CountersFit
<1>. HIDE DEF g
<1>5. g.required_signatories_count <= Cardinality(requiredSignatories')
  BY <1>3, <1>4, FS_CardinalityType DEF AccountInv, CountersFit, GovernanceFits
<1>. QED
  BY <1>2, <1>3, <1>4, <1>5, GovernanceChanges

\* The locks of the record change, its counters do not.
LEMMA LocksChange ==
  ASSUME AccountInv, NEW r, IsRecordData(r), granted' = r.locks,
         \/ recordAccount' = Accounts!RecordWritten(r) /\ (r.type = "V1" => r.locks = {})
         \/ recordAccount' = Accounts!RecordWrittenWithResize(r),
         r.unrelinquished_votes_count = VotesOf(recordAccount),
         r.outstanding_proposal_count = recordAccount.outstanding_proposal_count,
         UNCHANGED <<governanceAccount, proposalAccounts, transactionAccounts, voteAccounts, requiredSignatories, agreed>>
  PROVE  AccountInv'
<1>1. /\ RecordFits' /\ VotesOf(recordAccount)' = VotesOf(recordAccount)
      /\ recordAccount'.outstanding_proposal_count = recordAccount.outstanding_proposal_count
  BY RecordWritten
<1>2. AccountsFit' /\ VotedOn' = VotedOn /\ Live' = Live
  BY AccountsStay DEF AccountInv
<1>. QED
  BY <1>1, <1>2 DEF AccountInv, CountersFit, GovernanceFits, RequiredOf, ActiveOf

LEMMA SetTokenOwnerRecordLockKeeps ==
  ASSUME AccountInv, NEW id, Accounts!SetTokenOwnerRecordLock(id)
  PROVE  AccountInv'
<1>. DEFINE s == Accounts!ReadRecord  r == [s EXCEPT !.locks = @ \cup {id}]
<1>1. /\ IsRecordData(s) /\ s.locks = granted /\ s.unrelinquished_votes_count = VotesOf(recordAccount)
      /\ s.outstanding_proposal_count = recordAccount.outstanding_proposal_count
  BY RecordRead DEF AccountInv
<1>2. /\ recordAccount' = Accounts!RecordWrittenWithResize(r) /\ granted' = granted \cup {id}
      /\ UNCHANGED <<governanceAccount, proposalAccounts, transactionAccounts, voteAccounts, requiredSignatories, agreed>>
  BY DEF Accounts!SetTokenOwnerRecordLock
<1>. HIDE DEF s
<1>3. /\ IsRecordData(r) /\ r.locks = granted \cup {id}
      /\ r.unrelinquished_votes_count = VotesOf(recordAccount)
      /\ r.outstanding_proposal_count = recordAccount.outstanding_proposal_count
  BY <1>1 DEF IsRecordData
<1>. HIDE DEF r
<1>. QED
  BY <1>2, <1>3, LocksChange

LEMMA RelinquishTokenOwnerRecordLocksKeeps ==
  ASSUME AccountInv, NEW id, Accounts!RelinquishTokenOwnerRecordLocks(id)
  PROVE  AccountInv'
<1>. DEFINE s == Accounts!ReadRecord  r == [s EXCEPT !.locks = @ \ {id}]
<1>1. /\ IsRecordData(s) /\ s.locks = granted /\ s.unrelinquished_votes_count = VotesOf(recordAccount)
      /\ s.outstanding_proposal_count = recordAccount.outstanding_proposal_count /\ (s.type = "V1" => s.locks = {})
  BY RecordRead DEF AccountInv
<1>2. /\ recordAccount' = Accounts!RecordWritten(r) /\ granted' = granted \ {id}
      /\ UNCHANGED <<governanceAccount, proposalAccounts, transactionAccounts, voteAccounts, requiredSignatories, agreed>>
  BY DEF Accounts!RelinquishTokenOwnerRecordLocks
<1>. HIDE DEF s
<1>3. /\ IsRecordData(r) /\ r.locks = granted \ {id} /\ (r.type = "V1" => r.locks = {})
      /\ r.unrelinquished_votes_count = VotesOf(recordAccount)
      /\ r.outstanding_proposal_count = recordAccount.outstanding_proposal_count
  BY <1>1 DEF IsRecordData
<1>. HIDE DEF r
<1>. QED
  BY <1>2, <1>3, LocksChange

-----------------------------------------------------------------------------
(* Handlers that change proposals and votes *)

\* Counters that follow the proposals voted on and the live votes.
LEMMA CountersFollow ==
  ASSUME AccountInv, AccountsFit', GovernanceFits', RecordFits',
         UNCHANGED requiredSignatories,
         RequiredOf(governanceAccount)' <= RequiredOf(governanceAccount),
         ActiveOf(governanceAccount)' <= Cardinality(VotedOn'),
         recordAccount'.outstanding_proposal_count <= Cardinality(VotedOn'),
         VotesOf(recordAccount)' = Cardinality(Live')
  PROVE  AccountInv'
<1>1. /\ RequiredOf(governanceAccount) \in Nat /\ RequiredOf(governanceAccount)' \in Nat
      /\ Cardinality(requiredSignatories) \in Nat
  BY FS_CardinalityType DEF AccountInv, CountersFit, GovernanceFits
<1>. QED
  BY <1>1 DEF AccountInv, CountersFit

LEMMA GovernanceReleases ==
  ASSUME GovernanceFits, governanceAccount' = Accounts!GovernanceReleased, agreed' = agreed
  PROVE  /\ GovernanceFits' /\ RequiredOf(governanceAccount)' <= RequiredOf(governanceAccount)
         /\ ActiveOf(governanceAccount)' <= Accounts!SaturatingSub(ActiveOf(governanceAccount))
<1>. DEFINE r == Accounts!ReadGovernance  g == [r EXCEPT !.active_proposal_count = Accounts!SaturatingSub(@)]
<1>1. /\ IsGovernanceData(r) /\ r.required_signatories_count = RequiredOf(governanceAccount)
      /\ r.active_proposal_count = ActiveOf(governanceAccount) /\ r.config = agreed
  BY GovernanceRead
<1>2. governanceAccount' = Accounts!GovernanceWritten(g)
  BY DEF Accounts!GovernanceReleased
<1>. HIDE DEF r
<1>3. /\ IsGovernanceData(g) /\ g.config = agreed
      /\ g.required_signatories_count = RequiredOf(governanceAccount)
      /\ g.active_proposal_count = Accounts!SaturatingSub(ActiveOf(governanceAccount))
  BY <1>1 DEF IsGovernanceData, Accounts!SaturatingSub
<1>. HIDE DEF g
<1>. QED
  BY <1>2, <1>3, GovernanceWritten

LEMMA CreateProposalKeeps ==
  ASSUME AccountInv, NEW p, Accounts!CreateProposal(p)
  PROVE  AccountInv'
<1>. DEFINE g0 == Accounts!ReadGovernance  g == [g0 EXCEPT !.active_proposal_count = @ + 1]
            r0 == Accounts!ReadRecord      r == [r0 EXCEPT !.outstanding_proposal_count = @ + 1]
            d == [type |-> "V2", state |-> "Voting", vote_weight |-> 0, deny_vote_weight |-> 0,
                  veto_vote_weight |-> 0, vote_result |-> "None"]
            t == [type |-> "V2", instructions |-> 2, executed |-> FALSE]
<1>1. /\ p \notin DOMAIN proposalAccounts
      /\ proposalAccounts' = Accounts!Put(proposalAccounts, p, d)
      /\ transactionAccounts' = Accounts!Put(transactionAccounts, p, t)
      /\ recordAccount' = Accounts!RecordWritten(r)
      /\ governanceAccount' = Accounts!GovernanceWrittenAsV2(g)
      /\ UNCHANGED <<voteAccounts, requiredSignatories, agreed, granted>>
  BY DEF Accounts!CreateProposal
<1>2. /\ IsGovernanceData(g0) /\ g0.required_signatories_count = RequiredOf(governanceAccount)
      /\ g0.active_proposal_count = ActiveOf(governanceAccount) /\ g0.config = agreed
      /\ IsRecordData(r0) /\ r0.locks = granted /\ r0.unrelinquished_votes_count = VotesOf(recordAccount)
      /\ r0.outstanding_proposal_count = recordAccount.outstanding_proposal_count
      /\ r0.type = "V1" => r0.locks = {}
  BY GovernanceRead, RecordRead DEF AccountInv
<1>. HIDE DEF g0, r0
<1>3. /\ IsGovernanceData(g) /\ g.config = agreed
      /\ g.required_signatories_count = RequiredOf(governanceAccount)
      /\ g.active_proposal_count = ActiveOf(governanceAccount) + 1
  BY <1>2 DEF IsGovernanceData
<1>4. /\ IsRecordData(r) /\ r.locks = granted /\ (r.type = "V1" => r.locks = {})
      /\ r.unrelinquished_votes_count = VotesOf(recordAccount)
      /\ r.outstanding_proposal_count = recordAccount.outstanding_proposal_count + 1
  BY <1>2 DEF IsRecordData
<1>. HIDE DEF g, r
<1>5. /\ GovernanceFits' /\ RequiredOf(governanceAccount)' <= RequiredOf(governanceAccount)
      /\ ActiveOf(governanceAccount)' <= ActiveOf(governanceAccount) + 1
  BY <1>1, <1>3, GovernanceWritten
<1>6. /\ RecordFits' /\ VotesOf(recordAccount)' = VotesOf(recordAccount)
      /\ recordAccount'.outstanding_proposal_count = recordAccount.outstanding_proposal_count + 1
  BY <1>1, <1>4, RecordWritten
<1>7. p \notin DOMAIN voteAccounts /\ p \notin VotedOn /\ AccountsFit
  BY <1>1 DEF AccountInv, AccountsFit, VotedOn
<1>8. OthersStay(p) /\ transactionAccounts'[p] = t
  BY <1>1 DEF OthersStay, Accounts!Put
<1>9. Becomes(p, d)
  BY <1>1, <1>7, <1>8 DEF Becomes, IsData, IsTransaction, CastFor, States
<1>10. d.state = "Voting" /\ Accounts!ProposalWritten(d) = d
  BY DEF Accounts!ProposalWritten
<1>. HIDE DEF d, t
<1>11. AccountsFit' /\ VotedOn' = VotedOn \cup {p} /\ Live' = Live
  BY <1>1, <1>7, <1>8, <1>9, <1>10, OneProposalChanges DEF Live
<1>12. Cardinality(VotedOn') = Cardinality(VotedOn) + 1 /\ Cardinality(VotedOn) \in Nat
  BY <1>7, <1>11, Finitely
<1>. QED
  BY <1>1, <1>5, <1>6, <1>11, <1>12, CountersFollow DEF AccountInv, CountersFit, GovernanceFits, RecordFits

\* A decision leaves data that reads as it was decided.
LEMMA DecidedData ==
  ASSUME NEW d, IsData(d), d.state = "Voting",
         NEW state \in {"Succeeded", "Defeated", "Vetoed", "Cancelled"}
  PROVE  LET e == Accounts!Decided(d, state) IN
         /\ IsData(e) /\ e.state = state /\ e.vote_weight = d.vote_weight
         /\ e.deny_vote_weight = d.deny_vote_weight /\ e.veto_vote_weight = d.veto_vote_weight
BY DEF IsData, Accounts!Decided, States

LEMMA EndVoteKeeps ==
  ASSUME AccountInv, NEW p, NEW state \in {"Succeeded", "Defeated", "Cancelled"}, Accounts!EndVote(p, state)
  PROVE  AccountInv'
<1>. DEFINE r0 == Accounts!ReadRecord  r == Accounts!Released(r0)
            d0 == Accounts!ReadProposal(p)  d == Accounts!Decided(d0, state)
<1>1. /\ p \in DOMAIN proposalAccounts /\ d0.state = "Voting"
      /\ proposalAccounts' = Accounts!Put(proposalAccounts, p, Accounts!ProposalWritten(d))
      /\ recordAccount' = Accounts!RecordWritten(r)
      /\ governanceAccount' = Accounts!GovernanceReleased
      /\ UNCHANGED <<voteAccounts, transactionAccounts, requiredSignatories, agreed, granted>>
  BY DEF Accounts!EndVote, Accounts!IsVoting
<1>2. /\ IsRecordData(r0) /\ r0.locks = granted /\ r0.unrelinquished_votes_count = VotesOf(recordAccount)
      /\ r0.outstanding_proposal_count = recordAccount.outstanding_proposal_count
      /\ r0.type = "V1" => r0.locks = {}
  BY RecordRead DEF AccountInv
<1>3. ProposalFits(p) /\ d0 = DataOf(proposalAccounts[p]) /\ p \in VotedOn /\ AccountsFit
  BY <1>1, ProposalRead DEF AccountInv, AccountsFit, VotedOn
<1>. HIDE DEF r0, d0
<1>4. /\ IsRecordData(r) /\ r.locks = granted /\ (r.type = "V1" => r.locks = {})
      /\ r.unrelinquished_votes_count = VotesOf(recordAccount)
      /\ r.outstanding_proposal_count = Accounts!SaturatingSub(recordAccount.outstanding_proposal_count)
  BY <1>2 DEF IsRecordData, Accounts!Released, Accounts!SaturatingSub
<1>. HIDE DEF r
<1>5. /\ GovernanceFits' /\ RequiredOf(governanceAccount)' <= RequiredOf(governanceAccount)
      /\ ActiveOf(governanceAccount)' <= Accounts!SaturatingSub(ActiveOf(governanceAccount))
  BY <1>1, GovernanceReleases DEF AccountInv
<1>6. /\ RecordFits' /\ VotesOf(recordAccount)' = VotesOf(recordAccount)
      /\ recordAccount'.outstanding_proposal_count = Accounts!SaturatingSub(recordAccount.outstanding_proposal_count)
  BY <1>1, <1>4, RecordWritten
<1>7. /\ IsData(d) /\ d.state = state /\ d.vote_weight = d0.vote_weight
      /\ d.deny_vote_weight = d0.deny_vote_weight /\ d.veto_vote_weight = d0.veto_vote_weight
  BY <1>1, <1>3, DecidedData DEF ProposalFits
<1>. HIDE DEF d
<1>8. OthersStay(p)
  BY <1>1, <1>3 DEF OthersStay, AccountsFit
<1>9. Becomes(p, d)
  BY <1>1, <1>3, <1>7 DEF Becomes, ProposalFits, CastFor, AccountsFit
<1>10. AccountsFit' /\ VotedOn' = VotedOn \ {p} /\ Live' = Live
  BY <1>1, <1>3, <1>7, <1>8, <1>9, OneProposalChanges DEF Live
<1>11. Cardinality(VotedOn') = Cardinality(VotedOn) - 1 /\ Cardinality(VotedOn) \in Nat
  BY <1>3, <1>10, Finitely
<1>12. Cardinality(VotedOn') \in Nat
  BY <1>3, <1>10, Finitely
<1>. QED
  BY <1>1, <1>5, <1>6, <1>10, <1>11, <1>12, CountersFollow
  DEF AccountInv, CountersFit, GovernanceFits, RecordFits, Accounts!SaturatingSub

LEMMA ExecuteTransactionKeeps ==
  ASSUME AccountInv, NEW p, Accounts!ExecuteTransaction(p)
  PROVE  AccountInv'
<1>. DEFINE d0 == Accounts!ReadProposal(p)  d == [d0 EXCEPT !.state = "Completed"]
            t == Accounts!TransactionWritten([Accounts!ReadTransaction(p) EXCEPT !.executed = TRUE])
<1>1. /\ p \in DOMAIN proposalAccounts /\ d0.state = "Succeeded" /\ d0.vote_result = "Succeeded"
      /\ proposalAccounts' = Accounts!Put(proposalAccounts, p, Accounts!ProposalWritten(d))
      /\ transactionAccounts' = Accounts!Put(transactionAccounts, p, t)
      /\ UNCHANGED <<governanceAccount, recordAccount, voteAccounts, requiredSignatories, agreed, granted>>
  BY DEF Accounts!ExecuteTransaction
<1>2. ProposalFits(p) /\ d0 = DataOf(proposalAccounts[p]) /\ p \notin VotedOn /\ AccountsFit
  BY <1>1, ProposalRead DEF AccountInv, AccountsFit, VotedOn
<1>3. IsTransaction(t) /\ t.executed = TRUE
  BY <1>2, TransactionWritten DEF ProposalFits
<1>. HIDE DEF d0, t
<1>4. /\ IsData(d) /\ d.state = "Completed" /\ d.vote_weight = d0.vote_weight
      /\ d.deny_vote_weight = d0.deny_vote_weight /\ d.veto_vote_weight = d0.veto_vote_weight
  BY <1>1, <1>2 DEF ProposalFits, IsData, States
<1>. HIDE DEF d
<1>5. OthersStay(p) /\ transactionAccounts'[p] = t
  BY <1>1, <1>2 DEF OthersStay, AccountsFit, Accounts!Put
<1>6. Becomes(p, d)
  BY <1>1, <1>2, <1>3, <1>4, <1>5 DEF Becomes, ProposalFits, CastFor, AccountsFit
<1>7. AccountsFit' /\ VotedOn' = VotedOn /\ Live' = Live
  BY <1>1, <1>2, <1>4, <1>5, <1>6, OneProposalChanges DEF Live
<1>. QED
  BY <1>1, <1>7 DEF AccountInv, CountersFit, GovernanceFits, RecordFits, RequiredOf, ActiveOf, VotesOf, LocksOf

LEMMA CastVoteKeeps ==
  ASSUME AccountInv, NEW p, NEW vote \in Kinds, NEW state \in Accounts!Outcomes(vote),
         Accounts!CastVote(p, vote, state)
  PROVE  AccountInv'
<1>. DEFINE tips == state # "Voting"
            r0 == Accounts!ReadRecord  r1 == [r0 EXCEPT !.unrelinquished_votes_count = @ + 1]
            r == IF tips THEN Accounts!Released(r1) ELSE r1
            d0 == Accounts!ReadProposal(p)  d1 == Accounts!Counted(d0, vote, Weight)
            d == IF tips THEN Accounts!Decided(d1, state) ELSE d1
            v == [type |-> "V2", is_relinquished |-> FALSE, vote |-> vote, voter_weight |-> Weight]
<1>1. /\ p \in DOMAIN proposalAccounts /\ d0.state = "Voting" /\ p \notin DOMAIN voteAccounts
      /\ Accounts!ProposalWritten(d) # Accounts!Panic
      /\ recordAccount' = Accounts!RecordWritten(r)
      /\ governanceAccount' = IF tips THEN Accounts!GovernanceReleased ELSE governanceAccount
      /\ proposalAccounts' = Accounts!Put(proposalAccounts, p, Accounts!ProposalWritten(d))
      /\ voteAccounts' = Accounts!Put(voteAccounts, p, v)
      /\ UNCHANGED <<transactionAccounts, requiredSignatories, agreed, granted>>
  BY DEF Accounts!CastVote, Accounts!IsVoting
<1>2. /\ IsRecordData(r0) /\ r0.locks = granted /\ r0.unrelinquished_votes_count = VotesOf(recordAccount)
      /\ r0.outstanding_proposal_count = recordAccount.outstanding_proposal_count
      /\ r0.type = "V1" => r0.locks = {}
  BY RecordRead DEF AccountInv
<1>3. /\ ProposalFits(p) /\ d0 = DataOf(proposalAccounts[p]) /\ p \in VotedOn /\ AccountsFit
      /\ IsTransaction(transactionAccounts[p])
  BY <1>1, ProposalRead DEF AccountInv, AccountsFit, VotedOn, ProposalFits
<1>. DEFINE left == IF tips THEN Accounts!SaturatingSub(recordAccount.outstanding_proposal_count)
                    ELSE recordAccount.outstanding_proposal_count
<1>. HIDE DEF r0, d0
<1>4. /\ IsRecordData(r) /\ r.locks = granted /\ (r.type = "V1" => r.locks = {})
      /\ r.unrelinquished_votes_count = VotesOf(recordAccount) + 1
      /\ r.outstanding_proposal_count = left
  BY <1>2 DEF IsRecordData, Accounts!Released, Accounts!SaturatingSub
<1>. HIDE DEF r
<1>5. /\ GovernanceFits' /\ RequiredOf(governanceAccount)' <= RequiredOf(governanceAccount)
      /\ ActiveOf(governanceAccount)' <=
            IF tips THEN Accounts!SaturatingSub(ActiveOf(governanceAccount)) ELSE ActiveOf(governanceAccount)
  <2>1. CASE tips
    BY <1>1, <2>1, GovernanceReleases DEF AccountInv
  <2>2. CASE ~tips
    BY <1>1, <2>2 DEF AccountInv, GovernanceFits, RequiredOf, ActiveOf
  <2>. QED  BY <2>1, <2>2
<1>6. /\ RecordFits' /\ VotesOf(recordAccount)' = VotesOf(recordAccount) + 1
      /\ recordAccount'.outstanding_proposal_count = left
  BY <1>1, <1>4, RecordWritten
<1>7. /\ IsData(d0) /\ d0.vote_weight = 0 /\ d0.deny_vote_weight = 0 /\ d0.veto_vote_weight = 0
  BY <1>1, <1>3 DEF ProposalFits, CastFor
<1>8. /\ d1.type = d0.type /\ d1.state = "Voting" /\ d1.vote_result = d0.vote_result /\ DOMAIN d1 = DOMAIN d0
      /\ d1.vote_weight = IF vote = "Approve" THEN Weight ELSE 0
      /\ d1.deny_vote_weight = IF vote = "Deny" THEN Weight ELSE 0
      /\ d1.veto_vote_weight = IF vote = "Veto" THEN Weight ELSE 0
  BY <1>1, <1>7, FoundationsAssumption DEF IsData, Accounts!Counted, Kinds
<1>. HIDE DEF d1
<1>9. d.type = d1.type /\ d.veto_vote_weight = d1.veto_vote_weight
  BY <1>7, <1>8 DEF IsData, Accounts!Decided
<1>10. d1.type = "V1" => d1.veto_vote_weight = 0
  <2>1. ASSUME d1.type = "V1" PROVE ~(d1.veto_vote_weight > 0)
    BY <1>1, <1>9, <2>1 DEF Accounts!ProposalWritten
  <2>. QED  BY <1>8, <2>1, FoundationsAssumption
<1>11. IsData(d1)
  <2>1. DOMAIN d1 = {"type", "state", "vote_weight", "deny_vote_weight", "veto_vote_weight", "vote_result"}
    BY <1>7, <1>8 DEF IsData
  <2>2. d1.type \in {"V1", "V2"} /\ d1.vote_result # "Succeeded"
    BY <1>1, <1>7, <1>8 DEF IsData
  <2>3. d1.vote_weight \in Nat /\ d1.deny_vote_weight \in Nat /\ d1.veto_vote_weight \in Nat
    BY <1>8, FoundationsAssumption
  <2>. QED  BY <1>8, <1>10, <2>1, <2>2, <2>3 DEF IsData, States
<1>12. /\ IsData(d) /\ d.state = state /\ d.vote_weight = d1.vote_weight
       /\ d.deny_vote_weight = d1.deny_vote_weight /\ d.veto_vote_weight = d1.veto_vote_weight
  <2>1. state \in {"Voting", "Succeeded", "Defeated", "Vetoed"}
    BY DEF Accounts!Outcomes, Kinds
  <2>. QED  BY <1>8, <1>11, <2>1, DecidedData
<1>. HIDE DEF d
<1>13. OthersStay(p) /\ p \in DOMAIN voteAccounts' /\ voteAccounts'[p] = v
  BY <1>1, <1>3 DEF OthersStay, AccountsFit, Accounts!Put
<1>14. IsVote(v) /\ VoteOf(v) = vote /\ v.is_relinquished = FALSE
  BY DEF IsVote, VoteOf
<1>. HIDE DEF v
<1>15. ASSUME NEW kind PROVE CastFor(p, kind)' = IF vote = kind THEN Weight ELSE 0
  BY <1>13, <1>14 DEF CastFor
<1>16. Becomes(p, d)
  <2>1. d.state # "Completed" /\ transactionAccounts'[p] = transactionAccounts[p]
    BY <1>1, <1>12 DEF Accounts!Outcomes, Kinds
  <2>. QED  BY <1>3, <1>8, <1>12, <1>13, <1>14, <1>15, <2>1 DEF Becomes
<1>17. AccountsFit' /\ VotedOn' = IF tips THEN VotedOn \ {p} ELSE VotedOn
  BY <1>1, <1>3, <1>12, <1>13, <1>16, OneProposalChanges
<1>18. Live' = Live \cup {p} /\ p \notin Live
  BY <1>1, <1>13, <1>14 DEF Live, Accounts!Put
<1>19. /\ Cardinality(VotedOn') = IF tips THEN Cardinality(VotedOn) - 1 ELSE Cardinality(VotedOn)
       /\ Cardinality(VotedOn) \in Nat /\ Cardinality(VotedOn') \in Nat
       /\ Cardinality(Live') = Cardinality(Live) + 1
  <2>1. Cardinality(VotedOn') \in Nat
    BY <1>3, <1>17, Finitely
  <2>2. Cardinality(Live \cup {p}) = Cardinality(Live) + 1 /\ Cardinality(VotedOn \ {p}) = Cardinality(VotedOn) - 1
    BY <1>3, <1>18, Finitely
  <2>. QED  BY <1>3, <1>17, <1>18, <2>1, <2>2, Finitely
<1>20. /\ VotesOf(recordAccount) = Cardinality(Live)
       /\ recordAccount.outstanding_proposal_count <= Cardinality(VotedOn)
       /\ ActiveOf(governanceAccount) <= Cardinality(VotedOn)
       /\ recordAccount.outstanding_proposal_count \in Nat /\ ActiveOf(governanceAccount) \in Nat
       /\ ActiveOf(governanceAccount)' \in Nat
  BY <1>5 DEF AccountInv, CountersFit, RecordFits, GovernanceFits
<1>21. left <= Cardinality(VotedOn') /\ ActiveOf(governanceAccount)' <= Cardinality(VotedOn')
  BY <1>5, <1>19, <1>20 DEF Accounts!SaturatingSub
<1>. QED
  BY <1>1, <1>5, <1>6, <1>17, <1>19, <1>20, <1>21, CountersFollow

\* A vote that is taken back while the proposal is voted on leaves it as if never cast; a
\* later one stays, marked.
LEMMA RelinquishedVoteLeaves ==
  ASSUME AccountsFit, NEW p \in DOMAIN voteAccounts, ~voteAccounts[p].is_relinquished,
         UNCHANGED transactionAccounts,
         LET kept == Accounts!VoteWritten([Accounts!ReadVote(p) EXCEPT !.is_relinquished = TRUE]) IN
         /\ ~Accounts!IsVoting(p)
         /\ voteAccounts' = Accounts!Put(voteAccounts, p, kept) /\ UNCHANGED proposalAccounts
  PROVE  AccountsFit' /\ VotedOn' = VotedOn /\ Live' = Live \ {p}
<1>. DEFINE kept == Accounts!VoteWritten([Accounts!ReadVote(p) EXCEPT !.is_relinquished = TRUE])
<1>1. IsVote(kept) /\ VoteOf(kept) = VoteOf(voteAccounts[p]) /\ kept.is_relinquished = TRUE
  BY VoteWritten DEF AccountsFit
<1>. HIDE DEF kept
<1>2. voteAccounts' = Accounts!Put(voteAccounts, p, kept)
  BY DEF kept
<1>3. /\ DOMAIN voteAccounts' = DOMAIN voteAccounts /\ voteAccounts'[p] = kept
      /\ \A q \in DOMAIN voteAccounts : q # p => voteAccounts'[q] = voteAccounts[q]
  BY <1>2 DEF Accounts!Put
<1>4. ASSUME NEW q, NEW kind PROVE CastFor(q, kind)' = CastFor(q, kind)
  BY <1>1, <1>3 DEF CastFor
<1>5. AccountsFit'
  BY <1>1, <1>3, <1>4 DEF AccountsFit, ProposalFits
<1>. QED
  BY <1>1, <1>3, <1>5 DEF VotedOn, Live

LEMMA UncountedVoteLeaves ==
  ASSUME AccountsFit, NEW p \in DOMAIN voteAccounts, ~voteAccounts[p].is_relinquished,
         UNCHANGED transactionAccounts,
         LET vote == Accounts!ReadVote(p) IN
         /\ Accounts!IsVoting(p)
         /\ voteAccounts' = Accounts!Drop(voteAccounts, p)
         /\ proposalAccounts' = Accounts!Put(proposalAccounts, p,
               Accounts!ProposalWritten(Accounts!Counted(Accounts!ReadProposal(p), vote.vote, -vote.voter_weight)))
  PROVE  AccountsFit' /\ VotedOn' = VotedOn /\ Live' = Live \ {p}
<1>. DEFINE d0 == Accounts!ReadProposal(p)  kind == Accounts!ReadVote(p).vote
            d == Accounts!Counted(d0, kind, -Weight)
<1>1. /\ p \in DOMAIN proposalAccounts /\ ProposalFits(p) /\ IsVote(voteAccounts[p])
      /\ d0 = DataOf(proposalAccounts[p]) /\ d0.state = "Voting" /\ p \in VotedOn
  BY ProposalRead DEF AccountsFit, Accounts!IsVoting, VotedOn
<1>2. Accounts!ReadVote(p).voter_weight = Weight /\ kind = VoteOf(voteAccounts[p]) /\ kind \in Kinds
  BY <1>1, VoteRead DEF IsVote
<1>3. /\ DOMAIN voteAccounts' = DOMAIN voteAccounts \ {p}
      /\ \A q \in DOMAIN voteAccounts : q # p => voteAccounts'[q] = voteAccounts[q]
  BY DEF Accounts!Drop
<1>4. proposalAccounts' = Accounts!Put(proposalAccounts, p, Accounts!ProposalWritten(d))
  BY <1>2
<1>. HIDE DEF d0, kind
<1>5. /\ IsData(d0) /\ d0.vote_weight = IF kind = "Approve" THEN Weight ELSE 0
      /\ d0.deny_vote_weight = IF kind = "Deny" THEN Weight ELSE 0
      /\ d0.veto_vote_weight = IF kind = "Veto" THEN Weight ELSE 0
  BY <1>1, <1>2 DEF ProposalFits, CastFor
<1>6. /\ DOMAIN d = DOMAIN d0 /\ d.type = d0.type /\ d.state = d0.state /\ d.vote_result = d0.vote_result
      /\ d.vote_weight = 0 /\ d.deny_vote_weight = 0 /\ d.veto_vote_weight = 0
  BY <1>2, <1>5, FoundationsAssumption DEF IsData, Accounts!Counted, Kinds
<1>. HIDE DEF d
<1>7. IsData(d) /\ d.state = "Voting"
  BY <1>1, <1>5, <1>6 DEF IsData
<1>8. OthersStay(p)
  BY <1>1, <1>3 DEF OthersStay, AccountsFit
<1>9. \A k : CastFor(p, k)' = 0
  BY <1>3 DEF CastFor
<1>10. Becomes(p, d)
  BY <1>1, <1>3, <1>6, <1>7, <1>9 DEF Becomes, ProposalFits
<1>11. AccountsFit' /\ VotedOn' = VotedOn
  BY <1>1, <1>4, <1>7, <1>8, <1>10, OneProposalChanges
<1>. QED
  BY <1>3, <1>11 DEF Live

LEMMA RelinquishVoteKeeps ==
  ASSUME AccountInv, NEW p, Accounts!RelinquishVote(p)
  PROVE  AccountInv'
<1>. DEFINE r0 == Accounts!ReadRecord  r == [r0 EXCEPT !.unrelinquished_votes_count = @ - 1]
<1>1. /\ p \in DOMAIN voteAccounts /\ ~Accounts!ReadVote(p).is_relinquished
      /\ recordAccount' = Accounts!RecordWritten(r)
      /\ UNCHANGED <<governanceAccount, transactionAccounts, requiredSignatories, agreed, granted>>
  BY DEF Accounts!RelinquishVote
<1>2. AccountsFit /\ ~voteAccounts[p].is_relinquished
  BY <1>1, VoteRead DEF AccountInv, AccountsFit
<1>3. AccountsFit' /\ VotedOn' = VotedOn /\ Live' = Live \ {p}
  <2>1. CASE Accounts!IsVoting(p)
    BY <1>1, <1>2, <2>1, UncountedVoteLeaves DEF Accounts!RelinquishVote
  <2>2. CASE ~Accounts!IsVoting(p)
    BY <1>1, <1>2, <2>2, RelinquishedVoteLeaves DEF Accounts!RelinquishVote
  <2>. QED  BY <2>1, <2>2
<1>4. /\ Cardinality(Live') = Cardinality(Live) - 1 /\ VotesOf(recordAccount) = Cardinality(Live)
      /\ Cardinality(Live) \in Nat /\ Cardinality(Live') \in Nat
  <2>1. p \in Live
    BY <1>1, <1>2 DEF Live
  <2>2. Cardinality(Live') = Cardinality(Live) - 1 /\ Cardinality(Live) \in Nat /\ Cardinality(Live') \in Nat
    BY <1>2, <1>3, <2>1, Finitely
  <2>3. VotesOf(recordAccount) = Cardinality(Live)
    BY DEF AccountInv, CountersFit
  <2>. QED  BY <2>2, <2>3
<1>5. /\ IsRecordData(r0) /\ r0.locks = granted /\ r0.unrelinquished_votes_count = VotesOf(recordAccount)
      /\ r0.outstanding_proposal_count = recordAccount.outstanding_proposal_count
      /\ r0.type = "V1" => r0.locks = {}
  BY RecordRead DEF AccountInv
<1>. HIDE DEF r0
<1>6. /\ IsRecordData(r) /\ r.locks = granted /\ (r.type = "V1" => r.locks = {})
      /\ r.unrelinquished_votes_count = Cardinality(Live')
      /\ r.outstanding_proposal_count = recordAccount.outstanding_proposal_count
  BY <1>4, <1>5 DEF IsRecordData
<1>. HIDE DEF r
<1>7. /\ RecordFits' /\ VotesOf(recordAccount)' = Cardinality(Live')
      /\ recordAccount'.outstanding_proposal_count = recordAccount.outstanding_proposal_count
  BY <1>1, <1>6, RecordWritten
<1>8. GovernanceFits' /\ UNCHANGED <<RequiredOf(governanceAccount), ActiveOf(governanceAccount)>>
  BY <1>1 DEF AccountInv, GovernanceFits, RequiredOf, ActiveOf
<1>. QED
  BY <1>1, <1>3, <1>7, <1>8 DEF AccountInv, CountersFit

LEMMA VersionStep ==
  ASSUME AccountInv, Accounts!VersionNext \/ UNCHANGED versionVars
  PROVE  AccountInv'
<1>1. ASSUME NEW p \in LegacyProposals \cup NewProposals,
             \/ Accounts!CreateProposal(p) \/ Accounts!RelinquishVote(p) \/ Accounts!FinalizeVote(p)
             \/ Accounts!CancelProposal(p) \/ Accounts!ExecuteTransaction(p)
      PROVE  AccountInv'
  BY <1>1, CreateProposalKeeps, RelinquishVoteKeeps, EndVoteKeeps, ExecuteTransactionKeeps
  DEF Accounts!FinalizeVote, Accounts!CancelProposal
<1>2. ASSUME NEW p, NEW vote \in Kinds, NEW state \in Accounts!Outcomes(vote), Accounts!CastVote(p, vote, state)
      PROVE  AccountInv'
  BY <1>2, CastVoteKeeps
<1>3. ASSUME NEW c, Accounts!SetGovernanceConfig(c) PROVE AccountInv'
  BY <1>3, SetGovernanceConfigKeeps
<1>4. ASSUME NEW s, Accounts!AddRequiredSignatory(s) \/ Accounts!RemoveRequiredSignatory(s) PROVE AccountInv'
  BY <1>4, AddRequiredSignatoryKeeps, RemoveRequiredSignatoryKeeps
<1>5. ASSUME NEW id, Accounts!SetTokenOwnerRecordLock(id) \/ Accounts!RelinquishTokenOwnerRecordLocks(id)
      PROVE  AccountInv'
  BY <1>5, SetTokenOwnerRecordLockKeeps, RelinquishTokenOwnerRecordLocksKeeps
<1>6. CASE UNCHANGED versionVars
  <2>1. AccountsFit' /\ VotedOn' = VotedOn /\ Live' = Live
    BY <1>6, AccountsStay DEF AccountInv, versionVars
  <2>. QED  BY <1>6, <2>1 DEF versionVars, AccountInv, CountersFit, GovernanceFits, RecordFits,
                              RequiredOf, ActiveOf, VotesOf, LocksOf
<1>7. CASE Accounts!VersionNext
  BY <1>1, <1>2, <1>3, <1>4, <1>5, <1>7 DEF Accounts!VersionNext, Kinds
<1>. QED
  BY <1>6, <1>7

-----------------------------------------------------------------------------
(* The theorems *)

FoundationsInv == VoteInv /\ RealmInv /\ AccountInv

LEMMA FoundationsInvariant == FoundationsSpec => []FoundationsInv
<1>1. FoundationsInit => FoundationsInv
  BY VoteInvHolds, RealmInitInv, VersionInitFits DEF FoundationsInit, FoundationsInv
<1>2. FoundationsInv /\ [FoundationsNext]_foundationVars => FoundationsInv'
  <2>. SUFFICES ASSUME FoundationsInv, [FoundationsNext]_foundationVars PROVE FoundationsInv'
    OBVIOUS
  <2>1. Next \/ UNCHANGED vars
    BY DEF FoundationsNext, foundationVars
  <2>2. RealmsOf!RealmNext \/ UNCHANGED realmVars
    BY DEF FoundationsNext, foundationVars
  <2>3. Accounts!VersionNext \/ UNCHANGED versionVars
    BY DEF FoundationsNext, foundationVars
  <2>4. VoteInv'
    BY <2>1, VoteInvHolds DEF FoundationsInv
  <2>5. RealmInv'
    <3>1. CASE RealmsOf!RealmNext
      BY <3>1, RealmStep DEF FoundationsInv
    <3>2. CASE UNCHANGED realmVars
      BY <3>2 DEF FoundationsInv, RealmInv, RealmsOf!CheckedAuthorityActs, realmVars
    <3>. QED  BY <2>2, <3>1, <3>2
  <2>6. AccountInv'
    BY <2>3, VersionStep DEF FoundationsInv
  <2>. QED  BY <2>4, <2>5, <2>6 DEF FoundationsInv
<1>. QED
  BY <1>1, <1>2, PTL DEF FoundationsSpec

\* Every tally of Yes and No is decided exactly: its threshold is the least weight that is
\* enough, a tip agrees with what finalizing would resolve to and, if strict, stands however
\* the rest is cast, and spreading a vote gains no weight (get_min_vote_threshold_weight,
\* try_get_tipped_electorate_vote_state, resolve_final_vote_state, get_choice_weight).
THEOREM VotesDecidedExactlyAlways == FoundationsSpec => []VotesDecidedExactly
<1>1. FoundationsInv => VotesDecidedExactly
  BY TallyIsDecidedExactly DEF FoundationsInv, VotesDecidedExactly
<1>. QED
  BY <1>1, FoundationsInvariant, PTL

\* Accounts of two versions keep what they say through every handler that writes them, and
\* the authority over a realm passes from hand to hand, by the check only to one that can
\* act (the serialize functions of state/; process_set_realm_authority).
THEOREM AccountsSoundAlways == FoundationsSpec => AccountsSound
<1>. DEFINE Sound == /\ part = "accounts" => Accounts!VersionsSound'
                    /\ part = "realms" => RealmsOf!PassedOn /\ RealmsOf!CheckedAuthorityActs'
<1>1. FoundationsInv => Accounts!VersionsSound
  BY InvImpliesSound DEF FoundationsInv
<1>2. FoundationsInv /\ (Accounts!VersionsSound)' /\ [FoundationsNext]_foundationVars => [Sound]_foundationVars
  <2>. SUFFICES ASSUME FoundationsInv, (Accounts!VersionsSound)', FoundationsNext PROVE Sound
    OBVIOUS
  <2>1. part = "realms" => RealmsOf!RealmNext
    BY DEF FoundationsNext
  <2>. QED  BY <2>1, RealmStep DEF FoundationsInv
<1>. QED
  BY <1>1, <1>2, FoundationsInvariant, PTL DEF FoundationsSpec, AccountsSound
===============================================================================
