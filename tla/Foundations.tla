------------------------------ MODULE Foundations ------------------------------
(***************************************************************************)
(* What the handlers of the governance program stand on, side by side: the  *)
(* votes of VoteTallies, the accounts of two versions and the authority     *)
(* over realms.  They share no state: "part" says which of them moves, and  *)
(* the others rest in one of their initial states.                          *)
(***************************************************************************)
EXTENDS VoteTallies, FiniteSets

CONSTANTS Parts,
    LegacyProposals, NewProposals, RequiredOnes, LockIds, Weight, U32, LegacyTotals, Percentages,
    DEFAULT_DEPOSIT_EXEMPT_PROPOSAL_COUNT,
    Names, Seeds, Keys, Member, NoKey, NeverEnough, MinWeights, MAX_DEPOSIT, RecordKeys

VARIABLES
    part,
    governanceAccount, recordAccount, proposalAccounts, transactionAccounts, voteAccounts,
    requiredSignatories, agreed, granted,
    realms, governances, treasuries, records, lastSigner, unchecked

\* The count of votes of a record has room for a vote on every proposal, and a threshold of
\* zero stands for none in the configs of old.
ASSUME FoundationsAssumption ==
    /\ IsFiniteSet(LegacyProposals) /\ U32 \in Nat /\ Cardinality(LegacyProposals) < U32
    /\ Weight \in Nat /\ LegacyTotals \subseteq Nat
    /\ Percentages \subseteq 1..100

versionVars == <<governanceAccount, recordAccount, proposalAccounts, transactionAccounts, voteAccounts,
                 requiredSignatories, agreed, granted>>
realmVars   == <<realms, governances, treasuries, records, lastSigner, unchecked>>
foundationVars == <<part, vars, versionVars, realmVars>>

Accounts == INSTANCE AccountVersions WITH Proposals <- LegacyProposals \cup NewProposals
RealmsOf == INSTANCE Realms

First(S) == CHOOSE x \in S : TRUE

FoundationsInit ==
    /\ part \in Parts
    /\ Init /\ RealmsOf!RealmInit /\ Accounts!VersionInit
    /\ part # "votes" => max = 0 /\ pct = 100 /\ tipping = "Strict"
    /\ part # "accounts" => /\ agreed.community_vote_threshold = First(Percentages)
                            /\ voteAccounts = <<>> /\ governanceAccount.type = "V2"
                            /\ recordAccount = [type |-> "V2", version |-> 1, locks |-> {},
                                  unrelinquished_votes_count |-> 0, outstanding_proposal_count |-> 0]

FoundationsNext ==
    /\ UNCHANGED part
    /\ \/ part = "votes" /\ Next /\ UNCHANGED <<versionVars, realmVars>>
       \/ part = "accounts" /\ Accounts!VersionNext /\ UNCHANGED <<vars, realmVars>>
       \/ part = "realms" /\ RealmsOf!RealmNext /\ UNCHANGED <<vars, versionVars>>

FoundationsSpec == FoundationsInit /\ [][FoundationsNext]_foundationVars

-----------------------------------------------------------------------------

\* Every tally of Yes and No is decided exactly (VoteTallies).
VotesDecidedExactly == part = "votes" => TallyDecidedExactly

\* Accounts of two versions keep what they say through every handler that writes them
\* (AccountVersions: VersionsSound), and the authority over a realm passes from hand to
\* hand, by the check only to one that can act (Realms: RealmsSound).
AccountsSound ==
    [][/\ part = "accounts" => Accounts!VersionsSound'
       /\ part = "realms" => RealmsOf!PassedOn /\ RealmsOf!CheckedAuthorityActs']_foundationVars
=============================================================================
