------------------------------- MODULE Governance ------------------------------
(***************************************************************************)
(* The governance program of the Normal protocol: one Realm with a         *)
(* community and a council mint, and one Governance of it.  This module    *)
(* composes the handlers of TokenOwnerRecords, Proposals and Voting with   *)
(* the handlers that change configurations, and states what must hold of   *)
(* their interleavings.  A step is one instruction: the runtime executes   *)
(* the instructions that write an account one after the other.             *)
(***************************************************************************)
EXTENDS TokenOwnerRecords, Proposals, Voting

-----------------------------------------------------------------------------
(* Time and configuration *)

Tick ==
    /\ now < MAX_TIME
    /\ now' = now + 1
    /\ UNCHANGED <<realmVars, govVars, tokenVars, tor, proposalVars>>

\* The governance itself, by executing a proposal, replaces its config.
SetGovernanceConfig(c) ==
    /\ ValidConfig(c)
    /\ config' = c
    /\ UNCHANGED <<now, realmVars, requiredSignatories, activeProposals,
                   tokenVars, tor, proposalVars>>

\* assert_can_change_config, and the council mint, which can only be removed.
CanChangeRealm(r) ==
    /\ r.hasCouncil => realm.hasCouncil
    /\ r.tokenType["community"] = "Membership" => realm.tokenType["community"] = "Membership"

\* The realm authority replaces the realm's configuration.
SetRealmConfig(r) ==
    /\ CanChangeRealm(r)
    /\ realm' = r
    /\ UNCHANGED <<now, lockAuthorities, govVars, tokenVars, tor, proposalVars>>

AddLockAuthority(mint, a) ==
    /\ IsGoverningMint(mint)
    /\ a \notin lockAuthorities[mint]
    /\ lockAuthorities' = [lockAuthorities EXCEPT ![mint] = @ \cup {a}]
    /\ UNCHANGED <<now, realm, govVars, tokenVars, tor, proposalVars>>

RemoveLockAuthority(mint, a) ==
    /\ IsGoverningMint(mint)
    /\ a \in lockAuthorities[mint]
    /\ lockAuthorities' = [lockAuthorities EXCEPT ![mint] = @ \ {a}]
    /\ UNCHANGED <<now, realm, govVars, tokenVars, tor, proposalVars>>

AddRequiredSignatory(s) ==
    /\ s \notin requiredSignatories
    /\ requiredSignatories' = requiredSignatories \cup {s}
    /\ UNCHANGED <<now, realmVars, config, activeProposals, tokenVars, tor, proposalVars>>

RemoveRequiredSignatory(s) ==
    /\ s \in requiredSignatories
    /\ requiredSignatories' = requiredSignatories \ {s}
    /\ UNCHANGED <<now, realmVars, config, activeProposals, tokenVars, tor, proposalVars>>

-----------------------------------------------------------------------------
(* The specification *)

NoAccounts == [k \in {} |-> {}]

Init ==
    /\ now = 1
    /\ realm \in Realms
    /\ lockAuthorities = [mint \in Mints |-> {}]
    /\ config \in Configs
    /\ requiredSignatories = {}
    /\ activeProposals = 0
    /\ supply = InitialSupply
    /\ holding = [mint \in Mints |-> 0]
    /\ tor = NoAccounts
    /\ proposal = NoAccounts
    /\ voteRecords = {}
    /\ proposalDeposit = NoAccounts

\* The votes that may be cast on a proposal, valid or not.
Votes(p) ==
    [kind : {"Deny", "Veto"}, choices : {<<>>}] \cup
    [kind : {"Approve"}, choices : [DOMAIN proposal[p].weights -> Percentages]]

ConfigurationStep ==
    \/ Tick
    \/ \E c \in Configs \ {config} : SetGovernanceConfig(c)
    \/ \E r \in Realms \ {realm} : SetRealmConfig(r)
    \/ \E mint \in Mints, a \in Authorities :
           AddLockAuthority(mint, a) \/ RemoveLockAuthority(mint, a)
    \/ \E s \in Signatories : AddRequiredSignatory(s) \/ RemoveRequiredSignatory(s)

TokenStep ==
    \/ \E mint \in Mints, amount \in MintAmounts :
           MintTokens(mint, amount) \/ BurnTokens(mint, amount)
    \/ \E m \in Members :
         \/ CreateTokenOwnerRecord(m)
         \/ \E amount \in Amounts, minted \in BOOLEAN :
                DepositGoverningTokens(m, amount, minted)
         \/ WithdrawGoverningTokens(m)
         \/ \E amount \in Amounts : RevokeGoverningTokens(m, amount)
         \/ \E a \in Authorities, id \in LockIds, expiry \in {NoExpiry} \cup 1..MAX_TIME :
                SetTokenOwnerRecordLock(m, a, id, expiry)
         \/ \E a \in Authorities, ids \in SUBSET LockIds, signed \in BOOLEAN :
                RelinquishTokenOwnerRecordLocks(m, a, ids, signed)

\* A vote that would start after LAST_START is left out: within the bound
\* MAX_TIME of the clock there would not be the time to finish it.
ProposalStep ==
    \E p \in Proposals :
        \/ \E m \in Members, mint \in Mints, ballot \in Ballots :
               CreateProposal(p, m, mint, ballot)
        \/ \E s \in Signatories : AddSignatory(p, s)
        \/ \E signing \in {{}} \cup {{s} : s \in Signatories} :
               now <= LAST_START /\ SignOffProposal(p, signing)
        \/ CancelProposal(p)
        \/ RefundProposalDeposit(p)

VoteStep ==
    \/ \E p \in DOMAIN proposal, m \in Members : \E vote \in Votes(p) : CastVote(p, m, vote)
    \/ \E r \in voteRecords : WithdrawVote(r) \/ PruneVote(r)
    \/ \E p \in Proposals : FinalizeVote(p)

Next == ConfigurationStep \/ TokenStep \/ ProposalStep \/ VoteStep

Spec == Init /\ [][Next]_vars

\* Time passes, and what anybody may call is called in the end: the vote of a
\* proposal is finalized and the votes on a decided proposal are relinquished.
PruneVoteOf(p, m) == \E r \in voteRecords : r.proposal = p /\ r.voter = m /\ PruneVote(r)

FairSpec ==
    /\ Spec
    /\ WF_vars(Tick)
    /\ \A p \in Proposals : WF_vars(FinalizeVote(p))
    /\ \A p \in Proposals, m \in Members : WF_vars(PruneVoteOf(p, m))

-----------------------------------------------------------------------------
(* Safety *)

SumOver(S, F(_)) == SumFunction([x \in S |-> F(x)])

DecidedStates == {"Succeeded", "Executing", "Completed", "Defeated", "Vetoed"}

\* The weights a proposal shows are the sums of the vote records that exist,
\* through votes cast, taken back and pruned in any order: pruning after the
\* decision leaves the tally alone (process_relinquish_vote.rs), withdrawing
\* takes off exactly what casting the vote added.
TallyMatchesVotes ==
    \A p \in DOMAIN proposal :
        LET votes == VotesOn(p)
            Of(kind, r) == IF r.vote.kind = kind THEN r.weight ELSE 0
            Choice(o, r) == IF r.vote.kind = "Approve"
                            THEN ChoiceWeight(r.vote.choices[o], r.weight) ELSE 0
        IN  /\ proposal[p].deny = SumOver(votes, LAMBDA r : Of("Deny", r))
            /\ proposal[p].veto = SumOver(votes, LAMBDA r : Of("Veto", r))
            /\ \A o \in DOMAIN proposal[p].weights :
                   proposal[p].weights[o] = SumOver(votes, LAMBDA r : Choice(o, r))

\* unrelinquished_votes_count, which holds back a withdrawal, is the number of
\* votes of the record that are neither withdrawn nor pruned.
VotesCounted ==
    \A m \in Members :
        Cardinality(LiveVotesOf(m)) = IF m \in DOMAIN tor THEN tor[m].unrelinquished ELSE 0

\* outstanding_proposal_count and active_proposal_count are the numbers of
\* proposals that still may be decided, although each is decremented by five
\* handlers, two of which may do so while another record is written.
ProposalsCounted ==
    /\ \A m \in Members :
           Cardinality(ActiveProposalsOf(m)) = IF m \in DOMAIN tor THEN tor[m].outstanding ELSE 0
    /\ activeProposals =
           Cardinality({p \in DOMAIN proposal : proposal[p].state \in ActiveStates})

\* Only a revocation of membership tokens can take the deposit of a record
\* below the weight of a vote it has not relinquished.
VotesBackedByDeposit ==
    \A r \in voteRecords : ~r.relinquished => r.weight <= tor[r.voter].deposit

IsVoting(p) == p \in DOMAIN proposal /\ proposal[p].state = "Voting"

\* The tokens of a mint vote once on an open proposal: however they are withdrawn
\* and deposited by another owner, also while the vote awaits its finalization,
\* the votes cast on it never exceed the holding account's balance, nor that the
\* supply, which is the maximum weight the vote is resolved against.
VotesWithinSupply ==
    \A mint \in Mints :
        /\ \A p \in DOMAIN proposal :
               IsVoting(p) =>
                   SumOver({r \in VotesOn(p) : MintOf[r.voter] = mint},
                           LAMBDA r : r.weight) <= holding[mint]
        /\ holding[mint] <= supply[mint]

\* The holding account of a mint has what its records have deposited.
HoldingBacksDeposits ==
    \A mint \in Mints :
        holding[mint] = SumOver({m \in DOMAIN tor : MintOf[m] = mint},
                                LAMBDA m : tor[m].deposit)

\* Where no membership is revoked a token votes once: live votes are backed by the
\* deposits of their voters, deposits by the holding account, and what is cast on an
\* open proposal by the supply.
VotesBacked == VotesBackedByDeposit /\ HoldingBacksDeposits /\ VotesWithinSupply

\* A decided proposal has the state and the winners that its final tally, its
\* max_vote_weight and its vote_threshold resolve to, whether it was tipped by
\* the last vote or finalized after its time, and whatever was configured,
\* minted, burned or revoked since.
OutcomeReproducible ==
    \A p \in DOMAIN proposal :
        LET prop == proposal[p]
            thr  == MinVoteThresholdWeight(prop.voteThreshold, prop.maxVoteWeight)
        IN  /\ prop.state \in {"Succeeded", "Completed", "Defeated"} =>
                   /\ prop.state = FinalVoteState(prop.voteType, prop.weights,
                                                  prop.hasDeny, prop.deny, thr)
                   /\ prop.winners = WinningOptions(prop.voteType, prop.weights,
                                                    prop.deny, thr)
            /\ prop.state = "Vetoed" => prop.veto >= thr

\* A single choice proposal has at most one winner, which outvoted the Deny
\* votes and every other option.
OneWinner ==
    \A p \in DOMAIN proposal :
        \A o \in proposal[p].winners :
            /\ proposal[p].weights[o] > proposal[p].deny
            /\ proposal[p].voteType = "SingleChoice" =>
                   \A q \in DOMAIN proposal[p].weights \ {o} :
                       proposal[p].weights[q] < proposal[p].weights[o]

\* A vote starts only when every signatory of the proposal has signed it off,
\* also those added between two signatures.
VotingNeedsAllSignatures ==
    \A p \in DOMAIN proposal :
        proposal[p].state \in DecidedStates \cup {"Voting"} =>
            proposal[p].signedOff = proposal[p].signatories

-----------------------------------------------------------------------------
(* Action properties *)

\* Once the voting base time is over nothing adds weight to an option: the cool
\* off time is there for counter votes alone.
CoolOffNeverHelps ==
    [][\A p \in DOMAIN proposal :
           proposal[p].state = "Voting" /\ HasVotingBaseTimeEnded(p) =>
               \A o \in DOMAIN proposal[p].weights :
                   proposal'[p].weights[o] <= proposal[p].weights[o]]_vars

Committed(m) ==
    \/ LiveVotesOf(m) # {}
    \/ ActiveProposalsOf(m) # {}
    \/ UnexpiredLocks(m) # {}

\* Deposited tokens leave a record whose votes are not all relinquished, whose
\* proposals are not all decided or that has a lock only by revocation: the
\* withdrawal looks at counters, the property at the votes and proposals.
CommittedTokensStay ==
    [][\A m \in DOMAIN tor :
           tor'[m].deposit < tor[m].deposit =>
               ~Committed(m) \/ realm.tokenType[MintOf[m]] = "Membership"]_vars

CallOf(a, m) ==
    \/ \E ids \in SUBSET LockIds : RelinquishTokenOwnerRecordLocks(m, a, ids, TRUE)
    \/ \E id \in LockIds, expiry \in {NoExpiry} \cup 1..MAX_TIME :
           SetTokenOwnerRecordLock(m, a, id, expiry)

\* A lock that has not expired goes only by a call of its own authority, which
\* removes or replaces it, or once that authority is not configured any more:
\* neither a trimming of expired locks nor another authority that uses the same
\* lock id removes it (remove_lock, upsert_lock, remove_expired_locks).
LocksAreTheirAuthoritys ==
    [][\A m \in DOMAIN tor : \A lock \in UnexpiredLocks(m) \ tor'[m].locks :
           \/ lock.authority \notin lockAuthorities[MintOf[m]]
           \/ CallOf(lock.authority, m)]_vars

\* A vote that is tipped strictly has its outcome: the supply that has not voted
\* yet cannot change it, however it votes.
StrictTipIsFinal ==
    [][\A p \in DOMAIN proposal :
           LET before == proposal[p]
               after  == proposal'[p]
               thr    == MinVoteThresholdWeight(after.voteThreshold, after.maxVoteWeight)
               all    == supply[before.mint]
           IN  /\ before.state = "Voting" /\ voteRecords' # voteRecords
               /\ after.state \in {"Succeeded", "Defeated"}
               /\ config.voteTipping[before.mint] = "Strict"
               => \A yes \in after.weights[1]..all, deny \in after.deny..all :
                      yes + deny <= all =>
                          after.state = FinalVoteState(after.voteType, <<yes>>, TRUE, deny, thr)]_vars

\* A decision is final: no vote, relinquishment, cancellation or configuration
\* changes a proposal that has been decided.
DecisionFrozen ==
    [][\A p \in DOMAIN proposal :
           proposal[p].state \notin ActiveStates => proposal'[p] = proposal[p]]_vars

-----------------------------------------------------------------------------
(* What the program's own documentation says, and its code does not do *)

\* MissingRequiredSignatories: "Proposal is missing signatories required by its
\* governance" (process_sign_off_proposal compares the numbers of signatories,
\* so a vote may start without the signature of a required one).
RequiredSignatoriesSign ==
    [][\A p \in DOMAIN proposal :
           proposal[p].state # "Voting" /\ proposal'[p].state = "Voting" =>
               requiredSignatories \subseteq proposal'[p].signedOff]_vars

-----------------------------------------------------------------------------
(* Liveness *)

HasLiveVote(m, p) == \E r \in LiveVotesOf(m) : r.proposal = p

\* Every vote ends, by a tip, a cancellation or process_finalize_vote once its
\* time is up.
VotingEnds ==
    \A p \in Proposals : IsVoting(p) ~> ~IsVoting(p)

\* Every vote is relinquished in the end, so that no deposit stays tied to it:
\* process_relinquish_vote refuses between the end of the time and the decision,
\* and serves anybody after it.
VotesReleased ==
    \A p \in Proposals, m \in Members :
        HasLiveVote(m, p) ~> ~HasLiveVote(m, p)
=============================================================================
