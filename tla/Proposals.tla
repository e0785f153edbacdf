------------------------------- MODULE Proposals -------------------------------
(***************************************************************************)
(* A proposal before its vote: creation, signatories and sign off; the     *)
(* owner's cancellation; the security deposit.                             *)
(***************************************************************************)
EXTENDS GovernanceState

\* assert_can_create_proposal
CanCreateProposal(m, voterWeight) ==
    LET minWeight == config.minWeightToCreateProposal[MintOf[m]]
    IN  /\ IsGoverningMint(MintOf[m])
        /\ minWeight # WeightDisabled
        /\ voterWeight >= minWeight
        /\ tor[m].outstanding < MAX_OUTSTANDING

NewProposal(m, mint, ballot) ==
    [state |-> "Draft", mint |-> mint, owner |-> m,
     voteType |-> ballot.voteType, hasDeny |-> ballot.hasDeny,
     weights |-> [o \in 1..ballot.options |-> 0], deny |-> 0, veto |-> 0, winners |-> {},
     signatories |-> {}, signedOff |-> {},
     votingAt |-> NotSet, votingCompletedAt |-> NotSet, closed |-> FALSE,
     maxVoteWeight |-> 0, voteThreshold |-> ThresholdDisabled]

\* The owner of a record of either mint proposes a vote of the given mint.  The
\* deposit grows with the active proposals beyond the exempt ones.
CreateProposal(p, m, mint, ballot) ==
    /\ p \notin DOMAIN proposal
    /\ IsGoverningMint(mint) /\ config.voteThreshold[mint] # ThresholdDisabled
    /\ m \in DOMAIN tor
    /\ \E voterWeight \in VoterWeights(m) : CanCreateProposal(m, voterWeight)
    /\ tor' = [tor EXCEPT ![m].outstanding = @ + 1]
    /\ proposal' = Created(proposal, p, NewProposal(m, mint, ballot))
    /\ activeProposals' = activeProposals + 1
    /\ LET amount == SaturatingSub(activeProposals', config.depositExempt)
       IN  proposalDeposit' = IF amount > 0 THEN Created(proposalDeposit, p, amount)
                                            ELSE proposalDeposit
    /\ UNCHANGED <<now, realmVars, config, requiredSignatories, tokenVars, voteRecords>>

-----------------------------------------------------------------------------
(* Signatories *)

\* Until all required signatories are there anybody may add one of them; then
\* the owner may add others.
CanAddSignatory(p, s) ==
    Cardinality(proposal[p].signatories) < Cardinality(requiredSignatories)
        => s \in requiredSignatories

AddSignatory(p, s) ==
    /\ p \in DOMAIN proposal /\ proposal[p].state = "Draft"
    /\ s \notin proposal[p].signatories
    /\ CanAddSignatory(p, s)
    /\ proposal' = [proposal EXCEPT ![p].signatories = @ \cup {s}]
    /\ UNCHANGED <<now, realmVars, govVars, tokenVars, tor, voteRecords, proposalDeposit>>

\* assert_can_sign_off and the required signatories, counted
CanSignOff(p) ==
    /\ proposal[p].state \in {"Draft", "SigningOff"}
    /\ Cardinality(proposal[p].signatories) >= Cardinality(requiredSignatories)

\* The signatories whose signature the sign off adds: the owner of a proposal
\* that has no signatories signs it off alone.
SigningSignatories(p) ==
    IF proposal[p].signatories = {} THEN {{}}
    ELSE {{s} : s \in proposal[p].signatories \ proposal[p].signedOff}

\* The vote starts with the last signature.
StartsOnFirstSignature(signedOff, signatories) == TRUE
StartsVoting(signedOff, signatories) ==
    Cardinality(signedOff) = Cardinality(signatories)

SignOffProposal(p, signing) ==
    /\ p \in DOMAIN proposal
    /\ CanSignOff(p)
    /\ signing \in SigningSignatories(p)
    /\ LET signedOff == proposal[p].signedOff \cup signing
           starts    == StartsVoting(signedOff, proposal[p].signatories)
       IN  proposal' = [proposal EXCEPT
                            ![p].signedOff = signedOff,
                            ![p].state = IF starts THEN "Voting" ELSE "SigningOff",
                            ![p].votingAt = IF starts THEN now ELSE @]
    /\ UNCHANGED <<now, realmVars, govVars, tokenVars, tor, voteRecords, proposalDeposit>>

-----------------------------------------------------------------------------
(* Cancellation and deposit refund *)

\* assert_can_cancel
CanCancelSucceeded(p) == proposal[p].state \in ActiveStates \cup {"Succeeded"}
CanCancel(p) ==
    \/ proposal[p].state \in {"Draft", "SigningOff"}
    \/ proposal[p].state = "Voting" /\ ~HasVotingMaxTimeEnded(p)

CancelProposal(p) ==
    /\ p \in DOMAIN proposal
    /\ CanCancel(p)
    /\ tor' = [tor EXCEPT ![proposal[p].owner].outstanding = Decreased(@)]
    /\ proposal' = [proposal EXCEPT ![p].state = "Cancelled", ![p].closed = TRUE]
    /\ activeProposals' = Decreased(activeProposals)
    /\ UNCHANGED <<now, realmVars, config, requiredSignatories, tokenVars,
                   voteRecords, proposalDeposit>>

\* Anybody returns the deposit to its payer once the proposal has concluded.
RefundProposalDeposit(p) ==
    /\ p \in DOMAIN proposalDeposit
    /\ proposal[p].state \notin ActiveStates
    /\ proposalDeposit' = [q \in DOMAIN proposalDeposit \ {p} |-> proposalDeposit[q]]
    /\ UNCHANGED <<now, realmVars, govVars, tokenVars, tor, proposal, voteRecords>>
=============================================================================
