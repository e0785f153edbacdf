--------------------------------- MODULE Voting --------------------------------
(***************************************************************************)
(* The vote on a proposal: casting, relinquishing and finalizing.          *)
(***************************************************************************)
EXTENDS GovernanceState

VoteKind(vote) == IF vote.kind = "Veto" THEN "Veto" ELSE "Electorate"

\* A Veto is cast by the population opposite to the proposal's.
VotingMint(mint, kind) == IF kind = "Veto" THEN OtherMint(mint) ELSE mint

CanVoteOn(p, m, kind) ==
    /\ IsGoverningMint(MintOf[m])
    /\ VotingMint(proposal[p].mint, kind) = MintOf[m]
    /\ kind = "Veto" => realm.hasCouncil

\* resolve_vote_threshold: ThresholdDisabled if the population may not vote.
VoteThresholdOf(mint, kind) ==
    IF kind = "Veto" THEN config.vetoThreshold[mint] ELSE config.voteThreshold[mint]

-----------------------------------------------------------------------------
(* Maximum voter weight *)

\* The set with the largest of the weights.
Largest(weights) == {w \in weights : \A v \in weights : v <= w}

\* coerce_max_voter_weight: never less than the votes that have been cast.
CoercedMaxVoterWeights(weight, prop, kind) ==
    Largest({weight} \cup
            IF kind = "Veto" THEN {prop.veto}
            ELSE {prop.weights[o] + prop.deny : o \in DOMAIN prop.weights})

SourceWeight(mint) ==
    IF realm.maxWeightSource.kind = "Absolute"
    THEN realm.maxWeightSource.value
    ELSE (supply[mint] * realm.maxWeightSource.value) \div SUPPLY_FRACTION_BASE

UsesWholeSupply(mint) ==
    \/ mint = "council"
    \/ realm.maxWeightSource = [kind |-> "SupplyFraction", value |-> SUPPLY_FRACTION_BASE]

\* resolve_max_voter_weight, for the population of mint and the counted votes.
MaxVoterWeights(mint, prop, kind) ==
    IF realm.maxWeightAddin[mint]
    THEN UNION {CoercedMaxVoterWeights(w, prop, kind) : w \in AddinWeights}
    ELSE IF UsesWholeSupply(mint) THEN {supply[mint]}
    ELSE CoercedMaxVoterWeights(SourceWeight(mint), prop, kind)

-----------------------------------------------------------------------------
(* Casting a vote *)

\* assert_can_cast_vote: counter votes only in the cool off time.
InVotingTimeIgnoringCoolOff(p, kind) == ~HasVotingMaxTimeEnded(p)
InVotingTime(p, kind) ==
    /\ ~HasVotingMaxTimeEnded(p)
    /\ kind = "Approve" => ~HasVotingBaseTimeEnded(p)

\* assert_valid_vote
ValidVote(prop, vote) ==
    /\ vote.kind = "Approve" =>
           ValidChoices(prop.voteType, Len(prop.weights), vote.choices)
    /\ vote.kind = "Deny" => prop.hasDeny

\* The proposal with the weights of a vote added (sign = 1) or taken off (-1).
CountedForGood(prop, vote, weight, sign) ==
    [prop EXCEPT
        !.weights = [o \in DOMAIN @ |-> IF vote.kind = "Approve" /\ sign = 1
                                        THEN @[o] + ChoiceWeight(vote.choices[o], weight)
                                        ELSE @[o]],
        !.deny = IF vote.kind = "Deny" /\ sign = 1 THEN @ + weight ELSE @,
        !.veto = IF vote.kind = "Veto" /\ sign = 1 THEN @ + weight ELSE @]
Counted(prop, vote, weight, sign) ==
    [prop EXCEPT
        !.weights = [o \in DOMAIN @ |->
                        IF vote.kind = "Approve"
                        THEN @[o] + sign * ChoiceWeight(vote.choices[o], weight)
                        ELSE @[o]],
        !.deny = IF vote.kind = "Deny" THEN @ + sign * weight ELSE @,
        !.veto = IF vote.kind = "Veto" THEN @ + sign * weight ELSE @]

TippedState(prop, kind, max, pct, tipping) ==
    LET thr == MinVoteThresholdWeight(pct, max)
    IN  IF kind = "Veto" THEN TippedVetoState(prop.veto, thr)
        ELSE TippedElectorateState(prop.voteType, prop.weights, prop.hasDeny,
                                   prop.deny, max, thr, tipping)

\* The owner of a decided proposal has one outstanding proposal less.  The owner
\* may be the voter, whose record has been changed already.
DecidedRecordsLostUpdate(owner, m, records) ==
    IF owner = m THEN records
    ELSE [records EXCEPT ![owner].outstanding = Decreased(@)]
DecidedRecordsStale(owner, m, records) ==
    [m2 \in DOMAIN records |->
        IF m2 = owner THEN [tor[m2] EXCEPT !.outstanding = Decreased(@)] ELSE records[m2]]
DecidedRecords(owner, m, records) ==
    [records EXCEPT ![owner].outstanding = Decreased(@)]

CastVote(p, m, vote) ==
    LET kind == VoteKind(vote)
        pct  == VoteThresholdOf(MintOf[m], kind)
    IN  /\ p \in DOMAIN proposal /\ m \in DOMAIN tor
        /\ ~\E r \in voteRecords : r.proposal = p /\ r.voter = m
        /\ CanVoteOn(p, m, kind)
        /\ proposal[p].state = "Voting" /\ InVotingTime(p, vote.kind)
        /\ ValidVote(proposal[p], vote)
        /\ pct # ThresholdDisabled
        /\ \E weight \in VoterWeights(m) :
             LET counted == Counted(proposal[p], vote, weight, 1)
                 voted   == [tor EXCEPT ![m].unrelinquished = @ + 1]
             IN  /\ voteRecords' = voteRecords \cup
                        {[proposal |-> p, voter |-> m, vote |-> vote,
                          weight |-> weight, relinquished |-> FALSE]}
                 /\ \E max \in MaxVoterWeights(MintOf[m], counted, kind) :
                      LET state == TippedState(counted, kind, max, pct,
                                               config.voteTipping[MintOf[m]])
                      IN  IF state = "Voting"
                          THEN /\ proposal' = [proposal EXCEPT ![p] = counted]
                               /\ tor' = voted
                               /\ UNCHANGED activeProposals
                          ELSE /\ proposal' = [proposal EXCEPT ![p] =
                                     [counted EXCEPT !.state = state,
                                         !.winners = IF state = "Succeeded" THEN {1} ELSE {},
                                         !.votingCompletedAt = now,
                                         !.maxVoteWeight = max,
                                         !.voteThreshold = pct]]
                               /\ tor' = DecidedRecords(proposal[p].owner, m, voted)
                               /\ activeProposals' = Decreased(activeProposals)
        /\ UNCHANGED <<now, realmVars, config, requiredSignatories, tokenVars,
                       proposalDeposit>>

-----------------------------------------------------------------------------
(* Relinquishing a vote *)

\* What both ways of relinquishing the vote of a live record ask and do.
Relinquishes(r) ==
    /\ r \in voteRecords /\ ~r.relinquished
    /\ CanVoteOn(r.proposal, r.voter, VoteKind(r.vote))
    /\ tor[r.voter].unrelinquished > 0
    /\ tor' = [tor EXCEPT ![r.voter].unrelinquished = @ - 1]
    /\ UNCHANGED <<now, realmVars, govVars, tokenVars, proposalDeposit>>

\* checked_sub: the weights the vote is taken off from.
HasCounted(prop, vote, weight) ==
    LET rest == Counted(prop, vote, weight, -1)
    IN  rest.deny >= 0 /\ rest.veto >= 0 /\ \A o \in DOMAIN rest.weights : rest.weights[o] >= 0

\* While the vote is open its owner takes it back, and the record is disposed.
WithdrawVote(r) ==
    /\ Relinquishes(r)
    /\ proposal[r.proposal].state = "Voting" /\ ~HasVotingMaxTimeEnded(r.proposal)
    /\ HasCounted(proposal[r.proposal], r.vote, r.weight)
    /\ proposal' = [proposal EXCEPT ![r.proposal] = Counted(@, r.vote, r.weight, -1)]
    /\ voteRecords' = voteRecords \ {r}

\* Once the vote is decided anybody prunes it: the record stays, marked.
CanPruneUndecided(p) == proposal[p].state # "Voting" \/ HasVotingMaxTimeEnded(p)
CanPrune(p) == proposal[p].state # "Voting"

PruneVote(r) ==
    /\ Relinquishes(r)
    /\ CanPrune(r.proposal)
    /\ voteRecords' = (voteRecords \ {r}) \cup {[r EXCEPT !.relinquished = TRUE]}
    /\ UNCHANGED proposal

-----------------------------------------------------------------------------
(* Finalizing a vote *)

\* Anybody resolves a vote whose time is up.
FinalizeVote(p) ==
    /\ p \in DOMAIN proposal
    /\ LET prop == proposal[p]
           pct  == VoteThresholdOf(prop.mint, "Electorate")
       IN  /\ IsGoverningMint(prop.mint)
           /\ prop.state = "Voting" /\ HasVotingMaxTimeEnded(p)
           /\ pct # ThresholdDisabled
           /\ \E max \in MaxVoterWeights(prop.mint, prop, "Electorate") :
                LET thr == MinVoteThresholdWeight(pct, max)
                IN  proposal' = [proposal EXCEPT
                        ![p].state = FinalVoteState(prop.voteType, prop.weights,
                                                    prop.hasDeny, prop.deny, thr),
                        ![p].winners = WinningOptions(prop.voteType, prop.weights,
                                                      prop.deny, thr),
                        ![p].votingCompletedAt = VotingMaxTimeEnd(p),
                        ![p].maxVoteWeight = max,
                        ![p].voteThreshold = pct]
           /\ tor' = [tor EXCEPT ![prop.owner].outstanding = Decreased(@)]
    /\ activeProposals' = Decreased(activeProposals)
    /\ UNCHANGED <<now, realmVars, config, requiredSignatories, tokenVars,
                   voteRecords, proposalDeposit>>
=============================================================================
