----------------------------- MODULE ExecutionProofs ---------------------------
(***************************************************************************)
(* Theorems about Execution for every value of its constants: what is      *)
(* executed and counted, the order of the dates, and that proposals live   *)
(* as ProposalLifecycle says.                                              *)
(***************************************************************************)
EXTENDS Execution, GovernanceProofs

-----------------------------------------------------------------------------
(* What the handlers of Governance do to proposals *)

\* A proposal's way through its states, up to its decision, and the dates set on it.
Drafted(before, after) ==
    /\ before.state \in {"Draft", "SigningOff"}
    /\ after.votingCompletedAt = before.votingCompletedAt
    /\ \/ before.state = "Draft" /\ after.state = "Draft" /\ after.votingAt = before.votingAt
       \/ after.state = "SigningOff" /\ after.votingAt = before.votingAt
       \/ after.state = "Voting" /\ after.votingAt = now
Withdrawn(before, after) ==
    /\ before.state \in ActiveStates /\ after.state = "Cancelled"
    /\ after.votingAt = before.votingAt /\ after.votingCompletedAt = before.votingCompletedAt
VotedOn(before, after) ==
    /\ before.state = "Voting"
    /\ after.votingAt = before.votingAt
    /\ \/ after.state = "Voting" /\ after.votingCompletedAt = before.votingCompletedAt
       \/ /\ \/ after.state \in {"Succeeded", "Defeated", "Vetoed"}
             \/ after.state = "Completed" /\ ~before.hasDeny
          /\ \/ after.votingCompletedAt = now
             \/ after.votingCompletedAt < now /\ before.votingAt <= after.votingCompletedAt

Moves(p) ==
    /\ p \in DOMAIN proposal
    /\ proposal' = [proposal EXCEPT ![p] = proposal'[p]]
    /\ proposal'[p] \in ProposalType
    /\ DOMAIN proposal'[p].weights = DOMAIN proposal[p].weights
    /\ proposal'[p].hasDeny = proposal[p].hasDeny
    /\ \/ Drafted(proposal[p], proposal'[p])
       \/ Withdrawn(proposal[p], proposal'[p])
       \/ VotedOn(proposal[p], proposal'[p])

Appears(p) ==
    /\ p \in Proposals \ DOMAIN proposal
    /\ proposal' = Created(proposal, p, proposal'[p])
    /\ proposal'[p] \in ProposalType /\ proposal'[p].state = "Draft"
    /\ proposal'[p].votingAt = NotSet /\ proposal'[p].votingCompletedAt = NotSet

\* What a handler of Governance may do to the proposals, and to the clock.
GovernanceMove ==
    /\ \/ UNCHANGED proposal
       \/ UNCHANGED now /\ \E p \in Proposals : Moves(p) \/ Appears(p)
    /\ now' \in Nat /\ now <= now'

LEMMA ProposalStepMoves ==
    ASSUME TypeInv, ProposalStep
    PROVE  UNCHANGED proposal \/ \E p \in Proposals : Moves(p) \/ Appears(p)
<1> SUFFICES ASSUME NEW p \in Proposals,
                    \/ \E m \in Members, mint \in Mints, ballot \in Ballots :
                           CreateProposal(p, m, mint, ballot)
                    \/ \E s \in Signatories : AddSignatory(p, s)
                    \/ \E signing \in {{}} \cup {{s} : s \in Signatories} :
                           now <= LAST_START /\ SignOffProposal(p, signing)
                    \/ CancelProposal(p)
                    \/ RefundProposalDeposit(p)
             PROVE  UNCHANGED proposal \/ Moves(p) \/ Appears(p)
  BY DEF ProposalStep
<1>0. TypeInv'
  BY ProposalStepType
<1>a. /\ p \in DOMAIN proposal => proposal[p] \in ProposalType
      /\ p \in DOMAIN proposal' => proposal'[p] \in ProposalType
  BY <1>0 DEF TypeInv, TypeOK
<1>1. ASSUME NEW m \in Members, NEW mint \in Mints, NEW ballot \in Ballots,
             CreateProposal(p, m, mint, ballot)
      PROVE  Appears(p)
  <2>1. /\ p \notin DOMAIN proposal
        /\ proposal' = Created(proposal, p, NewProposal(m, mint, ballot))
    BY <1>1 DEF CreateProposal
  <2>2. proposal'[p] = NewProposal(m, mint, ballot) /\ p \in DOMAIN proposal'
    BY <2>1 DEF Created
  <2>3. /\ NewProposal(m, mint, ballot).state = "Draft"
        /\ NewProposal(m, mint, ballot).votingAt = NotSet
        /\ NewProposal(m, mint, ballot).votingCompletedAt = NotSet
    BY DEF NewProposal
  <2> QED
    BY <1>a, <2>1, <2>2, <2>3 DEF Appears
<1>2. ASSUME NEW s \in Signatories, AddSignatory(p, s)
      PROVE  Moves(p)
  <2>1. /\ p \in DOMAIN proposal /\ proposal[p].state = "Draft"
        /\ proposal' = [proposal EXCEPT ![p] =
               [proposal[p] EXCEPT !.signatories = proposal[p].signatories \cup {s}]]
    BY <1>2 DEF AddSignatory
  <2>2. proposal'[p] = [proposal[p] EXCEPT !.signatories = proposal[p].signatories \cup {s}]
    BY <2>1
  <2>3. Drafted(proposal[p], proposal'[p]) /\ DOMAIN proposal'[p].weights = DOMAIN proposal[p].weights
        /\ proposal'[p].hasDeny = proposal[p].hasDeny
    BY <1>a, <2>1, <2>2 DEF Drafted, ProposalType
  <2> QED
    BY <1>a, <2>1, <2>2, <2>3 DEF Moves
<1>3. ASSUME NEW signing, SignOffProposal(p, signing)
      PROVE  Moves(p)
  <2> DEFINE signedOff == proposal[p].signedOff \cup signing
             starts == StartsVoting(signedOff, proposal[p].signatories)
             new == [proposal[p] EXCEPT !.signedOff = signedOff,
                                        !.state = IF starts THEN "Voting" ELSE "SigningOff",
                                        !.votingAt = IF starts THEN now ELSE proposal[p].votingAt]
  <2>1. /\ p \in DOMAIN proposal /\ proposal[p].state \in {"Draft", "SigningOff"}
        /\ proposal' = [proposal EXCEPT ![p] = new]
    BY <1>3 DEF SignOffProposal, CanSignOff
  <2>2. proposal'[p] = new
    BY <2>1
  <2> HIDE DEF signedOff, starts
  <2>3. Drafted(proposal[p], new) /\ new.weights = proposal[p].weights
        /\ new.hasDeny = proposal[p].hasDeny
    BY <1>a, <2>1 DEF Drafted, ProposalType
  <2> HIDE DEF new
  <2> QED
    BY <1>a, <2>1, <2>2, <2>3 DEF Moves
<1>4. CASE CancelProposal(p)
  <2>1. /\ p \in DOMAIN proposal /\ proposal[p].state \in ActiveStates
        /\ proposal' = [proposal EXCEPT ![p] =
               [proposal[p] EXCEPT !.state = "Cancelled", !.closed = TRUE]]
    BY <1>4 DEF CancelProposal, CanCancel, ActiveStates
  <2>2. proposal'[p] = [proposal[p] EXCEPT !.state = "Cancelled", !.closed = TRUE]
    BY <2>1
  <2>3. Withdrawn(proposal[p], proposal'[p]) /\ proposal'[p].weights = proposal[p].weights
        /\ proposal'[p].hasDeny = proposal[p].hasDeny
    BY <1>a, <2>1, <2>2 DEF Withdrawn, ProposalType
  <2> QED
    BY <1>a, <2>1, <2>2, <2>3 DEF Moves
<1>5. CASE RefundProposalDeposit(p)
  BY <1>5 DEF RefundProposalDeposit
<1> QED
  BY <1>1, <1>2, <1>3, <1>4, <1>5

\* Counting a vote leaves everything but the tally alone.
SameDates(before, after) ==
    /\ after.hasDeny = before.hasDeny /\ after.votingAt = before.votingAt
    /\ after.votingCompletedAt = before.votingCompletedAt

LEMMA CountedKeeps ==
    ASSUME NEW prop \in ProposalType, NEW vote, NEW weight, NEW sign
    PROVE  /\ SameDates(prop, Counted(prop, vote, weight, sign))
           /\ Counted(prop, vote, weight, sign).state = prop.state
           /\ DOMAIN Counted(prop, vote, weight, sign).weights = DOMAIN prop.weights
<1> DEFINE weights == [o \in DOMAIN prop.weights |->
                          IF vote.kind = "Approve"
                          THEN prop.weights[o] + sign * ChoiceWeight(vote.choices[o], weight)
                          ELSE prop.weights[o]]
           deny == IF vote.kind = "Deny" THEN prop.deny + sign * weight ELSE prop.deny
           veto == IF vote.kind = "Veto" THEN prop.veto + sign * weight ELSE prop.veto
<1>1. Counted(prop, vote, weight, sign)
          = [prop EXCEPT !.weights = weights, !.deny = deny, !.veto = veto]
  BY DEF Counted
<1>2. DOMAIN weights = DOMAIN prop.weights
  OBVIOUS
<1> HIDE DEF weights, deny, veto
<1> QED
  BY <1>1, <1>2 DEF ProposalType, SameDates

\* The fields a decision writes.
LEMMA DecidedFields ==
    ASSUME NEW prop \in ProposalType, NEW state, NEW winners, NEW at, NEW max, NEW pct
    PROVE  LET decided == [prop EXCEPT !.state = state, !.winners = winners,
                                       !.votingCompletedAt = at, !.maxVoteWeight = max,
                                       !.voteThreshold = pct]
           IN  /\ decided.state = state /\ decided.votingCompletedAt = at
               /\ decided.hasDeny = prop.hasDeny /\ decided.votingAt = prop.votingAt
               /\ decided.weights = prop.weights /\ decided.winners = winners
  BY DEF ProposalType

LEMMA CastVoteMoves ==
    ASSUME TypeInv, NEW p \in DOMAIN proposal, NEW m \in Members, NEW vote \in Votes(p),
           CastVote(p, m, vote)
    PROVE  Moves(p)
<1> DEFINE kind == VoteKind(vote)
           pct == VoteThresholdOf(MintOf[m], kind)
           tipping == config.voteTipping[MintOf[m]]
<1>1. proposal[p] \in ProposalType /\ proposal[p].state = "Voting"
  BY DEF CastVote, TypeInv, TypeOK
<1>2. PICK weight \in VoterWeights(m) :
        LET counted == Counted(proposal[p], vote, weight, 1)
        IN  \E max \in MaxVoterWeights(MintOf[m], counted, kind) :
              LET state == TippedState(counted, kind, max, pct, tipping)
              IN  IF state = "Voting"
                  THEN proposal' = [proposal EXCEPT ![p] = counted]
                  ELSE proposal' = [proposal EXCEPT ![p] =
                             [counted EXCEPT !.state = state,
                                 !.winners = IF state = "Succeeded" THEN {1} ELSE {},
                                 !.votingCompletedAt = now,
                                 !.maxVoteWeight = max,
                                 !.voteThreshold = pct]]
  BY Zenon DEF CastVote
<1> DEFINE counted == Counted(proposal[p], vote, weight, 1)
<1>3. PICK max \in MaxVoterWeights(MintOf[m], counted, kind) :
        LET state == TippedState(counted, kind, max, pct, tipping)
        IN  IF state = "Voting"
            THEN proposal' = [proposal EXCEPT ![p] = counted]
            ELSE proposal' = [proposal EXCEPT ![p] =
                       [counted EXCEPT !.state = state,
                           !.winners = IF state = "Succeeded" THEN {1} ELSE {},
                           !.votingCompletedAt = now,
                           !.maxVoteWeight = max,
                           !.voteThreshold = pct]]
  BY <1>2
<1> DEFINE state == TippedState(counted, kind, max, pct, tipping)
           winners == IF state = "Succeeded" THEN {1} ELSE {}
           decided == [counted EXCEPT !.state = state, !.winners = winners,
                                      !.votingCompletedAt = now, !.maxVoteWeight = max,
                                      !.voteThreshold = pct]
<1>4. /\ SameDates(proposal[p], counted) /\ counted.state = "Voting"
      /\ DOMAIN counted.weights = DOMAIN proposal[p].weights
  BY <1>1, CountedKeeps
<1>5. counted \in ProposalType
  <2>1. m \in DOMAIN tor
    BY DEF CastVote
  <2>2. weight \in Nat
    BY <2>1, VoterWeightsType
  <2> QED
    BY <1>1, <2>2, VotesFit, CountedType
<1>6. p \in DOMAIN proposal' => proposal'[p] \in ProposalType
  BY CastVoteType DEF TypeInv, TypeOK
<1> HIDE DEF counted, pct, tipping, kind
<1>7. CASE state = "Voting"
  <2>1. proposal' = [proposal EXCEPT ![p] = counted]
    BY <1>3, <1>7
  <2>2. proposal'[p] = counted
    BY <2>1
  <2>3. VotedOn(proposal[p], counted) /\ counted.hasDeny = proposal[p].hasDeny
    BY <1>1, <1>4 DEF SameDates, VotedOn
  <2> QED
    BY <1>4, <1>6, <2>1, <2>2, <2>3 DEF Moves
<1>8. CASE state # "Voting"
  <2>1. proposal' = [proposal EXCEPT ![p] = decided]
    BY <1>3, <1>8
  <2>2. state \in {"Succeeded", "Defeated", "Vetoed"}
    BY <1>8 DEF TippedState, TippedVetoState, TippedElectorateState
  <2> HIDE DEF state, winners
  <2>3. /\ decided.state = state /\ decided.votingCompletedAt = now
        /\ decided.hasDeny = counted.hasDeny /\ decided.votingAt = counted.votingAt
        /\ decided.weights = counted.weights
    BY <1>5, DecidedFields
  <2> HIDE DEF decided
  <2>4. proposal'[p] = decided
    BY <2>1
  <2>5. VotedOn(proposal[p], decided) /\ decided.hasDeny = proposal[p].hasDeny
        /\ DOMAIN decided.weights = DOMAIN proposal[p].weights
    BY <1>1, <1>4, <2>2, <2>3 DEF SameDates, VotedOn
  <2> QED
    BY <1>6, <2>1, <2>4, <2>5 DEF Moves
<1> QED
  BY <1>7, <1>8

LEMMA FinalVoteStates ==
    ASSUME NEW voteType, NEW weights, NEW hasDeny \in BOOLEAN, NEW deny, NEW thr
    PROVE  LET state == FinalVoteState(voteType, weights, hasDeny, deny, thr)
           IN  state \in {"Succeeded", "Defeated"} \/ (state = "Completed" /\ ~hasDeny)
  BY DEF FinalVoteState

LEMMA FinalizeVoteMoves ==
    ASSUME TypeInv, NEW p \in Proposals, FinalizeVote(p)
    PROVE  Moves(p)
<1> DEFINE prop == proposal[p]
           pct == VoteThresholdOf(prop.mint, "Electorate")
<1>1. p \in DOMAIN proposal /\ prop \in ProposalType /\ prop.state = "Voting"
  BY DEF FinalizeVote, TypeInv, TypeOK
<1>2. PICK max \in MaxVoterWeights(prop.mint, prop, "Electorate") :
        LET thr == MinVoteThresholdWeight(pct, max)
        IN  proposal' = [proposal EXCEPT
                ![p].state = FinalVoteState(prop.voteType, prop.weights,
                                            prop.hasDeny, prop.deny, thr),
                ![p].winners = WinningOptions(prop.voteType, prop.weights,
                                              prop.deny, thr),
                ![p].votingCompletedAt = VotingMaxTimeEnd(p),
                ![p].maxVoteWeight = max,
                ![p].voteThreshold = pct]
  BY DEF FinalizeVote
<1> DEFINE thr == MinVoteThresholdWeight(pct, max)
           state == FinalVoteState(prop.voteType, prop.weights, prop.hasDeny, prop.deny, thr)
           winners == WinningOptions(prop.voteType, prop.weights, prop.deny, thr)
           at == VotingMaxTimeEnd(p)
           decided == [prop EXCEPT !.state = state, !.winners = winners,
                                   !.votingCompletedAt = at, !.maxVoteWeight = max,
                                   !.voteThreshold = pct]
<1>3. proposal' = [proposal EXCEPT ![p] = decided]
  BY <1>2
<1>4. at \in Nat /\ prop.votingAt <= at /\ at < now
  BY <1>1 DEF VotingMaxTimeEnd, VotingBaseTimeEnd, TypeInv, TypeOK, ConfigType, ProposalType,
              FinalizeVote, HasVotingMaxTimeEnded
<1>5. state \in {"Succeeded", "Defeated"} \/ (state = "Completed" /\ ~prop.hasDeny)
  BY <1>1, FinalVoteStates DEF ProposalType
<1>6. proposal'[p] = decided /\ p \in DOMAIN proposal'
  BY <1>1, <1>3
<1>7. proposal'[p] \in ProposalType
  BY <1>6, FinalizeVoteType DEF TypeInv, TypeOK
<1> HIDE DEF at, state, winners, thr, pct
<1>8. /\ decided.state = state /\ decided.votingCompletedAt = at
      /\ decided.hasDeny = prop.hasDeny /\ decided.votingAt = prop.votingAt
      /\ decided.weights = prop.weights
  BY <1>1, DecidedFields
<1> HIDE DEF decided
<1>9. VotedOn(prop, decided)
  BY <1>1, <1>4, <1>5, <1>8 DEF VotedOn
<1> QED
  BY <1>1, <1>3, <1>6, <1>7, <1>8, <1>9 DEF Moves

LEMMA VoteStepMoves ==
    ASSUME TypeInv, VoteStep
    PROVE  UNCHANGED proposal \/ \E p \in Proposals : Moves(p)
<1>1. ASSUME NEW p \in DOMAIN proposal, NEW m \in Members, NEW vote \in Votes(p),
             CastVote(p, m, vote)
      PROVE  \E q \in Proposals : Moves(q)
  BY <1>1, CastVoteMoves DEF TypeInv, TypeOK
<1>2. ASSUME NEW r \in voteRecords, WithdrawVote(r)
      PROVE  \E q \in Proposals : Moves(q)
  <2> DEFINE p == r.proposal
             counted == Counted(proposal[p], r.vote, r.weight, -1)
  <2>1. /\ p \in DOMAIN proposal /\ proposal[p] \in ProposalType /\ p \in Proposals
        /\ proposal[p].state = "Voting" /\ proposal' = [proposal EXCEPT ![p] = counted]
    BY <1>2 DEF WithdrawVote, TypeInv, TypeOK, References
  <2>2. /\ SameDates(proposal[p], counted) /\ counted.state = "Voting"
        /\ DOMAIN counted.weights = DOMAIN proposal[p].weights
    BY <2>1, CountedKeeps
  <2>3. p \in DOMAIN proposal' => proposal'[p] \in ProposalType
    BY <1>2, WithdrawVoteType DEF TypeInv, TypeOK
  <2> HIDE DEF counted
  <2>4. proposal'[p] = counted
    BY <2>1
  <2>5. VotedOn(proposal[p], counted) /\ counted.hasDeny = proposal[p].hasDeny
    BY <2>1, <2>2 DEF SameDates, VotedOn
  <2> QED
    BY <2>1, <2>2, <2>3, <2>4, <2>5 DEF Moves
<1>3. ASSUME NEW r \in voteRecords, PruneVote(r)
      PROVE  UNCHANGED proposal
  BY <1>3 DEF PruneVote
<1>4. ASSUME NEW p \in Proposals, FinalizeVote(p)
      PROVE  \E q \in Proposals : Moves(q)
  BY <1>4, FinalizeVoteMoves
<1> QED
  BY <1>1, <1>2, <1>3, <1>4 DEF VoteStep

LEMMA ProposalOrVoteStepKeepsClock ==
    ASSUME ProposalStep \/ VoteStep
    PROVE  UNCHANGED now
<1>1. CASE ProposalStep
  BY <1>1 DEF ProposalStep, CreateProposal, AddSignatory, SignOffProposal, CancelProposal,
              RefundProposalDeposit
<1>2. CASE VoteStep
  <2>1. ASSUME NEW p, NEW m, NEW vote, CastVote(p, m, vote) PROVE now' = now
    <3>1. UNCHANGED <<now, realmVars, config, requiredSignatories, tokenVars, proposalDeposit>>
      BY <2>1, Zenon DEF CastVote
    <3> QED
      BY <3>1
  <2>2. \A r : WithdrawVote(r) \/ PruneVote(r) => now' = now
    BY DEF WithdrawVote, PruneVote, Relinquishes
  <2>3. \A p : FinalizeVote(p) => now' = now
    BY Zenon DEF FinalizeVote
  <2> QED
    BY <1>2, <2>1, <2>2, <2>3, Zenon DEF VoteStep
<1> QED
  BY <1>1, <1>2

LEMMA OtherStepsKeepClock ==
    ASSUME TypeInv, ConfigurationStep \/ TokenStep
    PROVE  now' \in Nat /\ now <= now'
<1>1. now \in Nat
  BY DEF TypeInv, TypeOK
<1>2. CASE ConfigurationStep
  BY <1>1, <1>2 DEF ConfigurationStep, Tick, SetGovernanceConfig, SetRealmConfig,
              AddLockAuthority, RemoveLockAuthority, AddRequiredSignatory, RemoveRequiredSignatory
<1>3. CASE TokenStep
  <2>1. UNCHANGED now
    <3>1. \A mint, amount : MintTokens(mint, amount) \/ BurnTokens(mint, amount) => now' = now
      BY DEF MintTokens, BurnTokens
    <3>2. \A m : CreateTokenOwnerRecord(m) \/ WithdrawGoverningTokens(m) => now' = now
      BY DEF CreateTokenOwnerRecord, WithdrawGoverningTokens
    <3>3. \A m, amount, minted : DepositGoverningTokens(m, amount, minted) => now' = now
      BY DEF DepositGoverningTokens
    <3>4. \A m, amount : RevokeGoverningTokens(m, amount) => now' = now
      BY DEF RevokeGoverningTokens
    <3>5. \A m, a, id, expiry : SetTokenOwnerRecordLock(m, a, id, expiry) => now' = now
      BY DEF SetTokenOwnerRecordLock
    <3>6. \A m, a, ids, signed :
              RelinquishTokenOwnerRecordLocks(m, a, ids, signed) => now' = now
      BY DEF RelinquishTokenOwnerRecordLocks
    <3> QED
      BY <1>3, <3>1, <3>2, <3>3, <3>4, <3>5, <3>6, Zenon DEF TokenStep
  <2> QED
    BY <1>1, <2>1
<1> QED
  BY <1>2, <1>3

LEMMA GovernanceMoves ==
    ASSUME TypeInv, Next
    PROVE  GovernanceMove
<1>1. now \in Nat
  BY DEF TypeInv, TypeOK
<1>2. CASE ProposalStep \/ VoteStep
  <2>1. UNCHANGED proposal \/ \E p \in Proposals : Moves(p) \/ Appears(p)
    BY <1>2, ProposalStepMoves, VoteStepMoves, Zenon
  <2> QED
    BY <1>1, <1>2, <2>1, ProposalOrVoteStepKeepsClock DEF GovernanceMove
<1>3. CASE ConfigurationStep \/ TokenStep
  <2>1. UNCHANGED proposalVars /\ now' \in Nat /\ now <= now'
    BY <1>3, OtherStepsKeepProposals, OtherStepsKeepClock
  <2> QED
    BY <2>1 DEF GovernanceMove, proposalVars
<1> QED
  BY <1>2, <1>3 DEF Next

-----------------------------------------------------------------------------
(* The inductive invariant *)

CounterType == [count : Int, nextIndex : Nat, executed : Nat]
ExecutionType(prop) == [executingAt : Nat, options : [DOMAIN prop.weights -> CounterType]]
TransactionType == [calls : Calls, executedAt : Nat]

\* The accounts of a proposal exist together.
AccountsInv ==
    /\ execution = [p \in DOMAIN proposal |-> execution[p]]
    /\ \A p \in DOMAIN proposal : execution[p] \in ExecutionType(proposal[p])
    /\ DOMAIN effects = DOMAIN transactions /\ IsFiniteSet(DOMAIN transactions)
    /\ \A k \in DOMAIN transactions :
           /\ k = <<k[1], k[2], k[3]>> /\ k[3] \in Nat
           /\ k[1] \in DOMAIN proposal /\ k[2] \in DOMAIN proposal[k[1]].weights
           /\ transactions[k] \in TransactionType /\ effects[k] \in Nat

\* Only a proposal that has passed, and can be denied, has executed transactions.
ApprovedInv ==
    \A k \in DOMAIN transactions :
        /\ proposal[k[1]].hasDeny
        /\ transactions[k].executedAt # NotSet =>
               /\ proposal[k[1]].state \in {"Executing", "Completed"}
               /\ k[2] \in proposal[k[1]].winners

\* Which dates are set in which state.
Dated(prop, at, time) ==
    /\ prop.votingAt <= time /\ prop.votingCompletedAt <= time /\ at <= time
    /\ prop.state \in {"Draft", "SigningOff", "Voting"} => prop.votingCompletedAt = NotSet
    /\ prop.state = "Voting" => prop.votingAt # NotSet
    /\ prop.state \in {"Succeeded", "Executing"} => prop.votingCompletedAt # NotSet
    /\ prop.state \in ActiveStates \cup {"Succeeded"} => at = NotSet
    /\ prop.state = "Executing" => at # NotSet
    /\ prop.votingCompletedAt # NotSet =>
           prop.votingAt # NotSet /\ prop.votingAt <= prop.votingCompletedAt
    /\ at # NotSet => prop.votingCompletedAt # NotSet /\ prop.votingCompletedAt < at

DatesInv ==
    /\ \A p \in DOMAIN proposal : Dated(proposal[p], execution[p].executingAt, now)
    /\ \A k \in DOMAIN transactions :
           transactions[k].executedAt # NotSet =>
               /\ execution[k[1]].executingAt # NotSet
               /\ execution[k[1]].executingAt <= transactions[k].executedAt

ExecutionInv ==
    TypeInv /\ AccountsInv /\ EachRunsOnce /\ ApprovedInv /\ DatesInv /\ TransactionsCounted

-----------------------------------------------------------------------------
(* What each step does to the accounts *)

\* What a handler of Governance leaves of the accounts of transactions.
ExecutionAppears(p) ==
    Appears(p) /\ execution' = Created(execution, p, NewExecution(proposal'[p]))

LEMMA GovernanceStepEffect ==
    ASSUME TypeInv, AccountsInv, GovernanceStep
    PROVE  /\ TypeInv' /\ UNCHANGED <<config, transactions, effects>> /\ now <= now'
           /\ \/ UNCHANGED <<proposal, execution>>
              \/ /\ UNCHANGED now
                 /\ \E p \in Proposals :
                        (Moves(p) /\ UNCHANGED execution) \/ ExecutionAppears(p)
<1>1. TypeInv' /\ GovernanceMove /\ UNCHANGED <<config, transactions, effects>>
  BY NextType, GovernanceMoves DEF GovernanceStep
<1>2. execution' = [p \in DOMAIN proposal' |->
           IF p \in DOMAIN execution THEN execution[p] ELSE NewExecution(proposal'[p])]
  BY DEF GovernanceStep
<1>3. /\ execution = [p \in DOMAIN proposal |-> execution[p]]
      /\ DOMAIN execution = DOMAIN proposal
  BY DEF AccountsInv
<1>4. DOMAIN proposal' = DOMAIN proposal => UNCHANGED execution
  BY <1>2, <1>3
<1>5. ASSUME NEW p \in Proposals, Moves(p)
      PROVE  UNCHANGED execution
  BY <1>4, <1>5 DEF Moves
<1>6. ASSUME NEW p \in Proposals, Appears(p)
      PROVE  ExecutionAppears(p)
  <2>1. p \notin DOMAIN execution /\ DOMAIN proposal' = DOMAIN execution \cup {p}
    BY <1>3, <1>6 DEF Appears, Created
  <2>2. execution' = Created(execution, p, NewExecution(proposal'[p]))
    BY <1>2, <2>1 DEF Created
  <2> QED
    BY <1>6, <2>2 DEF ExecutionAppears
<1>7. UNCHANGED proposal => UNCHANGED <<proposal, execution>>
  BY <1>4
<1> QED
  BY <1>1, <1>5, <1>6, <1>7 DEF GovernanceMove

\* A handler that decides, executes or closes a proposal keeps the types.
LEMMA ClosingKeepsType ==
    ASSUME TypeInv, NEW p \in DOMAIN proposal, NEW state \in ProposalStates,
           NEW closed \in BOOLEAN,
           proposal' = [proposal EXCEPT ![p].state = state, ![p].closed = closed],
           config' \in ConfigType,
           UNCHANGED <<now, realmVars, requiredSignatories, activeProposals, tokenVars, tor,
                       voteRecords, proposalDeposit>>
    PROVE  /\ TypeInv' /\ proposal' = [proposal EXCEPT ![p] = proposal'[p]]
           /\ proposal'[p].state = state
           /\ proposal'[p].weights = proposal[p].weights
           /\ proposal'[p].winners = proposal[p].winners
           /\ proposal'[p].hasDeny = proposal[p].hasDeny
           /\ proposal'[p].votingAt = proposal[p].votingAt
           /\ proposal'[p].votingCompletedAt = proposal[p].votingCompletedAt
<1> DEFINE new == [proposal[p] EXCEPT !.state = state, !.closed = closed]
<1>1. proposal[p] \in ProposalType
  BY DEF TypeInv, TypeOK
<1>2. /\ new \in ProposalType /\ SameShape(proposal[p], new)
      /\ new.state = state /\ new.weights = proposal[p].weights
      /\ new.winners = proposal[p].winners /\ new.hasDeny = proposal[p].hasDeny
      /\ new.votingAt = proposal[p].votingAt
      /\ new.votingCompletedAt = proposal[p].votingCompletedAt
  BY <1>1 DEF ProposalType, SameShape
<1>3. proposal' = [proposal EXCEPT ![p] = new]
  OBVIOUS
<1> HIDE DEF new
<1>4. proposal'[p] = new
  BY <1>3
<1>5. ProposalsType(proposal') /\ References'
  <2>1. /\ DOMAIN tor' = DOMAIN tor /\ \A r \in voteRecords' : Fits(r)
        /\ DOMAIN proposalDeposit' \subseteq DOMAIN proposal
    BY RecordsFit DEF TypeInv, References
  <2> QED
    BY <1>2, <1>3, <2>1, OneProposalChanges
<1>6. TypeInv'
  BY <1>5 DEF TypeInv, TypeOK, ProposalsType, HoldingWithinSupply, realmVars, tokenVars
<1> QED
  BY <1>2, <1>3, <1>4, <1>6

-----------------------------------------------------------------------------
(* The counters of an option *)

OptionCounted(counters, existing, executed, calls) ==
    /\ counters.count = Cardinality(existing)
    /\ \A k \in existing : k[3] < counters.nextIndex
    /\ counters.executed <= Cardinality(executed)
    /\ ~calls => counters.executed = Cardinality(executed)

CountedAt(p, o) ==
    OptionCounted(execution[p].options[o], TransactionsOfOption(p, o),
                  Executed(TransactionsOfOption(p, o)), CallsTransactions(p))

LEMMA CountedAtEvery ==
    TransactionsCounted <=>
        \A p \in DOMAIN proposal : \A o \in DOMAIN proposal[p].weights : CountedAt(p, o)
  BY DEF TransactionsCounted, CountedAt, OptionCounted

\* An option whose counters and transactions stay is counted as before, unless
\* the last transaction that executes another one has gone.
LEMMA CountedStays ==
    ASSUME NEW p, NEW o, CountedAt(p, o),
           execution'[p].options[o] = execution[p].options[o],
           TransactionsOfOption(p, o)' = TransactionsOfOption(p, o),
           Executed(TransactionsOfOption(p, o))' = Executed(TransactionsOfOption(p, o)),
           CallsTransactions(p) => CallsTransactions(p)'
    PROVE  CountedAt(p, o)'
  BY DEF CountedAt, OptionCounted

LEMMA TransactionsFinite ==
    ASSUME AccountsInv, NEW p, NEW o
    PROVE  /\ IsFiniteSet(TransactionsOfOption(p, o))
           /\ IsFiniteSet(Executed(TransactionsOfOption(p, o)))
           /\ Cardinality(TransactionsOfOption(p, o)) \in Nat
           /\ Cardinality(Executed(TransactionsOfOption(p, o))) \in Nat
<1>1. /\ IsFiniteSet(DOMAIN transactions)
      /\ TransactionsOfOption(p, o) \subseteq DOMAIN transactions
      /\ Executed(TransactionsOfOption(p, o)) \subseteq DOMAIN transactions
  BY DEF AccountsInv, TransactionsOfOption, TransactionsOf, Executed
<1> QED
  BY <1>1, FS_Subset, FS_CardinalityType

\* Nothing is executed of a proposal that has not passed.
LEMMA NothingExecuted ==
    ASSUME ApprovedInv, NEW p, proposal[p].state \notin {"Executing", "Completed"}
    PROVE  /\ Executed(TransactionsOf(p)) = {}
           /\ \A o : Executed(TransactionsOfOption(p, o)) = {}
  BY DEF ApprovedInv, Executed, TransactionsOf, TransactionsOfOption

\* Writing the counters of one option changes nothing else of the accounts.
OptionWritten(p, o, new) ==
    /\ execution' = [q \in DOMAIN proposal' |-> execution'[q]]
    /\ execution'[p].options[o] = new
    /\ \A q \in DOMAIN proposal :
           /\ execution'[q] \in ExecutionType(proposal'[q])
           /\ execution'[q].executingAt = execution[q].executingAt
           /\ \A n \in DOMAIN proposal[q].weights :
                  q # p \/ n # o => execution'[q].options[n] = execution[q].options[n]

LEMMA OptionUpdate ==
    ASSUME AccountsInv, NEW p \in DOMAIN proposal, NEW o \in DOMAIN proposal[p].weights,
           NEW new \in CounterType,
           execution' = [execution EXCEPT ![p].options[o] = new], UNCHANGED proposal
    PROVE  OptionWritten(p, o, new)
<1> DEFINE options == [execution[p].options EXCEPT ![o] = new]
           account == [execution[p] EXCEPT !.options = options]
<1>1. execution' = [execution EXCEPT ![p] = account]
  OBVIOUS
<1>2. execution = [q \in DOMAIN proposal |-> execution[q]] /\ DOMAIN execution = DOMAIN proposal
  BY DEF AccountsInv
<1>3. execution[p] \in ExecutionType(proposal[p])
  BY DEF AccountsInv
<1>4. /\ options \in [DOMAIN proposal[p].weights -> CounterType] /\ options[o] = new
      /\ \A n \in DOMAIN proposal[p].weights : n # o => options[n] = execution[p].options[n]
  BY <1>3 DEF ExecutionType
<1> HIDE DEF options
<1>5. /\ account \in ExecutionType(proposal[p]) /\ account.options = options
      /\ account.executingAt = execution[p].executingAt
  BY <1>3, <1>4 DEF ExecutionType
<1> HIDE DEF account
<1>6. execution'[p] = account /\ \A q \in DOMAIN proposal : q # p => execution'[q] = execution[q]
  BY <1>1, <1>2
<1>7. execution' = [q \in DOMAIN proposal' |-> execution'[q]]
  BY <1>1, <1>2
<1>8. \A q \in DOMAIN proposal : execution[q] \in ExecutionType(proposal[q])
  BY DEF AccountsInv
<1> QED
  BY <1>4, <1>5, <1>6, <1>7, <1>8 DEF OptionWritten

-----------------------------------------------------------------------------
(* A handler of Governance keeps the invariant *)

\* A proposal that moves keeps the order of its dates.
LEMMA MovedDated ==
    ASSUME TypeInv, NEW p, Moves(p), NEW at \in Nat, Dated(proposal[p], at, now)
    PROVE  Dated(proposal'[p], at, now)
<1>1. /\ now \in Nat \ {0} /\ proposal[p] \in ProposalType /\ proposal'[p] \in ProposalType
  BY DEF Moves, TypeInv, TypeOK
<1>2. /\ proposal[p].votingAt \in Nat /\ proposal[p].votingCompletedAt \in Nat
      /\ proposal'[p].votingAt \in Nat /\ proposal'[p].votingCompletedAt \in Nat
  BY <1>1 DEF ProposalType
<1>3. CASE Drafted(proposal[p], proposal'[p])
  BY <1>1, <1>2, <1>3 DEF Drafted, Dated, ActiveStates, NotSet
<1>4. CASE Withdrawn(proposal[p], proposal'[p])
  BY <1>1, <1>2, <1>4 DEF Withdrawn, Dated, ActiveStates, NotSet
<1>5. CASE VotedOn(proposal[p], proposal'[p])
  BY <1>1, <1>2, <1>5 DEF VotedOn, Dated, ActiveStates, NotSet
<1> QED
  BY <1>3, <1>4, <1>5 DEF Moves

LEMMA MovesKeeps ==
    ASSUME ExecutionInv, TypeInv', NEW p \in Proposals, Moves(p),
           UNCHANGED <<now, transactions, execution, effects>>
    PROVE  ExecutionInv'
<1> USE DEF ExecutionInv
<1>1. /\ p \in DOMAIN proposal /\ DOMAIN proposal' = DOMAIN proposal
      /\ \A q \in DOMAIN proposal : q # p => proposal'[q] = proposal[q]
      /\ DOMAIN proposal'[p].weights = DOMAIN proposal[p].weights
      /\ proposal'[p].hasDeny = proposal[p].hasDeny
      /\ proposal[p].state \in ActiveStates
  BY DEF Moves, Drafted, Withdrawn, VotedOn, ActiveStates
<1>2. AccountsInv'
  BY <1>1 DEF AccountsInv, ExecutionType
<1>3. EachRunsOnce'
  BY DEF EachRunsOnce
<1>4. ApprovedInv'
  BY <1>1 DEF ApprovedInv, AccountsInv, ActiveStates
<1>5. DatesInv'
  <2>1. execution[p].executingAt \in Nat
    BY <1>1 DEF AccountsInv, ExecutionType
  <2>2. Dated(proposal'[p], execution[p].executingAt, now)
    BY <1>1, <2>1, MovedDated DEF DatesInv
  <2> QED
    BY <1>1, <2>2 DEF DatesInv
<1>6. TransactionsCounted'
  <2>1. \A q, o : CountedAt(q, o)' <=> CountedAt(q, o)
    BY DEF CountedAt, OptionCounted, TransactionsOfOption, TransactionsOf, Executed,
           CallsTransactions
  <2>2. \A q \in DOMAIN proposal : DOMAIN proposal'[q].weights = DOMAIN proposal[q].weights
    BY <1>1
  <2>3. \A q \in DOMAIN proposal' : \A o \in DOMAIN proposal'[q].weights : CountedAt(q, o)'
    BY <1>1, <2>1, <2>2, CountedAtEvery
  <2> QED
    BY <2>3 DEF TransactionsCounted, CountedAt, OptionCounted
<1> QED
  BY <1>2, <1>3, <1>4, <1>5, <1>6

LEMMA AppearsKeeps ==
    ASSUME ExecutionInv, TypeInv', NEW p \in Proposals, ExecutionAppears(p),
           UNCHANGED <<now, transactions, effects>>
    PROVE  ExecutionInv'
<1> USE DEF ExecutionInv
<1> DEFINE new == NewExecution(proposal'[p])
<1>1. /\ p \notin DOMAIN proposal /\ DOMAIN proposal' = DOMAIN proposal \cup {p}
      /\ \A q \in DOMAIN proposal : proposal'[q] = proposal[q]
      /\ proposal'[p] \in ProposalType /\ proposal'[p].state = "Draft"
      /\ proposal'[p].votingAt = NotSet /\ proposal'[p].votingCompletedAt = NotSet
  BY DEF ExecutionAppears, Appears, Created
<1>2. /\ execution' = Created(execution, p, new) /\ DOMAIN execution = DOMAIN proposal
  BY DEF ExecutionAppears, AccountsInv
<1>3. /\ execution'[p] = new /\ DOMAIN execution' = DOMAIN proposal'
      /\ \A q \in DOMAIN proposal : execution'[q] = execution[q]
      /\ execution' = [q \in DOMAIN proposal' |-> execution'[q]]
  BY <1>1, <1>2 DEF Created
<1>4. /\ new \in ExecutionType(proposal'[p]) /\ new.executingAt = NotSet
      /\ \A o \in DOMAIN proposal'[p].weights :
             new.options[o] = [count |-> 0, nextIndex |-> 0, executed |-> 0]
  BY DEF NewExecution, ExecutionType, CounterType, NotSet
<1> HIDE DEF new
<1>5. AccountsInv'
  BY <1>1, <1>3, <1>4 DEF AccountsInv
<1>6. EachRunsOnce'
  BY DEF EachRunsOnce
<1>7. ApprovedInv'
  BY <1>1 DEF ApprovedInv, AccountsInv
<1>8. DatesInv'
  <2>1. now \in Nat
    BY DEF TypeInv, TypeOK
  <2>2. Dated(proposal'[p], execution'[p].executingAt, now)
    BY <1>1, <1>3, <1>4, <2>1 DEF Dated, NotSet, ActiveStates
  <2> QED
    BY <1>1, <1>3, <2>2 DEF DatesInv, AccountsInv
<1>9. TransactionsCounted'
  <2>1. ASSUME NEW q \in DOMAIN proposal, NEW o \in DOMAIN proposal[q].weights
        PROVE  CountedAt(q, o)'
    <3>1. CountedAt(q, o)
      BY CountedAtEvery
    <3> QED
      BY <1>3, <3>1 DEF CountedAt, OptionCounted, TransactionsOfOption, TransactionsOf, Executed,
                        CallsTransactions
  <2>2. ASSUME NEW o \in DOMAIN proposal'[p].weights
        PROVE  CountedAt(p, o)'
    <3>1. TransactionsOfOption(p, o)' = {} /\ Executed(TransactionsOfOption(p, o))' = {}
      BY <1>1 DEF AccountsInv, TransactionsOfOption, TransactionsOf, Executed
    <3>2. execution'[p].options[o] = [count |-> 0, nextIndex |-> 0, executed |-> 0]
      BY <1>3, <1>4
    <3>3. OptionCounted([count |-> 0, nextIndex |-> 0, executed |-> 0], {}, {},
                        CallsTransactions(p)')
      BY FS_EmptySet DEF OptionCounted
    <3> QED
      BY <3>1, <3>2, <3>3 DEF CountedAt
  <2>3. \A q \in DOMAIN proposal' : \A o \in DOMAIN proposal'[q].weights : CountedAt(q, o)'
    BY <1>1, <2>1, <2>2
  <2> QED
    BY <2>3 DEF TransactionsCounted, CountedAt, OptionCounted
<1> QED
  BY <1>5, <1>6, <1>7, <1>8, <1>9

LEMMA GovernanceStepKeeps ==
    ASSUME ExecutionInv, GovernanceStep
    PROVE  ExecutionInv'
<1>1. /\ TypeInv' /\ UNCHANGED <<config, transactions, effects>> /\ now <= now'
      /\ \/ UNCHANGED <<proposal, execution>>
         \/ /\ UNCHANGED now
            /\ \E p \in Proposals :
                   (Moves(p) /\ UNCHANGED execution) \/ ExecutionAppears(p)
  BY GovernanceStepEffect DEF ExecutionInv
<1>2. CASE UNCHANGED <<proposal, execution>>
  <2> USE DEF ExecutionInv
  <2>1. AccountsInv' /\ EachRunsOnce' /\ ApprovedInv'
    BY <1>1, <1>2 DEF AccountsInv, EachRunsOnce, ApprovedInv
  <2>2. TransactionsCounted'
    <3>1. \A q, o : CountedAt(q, o)' <=> CountedAt(q, o)
      BY <1>1, <1>2 DEF CountedAt, OptionCounted, TransactionsOfOption, TransactionsOf, Executed,
                        CallsTransactions
    <3>2. \A q \in DOMAIN proposal' : \A o \in DOMAIN proposal'[q].weights : CountedAt(q, o)'
      BY <1>2, <3>1, CountedAtEvery
    <3> QED
      BY <3>2 DEF TransactionsCounted, CountedAt, OptionCounted
  <2>3. DatesInv'
    <3>1. \A p \in DOMAIN proposal :
              /\ proposal[p].votingAt \in Nat /\ proposal[p].votingCompletedAt \in Nat
              /\ execution[p].executingAt \in Nat
      BY DEF TypeInv, TypeOK, ProposalType, AccountsInv, ExecutionType
    <3>2. now \in Nat /\ now' \in Nat
      BY <1>1 DEF TypeInv, TypeOK
    <3> QED
      BY <1>1, <1>2, <3>1, <3>2 DEF DatesInv, Dated
  <2> QED
    BY <1>1, <2>1, <2>2, <2>3
<1> QED
  BY <1>1, <1>2, MovesKeeps, AppearsKeeps

-----------------------------------------------------------------------------
(* Inserting and removing transactions *)

\* What the two handlers leave alone.
LEMMA VarsUnchanged ==
    ASSUME TypeInv, UNCHANGED vars
    PROVE  TypeInv' /\ UNCHANGED <<now, proposal>>
  BY NextType DEF vars, proposalVars

LEMMA InsertedCounters ==
    ASSUME NEW counters \in CounterType, NEW i \in Nat, i <= counters.nextIndex
    PROVE  LET new == Inserted(counters, i)
           IN  /\ new \in CounterType
               /\ new.count = counters.count + 1 /\ new.executed = counters.executed
               /\ i < new.nextIndex /\ counters.nextIndex <= new.nextIndex
<1> DEFINE next == IF i = counters.nextIndex THEN counters.nextIndex + 1 ELSE counters.nextIndex
           count == counters.count + 1
<1>1. Inserted(counters, i) = [counters EXCEPT !.count = count, !.nextIndex = next]
  BY DEF Inserted
<1>2. next \in Nat /\ i < next /\ counters.nextIndex <= next /\ count \in Int
  BY DEF CounterType
<1> HIDE DEF next, count
<1>3. /\ Inserted(counters, i) \in CounterType
      /\ Inserted(counters, i).count = count /\ Inserted(counters, i).nextIndex = next
      /\ Inserted(counters, i).executed = counters.executed
  BY <1>1, <1>2 DEF CounterType
<1> QED
  BY <1>2, <1>3 DEF count

LEMMA InsertKeeps ==
    ASSUME ExecutionInv, NEW p \in DOMAIN proposal, NEW o \in DOMAIN proposal[p].weights,
           NEW i \in Nat, NEW calls \in Calls, InsertTransaction(p, o, i, calls)
    PROVE  ExecutionInv'
<1> USE DEF ExecutionInv
<1> DEFINE key == <<p, o, i>>
           account == [calls |-> calls, executedAt |-> NotSet]
           counters == execution[p].options[o]
           new == Inserted(counters, i)
<1>1. /\ key \notin DOMAIN transactions /\ CanEdit(p) /\ i <= counters.nextIndex
      /\ execution' = [execution EXCEPT ![p].options[o] = new]
      /\ transactions' = Created(transactions, key, account)
      /\ effects' = Created(effects, key, 0)
      /\ UNCHANGED vars
  BY DEF InsertTransaction
<1>2. TypeInv' /\ UNCHANGED <<now, proposal>>
  BY <1>1, VarsUnchanged
<1>3. /\ counters \in CounterType /\ new \in CounterType
      /\ new.count = counters.count + 1 /\ new.executed = counters.executed
      /\ i < new.nextIndex /\ counters.nextIndex <= new.nextIndex
  <2>1. counters \in CounterType
    BY DEF AccountsInv, ExecutionType
  <2> HIDE DEF counters
  <2> QED
    BY <1>1, <2>1, InsertedCounters
<1> HIDE DEF new
<1>4. OptionWritten(p, o, new)
  <2>1. /\ execution' = [execution EXCEPT ![p].options[o] = new]
        /\ new \in CounterType /\ UNCHANGED proposal /\ AccountsInv
    BY <1>1, <1>2, <1>3
  <2> HIDE DEF key, account, counters
  <2> QED
    BY <2>1, OptionUpdate
<1>5. /\ DOMAIN transactions' = DOMAIN transactions \cup {key}
      /\ DOMAIN effects' = DOMAIN effects \cup {key}
      /\ transactions'[key] = account /\ effects'[key] = 0
      /\ \A k \in DOMAIN transactions : transactions'[k] = transactions[k]
      /\ \A k \in DOMAIN effects : k # key => effects'[k] = effects[k]
  BY <1>1 DEF Created
<1>6. DOMAIN effects = DOMAIN transactions
  BY DEF AccountsInv
<1>7. AccountsInv'
  <2>1. account \in TransactionType
    BY DEF TransactionType, NotSet
  <2>2. IsFiniteSet(DOMAIN transactions')
    BY <1>5, FS_AddElement DEF AccountsInv
  <2>3. /\ key = <<key[1], key[2], key[3]>> /\ key[1] = p /\ key[2] = o /\ key[3] \in Nat
    OBVIOUS
  <2> HIDE DEF key, account
  <2> QED
    BY <1>2, <1>4, <1>5, <1>6, <2>1, <2>2, <2>3 DEF AccountsInv, OptionWritten
<1>8. EachRunsOnce'
  <2>1. account.executedAt = NotSet
    OBVIOUS
  <2> HIDE DEF key, account
  <2> QED
    BY <1>1, <1>5, <1>6, <2>1 DEF EachRunsOnce
<1>9. ApprovedInv'
  <2>1. key[1] = p /\ account.executedAt = NotSet /\ proposal[p].hasDeny
    BY <1>1 DEF CanEdit
  <2> HIDE DEF key, account
  <2> QED
    BY <1>2, <1>5, <2>1 DEF ApprovedInv
<1>10. DatesInv'
  <2>1. account.executedAt = NotSet
    OBVIOUS
  <2> HIDE DEF key, account
  <2> QED
    BY <1>2, <1>4, <1>5, <2>1 DEF DatesInv, AccountsInv, OptionWritten
<1>11. TransactionsCounted'
  <2>1. key[1] = p /\ key[2] = o /\ key[3] = i /\ account.executedAt = NotSet
    OBVIOUS
  <2> HIDE DEF key, account, counters
  <2>2. ASSUME NEW q \in DOMAIN proposal, NEW n \in DOMAIN proposal[q].weights,
               q # p \/ n # o
        PROVE  CountedAt(q, n)'
    <3>1. CountedAt(q, n)
      BY CountedAtEvery
    <3>2. TransactionsOfOption(q, n)' = TransactionsOfOption(q, n)
      BY <1>5, <2>1, <2>2 DEF TransactionsOfOption, TransactionsOf
    <3>3. Executed(TransactionsOfOption(q, n))' = Executed(TransactionsOfOption(q, n))
      BY <1>5, <3>2 DEF Executed, TransactionsOfOption, TransactionsOf
    <3>4. CallsTransactions(q) => CallsTransactions(q)'
      BY <1>5 DEF CallsTransactions, TransactionsOf
    <3>5. execution'[q].options[n] = execution[q].options[n]
      BY <1>4, <2>2 DEF OptionWritten
    <3> QED
      BY <3>1, <3>2, <3>3, <3>4, <3>5, CountedStays
  <2>3. CountedAt(p, o)'
    <3> DEFINE existing == TransactionsOfOption(p, o)
    <3>1. /\ OptionCounted(counters, existing, Executed(existing), CallsTransactions(p))
          /\ IsFiniteSet(existing) /\ \A k \in existing : k[3] \in Nat
      <4>1. CountedAt(p, o)
        BY CountedAtEvery
      <4>2. \A k \in existing : k[3] \in Nat
        BY DEF AccountsInv, TransactionsOfOption, TransactionsOf
      <4> QED
        BY <4>1, <4>2, TransactionsFinite DEF CountedAt, counters
    <3>2. existing' = existing \cup {key} /\ key \notin existing
      BY <1>1, <1>5, <2>1 DEF TransactionsOfOption, TransactionsOf
    <3>3. Executed(existing)' = Executed(existing)
      BY <1>5, <2>1, <3>2 DEF Executed, TransactionsOfOption, TransactionsOf
    <3>4. Cardinality(existing') = Cardinality(existing) + 1
      BY <3>1, <3>2, FS_AddElement
    <3>5. \A k \in existing' : k[3] < new.nextIndex
      BY <1>3, <2>1, <3>1, <3>2 DEF OptionCounted, CounterType
    <3>6. CallsTransactions(p) => CallsTransactions(p)'
      BY <1>5 DEF CallsTransactions, TransactionsOf
    <3> HIDE DEF existing
    <3>7. OptionCounted(new, existing', Executed(existing)', CallsTransactions(p)')
      BY <1>3, <3>1, <3>3, <3>4, <3>5, <3>6 DEF OptionCounted, CounterType
    <3> QED
      BY <1>4, <3>7 DEF CountedAt, existing, OptionWritten
  <2>4. \A q \in DOMAIN proposal' : \A n \in DOMAIN proposal'[q].weights : CountedAt(q, n)'
    BY <1>2, <2>2, <2>3
  <2> QED
    BY <2>4 DEF TransactionsCounted, CountedAt, OptionCounted
<1> QED
  BY <1>2, <1>7, <1>8, <1>9, <1>10, <1>11

\* In a draft nothing has been counted as executed, whatever its transactions call.
LEMMA DraftCounted ==
    ASSUME AccountsInv, ApprovedInv, NEW p, NEW o, CountedAt(p, o),
           proposal[p].state = "Draft", execution[p].options[o] \in CounterType
    PROVE  execution[p].options[o].executed = 0
<1>1. Executed(TransactionsOfOption(p, o)) = {}
  BY NothingExecuted
<1>2. Cardinality({}) = 0
  BY FS_EmptySet
<1>3. execution[p].options[o].executed <= 0
  BY <1>1, <1>2 DEF CountedAt, OptionCounted
<1> QED
  BY <1>3 DEF CounterType

LEMMA RemoveKeeps ==
    ASSUME ExecutionInv, NEW k \in DOMAIN transactions, RemoveTransaction(k)
    PROVE  ExecutionInv'
<1> USE DEF ExecutionInv
<1> DEFINE p == k[1]
           o == k[2]
           counters == execution[p].options[o]
           new == Removed(counters)
<1>1. /\ CanEdit(p)
      /\ execution' = [execution EXCEPT ![p].options[o] = new]
      /\ transactions' = [j \in DOMAIN transactions \ {k} |-> transactions[j]]
      /\ effects' = [j \in DOMAIN effects \ {k} |-> effects[j]]
      /\ UNCHANGED vars
  BY DEF RemoveTransaction
<1>2. TypeInv' /\ UNCHANGED <<now, proposal>>
  BY <1>1, VarsUnchanged
<1>3. /\ p \in DOMAIN proposal /\ o \in DOMAIN proposal[p].weights
      /\ proposal[p].state = "Draft"
  BY <1>1 DEF CanEdit, AccountsInv
<1>4. /\ counters \in CounterType /\ new \in CounterType
      /\ new.count = counters.count - 1 /\ new.executed = counters.executed
      /\ new.nextIndex = counters.nextIndex
  <2>1. counters \in CounterType
    BY <1>3 DEF AccountsInv, ExecutionType
  <2> HIDE DEF counters
  <2> QED
    BY <2>1 DEF Removed, CounterType
<1> HIDE DEF new
<1>5. OptionWritten(p, o, new)
  <2>1. /\ execution' = [execution EXCEPT ![p].options[o] = new]
        /\ new \in CounterType /\ UNCHANGED proposal /\ AccountsInv
    BY <1>1, <1>2, <1>4
  <2> HIDE DEF counters, p, o
  <2> QED
    BY <1>3, <2>1, OptionUpdate
<1>6. /\ DOMAIN transactions' = DOMAIN transactions \ {k}
      /\ DOMAIN effects' = DOMAIN effects \ {k}
      /\ DOMAIN effects = DOMAIN transactions
      /\ \A j \in DOMAIN transactions' : transactions'[j] = transactions[j] /\ effects'[j] = effects[j]
  BY <1>1 DEF AccountsInv
<1>7. AccountsInv'
  <2>1. IsFiniteSet(DOMAIN transactions')
    BY <1>6, FS_Subset DEF AccountsInv
  <2> QED
    BY <1>2, <1>5, <1>6, <2>1 DEF AccountsInv, OptionWritten
<1>8. EachRunsOnce'
  BY <1>6 DEF EachRunsOnce
<1>9. ApprovedInv'
  BY <1>2, <1>6 DEF ApprovedInv
<1>10. DatesInv'
  BY <1>2, <1>5, <1>6 DEF DatesInv, AccountsInv, OptionWritten
<1>11. TransactionsCounted'
  <2> HIDE DEF counters
  <2>1. ASSUME NEW q \in DOMAIN proposal, NEW n \in DOMAIN proposal[q].weights
        PROVE  /\ CountedAt(q, n) /\ execution[q].options[n] \in CounterType
               /\ Executed(TransactionsOfOption(q, n))'
                      = Executed(TransactionsOfOption(q, n)) \ {k}
               /\ TransactionsOfOption(q, n)'
                      = TransactionsOfOption(q, n) \ {k}
    <3>1. CountedAt(q, n) /\ execution[q].options[n] \in CounterType
      BY CountedAtEvery DEF AccountsInv, ExecutionType
    <3> QED
      BY <1>6, <3>1 DEF Executed, TransactionsOfOption, TransactionsOf
  <2>2. ASSUME NEW q \in DOMAIN proposal, NEW n \in DOMAIN proposal[q].weights, q # p
        PROVE  CountedAt(q, n)'
    <3>1. CallsTransactions(q) => CallsTransactions(q)'
      BY <1>6, <2>2 DEF CallsTransactions, TransactionsOf
    <3>2. /\ TransactionsOfOption(q, n)' = TransactionsOfOption(q, n)
          /\ Executed(TransactionsOfOption(q, n))' = Executed(TransactionsOfOption(q, n))
      BY <2>1, <2>2 DEF Executed, TransactionsOfOption, TransactionsOf
    <3>3. execution'[q].options[n] = execution[q].options[n]
      BY <1>5, <2>2 DEF OptionWritten
    <3> QED
      BY <2>1, <3>1, <3>2, <3>3, CountedStays
  <2>3. ASSUME NEW n \in DOMAIN proposal[p].weights
        PROVE  CountedAt(p, n)'
    <3> DEFINE existing == TransactionsOfOption(p, n)
               before == execution[p].options[n]
               after == execution'[p].options[n]
    <3>1. /\ OptionCounted(before, existing, Executed(existing), CallsTransactions(p))
          /\ before \in CounterType
      BY <1>3, <2>1 DEF CountedAt
    <3>2. before.executed = 0 /\ Executed(existing) = {}
      BY <1>3, <2>1, DraftCounted, NothingExecuted
    <3>3. Executed(existing)' = {} /\ existing' = existing \ {k}
      BY <1>3, <2>1, <3>2
    <3>4. after.executed = 0 /\ after.nextIndex = before.nextIndex
      <4>1. n = o => after = new /\ before = counters
        BY <1>5 DEF OptionWritten, counters
      <4>2. n # o => after = before
        BY <1>3, <1>5 DEF OptionWritten
      <4> HIDE DEF after, before, o
      <4> QED
        BY <1>4, <3>2, <4>1, <4>2
    <3>5. after.count = Cardinality(existing')
      <4>1. CASE n = o
        <5>1. k \in existing
          BY <4>1 DEF TransactionsOfOption, TransactionsOf
        <5>2. IsFiniteSet(existing)
          BY TransactionsFinite
        <5>3. Cardinality(existing \ {k}) = Cardinality(existing) - 1
          BY <5>1, <5>2, FS_RemoveElement
        <5>4. after.count = before.count - 1
          BY <1>4, <1>5, <4>1 DEF OptionWritten, counters
        <5> QED
          BY <3>1, <3>3, <5>3, <5>4 DEF OptionCounted
      <4>2. CASE n # o
        <5>1. k \notin existing
          BY <4>2 DEF TransactionsOfOption, TransactionsOf
        <5>2. existing' = existing
          BY <3>3, <5>1
        <5>3. after = before
          BY <1>3, <1>5, <4>2 DEF OptionWritten
        <5> QED
          BY <3>1, <5>2, <5>3 DEF OptionCounted
      <4> QED
        BY <4>1, <4>2
    <3>6. \A j \in existing' : j[3] < after.nextIndex
      BY <3>1, <3>3, <3>4 DEF OptionCounted
    <3>7. Cardinality({}) = 0
      BY FS_EmptySet
    <3> HIDE DEF existing, before, after
    <3>8. OptionCounted(after, existing', Executed(existing)', CallsTransactions(p)')
      BY <3>3, <3>4, <3>5, <3>6, <3>7 DEF OptionCounted
    <3> QED
      BY <3>8 DEF CountedAt, existing, after
  <2>4. \A q \in DOMAIN proposal' : \A n \in DOMAIN proposal'[q].weights : CountedAt(q, n)'
    BY <1>2, <2>2, <2>3
  <2> QED
    BY <2>4 DEF TransactionsCounted, CountedAt, OptionCounted
<1> QED
  BY <1>2, <1>7, <1>8, <1>9, <1>10, <1>11

-----------------------------------------------------------------------------
(* Executing transactions *)

\* What runs: the transaction and those it executes.
Ran(k) == {k} \cup Callees(k)

LEMMA RanFacts ==
    ASSUME TypeInv, AccountsInv, NEW k \in DOMAIN transactions, ExecuteTransaction(k)
    PROVE  /\ k[1] \in DOMAIN proposal /\ k[2] \in DOMAIN proposal[k[1]].weights
           /\ proposal[k[1]].state \in {"Succeeded", "Executing"}
           /\ proposal[k[1]].votingCompletedAt < now
           /\ \A j \in Ran(k) :
                  /\ j \in DOMAIN transactions /\ j[1] = k[1]
                  /\ transactions[j].executedAt = NotSet
                  /\ j[2] \in proposal[k[1]].winners
<1>1. /\ k[1] \in DOMAIN proposal /\ k[2] \in DOMAIN proposal[k[1]].weights
      /\ proposal[k[1]] \in ProposalType
  BY DEF AccountsInv, TypeInv, TypeOK
<1>2. CanExecute(k) /\ \A c \in Callees(k) : CanCall(k, c)
  BY DEF ExecuteTransaction
<1>3. proposal[k[1]].votingCompletedAt < now
  BY <1>1, <1>2 DEF CanExecute, TypeInv, TypeOK, ConfigType, ProposalType
<1>4. ASSUME NEW c \in Callees(k)
      PROVE  /\ c \in DOMAIN transactions /\ c[1] = k[1]
             /\ transactions[c].executedAt = NotSet /\ c[2] \in proposal[k[1]].winners
  <2>1. c[1] = k[1]
    BY DEF Callees
  <2> QED
    BY <1>2, <2>1 DEF CanCall, CanExecute
<1> QED
  BY <1>1, <1>2, <1>3, <1>4 DEF Ran, CanExecute

\* The config that a transaction sets, if any.
LEMMA ExecutedConfig ==
    ASSUME TypeInv, AccountsInv, NEW k \in DOMAIN transactions, ExecuteTransaction(k)
    PROVE  config' \in ConfigType
<1> DEFINE configs == UNION {transactions[j].calls.configs : j \in Ran(k)}
<1>1. config' \in IF configs = {} THEN {config} ELSE configs
  BY DEF ExecuteTransaction, Ran
<1>2. configs \subseteq ConfigType
  <2>1. \A j \in Ran(k) : transactions[j].calls \in Calls
    BY RanFacts DEF AccountsInv, TransactionType
  <2> QED
    BY <2>1, CallsAssumption, ConstantsAssumption
<1>3. config \in ConfigType
  BY DEF TypeInv, TypeOK
<1> QED
  BY <1>1, <1>2, <1>3

\* The accounts of transactions after an execution.
RanTransactions(k) ==
    /\ DOMAIN transactions' = DOMAIN transactions
    /\ DOMAIN effects' = DOMAIN effects
    /\ \A j \in DOMAIN transactions :
           /\ transactions'[j].calls = transactions[j].calls
           /\ transactions'[j] \in TransactionType
           /\ j \in Ran(k) => transactions'[j].executedAt = now /\ effects'[j] = effects[j] + 1
           /\ j \notin Ran(k) => transactions'[j] = transactions[j] /\ effects'[j] = effects[j]

LEMMA ExecuteTransactions ==
    ASSUME TypeInv, AccountsInv, NEW k \in DOMAIN transactions, ExecuteTransaction(k)
    PROVE  RanTransactions(k)
<1>1. /\ transactions' = [j \in DOMAIN transactions |->
             IF j \in Ran(k) THEN [transactions[j] EXCEPT !.executedAt = now] ELSE transactions[j]]
      /\ effects' = [j \in DOMAIN effects |-> IF j \in Ran(k) THEN effects[j] + 1 ELSE effects[j]]
  BY DEF ExecuteTransaction, Ran
<1>2. now \in Nat /\ DOMAIN effects = DOMAIN transactions
      /\ \A j \in DOMAIN transactions : transactions[j] \in TransactionType
  BY DEF TypeInv, TypeOK, AccountsInv
<1>3. ASSUME NEW j \in DOMAIN transactions
      PROVE  LET after == [transactions[j] EXCEPT !.executedAt = now]
             IN  after \in TransactionType /\ after.executedAt = now
                 /\ after.calls = transactions[j].calls
  BY <1>2 DEF TransactionType
<1> QED
  BY <1>1, <1>2, <1>3 DEF RanTransactions

\* The account of the proposal after an execution.
RanExecution(k) ==
    LET before == execution[k[1]]
        after  == execution'[k[1]]
    IN  /\ execution' = [q \in DOMAIN proposal |-> execution'[q]]
        /\ \A q \in DOMAIN proposal : q # k[1] => execution'[q] = execution[q]
        /\ after \in ExecutionType(proposal[k[1]])
        /\ after.executingAt =
               IF proposal[k[1]].state = "Succeeded" THEN now ELSE before.executingAt
        /\ after.options[k[2]].count = before.options[k[2]].count
        /\ after.options[k[2]].nextIndex = before.options[k[2]].nextIndex
        /\ after.options[k[2]].executed = before.options[k[2]].executed + 1
        /\ \A n \in DOMAIN proposal[k[1]].weights :
               n # k[2] => after.options[n] = before.options[n]

LEMMA ExecuteExecution ==
    ASSUME TypeInv, AccountsInv, NEW k \in DOMAIN transactions, ExecuteTransaction(k)
    PROVE  RanExecution(k)
<1> DEFINE p == k[1]
           o == k[2]
           counter == [execution[p].options[o] EXCEPT
                          !.executed = execution[p].options[o].executed + 1]
           options == [execution[p].options EXCEPT ![o] = counter]
           at == IF proposal[p].state = "Succeeded" THEN now ELSE execution[p].executingAt
           account == [execution[p] EXCEPT !.options = options, !.executingAt = at]
<1>1. execution' = [execution EXCEPT ![p] = account]
  BY DEF ExecuteTransaction
<1>2. /\ p \in DOMAIN proposal /\ o \in DOMAIN proposal[p].weights
      /\ execution = [q \in DOMAIN proposal |-> execution[q]]
      /\ execution[p] \in ExecutionType(proposal[p]) /\ now \in Nat
  BY DEF AccountsInv, TypeInv, TypeOK
<1>3. /\ counter \in CounterType
      /\ counter.count = execution[p].options[o].count
      /\ counter.nextIndex = execution[p].options[o].nextIndex
      /\ counter.executed = execution[p].options[o].executed + 1
  BY <1>2 DEF ExecutionType, CounterType
<1> HIDE DEF counter
<1>4. /\ options \in [DOMAIN proposal[p].weights -> CounterType] /\ options[o] = counter
      /\ \A n \in DOMAIN proposal[p].weights : n # o => options[n] = execution[p].options[n]
  BY <1>2, <1>3 DEF ExecutionType
<1>5. at \in Nat
  BY <1>2 DEF ExecutionType
<1> HIDE DEF options, at
<1>6. /\ account \in ExecutionType(proposal[p])
      /\ account.options = options /\ account.executingAt = at
  BY <1>2, <1>4, <1>5 DEF ExecutionType
<1> HIDE DEF account
<1>7. /\ execution'[p] = account
      /\ \A q \in DOMAIN proposal : q # p => execution'[q] = execution[q]
      /\ execution' = [q \in DOMAIN proposal |-> execution'[q]]
  BY <1>1, <1>2
<1> QED
  BY <1>3, <1>4, <1>6, <1>7 DEF RanExecution, at

\* The proposal after a step that executes a part of it, or closes it.
Closed(p, state) ==
    /\ TypeInv' /\ UNCHANGED now
    /\ DOMAIN proposal' = DOMAIN proposal
    /\ proposal' = [proposal EXCEPT ![p] = proposal'[p]]
    /\ \A q \in DOMAIN proposal : q # p => proposal'[q] = proposal[q]
    /\ proposal'[p].state = state
    /\ proposal'[p].weights = proposal[p].weights
    /\ proposal'[p].winners = proposal[p].winners
    /\ proposal'[p].hasDeny = proposal[p].hasDeny
    /\ proposal'[p].votingAt = proposal[p].votingAt
    /\ proposal'[p].votingCompletedAt = proposal[p].votingCompletedAt

LEMMA ExecuteProposal ==
    ASSUME TypeInv, AccountsInv, NEW k \in DOMAIN transactions, ExecuteTransaction(k)
    PROVE  Closed(k[1], IF AllExecuted(execution'[k[1]].options, proposal[k[1]].winners)
                        THEN "Completed" ELSE "Executing")
<1> DEFINE p == k[1]
           counters == [execution[p].options EXCEPT ![k[2]].executed = @ + 1]
           all == AllExecuted(counters, proposal[p].winners)
           state == IF all THEN "Completed" ELSE "Executing"
           closed == proposal[p].closed \/ all
<1>1. /\ proposal' = [proposal EXCEPT ![p].state = state, ![p].closed = closed]
      /\ execution' = [execution EXCEPT ![p].options = counters,
             ![p].executingAt = IF proposal[p].state = "Succeeded" THEN now ELSE @]
      /\ UNCHANGED <<now, realmVars, requiredSignatories, activeProposals, tokenVars, tor,
                     voteRecords, proposalDeposit>>
  BY DEF ExecuteTransaction
<1>2. /\ p \in DOMAIN proposal /\ DOMAIN execution = DOMAIN proposal
      /\ execution[p] \in ExecutionType(proposal[p])
  BY DEF AccountsInv
<1>3. execution'[p].options = counters
  <2> HIDE DEF counters
  <2> QED
    BY <1>1, <1>2 DEF ExecutionType
<1>4. state \in ProposalStates /\ closed \in BOOLEAN
  BY <1>2 DEF ProposalStates, AllExecuted
<1>5. config' \in ConfigType
  BY ExecutedConfig
<1> HIDE DEF state, closed
<1>6. /\ TypeInv' /\ proposal' = [proposal EXCEPT ![p] = proposal'[p]]
      /\ proposal'[p].state = state
      /\ proposal'[p].weights = proposal[p].weights
      /\ proposal'[p].winners = proposal[p].winners
      /\ proposal'[p].hasDeny = proposal[p].hasDeny
      /\ proposal'[p].votingAt = proposal[p].votingAt
      /\ proposal'[p].votingCompletedAt = proposal[p].votingCompletedAt
  BY <1>1, <1>2, <1>4, <1>5, ClosingKeepsType
<1>7. /\ DOMAIN proposal' = DOMAIN proposal
      /\ \A q \in DOMAIN proposal : q # p => proposal'[q] = proposal[q]
  BY <1>1
<1>8. state = IF AllExecuted(execution'[p].options, proposal[p].winners)
              THEN "Completed" ELSE "Executing"
  BY <1>3 DEF state
<1> QED
  BY <1>1, <1>6, <1>7, <1>8 DEF Closed

\* The dates of a proposal that is executed, or closed, stay in order.
LEMMA ClosedDated ==
    ASSUME TypeInv, NEW p \in DOMAIN proposal, NEW state \in {"Executing", "Completed"},
           Closed(p, state), proposal[p].state \in {"Succeeded", "Executing"},
           NEW at \in Nat, Dated(proposal[p], at, now), NEW new \in Nat,
           \/ proposal[p].state = "Executing" /\ new = at
           \/ proposal[p].state = "Succeeded" /\ new = now /\ proposal[p].votingCompletedAt < now
           \/ state = "Completed" /\ new = at
    PROVE  Dated(proposal'[p], new, now)
<1>1. now \in Nat \ {0} /\ proposal[p].votingAt \in Nat /\ proposal[p].votingCompletedAt \in Nat
  BY DEF TypeInv, TypeOK, ProposalType
<1> QED
  BY <1>1 DEF Closed, Dated, ActiveStates, NotSet

LEMMA ExecuteKeeps ==
    ASSUME ExecutionInv, NEW k \in DOMAIN transactions, ExecuteTransaction(k)
    PROVE  ExecutionInv'
<1> USE DEF ExecutionInv
<1> DEFINE p == k[1]
           o == k[2]
           state == IF AllExecuted(execution'[p].options, proposal[p].winners)
                    THEN "Completed" ELSE "Executing"
<1>1. /\ p \in DOMAIN proposal /\ o \in DOMAIN proposal[p].weights
      /\ proposal[p].state \in {"Succeeded", "Executing"}
      /\ proposal[p].votingCompletedAt < now
      /\ \A j \in Ran(k) :
             /\ j \in DOMAIN transactions /\ j[1] = p
             /\ transactions[j].executedAt = NotSet
             /\ j[2] \in proposal[p].winners
  BY RanFacts
<1>2. RanTransactions(k) /\ RanExecution(k) /\ Closed(p, state)
  BY ExecuteTransactions, ExecuteExecution, ExecuteProposal
<1>3. state \in {"Executing", "Completed"}
  OBVIOUS
<1> HIDE DEF state
<1>4. now \in Nat \ {0} /\ now' = now /\ now # NotSet
  BY <1>2 DEF TypeInv, TypeOK, Closed, NotSet
<1>5. AccountsInv'
  <2>1. \A q \in DOMAIN proposal : DOMAIN proposal'[q].weights = DOMAIN proposal[q].weights
    BY <1>2 DEF Closed
  <2>2. \A j \in DOMAIN transactions : effects'[j] \in Nat
    BY <1>2 DEF RanTransactions, AccountsInv
  <2>3. \A q \in DOMAIN proposal : execution'[q] \in ExecutionType(proposal'[q])
    BY <1>2, <2>1 DEF RanExecution, AccountsInv, ExecutionType
  <2>4. execution' = [q \in DOMAIN proposal' |-> execution'[q]]
    BY <1>2 DEF RanExecution, Closed
  <2> QED
    BY <1>2, <2>1, <2>2, <2>3, <2>4 DEF RanTransactions, Closed, AccountsInv
<1>6. EachRunsOnce'
  <2>1. ASSUME NEW j \in DOMAIN transactions
        PROVE  effects'[j] = IF transactions'[j].executedAt = NotSet THEN 0 ELSE 1
    <3>1. effects[j] = IF transactions[j].executedAt = NotSet THEN 0 ELSE 1
      BY DEF EachRunsOnce
    <3>2. CASE j \in Ran(k)
      BY <1>1, <1>2, <1>4, <3>1, <3>2 DEF RanTransactions
    <3>3. CASE j \notin Ran(k)
      BY <1>2, <3>1, <3>3 DEF RanTransactions
    <3> QED
      BY <3>2, <3>3
  <2> QED
    BY <1>2, <2>1 DEF RanTransactions, EachRunsOnce
<1>7. ApprovedInv'
  <2>1. ASSUME NEW j \in DOMAIN transactions
        PROVE  /\ proposal'[j[1]].hasDeny
               /\ transactions'[j].executedAt # NotSet =>
                      /\ proposal'[j[1]].state \in {"Executing", "Completed"}
                      /\ j[2] \in proposal'[j[1]].winners
    <3>1. j[1] \in DOMAIN proposal
      BY DEF AccountsInv
    <3>2. CASE j[1] = p
      BY <1>1, <1>2, <1>3, <3>2 DEF RanTransactions, Closed, ApprovedInv
    <3>3. CASE j[1] # p
      BY <1>1, <1>2, <3>1, <3>3 DEF RanTransactions, Closed, ApprovedInv
    <3> QED
      BY <3>2, <3>3
  <2> QED
    BY <1>2, <2>1 DEF RanTransactions, ApprovedInv
<1>8. DatesInv'
  <2>1. execution[p].executingAt \in Nat /\ Dated(proposal[p], execution[p].executingAt, now)
    BY <1>1 DEF AccountsInv, ExecutionType, DatesInv
  <2>2. /\ execution'[p].executingAt \in Nat
        /\ \/ /\ proposal[p].state = "Executing"
              /\ execution'[p].executingAt = execution[p].executingAt
           \/ proposal[p].state = "Succeeded" /\ execution'[p].executingAt = now
    BY <1>1, <1>2, <1>4, <2>1 DEF RanExecution
  <2>3. Dated(proposal'[p], execution'[p].executingAt, now)
    <3>1. \/ proposal[p].state = "Executing" /\ execution'[p].executingAt = execution[p].executingAt
          \/ /\ proposal[p].state = "Succeeded" /\ execution'[p].executingAt = now
             /\ proposal[p].votingCompletedAt < now
      BY <1>1, <2>2
    <3> QED
      BY <1>1, <1>2, <1>3, <2>1, <2>2, <3>1, ClosedDated
  <2>4. ASSUME NEW q \in DOMAIN proposal
        PROVE  Dated(proposal'[q], execution'[q].executingAt, now')
    <3>1. CASE q = p
      BY <1>4, <2>3, <3>1
    <3>2. CASE q # p
      BY <1>2, <1>4, <3>2 DEF RanExecution, Closed, DatesInv
    <3> QED
      BY <3>1, <3>2
  <2>5. ASSUME NEW j \in DOMAIN transactions, transactions'[j].executedAt # NotSet
        PROVE  /\ execution'[j[1]].executingAt # NotSet
               /\ execution'[j[1]].executingAt <= transactions'[j].executedAt
    <3>1. CASE j \in Ran(k)
      <4>1. j[1] = p /\ transactions'[j].executedAt = now
        BY <1>1, <1>2, <3>1 DEF RanTransactions
      <4>2. execution'[p].executingAt # NotSet /\ execution'[p].executingAt <= now
        BY <1>4, <2>1, <2>2 DEF Dated
      <4> QED
        BY <4>1, <4>2
    <3>2. CASE j \notin Ran(k)
      <4>1. /\ transactions'[j] = transactions[j]
            /\ execution[j[1]].executingAt # NotSet
            /\ execution[j[1]].executingAt <= transactions[j].executedAt
        BY <1>2, <2>5, <3>2 DEF RanTransactions, DatesInv
      <4>2. proposal[j[1]].state \in {"Executing", "Completed"} /\ j[1] \in DOMAIN proposal
        BY <2>5, <4>1 DEF ApprovedInv, AccountsInv
      <4>3. execution'[j[1]].executingAt = execution[j[1]].executingAt
        BY <1>2, <2>2, <4>2 DEF RanExecution
      <4> QED
        BY <4>1, <4>3
    <3> QED
      BY <3>1, <3>2
  <2>6. DOMAIN proposal' = DOMAIN proposal /\ DOMAIN transactions' = DOMAIN transactions
    BY <1>2 DEF Closed, RanTransactions
  <2> QED
    BY <2>4, <2>5, <2>6 DEF DatesInv
<1>9. TransactionsCounted'
  <2>1. ASSUME NEW q, NEW n
        PROVE  /\ TransactionsOfOption(q, n)' = TransactionsOfOption(q, n)
               /\ CallsTransactions(q)' <=> CallsTransactions(q)
               /\ Executed(TransactionsOfOption(q, n))'
                      = Executed(TransactionsOfOption(q, n)) \cup (Ran(k) \cap TransactionsOfOption(q, n))
    <3>1. DOMAIN transactions' = DOMAIN transactions
          /\ \A j \in DOMAIN transactions : transactions'[j].calls = transactions[j].calls
      BY <1>2 DEF RanTransactions
    <3>2. /\ TransactionsOfOption(q, n)' = TransactionsOfOption(q, n)
          /\ CallsTransactions(q)' <=> CallsTransactions(q)
      BY <3>1 DEF TransactionsOfOption, TransactionsOf, CallsTransactions
    <3>3. \A j \in TransactionsOfOption(q, n) :
              transactions'[j].executedAt # NotSet
                  <=> transactions[j].executedAt # NotSet \/ j \in Ran(k)
      BY <1>2, <1>4 DEF RanTransactions, TransactionsOfOption, TransactionsOf
    <3> QED
      BY <3>2, <3>3 DEF Executed
  <2>2. ASSUME NEW q \in DOMAIN proposal, NEW n \in DOMAIN proposal[q].weights
        PROVE  CountedAt(q, n)'
    <3> DEFINE existing == TransactionsOfOption(q, n)
               executed == Executed(existing)
               ran == Ran(k) \cap existing
               before == execution[q].options[n]
               after == execution'[q].options[n]
    <3>1. OptionCounted(before, existing, executed, CallsTransactions(q))
      BY CountedAtEvery DEF CountedAt
    <3>2. /\ IsFiniteSet(existing) /\ IsFiniteSet(executed) /\ Cardinality(executed) \in Nat
          /\ before \in CounterType
      BY TransactionsFinite DEF AccountsInv, ExecutionType
    <3>3. /\ existing' = existing /\ (CallsTransactions(q)' <=> CallsTransactions(q))
          /\ executed' = executed \cup ran
      BY <2>1
    <3>4. IsFiniteSet(executed') /\ Cardinality(executed') \in Nat
      <4>1. executed' \subseteq existing
        BY <3>3 DEF Executed
      <4> QED
        BY <3>2, <4>1, FS_Subset, FS_CardinalityType
    <3>5. Cardinality(executed) <= Cardinality(executed')
      BY <3>3, <3>4, FS_Subset
    <3>6. /\ after.count = before.count /\ after.nextIndex = before.nextIndex
          /\ after.executed = IF q = p /\ n = o THEN before.executed + 1 ELSE before.executed
      BY <1>2 DEF RanExecution
    <3>7. CASE q = p /\ n = o
      <4>1. k \in existing /\ k \notin executed /\ k \in ran
        BY <1>1, <3>7 DEF TransactionsOfOption, TransactionsOf, Executed, Ran
      <4>2. Cardinality(executed \cup {k}) = Cardinality(executed) + 1
        BY <3>2, <4>1, FS_AddElement
      <4>3. Cardinality(executed \cup {k}) <= Cardinality(executed')
        BY <3>3, <3>4, <4>1, FS_Subset
      <4>4. ~CallsTransactions(q) => executed' = executed \cup {k}
        <5>1. ~CallsTransactions(q) => Callees(k) = {}
          BY <3>7 DEF CallsTransactions, TransactionsOf, Callees
        <5> QED
          BY <3>3, <4>1, <5>1 DEF Ran
      <4> HIDE DEF existing, executed, ran, before, after
      <4>5. OptionCounted(after, existing', executed', CallsTransactions(q)')
        <5>1. after.count = Cardinality(existing') /\ \A j \in existing' : j[3] < after.nextIndex
          BY <3>1, <3>3, <3>6 DEF OptionCounted
        <5>2. after.executed <= Cardinality(executed')
          BY <3>1, <3>2, <3>4, <3>6, <3>7, <4>2, <4>3, <4>4 DEF OptionCounted, CounterType
        <5>3. ~CallsTransactions(q) => after.executed = Cardinality(executed')
          BY <3>1, <3>2, <3>6, <3>7, <4>2, <4>3, <4>4 DEF OptionCounted, CounterType
        <5> QED
          BY <3>3, <5>1, <5>2, <5>3 DEF OptionCounted
      <4> QED
        BY <4>5 DEF CountedAt, existing, executed, after
    <3>8. CASE ~(q = p /\ n = o)
      <4>1. ~CallsTransactions(q) => executed' = executed
        <5>1. q = p /\ ~CallsTransactions(q) => Callees(k) = {}
          BY DEF CallsTransactions, TransactionsOf, Callees
        <5>2. q = p => k \notin existing
          BY <3>8 DEF TransactionsOfOption, TransactionsOf
        <5>3. q # p => ran = {}
          BY <1>1 DEF TransactionsOfOption, TransactionsOf
        <5> QED
          BY <3>3, <5>1, <5>2, <5>3 DEF Ran
      <4> HIDE DEF existing, executed, ran, before, after
      <4>2. OptionCounted(after, existing', executed', CallsTransactions(q)')
        <5>1. after.count = Cardinality(existing') /\ \A j \in existing' : j[3] < after.nextIndex
          BY <3>1, <3>3, <3>6 DEF OptionCounted
        <5>2. after.executed <= Cardinality(executed')
          BY <3>1, <3>2, <3>4, <3>6, <3>5, <3>8, <4>1 DEF OptionCounted, CounterType
        <5>3. ~CallsTransactions(q) => after.executed = Cardinality(executed')
          BY <3>1, <3>2, <3>6, <3>5, <3>8, <4>1 DEF OptionCounted, CounterType
        <5> QED
          BY <3>3, <5>1, <5>2, <5>3 DEF OptionCounted
      <4> QED
        BY <4>2 DEF CountedAt, existing, executed, after
    <3> QED
      BY <3>7, <3>8
  <2>3. \A q \in DOMAIN proposal : DOMAIN proposal'[q].weights = DOMAIN proposal[q].weights
    BY <1>2 DEF Closed
  <2>4. \A q \in DOMAIN proposal' : \A n \in DOMAIN proposal'[q].weights : CountedAt(q, n)'
    BY <1>2, <2>2, <2>3 DEF Closed
  <2> QED
    BY <2>4 DEF TransactionsCounted, CountedAt, OptionCounted
<1> QED
  BY <1>2, <1>5, <1>6, <1>7, <1>8, <1>9 DEF Closed

LEMMA CompleteEffect ==
    ASSUME TypeInv, NEW p \in Proposals, CompleteProposal(p)
    PROVE  /\ p \in DOMAIN proposal /\ proposal[p].state = "Succeeded"
           /\ Closed(p, "Completed") /\ UNCHANGED <<transactions, execution, effects>>
<1>1. /\ p \in DOMAIN proposal /\ proposal[p].state = "Succeeded"
      /\ proposal' = [proposal EXCEPT ![p].state = "Completed", ![p].closed = TRUE]
      /\ UNCHANGED <<now, realmVars, govVars, tokenVars, tor, voteRecords, proposalDeposit,
                     transactionVars>>
  BY DEF CompleteProposal
<1>2. config' \in ConfigType
  BY <1>1 DEF govVars, TypeInv, TypeOK
<1>3. /\ TypeInv' /\ proposal' = [proposal EXCEPT ![p] = proposal'[p]]
      /\ proposal'[p].state = "Completed"
      /\ proposal'[p].weights = proposal[p].weights
      /\ proposal'[p].winners = proposal[p].winners
      /\ proposal'[p].hasDeny = proposal[p].hasDeny
      /\ proposal'[p].votingAt = proposal[p].votingAt
      /\ proposal'[p].votingCompletedAt = proposal[p].votingCompletedAt
  <2>1. UNCHANGED <<now, realmVars, requiredSignatories, activeProposals, tokenVars, tor,
                    voteRecords, proposalDeposit>>
    BY <1>1 DEF govVars
  <2>2. "Completed" \in ProposalStates /\ TRUE \in BOOLEAN
    BY DEF ProposalStates
  <2> QED
    BY <1>1, <1>2, <2>1, <2>2, ClosingKeepsType
<1>4. /\ DOMAIN proposal' = DOMAIN proposal
      /\ \A q \in DOMAIN proposal : q # p => proposal'[q] = proposal[q]
  BY <1>1
<1> QED
  BY <1>1, <1>3, <1>4 DEF Closed, transactionVars

LEMMA CompleteKeeps ==
    ASSUME ExecutionInv, NEW p \in Proposals, CompleteProposal(p)
    PROVE  ExecutionInv'
<1> USE DEF ExecutionInv
<1>1. /\ p \in DOMAIN proposal /\ proposal[p].state = "Succeeded"
      /\ Closed(p, "Completed") /\ UNCHANGED <<transactions, execution, effects>>
  BY CompleteEffect
<1>2. \A q \in DOMAIN proposal : DOMAIN proposal'[q].weights = DOMAIN proposal[q].weights
  BY <1>1 DEF Closed
<1>3. AccountsInv'
  BY <1>1, <1>2 DEF Closed, AccountsInv, ExecutionType
<1>4. EachRunsOnce'
  BY <1>1 DEF EachRunsOnce
<1>5. ApprovedInv'
  BY <1>1 DEF Closed, ApprovedInv, AccountsInv
<1>6. DatesInv'
  <2>1. execution[p].executingAt \in Nat /\ Dated(proposal[p], execution[p].executingAt, now)
    BY <1>1 DEF AccountsInv, ExecutionType, DatesInv
  <2>2. Dated(proposal'[p], execution[p].executingAt, now)
    BY <1>1, <2>1, ClosedDated
  <2> QED
    BY <1>1, <2>2 DEF Closed, DatesInv
<1>7. TransactionsCounted'
  <2>1. \A q, n : CountedAt(q, n)' <=> CountedAt(q, n)
    BY <1>1 DEF CountedAt, OptionCounted, TransactionsOfOption, TransactionsOf, Executed,
                CallsTransactions
  <2>2. \A q \in DOMAIN proposal' : \A n \in DOMAIN proposal'[q].weights : CountedAt(q, n)'
    BY <1>1, <1>2, <2>1, CountedAtEvery DEF Closed
  <2> QED
    BY <2>2 DEF TransactionsCounted, CountedAt, OptionCounted
<1> QED
  BY <1>1, <1>3, <1>4, <1>5, <1>6, <1>7 DEF Closed

-----------------------------------------------------------------------------
(* The theorems of safety *)

LEMMA ExecutionInitInv == ExecutionInit => ExecutionInv
<1> SUFFICES ASSUME ExecutionInit PROVE ExecutionInv
  OBVIOUS
<1>1. TypeInv
  BY InitType DEF ExecutionInit
<1>2. DOMAIN proposal = {} /\ DOMAIN transactions = {} /\ DOMAIN effects = {}
      /\ execution = [p \in {} |-> execution[p]]
  BY DEF ExecutionInit, Init, NoAccounts
<1>3. AccountsInv
  BY <1>2, FS_EmptySet DEF AccountsInv
<1>4. EachRunsOnce /\ ApprovedInv /\ DatesInv /\ TransactionsCounted
  BY <1>2 DEF EachRunsOnce, ApprovedInv, DatesInv, TransactionsCounted
<1> QED
  BY <1>1, <1>3, <1>4 DEF ExecutionInv

LEMMA ExecutionNextInv ==
    ASSUME ExecutionInv, [ExecutionNext]_allVars
    PROVE  ExecutionInv'
<1>1. CASE GovernanceStep
  BY <1>1, GovernanceStepKeeps
<1>2. ASSUME NEW p \in DOMAIN proposal, NEW o \in DOMAIN proposal[p].weights,
             NEW i \in 0..(MAX_TRANSACTIONS - 1), NEW calls \in Calls,
             InsertTransaction(p, o, i, calls)
      PROVE  ExecutionInv'
  BY <1>2, InsertKeeps
<1>3. ASSUME NEW k \in DOMAIN transactions, RemoveTransaction(k)
      PROVE  ExecutionInv'
  BY <1>3, RemoveKeeps
<1>4. ASSUME NEW k \in DOMAIN transactions, ExecuteTransaction(k)
      PROVE  ExecutionInv'
  BY <1>4, ExecuteKeeps
<1>5. ASSUME NEW p \in Proposals, CompleteProposal(p)
      PROVE  ExecutionInv'
  BY <1>5, CompleteKeeps
<1>6. CASE UNCHANGED allVars
  <2>1. UNCHANGED vars /\ UNCHANGED <<transactions, execution, effects>>
    BY <1>6 DEF allVars, transactionVars
  <2>2. TypeInv' /\ UNCHANGED <<now, proposal>>
    BY <2>1, VarsUnchanged DEF ExecutionInv
  <2>3. AccountsInv' /\ EachRunsOnce' /\ ApprovedInv' /\ DatesInv'
    BY <2>1, <2>2 DEF ExecutionInv, AccountsInv, EachRunsOnce, ApprovedInv, DatesInv
  <2>4. \A q, n : CountedAt(q, n)' <=> CountedAt(q, n)
    BY <2>1, <2>2 DEF CountedAt, OptionCounted, TransactionsOfOption, TransactionsOf, Executed,
                CallsTransactions
  <2>5. \A q \in DOMAIN proposal' : \A n \in DOMAIN proposal'[q].weights : CountedAt(q, n)'
    BY <2>2, <2>4, CountedAtEvery DEF ExecutionInv
  <2>6. TransactionsCounted'
    BY <2>5 DEF TransactionsCounted, CountedAt, OptionCounted
  <2> QED
    BY <2>2, <2>3, <2>6 DEF ExecutionInv
<1> QED
  BY <1>1, <1>2, <1>3, <1>4, <1>5, <1>6 DEF ExecutionNext, TransactionStep

LEMMA ExecutionInvariant == ExecutionSpec => []ExecutionInv
  BY ExecutionInitInv, ExecutionNextInv, PTL DEF ExecutionSpec

\* A transaction that is marked executed has run once, and one that is not has
\* not run, whichever of them execute each other.
THEOREM EachRunsOnceAlways == ExecutionSpec => []EachRunsOnce
<1>1. ExecutionInv => EachRunsOnce
  BY DEF ExecutionInv
<1> QED
  BY <1>1, ExecutionInvariant, PTL

\* The counters of an option never run ahead of its transactions, and are exact
\* where no transaction executes another.
THEOREM TransactionsCountedAlways == ExecutionSpec => []TransactionsCounted
<1>1. ExecutionInv => TransactionsCounted
  BY DEF ExecutionInv
<1> QED
  BY <1>1, ExecutionInvariant, PTL

\* Start of the vote, end of the vote and executions follow each other, however
\* the config, and with it the hold-up time, changes in between.
THEOREM TimelineOrderedAlways == ExecutionSpec => []TimelineOrdered
<1>1. ExecutionInv => TimelineOrdered
  BY DEF ExecutionInv, DatesInv, Dated, TimelineOrdered, Executed, TransactionsOf
<1> QED
  BY <1>1, ExecutionInvariant, PTL

-----------------------------------------------------------------------------
(* Execution implements ProposalLifecycle *)

\* A step that is about one proposal shows nothing of the others.
Others(p) ==
    \A q \in Proposals \ {p} :
        /\ q \in DOMAIN proposal' <=> q \in DOMAIN proposal
        /\ q \in DOMAIN proposal => proposal'[q] = proposal[q]
        /\ TransactionsOf(q)' = TransactionsOf(q)
        /\ \A k \in TransactionsOf(q) : transactions'[k] = transactions[k]

LEMMA OthersShown ==
    ASSUME AccountsInv, NEW p \in Proposals, Others(p)
    PROVE  /\ Phase' = [Phase EXCEPT ![p] = Phase'[p]]
           /\ Plan' = [Plan EXCEPT ![p] = Plan'[p]]
           /\ Due' = [Due EXCEPT ![p] = Due'[p]]
           /\ Done' = [Done EXCEPT ![p] = Done'[p]]
<1>1. ASSUME NEW q \in Proposals \ {p}
      PROVE  Phase'[q] = Phase[q] /\ Plan'[q] = Plan[q] /\ Due'[q] = Due[q] /\ Done'[q] = Done[q]
  <2>1. /\ q \in DOMAIN proposal' <=> q \in DOMAIN proposal
        /\ q \in DOMAIN proposal => proposal'[q] = proposal[q]
        /\ TransactionsOf(q)' = TransactionsOf(q)
        /\ \A k \in TransactionsOf(q) : transactions'[k] = transactions[k]
        /\ TransactionsOf(q) # {} => q \in DOMAIN proposal
    BY DEF Others, AccountsInv, TransactionsOf
  <2>2. Phase'[q] = Phase[q] /\ Plan'[q] = Plan[q]
    BY <2>1 DEF Phase, Plan
  <2>3. Done'[q] = Done[q]
    BY <2>1 DEF Done, Executed
  <2>4. Due'[q] = Due[q]
    <3>1. CASE TransactionsOf(q) = {}
      BY <2>1, <3>1 DEF Due
    <3>2. CASE TransactionsOf(q) # {}
      BY <2>1, <3>2 DEF Due
    <3> QED
      BY <3>1, <3>2
  <2> QED
    BY <2>2, <2>3, <2>4
<1>2. /\ Phase' = [q \in Proposals |-> Phase'[q]] /\ Phase = [q \in Proposals |-> Phase[q]]
      /\ Plan' = [q \in Proposals |-> Plan'[q]] /\ Plan = [q \in Proposals |-> Plan[q]]
      /\ Due' = [q \in Proposals |-> Due'[q]] /\ Due = [q \in Proposals |-> Due[q]]
      /\ Done' = [q \in Proposals |-> Done'[q]] /\ Done = [q \in Proposals |-> Done[q]]
  BY DEF Phase, Plan, Due, Done
<1> QED
  BY <1>1, <1>2

\* What a step shows of its own proposal.
Shown(p) ==
    /\ Phase[p] = IF p \in DOMAIN proposal THEN proposal[p].state ELSE "None"
    /\ Plan[p] = TransactionsOf(p) /\ Done[p] = Executed(TransactionsOf(p))
    /\ Due[p] = {k \in TransactionsOf(p) :
                    proposal[p].state \in PassedStates /\ k[2] \in proposal[p].winners}

LEMMA ShownAlways == ASSUME NEW p \in Proposals PROVE Shown(p) /\ Shown(p)'
  BY DEF Shown, Phase, Plan, Due, Done

\* Values that do not change for the one proposal do not change at all.
LEMMA SameShown ==
    ASSUME AccountsInv, NEW p \in Proposals, Others(p)
    PROVE  /\ Phase'[p] = Phase[p] => UNCHANGED Phase
           /\ Plan'[p] = Plan[p] => UNCHANGED Plan
           /\ Due'[p] = Due[p] => UNCHANGED Due
           /\ Done'[p] = Done[p] => UNCHANGED Done
<1>1. /\ Phase' = [Phase EXCEPT ![p] = Phase'[p]]
      /\ Plan' = [Plan EXCEPT ![p] = Plan'[p]]
      /\ Due' = [Due EXCEPT ![p] = Due'[p]]
      /\ Done' = [Done EXCEPT ![p] = Done'[p]]
  BY OthersShown
<1>2. /\ Phase = [q \in Proposals |-> Phase[q]] /\ Plan = [q \in Proposals |-> Plan[q]]
      /\ Due = [q \in Proposals |-> Due[q]] /\ Done = [q \in Proposals |-> Done[q]]
  BY DEF Phase, Plan, Due, Done
<1> QED
  BY <1>1, <1>2

LifecycleStep == Lifecycle!Next \/ UNCHANGED <<Phase, Plan, Due, Done>>

LEMMA MovesRefines ==
    ASSUME ExecutionInv, NEW p \in Proposals, Moves(p), UNCHANGED transactions
    PROVE  LifecycleStep
<1> USE DEF ExecutionInv
<1>1. /\ p \in DOMAIN proposal /\ p \in DOMAIN proposal' /\ Others(p)
      /\ TransactionsOf(p)' = TransactionsOf(p)
      /\ Executed(TransactionsOf(p))' = Executed(TransactionsOf(p))
  BY DEF Moves, Others, TransactionsOf, Executed
<1>2. /\ Phase[p] = proposal[p].state /\ Phase'[p] = proposal'[p].state
      /\ UNCHANGED <<Plan, Done>>
      /\ Phase' = [Phase EXCEPT ![p] = Phase'[p]]
  BY <1>1, ShownAlways, SameShown, OthersShown DEF Shown
<1>3. proposal[p].state \notin PassedStates => Due[p] = {}
  BY ShownAlways DEF Shown
<1>4. proposal'[p].state \notin PassedStates => Due'[p] = {}
  BY ShownAlways DEF Shown
<1>5. Due'[p] = Due[p] => UNCHANGED Due
  BY <1>1, SameShown
<1> USE DEF PassedStates
<1>6. CASE Drafted(proposal[p], proposal'[p])
  <2>1. UNCHANGED Due
    BY <1>3, <1>4, <1>5, <1>6 DEF Drafted
  <2>2. CASE proposal'[p].state = "Draft"
    <3>1. UNCHANGED Phase
      BY <1>1, <1>2, <1>6, <2>2, SameShown DEF Drafted
    <3> QED
      BY <1>2, <2>1, <3>1 DEF LifecycleStep
  <2>3. CASE proposal'[p].state \in {"SigningOff", "Voting"}
    <3>1. Lifecycle!SignOff(p)
      BY <1>2, <1>6, <2>1, <2>3 DEF Drafted, Lifecycle!SignOff, Lifecycle!Moves
    <3> QED
      BY <3>1 DEF Lifecycle!Next, LifecycleStep
  <2> QED
    BY <1>6, <2>2, <2>3 DEF Drafted
<1>7. CASE Withdrawn(proposal[p], proposal'[p])
  <2>1. UNCHANGED Due
    BY <1>3, <1>4, <1>5, <1>7 DEF Withdrawn, ActiveStates
  <2>2. Lifecycle!Cancel(p)
    BY <1>2, <1>7, <2>1
       DEF Withdrawn, ActiveStates, Lifecycle!Cancel, Lifecycle!Moves, Lifecycle!Undecided
  <2> QED
    BY <2>2 DEF Lifecycle!Next, LifecycleStep
<1>8. CASE VotedOn(proposal[p], proposal'[p])
  <2>1. CASE proposal'[p].state = "Voting"
    <3>1. UNCHANGED Due
      BY <1>3, <1>4, <1>5, <1>8, <2>1 DEF VotedOn
    <3>2. UNCHANGED Phase
      BY <1>1, <1>2, <1>8, <2>1, SameShown DEF VotedOn
    <3> QED
      BY <1>2, <3>1, <3>2 DEF LifecycleStep
  <2>2. CASE proposal'[p].state = "Succeeded"
    <3>1. Due'[p] \subseteq Plan[p] /\ Due' = [Due EXCEPT ![p] = Due'[p]]
      BY <1>1, ShownAlways, OthersShown DEF Shown
    <3>2. Lifecycle!Approve(p)
      BY <1>2, <1>8, <2>2, <3>1 DEF VotedOn, Lifecycle!Approve, Lifecycle!Moves
    <3> QED
      BY <3>2 DEF Lifecycle!Next, LifecycleStep
  <2>3. CASE proposal'[p].state \in {"Defeated", "Vetoed"}
    <3>1. UNCHANGED Due
      BY <1>3, <1>4, <1>5, <1>8, <2>3 DEF VotedOn
    <3>2. Lifecycle!Reject(p)
      BY <1>2, <1>8, <2>3, <3>1
         DEF VotedOn, Lifecycle!Reject, Lifecycle!Moves, Lifecycle!Rejected
    <3> QED
      BY <3>2 DEF Lifecycle!Next, LifecycleStep
  <2>4. CASE proposal'[p].state = "Completed" /\ ~proposal[p].hasDeny
    <3>1. TransactionsOf(p) = {}
      BY <2>4 DEF ApprovedInv, TransactionsOf
    <3>2. Plan[p] = {} /\ UNCHANGED Due
      BY <1>1, <1>5, <3>1, ShownAlways DEF Shown
    <3>3. Lifecycle!Conclude(p)
      BY <1>2, <1>8, <2>4, <3>2 DEF VotedOn, Lifecycle!Conclude, Lifecycle!Moves
    <3> QED
      BY <3>3 DEF Lifecycle!Next, LifecycleStep
  <2> QED
    BY <1>8, <2>1, <2>2, <2>3, <2>4 DEF VotedOn
<1> QED
  BY <1>6, <1>7, <1>8 DEF Moves

LEMMA AppearsRefines ==
    ASSUME ExecutionInv, NEW p \in Proposals, Appears(p), UNCHANGED transactions
    PROVE  LifecycleStep
<1> USE DEF ExecutionInv
<1>1. /\ p \notin DOMAIN proposal /\ p \in DOMAIN proposal' /\ proposal'[p].state = "Draft"
      /\ Others(p)
  BY DEF Appears, Created, Others, TransactionsOf
<1>2. TransactionsOf(p) = {} /\ TransactionsOf(p)' = {}
  BY <1>1 DEF AccountsInv, TransactionsOf
<1>3. Executed(TransactionsOf(p)) = {} /\ Executed(TransactionsOf(p))' = {}
  BY <1>2 DEF Executed
<1>4. /\ Phase[p] = "None" /\ Phase'[p] = "Draft"
      /\ Plan'[p] = Plan[p] /\ Done'[p] = Done[p] /\ Due'[p] = Due[p]
  <2>1. Phase[p] = "None" /\ Phase'[p] = "Draft"
    BY <1>1, ShownAlways DEF Shown
  <2>2. Plan'[p] = Plan[p] /\ Done'[p] = Done[p]
    BY <1>2, <1>3, ShownAlways DEF Shown
  <2>3. Due[p] = {} /\ Due'[p] = {}
    BY <1>2, ShownAlways DEF Shown
  <2> QED
    BY <2>1, <2>2, <2>3
<1>5. UNCHANGED <<Plan, Due, Done>> /\ Phase' = [Phase EXCEPT ![p] = Phase'[p]]
  BY <1>1, <1>4, SameShown, OthersShown
<1>6. Lifecycle!Create(p)
  BY <1>4, <1>5 DEF Lifecycle!Create, Lifecycle!Moves
<1> QED
  BY <1>6 DEF Lifecycle!Next, LifecycleStep

\* Inserting and removing transactions is editing a draft.
LEMMA EditRefines ==
    ASSUME ExecutionInv, NEW p \in DOMAIN proposal, proposal[p].state = "Draft",
           UNCHANGED proposal, Others(p), Executed(TransactionsOf(p))' = {}
    PROVE  LifecycleStep
<1> USE DEF ExecutionInv
<1>1. p \in Proposals
  BY DEF TypeInv, TypeOK
<1>2. Executed(TransactionsOf(p)) = {}
  BY NothingExecuted
<1>3. /\ Phase[p] = "Draft" /\ Phase'[p] = "Draft" /\ Done[p] = {} /\ Done'[p] = {}
      /\ Due[p] = {} /\ Due'[p] = {}
  BY <1>1, <1>2, ShownAlways DEF Shown, PassedStates
<1>4. UNCHANGED <<Phase, Due, Done>> /\ Plan' = [Plan EXCEPT ![p] = Plan'[p]]
  BY <1>1, <1>3, SameShown, OthersShown
<1>5. Lifecycle!Edit(p)
  BY <1>3, <1>4 DEF Lifecycle!Edit
<1> QED
  BY <1>1, <1>5 DEF Lifecycle!Next, LifecycleStep

LEMMA InsertRefines ==
    ASSUME ExecutionInv, NEW p \in DOMAIN proposal, NEW o, NEW i, NEW calls,
           InsertTransaction(p, o, i, calls)
    PROVE  LifecycleStep
<1> DEFINE key == <<p, o, i>>
           account == [calls |-> calls, executedAt |-> NotSet]
<1>1. /\ proposal[p].state = "Draft" /\ UNCHANGED vars
      /\ transactions' = Created(transactions, key, account)
      /\ key \notin DOMAIN transactions
  BY DEF InsertTransaction, CanEdit
<1>2. UNCHANGED proposal
  BY <1>1 DEF vars, proposalVars
<1>3. key[1] = p /\ account.executedAt = NotSet
  OBVIOUS
<1> HIDE DEF key, account
<1>4. /\ DOMAIN transactions' = DOMAIN transactions \cup {key}
      /\ transactions'[key] = account
      /\ \A k \in DOMAIN transactions : transactions'[k] = transactions[k]
  BY <1>1 DEF Created
<1>5. Others(p)
  BY <1>2, <1>3, <1>4 DEF Others, TransactionsOf
<1>6. Executed(TransactionsOf(p)) = {}
  BY <1>1, NothingExecuted DEF ExecutionInv
<1>7. Executed(TransactionsOf(p))' = {}
  BY <1>3, <1>4, <1>6 DEF Executed, TransactionsOf
<1> QED
  BY <1>1, <1>2, <1>5, <1>7, EditRefines

LEMMA RemoveRefines ==
    ASSUME ExecutionInv, NEW k \in DOMAIN transactions, RemoveTransaction(k)
    PROVE  LifecycleStep
<1>1. /\ proposal[k[1]].state = "Draft" /\ UNCHANGED vars /\ k[1] \in DOMAIN proposal
      /\ transactions' = [j \in DOMAIN transactions \ {k} |-> transactions[j]]
  BY DEF RemoveTransaction, CanEdit, ExecutionInv, AccountsInv
<1>2. UNCHANGED proposal
  BY <1>1 DEF vars, proposalVars
<1>3. Others(k[1])
  BY <1>1, <1>2 DEF Others, TransactionsOf
<1>4. Executed(TransactionsOf(k[1])) = {}
  BY <1>1, NothingExecuted DEF ExecutionInv
<1>5. Executed(TransactionsOf(k[1]))' = {}
  BY <1>1, <1>4 DEF Executed, TransactionsOf
<1> QED
  BY <1>1, <1>2, <1>3, <1>5, EditRefines

\* Once the counters say that an option is executed, all its transactions are:
\* they never run ahead.
CountersTrue ==
    \A p \in DOMAIN proposal :
        AllExecuted(execution[p].options, proposal[p].winners) =>
            \A k \in TransactionsOf(p) :
                k[2] \in proposal[p].winners => k \in Executed(TransactionsOf(p))

LEMMA CountersTellTruth == ExecutionInv => CountersTrue
<1> SUFFICES ASSUME AccountsInv, TransactionsCounted, NEW p \in DOMAIN proposal,
                    AllExecuted(execution[p].options, proposal[p].winners),
                    NEW k \in TransactionsOf(p), k[2] \in proposal[p].winners
             PROVE  k \in Executed(TransactionsOf(p))
  BY DEF ExecutionInv, CountersTrue
<1> DEFINE o == k[2]
           existing == TransactionsOfOption(p, o)
           executed == Executed(existing)
<1>1. o \in DOMAIN proposal[p].weights /\ execution[p].options[o] \in CounterType
  BY DEF AccountsInv, ExecutionType, TransactionsOf
<1>2. OptionCounted(execution[p].options[o], existing, executed, CallsTransactions(p))
  BY <1>1, CountedAtEvery DEF CountedAt
<1>3. execution[p].options[o].executed = execution[p].options[o].count
  BY DEF AllExecuted
<1>4. /\ IsFiniteSet(existing) /\ Cardinality(existing) \in Nat /\ Cardinality(executed) \in Nat
      /\ executed \subseteq existing
  BY TransactionsFinite DEF Executed
<1>5. Cardinality(existing) <= Cardinality(executed)
  BY <1>2, <1>3 DEF OptionCounted
<1>6. executed = existing
  BY <1>4, <1>5, FS_Subset
<1>7. k \in existing
  BY DEF TransactionsOfOption
<1> QED
  BY <1>6, <1>7 DEF Executed, TransactionsOfOption

LEMMA ExecuteRefines ==
    ASSUME ExecutionInv, ExecutionInv', CountersTrue',
           NEW k \in DOMAIN transactions, ExecuteTransaction(k)
    PROVE  LifecycleStep
<1> USE DEF ExecutionInv
<1> DEFINE p == k[1]
           all == AllExecuted(execution'[p].options, proposal[p].winners)
           state == IF all THEN "Completed" ELSE "Executing"
<1>1. /\ p \in DOMAIN proposal /\ proposal[p].state \in {"Succeeded", "Executing"}
      /\ \A j \in Ran(k) :
             /\ j \in DOMAIN transactions /\ j[1] = p
             /\ transactions[j].executedAt = NotSet
  BY RanFacts
<1>2. RanTransactions(k) /\ Closed(p, state) /\ p \in Proposals /\ now # NotSet
  BY <1>1, ExecuteTransactions, ExecuteProposal DEF TypeInv, TypeOK, NotSet
<1>3. /\ DOMAIN transactions' = DOMAIN transactions
      /\ \A j \in DOMAIN transactions : j[1] # p => transactions'[j] = transactions[j]
  BY <1>1, <1>2 DEF RanTransactions
<1>4. Others(p) /\ TransactionsOf(p)' = TransactionsOf(p)
  BY <1>2, <1>3 DEF Others, TransactionsOf, Closed
<1>5. /\ Phase[p] \in {"Succeeded", "Executing"} /\ Phase'[p] = state
      /\ Plan'[p] = Plan[p]
  BY <1>1, <1>2, <1>4, ShownAlways DEF Shown, Closed
<1>6. Due'[p] = Due[p]
  <2>1. Due[p] = {j \in TransactionsOf(p) : j[2] \in proposal[p].winners}
    BY <1>1, <1>2, ShownAlways DEF Shown, PassedStates
  <2>2. Due'[p] = {j \in TransactionsOf(p)' : j[2] \in proposal'[p].winners}
    BY <1>2, ShownAlways DEF Shown, Closed, PassedStates
  <2>3. proposal'[p].winners = proposal[p].winners
    BY <1>2 DEF Closed
  <2> QED
    BY <1>4, <2>1, <2>2, <2>3
<1>7. Done[p] \subseteq Done'[p] /\ Done'[p] # Done[p]
  <2>1. Done[p] = Executed(TransactionsOf(p)) /\ Done'[p] = Executed(TransactionsOf(p))'
    BY <1>2, ShownAlways DEF Shown
  <2>2. Executed(TransactionsOf(p)) \subseteq Executed(TransactionsOf(p))'
    BY <1>2, <1>4 DEF RanTransactions, Executed, TransactionsOf
  <2>3. k \in Executed(TransactionsOf(p))' /\ k \notin Executed(TransactionsOf(p))
    BY <1>1, <1>2, <1>4 DEF RanTransactions, Executed, TransactionsOf, Ran
  <2> QED
    BY <2>1, <2>2, <2>3
<1>8. Done'[p] \subseteq Due'[p]
  BY <1>2, ShownAlways DEF Shown, ApprovedInv, Executed, TransactionsOf, PassedStates
<1>9. all => Done'[p] = Due'[p]
  <2>1. all => AllExecuted(execution'[p].options, proposal'[p].winners) /\ p \in DOMAIN proposal'
    BY <1>1, <1>2 DEF Closed
  <2>2. all => \A j \in TransactionsOf(p)' :
                   j[2] \in proposal'[p].winners => j \in Executed(TransactionsOf(p))'
    BY <2>1 DEF CountersTrue
  <2>3. /\ Done'[p] = Executed(TransactionsOf(p))'
        /\ \A j \in Due'[p] : j \in TransactionsOf(p)' /\ j[2] \in proposal'[p].winners
    BY <1>2, ShownAlways DEF Shown
  <2> HIDE DEF all
  <2> QED
    BY <1>8, <2>2, <2>3
<1>10. /\ UNCHANGED <<Plan, Due>>
       /\ Phase' = [Phase EXCEPT ![p] = Phase'[p]] /\ Done' = [Done EXCEPT ![p] = Done'[p]]
  BY <1>2, <1>4, <1>5, <1>6, SameShown, OthersShown
<1>11. Lifecycle!Execute(p)
  BY <1>5, <1>6, <1>7, <1>8, <1>9, <1>10 DEF Lifecycle!Execute, Lifecycle!Moves
<1> QED
  BY <1>2, <1>11 DEF Lifecycle!Next, LifecycleStep

LEMMA CompleteRefines ==
    ASSUME ExecutionInv, NEW p \in Proposals, CompleteProposal(p)
    PROVE  LifecycleStep
<1> USE DEF ExecutionInv
<1>1. /\ p \in DOMAIN proposal /\ proposal[p].state = "Succeeded"
      /\ Closed(p, "Completed") /\ UNCHANGED <<transactions, execution, effects>>
  BY CompleteEffect
<1>2. \A o \in DOMAIN proposal[p].weights : execution[p].options[o].count = 0
  BY DEF CompleteProposal
<1>3. TransactionsOf(p) = {}
  <2> SUFFICES ASSUME NEW k \in TransactionsOf(p) PROVE FALSE
    OBVIOUS
  <2>1. k[2] \in DOMAIN proposal[p].weights /\ k \in TransactionsOfOption(p, k[2])
    BY DEF AccountsInv, TransactionsOf, TransactionsOfOption
  <2>2. Cardinality(TransactionsOfOption(p, k[2])) = 0
    BY <1>1, <1>2, <2>1, CountedAtEvery DEF CountedAt, OptionCounted
  <2>3. TransactionsOfOption(p, k[2]) = {}
    BY <2>2, TransactionsFinite, FS_EmptySet
  <2> QED
    BY <2>1, <2>3
<1>4. Others(p) /\ TransactionsOf(p)' = TransactionsOf(p)
  BY <1>1 DEF Others, Closed, TransactionsOf
<1>5. Executed(TransactionsOf(p))' = Executed(TransactionsOf(p))
  BY <1>1 DEF Executed, TransactionsOf
<1>6. /\ Phase[p] = "Succeeded" /\ Phase'[p] = "Completed" /\ Plan[p] = {}
      /\ Plan'[p] = Plan[p] /\ Due'[p] = Due[p] /\ Done'[p] = Done[p]
  <2>1. Phase[p] = "Succeeded" /\ Phase'[p] = "Completed"
    BY <1>1, ShownAlways DEF Shown, Closed
  <2>2. Plan[p] = {} /\ Plan'[p] = {} /\ Due[p] = {} /\ Due'[p] = {}
    BY <1>3, <1>4, ShownAlways DEF Shown
  <2>3. Done'[p] = Done[p]
    BY <1>5, ShownAlways DEF Shown
  <2> QED
    BY <2>1, <2>2, <2>3
<1>7. UNCHANGED <<Plan, Due, Done>> /\ Phase' = [Phase EXCEPT ![p] = Phase'[p]]
  BY <1>4, <1>6, SameShown, OthersShown
<1>8. Lifecycle!Conclude(p)
  BY <1>6, <1>7 DEF Lifecycle!Conclude, Lifecycle!Moves
<1> QED
  BY <1>8 DEF Lifecycle!Next, LifecycleStep

LEMMA StepRefines ==
    ASSUME ExecutionInv, ExecutionInv', CountersTrue', [ExecutionNext]_allVars
    PROVE  LifecycleStep
<1>1. CASE GovernanceStep
  <2>1. /\ UNCHANGED <<config, transactions, effects>>
        /\ \/ UNCHANGED <<proposal, execution>>
           \/ \E p \in Proposals :
                  (Moves(p) /\ UNCHANGED execution) \/ ExecutionAppears(p)
    BY <1>1, GovernanceStepEffect DEF ExecutionInv
  <2>2. CASE UNCHANGED proposal
    BY <2>1, <2>2 DEF LifecycleStep, Phase, Plan, Due, Done, TransactionsOf, Executed
  <2>3. ASSUME NEW p \in Proposals, Moves(p) \/ Appears(p)
        PROVE  LifecycleStep
    BY <2>1, <2>3, MovesRefines, AppearsRefines
  <2> QED
    BY <2>1, <2>2, <2>3 DEF ExecutionAppears
<1>2. CASE UNCHANGED allVars
  BY <1>2 DEF allVars, transactionVars, vars, proposalVars, LifecycleStep, Phase, Plan, Due,
              Done, TransactionsOf, Executed
<1> QED
  BY <1>1, <1>2, InsertRefines, RemoveRefines, ExecuteRefines, CompleteRefines
     DEF ExecutionNext, TransactionStep

\* A proposal lives as ProposalLifecycle promises: what was voted on is what
\* was drafted, only what the vote approved is executed, and when a proposal
\* with transactions is completed they have all been executed.
THEOREM LifecycleImplemented == ExecutionSpec => LifecycleRefined
<1>1. ExecutionInit => Lifecycle!Init
  BY DEF ExecutionInit, Init, NoAccounts, Lifecycle!Init, Phase, Plan, Due, Done,
         TransactionsOf, Executed
<1>2. ExecutionInv /\ ExecutionInv' /\ CountersTrue' /\ [ExecutionNext]_allVars
          => [Lifecycle!Next]_(Lifecycle!lifecycle)
  BY StepRefines DEF LifecycleStep, Lifecycle!lifecycle
<1> QED
  BY <1>1, <1>2, CountersTellTruth, ExecutionInvariant, PTL DEF ExecutionSpec, LifecycleRefined, Lifecycle!Spec

=============================================================================
