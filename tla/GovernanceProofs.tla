---------------------------- MODULE GovernanceProofs ---------------------------
(***************************************************************************)
(* Theorems about Governance for every value of its constants: the types   *)
(* of the accounts, what no step does to a proposal that has been decided, *)
(* and what a vote needs to start.                                         *)
(***************************************************************************)
EXTENDS Governance, OperatorLemmas

-----------------------------------------------------------------------------
(* The inductive type invariant *)

\* An account that another one refers to exists, and fits it.
References ==
    /\ \A p \in DOMAIN proposal : proposal[p].owner \in DOMAIN tor
    /\ \A r \in voteRecords :
           /\ r.voter \in DOMAIN tor /\ r.proposal \in DOMAIN proposal
           /\ r.vote.kind = "Approve" =>
                  DOMAIN r.vote.choices = DOMAIN proposal[r.proposal].weights
    /\ DOMAIN proposalDeposit \subseteq DOMAIN proposal

\* Deposited tokens exist.
HoldingWithinSupply == \A mint \in Mints : holding[mint] <= supply[mint]

TypeInv == TypeOK /\ References /\ HoldingWithinSupply

-----------------------------------------------------------------------------
(* Lemmas about the data *)

LEMMA FunctionIsSeq ==
    ASSUME NEW S, NEW n \in Nat, NEW f \in [1..n -> S]
    PROVE  f \in Seq(S) /\ Len(f) = n
  BY SMT

LEMMA SeqIsFunction ==
    ASSUME NEW S, NEW s \in Seq(S)
    PROVE  Len(s) \in Nat /\ DOMAIN s = 1..Len(s) /\ s \in [DOMAIN s -> S]
  BY SMT

LEMMA ChoiceWeightType ==
    ASSUME NEW pct \in 0..100, NEW weight \in Nat
    PROVE  ChoiceWeight(pct, weight) \in Nat
<1>1. weight * pct \in Nat
  BY SMT
<1> QED
  BY <1>1 DEF ChoiceWeight

LEMMA DecreasedType ==
    ASSUME NEW count \in Nat
    PROVE  Decreased(count) \in Nat
  BY DEF Decreased, SaturatingSub

\* The fields of a token owner record that handlers write one at a time.
LEMMA RecordUpdate ==
    ASSUME NEW rec \in TokenOwnerRecordType, NEW n \in Nat, NEW locks \in SUBSET LockType
    PROVE  /\ [rec EXCEPT !.deposit = n] \in TokenOwnerRecordType
           /\ [rec EXCEPT !.unrelinquished = n] \in TokenOwnerRecordType
           /\ [rec EXCEPT !.outstanding = n] \in TokenOwnerRecordType
           /\ [rec EXCEPT !.locks = locks] \in TokenOwnerRecordType
  BY DEF TokenOwnerRecordType

TorType(t) == DOMAIN t \subseteq Members /\ \A m \in DOMAIN t : t[m] \in TokenOwnerRecordType

LEMMA TorUpdate ==
    ASSUME NEW t, TorType(t), NEW m \in DOMAIN t, NEW rec \in TokenOwnerRecordType
    PROVE  TorType([t EXCEPT ![m] = rec]) /\ DOMAIN [t EXCEPT ![m] = rec] = DOMAIN t
  BY DEF TorType

LEMMA TorCreation ==
    ASSUME NEW t, TorType(t), NEW m \in Members, NEW rec \in TokenOwnerRecordType
    PROVE  TorType(Created(t, m, rec)) /\ DOMAIN Created(t, m, rec) = DOMAIN t \cup {m}
  BY DEF TorType, Created

ProposalsType(ps) == DOMAIN ps \subseteq Proposals /\ \A p \in DOMAIN ps : ps[p] \in ProposalType

LEMMA ProposalUpdate ==
    ASSUME NEW ps, ProposalsType(ps), NEW p \in DOMAIN ps, NEW prop \in ProposalType
    PROVE  /\ ProposalsType([ps EXCEPT ![p] = prop])
           /\ DOMAIN [ps EXCEPT ![p] = prop] = DOMAIN ps
           /\ [ps EXCEPT ![p] = prop][p] = prop
           /\ \A q \in DOMAIN ps \ {p} : [ps EXCEPT ![p] = prop][q] = ps[q]
  BY DEF ProposalsType

\* A handler that changes one proposal keeps the references if the proposal
\* keeps its owner and the options it has.
SameShape(before, after) ==
    after.owner = before.owner /\ DOMAIN after.weights = DOMAIN before.weights

\* A vote and its decision leave who signed the proposal off alone.
SameSignatures(before, after) ==
    after.signatories = before.signatories /\ after.signedOff = before.signedOff

Fits(r) ==
    /\ r.voter \in DOMAIN tor /\ r.proposal \in DOMAIN proposal
    /\ r.vote.kind = "Approve" =>
           DOMAIN r.vote.choices = DOMAIN proposal[r.proposal].weights

LEMMA OneProposalChanges ==
    ASSUME TypeInv, NEW p \in DOMAIN proposal, NEW prop \in ProposalType,
           SameShape(proposal[p], prop), proposal' = [proposal EXCEPT ![p] = prop],
           DOMAIN tor' = DOMAIN tor, \A r \in voteRecords' : Fits(r),
           DOMAIN proposalDeposit' \subseteq DOMAIN proposal
    PROVE  ProposalsType(proposal') /\ References'
<1>1. /\ ProposalsType(proposal') /\ DOMAIN proposal' = DOMAIN proposal
      /\ proposal'[p] = prop
      /\ \A q \in DOMAIN proposal \ {p} : proposal'[q] = proposal[q]
  BY ProposalUpdate DEF TypeInv, TypeOK, ProposalsType
<1>2. \A q \in DOMAIN proposal : SameShape(proposal[q], proposal'[q])
  BY <1>1 DEF SameShape
<1> QED
  BY <1>1, <1>2 DEF TypeInv, References, Fits, SameShape

LEMMA RecordsFit == TypeInv => \A r \in voteRecords : Fits(r)
  BY DEF TypeInv, References, Fits

\* A vote that fits the proposal leaves a proposal.
LEMMA CountedType ==
    ASSUME NEW prop \in ProposalType, NEW vote \in VoteType, NEW weight \in Nat,
           NEW sign \in {1, -1},
           vote.kind = "Approve" => DOMAIN vote.choices = DOMAIN prop.weights,
           sign = -1 => HasCounted(prop, vote, weight)
    PROVE  /\ Counted(prop, vote, weight, sign) \in ProposalType
           /\ SameShape(prop, Counted(prop, vote, weight, sign))
           /\ SameSignatures(prop, Counted(prop, vote, weight, sign))
           /\ Counted(prop, vote, weight, sign).state = prop.state
<1> DEFINE counted == Counted(prop, vote, weight, sign)
           weights == [o \in DOMAIN prop.weights |->
                          IF vote.kind = "Approve"
                          THEN prop.weights[o] + sign * ChoiceWeight(vote.choices[o], weight)
                          ELSE prop.weights[o]]
           deny == IF vote.kind = "Deny" THEN prop.deny + sign * weight ELSE prop.deny
           veto == IF vote.kind = "Veto" THEN prop.veto + sign * weight ELSE prop.veto
<1>1. counted = [prop EXCEPT !.weights = weights, !.deny = deny, !.veto = veto]
  BY DEF Counted
<1>2. prop.deny \in Nat /\ prop.veto \in Nat /\ prop.weights \in Seq(Nat)
  BY DEF ProposalType
<1>3. /\ Len(prop.weights) \in Nat /\ DOMAIN prop.weights = 1..Len(prop.weights)
      /\ \A o \in DOMAIN prop.weights : prop.weights[o] \in Nat
  BY <1>2, SeqIsFunction
<1>4. ASSUME vote.kind = "Approve", NEW o \in DOMAIN prop.weights
      PROVE  ChoiceWeight(vote.choices[o], weight) \in Nat
  <2>1. vote.choices \in Seq(0..100)
    BY DEF VoteType
  <2>2. vote.choices \in [DOMAIN vote.choices -> 0..100]
    BY <2>1, SeqIsFunction
  <2>3. o \in DOMAIN vote.choices
    BY <1>4
  <2>4. vote.choices[o] \in 0..100
    BY <2>2, <2>3
  <2> QED
    BY <2>4, ChoiceWeightType
<1>5. /\ counted.weights = weights /\ counted.deny = deny /\ counted.veto = veto
      /\ counted.owner = prop.owner /\ counted.state = prop.state
      /\ counted.signatories = prop.signatories /\ counted.signedOff = prop.signedOff
  BY <1>1 DEF ProposalType
<1>6. /\ deny \in Nat /\ veto \in Nat /\ \A o \in DOMAIN prop.weights : weights[o] \in Nat
  <2>1. CASE sign = 1
    <3>1. sign * weight = weight
      BY <2>1
    <3>2. deny = prop.deny + weight \/ deny = prop.deny
      BY <3>1, Zenon
    <3>3. veto = prop.veto + weight \/ veto = prop.veto
      BY <3>1, Zenon
    <3>4. deny \in Nat /\ veto \in Nat
      <4> HIDE DEF deny, veto
      <4> QED
        BY <1>2, <3>2, <3>3
    <3>5. ASSUME NEW o \in DOMAIN prop.weights PROVE weights[o] \in Nat
      <4>1. CASE vote.kind = "Approve"
        <5>1. weights[o] = prop.weights[o] + ChoiceWeight(vote.choices[o], weight)
          BY <2>1, <4>1, <1>3, <1>4
        <5> QED
          BY <1>3, <1>4, <4>1, <5>1
      <4>2. CASE vote.kind # "Approve"
        BY <1>3, <4>2
      <4> QED
        BY <4>1, <4>2
    <3> QED
      BY <3>4, <3>5
  <2>2. CASE sign = -1
    <3>1. deny >= 0 /\ veto >= 0 /\ \A o \in DOMAIN prop.weights : weights[o] >= 0
      BY <1>5, <2>2 DEF HasCounted
    <3>2. deny \in Int /\ veto \in Int
      <4>1. sign * weight \in Int
        BY <2>2
      <4> QED
        BY <1>2, <4>1
    <3>3. ASSUME NEW o \in DOMAIN prop.weights PROVE weights[o] \in Int
      <4>1. CASE vote.kind = "Approve"
        <5>1. weights[o] = prop.weights[o] - ChoiceWeight(vote.choices[o], weight)
          BY <2>2, <4>1, <1>3, <1>4
        <5> QED
          BY <1>3, <1>4, <4>1, <5>1
      <4>2. CASE vote.kind # "Approve"
        BY <1>3, <4>2
      <4> QED
        BY <4>1, <4>2
    <3> HIDE DEF deny, veto, weights
    <3> QED
      BY <3>1, <3>2, <3>3
  <2> QED
    BY <2>1, <2>2
<1>7. weights \in Seq(Nat) /\ DOMAIN weights = DOMAIN prop.weights
  <2>1. weights \in [1..Len(prop.weights) -> Nat]
    BY <1>3, <1>6
  <2> QED
    BY <1>3, <2>1, FunctionIsSeq
<1> HIDE DEF weights, deny, veto
<1>8. counted \in ProposalType
  <2> HIDE DEF counted
  <2> QED
    BY <1>1, <1>6, <1>7 DEF ProposalType
<1> QED
  BY <1>5, <1>7, <1>8 DEF SameShape, SameSignatures

-----------------------------------------------------------------------------
(* Token owner records *)

LEMMA CreateTokenOwnerRecordType ==
    ASSUME TypeInv, NEW m \in Members, CreateTokenOwnerRecord(m)
    PROVE  TypeInv'
<1>1. NewTokenOwnerRecord(0) \in TokenOwnerRecordType
  BY DEF NewTokenOwnerRecord, TokenOwnerRecordType
<1>2. TorType(tor') /\ DOMAIN tor' = DOMAIN tor \cup {m}
  BY <1>1, TorCreation DEF CreateTokenOwnerRecord, TypeInv, TypeOK, TorType
<1>3. UNCHANGED <<now, realm, lockAuthorities, config, requiredSignatories, activeProposals,
                  supply, holding, proposal, voteRecords, proposalDeposit>>
  BY DEF CreateTokenOwnerRecord, realmVars, govVars, tokenVars, proposalVars
<1> QED
  BY <1>2, <1>3 DEF TypeInv, TypeOK, References, HoldingWithinSupply, TorType

LEMMA DepositGoverningTokensType ==
    ASSUME TypeInv, NEW m \in Members, NEW amount \in Amounts, NEW minted \in BOOLEAN,
           DepositGoverningTokens(m, amount, minted)
    PROVE  TypeInv'
<1>1. amount \in Nat /\ MintOf[m] \in Mints
  BY ConstantsAssumption
<1>2. TorType(tor') /\ DOMAIN tor' = DOMAIN tor \cup {m}
  <2>1. CASE m \in DOMAIN tor
    <3>1. tor[m] \in TokenOwnerRecordType /\ tor[m].deposit + amount \in Nat
      BY <1>1, <2>1 DEF TypeInv, TypeOK, TokenOwnerRecordType
    <3>2. tor' = [tor EXCEPT ![m] = [tor[m] EXCEPT !.deposit = tor[m].deposit + amount]]
      BY <2>1 DEF DepositGoverningTokens
    <3>3. TorType(tor') /\ DOMAIN tor' = DOMAIN tor
      BY <2>1, <3>1, <3>2, RecordUpdate, TorUpdate DEF TypeInv, TypeOK, TorType
    <3> QED
      BY <2>1, <3>3
  <2>2. CASE m \notin DOMAIN tor
    <3>1. NewTokenOwnerRecord(amount) \in TokenOwnerRecordType
      BY <1>1 DEF NewTokenOwnerRecord, TokenOwnerRecordType
    <3> QED
      BY <2>2, <3>1, TorCreation DEF DepositGoverningTokens, TypeInv, TypeOK, TorType
  <2> QED
    BY <2>1, <2>2
<1>3. /\ supply' \in [Mints -> Nat] /\ holding' \in [Mints -> Nat]
      /\ \A mint \in Mints : holding'[mint] <= supply'[mint]
  BY <1>1 DEF DepositGoverningTokens, Undeposited, TypeInv, TypeOK, HoldingWithinSupply
<1>4. UNCHANGED <<now, realm, lockAuthorities, config, requiredSignatories, activeProposals,
                  proposal, voteRecords, proposalDeposit>>
  BY DEF DepositGoverningTokens, realmVars, govVars, proposalVars
<1> QED
  BY <1>2, <1>3, <1>4 DEF TypeInv, TypeOK, References, HoldingWithinSupply, TorType

LEMMA WithdrawGoverningTokensType ==
    ASSUME TypeInv, NEW m \in Members, WithdrawGoverningTokens(m)
    PROVE  TypeInv'
<1>1. MintOf[m] \in Mints /\ m \in DOMAIN tor /\ tor[m] \in TokenOwnerRecordType
  BY ConstantsAssumption DEF WithdrawGoverningTokens, TypeInv, TypeOK
<1>2. TorType(tor') /\ DOMAIN tor' = DOMAIN tor
  <2>1. tor' = [tor EXCEPT ![m] = [tor[m] EXCEPT !.deposit = 0]]
    BY DEF WithdrawGoverningTokens
  <2> QED
    BY <1>1, <2>1, RecordUpdate, TorUpdate DEF TypeInv, TypeOK, TorType
<1>3. /\ holding' \in [Mints -> Nat]
      /\ \A mint \in Mints : holding'[mint] <= supply[mint]
  BY <1>1 DEF WithdrawGoverningTokens, TypeInv, TypeOK, HoldingWithinSupply, TokenOwnerRecordType
<1>4. UNCHANGED <<now, realm, lockAuthorities, config, requiredSignatories, activeProposals,
                  supply, proposal, voteRecords, proposalDeposit>>
  BY DEF WithdrawGoverningTokens, realmVars, govVars, proposalVars
<1> QED
  BY <1>2, <1>3, <1>4 DEF TypeInv, TypeOK, References, HoldingWithinSupply, TorType

LEMMA RevokeGoverningTokensType ==
    ASSUME TypeInv, NEW m \in Members, NEW amount \in Amounts, RevokeGoverningTokens(m, amount)
    PROVE  TypeInv'
<1>1. /\ MintOf[m] \in Mints /\ m \in DOMAIN tor /\ tor[m] \in TokenOwnerRecordType
      /\ amount \in Nat /\ tor[m].deposit - amount \in Nat
  BY ConstantsAssumption DEF RevokeGoverningTokens, TypeInv, TypeOK, TokenOwnerRecordType
<1>2. TorType(tor') /\ DOMAIN tor' = DOMAIN tor
  <2>1. tor' = [tor EXCEPT ![m] = [tor[m] EXCEPT !.deposit = tor[m].deposit - amount]]
    BY DEF RevokeGoverningTokens
  <2> QED
    BY <1>1, <2>1, RecordUpdate, TorUpdate DEF TypeInv, TypeOK, TorType
<1>3. /\ supply' \in [Mints -> Nat] /\ holding' \in [Mints -> Nat]
      /\ \A mint \in Mints : holding'[mint] <= supply'[mint]
  BY <1>1 DEF RevokeGoverningTokens, TypeInv, TypeOK, HoldingWithinSupply
<1>4. UNCHANGED <<now, realm, lockAuthorities, config, requiredSignatories, activeProposals,
                  proposal, voteRecords, proposalDeposit>>
  BY DEF RevokeGoverningTokens, realmVars, govVars, proposalVars
<1> QED
  BY <1>2, <1>3, <1>4 DEF TypeInv, TypeOK, References, HoldingWithinSupply, TorType

LEMMA SetTokenOwnerRecordLockType ==
    ASSUME TypeInv, NEW m \in Members, NEW a \in Authorities, NEW id \in LockIds,
           NEW expiry \in Nat, SetTokenOwnerRecordLock(m, a, id, expiry)
    PROVE  TypeInv'
<1> DEFINE new == [authority |-> a, id |-> id, expiry |-> expiry]
           locks == {lock \in UnexpiredLocks(m) : ~SameLock(lock, a, id)} \cup {new}
<1>1. m \in DOMAIN tor /\ tor[m] \in TokenOwnerRecordType
  BY DEF SetTokenOwnerRecordLock, TypeInv, TypeOK
<1>2. locks \in SUBSET LockType
  BY <1>1 DEF UnexpiredLocks, TokenOwnerRecordType, LockType
<1>3. TorType(tor') /\ DOMAIN tor' = DOMAIN tor
  <2>1. tor' = [tor EXCEPT ![m] = [tor[m] EXCEPT !.locks = locks]]
    BY DEF SetTokenOwnerRecordLock
  <2> HIDE DEF locks
  <2> QED
    BY <1>1, <1>2, <2>1, RecordUpdate, TorUpdate DEF TypeInv, TypeOK, TorType
<1>4. UNCHANGED <<now, realm, lockAuthorities, config, requiredSignatories, activeProposals,
                  supply, holding, proposal, voteRecords, proposalDeposit>>
  BY DEF SetTokenOwnerRecordLock, realmVars, govVars, tokenVars, proposalVars
<1> QED
  BY <1>3, <1>4 DEF TypeInv, TypeOK, References, HoldingWithinSupply, TorType

LEMMA RelinquishTokenOwnerRecordLocksType ==
    ASSUME TypeInv, NEW m \in Members, NEW a \in Authorities, NEW ids \in SUBSET LockIds,
           NEW signed \in BOOLEAN, RelinquishTokenOwnerRecordLocks(m, a, ids, signed)
    PROVE  TypeInv'
<1> DEFINE locks == {lock \in UnexpiredLocks(m) : ~\E id \in ids : SameLock(lock, a, id)}
<1>1. m \in DOMAIN tor /\ tor[m] \in TokenOwnerRecordType
  BY DEF RelinquishTokenOwnerRecordLocks, TypeInv, TypeOK
<1>2. locks \in SUBSET LockType
  BY <1>1 DEF UnexpiredLocks, TokenOwnerRecordType
<1>3. TorType(tor') /\ DOMAIN tor' = DOMAIN tor
  <2>1. tor' = [tor EXCEPT ![m] = [tor[m] EXCEPT !.locks = locks]]
    BY DEF RelinquishTokenOwnerRecordLocks
  <2> HIDE DEF locks
  <2> QED
    BY <1>1, <1>2, <2>1, RecordUpdate, TorUpdate DEF TypeInv, TypeOK, TorType
<1>4. UNCHANGED <<now, realm, lockAuthorities, config, requiredSignatories, activeProposals,
                  supply, holding, proposal, voteRecords, proposalDeposit>>
  BY DEF RelinquishTokenOwnerRecordLocks, realmVars, govVars, tokenVars, proposalVars
<1> QED
  BY <1>3, <1>4 DEF TypeInv, TypeOK, References, HoldingWithinSupply, TorType

LEMMA TokenStepType ==
    ASSUME TypeInv, TokenStep
    PROVE  TypeInv'
<1>1. ASSUME NEW mint \in Mints, NEW amount \in MintAmounts,
             MintTokens(mint, amount) \/ BurnTokens(mint, amount)
      PROVE  TypeInv'
  <2>1. /\ supply' \in [Mints -> Nat]
        /\ \A k \in Mints : holding[k] <= supply'[k]
    BY <1>1, ConstantsAssumption
       DEF MintTokens, BurnTokens, Undeposited, TypeInv, TypeOK, HoldingWithinSupply
  <2>2. UNCHANGED <<now, realm, lockAuthorities, config, requiredSignatories, activeProposals,
                    holding, tor, proposal, voteRecords, proposalDeposit>>
    BY <1>1 DEF MintTokens, BurnTokens, realmVars, govVars, proposalVars
  <2> QED
    BY <2>1, <2>2 DEF TypeInv, TypeOK, References, HoldingWithinSupply
<1>2. {NoExpiry} \cup 1..MAX_TIME \subseteq Nat
  BY ConstantsAssumption DEF NoExpiry
<1> QED
  BY <1>1, <1>2, CreateTokenOwnerRecordType, DepositGoverningTokensType,
     WithdrawGoverningTokensType, RevokeGoverningTokensType, SetTokenOwnerRecordLockType,
     RelinquishTokenOwnerRecordLocksType
     DEF TokenStep

-----------------------------------------------------------------------------
(* Proposals before their vote *)

\* The fields of a proposal that handlers write together.
LEMMA ProposalFieldsUpdate ==
    ASSUME NEW prop \in ProposalType, NEW state \in ProposalStates, NEW votingAt \in Nat,
           NEW S \in SUBSET Signatories
    PROVE  /\ [prop EXCEPT !.signatories = S] \in ProposalType
           /\ SameShape(prop, [prop EXCEPT !.signatories = S])
           /\ [prop EXCEPT !.signedOff = S, !.state = state, !.votingAt = votingAt] \in ProposalType
           /\ SameShape(prop, [prop EXCEPT !.signedOff = S, !.state = state,
                                           !.votingAt = votingAt])
           /\ [prop EXCEPT !.state = state, !.closed = TRUE] \in ProposalType
           /\ SameShape(prop, [prop EXCEPT !.state = state, !.closed = TRUE])
<1> DEFINE added == [prop EXCEPT !.signatories = S]
           signed == [prop EXCEPT !.signedOff = S, !.state = state, !.votingAt = votingAt]
           closed == [prop EXCEPT !.state = state, !.closed = TRUE]
<1>1. added \in ProposalType /\ SameShape(prop, added)
  BY DEF ProposalType, SameShape
<1>2. signed \in ProposalType /\ SameShape(prop, signed)
  BY DEF ProposalType, SameShape
<1>3. closed \in ProposalType /\ SameShape(prop, closed)
  BY DEF ProposalType, SameShape
<1> QED
  BY <1>1, <1>2, <1>3

\* What a handler that changes no record and no vote leaves to show.
LEMMA UnchangedTypes ==
    ASSUME TypeInv, UNCHANGED <<tor, activeProposals, voteRecords>>
    PROVE  TorType(tor') /\ activeProposals' \in Nat /\ voteRecords' \subseteq VoteRecordType
  BY DEF TypeInv, TypeOK, TorType

LEMMA UnchangedDeposits ==
    ASSUME TypeInv, UNCHANGED proposalDeposit
    PROVE  /\ DOMAIN proposalDeposit' \subseteq Proposals
           /\ \A p \in DOMAIN proposalDeposit' : proposalDeposit'[p] \in Nat \ {0}
  BY DEF TypeInv, TypeOK

\* What a handler of proposals leaves alone, and what is left to show of it.
LEMMA ProposalHandlerType ==
    ASSUME TypeInv, ProposalsType(proposal'), References', TorType(tor'),
           activeProposals' \in Nat, voteRecords' \subseteq VoteRecordType,
           DOMAIN proposalDeposit' \subseteq Proposals,
           \A p \in DOMAIN proposalDeposit' : proposalDeposit'[p] \in Nat \ {0},
           UNCHANGED <<now, realmVars, config, requiredSignatories, tokenVars>>
    PROVE  TypeInv'
  BY DEF TypeInv, TypeOK, HoldingWithinSupply, TorType, ProposalsType, realmVars, tokenVars

LEMMA CreateProposalType ==
    ASSUME TypeInv, NEW p \in Proposals, NEW m \in Members, NEW mint \in Mints,
           NEW ballot \in Ballots, CreateProposal(p, m, mint, ballot)
    PROVE  TypeInv'
<1>1. /\ ballot.options \in Nat /\ ballot.voteType \in VoteTypes /\ ballot.hasDeny \in BOOLEAN
  BY ConstantsAssumption
<1>2. NewProposal(m, mint, ballot) \in ProposalType
  <2> DEFINE weights == [o \in 1..ballot.options |-> 0]
  <2>1. weights \in Seq(Nat)
    BY <1>1, FunctionIsSeq, weights \in [1..ballot.options -> Nat]
  <2> HIDE DEF weights
  <2>2. NewProposal(m, mint, ballot) =
            [state |-> "Draft", mint |-> mint, owner |-> m,
             voteType |-> ballot.voteType, hasDeny |-> ballot.hasDeny,
             weights |-> weights, deny |-> 0, veto |-> 0, winners |-> {},
             signatories |-> {}, signedOff |-> {},
             votingAt |-> 0, votingCompletedAt |-> 0, closed |-> FALSE,
             maxVoteWeight |-> 0, voteThreshold |-> 0]
    BY DEF NewProposal, weights, NotSet, ThresholdDisabled
  <2> QED
    BY <1>1, <2>1, <2>2 DEF ProposalType, ProposalStates
<1>3. /\ p \notin DOMAIN proposal /\ proposal' = Created(proposal, p, NewProposal(m, mint, ballot))
      /\ m \in DOMAIN tor
  BY DEF CreateProposal
<1>4. /\ ProposalsType(proposal') /\ DOMAIN proposal' = DOMAIN proposal \cup {p}
      /\ proposal'[p].owner = m
      /\ \A q \in DOMAIN proposal : proposal'[q] = proposal[q]
  BY <1>2, <1>3 DEF TypeInv, TypeOK, ProposalsType, Created, NewProposal
<1>5. TorType(tor') /\ DOMAIN tor' = DOMAIN tor
  <2>1. tor' = [tor EXCEPT ![m] = [tor[m] EXCEPT !.outstanding = tor[m].outstanding + 1]]
    BY DEF CreateProposal
  <2>2. tor[m] \in TokenOwnerRecordType /\ tor[m].outstanding + 1 \in Nat
    BY <1>3 DEF TypeInv, TypeOK, TokenOwnerRecordType
  <2> QED
    BY <1>3, <2>1, <2>2, RecordUpdate, TorUpdate DEF TypeInv, TypeOK, TorType
<1>6. /\ activeProposals' \in Nat
      /\ DOMAIN proposalDeposit' \subseteq DOMAIN proposal'
      /\ \A q \in DOMAIN proposalDeposit' : proposalDeposit'[q] \in Nat \ {0}
  <2>1. activeProposals' = activeProposals + 1 /\ activeProposals \in Nat
    BY DEF CreateProposal, TypeInv, TypeOK
  <2> DEFINE amount == SaturatingSub(activeProposals', config.depositExempt)
  <2>2. amount \in Nat
    BY <2>1 DEF SaturatingSub, TypeInv, TypeOK, ConfigType
  <2>3. \/ amount > 0 /\ proposalDeposit' = Created(proposalDeposit, p, amount)
        \/ proposalDeposit' = proposalDeposit
    BY DEF CreateProposal
  <2>4. /\ DOMAIN proposalDeposit \subseteq DOMAIN proposal
        /\ \A q \in DOMAIN proposalDeposit : proposalDeposit[q] \in Nat \ {0}
    BY DEF TypeInv, TypeOK, References
  <2> HIDE DEF amount
  <2> QED
    BY <1>4, <2>1, <2>2, <2>3, <2>4 DEF Created
<1>7. UNCHANGED <<now, realmVars, config, requiredSignatories, tokenVars, voteRecords>>
  BY DEF CreateProposal
<1>8. References'
  BY <1>3, <1>4, <1>5, <1>6, <1>7 DEF TypeInv, References
<1> QED
  BY <1>4, <1>5, <1>6, <1>7, <1>8, ProposalHandlerType DEF TypeInv, TypeOK, ProposalsType

LEMMA AddSignatoryType ==
    ASSUME TypeInv, NEW p \in Proposals, NEW s \in Signatories, AddSignatory(p, s)
    PROVE  TypeInv'
<1> DEFINE prop == [proposal[p] EXCEPT !.signatories = proposal[p].signatories \cup {s}]
<1>1. p \in DOMAIN proposal /\ proposal' = [proposal EXCEPT ![p] = prop]
  BY DEF AddSignatory
<1>2. proposal[p] \in ProposalType
  BY <1>1 DEF TypeInv, TypeOK
<1>3. proposal[p].signatories \cup {s} \in SUBSET Signatories
  BY <1>2 DEF ProposalType
<1>4. prop \in ProposalType /\ SameShape(proposal[p], prop)
  BY <1>2, <1>3, ProposalFieldsUpdate DEF ProposalStates
<1>5. UNCHANGED <<now, realmVars, config, requiredSignatories, activeProposals, tokenVars,
                  tor, voteRecords, proposalDeposit>>
  BY DEF AddSignatory, govVars
<1> HIDE DEF prop
<1>6. ProposalsType(proposal') /\ References'
  BY <1>1, <1>4, <1>5, OneProposalChanges, RecordsFit DEF TypeInv, References
<1> QED
  BY <1>5, <1>6, UnchangedTypes, UnchangedDeposits, ProposalHandlerType

LEMMA SignOffProposalType ==
    ASSUME TypeInv, NEW p \in Proposals, NEW signing \in SUBSET Signatories,
           SignOffProposal(p, signing)
    PROVE  TypeInv'
<1> DEFINE signedOff == proposal[p].signedOff \cup signing
           starts == StartsVoting(signedOff, proposal[p].signatories)
           state == IF starts THEN "Voting" ELSE "SigningOff"
           votingAt == IF starts THEN now ELSE proposal[p].votingAt
           prop == [proposal[p] EXCEPT !.signedOff = signedOff, !.state = state,
                                       !.votingAt = votingAt]
<1>1. p \in DOMAIN proposal /\ proposal' = [proposal EXCEPT ![p] = prop]
  BY DEF SignOffProposal
<1>2. /\ signedOff \in SUBSET Signatories /\ state \in ProposalStates /\ votingAt \in Nat
  BY <1>1 DEF TypeInv, TypeOK, ProposalType, ProposalStates
<1>3. prop \in ProposalType /\ SameShape(proposal[p], prop)
  <2> HIDE DEF signedOff, state, votingAt
  <2> QED
    BY <1>1, <1>2, proposal[p] \in ProposalType, ProposalFieldsUpdate DEF TypeInv, TypeOK
<1>4. UNCHANGED <<now, realmVars, config, requiredSignatories, activeProposals, tokenVars,
                  tor, voteRecords, proposalDeposit>>
  BY DEF SignOffProposal, govVars
<1> HIDE DEF prop
<1>5. ProposalsType(proposal') /\ References'
  BY <1>1, <1>3, <1>4, OneProposalChanges, RecordsFit DEF TypeInv, References
<1> QED
  BY <1>4, <1>5, UnchangedTypes, UnchangedDeposits, ProposalHandlerType

\* decrease_outstanding_proposal_count of a proposal owner's record.
LEMMA OwnerRecordType ==
    ASSUME NEW t, TorType(t), NEW owner \in DOMAIN t
    PROVE  LET after == [t EXCEPT ![owner].outstanding = Decreased(@)]
           IN  TorType(after) /\ DOMAIN after = DOMAIN t
<1>1. t[owner] \in TokenOwnerRecordType /\ t[owner].outstanding \in Nat
  BY DEF TorType, TokenOwnerRecordType
<1>2. [t[owner] EXCEPT !.outstanding = Decreased(t[owner].outstanding)] \in TokenOwnerRecordType
  BY <1>1, RecordUpdate, DecreasedType
<1> QED
  BY <1>2, TorUpdate

LEMMA CancelProposalType ==
    ASSUME TypeInv, NEW p \in Proposals, CancelProposal(p)
    PROVE  TypeInv'
<1> DEFINE prop == [proposal[p] EXCEPT !.state = "Cancelled", !.closed = TRUE]
<1>1. p \in DOMAIN proposal /\ proposal' = [proposal EXCEPT ![p] = prop]
  BY DEF CancelProposal
<1>2. prop \in ProposalType /\ SameShape(proposal[p], prop)
  <2>1. proposal[p] \in ProposalType
    BY <1>1 DEF TypeInv, TypeOK
  <2> QED
    BY <2>1, ProposalFieldsUpdate DEF ProposalStates
<1>3. TorType(tor') /\ DOMAIN tor' = DOMAIN tor
  BY <1>1, OwnerRecordType DEF CancelProposal, TypeInv, TypeOK, TorType, References
<1>4. activeProposals' \in Nat
  BY DecreasedType DEF CancelProposal, TypeInv, TypeOK
<1>5. UNCHANGED <<now, realmVars, config, requiredSignatories, tokenVars, voteRecords,
                  proposalDeposit>>
  BY DEF CancelProposal
<1> HIDE DEF prop
<1>6. ProposalsType(proposal') /\ References'
  BY <1>1, <1>2, <1>3, <1>5, OneProposalChanges, RecordsFit DEF TypeInv, References
<1> QED
  BY <1>3, <1>4, <1>5, <1>6, ProposalHandlerType DEF TypeInv, TypeOK

LEMMA RefundProposalDepositType ==
    ASSUME TypeInv, NEW p \in Proposals, RefundProposalDeposit(p)
    PROVE  TypeInv'
<1>1. /\ UNCHANGED <<now, realmVars, config, requiredSignatories, activeProposals, tokenVars,
                     tor, proposal, voteRecords>>
      /\ DOMAIN proposalDeposit' \subseteq DOMAIN proposalDeposit
      /\ \A q \in DOMAIN proposalDeposit' : proposalDeposit'[q] = proposalDeposit[q]
  BY DEF RefundProposalDeposit, govVars
<1>2. References'
  BY <1>1 DEF TypeInv, References
<1>3. /\ ProposalsType(proposal')
      /\ DOMAIN proposalDeposit' \subseteq Proposals
      /\ \A q \in DOMAIN proposalDeposit' : proposalDeposit'[q] \in Nat \ {0}
  BY <1>1 DEF TypeInv, TypeOK, ProposalsType
<1> QED
  BY <1>1, <1>2, <1>3, UnchangedTypes, ProposalHandlerType

LEMMA ProposalStepType ==
    ASSUME TypeInv, ProposalStep
    PROVE  TypeInv'
<1>1. {{}} \cup {{s} : s \in Signatories} \subseteq SUBSET Signatories
  OBVIOUS
<1> QED
  BY <1>1, CreateProposalType, AddSignatoryType, SignOffProposalType, CancelProposalType,
     RefundProposalDepositType
     DEF ProposalStep

-----------------------------------------------------------------------------
(* The vote *)

LEMMA LargestType ==
    ASSUME NEW S \in SUBSET Nat
    PROVE  Largest(S) \subseteq Nat
  BY DEF Largest

LEMMA CoercedType ==
    ASSUME NEW weight \in Nat, NEW prop \in ProposalType, NEW kind
    PROVE  CoercedMaxVoterWeights(weight, prop, kind) \subseteq Nat
<1>1. prop.veto \in Nat /\ prop.deny \in Nat /\ prop.weights \in Seq(Nat)
  BY DEF ProposalType
<1>2. \A o \in DOMAIN prop.weights : prop.weights[o] + prop.deny \in Nat
  BY <1>1, SeqIsFunction
<1> DEFINE cast == IF kind = "Veto" THEN {prop.veto}
                   ELSE {prop.weights[o] + prop.deny : o \in DOMAIN prop.weights}
<1>3. {weight} \cup cast \in SUBSET Nat
  BY <1>1, <1>2
<1> HIDE DEF cast
<1>4. Largest({weight} \cup cast) \subseteq Nat
  BY <1>3, LargestType
<1> QED
  BY <1>4 DEF CoercedMaxVoterWeights, cast

LEMMA SourceWeightType ==
    ASSUME TypeInv, NEW mint \in Mints
    PROVE  SourceWeight(mint) \in Nat
<1>1. supply[mint] \in Nat /\ realm.maxWeightSource.value \in Nat
      /\ SUPPLY_FRACTION_BASE \in Nat \ {0}
  BY ConstantsAssumption DEF TypeInv, TypeOK, RealmType
<1>2. ASSUME NEW a \in Nat, NEW b \in Nat, NEW c \in Nat \ {0}
      PROVE  (a * b) \div c \in Nat
  <2>1. a * b \in Nat
    BY SMT
  <2> QED
    BY <2>1, SMT
<1> QED
  BY <1>1, <1>2 DEF SourceWeight

LEMMA MaxVoterWeightsType ==
    ASSUME TypeInv, NEW mint \in Mints, NEW prop \in ProposalType, NEW kind
    PROVE  MaxVoterWeights(mint, prop, kind) \subseteq Nat
<1>1. supply[mint] \in Nat
  BY DEF TypeInv, TypeOK
<1>2. \A w \in Nat : CoercedMaxVoterWeights(w, prop, kind) \subseteq Nat
  BY CoercedType
<1>3. AddinWeights \subseteq Nat
  BY ConstantsAssumption
<1> QED
  BY <1>1, <1>2, <1>3, SourceWeightType DEF MaxVoterWeights

LEMMA ThresholdType ==
    ASSUME TypeInv, NEW mint \in Mints, NEW kind
    PROVE  VoteThresholdOf(mint, kind) \in 0..100
  BY DEF VoteThresholdOf, TypeInv, TypeOK, ConfigType

LEMMA TippedStateType ==
    ASSUME NEW prop, NEW kind, NEW max, NEW pct, NEW tipping
    PROVE  TippedState(prop, kind, max, pct, tipping) \in DecidedStates \cup {"Voting"}
  BY DEF TippedState, TippedVetoState, TippedElectorateState, DecidedStates

LEMMA FinalVoteStateType ==
    ASSUME NEW voteType, NEW weights, NEW hasDeny, NEW deny, NEW thr
    PROVE  FinalVoteState(voteType, weights, hasDeny, deny, thr) \in DecidedStates
  BY DEF FinalVoteState, DecidedStates

LEMMA WinningOptionsType ==
    ASSUME NEW voteType, NEW weights \in Seq(Nat), NEW deny, NEW thr
    PROVE  WinningOptions(voteType, weights, deny, thr) \subseteq Nat
<1>1. DOMAIN weights \subseteq Nat
  BY SeqIsFunction
<1> QED
  BY <1>1 DEF WinningOptions, BestOptions, PassingOptions

\* The fields that the decision of a vote writes.
LEMMA DecisionUpdate ==
    ASSUME NEW prop \in ProposalType, NEW state \in ProposalStates, NEW winners \in SUBSET Nat,
           NEW at \in Nat, NEW max \in Nat, NEW pct \in 0..100
    PROVE  LET decided == [prop EXCEPT !.state = state, !.winners = winners,
                                       !.votingCompletedAt = at, !.maxVoteWeight = max,
                                       !.voteThreshold = pct]
           IN  /\ decided \in ProposalType /\ decided.state = state
               /\ SameShape(prop, decided) /\ SameSignatures(prop, decided)
<1> DEFINE decided == [prop EXCEPT !.state = state, !.winners = winners,
                                   !.votingCompletedAt = at, !.maxVoteWeight = max,
                                   !.voteThreshold = pct]
<1>1. decided \in ProposalType
  BY DEF ProposalType
<1>2. /\ decided.owner = prop.owner /\ decided.weights = prop.weights
      /\ decided.signatories = prop.signatories /\ decided.signedOff = prop.signedOff
      /\ decided.state = state
  BY DEF ProposalType
<1> QED
  BY <1>1, <1>2 DEF SameShape, SameSignatures

LEMMA VotesFit ==
    ASSUME TypeInv, NEW p \in DOMAIN proposal, NEW vote \in Votes(p)
    PROVE  /\ vote \in VoteType
           /\ vote.kind = "Approve" => DOMAIN vote.choices = DOMAIN proposal[p].weights
<1>1. CASE vote \in [kind : {"Deny", "Veto"}, choices : {<<>>}]
  <2>1. <<>> \in Seq(0..100)
    BY SMT
  <2> QED
    BY <1>1, <2>1 DEF VoteType
<1>2. CASE vote \in [kind : {"Approve"}, choices : [DOMAIN proposal[p].weights -> Percentages]]
  <2> DEFINE weights == proposal[p].weights
  <2>1. weights \in Seq(Nat)
    BY DEF TypeInv, TypeOK, ProposalType
  <2>2. Len(weights) \in Nat /\ DOMAIN weights = 1..Len(weights)
    BY <2>1, SeqIsFunction
  <2>3. vote.kind = "Approve" /\ vote.choices \in [1..Len(weights) -> Percentages]
    BY <1>2, <2>2
  <2>4. vote.choices \in [1..Len(weights) -> 0..100]
    BY <2>3, ConstantsAssumption
  <2>6. DOMAIN vote.choices = DOMAIN weights
    BY <2>2, <2>3
  <2> HIDE DEF weights
  <2>5. vote.choices \in Seq(0..100)
    BY <2>2, <2>4, FunctionIsSeq, Zenon
  <2>7. vote = [kind |-> "Approve", choices |-> vote.choices]
    BY <1>2
  <2> QED
    BY <2>5, <2>6, <2>7 DEF VoteType, weights
<1> QED
  BY <1>1, <1>2 DEF Votes

LEMMA VoterWeightsType ==
    ASSUME TypeInv, NEW m \in DOMAIN tor
    PROVE  VoterWeights(m) \subseteq Nat
<1>1. tor[m].deposit \in Nat
  BY DEF TypeInv, TypeOK, TokenOwnerRecordType
<1> QED
  BY <1>1, ConstantsAssumption DEF VoterWeights

\* What a handler of votes leaves alone, and what is left to show of it.
LEMMA VoteHandlerType ==
    ASSUME TypeInv, ProposalsType(proposal'), References', TorType(tor'),
           activeProposals' \in Nat, voteRecords' \subseteq VoteRecordType,
           UNCHANGED <<now, realmVars, config, requiredSignatories, tokenVars, proposalDeposit>>
    PROVE  TypeInv'
  BY UnchangedDeposits, ProposalHandlerType

NewVote(p, m, vote, weight) ==
    [proposal |-> p, voter |-> m, vote |-> vote, weight |-> weight, relinquished |-> FALSE]
Voted(m) == [tor EXCEPT ![m].unrelinquished = @ + 1]

\* A vote is counted on its proposal and on its voter's record.  A decision is
\* counted on the record of the proposal's owner and on the governance as well.
LEMMA CastVoteEffect ==
    ASSUME TypeInv, NEW p \in DOMAIN proposal, NEW m \in Members, NEW vote \in Votes(p),
           CastVote(p, m, vote)
    PROVE  \E weight \in Nat, new \in ProposalType :
              /\ voteRecords' = voteRecords \cup {NewVote(p, m, vote, weight)}
              /\ proposal' = [proposal EXCEPT ![p] = new]
              /\ SameShape(proposal[p], new) /\ SameSignatures(proposal[p], new)
              /\ \/ /\ new.state = "Voting"
                    /\ tor' = Voted(m) /\ activeProposals' = activeProposals
                 \/ /\ new.state \in DecidedStates
                    /\ tor' = DecidedRecords(proposal[p].owner, m, Voted(m))
                    /\ activeProposals' = Decreased(activeProposals)
<1> DEFINE kind == VoteKind(vote)
           pct == VoteThresholdOf(MintOf[m], kind)
           tipping == config.voteTipping[MintOf[m]]
<1>1. /\ m \in DOMAIN tor /\ MintOf[m] \in Mints
      /\ proposal[p] \in ProposalType /\ proposal[p].state = "Voting"
  BY ConstantsAssumption DEF CastVote, TypeInv, TypeOK
<1>2. PICK weight \in VoterWeights(m) :
        LET counted == Counted(proposal[p], vote, weight, 1)
        IN  /\ voteRecords' = voteRecords \cup {NewVote(p, m, vote, weight)}
            /\ \E max \in MaxVoterWeights(MintOf[m], counted, kind) :
                 LET state == TippedState(counted, kind, max, pct, tipping)
                 IN  IF state = "Voting"
                     THEN /\ proposal' = [proposal EXCEPT ![p] = counted]
                          /\ tor' = Voted(m)
                          /\ UNCHANGED activeProposals
                     ELSE /\ proposal' = [proposal EXCEPT ![p] =
                                [counted EXCEPT !.state = state,
                                    !.winners = IF state = "Succeeded" THEN {1} ELSE {},
                                    !.votingCompletedAt = now,
                                    !.maxVoteWeight = max,
                                    !.voteThreshold = pct]]
                          /\ tor' = DecidedRecords(proposal[p].owner, m, Voted(m))
                          /\ activeProposals' = Decreased(activeProposals)
  BY Zenon DEF CastVote, NewVote, Voted
<1> DEFINE counted == Counted(proposal[p], vote, weight, 1)
<1>3. weight \in Nat
  BY <1>1, VoterWeightsType
<1>4. /\ counted \in ProposalType /\ counted.state = "Voting"
      /\ SameShape(proposal[p], counted) /\ SameSignatures(proposal[p], counted)
  BY <1>1, <1>3, VotesFit, CountedType
<1>5. PICK max \in MaxVoterWeights(MintOf[m], counted, kind) :
        LET state == TippedState(counted, kind, max, pct, tipping)
        IN  IF state = "Voting"
            THEN /\ proposal' = [proposal EXCEPT ![p] = counted]
                 /\ tor' = Voted(m)
                 /\ UNCHANGED activeProposals
            ELSE /\ proposal' = [proposal EXCEPT ![p] =
                       [counted EXCEPT !.state = state,
                           !.winners = IF state = "Succeeded" THEN {1} ELSE {},
                           !.votingCompletedAt = now,
                           !.maxVoteWeight = max,
                           !.voteThreshold = pct]]
                 /\ tor' = DecidedRecords(proposal[p].owner, m, Voted(m))
                 /\ activeProposals' = Decreased(activeProposals)
  BY <1>2
<1> DEFINE state == TippedState(counted, kind, max, pct, tipping)
           winners == IF state = "Succeeded" THEN {1} ELSE {}
           decided == [counted EXCEPT !.state = state, !.winners = winners,
                                      !.votingCompletedAt = now, !.maxVoteWeight = max,
                                      !.voteThreshold = pct]
<1> HIDE DEF counted, pct, tipping, kind
<1>6. CASE state = "Voting"
  BY <1>2, <1>3, <1>4, <1>5, <1>6
<1>7. CASE state # "Voting"
  <2>1. /\ proposal' = [proposal EXCEPT ![p] = decided]
        /\ tor' = DecidedRecords(proposal[p].owner, m, Voted(m))
        /\ activeProposals' = Decreased(activeProposals)
    BY <1>5, <1>7
  <2>2. state \in DecidedStates /\ state \in ProposalStates
    BY <1>7, TippedStateType DEF DecidedStates, ProposalStates
  <2>3. /\ max \in Nat /\ pct \in 0..100 /\ now \in Nat /\ winners \in SUBSET Nat
    BY <1>1, <1>4, MaxVoterWeightsType, ThresholdType DEF TypeInv, TypeOK, pct
  <2> HIDE DEF state, winners
  <2>4. /\ decided \in ProposalType /\ decided.state = state
        /\ SameShape(counted, decided) /\ SameSignatures(counted, decided)
    BY <1>4, <2>2, <2>3, DecisionUpdate
  <2> HIDE DEF decided
  <2>5. SameShape(proposal[p], decided) /\ SameSignatures(proposal[p], decided)
    BY <1>4, <2>4 DEF SameShape, SameSignatures
  <2> QED
    BY <1>2, <1>3, <2>1, <2>2, <2>4, <2>5
<1> QED
  BY <1>6, <1>7

LEMMA VotedType ==
    ASSUME TypeInv, NEW m \in DOMAIN tor
    PROVE  TorType(Voted(m)) /\ DOMAIN Voted(m) = DOMAIN tor
<1> DEFINE rec == [tor[m] EXCEPT !.unrelinquished = tor[m].unrelinquished + 1]
<1>1. tor[m] \in TokenOwnerRecordType /\ tor[m].unrelinquished + 1 \in Nat
  BY DEF TypeInv, TypeOK, TokenOwnerRecordType
<1>2. Voted(m) = [tor EXCEPT ![m] = rec]
  BY DEF Voted
<1>3. rec \in TokenOwnerRecordType
  BY <1>1, RecordUpdate
<1>4. TorType(tor)
  BY DEF TypeInv, TypeOK, TorType
<1> HIDE DEF rec
<1>5. TorType([tor EXCEPT ![m] = rec]) /\ DOMAIN [tor EXCEPT ![m] = rec] = DOMAIN tor
  BY <1>3, <1>4, TorUpdate
<1> QED
  BY <1>2, <1>5

LEMMA CastVoteType ==
    ASSUME TypeInv, NEW p \in DOMAIN proposal, NEW m \in Members, NEW vote \in Votes(p),
           CastVote(p, m, vote)
    PROVE  TypeInv'
<1>1. m \in DOMAIN tor
  BY DEF CastVote
<1>2. PICK weight \in Nat, new \in ProposalType :
        /\ voteRecords' = voteRecords \cup {NewVote(p, m, vote, weight)}
        /\ proposal' = [proposal EXCEPT ![p] = new]
        /\ SameShape(proposal[p], new)
        /\ \/ tor' = Voted(m) /\ activeProposals' = activeProposals
           \/ /\ tor' = DecidedRecords(proposal[p].owner, m, Voted(m))
              /\ activeProposals' = Decreased(activeProposals)
  BY CastVoteEffect
<1>3. /\ voteRecords' \subseteq VoteRecordType
      /\ \A r \in voteRecords' : Fits(r)
  <2> DEFINE vr == NewVote(p, m, vote, weight)
  <2>1. p \in Proposals /\ voteRecords \subseteq VoteRecordType
    BY DEF TypeInv, TypeOK
  <2>2. vr \in VoteRecordType /\ Fits(vr)
    BY <1>1, <2>1, VotesFit DEF VoteRecordType, Fits, NewVote
  <2> HIDE DEF vr
  <2> QED
    BY <1>2, <2>1, <2>2, RecordsFit DEF vr
<1>4. /\ UNCHANGED <<now, realmVars, config, requiredSignatories, tokenVars, proposalDeposit>>
      /\ DOMAIN proposalDeposit' \subseteq DOMAIN proposal
  BY DEF CastVote, TypeInv, References
<1>5. TorType(tor') /\ DOMAIN tor' = DOMAIN tor
  BY <1>1, <1>2, VotedType, OwnerRecordType DEF DecidedRecords, TypeInv, References
<1>6. activeProposals' \in Nat
  BY <1>2, DecreasedType DEF TypeInv, TypeOK
<1>7. ProposalsType(proposal') /\ References'
  BY <1>2, <1>3, <1>4, <1>5, OneProposalChanges
<1> QED
  BY <1>3, <1>4, <1>5, <1>6, <1>7, VoteHandlerType

\* Both ways of relinquishing a vote.
LEMMA RelinquishesType ==
    ASSUME TypeInv, NEW r \in voteRecords, Relinquishes(r)
    PROVE  TorType(tor') /\ DOMAIN tor' = DOMAIN tor
<1> DEFINE m == r.voter
<1>1. m \in DOMAIN tor /\ tor[m].unrelinquished > 0
  BY DEF Relinquishes, TypeInv, References
<1>2. tor[m] \in TokenOwnerRecordType /\ tor[m].unrelinquished - 1 \in Nat
  BY <1>1 DEF TypeInv, TypeOK, TokenOwnerRecordType
<1>3. tor' = [tor EXCEPT ![m] = [tor[m] EXCEPT !.unrelinquished = tor[m].unrelinquished - 1]]
  BY DEF Relinquishes
<1> HIDE DEF m
<1> QED
  BY <1>1, <1>2, <1>3, RecordUpdate, TorUpdate DEF TypeInv, TypeOK, TorType

LEMMA WithdrawVoteType ==
    ASSUME TypeInv, NEW r \in voteRecords, WithdrawVote(r)
    PROVE  TypeInv'
<1> DEFINE p == r.proposal
           counted == Counted(proposal[p], r.vote, r.weight, -1)
<1>1. /\ p \in DOMAIN proposal /\ proposal[p] \in ProposalType
      /\ r.vote \in VoteType /\ r.weight \in Nat
      /\ r.vote.kind = "Approve" => DOMAIN r.vote.choices = DOMAIN proposal[p].weights
  BY DEF TypeInv, TypeOK, References, VoteRecordType
<1>2. /\ Relinquishes(r) /\ HasCounted(proposal[p], r.vote, r.weight)
      /\ proposal' = [proposal EXCEPT ![p] = counted]
      /\ voteRecords' \subseteq voteRecords
      /\ UNCHANGED <<now, realmVars, config, requiredSignatories, activeProposals,
                     tokenVars, proposalDeposit>>
  BY DEF WithdrawVote, Relinquishes, govVars
<1> HIDE DEF p
<1>3. counted \in ProposalType /\ SameShape(proposal[p], counted)
  BY <1>1, <1>2, CountedType
<1> HIDE DEF counted
<1>4. /\ TorType(tor') /\ DOMAIN tor' = DOMAIN tor
      /\ voteRecords' \subseteq VoteRecordType /\ activeProposals' \in Nat
      /\ \A s \in voteRecords' : Fits(s)
      /\ DOMAIN proposalDeposit' \subseteq DOMAIN proposal
  BY <1>2, RelinquishesType, RecordsFit DEF TypeInv, TypeOK, References
<1> QED
  BY <1>1, <1>2, <1>3, <1>4, OneProposalChanges, VoteHandlerType

LEMMA PruneVoteType ==
    ASSUME TypeInv, NEW r \in voteRecords, PruneVote(r)
    PROVE  TypeInv'
<1> DEFINE pruned == [r EXCEPT !.relinquished = TRUE]
<1>1. /\ Relinquishes(r) /\ voteRecords' = (voteRecords \ {r}) \cup {pruned}
      /\ UNCHANGED <<now, realmVars, config, requiredSignatories, activeProposals,
                     tokenVars, proposal, proposalDeposit>>
  BY DEF PruneVote, Relinquishes, govVars
<1>2. voteRecords \subseteq VoteRecordType /\ Fits(r)
  BY RecordsFit DEF TypeInv, TypeOK
<1>3. /\ pruned \in VoteRecordType
      /\ pruned.voter = r.voter /\ pruned.proposal = r.proposal /\ pruned.vote = r.vote
  BY <1>2 DEF VoteRecordType
<1> HIDE DEF pruned
<1>4. Fits(pruned)
  BY <1>2, <1>3 DEF Fits
<1>5. voteRecords' \subseteq VoteRecordType /\ \A s \in voteRecords' : Fits(s)
  BY <1>1, <1>2, <1>3, <1>4, RecordsFit
<1>6. TorType(tor') /\ DOMAIN tor' = DOMAIN tor
  BY <1>1, RelinquishesType
<1>7. References'
  BY <1>1, <1>5, <1>6 DEF TypeInv, References, Fits
<1>8. ProposalsType(proposal') /\ activeProposals' \in Nat
  BY <1>1 DEF TypeInv, TypeOK, ProposalsType
<1> QED
  BY <1>1, <1>5, <1>6, <1>7, <1>8, VoteHandlerType

\* Finalizing decides the proposal; the owner's record and the governance have
\* one outstanding proposal less.
LEMMA FinalizeVoteEffect ==
    ASSUME TypeInv, NEW p \in Proposals, FinalizeVote(p)
    PROVE  /\ p \in DOMAIN proposal
           /\ \E new \in ProposalType :
                 /\ proposal' = [proposal EXCEPT ![p] = new]
                 /\ SameShape(proposal[p], new) /\ SameSignatures(proposal[p], new)
                 /\ new.state \in DecidedStates
<1> DEFINE prop == proposal[p]
           pct == VoteThresholdOf(prop.mint, "Electorate")
<1>1. p \in DOMAIN proposal /\ prop \in ProposalType
  BY DEF FinalizeVote, TypeInv, TypeOK
<1>2. PICK max \in MaxVoterWeights(prop.mint, prop, "Electorate") :
        LET thr == MinVoteThresholdWeight(pct, max)
        IN  proposal' = [proposal EXCEPT
                ![p].state = FinalVoteState(prop.voteType, prop.weights,
                                            prop.hasDeny, prop.deny, thr),
                ![p].winners = WinningOptions(prop.voteType, prop.weights,
                                              prop.deny, thr),
                ![p].votingCompletedAt = VotingMaxTimeEnd(p),
                ![p].maxVoteWeight = max,
                ![p].voteThreshold = pct]
  BY DEF FinalizeVote
<1> DEFINE thr == MinVoteThresholdWeight(pct, max)
           state == FinalVoteState(prop.voteType, prop.weights, prop.hasDeny, prop.deny, thr)
           winners == WinningOptions(prop.voteType, prop.weights, prop.deny, thr)
           at == VotingMaxTimeEnd(p)
           decided == [prop EXCEPT !.state = state, !.winners = winners,
                                   !.votingCompletedAt = at, !.maxVoteWeight = max,
                                   !.voteThreshold = pct]
<1>3. proposal' = [proposal EXCEPT ![p] = decided]
  BY <1>2
<1>4. /\ prop.mint \in Mints /\ prop.weights \in Seq(Nat) /\ prop.votingAt \in Nat
  BY <1>1 DEF ProposalType
<1>5. max \in Nat /\ pct \in 0..100
  BY <1>1, <1>4, MaxVoterWeightsType, ThresholdType
<1>6. at \in Nat
  BY <1>4 DEF VotingMaxTimeEnd, VotingBaseTimeEnd, TypeInv, TypeOK, ConfigType
<1>7. state \in DecidedStates /\ state \in ProposalStates /\ winners \in SUBSET Nat
  BY <1>4, FinalVoteStateType, WinningOptionsType DEF DecidedStates, ProposalStates
<1>8. /\ decided \in ProposalType /\ decided.state = state
      /\ SameShape(prop, decided) /\ SameSignatures(prop, decided)
  <2> HIDE DEF prop, pct, thr, state, winners, at
  <2> QED
    BY <1>1, <1>5, <1>6, <1>7, DecisionUpdate
<1> HIDE DEF decided, state
<1> QED
  BY <1>1, <1>3, <1>7, <1>8

LEMMA FinalizeVoteType ==
    ASSUME TypeInv, NEW p \in Proposals, FinalizeVote(p)
    PROVE  TypeInv'
<1>1. /\ TorType(tor') /\ DOMAIN tor' = DOMAIN tor
      /\ activeProposals' \in Nat
      /\ UNCHANGED <<now, realmVars, config, requiredSignatories, tokenVars,
                     voteRecords, proposalDeposit>>
  <2>1. /\ p \in DOMAIN proposal
        /\ tor' = [tor EXCEPT ![proposal[p].owner].outstanding = Decreased(@)]
        /\ activeProposals' = Decreased(activeProposals)
        /\ UNCHANGED <<now, realmVars, config, requiredSignatories, tokenVars,
                       voteRecords, proposalDeposit>>
    BY DEF FinalizeVote
  <2>2. TorType(tor) /\ proposal[p].owner \in DOMAIN tor /\ activeProposals \in Nat
    BY <2>1 DEF TypeInv, TypeOK, TorType, References
  <2>3. TorType(tor') /\ DOMAIN tor' = DOMAIN tor
    BY <2>1, <2>2, OwnerRecordType
  <2>4. activeProposals' \in Nat
    BY <2>1, <2>2, DecreasedType
  <2> QED
    BY <2>1, <2>3, <2>4
<1>2. ProposalsType(proposal') /\ References'
  BY <1>1, FinalizeVoteEffect, OneProposalChanges, RecordsFit DEF TypeInv, References
<1> QED
  BY <1>1, <1>2, VoteHandlerType DEF TypeInv, TypeOK

LEMMA VoteStepType ==
    ASSUME TypeInv, VoteStep
    PROVE  TypeInv'
  BY CastVoteType, WithdrawVoteType, PruneVoteType, FinalizeVoteType DEF VoteStep

-----------------------------------------------------------------------------
(* Configuration, and the theorem *)

LEMMA ConfigurationStepType ==
    ASSUME TypeInv, ConfigurationStep
    PROVE  TypeInv'
<1> USE DEF TypeInv, TypeOK, References, HoldingWithinSupply,
            realmVars, govVars, tokenVars, proposalVars
<1>1. CASE Tick
  BY <1>1, ConstantsAssumption DEF Tick
<1>2. CASE \E c \in Configs \ {config} : SetGovernanceConfig(c)
  BY <1>2, ConstantsAssumption DEF SetGovernanceConfig
<1>3. CASE \E r \in Realms \ {realm} : SetRealmConfig(r)
  BY <1>3, ConstantsAssumption DEF SetRealmConfig
<1>4. CASE \E mint \in Mints, a \in Authorities :
              AddLockAuthority(mint, a) \/ RemoveLockAuthority(mint, a)
  BY <1>4 DEF AddLockAuthority, RemoveLockAuthority
<1>5. CASE \E s \in Signatories : AddRequiredSignatory(s) \/ RemoveRequiredSignatory(s)
  BY <1>5 DEF AddRequiredSignatory, RemoveRequiredSignatory
<1> QED
  BY <1>1, <1>2, <1>3, <1>4, <1>5 DEF ConfigurationStep

LEMMA InitType == Init => TypeInv
  BY ConstantsAssumption
     DEF Init, TypeInv, TypeOK, References, HoldingWithinSupply, NoAccounts

LEMMA NextType ==
    ASSUME TypeInv, [Next]_vars
    PROVE  TypeInv'
<1>1. CASE UNCHANGED vars
  BY <1>1 DEF TypeInv, TypeOK, References, HoldingWithinSupply,
              vars, realmVars, govVars, tokenVars, proposalVars
<1> QED
  BY <1>1, ConfigurationStepType, TokenStepType, ProposalStepType, VoteStepType DEF Next

\* Every account keeps its type, the accounts it refers to exist, and what is
\* deposited has been minted: no handler leaves a dangling vote record, takes a
\* tally or a counter below zero or a percentage out of its range.
THEOREM TypeCorrect == Spec => [](TypeOK /\ References /\ HoldingWithinSupply)
<1>1. Init => TypeInv
  BY InitType
<1>2. TypeInv /\ [Next]_vars => TypeInv'
  BY NextType
<1>3. TypeInv => TypeOK /\ References /\ HoldingWithinSupply
  BY DEF TypeInv
<1> QED
  BY <1>1, <1>2, <1>3, PTL DEF Spec

-----------------------------------------------------------------------------
(* A decision is final *)

Frozen ==
    \A p \in DOMAIN proposal :
        proposal[p].state \notin ActiveStates => proposal'[p] = proposal[p]

\* A handler that changes one proposal finds it active.
LEMMA ActiveProposalChanges ==
    ASSUME NEW p, p \in DOMAIN proposal => proposal[p].state \in ActiveStates,
           NEW new, proposal' = [proposal EXCEPT ![p] = new]
    PROVE  Frozen
  BY DEF Frozen

LEMMA ProposalStepFrozen == ProposalStep => Frozen
<1> SUFFICES ASSUME NEW p \in Proposals,
                    \/ \E m \in Members, mint \in Mints, ballot \in Ballots :
                           CreateProposal(p, m, mint, ballot)
                    \/ \E s \in Signatories : AddSignatory(p, s)
                    \/ \E signing \in {{}} \cup {{s} : s \in Signatories} :
                           now <= LAST_START /\ SignOffProposal(p, signing)
                    \/ CancelProposal(p)
                    \/ RefundProposalDeposit(p)
             PROVE  Frozen
  BY DEF ProposalStep
<1>1. ASSUME NEW m \in Members, NEW mint \in Mints, NEW ballot \in Ballots,
             CreateProposal(p, m, mint, ballot)
      PROVE  Frozen
  BY <1>1 DEF CreateProposal, Created, Frozen
<1>2. ASSUME NEW s \in Signatories, AddSignatory(p, s)
      PROVE  Frozen
  BY <1>2, ActiveProposalChanges DEF AddSignatory, ActiveStates
<1>3. ASSUME NEW signing, SignOffProposal(p, signing)
      PROVE  Frozen
  <2>1. proposal[p].state \in ActiveStates
    BY <1>3 DEF SignOffProposal, CanSignOff, ActiveStates
  <2>2. \E new : proposal' = [proposal EXCEPT ![p] = new]
    BY <1>3 DEF SignOffProposal
  <2> QED
    BY <2>1, <2>2, ActiveProposalChanges
<1>4. CASE CancelProposal(p)
  <2>1. proposal[p].state \in ActiveStates
    BY <1>4 DEF CancelProposal, CanCancel, ActiveStates
  <2>2. \E new : proposal' = [proposal EXCEPT ![p] = new]
    BY <1>4 DEF CancelProposal
  <2> QED
    BY <2>1, <2>2, ActiveProposalChanges
<1>5. CASE RefundProposalDeposit(p)
  BY <1>5 DEF RefundProposalDeposit, Frozen
<1> QED
  BY <1>1, <1>2, <1>3, <1>4, <1>5

LEMMA VoteStepFrozen ==
    ASSUME TypeInv, VoteStep
    PROVE  Frozen
<1>1. ASSUME NEW p \in DOMAIN proposal, NEW m \in Members, NEW vote \in Votes(p),
             CastVote(p, m, vote)
      PROVE  Frozen
  <2>1. proposal[p].state \in ActiveStates
    BY <1>1 DEF CastVote, ActiveStates
  <2>2. \E new : proposal' = [proposal EXCEPT ![p] = new]
    BY <1>1, CastVoteEffect
  <2> QED
    BY <2>1, <2>2, ActiveProposalChanges
<1>2. ASSUME NEW r \in voteRecords, WithdrawVote(r)
      PROVE  Frozen
  <2>1. proposal[r.proposal].state \in ActiveStates
    BY <1>2 DEF WithdrawVote, ActiveStates
  <2>2. \E new : proposal' = [proposal EXCEPT ![r.proposal] = new]
    BY <1>2 DEF WithdrawVote
  <2> QED
    BY <2>1, <2>2, ActiveProposalChanges
<1>3. ASSUME NEW r \in voteRecords, PruneVote(r)
      PROVE  Frozen
  BY <1>3 DEF PruneVote, Frozen
<1>4. ASSUME NEW p \in Proposals, FinalizeVote(p)
      PROVE  Frozen
  <2>1. proposal[p].state \in ActiveStates
    BY <1>4 DEF FinalizeVote, ActiveStates
  <2>2. \E new : proposal' = [proposal EXCEPT ![p] = new]
    BY <1>4, FinalizeVoteEffect
  <2> QED
    BY <2>1, <2>2, ActiveProposalChanges
<1> QED
  BY <1>1, <1>2, <1>3, <1>4 DEF VoteStep

\* Neither the configuration nor the tokens touch a proposal.
LEMMA OtherStepsKeepProposals ==
    ASSUME ConfigurationStep \/ TokenStep
    PROVE  UNCHANGED proposalVars
<1>1. CASE ConfigurationStep
  BY <1>1 DEF ConfigurationStep, Tick, SetGovernanceConfig, SetRealmConfig, AddLockAuthority,
              RemoveLockAuthority, AddRequiredSignatory, RemoveRequiredSignatory
<1>2. CASE \E mint \in Mints, amount \in MintAmounts :
               MintTokens(mint, amount) \/ BurnTokens(mint, amount)
  BY <1>2 DEF MintTokens, BurnTokens
<1>3. ASSUME NEW m \in Members,
             \/ CreateTokenOwnerRecord(m)
             \/ \E amount \in Amounts, minted \in BOOLEAN :
                    DepositGoverningTokens(m, amount, minted)
             \/ WithdrawGoverningTokens(m)
             \/ \E amount \in Amounts : RevokeGoverningTokens(m, amount)
      PROVE  UNCHANGED proposalVars
  BY <1>3 DEF CreateTokenOwnerRecord, DepositGoverningTokens, WithdrawGoverningTokens,
              RevokeGoverningTokens
<1>4. ASSUME NEW m \in Members,
             \/ \E a \in Authorities, id \in LockIds, expiry \in {NoExpiry} \cup 1..MAX_TIME :
                    SetTokenOwnerRecordLock(m, a, id, expiry)
             \/ \E a \in Authorities, ids \in SUBSET LockIds, signed \in BOOLEAN :
                    RelinquishTokenOwnerRecordLocks(m, a, ids, signed)
      PROVE  UNCHANGED proposalVars
  BY <1>4 DEF SetTokenOwnerRecordLock, RelinquishTokenOwnerRecordLocks
<1> QED
  BY <1>1, <1>2, <1>3, <1>4, Zenon DEF TokenStep

\* Whatever is voted, relinquished, cancelled, configured, minted or revoked
\* after a proposal has been decided leaves its outcome and tally as they are.
THEOREM DecisionFrozenAlways == Spec => DecisionFrozen
<1>1. TypeInv /\ [Next]_vars => Frozen
  <2> SUFFICES ASSUME TypeInv, [Next]_vars PROVE Frozen
    OBVIOUS
  <2>1. CASE UNCHANGED proposalVars
    BY <2>1 DEF proposalVars, Frozen
  <2>2. UNCHANGED vars => UNCHANGED proposalVars
    BY DEF vars
  <2> QED
    BY <2>1, <2>2, OtherStepsKeepProposals, ProposalStepFrozen, VoteStepFrozen DEF Next
<1>2. DecisionFrozen <=> [][Frozen]_vars
  BY PTL DEF DecisionFrozen, Frozen
<1>3. Init => TypeInv
  BY InitType
<1>4. TypeInv /\ [Next]_vars => TypeInv'
  BY NextType
<1> QED
  BY <1>1, <1>2, <1>3, <1>4, PTL DEF Spec

-----------------------------------------------------------------------------
(* A vote needs all signatures *)

\* Only signatories have signed off, and all of them once the vote has started.
SignedOff(prop) ==
    /\ prop.signedOff \subseteq prop.signatories
    /\ prop.state \in DecidedStates \cup {"Voting"} => prop.signedOff = prop.signatories

SignaturesInv == \A p \in DOMAIN proposal : SignedOff(proposal[p])

\* A handler writes a proposal that is properly signed off.
LEMMA SignedProposalChanges ==
    ASSUME SignaturesInv, NEW p, NEW new, SignedOff(new),
           proposal' = [proposal EXCEPT ![p] = new]
    PROVE  SignaturesInv'
  BY DEF SignaturesInv, SignedOff

\* A vote, tipped or not, leaves the signatures of a proposal alone.
LEMMA VotedSigned ==
    ASSUME NEW p \in DOMAIN proposal, proposal[p].state = "Voting", SignaturesInv,
           NEW new, SameSignatures(proposal[p], new)
    PROVE  SignedOff(new)
  BY DEF SignaturesInv, SignedOff, SameSignatures

LEMMA ProposalStepSigned ==
    ASSUME TypeInv, SignaturesInv, ProposalStep
    PROVE  SignaturesInv'
<1> SUFFICES ASSUME NEW p \in Proposals,
                    \/ \E m \in Members, mint \in Mints, ballot \in Ballots :
                           CreateProposal(p, m, mint, ballot)
                    \/ \E s \in Signatories : AddSignatory(p, s)
                    \/ \E signing \in {{}} \cup {{s} : s \in Signatories} :
                           now <= LAST_START /\ SignOffProposal(p, signing)
                    \/ CancelProposal(p)
                    \/ RefundProposalDeposit(p)
             PROVE  SignaturesInv'
  BY DEF ProposalStep
<1> DEFINE prop == proposal[p]
<1>1. ASSUME NEW m \in Members, NEW mint \in Mints, NEW ballot \in Ballots,
             CreateProposal(p, m, mint, ballot)
      PROVE  SignaturesInv'
  <2>1. SignedOff(NewProposal(m, mint, ballot))
    BY DEF NewProposal, SignedOff, DecidedStates
  <2>2. proposal' = Created(proposal, p, NewProposal(m, mint, ballot))
    BY <1>1 DEF CreateProposal
  <2> QED
    BY <2>1, <2>2 DEF Created, SignaturesInv, SignedOff
<1>2. ASSUME NEW s \in Signatories, AddSignatory(p, s)
      PROVE  SignaturesInv'
  <2> DEFINE new == [prop EXCEPT !.signatories = prop.signatories \cup {s}]
  <2>1. /\ proposal' = [proposal EXCEPT ![p] = new]
        /\ prop \in ProposalType /\ prop.state = "Draft" /\ SignedOff(prop)
    BY <1>2 DEF AddSignatory, TypeInv, TypeOK, SignaturesInv
  <2>2. /\ new.signedOff = prop.signedOff /\ new.state = prop.state
        /\ new.signatories = prop.signatories \cup {s}
    BY <2>1 DEF ProposalType
  <2> HIDE DEF new
  <2>3. SignedOff(new)
    BY <2>1, <2>2 DEF SignedOff, DecidedStates
  <2> QED
    BY <2>1, <2>3, SignedProposalChanges
<1>3. ASSUME NEW signing, SignOffProposal(p, signing)
      PROVE  SignaturesInv'
  <2> DEFINE signedOff == prop.signedOff \cup signing
             starts == StartsVoting(signedOff, prop.signatories)
             state == IF starts THEN "Voting" ELSE "SigningOff"
             votingAt == IF starts THEN now ELSE prop.votingAt
             new == [prop EXCEPT !.signedOff = signedOff, !.state = state,
                                 !.votingAt = votingAt]
  <2>1. proposal' = [proposal EXCEPT ![p] = new] /\ p \in DOMAIN proposal
    BY <1>3 DEF SignOffProposal
  <2>2. prop \in ProposalType /\ SignedOff(prop)
    BY <2>1 DEF TypeInv, TypeOK, SignaturesInv
  <2>3. signedOff \subseteq prop.signatories
    BY <1>3, <2>2 DEF SignOffProposal, SigningSignatories, SignedOff
  <2>4. IsFiniteSet(prop.signatories)
    BY <2>2, ConstantsAssumption, FS_Subset DEF ProposalType
  <2>5. starts => signedOff = prop.signatories
    BY <2>3, <2>4, FS_Subset DEF StartsVoting
  <2>6. new.signedOff = signedOff /\ new.state = state /\ new.signatories = prop.signatories
    BY <2>2 DEF ProposalType
  <2> HIDE DEF new, signedOff, starts
  <2>7. SignedOff(new)
    BY <2>3, <2>5, <2>6 DEF SignedOff, DecidedStates
  <2> QED
    BY <2>1, <2>7, SignedProposalChanges
<1>4. CASE CancelProposal(p)
  <2> DEFINE new == [prop EXCEPT !.state = "Cancelled", !.closed = TRUE]
  <2>1. /\ proposal' = [proposal EXCEPT ![p] = new]
        /\ prop \in ProposalType /\ SignedOff(prop)
    BY <1>4 DEF CancelProposal, TypeInv, TypeOK, SignaturesInv
  <2>2. /\ new.signedOff = prop.signedOff /\ new.signatories = prop.signatories
        /\ new.state = "Cancelled"
    BY <2>1 DEF ProposalType
  <2> HIDE DEF new
  <2>3. SignedOff(new)
    BY <2>1, <2>2 DEF SignedOff, DecidedStates
  <2> QED
    BY <2>1, <2>3, SignedProposalChanges
<1>5. CASE RefundProposalDeposit(p)
  BY <1>5 DEF RefundProposalDeposit, SignaturesInv
<1> QED
  BY <1>1, <1>2, <1>3, <1>4, <1>5

LEMMA VoteStepSigned ==
    ASSUME TypeInv, SignaturesInv, VoteStep
    PROVE  SignaturesInv'
<1>1. ASSUME NEW p \in DOMAIN proposal, NEW m \in Members, NEW vote \in Votes(p),
             CastVote(p, m, vote)
      PROVE  SignaturesInv'
  <2>1. proposal[p].state = "Voting"
    BY <1>1 DEF CastVote
  <2> QED
    BY <1>1, <2>1, CastVoteEffect, VotedSigned, SignedProposalChanges
<1>2. ASSUME NEW r \in voteRecords, WithdrawVote(r)
      PROVE  SignaturesInv'
  <2> DEFINE counted == Counted(proposal[r.proposal], r.vote, r.weight, -1)
  <2>1. /\ r.proposal \in DOMAIN proposal /\ proposal[r.proposal].state = "Voting"
        /\ proposal' = [proposal EXCEPT ![r.proposal] = counted]
    BY <1>2 DEF WithdrawVote, TypeInv, References
  <2>2. SameSignatures(proposal[r.proposal], counted)
    BY <2>1 DEF Counted, SameSignatures, TypeInv, TypeOK, ProposalType
  <2> HIDE DEF counted
  <2> QED
    BY <2>1, <2>2, VotedSigned, SignedProposalChanges
<1>3. ASSUME NEW r \in voteRecords, PruneVote(r)
      PROVE  SignaturesInv'
  BY <1>3 DEF PruneVote, SignaturesInv
<1>4. ASSUME NEW p \in Proposals, FinalizeVote(p)
      PROVE  SignaturesInv'
  <2>1. proposal[p].state = "Voting"
    BY <1>4 DEF FinalizeVote
  <2> QED
    BY <1>4, <2>1, FinalizeVoteEffect, VotedSigned, SignedProposalChanges
<1> QED
  BY <1>1, <1>2, <1>3, <1>4 DEF VoteStep

\* No order of adding signatories, signing off and cancelling starts the vote
\* of a proposal without the signatures of all its signatories.
THEOREM VotingNeedsAllSignaturesAlways == Spec => []VotingNeedsAllSignatures
<1>1. Init => SignaturesInv
  BY DEF Init, NoAccounts, SignaturesInv
<1>2. TypeInv /\ SignaturesInv /\ [Next]_vars => SignaturesInv'
  <2> SUFFICES ASSUME TypeInv, SignaturesInv, [Next]_vars PROVE SignaturesInv'
    OBVIOUS
  <2>1. CASE UNCHANGED proposalVars
    BY <2>1 DEF proposalVars, SignaturesInv
  <2>2. UNCHANGED vars => UNCHANGED proposalVars
    BY DEF vars
  <2> QED
    BY <2>1, <2>2, OtherStepsKeepProposals, ProposalStepSigned, VoteStepSigned DEF Next
<1>3. SignaturesInv => VotingNeedsAllSignatures
  BY DEF SignaturesInv, SignedOff, VotingNeedsAllSignatures
<1>4. Init => TypeInv
  BY InitType
<1>5. TypeInv /\ [Next]_vars => TypeInv'
  BY NextType
<1> QED
  BY <1>1, <1>2, <1>3, <1>4, <1>5, PTL DEF Spec

=============================================================================
