------------------------------ MODULE VotingProofs -----------------------------
(***************************************************************************)
(* What is counted and how it is decided, for every value of the constants *)
(* and every interleaving of the handlers.  First the counters that hold   *)
(* deposits back (the unrelinquished votes and the outstanding proposals   *)
(* of a record, the active proposals of the governance) and the tally of   *)
(* the votes, which are exact; then the tokens behind the votes, and the   *)
(* outcomes that the votes resolve to.                                     *)
(***************************************************************************)
EXTENDS GovernanceProofs

\* The counters of a record; a record that does not exist counts nothing.
Unrelinquished(records, m) == IF m \in DOMAIN records THEN records[m].unrelinquished ELSE 0
Outstanding(records, m) == IF m \in DOMAIN records THEN records[m].outstanding ELSE 0

ActiveProposals == {p \in DOMAIN proposal : proposal[p].state \in ActiveStates}

\* The inductive invariant; the votes are finitely many.
CountingInv ==
    /\ IsFiniteSet(voteRecords)
    /\ \A m \in Members : Cardinality(LiveVotesOf(m)) = Unrelinquished(tor, m)
    /\ \A m \in Members : Cardinality(ActiveProposalsOf(m)) = Outstanding(tor, m)
    /\ Cardinality(ActiveProposals) = activeProposals

LEMMA CountingImpliesCounted == CountingInv => VotesCounted /\ ProposalsCounted
  BY DEF CountingInv, VotesCounted, ProposalsCounted, Unrelinquished, Outstanding, ActiveProposals

-----------------------------------------------------------------------------
(* Steps that count nothing *)

SameCounters(before, after) ==
    \A m \in Members : /\ Unrelinquished(after, m) = Unrelinquished(before, m)
                       /\ Outstanding(after, m) = Outstanding(before, m)

LEMMA SameCountersUpdate ==
    ASSUME NEW t, NEW m \in DOMAIN t, NEW rec,
           rec.unrelinquished = t[m].unrelinquished, rec.outstanding = t[m].outstanding
    PROVE  SameCounters(t, [t EXCEPT ![m] = rec])
  BY DEF SameCounters, Unrelinquished, Outstanding

LEMMA SameCountersCreation ==
    ASSUME NEW t, NEW m \in Members, m \notin DOMAIN t, NEW rec,
           rec.unrelinquished = 0, rec.outstanding = 0
    PROVE  SameCounters(t, Created(t, m, rec))
  BY DEF SameCounters, Unrelinquished, Outstanding, Created

\* Deposits and locks are fields of their own.
LEMMA OtherFieldsUpdate ==
    ASSUME NEW rec \in TokenOwnerRecordType, NEW deposit, NEW locks
    PROVE  /\ [rec EXCEPT !.deposit = deposit].unrelinquished = rec.unrelinquished
           /\ [rec EXCEPT !.deposit = deposit].outstanding = rec.outstanding
           /\ [rec EXCEPT !.locks = locks].unrelinquished = rec.unrelinquished
           /\ [rec EXCEPT !.locks = locks].outstanding = rec.outstanding
  BY DEF TokenOwnerRecordType

LEMMA OtherFieldsKeepCounters ==
    ASSUME TypeInv, NEW m \in DOMAIN tor, NEW value,
           \/ tor' = [tor EXCEPT ![m] = [tor[m] EXCEPT !.deposit = value]]
           \/ tor' = [tor EXCEPT ![m] = [tor[m] EXCEPT !.locks = value]]
    PROVE  SameCounters(tor, tor')
<1>1. tor[m] \in TokenOwnerRecordType
  BY DEF TypeInv, TypeOK
<1>2. CASE tor' = [tor EXCEPT ![m] = [tor[m] EXCEPT !.deposit = value]]
  <2> DEFINE rec == [tor[m] EXCEPT !.deposit = value]
  <2>1. rec.unrelinquished = tor[m].unrelinquished /\ rec.outstanding = tor[m].outstanding
    BY <1>1, OtherFieldsUpdate
  <2> HIDE DEF rec
  <2> QED
    BY <1>2, <2>1, SameCountersUpdate DEF rec
<1>3. CASE tor' = [tor EXCEPT ![m] = [tor[m] EXCEPT !.locks = value]]
  <2> DEFINE rec == [tor[m] EXCEPT !.locks = value]
  <2>1. rec.unrelinquished = tor[m].unrelinquished /\ rec.outstanding = tor[m].outstanding
    BY <1>1, OtherFieldsUpdate
  <2> HIDE DEF rec
  <2> QED
    BY <1>3, <2>1, SameCountersUpdate DEF rec
<1> QED
  BY <1>2, <1>3

\* Token steps change deposits and locks alone.
LEMMA TokenStepCounters ==
    ASSUME TypeInv, TokenStep
    PROVE  SameCounters(tor, tor') /\ UNCHANGED <<activeProposals, proposal, voteRecords>>
<1> USE DEF govVars, proposalVars
<1>1. ASSUME NEW mint, NEW amount, MintTokens(mint, amount) \/ BurnTokens(mint, amount)
      PROVE  SameCounters(tor, tor') /\ UNCHANGED <<activeProposals, proposal, voteRecords>>
  BY <1>1 DEF MintTokens, BurnTokens, SameCounters
<1>2. ASSUME NEW m \in Members, CreateTokenOwnerRecord(m)
      PROVE  SameCounters(tor, tor') /\ UNCHANGED <<activeProposals, proposal, voteRecords>>
  BY <1>2, SameCountersCreation DEF CreateTokenOwnerRecord, NewTokenOwnerRecord
<1>3. ASSUME NEW m \in Members, NEW amount, NEW minted, DepositGoverningTokens(m, amount, minted)
      PROVE  SameCounters(tor, tor') /\ UNCHANGED <<activeProposals, proposal, voteRecords>>
  <2>1. CASE m \in DOMAIN tor
    <3>1. tor' = [tor EXCEPT ![m] = [tor[m] EXCEPT !.deposit = tor[m].deposit + amount]]
      BY <1>3, <2>1 DEF DepositGoverningTokens
    <3> QED
      BY <1>3, <2>1, <3>1, OtherFieldsKeepCounters DEF DepositGoverningTokens
  <2>2. CASE m \notin DOMAIN tor
    BY <1>3, <2>2, SameCountersCreation DEF DepositGoverningTokens, NewTokenOwnerRecord
  <2> QED
    BY <2>1, <2>2
<1>4. ASSUME NEW m \in Members, WithdrawGoverningTokens(m)
      PROVE  SameCounters(tor, tor') /\ UNCHANGED <<activeProposals, proposal, voteRecords>>
  BY <1>4, OtherFieldsKeepCounters DEF WithdrawGoverningTokens
<1>5. ASSUME NEW m \in Members, NEW amount, RevokeGoverningTokens(m, amount)
      PROVE  SameCounters(tor, tor') /\ UNCHANGED <<activeProposals, proposal, voteRecords>>
  BY <1>5, OtherFieldsKeepCounters DEF RevokeGoverningTokens
<1>6. ASSUME NEW m \in Members, NEW a, NEW id, NEW expiry,
             SetTokenOwnerRecordLock(m, a, id, expiry)
      PROVE  SameCounters(tor, tor') /\ UNCHANGED <<activeProposals, proposal, voteRecords>>
  BY <1>6, OtherFieldsKeepCounters DEF SetTokenOwnerRecordLock
<1>7. ASSUME NEW m \in Members, NEW a, NEW ids, NEW signed,
             RelinquishTokenOwnerRecordLocks(m, a, ids, signed)
      PROVE  SameCounters(tor, tor') /\ UNCHANGED <<activeProposals, proposal, voteRecords>>
  BY <1>7, OtherFieldsKeepCounters DEF RelinquishTokenOwnerRecordLocks
<1> QED
  BY <1>1, <1>2, <1>3, <1>4, <1>5, <1>6, <1>7 DEF TokenStep

LEMMA ConfigurationStepCounters ==
    ASSUME ConfigurationStep
    PROVE  UNCHANGED <<tor, activeProposals, proposal, voteRecords>>
  BY DEF ConfigurationStep, Tick, SetGovernanceConfig, SetRealmConfig, AddLockAuthority,
         RemoveLockAuthority, AddRequiredSignatory, RemoveRequiredSignatory,
         govVars, proposalVars

LEMMA CountersKept ==
    ASSUME CountingInv, SameCounters(tor, tor'),
           UNCHANGED <<activeProposals, proposal, voteRecords>>
    PROVE  CountingInv'
  BY DEF CountingInv, SameCounters, LiveVotesOf, ActiveProposalsOf, ActiveProposals

-----------------------------------------------------------------------------
(* The sets that are counted *)

LEMMA ActiveFinite ==
    ASSUME TypeInv
    PROVE  /\ IsFiniteSet(ActiveProposals)
           /\ \A m : ActiveProposalsOf(m) \subseteq ActiveProposals
           /\ \A m : IsFiniteSet(ActiveProposalsOf(m))
<1>1. ActiveProposals \subseteq Proposals
  BY DEF ActiveProposals, TypeInv, TypeOK
<1>2. IsFiniteSet(ActiveProposals)
  BY <1>1, ConstantsAssumption, FS_Subset
<1>3. \A m : ActiveProposalsOf(m) \subseteq ActiveProposals
  BY DEF ActiveProposals, ActiveProposalsOf
<1> QED
  BY <1>2, <1>3, FS_Subset

\* A proposal is created: one more of its owner's and of the governance's.
LEMMA ProposalOpens ==
    ASSUME TypeInv, NEW p, p \notin DOMAIN proposal, NEW new, new.state \in ActiveStates,
           proposal' = Created(proposal, p, new)
    PROVE  /\ Cardinality(ActiveProposals') = Cardinality(ActiveProposals) + 1
           /\ \A m : Cardinality(ActiveProposalsOf(m)') =
                         Cardinality(ActiveProposalsOf(m)) + IF m = new.owner THEN 1 ELSE 0
<1>1. ActiveProposals' = ActiveProposals \cup {p} /\ p \notin ActiveProposals
  BY DEF ActiveProposals, Created
<1>2. ASSUME NEW m
      PROVE  /\ ActiveProposalsOf(m)' = IF m = new.owner THEN ActiveProposalsOf(m) \cup {p}
                                        ELSE ActiveProposalsOf(m)
             /\ p \notin ActiveProposalsOf(m)
  BY DEF ActiveProposalsOf, Created
<1>3. Cardinality(ActiveProposals) \in Nat
      /\ \A m : Cardinality(ActiveProposalsOf(m)) \in Nat
  BY ActiveFinite, FS_CardinalityType
<1>4. Cardinality(ActiveProposals') = Cardinality(ActiveProposals) + 1
  BY <1>1, ActiveFinite, FS_AddElement
<1>5. ASSUME NEW m
      PROVE  Cardinality(ActiveProposalsOf(m)') =
                 Cardinality(ActiveProposalsOf(m)) + IF m = new.owner THEN 1 ELSE 0
  BY <1>2, <1>3, ActiveFinite, FS_AddElement
<1> QED
  BY <1>4, <1>5

\* A proposal is changed and remains active.
LEMMA ProposalStays ==
    ASSUME NEW p \in DOMAIN proposal, proposal[p].state \in ActiveStates,
           NEW new, new.owner = proposal[p].owner, new.state \in ActiveStates,
           proposal' = [proposal EXCEPT ![p] = new]
    PROVE  /\ ActiveProposals' = ActiveProposals
           /\ \A m : ActiveProposalsOf(m)' = ActiveProposalsOf(m)
  BY DEF ActiveProposals, ActiveProposalsOf

\* An active proposal is decided or cancelled.
LEMMA ProposalCloses ==
    ASSUME TypeInv, NEW p \in DOMAIN proposal, proposal[p].state \in ActiveStates,
           NEW new, new.owner = proposal[p].owner, new.state \notin ActiveStates,
           proposal' = [proposal EXCEPT ![p] = new]
    PROVE  /\ Cardinality(ActiveProposals') = Cardinality(ActiveProposals) - 1
           /\ Cardinality(ActiveProposals) >= 1
           /\ Cardinality(ActiveProposalsOf(new.owner)) >= 1
           /\ \A m : Cardinality(ActiveProposalsOf(m)') =
                         Cardinality(ActiveProposalsOf(m)) - IF m = new.owner THEN 1 ELSE 0
<1>1. ActiveProposals' = ActiveProposals \ {p} /\ p \in ActiveProposals
  BY DEF ActiveProposals
<1>2. ASSUME NEW m
      PROVE  /\ ActiveProposalsOf(m)' = IF m = new.owner THEN ActiveProposalsOf(m) \ {p}
                                        ELSE ActiveProposalsOf(m)
             /\ m = new.owner <=> p \in ActiveProposalsOf(m)
  BY DEF ActiveProposalsOf
<1>3. /\ Cardinality(ActiveProposals) \in Nat
      /\ \A m : Cardinality(ActiveProposalsOf(m)) \in Nat
  BY ActiveFinite, FS_CardinalityType
<1>4. /\ Cardinality(ActiveProposals') = Cardinality(ActiveProposals) - 1
      /\ Cardinality(ActiveProposals) >= 1
  BY <1>1, <1>3, ActiveFinite, FS_RemoveElement, FS_EmptySet
<1>5. ASSUME NEW m
      PROVE  Cardinality(ActiveProposalsOf(m)') =
                 Cardinality(ActiveProposalsOf(m)) - IF m = new.owner THEN 1 ELSE 0
  BY <1>2, <1>3, ActiveFinite, FS_RemoveElement
<1>6. Cardinality(ActiveProposalsOf(new.owner)) >= 1
  <2> DEFINE own == ActiveProposalsOf(new.owner)
  <2>1. p \in own /\ IsFiniteSet(own) /\ Cardinality(own) \in Nat
    BY <1>2, <1>3, ActiveFinite
  <2> HIDE DEF own
  <2>2. Cardinality(own) # 0
    BY <2>1, FS_EmptySet
  <2> QED
    BY <2>1, <2>2 DEF own
<1> QED
  BY <1>4, <1>5, <1>6

\* A live vote is added.
LEMMA VoteAdded ==
    ASSUME IsFiniteSet(voteRecords), NEW new, new \notin voteRecords, ~new.relinquished,
           voteRecords' = voteRecords \cup {new}
    PROVE  /\ IsFiniteSet(voteRecords')
           /\ \A m : Cardinality(LiveVotesOf(m)') =
                         Cardinality(LiveVotesOf(m)) + IF m = new.voter THEN 1 ELSE 0
<1>1. ASSUME NEW m
      PROVE  /\ LiveVotesOf(m)' = IF m = new.voter THEN LiveVotesOf(m) \cup {new}
                                  ELSE LiveVotesOf(m)
             /\ new \notin LiveVotesOf(m) /\ IsFiniteSet(LiveVotesOf(m))
  <2>1. LiveVotesOf(m) \subseteq voteRecords
    BY DEF LiveVotesOf
  <2> QED
    BY <2>1, FS_Subset DEF LiveVotesOf
<1>2. \A m : Cardinality(LiveVotesOf(m)) \in Nat
  BY <1>1, FS_CardinalityType
<1>3. ASSUME NEW m
      PROVE  Cardinality(LiveVotesOf(m)') =
                 Cardinality(LiveVotesOf(m)) + IF m = new.voter THEN 1 ELSE 0
  BY <1>1, <1>2, FS_AddElement
<1>4. IsFiniteSet(voteRecords')
  BY FS_AddElement
<1> QED
  BY <1>3, <1>4

\* A live vote is disposed of or marked as relinquished.
LEMMA VoteRelinquished ==
    ASSUME IsFiniteSet(voteRecords), NEW r \in voteRecords, ~r.relinquished,
           NEW rest, \A s \in rest : s.relinquished, IsFiniteSet(rest),
           voteRecords' = (voteRecords \ {r}) \cup rest
    PROVE  /\ IsFiniteSet(voteRecords')
           /\ \A m : Cardinality(LiveVotesOf(m)') =
                         Cardinality(LiveVotesOf(m)) - IF m = r.voter THEN 1 ELSE 0
<1>1. ASSUME NEW m
      PROVE  /\ LiveVotesOf(m)' = IF m = r.voter THEN LiveVotesOf(m) \ {r}
                                  ELSE LiveVotesOf(m)
             /\ m = r.voter <=> r \in LiveVotesOf(m)
             /\ IsFiniteSet(LiveVotesOf(m))
  <2>1. LiveVotesOf(m) \subseteq voteRecords
    BY DEF LiveVotesOf
  <2> QED
    BY <2>1, FS_Subset DEF LiveVotesOf
<1>2. \A m : Cardinality(LiveVotesOf(m)) \in Nat
  BY <1>1, FS_CardinalityType
<1>3. IsFiniteSet(voteRecords')
  BY FS_RemoveElement, FS_Union
<1> QED
  BY <1>1, <1>2, <1>3, FS_RemoveElement

-----------------------------------------------------------------------------
(* The records that count *)

\* One counter of a record is written.
LEMMA OneCounter ==
    ASSUME NEW rec \in TokenOwnerRecordType, NEW n
    PROVE  /\ [rec EXCEPT !.outstanding = n].outstanding = n
           /\ [rec EXCEPT !.outstanding = n].unrelinquished = rec.unrelinquished
           /\ [rec EXCEPT !.unrelinquished = n].outstanding = rec.outstanding
           /\ [rec EXCEPT !.unrelinquished = n].unrelinquished = n
  BY DEF TokenOwnerRecordType

\* A proposal closes while records are written that had the right counts of
\* proposals: the ones before the step, or the ones with the vote on it.
LEMMA ClosingCounted ==
    ASSUME TypeInv, CountingInv, NEW p \in DOMAIN proposal, proposal[p].state \in ActiveStates,
           NEW new, new.owner = proposal[p].owner, new.state \notin ActiveStates,
           proposal' = [proposal EXCEPT ![p] = new],
           NEW t, TorType(t), DOMAIN t = DOMAIN tor,
           \A x \in Members : Outstanding(t, x) = Outstanding(tor, x),
           tor' = [t EXCEPT ![proposal[p].owner].outstanding = Decreased(@)],
           activeProposals' = Decreased(activeProposals)
    PROVE  /\ \A x \in Members : Cardinality(ActiveProposalsOf(x)') = Outstanding(tor', x)
           /\ Cardinality(ActiveProposals') = activeProposals'
           /\ \A x \in Members : Unrelinquished(tor', x) = Unrelinquished(t, x)
<1> DEFINE owner == proposal[p].owner
           left == Decreased(t[owner].outstanding)
<1>1. owner \in DOMAIN t /\ owner \in Members
  BY DEF TypeInv, TypeOK, References
<1>2. tor' = [t EXCEPT ![owner] = [t[owner] EXCEPT !.outstanding = left]]
  OBVIOUS
<1>3. \A x : /\ Outstanding(tor', x) = IF x = owner THEN left ELSE Outstanding(t, x)
             /\ Unrelinquished(tor', x) = Unrelinquished(t, x)
  <2> DEFINE rec == [t[owner] EXCEPT !.outstanding = left]
  <2>1. rec.outstanding = left /\ rec.unrelinquished = t[owner].unrelinquished
    BY <1>1, OneCounter DEF TorType
  <2>2. tor' = [t EXCEPT ![owner] = rec]
    BY <1>2
  <2> HIDE DEF owner, left, rec
  <2> QED
    BY <1>1, <2>1, <2>2 DEF Outstanding, Unrelinquished
<1>4. /\ Cardinality(ActiveProposals') = Cardinality(ActiveProposals) - 1
      /\ Cardinality(ActiveProposals) >= 1
      /\ Cardinality(ActiveProposalsOf(owner)) >= 1
      /\ \A x : Cardinality(ActiveProposalsOf(x)') =
                    Cardinality(ActiveProposalsOf(x)) - IF x = owner THEN 1 ELSE 0
  BY ProposalCloses
<1>5. /\ Cardinality(ActiveProposals) = activeProposals
      /\ \A x \in Members : Cardinality(ActiveProposalsOf(x)) = Outstanding(tor, x)
  BY DEF CountingInv
<1>6. /\ Cardinality(ActiveProposals) \in Nat
      /\ \A x : Cardinality(ActiveProposalsOf(x)) \in Nat
  BY ActiveFinite, FS_CardinalityType
<1>7. t[owner].outstanding = Cardinality(ActiveProposalsOf(owner))
  BY <1>1, <1>5 DEF Outstanding
<1>8. left = Cardinality(ActiveProposalsOf(owner)) - 1
  BY <1>4, <1>6, <1>7 DEF Decreased, SaturatingSub
<1>9. activeProposals' = Cardinality(ActiveProposals) - 1
  BY <1>4, <1>5, <1>6 DEF Decreased, SaturatingSub
<1> HIDE DEF owner, left
<1>10. ASSUME NEW x \in Members
       PROVE  Cardinality(ActiveProposalsOf(x)') = Outstanding(tor', x)
  <2>1. CASE x = owner
    BY <1>3, <1>4, <1>8, <2>1
  <2>2. CASE x # owner
    <3>1. Cardinality(ActiveProposalsOf(x)') = Cardinality(ActiveProposalsOf(x))
      BY <1>4, <1>6, <2>2
    <3> QED
      BY <1>3, <1>5, <2>2, <3>1
  <2> QED
    BY <2>1, <2>2
<1> QED
  BY <1>3, <1>4, <1>9, <1>10

-----------------------------------------------------------------------------
(* The handlers of proposals *)

\* A handler that writes an active proposal, which remains active, and no record.
LEMMA StayingCounted ==
    ASSUME CountingInv, NEW p \in DOMAIN proposal, proposal[p].state \in ActiveStates,
           NEW new, new.owner = proposal[p].owner, new.state \in ActiveStates,
           proposal' = [proposal EXCEPT ![p] = new],
           UNCHANGED <<tor, activeProposals, voteRecords>>
    PROVE  CountingInv'
  BY ProposalStays DEF CountingInv, LiveVotesOf

LEMMA CreateProposalCounted ==
    ASSUME TypeInv, CountingInv, NEW p \in Proposals, NEW m \in Members, NEW mint, NEW ballot,
           CreateProposal(p, m, mint, ballot)
    PROVE  CountingInv'
<1> DEFINE new == NewProposal(m, mint, ballot)
<1>1. new.owner = m /\ new.state \in ActiveStates
  BY DEF NewProposal, ActiveStates
<1> HIDE DEF new
<1>2. /\ p \notin DOMAIN proposal /\ proposal' = Created(proposal, p, new)
      /\ m \in DOMAIN tor /\ activeProposals' = activeProposals + 1
      /\ tor' = [tor EXCEPT ![m] = [tor[m] EXCEPT !.outstanding = tor[m].outstanding + 1]]
      /\ voteRecords' = voteRecords
  BY DEF CreateProposal, new
<1>3. /\ Cardinality(ActiveProposals') = Cardinality(ActiveProposals) + 1
      /\ \A x : Cardinality(ActiveProposalsOf(x)') =
                    Cardinality(ActiveProposalsOf(x)) + IF x = m THEN 1 ELSE 0
  BY <1>1, <1>2, ProposalOpens
<1>4. \A x : /\ Outstanding(tor', x) =
                    IF x = m THEN tor[m].outstanding + 1 ELSE Outstanding(tor, x)
             /\ Unrelinquished(tor', x) = Unrelinquished(tor, x)
  <2> DEFINE rec == [tor[m] EXCEPT !.outstanding = tor[m].outstanding + 1]
  <2>1. /\ rec.outstanding = tor[m].outstanding + 1
        /\ rec.unrelinquished = tor[m].unrelinquished
    BY <1>2, OneCounter DEF TypeInv, TypeOK
  <2>2. tor' = [tor EXCEPT ![m] = rec]
    BY <1>2
  <2> HIDE DEF rec
  <2> QED
    BY <1>2, <2>1, <2>2 DEF Outstanding, Unrelinquished
<1>5. \A x : Cardinality(ActiveProposalsOf(x)) \in Nat
  BY ActiveFinite, FS_CardinalityType
<1>6. ASSUME NEW x \in Members
      PROVE  Cardinality(ActiveProposalsOf(x)') = Outstanding(tor', x)
  BY <1>2, <1>3, <1>4, <1>5 DEF CountingInv, Outstanding
<1> QED
  BY <1>2, <1>3, <1>4, <1>6 DEF CountingInv, LiveVotesOf

LEMMA CancelProposalCounted ==
    ASSUME TypeInv, CountingInv, NEW p \in Proposals, CancelProposal(p)
    PROVE  CountingInv'
<1> DEFINE new == [proposal[p] EXCEPT !.state = "Cancelled", !.closed = TRUE]
<1>1. /\ p \in DOMAIN proposal /\ proposal' = [proposal EXCEPT ![p] = new]
      /\ tor' = [tor EXCEPT ![proposal[p].owner].outstanding = Decreased(@)]
      /\ activeProposals' = Decreased(activeProposals)
      /\ voteRecords' = voteRecords
      /\ proposal[p].state \in ActiveStates
  BY DEF CancelProposal, CanCancel, ActiveStates
<1>2. new.owner = proposal[p].owner /\ new.state \notin ActiveStates
  BY <1>1 DEF TypeInv, TypeOK, ProposalType, ActiveStates
<1> HIDE DEF new
<1>3. TorType(tor)
  BY DEF TypeInv, TypeOK, TorType
<1>4. /\ \A x \in Members : Cardinality(ActiveProposalsOf(x)') = Outstanding(tor', x)
      /\ Cardinality(ActiveProposals') = activeProposals'
      /\ \A x \in Members : Unrelinquished(tor', x) = Unrelinquished(tor, x)
  BY <1>1, <1>2, <1>3, ClosingCounted
<1> QED
  BY <1>1, <1>4 DEF CountingInv, LiveVotesOf

LEMMA ProposalStepCounted ==
    ASSUME TypeInv, CountingInv, ProposalStep
    PROVE  CountingInv'
<1>1. ASSUME NEW p \in Proposals, NEW s \in Signatories, AddSignatory(p, s)
      PROVE  CountingInv'
  <2> DEFINE new == [proposal[p] EXCEPT !.signatories = proposal[p].signatories \cup {s}]
  <2>1. /\ p \in DOMAIN proposal /\ proposal' = [proposal EXCEPT ![p] = new]
        /\ proposal[p].state \in ActiveStates
        /\ UNCHANGED <<tor, activeProposals, voteRecords>>
    BY <1>1 DEF AddSignatory, ActiveStates, govVars
  <2>2. new.owner = proposal[p].owner /\ new.state \in ActiveStates
    BY <2>1 DEF TypeInv, TypeOK, ProposalType
  <2> HIDE DEF new
  <2> QED
    BY <2>1, <2>2, StayingCounted
<1>2. ASSUME NEW p \in Proposals, NEW signing, SignOffProposal(p, signing)
      PROVE  CountingInv'
  <2> DEFINE signedOff == proposal[p].signedOff \cup signing
             starts == StartsVoting(signedOff, proposal[p].signatories)
             state == IF starts THEN "Voting" ELSE "SigningOff"
             votingAt == IF starts THEN now ELSE proposal[p].votingAt
             new == [proposal[p] EXCEPT !.signedOff = signedOff, !.state = state,
                                        !.votingAt = votingAt]
  <2>1. /\ p \in DOMAIN proposal /\ proposal' = [proposal EXCEPT ![p] = new]
        /\ proposal[p].state \in ActiveStates
        /\ UNCHANGED <<tor, activeProposals, voteRecords>>
    BY <1>2 DEF SignOffProposal, CanSignOff, ActiveStates, govVars
  <2>2. new.owner = proposal[p].owner /\ new.state = state
    <3> HIDE DEF signedOff, state, votingAt
    <3> QED
      BY <2>1 DEF TypeInv, TypeOK, ProposalType
  <2>3. state \in ActiveStates
    BY DEF ActiveStates
  <2> HIDE DEF new, state
  <2> QED
    BY <2>1, <2>2, <2>3, StayingCounted
<1>3. ASSUME NEW p \in Proposals, RefundProposalDeposit(p)
      PROVE  CountingInv'
  <2>1. SameCounters(tor, tor') /\ UNCHANGED <<activeProposals, proposal, voteRecords>>
    BY <1>3 DEF RefundProposalDeposit, SameCounters, govVars
  <2> QED
    BY <2>1, CountersKept
<1> QED
  BY <1>1, <1>2, <1>3, CreateProposalCounted, CancelProposalCounted DEF ProposalStep

-----------------------------------------------------------------------------
(* The handlers of votes *)

LEMMA VotedCounters ==
    ASSUME TypeInv, NEW m \in DOMAIN tor
    PROVE  \A x : /\ Unrelinquished(Voted(m), x) =
                         IF x = m THEN Unrelinquished(tor, x) + 1 ELSE Unrelinquished(tor, x)
                  /\ Outstanding(Voted(m), x) = Outstanding(tor, x)
<1> DEFINE rec == [tor[m] EXCEPT !.unrelinquished = tor[m].unrelinquished + 1]
<1>1. rec.unrelinquished = tor[m].unrelinquished + 1 /\ rec.outstanding = tor[m].outstanding
  BY OneCounter DEF TypeInv, TypeOK
<1>2. Voted(m) = [tor EXCEPT ![m] = rec]
  BY DEF Voted
<1> HIDE DEF rec
<1> QED
  BY <1>1, <1>2 DEF Outstanding, Unrelinquished

LEMMA CastVoteCounted ==
    ASSUME TypeInv, CountingInv, NEW p \in DOMAIN proposal, NEW m \in Members,
           NEW vote \in Votes(p), CastVote(p, m, vote)
    PROVE  CountingInv'
<1>1. /\ m \in DOMAIN tor /\ proposal[p].state = "Voting"
      /\ ~\E r \in voteRecords : r.proposal = p /\ r.voter = m
  BY DEF CastVote
<1>2. PICK weight \in Nat, new \in ProposalType :
        /\ voteRecords' = voteRecords \cup {NewVote(p, m, vote, weight)}
        /\ proposal' = [proposal EXCEPT ![p] = new]
        /\ new.owner = proposal[p].owner
        /\ \/ /\ new.state = "Voting"
              /\ tor' = Voted(m) /\ activeProposals' = activeProposals
           \/ /\ new.state \in DecidedStates
              /\ tor' = DecidedRecords(proposal[p].owner, m, Voted(m))
              /\ activeProposals' = Decreased(activeProposals)
  BY CastVoteEffect DEF SameShape
<1> DEFINE vr == NewVote(p, m, vote, weight)
<1>3. vr \notin voteRecords /\ ~vr.relinquished /\ vr.voter = m
  BY <1>1 DEF NewVote
<1> HIDE DEF vr
<1>4. /\ IsFiniteSet(voteRecords')
      /\ \A x : Cardinality(LiveVotesOf(x)') =
                    Cardinality(LiveVotesOf(x)) + IF x = m THEN 1 ELSE 0
  BY <1>2, <1>3, VoteAdded DEF vr, CountingInv
<1>5. /\ \A x \in Members : Unrelinquished(tor', x) = Unrelinquished(Voted(m), x)
      /\ \A x \in Members : Cardinality(ActiveProposalsOf(x)') = Outstanding(tor', x)
      /\ Cardinality(ActiveProposals') = activeProposals'
  <2>1. CASE /\ new.state = "Voting"
             /\ tor' = Voted(m) /\ activeProposals' = activeProposals
    <3>1. /\ ActiveProposals' = ActiveProposals
          /\ \A x : ActiveProposalsOf(x)' = ActiveProposalsOf(x)
      BY <1>1, <1>2, <2>1, ProposalStays DEF ActiveStates
    <3>2. \A x : Outstanding(tor', x) = Outstanding(tor, x)
      BY <1>1, <2>1, VotedCounters
    <3> QED
      BY <2>1, <3>1, <3>2 DEF CountingInv
  <2>2. CASE /\ new.state \in DecidedStates
             /\ tor' = DecidedRecords(proposal[p].owner, m, Voted(m))
             /\ activeProposals' = Decreased(activeProposals)
    <3>1. new.state \notin ActiveStates /\ proposal[p].state \in ActiveStates
      BY <1>1, <2>2 DEF DecidedStates, ActiveStates
    <3>2. TorType(Voted(m)) /\ DOMAIN Voted(m) = DOMAIN tor
      BY <1>1, VotedType
    <3>3. \A x \in Members : Outstanding(Voted(m), x) = Outstanding(tor, x)
      BY <1>1, VotedCounters
    <3>4. tor' = [Voted(m) EXCEPT ![proposal[p].owner].outstanding = Decreased(@)]
      BY <2>2 DEF DecidedRecords
    <3>5. /\ p \in DOMAIN proposal /\ new.owner = proposal[p].owner
          /\ proposal' = [proposal EXCEPT ![p] = new]
          /\ activeProposals' = Decreased(activeProposals)
      BY <1>1, <1>2, <2>2
    <3> QED
      BY <3>1, <3>2, <3>3, <3>4, <3>5, ClosingCounted
  <2> QED
    BY <1>2, <2>1, <2>2
<1>6. ASSUME NEW x \in Members
      PROVE  Cardinality(LiveVotesOf(x)') = Unrelinquished(tor', x)
  <2>1. Unrelinquished(tor', x) =
            IF x = m THEN Unrelinquished(tor, x) + 1 ELSE Unrelinquished(tor, x)
    BY <1>1, <1>5, VotedCounters
  <2>2. LiveVotesOf(x) \subseteq voteRecords
    BY DEF LiveVotesOf
  <2>3. Cardinality(LiveVotesOf(x)) \in Nat
    BY <2>2, FS_Subset, FS_CardinalityType DEF CountingInv
  <2> QED
    BY <1>4, <2>1, <2>3 DEF CountingInv
<1> QED
  BY <1>4, <1>5, <1>6 DEF CountingInv

\* A vote is withdrawn or pruned.
LEMMA RelinquishCounted ==
    ASSUME TypeInv, CountingInv, NEW r \in voteRecords, Relinquishes(r),
           NEW rest, IsFiniteSet(rest), \A s \in rest : s.relinquished,
           voteRecords' = (voteRecords \ {r}) \cup rest,
           ActiveProposals' = ActiveProposals,
           \A m : ActiveProposalsOf(m)' = ActiveProposalsOf(m)
    PROVE  CountingInv'
<1> DEFINE m == r.voter
           rec == [tor[m] EXCEPT !.unrelinquished = tor[m].unrelinquished - 1]
<1>1. /\ ~r.relinquished /\ tor' = [tor EXCEPT ![m] = rec]
      /\ activeProposals' = activeProposals
  BY DEF Relinquishes, govVars
<1>2. m \in DOMAIN tor /\ m \in Members
  BY DEF TypeInv, TypeOK, References
<1>3. rec.unrelinquished = tor[m].unrelinquished - 1 /\ rec.outstanding = tor[m].outstanding
  BY <1>2, OneCounter DEF TypeInv, TypeOK
<1> HIDE DEF m, rec
<1>4. \A x : /\ Unrelinquished(tor', x) =
                    IF x = m THEN Unrelinquished(tor, x) - 1 ELSE Unrelinquished(tor, x)
             /\ Outstanding(tor', x) = Outstanding(tor, x)
  BY <1>1, <1>2, <1>3 DEF Outstanding, Unrelinquished
<1>5. /\ IsFiniteSet(voteRecords')
      /\ \A x : Cardinality(LiveVotesOf(x)') =
                    Cardinality(LiveVotesOf(x)) - IF x = m THEN 1 ELSE 0
  BY <1>1, VoteRelinquished DEF CountingInv, m
<1>6. ASSUME NEW x \in Members
      PROVE  Cardinality(LiveVotesOf(x)') = Unrelinquished(tor', x)
  <2>1. LiveVotesOf(x) \subseteq voteRecords
    BY DEF LiveVotesOf
  <2>2. Cardinality(LiveVotesOf(x)) \in Nat
    BY <2>1, FS_Subset, FS_CardinalityType DEF CountingInv
  <2> QED
    BY <1>4, <1>5, <2>2 DEF CountingInv
<1> QED
  BY <1>1, <1>4, <1>5, <1>6 DEF CountingInv

LEMMA FinalizeVoteCounted ==
    ASSUME TypeInv, CountingInv, NEW p \in Proposals, FinalizeVote(p)
    PROVE  CountingInv'
<1>1. /\ p \in DOMAIN proposal /\ proposal[p].state = "Voting"
      /\ tor' = [tor EXCEPT ![proposal[p].owner].outstanding = Decreased(@)]
      /\ activeProposals' = Decreased(activeProposals)
      /\ voteRecords' = voteRecords
  BY DEF FinalizeVote
<1>2. PICK new \in ProposalType :
        /\ proposal' = [proposal EXCEPT ![p] = new]
        /\ new.owner = proposal[p].owner /\ new.state \in DecidedStates
  BY FinalizeVoteEffect DEF SameShape
<1>3. proposal[p].state \in ActiveStates /\ new.state \notin ActiveStates
  BY <1>1, <1>2 DEF ActiveStates, DecidedStates
<1>4. TorType(tor)
  BY DEF TypeInv, TypeOK, TorType
<1>5. /\ \A x \in Members : Cardinality(ActiveProposalsOf(x)') = Outstanding(tor', x)
      /\ Cardinality(ActiveProposals') = activeProposals'
      /\ \A x \in Members : Unrelinquished(tor', x) = Unrelinquished(tor, x)
  BY <1>1, <1>2, <1>3, <1>4, ClosingCounted
<1> QED
  BY <1>1, <1>5 DEF CountingInv, LiveVotesOf

LEMMA VoteStepCounted ==
    ASSUME TypeInv, CountingInv, VoteStep
    PROVE  CountingInv'
<1>1. ASSUME NEW r \in voteRecords, WithdrawVote(r)
      PROVE  CountingInv'
  <2> DEFINE p == r.proposal
             counted == Counted(proposal[p], r.vote, r.weight, -1)
  <2>1. /\ p \in DOMAIN proposal /\ proposal[p].state = "Voting" /\ Relinquishes(r)
        /\ proposal' = [proposal EXCEPT ![p] = counted]
        /\ voteRecords' = (voteRecords \ {r}) \cup {}
    BY <1>1 DEF WithdrawVote, TypeInv, References
  <2>2. counted.owner = proposal[p].owner /\ counted.state = "Voting"
    BY <2>1 DEF Counted, TypeInv, TypeOK, ProposalType
  <2> HIDE DEF counted, p
  <2>3. /\ ActiveProposals' = ActiveProposals
        /\ \A m : ActiveProposalsOf(m)' = ActiveProposalsOf(m)
    BY <2>1, <2>2, ProposalStays DEF ActiveStates
  <2> QED
    BY <2>1, <2>3, FS_EmptySet, RelinquishCounted
<1>2. ASSUME NEW r \in voteRecords, PruneVote(r)
      PROVE  CountingInv'
  <2> DEFINE pruned == [r EXCEPT !.relinquished = TRUE]
  <2>1. /\ Relinquishes(r) /\ proposal' = proposal
        /\ voteRecords' = (voteRecords \ {r}) \cup {pruned}
    BY <1>2 DEF PruneVote
  <2>2. pruned.relinquished
    BY DEF TypeInv, TypeOK, VoteRecordType
  <2> HIDE DEF pruned
  <2>3. /\ ActiveProposals' = ActiveProposals
        /\ \A m : ActiveProposalsOf(m)' = ActiveProposalsOf(m)
    BY <2>1 DEF ActiveProposals, ActiveProposalsOf
  <2> QED
    BY <2>1, <2>2, <2>3, FS_Singleton, RelinquishCounted
<1> QED
  BY <1>1, <1>2, CastVoteCounted, FinalizeVoteCounted DEF VoteStep

-----------------------------------------------------------------------------
(* The theorems *)

LEMMA InitCounted == Init => CountingInv
<1> SUFFICES ASSUME Init PROVE CountingInv
  OBVIOUS
<1>1. /\ \A m : LiveVotesOf(m) = {} /\ ActiveProposalsOf(m) = {}
      /\ ActiveProposals = {}
  BY DEF Init, NoAccounts, LiveVotesOf, ActiveProposalsOf, ActiveProposals
<1> QED
  BY <1>1, FS_EmptySet DEF Init, NoAccounts, CountingInv, Unrelinquished, Outstanding

LEMMA NextCounted ==
    ASSUME TypeInv, CountingInv, [Next]_vars
    PROVE  CountingInv'
<1>1. CASE ConfigurationStep \/ UNCHANGED vars
  <2>1. UNCHANGED <<tor, activeProposals, proposal, voteRecords>>
    BY <1>1, ConfigurationStepCounters DEF vars, govVars, proposalVars
  <2>2. SameCounters(tor, tor')
    BY <2>1 DEF SameCounters
  <2> QED
    BY <2>1, <2>2, CountersKept
<1>2. CASE TokenStep
  BY <1>2, TokenStepCounters, CountersKept
<1> QED
  BY <1>1, <1>2, ProposalStepCounted, VoteStepCounted DEF Next

\* Whatever is cast, withdrawn, pruned, decided or reconfigured in whatever
\* order, unrelinquished_votes_count is the number of the record's live votes.
THEOREM VotesCountedAlways == Spec => []VotesCounted
<1>1. Init => TypeInv /\ CountingInv
  BY InitType, InitCounted
<1>2. TypeInv /\ CountingInv /\ [Next]_vars => (TypeInv /\ CountingInv)'
  BY NextType, NextCounted
<1>3. CountingInv => VotesCounted
  BY CountingImpliesCounted
<1> QED
  BY <1>1, <1>2, <1>3, PTL DEF Spec

\* The five handlers that open, close and decide proposals keep
\* outstanding_proposal_count and active_proposal_count exact: no decrement is
\* lost where the voter owns the proposal, none saturates.
THEOREM ProposalsCountedAlways == Spec => []ProposalsCounted
<1>1. Init => TypeInv /\ CountingInv
  BY InitType, InitCounted
<1>2. TypeInv /\ CountingInv /\ [Next]_vars => (TypeInv /\ CountingInv)'
  BY NextType, NextCounted
<1>3. CountingInv => ProposalsCounted
  BY CountingImpliesCounted
<1> QED
  BY <1>1, <1>2, <1>3, PTL DEF Spec

-----------------------------------------------------------------------------
(* What the counters are for: committed tokens stay *)

DepositsLeaveRightly ==
    \A m \in DOMAIN tor :
        tor'[m].deposit < tor[m].deposit =>
            ~Committed(m) \/ realm.tokenType[MintOf[m]] = "Membership"

\* A record that may be withdrawn from is not committed.
LEMMA WithdrawnIsUncommitted ==
    ASSUME CountingInv, TypeInv, NEW m \in DOMAIN tor, CanWithdraw(m)
    PROVE  ~Committed(m)
<1>1. m \in Members /\ tor[m].unrelinquished = 0 /\ tor[m].outstanding = 0
  BY DEF TypeInv, TypeOK, CanWithdraw
<1>2. Cardinality(LiveVotesOf(m)) = 0 /\ Cardinality(ActiveProposalsOf(m)) = 0
  BY <1>1 DEF CountingInv, Unrelinquished, Outstanding
<1>3. IsFiniteSet(LiveVotesOf(m)) /\ IsFiniteSet(ActiveProposalsOf(m))
  <2>1. LiveVotesOf(m) \subseteq voteRecords
    BY DEF LiveVotesOf
  <2> QED
    BY <2>1, ActiveFinite, FS_Subset DEF CountingInv
<1>4. LiveVotesOf(m) = {} /\ ActiveProposalsOf(m) = {}
  BY <1>2, <1>3, FS_EmptySet
<1>5. UnexpiredLocks(m) = {}
  BY DEF UnexpiredLocks, CanWithdraw
<1> QED
  BY <1>4, <1>5 DEF Committed

\* Only these two handlers take tokens out of a record.
LEMMA TokenStepDeposits ==
    ASSUME TypeInv, CountingInv, TokenStep
    PROVE  DepositsLeaveRightly
<1>1. \A m \in DOMAIN tor : tor[m] \in TokenOwnerRecordType /\ tor[m].deposit \in Nat
  BY DEF TypeInv, TypeOK, TokenOwnerRecordType
<1>2. ASSUME NEW mint, NEW amount, MintTokens(mint, amount) \/ BurnTokens(mint, amount)
      PROVE  DepositsLeaveRightly
  BY <1>1, <1>2 DEF MintTokens, BurnTokens, DepositsLeaveRightly
<1>3. ASSUME NEW m, CreateTokenOwnerRecord(m)
      PROVE  DepositsLeaveRightly
  BY <1>1, <1>3 DEF CreateTokenOwnerRecord, Created, DepositsLeaveRightly
<1>4. ASSUME NEW m, NEW amount \in Amounts, NEW minted, DepositGoverningTokens(m, amount, minted)
      PROVE  DepositsLeaveRightly
  <2>1. amount \in Nat
    BY ConstantsAssumption
  <2>2. CASE m \in DOMAIN tor
    <3>1. tor' = [tor EXCEPT ![m] = [tor[m] EXCEPT !.deposit = tor[m].deposit + amount]]
      BY <1>4, <2>2 DEF DepositGoverningTokens
    <3>2. [tor[m] EXCEPT !.deposit = tor[m].deposit + amount].deposit = tor[m].deposit + amount
      BY <1>1, <2>2 DEF TokenOwnerRecordType
    <3> QED
      BY <1>1, <2>1, <3>1, <3>2 DEF DepositsLeaveRightly
  <2>3. CASE m \notin DOMAIN tor
    BY <1>1, <1>4, <2>3 DEF DepositGoverningTokens, Created, DepositsLeaveRightly
  <2> QED
    BY <2>2, <2>3
<1>5. ASSUME NEW m, WithdrawGoverningTokens(m)
      PROVE  DepositsLeaveRightly
  <2>1. m \in DOMAIN tor /\ ~Committed(m)
    BY <1>5, WithdrawnIsUncommitted DEF WithdrawGoverningTokens
  <2>2. \A x \in DOMAIN tor \ {m} : tor'[x] = tor[x]
    BY <1>5 DEF WithdrawGoverningTokens
  <2> QED
    BY <1>1, <2>1, <2>2 DEF DepositsLeaveRightly
<1>6. ASSUME NEW m, NEW amount, RevokeGoverningTokens(m, amount)
      PROVE  DepositsLeaveRightly
  <2>1. m \in DOMAIN tor /\ realm.tokenType[MintOf[m]] = "Membership"
    BY <1>6 DEF RevokeGoverningTokens
  <2>2. \A x \in DOMAIN tor \ {m} : tor'[x] = tor[x]
    BY <1>6 DEF RevokeGoverningTokens
  <2> QED
    BY <1>1, <2>1, <2>2 DEF DepositsLeaveRightly
<1>7. ASSUME NEW m, NEW a, NEW id, NEW expiry, SetTokenOwnerRecordLock(m, a, id, expiry)
      PROVE  DepositsLeaveRightly
  BY <1>1, <1>7 DEF SetTokenOwnerRecordLock, DepositsLeaveRightly, TokenOwnerRecordType
<1>8. ASSUME NEW m, NEW a, NEW ids, NEW signed,
             RelinquishTokenOwnerRecordLocks(m, a, ids, signed)
      PROVE  DepositsLeaveRightly
  BY <1>1, <1>8 DEF RelinquishTokenOwnerRecordLocks, DepositsLeaveRightly, TokenOwnerRecordType
<1> QED
  BY <1>2, <1>3, <1>4, <1>5, <1>6, <1>7, <1>8 DEF TokenStep

\* The handlers of proposals and votes write the counters of records alone.
CountersWritten(before, after) ==
    /\ DOMAIN after = DOMAIN before
    /\ \A m \in DOMAIN before :
           after[m].deposit = before[m].deposit /\ after[m].locks = before[m].locks

LEMMA OwnerCountersWritten ==
    ASSUME NEW t, TorType(t), NEW owner \in DOMAIN t, NEW n
    PROVE  CountersWritten(t, [t EXCEPT ![owner].outstanding = n])
  BY DEF TorType, CountersWritten, TokenOwnerRecordType

LEMMA CountersWrittenDeposits ==
    ASSUME TypeInv, CountersWritten(tor, tor')
    PROVE  DepositsLeaveRightly
  BY DEF CountersWritten, DepositsLeaveRightly, TypeInv, TypeOK, TokenOwnerRecordType

LEMMA ProposalStepWritten ==
    ASSUME TypeInv, ProposalStep
    PROVE  CountersWritten(tor, tor')
<1>1. TorType(tor)
  BY DEF TypeInv, TypeOK, TorType
<1>2. ASSUME NEW p \in Proposals, NEW m, NEW mint, NEW ballot, CreateProposal(p, m, mint, ballot)
      PROVE  CountersWritten(tor, tor')
  BY <1>1, <1>2, OwnerCountersWritten DEF CreateProposal
<1>3. ASSUME NEW p \in Proposals, CancelProposal(p)
      PROVE  CountersWritten(tor, tor')
  BY <1>1, <1>3, OwnerCountersWritten DEF CancelProposal, TypeInv, References
<1>4. ASSUME NEW p, NEW s, NEW signing,
             \/ AddSignatory(p, s)
             \/ SignOffProposal(p, signing)
             \/ RefundProposalDeposit(p)
      PROVE  CountersWritten(tor, tor')
  BY <1>4 DEF AddSignatory, SignOffProposal, RefundProposalDeposit, CountersWritten
<1> QED
  BY <1>2, <1>3, <1>4 DEF ProposalStep

LEMMA VoteStepWritten ==
    ASSUME TypeInv, VoteStep
    PROVE  CountersWritten(tor, tor')
<1>1. TorType(tor)
  BY DEF TypeInv, TypeOK, TorType
<1>2. ASSUME NEW p \in DOMAIN proposal, NEW m \in Members, NEW vote \in Votes(p),
             CastVote(p, m, vote)
      PROVE  CountersWritten(tor, tor')
  <2>1. m \in DOMAIN tor /\ proposal[p].owner \in DOMAIN tor
    BY <1>2 DEF CastVote, TypeInv, References
  <2>2. TorType(Voted(m)) /\ DOMAIN Voted(m) = DOMAIN tor
    BY <2>1, VotedType
  <2>3. CountersWritten(tor, Voted(m))
    BY <1>1, <2>1 DEF CountersWritten, Voted, TorType, TokenOwnerRecordType
  <2>4. \/ tor' = Voted(m)
        \/ tor' = [Voted(m) EXCEPT ![proposal[p].owner].outstanding = Decreased(@)]
    BY <1>2, CastVoteEffect DEF DecidedRecords
  <2>5. tor' # Voted(m) => CountersWritten(Voted(m), tor')
    BY <2>1, <2>2, <2>4, OwnerCountersWritten
  <2> QED
    BY <2>3, <2>5 DEF CountersWritten
<1>3. ASSUME NEW r \in voteRecords, WithdrawVote(r) \/ PruneVote(r)
      PROVE  CountersWritten(tor, tor')
  BY <1>1, <1>3 DEF WithdrawVote, PruneVote, Relinquishes, CountersWritten, TorType,
                    TokenOwnerRecordType
<1>4. ASSUME NEW p \in Proposals, FinalizeVote(p)
      PROVE  CountersWritten(tor, tor')
  BY <1>1, <1>4, OwnerCountersWritten DEF FinalizeVote, TypeInv, References
<1> QED
  BY <1>2, <1>3, <1>4 DEF VoteStep

LEMMA NextDeposits ==
    ASSUME TypeInv, CountingInv, [Next]_vars
    PROVE  DepositsLeaveRightly
<1>1. CASE ConfigurationStep \/ UNCHANGED vars
  <2>1. tor' = tor
    BY <1>1, ConfigurationStepCounters DEF vars
  <2> QED
    BY <2>1, CountersWrittenDeposits DEF CountersWritten
<1> QED
  BY <1>1, TokenStepDeposits, ProposalStepWritten, VoteStepWritten, CountersWrittenDeposits
     DEF Next

\* Tokens leave a record that has a live vote, an undecided proposal or an
\* unexpired lock only by revocation of a membership, in every interleaving.
THEOREM CommittedTokensStayAlways == Spec => CommittedTokensStay
<1>1. TypeInv /\ CountingInv /\ [Next]_vars => DepositsLeaveRightly
  BY NextDeposits
<1>2. CommittedTokensStay <=> [][DepositsLeaveRightly]_vars
  BY PTL DEF CommittedTokensStay, DepositsLeaveRightly
<1>3. Init => TypeInv /\ CountingInv
  BY InitType, InitCounted
<1>4. TypeInv /\ CountingInv /\ [Next]_vars => (TypeInv /\ CountingInv)'
  BY NextType, NextCounted
<1> QED
  BY <1>1, <1>2, <1>3, <1>4, PTL DEF Spec

-----------------------------------------------------------------------------
(* Locks *)

LocksLeaveRightly ==
    \A m \in DOMAIN tor : \A lock \in UnexpiredLocks(m) \ tor'[m].locks :
        \/ lock.authority \notin lockAuthorities[MintOf[m]]
        \/ CallOf(lock.authority, m)

LEMMA LocksKept ==
    ASSUME \A m \in DOMAIN tor : tor'[m].locks = tor[m].locks
    PROVE  LocksLeaveRightly
  BY DEF LocksLeaveRightly, UnexpiredLocks

\* A record's locks are a field of their own, which two handlers write.
LEMMA TokenStepLocks ==
    ASSUME TypeInv, TokenStep
    PROVE  LocksLeaveRightly
<1>1. \A m \in DOMAIN tor : tor[m] \in TokenOwnerRecordType
  BY DEF TypeInv, TypeOK
<1>2. ASSUME NEW m \in DOMAIN tor, NEW value,
             tor' = [tor EXCEPT ![m] = [tor[m] EXCEPT !.deposit = value]]
      PROVE  LocksLeaveRightly
  BY <1>1, <1>2, LocksKept DEF TokenOwnerRecordType
<1>3. ASSUME NEW m \in Members, m \notin DOMAIN tor, NEW new, tor' = Created(tor, m, new)
      PROVE  LocksLeaveRightly
  BY <1>3, LocksKept DEF Created
<1>4. ASSUME NEW mint, NEW amount, MintTokens(mint, amount) \/ BurnTokens(mint, amount)
      PROVE  LocksLeaveRightly
  BY <1>4, LocksKept DEF MintTokens, BurnTokens
<1>5. ASSUME NEW m \in Members, NEW amount, NEW minted,
             \/ CreateTokenOwnerRecord(m)
             \/ DepositGoverningTokens(m, amount, minted)
             \/ WithdrawGoverningTokens(m)
             \/ RevokeGoverningTokens(m, amount)
      PROVE  LocksLeaveRightly
  BY <1>2, <1>3, <1>5 DEF CreateTokenOwnerRecord, DepositGoverningTokens,
                          WithdrawGoverningTokens, RevokeGoverningTokens
<1>6. ASSUME NEW m \in Members, NEW a \in Authorities, NEW id \in LockIds,
             NEW expiry \in {NoExpiry} \cup 1..MAX_TIME, SetTokenOwnerRecordLock(m, a, id, expiry)
      PROVE  LocksLeaveRightly
  <2>1. CallOf(a, m)
    BY <1>6 DEF CallOf
  <2>2. /\ \A x \in DOMAIN tor \ {m} : tor'[x] = tor[x]
        /\ m \in DOMAIN tor
        /\ \A lock \in UnexpiredLocks(m) : ~SameLock(lock, a, id) => lock \in tor'[m].locks
    BY <1>1, <1>6 DEF SetTokenOwnerRecordLock, TokenOwnerRecordType
  <2> QED
    BY <2>1, <2>2 DEF LocksLeaveRightly, UnexpiredLocks, SameLock
<1>7. ASSUME NEW m \in Members, NEW a \in Authorities, NEW ids \in SUBSET LockIds,
             NEW signed \in BOOLEAN, RelinquishTokenOwnerRecordLocks(m, a, ids, signed)
      PROVE  LocksLeaveRightly
  <2>1. \A lock \in UnexpiredLocks(m) : lock \notin tor'[m].locks => ids # {} /\ lock.authority = a
    BY <1>1, <1>7 DEF RelinquishTokenOwnerRecordLocks, TokenOwnerRecordType, SameLock
  <2>2. ids # {} => a \notin lockAuthorities[MintOf[m]] \/ CallOf(a, m)
    BY <1>7 DEF RelinquishTokenOwnerRecordLocks, CallOf
  <2>3. /\ m \in DOMAIN tor
        /\ \A x \in DOMAIN tor \ {m} : tor'[x] = tor[x]
    BY <1>7 DEF RelinquishTokenOwnerRecordLocks
  <2> QED
    BY <2>1, <2>2, <2>3 DEF LocksLeaveRightly, UnexpiredLocks
<1> QED
  BY <1>4, <1>5, <1>6, <1>7 DEF TokenStep

\* A lock that has not expired leaves a record by a call its authority has signed,
\* or once that authority is not configured any more.
THEOREM LocksAreTheirAuthoritysAlways == Spec => LocksAreTheirAuthoritys
<1>1. ASSUME TypeInv, [Next]_vars PROVE LocksLeaveRightly
  <2>1. CASE ConfigurationStep \/ UNCHANGED vars
    BY <2>1, ConfigurationStepCounters, LocksKept DEF vars
  <2>2. CASE ProposalStep \/ VoteStep
    BY <1>1, <2>2, ProposalStepWritten, VoteStepWritten, LocksKept DEF CountersWritten
  <2> QED
    BY <1>1, <2>1, <2>2, TokenStepLocks DEF Next
<1>2. LocksAreTheirAuthoritys <=> [][LocksLeaveRightly]_vars
  BY PTL DEF LocksAreTheirAuthoritys, LocksLeaveRightly
<1>3. Init => TypeInv
  BY InitType
<1>4. TypeInv /\ [Next]_vars => TypeInv'
  BY NextType
<1> QED
  BY <1>1, <1>2, <1>3, <1>4, PTL DEF Spec

-----------------------------------------------------------------------------
(* The tally as sums over the votes *)

DenyOf(r) == IF r.vote.kind = "Deny" THEN r.weight ELSE 0
VetoOf(r) == IF r.vote.kind = "Veto" THEN r.weight ELSE 0
ApproveOf(o, r) ==
    IF r.vote.kind = "Approve" THEN ChoiceWeight(r.vote.choices[o], r.weight) ELSE 0

DenySum(V) == SumFunction([r \in V |-> DenyOf(r)])
VetoSum(V) == SumFunction([r \in V |-> VetoOf(r)])
ApproveSum(o, V) == SumFunction([r \in V |-> ApproveOf(o, r)])

\* What the votes V leave on the proposal.
TallyIs(prop, V) ==
    /\ prop.deny = DenySum(V)
    /\ prop.veto = VetoSum(V)
    /\ \A o \in DOMAIN prop.weights : prop.weights[o] = ApproveSum(o, V)

LEMMA TallyMatchesByProposal ==
    TallyMatchesVotes <=> \A p \in DOMAIN proposal : TallyIs(proposal[p], VotesOn(p))
  BY Zenon DEF TallyMatchesVotes, TallyIs, DenySum, VetoSum, ApproveSum,
               SumOver, DenyOf, VetoOf, ApproveOf

FitsProposal(r, prop) ==
    /\ r \in VoteRecordType
    /\ r.vote.kind = "Approve" => DOMAIN r.vote.choices = DOMAIN prop.weights

\* A choice gets no more than the weight of its voter.
LEMMA ChoiceWithinWeight ==
    ASSUME NEW pct \in 0..100, NEW weight \in Nat
    PROVE  ChoiceWeight(pct, weight) \in 0..weight
<1>1. weight * pct \in Nat /\ weight * pct <= weight * 100
  <2>1. ASSUME NEW a \in Nat, NEW b \in 0..100 PROVE a * b \in Nat /\ a * b <= a * 100
    <3>1. a * (100 - b) \in Nat
      BY SMT
    <3>2. a * (100 - b) = a * 100 - a * b /\ a * b \in Nat
      BY SMT
    <3> QED
      BY <3>1, <3>2, SMT
  <2> QED
    BY <2>1
<1>2. ASSUME NEW n \in Nat, n <= weight * 100 PROVE n \div 100 \in 0..weight
  BY <1>2, SMT
<1> QED
  BY <1>1, <1>2 DEF ChoiceWeight

LEMMA WeightsOfVote ==
    ASSUME NEW prop \in ProposalType, NEW r, FitsProposal(r, prop)
    PROVE  /\ r.weight \in Nat
           /\ DenyOf(r) \in 0..r.weight /\ VetoOf(r) \in 0..r.weight
           /\ \A o \in DOMAIN prop.weights :
                  ApproveOf(o, r) \in 0..r.weight /\ ApproveOf(o, r) + DenyOf(r) \in 0..r.weight
<1>1. r.weight \in Nat /\ r.vote \in VoteType
  BY DEF FitsProposal, VoteRecordType
<1>2. ASSUME NEW o \in DOMAIN prop.weights, r.vote.kind = "Approve"
      PROVE  ChoiceWeight(r.vote.choices[o], r.weight) \in 0..r.weight
  <2>1. r.vote.choices \in Seq(0..100) /\ o \in DOMAIN r.vote.choices
    BY <1>1, <1>2 DEF FitsProposal, VoteType
  <2>2. r.vote.choices[o] \in 0..100
    BY <2>1, SeqIsFunction
  <2> QED
    BY <1>1, <2>2, ChoiceWithinWeight
<1> QED
  BY <1>1, <1>2 DEF DenyOf, VetoOf, ApproveOf

\* What counting a vote, or taking it off, does to the proposal.
LEMMA CountedFields ==
    ASSUME NEW prop \in ProposalType, NEW r, FitsProposal(r, prop), NEW sign \in {1, -1}
    PROVE  LET counted == Counted(prop, r.vote, r.weight, sign)
           IN  /\ DOMAIN counted.weights = DOMAIN prop.weights
               /\ Len(prop.weights) = 1 => counted.weights = <<counted.weights[1]>>
               /\ counted.deny = prop.deny + sign * DenyOf(r)
               /\ counted.veto = prop.veto + sign * VetoOf(r)
               /\ \A o \in DOMAIN prop.weights :
                      counted.weights[o] = prop.weights[o] + sign * ApproveOf(o, r)
               /\ counted.state = prop.state /\ counted.winners = prop.winners
               /\ counted.mint = prop.mint
               /\ counted.voteType = prop.voteType /\ counted.hasDeny = prop.hasDeny
<1> DEFINE weights == [o \in DOMAIN prop.weights |->
                          IF r.vote.kind = "Approve"
                          THEN prop.weights[o] + sign * ChoiceWeight(r.vote.choices[o], r.weight)
                          ELSE prop.weights[o]]
           deny == IF r.vote.kind = "Deny" THEN prop.deny + sign * r.weight ELSE prop.deny
           veto == IF r.vote.kind = "Veto" THEN prop.veto + sign * r.weight ELSE prop.veto
           counted == Counted(prop, r.vote, r.weight, sign)
<1>1. counted = [prop EXCEPT !.weights = weights, !.deny = deny, !.veto = veto]
  BY DEF Counted
<1>2. /\ counted.weights = weights /\ counted.deny = deny /\ counted.veto = veto
      /\ counted.state = prop.state /\ counted.winners = prop.winners
      /\ counted.mint = prop.mint
      /\ counted.voteType = prop.voteType /\ counted.hasDeny = prop.hasDeny
  BY <1>1 DEF ProposalType
<1>3. /\ prop.deny \in Nat /\ prop.veto \in Nat /\ prop.weights \in Seq(Nat)
  BY DEF ProposalType
<1>4. /\ Len(prop.weights) \in Nat /\ DOMAIN prop.weights = 1..Len(prop.weights)
      /\ \A o \in DOMAIN prop.weights : prop.weights[o] \in Nat
  BY <1>3, SeqIsFunction
<1>5. sign * 0 = 0
  BY SMT
<1>6. deny = prop.deny + sign * DenyOf(r) /\ veto = prop.veto + sign * VetoOf(r)
  BY <1>3, <1>5 DEF DenyOf, VetoOf
<1>7. \A o \in DOMAIN prop.weights : weights[o] = prop.weights[o] + sign * ApproveOf(o, r)
  BY <1>4, <1>5 DEF ApproveOf
<1>8. Len(prop.weights) = 1 => weights = <<weights[1]>>
  <2> SUFFICES ASSUME Len(prop.weights) = 1 PROVE weights = <<weights[1]>>
    OBVIOUS
  <2>1. DOMAIN weights = {1}
    BY <1>4
  <2>2. weights = [o \in DOMAIN weights |-> weights[o]]
    OBVIOUS
  <2> HIDE DEF weights
  <2>3. DOMAIN <<weights[1]>> = {1} /\ <<weights[1]>> = [o \in {1} |-> weights[1]]
    OBVIOUS
  <2>4. [o \in {1} |-> weights[o]] = [o \in {1} |-> weights[1]]
    OBVIOUS
  <2> QED
    BY <2>1, <2>2, <2>3, <2>4
<1>9. DOMAIN weights = DOMAIN prop.weights
  OBVIOUS
<1> HIDE DEF weights, deny, veto, counted
<1> QED
  BY <1>2, <1>6, <1>7, <1>8, <1>9 DEF counted

LEMMA TallyOfNone ==
    ASSUME NEW prop, prop.deny = 0, prop.veto = 0, \A o \in DOMAIN prop.weights : prop.weights[o] = 0
    PROVE  TallyIs(prop, {})
<1>1. ASSUME NEW f, DOMAIN f = {} PROVE SumFunction(f) = 0
  BY <1>1, SumOfNone DEF SumFunction
<1> QED
  BY <1>1 DEF TallyIs, DenySum, VetoSum, ApproveSum

\* A vote is added to those counted, and taken off: one element of each sum.
LEMMA OneVoteMore ==
    ASSUME NEW V, IsFiniteSet(V), NEW r, r \notin V, NEW prop \in ProposalType,
           \A v \in V \cup {r} : FitsProposal(v, prop)
    PROVE  /\ DenySum(V) \in Int
           /\ DenySum(V \cup {r}) = DenySum(V) + DenyOf(r)
           /\ VetoSum(V) \in Int
           /\ VetoSum(V \cup {r}) = VetoSum(V) + VetoOf(r)
           /\ \A o \in DOMAIN prop.weights :
                  /\ ApproveSum(o, V) \in Int
                  /\ ApproveSum(o, V \cup {r}) = ApproveSum(o, V) + ApproveOf(o, r)
<1>1. \A v \in V \cup {r} : DenyOf(v) \in Int /\ VetoOf(v) \in Int
      /\ \A o \in DOMAIN prop.weights : ApproveOf(o, v) \in Int
  BY WeightsOfVote
<1>2. /\ DenySum(V) \in Int
      /\ DenySum(V \cup {r}) = DenySum(V) + DenyOf(r)
  <2> DEFINE f == [v \in V |-> DenyOf(v)]
             g == [v \in V \cup {r} |-> DenyOf(v)]
  <2>1. /\ DOMAIN f = V /\ DOMAIN g = V \cup {r} /\ g[r] = DenyOf(r)
        /\ \A v \in V : g[v] = f[v]
        /\ \A v \in DOMAIN g : g[v] \in Int
    BY <1>1
  <2> HIDE DEF f, g
  <2>2. SumFunction(f) \in Int /\ SumFunction(g) = SumFunction(f) + g[r]
    BY <2>1, SumExtended
  <2> QED
    BY <2>1, <2>2 DEF f, g, DenySum
<1>3. /\ VetoSum(V) \in Int
      /\ VetoSum(V \cup {r}) = VetoSum(V) + VetoOf(r)
  <2> DEFINE f == [v \in V |-> VetoOf(v)]
             g == [v \in V \cup {r} |-> VetoOf(v)]
  <2>1. /\ DOMAIN f = V /\ DOMAIN g = V \cup {r} /\ g[r] = VetoOf(r)
        /\ \A v \in V : g[v] = f[v]
        /\ \A v \in DOMAIN g : g[v] \in Int
    BY <1>1
  <2> HIDE DEF f, g
  <2>2. SumFunction(f) \in Int /\ SumFunction(g) = SumFunction(f) + g[r]
    BY <2>1, SumExtended
  <2> QED
    BY <2>1, <2>2 DEF f, g, VetoSum
<1>4. ASSUME NEW o \in DOMAIN prop.weights
      PROVE  /\ ApproveSum(o, V) \in Int
             /\ ApproveSum(o, V \cup {r}) = ApproveSum(o, V) + ApproveOf(o, r)
  <2> DEFINE f == [v \in V |-> ApproveOf(o, v)]
             g == [v \in V \cup {r} |-> ApproveOf(o, v)]
  <2>1. /\ DOMAIN f = V /\ DOMAIN g = V \cup {r} /\ g[r] = ApproveOf(o, r)
        /\ \A v \in V : g[v] = f[v]
        /\ \A v \in DOMAIN g : g[v] \in Int
    BY <1>1
  <2> HIDE DEF f, g
  <2>2. SumFunction(f) \in Int /\ SumFunction(g) = SumFunction(f) + g[r]
    BY <2>1, SumExtended
  <2> QED
    BY <2>1, <2>2 DEF f, g, ApproveSum
<1> QED
  BY <1>2, <1>3, <1>4

LEMMA TallyAdd ==
    ASSUME NEW prop \in ProposalType, NEW V, IsFiniteSet(V), NEW r, r \notin V,
           \A v \in V \cup {r} : FitsProposal(v, prop), TallyIs(prop, V)
    PROVE  TallyIs(Counted(prop, r.vote, r.weight, 1), V \cup {r})
<1> DEFINE counted == Counted(prop, r.vote, r.weight, 1)
<1>1. /\ DOMAIN counted.weights = DOMAIN prop.weights
      /\ counted.deny = prop.deny + 1 * DenyOf(r)
      /\ counted.veto = prop.veto + 1 * VetoOf(r)
      /\ \A o \in DOMAIN prop.weights :
             counted.weights[o] = prop.weights[o] + 1 * ApproveOf(o, r)
  BY CountedFields
<1>2. /\ 1 * DenyOf(r) = DenyOf(r) /\ 1 * VetoOf(r) = VetoOf(r)
      /\ \A o \in DOMAIN prop.weights : 1 * ApproveOf(o, r) = ApproveOf(o, r)
  BY WeightsOfVote
<1>3. /\ DenySum(V \cup {r}) = DenySum(V) + DenyOf(r)
      /\ VetoSum(V \cup {r}) = VetoSum(V) + VetoOf(r)
      /\ \A o \in DOMAIN prop.weights : ApproveSum(o, V \cup {r}) = ApproveSum(o, V) + ApproveOf(o, r)
  BY OneVoteMore
<1> HIDE DEF counted
<1>4. /\ counted.deny = DenySum(V \cup {r}) /\ counted.veto = VetoSum(V \cup {r})
      /\ \A o \in DOMAIN prop.weights : counted.weights[o] = ApproveSum(o, V \cup {r})
  BY <1>1, <1>2, <1>3 DEF TallyIs
<1> QED
  BY <1>1, <1>4 DEF TallyIs, counted

LEMMA TallyRemove ==
    ASSUME NEW prop \in ProposalType, NEW V, IsFiniteSet(V), NEW r \in V,
           \A v \in V : FitsProposal(v, prop), TallyIs(prop, V)
    PROVE  TallyIs(Counted(prop, r.vote, r.weight, -1), V \ {r})
<1> DEFINE counted == Counted(prop, r.vote, r.weight, -1)
           W == V \ {r}
<1>1. /\ DOMAIN counted.weights = DOMAIN prop.weights
      /\ counted.deny = prop.deny + (-1) * DenyOf(r)
      /\ counted.veto = prop.veto + (-1) * VetoOf(r)
      /\ \A o \in DOMAIN prop.weights :
             counted.weights[o] = prop.weights[o] + (-1) * ApproveOf(o, r)
  BY CountedFields
<1>2. /\ DenyOf(r) \in Int /\ VetoOf(r) \in Int
      /\ \A o \in DOMAIN prop.weights : ApproveOf(o, r) \in Int
  BY WeightsOfVote
<1>3. IsFiniteSet(W) /\ r \notin W /\ V = W \cup {r}
  BY FS_RemoveElement
<1> HIDE DEF counted, W
<1>4. /\ DenySum(W) \in Int
      /\ prop.deny = DenySum(W) + DenyOf(r)
      /\ VetoSum(W) \in Int
      /\ prop.veto = VetoSum(W) + VetoOf(r)
      /\ \A o \in DOMAIN prop.weights :
             /\ ApproveSum(o, W) \in Int
             /\ prop.weights[o] = ApproveSum(o, W) + ApproveOf(o, r)
  BY <1>3, OneVoteMore, ZenonT(40) DEF TallyIs
<1>5. ASSUME NEW a \in Int, NEW b \in Int PROVE (a + b) + (-1) * b = a
  BY SMT
<1>6. /\ counted.deny = DenySum(W)
      /\ counted.veto = VetoSum(W)
  BY <1>1, <1>2, <1>4, <1>5
<1>7. ASSUME NEW o \in DOMAIN prop.weights
      PROVE  counted.weights[o] = ApproveSum(o, W)
  BY <1>1, <1>2, <1>4, <1>5
<1> QED
  BY <1>1, <1>6, <1>7 DEF TallyIs, counted, W

\* Marking a vote as relinquished leaves what it counts for.
LEMMA TallyRelabel ==
    ASSUME NEW prop \in ProposalType, NEW V, IsFiniteSet(V), NEW r \in V, NEW s, s \notin V,
           s.vote = r.vote, s.weight = r.weight,
           \A v \in V \cup {s} : FitsProposal(v, prop), TallyIs(prop, V)
    PROVE  TallyIs(prop, (V \ {r}) \cup {s})
<1> DEFINE W == V \ {r}
<1>1. IsFiniteSet(W) /\ r \notin W /\ s \notin W /\ V = W \cup {r}
  BY FS_RemoveElement
<1>2. /\ DenyOf(s) = DenyOf(r) /\ VetoOf(s) = VetoOf(r)
      /\ \A o : ApproveOf(o, s) = ApproveOf(o, r)
  BY DEF DenyOf, VetoOf, ApproveOf
<1>3. (\A v \in W \cup {r} : FitsProposal(v, prop)) /\ (\A v \in W \cup {s} : FitsProposal(v, prop))
  OBVIOUS
<1> HIDE DEF W
<1>4. /\ DenySum(W \cup {r}) = DenySum(W \cup {s})
      /\ VetoSum(W \cup {r}) = VetoSum(W \cup {s})
      /\ \A o \in DOMAIN prop.weights :
             ApproveSum(o, W \cup {r}) =
                 ApproveSum(o, W \cup {s})
  <2>1. /\ DenySum(W \cup {r}) = DenySum(W) + DenyOf(r)
        /\ VetoSum(W \cup {r}) = VetoSum(W) + VetoOf(r)
        /\ \A o \in DOMAIN prop.weights : ApproveSum(o, W \cup {r}) = ApproveSum(o, W) + ApproveOf(o, r)
    BY <1>1, <1>3, OneVoteMore
  <2>2. /\ DenySum(W \cup {s}) = DenySum(W) + DenyOf(s)
        /\ VetoSum(W \cup {s}) = VetoSum(W) + VetoOf(s)
        /\ \A o \in DOMAIN prop.weights : ApproveSum(o, W \cup {s}) = ApproveSum(o, W) + ApproveOf(o, s)
    BY <1>1, <1>3, OneVoteMore
  <2> QED
    BY <1>2, <2>1, <2>2
<1>5. TallyIs(prop, W \cup {r})
  BY <1>1
<1>6. TallyIs(prop, W \cup {s})
  BY <1>4, <1>5 DEF TallyIs
<1> QED
  BY <1>6 DEF W

-----------------------------------------------------------------------------
(* What the handlers do to the proposals *)

SameTally(before, after) ==
    /\ after.mint = before.mint
    /\ after.voteType = before.voteType /\ after.hasDeny = before.hasDeny
    /\ after.weights = before.weights /\ after.deny = before.deny /\ after.veto = before.veto

Decides(before, after, state, winners, max, pct) ==
    /\ SameTally(before, after)
    /\ after.state = state /\ after.winners = winners
    /\ after.maxVoteWeight = max /\ after.voteThreshold = pct

LEMMA DecisionFields ==
    ASSUME NEW prop \in ProposalType, NEW state \in ProposalStates, NEW winners \in SUBSET Nat,
           NEW at \in Nat, NEW max \in Nat, NEW pct \in 0..100
    PROVE  LET decided == [prop EXCEPT !.state = state, !.winners = winners,
                                       !.votingCompletedAt = at, !.maxVoteWeight = max,
                                       !.voteThreshold = pct]
           IN  decided \in ProposalType /\ Decides(prop, decided, state, winners, max, pct)
<1> DEFINE decided == [prop EXCEPT !.state = state, !.winners = winners,
                                   !.votingCompletedAt = at, !.maxVoteWeight = max,
                                   !.voteThreshold = pct]
<1>1. decided \in ProposalType
  BY DecisionUpdate
<1>2. /\ decided.mint = prop.mint /\ decided.voteType = prop.voteType
      /\ decided.hasDeny = prop.hasDeny /\ decided.weights = prop.weights
      /\ decided.deny = prop.deny /\ decided.veto = prop.veto
      /\ decided.state = state /\ decided.winners = winners
      /\ decided.maxVoteWeight = max /\ decided.voteThreshold = pct
  BY DEF ProposalType
<1> HIDE DEF decided
<1> QED
  BY <1>1, <1>2 DEF Decides, SameTally, decided

\* The vote counted, and the proposal as it is tipped by it.
LEMMA CastVoteDecision ==
    ASSUME TypeInv, NEW p \in DOMAIN proposal, NEW m \in Members, NEW vote \in Votes(p),
           CastVote(p, m, vote)
    PROVE  \E weight \in VoterWeights(m), new \in ProposalType :
              LET kind    == VoteKind(vote)
                  pct     == VoteThresholdOf(MintOf[m], kind)
                  counted == Counted(proposal[p], vote, weight, 1)
                  tipping == config.voteTipping[MintOf[m]]
              IN  /\ voteRecords' = voteRecords \cup {NewVote(p, m, vote, weight)}
                  /\ proposal' = [proposal EXCEPT ![p] = new]
                  /\ counted \in ProposalType
                  /\ \/ new = counted
                     \/ \E max \in MaxVoterWeights(MintOf[m], counted, kind) : \E winners :
                          LET state == TippedState(counted, kind, max, pct, tipping)
                          IN  /\ state # "Voting"
                              /\ winners = IF state = "Succeeded" THEN {1} ELSE {}
                              /\ Decides(counted, new, state, winners, max, pct)
<1> DEFINE kind == VoteKind(vote)
           pct == VoteThresholdOf(MintOf[m], kind)
           tipping == config.voteTipping[MintOf[m]]
<1>1. /\ m \in DOMAIN tor /\ MintOf[m] \in Mints /\ proposal[p] \in ProposalType
  BY ConstantsAssumption DEF CastVote, TypeInv, TypeOK
<1>2. PICK weight \in VoterWeights(m) :
        LET counted == Counted(proposal[p], vote, weight, 1)
        IN  /\ voteRecords' = voteRecords \cup {NewVote(p, m, vote, weight)}
            /\ \E max \in MaxVoterWeights(MintOf[m], counted, kind) :
                 LET state == TippedState(counted, kind, max, pct, tipping)
                 IN  IF state = "Voting"
                     THEN proposal' = [proposal EXCEPT ![p] = counted]
                     ELSE proposal' = [proposal EXCEPT ![p] =
                                [counted EXCEPT !.state = state,
                                    !.winners = IF state = "Succeeded" THEN {1} ELSE {},
                                    !.votingCompletedAt = now,
                                    !.maxVoteWeight = max,
                                    !.voteThreshold = pct]]
  BY Zenon DEF CastVote, NewVote
<1> DEFINE counted == Counted(proposal[p], vote, weight, 1)
<1>3. weight \in Nat
  BY <1>1, VoterWeightsType
<1>4. counted \in ProposalType
  BY <1>1, <1>3, VotesFit, CountedType
<1>5. PICK max \in MaxVoterWeights(MintOf[m], counted, kind) :
        LET state == TippedState(counted, kind, max, pct, tipping)
        IN  IF state = "Voting"
            THEN proposal' = [proposal EXCEPT ![p] = counted]
            ELSE proposal' = [proposal EXCEPT ![p] =
                       [counted EXCEPT !.state = state,
                           !.winners = IF state = "Succeeded" THEN {1} ELSE {},
                           !.votingCompletedAt = now,
                           !.maxVoteWeight = max,
                           !.voteThreshold = pct]]
  BY <1>2
<1> DEFINE state == TippedState(counted, kind, max, pct, tipping)
           winners == IF state = "Succeeded" THEN {1} ELSE {}
           decided == [counted EXCEPT !.state = state, !.winners = winners,
                                      !.votingCompletedAt = now, !.maxVoteWeight = max,
                                      !.voteThreshold = pct]
<1> HIDE DEF counted, pct, tipping, kind
<1>6. CASE state = "Voting"
  <2>1. proposal' = [proposal EXCEPT ![p] = counted]
    BY <1>5, <1>6
  <2> QED
    BY <1>2, <1>4, <2>1 DEF counted
<1>7. CASE state # "Voting"
  <2>1. proposal' = [proposal EXCEPT ![p] = decided]
    BY <1>5, <1>7
  <2>2. state \in ProposalStates
    BY <1>7, TippedStateType DEF DecidedStates, ProposalStates
  <2>3. max \in Nat /\ pct \in 0..100 /\ now \in Nat /\ winners \in SUBSET Nat
    BY <1>1, <1>4, MaxVoterWeightsType, ThresholdType DEF TypeInv, TypeOK, pct
  <2>4. winners = IF state = "Succeeded" THEN {1} ELSE {}
    OBVIOUS
  <2> HIDE DEF state, winners
  <2>5. decided \in ProposalType /\ Decides(counted, decided, state, winners, max, pct)
    BY <1>4, <2>2, <2>3, DecisionFields
  <2> HIDE DEF decided
  <2>6. \E w : /\ w = IF state = "Succeeded" THEN {1} ELSE {}
               /\ Decides(counted, decided, state, w, max, pct)
    BY <2>4, <2>5
  <2> QED
    BY <1>2, <1>4, <1>7, <2>1, <2>5, <2>6 DEF counted, state, kind, pct, tipping
<1> QED
  BY <1>6, <1>7

LEMMA FinalizeVoteDecision ==
    ASSUME TypeInv, NEW p \in Proposals, FinalizeVote(p)
    PROVE  /\ p \in DOMAIN proposal /\ voteRecords' = voteRecords
           /\ proposal[p].state = "Voting"
           /\ \E new \in ProposalType, max \in Nat, pct \in 0..100 :
                 LET prop == proposal[p]
                     thr  == MinVoteThresholdWeight(pct, max)
                 IN  /\ proposal' = [proposal EXCEPT ![p] = new]
                     /\ Decides(prop, new,
                                FinalVoteState(prop.voteType, prop.weights, prop.hasDeny,
                                               prop.deny, thr),
                                WinningOptions(prop.voteType, prop.weights, prop.deny, thr),
                                max, pct)
<1> DEFINE prop == proposal[p]
           pct == VoteThresholdOf(prop.mint, "Electorate")
<1>1. /\ p \in DOMAIN proposal /\ prop \in ProposalType /\ voteRecords' = voteRecords
      /\ prop.state = "Voting"
  BY DEF FinalizeVote, TypeInv, TypeOK
<1>2. PICK max \in MaxVoterWeights(prop.mint, prop, "Electorate") :
        LET thr == MinVoteThresholdWeight(pct, max)
        IN  proposal' = [proposal EXCEPT
                ![p].state = FinalVoteState(prop.voteType, prop.weights,
                                            prop.hasDeny, prop.deny, thr),
                ![p].winners = WinningOptions(prop.voteType, prop.weights,
                                              prop.deny, thr),
                ![p].votingCompletedAt = VotingMaxTimeEnd(p),
                ![p].maxVoteWeight = max,
                ![p].voteThreshold = pct]
  BY DEF FinalizeVote
<1> DEFINE thr == MinVoteThresholdWeight(pct, max)
           state == FinalVoteState(prop.voteType, prop.weights, prop.hasDeny, prop.deny, thr)
           winners == WinningOptions(prop.voteType, prop.weights, prop.deny, thr)
           at == VotingMaxTimeEnd(p)
           decided == [prop EXCEPT !.state = state, !.winners = winners,
                                   !.votingCompletedAt = at, !.maxVoteWeight = max,
                                   !.voteThreshold = pct]
<1>3. proposal' = [proposal EXCEPT ![p] = decided]
  BY <1>2
<1>4. /\ prop.mint \in Mints /\ prop.weights \in Seq(Nat) /\ prop.votingAt \in Nat
  BY <1>1 DEF ProposalType
<1>5. max \in Nat /\ pct \in 0..100
  BY <1>1, <1>4, MaxVoterWeightsType, ThresholdType
<1>6. at \in Nat
  BY <1>4 DEF VotingMaxTimeEnd, VotingBaseTimeEnd, TypeInv, TypeOK, ConfigType
<1>7. state \in ProposalStates /\ winners \in SUBSET Nat
  BY <1>4, FinalVoteStateType, WinningOptionsType DEF DecidedStates, ProposalStates
<1>8. decided \in ProposalType /\ Decides(prop, decided, state, winners, max, pct)
  <2> HIDE DEF prop, pct, thr, state, winners, at
  <2> QED
    BY <1>1, <1>5, <1>6, <1>7, DecisionFields
<1> HIDE DEF decided, pct
<1> QED
  BY <1>1, <1>3, <1>5, <1>8

\* What the handlers of the proposal's owner and signatories leave of it.
Advances(before, after) ==
    /\ SameTally(before, after) /\ after.winners = before.winners
    /\ after.state \in {"Draft", "SigningOff"} => before.state \in {"Draft", "SigningOff"}
    /\ after.state = "Voting" => before.state \in {"Draft", "SigningOff"}
    /\ after.state \in {"Draft", "SigningOff", "Voting", "Cancelled"}

IsFresh(prop) ==
    /\ prop.state = "Draft" /\ prop.winners = {} /\ prop.deny = 0 /\ prop.veto = 0
    /\ \A o \in DOMAIN prop.weights : prop.weights[o] = 0

LEMMA FieldsAdvance ==
    ASSUME NEW prop \in ProposalType, prop.state \in {"Draft", "SigningOff"},
           NEW S \in SUBSET Signatories, NEW at \in Nat,
           NEW state \in {"SigningOff", "Voting"}
    PROVE  /\ Advances(prop, [prop EXCEPT !.signatories = S])
           /\ Advances(prop, [prop EXCEPT !.signedOff = S, !.state = state, !.votingAt = at])
<1>1. Advances(prop, [prop EXCEPT !.signatories = S])
  BY DEF ProposalType, Advances, SameTally
<1>2. Advances(prop, [prop EXCEPT !.signedOff = S, !.state = state, !.votingAt = at])
  BY DEF ProposalType, Advances, SameTally
<1> QED
  BY <1>1, <1>2

LEMMA CancelAdvances ==
    ASSUME NEW prop \in ProposalType
    PROVE  Advances(prop, [prop EXCEPT !.state = "Cancelled", !.closed = TRUE])
  BY DEF ProposalType, Advances, SameTally

\* One proposal advances or is created; the others and all votes stay.
OneProposalMoves ==
    /\ voteRecords' = voteRecords
    /\ \/ UNCHANGED proposal
       \/ \E p \in Proposals \ DOMAIN proposal : \E new :
              IsFresh(new) /\ proposal' = Created(proposal, p, new)
       \/ \E p \in DOMAIN proposal : \E new :
              Advances(proposal[p], new) /\ proposal' = [proposal EXCEPT ![p] = new]

LEMMA ProposalStepEffect == TypeInv /\ ProposalStep => OneProposalMoves
<1> SUFFICES ASSUME TypeInv, ProposalStep PROVE OneProposalMoves
  OBVIOUS
<1>1. PICK p \in Proposals :
        \/ \E m \in Members, mint \in Mints, ballot \in Ballots :
               CreateProposal(p, m, mint, ballot)
        \/ \E s \in Signatories : AddSignatory(p, s)
        \/ \E signing \in {{}} \cup {{s} : s \in Signatories} :
               now <= LAST_START /\ SignOffProposal(p, signing)
        \/ CancelProposal(p)
        \/ RefundProposalDeposit(p)
  BY DEF ProposalStep
<1>2. ASSUME p \in DOMAIN proposal PROVE proposal[p] \in ProposalType
  BY <1>2 DEF TypeInv, TypeOK
<1>3. ASSUME NEW m \in Members, NEW mint \in Mints, NEW ballot \in Ballots,
             CreateProposal(p, m, mint, ballot)
      PROVE  OneProposalMoves
  <2>1. IsFresh(NewProposal(m, mint, ballot))
    BY DEF NewProposal, IsFresh
  <2> QED
    BY <1>3, <2>1 DEF CreateProposal, OneProposalMoves
<1>4. ASSUME NEW s \in Signatories, AddSignatory(p, s)
      PROVE  OneProposalMoves
  <2>1. /\ p \in DOMAIN proposal /\ proposal[p].state = "Draft" /\ voteRecords' = voteRecords
        /\ proposal' = [proposal EXCEPT ![p] =
               [proposal[p] EXCEPT !.signatories = proposal[p].signatories \cup {s}]]
    BY <1>4 DEF AddSignatory
  <2>2. proposal[p].signatories \cup {s} \in SUBSET Signatories
    BY <1>2, <2>1 DEF ProposalType
  <2>3. Advances(proposal[p], [proposal[p] EXCEPT !.signatories = proposal[p].signatories \cup {s}])
    BY <1>2, <2>1, <2>2, FieldsAdvance
  <2> QED
    BY <2>1, <2>3 DEF OneProposalMoves
<1>5. ASSUME NEW signing \in {{}} \cup {{s} : s \in Signatories}, SignOffProposal(p, signing)
      PROVE  OneProposalMoves
  <2> DEFINE signedOff == proposal[p].signedOff \cup signing
             starts == StartsVoting(signedOff, proposal[p].signatories)
             state == IF starts THEN "Voting" ELSE "SigningOff"
             at == IF starts THEN now ELSE proposal[p].votingAt
             new == [proposal[p] EXCEPT !.signedOff = signedOff, !.state = state, !.votingAt = at]
  <2>1. /\ p \in DOMAIN proposal /\ proposal[p].state \in {"Draft", "SigningOff"}
        /\ voteRecords' = voteRecords
        /\ proposal' = [proposal EXCEPT ![p] = new]
    BY <1>5 DEF SignOffProposal, CanSignOff
  <2>2. /\ signedOff \in SUBSET Signatories /\ at \in Nat /\ state \in {"SigningOff", "Voting"}
    BY <1>2, <2>1 DEF ProposalType, TypeInv, TypeOK
  <2> HIDE DEF signedOff, state, at
  <2>3. Advances(proposal[p], new)
    BY <1>2, <2>1, <2>2, FieldsAdvance
  <2> HIDE DEF new
  <2> QED
    BY <2>1, <2>3 DEF OneProposalMoves
<1>6. CASE CancelProposal(p)
  <2>1. /\ p \in DOMAIN proposal /\ voteRecords' = voteRecords
        /\ proposal' = [proposal EXCEPT ![p] =
               [proposal[p] EXCEPT !.state = "Cancelled", !.closed = TRUE]]
    BY <1>6 DEF CancelProposal
  <2> QED
    BY <1>2, <2>1, CancelAdvances DEF OneProposalMoves
<1>7. CASE RefundProposalDeposit(p)
  BY <1>7 DEF RefundProposalDeposit, OneProposalMoves
<1> QED
  BY <1>1, <1>3, <1>4, <1>5, <1>6, <1>7

-----------------------------------------------------------------------------
(* Whose votes there are *)

OneVoteEach ==
    \A r, s \in voteRecords : r.proposal = s.proposal /\ r.voter = s.voter => r = s

\* Votes are cast after the sign off, and none on an open vote is relinquished.
OpenVotesLive ==
    \A r \in voteRecords :
        /\ proposal[r.proposal].state \notin {"Draft", "SigningOff"}
        /\ proposal[r.proposal].state = "Voting" => ~r.relinquished

VotersAreOfMint ==
    \A r \in voteRecords :
        MintOf[r.voter] = VotingMint(proposal[r.proposal].mint, VoteKind(r.vote))

VotesInv == OneVoteEach /\ OpenVotesLive /\ VotersAreOfMint

\* The proposals with votes are as they were, or on.
LEMMA VotesKept ==
    ASSUME TypeInv, VotesInv, voteRecords' = voteRecords,
           \A p \in DOMAIN proposal :
               /\ proposal'[p].mint = proposal[p].mint
               /\ proposal[p].state \notin {"Draft", "SigningOff"} =>
                      /\ proposal'[p].state \notin {"Draft", "SigningOff"}
                      /\ proposal'[p].state = "Voting" => proposal[p].state = "Voting"
    PROVE  VotesInv'
<1>1. \A r \in voteRecords : r.proposal \in DOMAIN proposal
  BY DEF TypeInv, References
<1>2. OneVoteEach'
  BY DEF VotesInv, OneVoteEach
<1>3. OpenVotesLive'
  BY <1>1 DEF VotesInv, OpenVotesLive
<1>4. VotersAreOfMint'
  BY <1>1 DEF VotesInv, VotersAreOfMint, VotingMint, VoteKind
<1> QED
  BY <1>2, <1>3, <1>4 DEF VotesInv

LEMMA ProposalStepVotes ==
    ASSUME TypeInv, VotesInv, ProposalStep
    PROVE  VotesInv'
<1>1. voteRecords' = voteRecords
  BY ProposalStepEffect DEF OneProposalMoves
<1>2. CASE UNCHANGED proposal
  BY <1>1, <1>2, VotesKept
<1>3. ASSUME NEW p \in Proposals \ DOMAIN proposal, NEW new, proposal' = Created(proposal, p, new)
      PROVE  VotesInv'
  <2>1. \A q \in DOMAIN proposal : proposal'[q] = proposal[q]
    BY <1>3 DEF Created
  <2> QED
    BY <1>1, <2>1, VotesKept
<1>4. ASSUME NEW p \in DOMAIN proposal, NEW new, Advances(proposal[p], new),
             proposal' = [proposal EXCEPT ![p] = new]
      PROVE  VotesInv'
  <2>1. proposal'[p] = new /\ \A q \in DOMAIN proposal \ {p} : proposal'[q] = proposal[q]
    BY <1>4
  <2>2. new.mint = proposal[p].mint
    BY <1>4 DEF Advances, SameTally
  <2>3. proposal[p].state \notin {"Draft", "SigningOff"} =>
            new.state \notin {"Draft", "SigningOff"} /\ new.state # "Voting"
    BY <1>4 DEF Advances
  <2> QED
    BY <1>1, <2>1, <2>2, <2>3, VotesKept
<1> QED
  BY <1>2, <1>3, <1>4, ProposalStepEffect DEF OneProposalMoves

LEMMA CastVoteVotes ==
    ASSUME TypeInv, VotesInv, NEW p \in DOMAIN proposal, NEW m \in Members, NEW vote \in Votes(p),
           CastVote(p, m, vote)
    PROVE  VotesInv'
<1>1. /\ ~\E r \in voteRecords : r.proposal = p /\ r.voter = m
      /\ VotingMint(proposal[p].mint, VoteKind(vote)) = MintOf[m]
      /\ proposal[p].state = "Voting"
  BY DEF CastVote, CanVoteOn
<1>2. PICK weight \in Nat, new \in ProposalType :
        /\ voteRecords' = voteRecords \cup {NewVote(p, m, vote, weight)}
        /\ proposal' = [proposal EXCEPT ![p] = new]
        /\ new.state \in DecidedStates \cup {"Voting"}
  BY CastVoteEffect
<1>3. new.mint = proposal[p].mint
  <2>1. PICK w \in VoterWeights(m), prop \in ProposalType :
          /\ proposal' = [proposal EXCEPT ![p] = prop]
          /\ prop = Counted(proposal[p], vote, w, 1) \/ SameTally(Counted(proposal[p], vote, w, 1), prop)
    BY CastVoteDecision DEF Decides
  <2>2. Counted(proposal[p], vote, w, 1).mint = proposal[p].mint
    BY DEF Counted, TypeInv, TypeOK, ProposalType
  <2>3. prop = new
    BY <1>2, <2>1
  <2> QED
    BY <2>1, <2>2, <2>3 DEF SameTally
<1> DEFINE cast == NewVote(p, m, vote, weight)
<1>4. /\ cast.proposal = p /\ cast.voter = m /\ cast.vote = vote /\ ~cast.relinquished
  BY DEF NewVote
<1> HIDE DEF cast
<1>5. OneVoteEach'
  BY <1>1, <1>2, <1>4 DEF OneVoteEach, VotesInv, cast
<1>6. \A r \in voteRecords : r.proposal \in DOMAIN proposal
  BY DEF TypeInv, References
<1>7. proposal'[p] = new /\ \A q \in DOMAIN proposal \ {p} : proposal'[q] = proposal[q]
  BY <1>2
<1>8. OpenVotesLive'
  BY <1>1, <1>2, <1>4, <1>6, <1>7 DEF OpenVotesLive, VotesInv, cast, DecidedStates
<1>9. VotersAreOfMint'
  <2>1. \A q \in DOMAIN proposal : proposal'[q].mint = proposal[q].mint
    BY <1>3, <1>7
  <2>2. MintOf[cast.voter] = VotingMint(proposal'[cast.proposal].mint, VoteKind(cast.vote))
    BY <1>1, <1>4, <2>1
  <2> QED
    BY <1>2, <1>6, <2>1, <2>2 DEF VotersAreOfMint, VotesInv, cast, VotingMint, VoteKind
<1> QED
  BY <1>5, <1>8, <1>9 DEF VotesInv

LEMMA VoteStepVotes ==
    ASSUME TypeInv, VotesInv, VoteStep
    PROVE  VotesInv'
<1>0. \A r \in voteRecords : r.proposal \in DOMAIN proposal
  BY DEF TypeInv, References
<1>1. ASSUME NEW r \in voteRecords, WithdrawVote(r)
      PROVE  VotesInv'
  <2> DEFINE p == r.proposal
             counted == Counted(proposal[p], r.vote, r.weight, -1)
  <2>1. /\ proposal' = [proposal EXCEPT ![p] = counted] /\ voteRecords' \subseteq voteRecords
    BY <1>1 DEF WithdrawVote
  <2>2. counted.mint = proposal[p].mint /\ counted.state = proposal[p].state
    BY <1>0 DEF Counted, TypeInv, TypeOK, ProposalType
  <2> HIDE DEF counted
  <2>3. \A q \in DOMAIN proposal : /\ proposal'[q].mint = proposal[q].mint
                                   /\ proposal'[q].state = proposal[q].state
    BY <2>1, <2>2
  <2> HIDE DEF p
  <2>4. OneVoteEach' /\ OpenVotesLive'
    BY <1>0, <2>1, <2>3 DEF VotesInv, OneVoteEach, OpenVotesLive
  <2>5. VotersAreOfMint'
    BY <1>0, <2>1, <2>3 DEF VotesInv, VotersAreOfMint, VotingMint, VoteKind
  <2> QED
    BY <2>4, <2>5 DEF VotesInv
<1>2. ASSUME NEW r \in voteRecords, PruneVote(r)
      PROVE  VotesInv'
  <2> DEFINE pruned == [r EXCEPT !.relinquished = TRUE]
  <2>1. /\ proposal' = proposal /\ proposal[r.proposal].state # "Voting"
        /\ voteRecords' = (voteRecords \ {r}) \cup {pruned}
    BY <1>2 DEF PruneVote, CanPrune
  <2>2. /\ pruned.proposal = r.proposal /\ pruned.voter = r.voter /\ pruned.vote = r.vote
    BY DEF TypeInv, TypeOK, VoteRecordType
  <2> HIDE DEF pruned
  <2>3. OneVoteEach'
    BY <2>1, <2>2 DEF VotesInv, OneVoteEach
  <2>4. OpenVotesLive'
    BY <2>1, <2>2 DEF VotesInv, OpenVotesLive
  <2>5. VotersAreOfMint'
    BY <2>1, <2>2 DEF VotesInv, VotersAreOfMint, VotingMint, VoteKind
  <2> QED
    BY <2>3, <2>4, <2>5 DEF VotesInv
<1>3. ASSUME NEW p \in Proposals, FinalizeVote(p)
      PROVE  VotesInv'
  <2>1. /\ p \in DOMAIN proposal /\ voteRecords' = voteRecords
    BY <1>3, FinalizeVoteDecision
  <2>2. PICK new : /\ proposal' = [proposal EXCEPT ![p] = new]
                   /\ new.mint = proposal[p].mint /\ new.state \in DecidedStates
    BY <1>3, FinalizeVoteDecision, FinalVoteStateType, SMTT(40) DEF Decides, SameTally
  <2>3. /\ proposal'[p] = new /\ \A q \in DOMAIN proposal \ {p} : proposal'[q] = proposal[q]
    BY <2>1, <2>2
  <2> QED
    BY <2>1, <2>2, <2>3, VotesKept DEF DecidedStates
<1> QED
  BY <1>1, <1>2, <1>3, CastVoteVotes DEF VoteStep

LEMMA OtherStepsVotes ==
    ASSUME TypeInv, VotesInv, ConfigurationStep \/ TokenStep \/ UNCHANGED vars
    PROVE  VotesInv' /\ UNCHANGED <<proposal, voteRecords>>
<1>1. UNCHANGED <<proposal, voteRecords>>
  BY ConfigurationStepCounters, TokenStepCounters DEF vars, proposalVars
<1>2. VotesInv'
  BY <1>1, VotesKept
<1> QED
  BY <1>1, <1>2

-----------------------------------------------------------------------------
(* The tally matches the votes *)

TallyInv == \A p \in DOMAIN proposal : TallyIs(proposal[p], VotesOn(p))

LEMMA VotesFitProposals ==
    ASSUME TypeInv, CountingInv, NEW p \in DOMAIN proposal
    PROVE  /\ proposal[p] \in ProposalType /\ IsFiniteSet(VotesOn(p))
           /\ \A r \in VotesOn(p) : FitsProposal(r, proposal[p])
<1>1. VotesOn(p) \subseteq voteRecords
  BY DEF VotesOn
<1>2. IsFiniteSet(VotesOn(p))
  BY <1>1, FS_Subset DEF CountingInv
<1> QED
  BY <1>2 DEF TypeInv, TypeOK, References, VotesOn, FitsProposal

LEMMA SameTallySameSums ==
    ASSUME NEW before, NEW after, SameTally(before, after), NEW V, TallyIs(before, V)
    PROVE  TallyIs(after, V)
  BY DEF SameTally, TallyIs

LEMMA ProposalStepTally ==
    ASSUME TypeInv, TallyInv, ProposalStep
    PROVE  TallyInv'
<1>1. voteRecords' = voteRecords
  BY ProposalStepEffect DEF OneProposalMoves
<1>2. \A q : VotesOn(q)' = VotesOn(q)
  BY <1>1 DEF VotesOn
<1>3. CASE UNCHANGED proposal
  BY <1>2, <1>3 DEF TallyInv
<1>4. ASSUME NEW p \in Proposals \ DOMAIN proposal, NEW new, IsFresh(new),
             proposal' = Created(proposal, p, new)
      PROVE  TallyInv'
  <2>1. /\ DOMAIN proposal' = DOMAIN proposal \cup {p} /\ proposal'[p] = new
        /\ \A q \in DOMAIN proposal : proposal'[q] = proposal[q]
    BY <1>4 DEF Created
  <2>2. VotesOn(p) = {}
    BY DEF VotesOn, TypeInv, References
  <2>3. TallyIs(new, {})
    BY <1>4, TallyOfNone DEF IsFresh
  <2> QED
    BY <1>2, <2>1, <2>2, <2>3 DEF TallyInv
<1>5. ASSUME NEW p \in DOMAIN proposal, NEW new, Advances(proposal[p], new),
             proposal' = [proposal EXCEPT ![p] = new]
      PROVE  TallyInv'
  <2>1. /\ DOMAIN proposal' = DOMAIN proposal /\ proposal'[p] = new
        /\ \A q \in DOMAIN proposal \ {p} : proposal'[q] = proposal[q]
    BY <1>5
  <2>2. TallyIs(new, VotesOn(p))
    BY <1>5, SameTallySameSums DEF Advances, TallyInv
  <2> QED
    BY <1>2, <2>1, <2>2 DEF TallyInv
<1> QED
  BY <1>3, <1>4, <1>5, ProposalStepEffect DEF OneProposalMoves

\* One proposal and its votes change.
LEMMA OneTallyChanges ==
    ASSUME TallyInv, NEW p \in DOMAIN proposal, NEW new,
           proposal' = [proposal EXCEPT ![p] = new],
           \A q \in DOMAIN proposal \ {p} : VotesOn(q)' = VotesOn(q),
           TallyIs(new, VotesOn(p)')
    PROVE  TallyInv'
<1>1. /\ DOMAIN proposal' = DOMAIN proposal /\ proposal'[p] = new
      /\ \A q \in DOMAIN proposal \ {p} : proposal'[q] = proposal[q]
  OBVIOUS
<1> QED
  BY <1>1 DEF TallyInv

\* The new vote and the votes it joins.
LEMMA CastVoteTally ==
    ASSUME TypeInv, CountingInv, TallyInv, NEW p \in DOMAIN proposal, NEW m \in Members,
           NEW vote \in Votes(p), CastVote(p, m, vote),
           NEW weight \in VoterWeights(m),
           voteRecords' = voteRecords \cup {NewVote(p, m, vote, weight)}
    PROVE  /\ NewVote(p, m, vote, weight) \notin voteRecords
           /\ FitsProposal(NewVote(p, m, vote, weight), proposal[p])
           /\ VotesOn(p)' = VotesOn(p) \cup {NewVote(p, m, vote, weight)}
           /\ \A q \in DOMAIN proposal \ {p} : VotesOn(q)' = VotesOn(q)
           /\ TallyIs(Counted(proposal[p], vote, weight, 1), VotesOn(p)')
<1> DEFINE cast == NewVote(p, m, vote, weight)
<1>1. /\ m \in DOMAIN tor /\ ~\E r \in voteRecords : r.proposal = p /\ r.voter = m
  BY DEF CastVote
<1>2. /\ cast.proposal = p /\ cast.voter = m /\ cast.vote = vote /\ cast.weight = weight
  BY DEF NewVote
<1>3. cast \notin voteRecords
  BY <1>1, <1>2
<1>4. FitsProposal(cast, proposal[p])
  <2>1. weight \in Nat /\ p \in Proposals
    BY <1>1, VoterWeightsType DEF TypeInv, TypeOK
  <2>2. vote \in VoteType /\ vote.kind = "Approve" => DOMAIN vote.choices = DOMAIN proposal[p].weights
    BY VotesFit
  <2>3. vote \in VoteType
    BY VotesFit
  <2>4. cast \in VoteRecordType
    BY <2>1, <2>3 DEF NewVote, VoteRecordType
  <2> HIDE DEF cast
  <2> QED
    BY <1>2, <2>2, <2>3, <2>4 DEF FitsProposal
<1> HIDE DEF cast
<1>5. VotesOn(p)' = VotesOn(p) \cup {cast}
  BY <1>2 DEF VotesOn, cast
<1>6. \A q \in DOMAIN proposal \ {p} : VotesOn(q)' = VotesOn(q)
  BY <1>2 DEF VotesOn, cast
<1>7. cast \notin VotesOn(p)
  BY <1>3 DEF VotesOn
<1>8. TallyIs(Counted(proposal[p], cast.vote, cast.weight, 1), VotesOn(p) \cup {cast})
  <2>1. \A v \in VotesOn(p) \cup {cast} : FitsProposal(v, proposal[p])
    BY <1>4, VotesFitProposals
  <2>2. IsFiniteSet(VotesOn(p)) /\ proposal[p] \in ProposalType /\ TallyIs(proposal[p], VotesOn(p))
    BY VotesFitProposals DEF TallyInv
  <2> QED
    BY <1>7, <2>1, <2>2, TallyAdd
<1> QED
  BY <1>2, <1>3, <1>4, <1>5, <1>6, <1>8 DEF cast

LEMMA VoteStepTally ==
    ASSUME TypeInv, CountingInv, VotesInv, TallyInv, VoteStep
    PROVE  TallyInv'
<1>1. ASSUME NEW p \in DOMAIN proposal, NEW m \in Members, NEW vote \in Votes(p),
             CastVote(p, m, vote)
      PROVE  TallyInv'
  <2>1. PICK weight \in VoterWeights(m), new \in ProposalType :
          /\ voteRecords' = voteRecords \cup {NewVote(p, m, vote, weight)}
          /\ proposal' = [proposal EXCEPT ![p] = new]
          /\ \/ new = Counted(proposal[p], vote, weight, 1)
             \/ SameTally(Counted(proposal[p], vote, weight, 1), new)
    BY <1>1, CastVoteDecision DEF Decides
  <2>2. /\ \A q \in DOMAIN proposal \ {p} : VotesOn(q)' = VotesOn(q)
        /\ TallyIs(Counted(proposal[p], vote, weight, 1), VotesOn(p)')
    BY <1>1, <2>1, CastVoteTally
  <2>3. TallyIs(new, VotesOn(p)')
    BY <2>1, <2>2, SameTallySameSums
  <2> QED
    BY <2>1, <2>2, <2>3, OneTallyChanges
<1>2. ASSUME NEW r \in voteRecords, WithdrawVote(r)
      PROVE  TallyInv'
  <2> DEFINE p == r.proposal
             counted == Counted(proposal[p], r.vote, r.weight, -1)
  <2>1. /\ p \in DOMAIN proposal /\ r \in VotesOn(p)
        /\ proposal' = [proposal EXCEPT ![p] = counted]
        /\ voteRecords' = voteRecords \ {r}
    BY <1>2 DEF WithdrawVote, VotesOn, TypeInv, References
  <2>2. /\ VotesOn(p)' = VotesOn(p) \ {r}
        /\ \A q \in DOMAIN proposal \ {p} : VotesOn(q)' = VotesOn(q)
    BY <2>1 DEF VotesOn
  <2>3. TallyIs(counted, VotesOn(p) \ {r})
    <3>1. TallyIs(proposal[p], VotesOn(p))
      BY <2>1 DEF TallyInv
    <3> HIDE DEF p
    <3> QED
      BY <2>1, <3>1, VotesFitProposals, TallyRemove
  <2> HIDE DEF p, counted
  <2> QED
    BY <2>1, <2>2, <2>3, OneTallyChanges
<1>3. ASSUME NEW r \in voteRecords, PruneVote(r)
      PROVE  TallyInv'
  <2> DEFINE p == r.proposal
             pruned == [r EXCEPT !.relinquished = TRUE]
  <2>1. /\ p \in DOMAIN proposal /\ r \in VotesOn(p) /\ ~r.relinquished
        /\ proposal' = proposal
        /\ voteRecords' = (voteRecords \ {r}) \cup {pruned}
    BY <1>3 DEF PruneVote, Relinquishes, VotesOn, TypeInv, References
  <2>2. /\ pruned.proposal = p /\ pruned.voter = r.voter /\ pruned.relinquished
        /\ pruned.vote = r.vote /\ pruned.weight = r.weight /\ pruned \in VoteRecordType
    BY DEF TypeInv, TypeOK, VoteRecordType
  <2> HIDE DEF p, pruned
  <2>3. pruned \notin VotesOn(p)
    BY <2>1, <2>2 DEF VotesInv, OneVoteEach, VotesOn, p
  <2>4. /\ VotesOn(p)' = (VotesOn(p) \ {r}) \cup {pruned}
        /\ \A q \in DOMAIN proposal \ {p} : VotesOn(q)' = VotesOn(q)
    BY <2>1, <2>2 DEF VotesOn, p
  <2>5. \A v \in VotesOn(p) \cup {pruned} : FitsProposal(v, proposal[p])
    <3>1. FitsProposal(r, proposal[p])
      BY <2>1, VotesFitProposals
    <3> QED
      BY <2>1, <2>2, <3>1, VotesFitProposals DEF FitsProposal
  <2>6. TallyIs(proposal[p], (VotesOn(p) \ {r}) \cup {pruned})
    <3>1. TallyIs(proposal[p], VotesOn(p))
      BY <2>1 DEF TallyInv
    <3> QED
      BY <2>1, <2>2, <2>3, <2>5, <3>1, VotesFitProposals, TallyRelabel
  <2> QED
    BY <2>1, <2>4, <2>6 DEF TallyInv
<1>4. ASSUME NEW p \in Proposals, FinalizeVote(p)
      PROVE  TallyInv'
  <2>1. p \in DOMAIN proposal /\ voteRecords' = voteRecords
    BY <1>4, FinalizeVoteDecision
  <2>2. PICK new : proposal' = [proposal EXCEPT ![p] = new] /\ SameTally(proposal[p], new)
    BY <1>4, FinalizeVoteDecision DEF Decides
  <2>3. \A q : VotesOn(q)' = VotesOn(q)
    BY <2>1 DEF VotesOn
  <2>4. TallyIs(new, VotesOn(p)')
    BY <2>1, <2>2, <2>3, SameTallySameSums DEF TallyInv
  <2> QED
    BY <2>1, <2>2, <2>3, <2>4, OneTallyChanges
<1> QED
  BY <1>1, <1>2, <1>3, <1>4 DEF VoteStep

BaseInv == TypeInv /\ CountingInv /\ VotesInv /\ TallyInv

LEMMA InitBase == Init => BaseInv
<1> SUFFICES ASSUME Init PROVE BaseInv
  OBVIOUS
<1>1. TypeInv /\ CountingInv
  BY InitType, InitCounted
<1>2. VotesInv
  BY DEF Init, VotesInv, OneVoteEach, OpenVotesLive, VotersAreOfMint
<1>3. TallyInv
  BY DEF Init, NoAccounts, TallyInv
<1> QED
  BY <1>1, <1>2, <1>3 DEF BaseInv

LEMMA NextBase ==
    ASSUME BaseInv, [Next]_vars
    PROVE  BaseInv'
<1>1. TypeInv' /\ CountingInv'
  BY NextType, NextCounted DEF BaseInv
<1>2. CASE ConfigurationStep \/ TokenStep \/ UNCHANGED vars
  <2>1. VotesInv' /\ UNCHANGED <<proposal, voteRecords>>
    BY <1>2, OtherStepsVotes DEF BaseInv
  <2>2. TallyInv'
    BY <2>1 DEF BaseInv, TallyInv, VotesOn
  <2> QED
    BY <1>1, <2>1, <2>2 DEF BaseInv
<1>3. CASE ProposalStep
  BY <1>1, <1>3, ProposalStepVotes, ProposalStepTally DEF BaseInv
<1>4. CASE VoteStep
  BY <1>1, <1>4, VoteStepVotes, VoteStepTally DEF BaseInv
<1> QED
  BY <1>2, <1>3, <1>4 DEF Next

\* The weights a proposal shows are the sums of its vote records, whatever is cast,
\* withdrawn, pruned or decided in whatever order: what casting a vote adds,
\* process_relinquish_vote takes off again, once, and only while the vote is open.
THEOREM TallyMatchesVotesAlways == Spec => []TallyMatchesVotes
<1>1. BaseInv => TallyMatchesVotes
  BY TallyMatchesByProposal DEF BaseInv, TallyInv
<1>2. BaseInv /\ [Next]_vars => BaseInv'
  BY NextBase
<1> QED
  BY <1>1, <1>2, InitBase, PTL DEF Spec

-----------------------------------------------------------------------------
(* The holding account has what the records have deposited *)

DepositSum(t, mint) ==
    SumFunction([m \in {x \in DOMAIN t : MintOf[x] = mint} |-> t[m].deposit])

HoldingInv == \A mint \in Mints : holding[mint] = DepositSum(tor, mint)

LEMMA HoldingByRecords == HoldingBacksDeposits <=> HoldingInv
  BY Zenon DEF HoldingBacksDeposits, HoldingInv, DepositSum, SumOver

LEMMA DepositsType ==
    ASSUME NEW t, TorType(t)
    PROVE  /\ \A m \in DOMAIN t : t[m].deposit \in Nat
           /\ \A mint : IsFiniteSet({x \in DOMAIN t : MintOf[x] = mint})
<1>1. IsFiniteSet(DOMAIN t)
  BY ConstantsAssumption, FS_Subset DEF TorType
<1>2. \A mint : IsFiniteSet({x \in DOMAIN t : MintOf[x] = mint})
  BY <1>1, FS_Subset
<1> QED
  BY <1>2 DEF TorType, TokenOwnerRecordType

SameDeposits(t, u) ==
    /\ DOMAIN u = DOMAIN t
    /\ \A m \in DOMAIN t : u[m].deposit = t[m].deposit

LEMMA DepositSumSame ==
    ASSUME NEW t, NEW u, SameDeposits(t, u), NEW mint
    PROVE  DepositSum(u, mint) = DepositSum(t, mint)
<1>1. [m \in {x \in DOMAIN u : MintOf[x] = mint} |-> u[m].deposit] =
      [m \in {x \in DOMAIN t : MintOf[x] = mint} |-> t[m].deposit]
  BY DEF SameDeposits
<1> QED
  BY <1>1 DEF DepositSum

\* One deposit is written.
LEMMA DepositSumUpdated ==
    ASSUME NEW t, TorType(t), NEW u, TorType(u), NEW m \in DOMAIN t, DOMAIN u = DOMAIN t,
           \A x \in DOMAIN t \ {m} : u[x].deposit = t[x].deposit
    PROVE  \A mint : /\ DepositSum(t, mint) \in Int
                     /\ DepositSum(u, mint) = DepositSum(t, mint) +
                            (IF MintOf[m] = mint THEN u[m].deposit - t[m].deposit ELSE 0)
<1> SUFFICES ASSUME NEW mint
             PROVE  /\ DepositSum(t, mint) \in Int
                    /\ DepositSum(u, mint) = DepositSum(t, mint) +
                           (IF MintOf[m] = mint THEN u[m].deposit - t[m].deposit ELSE 0)
  OBVIOUS
<1> DEFINE S == {x \in DOMAIN t : MintOf[x] = mint}
           f == [x \in S |-> t[x].deposit]
           g == [x \in S |-> u[x].deposit]
<1>1. /\ DepositSum(t, mint) = SumFunction(f) /\ DepositSum(u, mint) = SumFunction(g)
  BY DEF DepositSum
<1>2. /\ \A x \in DOMAIN t : t[x].deposit \in Nat /\ u[x].deposit \in Nat
      /\ IsFiniteSet(S)
  BY DepositsType
<1>3. SumFunction(f) \in Int
  <2>1. DOMAIN f = S /\ \A x \in S : f[x] \in Nat
    BY <1>2
  <2> HIDE DEF f
  <2> QED
    BY <1>2, <2>1, SumNatural
<1>4. CASE MintOf[m] = mint
  <2>1. /\ DOMAIN f = S /\ DOMAIN g = S /\ m \in S
        /\ \A x \in S : f[x] \in Int /\ g[x] \in Int
        /\ \A x \in S : x # m => g[x] = f[x]
        /\ f[m] = t[m].deposit /\ g[m] = u[m].deposit
    BY <1>2, <1>4
  <2> HIDE DEF f, g, S
  <2>2. SumFunction(g) = SumFunction(f) - f[m] + g[m]
    BY <1>2, <2>1, SumUpdated
  <2> QED
    BY <1>1, <1>2, <1>3, <1>4, <2>1, <2>2
<1>5. CASE MintOf[m] # mint
  <2>1. f = g
    BY <1>5
  <2> HIDE DEF f, g
  <2> QED
    BY <1>1, <1>3, <1>5, <2>1
<1> QED
  BY <1>4, <1>5

LEMMA DepositSumCreated ==
    ASSUME NEW t, TorType(t), NEW m \in Members, m \notin DOMAIN t, NEW rec \in TokenOwnerRecordType
    PROVE  \A mint : /\ DepositSum(t, mint) \in Int
                     /\ DepositSum(Created(t, m, rec), mint) =
                            DepositSum(t, mint) + (IF MintOf[m] = mint THEN rec.deposit ELSE 0)
<1> DEFINE u == Created(t, m, rec)
<1> SUFFICES ASSUME NEW mint
             PROVE  /\ DepositSum(t, mint) \in Int
                    /\ DepositSum(u, mint) =
                           DepositSum(t, mint) + (IF MintOf[m] = mint THEN rec.deposit ELSE 0)
  OBVIOUS
<1>0. /\ TorType(u) /\ DOMAIN u = DOMAIN t \cup {m} /\ u[m] = rec
      /\ \A x \in DOMAIN t : u[x] = t[x]
  BY TorCreation DEF Created
<1> HIDE DEF u
<1> DEFINE S == {x \in DOMAIN t : MintOf[x] = mint}
           T == {x \in DOMAIN u : MintOf[x] = mint}
           f == [x \in S |-> t[x].deposit]
           g == [x \in T |-> u[x].deposit]
<1>1. /\ DepositSum(t, mint) = SumFunction(f) /\ DepositSum(u, mint) = SumFunction(g)
  BY DEF DepositSum
<1>2. /\ \A x \in DOMAIN t : t[x].deposit \in Nat
      /\ \A x \in DOMAIN u : u[x].deposit \in Nat
      /\ IsFiniteSet(S)
  BY <1>0, DepositsType
<1>3. SumFunction(f) \in Int
  <2>1. DOMAIN f = S /\ \A x \in S : f[x] \in Nat
    BY <1>2
  <2> HIDE DEF f
  <2> QED
    BY <1>2, <2>1, SumNatural
<1>4. CASE MintOf[m] = mint
  <2>1. /\ DOMAIN f = S /\ m \notin S /\ DOMAIN g = S \cup {m}
        /\ \A x \in S : g[x] = f[x]
        /\ \A x \in DOMAIN g : g[x] \in Int
        /\ g[m] = rec.deposit
    BY <1>0, <1>2, <1>4
  <2> HIDE DEF f, g, S
  <2>2. SumFunction(g) = SumFunction(f) + g[m]
    BY <1>2, <2>1, SumExtended
  <2> QED
    BY <1>1, <1>3, <1>4, <2>1, <2>2
<1>5. CASE MintOf[m] # mint
  <2>1. S = T
    BY <1>0, <1>5
  <2>2. f = g
    BY <1>0, <2>1
  <2> HIDE DEF f, g
  <2> QED
    BY <1>1, <1>3, <1>5, <2>2
<1> QED
  BY <1>4, <1>5

LEMMA HoldingSame ==
    ASSUME HoldingInv, SameDeposits(tor, tor'), holding' = holding
    PROVE  HoldingInv'
  BY DepositSumSame DEF HoldingInv

\* A deposit changes by as much as the balance of the holding account.
LEMMA HoldingMoves ==
    ASSUME TypeInv, HoldingInv, NEW m \in Members, NEW delta \in Int,
           \A mint \in Mints :
               holding'[mint] = holding[mint] + (IF MintOf[m] = mint THEN delta ELSE 0),
           \A mint : /\ DepositSum(tor, mint) \in Int
                     /\ DepositSum(tor', mint) = DepositSum(tor, mint) +
                            (IF MintOf[m] = mint THEN delta ELSE 0)
    PROVE  HoldingInv'
  BY DEF HoldingInv

\* The deposit of a record is replaced by another one.
DepositReplaced(t, u, m, value) ==
    /\ TorType(t) /\ TorType(u) /\ DOMAIN u = DOMAIN t /\ m \in DOMAIN t
    /\ u[m].deposit = value
    /\ \A x \in DOMAIN t \ {m} : u[x].deposit = t[x].deposit

LEMMA DepositIsReplaced ==
    ASSUME NEW t, TorType(t), NEW m \in DOMAIN t, NEW value \in Nat,
           NEW u, u = [t EXCEPT ![m] = [t[m] EXCEPT !.deposit = value]]
    PROVE  DepositReplaced(t, u, m, value)
<1> DEFINE rec == [t[m] EXCEPT !.deposit = value]
<1>1. t[m] \in TokenOwnerRecordType
  BY DEF TorType
<1>2. rec \in TokenOwnerRecordType /\ rec.deposit = value
  BY <1>1, RecordUpdate DEF TokenOwnerRecordType
<1>3. u = [t EXCEPT ![m] = rec]
  OBVIOUS
<1> HIDE DEF rec
<1>4. TorType(u) /\ DOMAIN u = DOMAIN t
  BY <1>2, <1>3 DEF TorType
<1>5. u[m].deposit = value /\ \A x \in DOMAIN t \ {m} : u[x].deposit = t[x].deposit
  BY <1>2, <1>3
<1> QED
  BY <1>4, <1>5 DEF DepositReplaced

LEMMA ReplacedDepositSum ==
    ASSUME NEW t, NEW u, NEW m, NEW value, DepositReplaced(t, u, m, value)
    PROVE  \A mint : /\ DepositSum(t, mint) \in Int
                     /\ DepositSum(u, mint) = DepositSum(t, mint) +
                            (IF MintOf[m] = mint THEN value - t[m].deposit ELSE 0)
<1>1. /\ TorType(t) /\ TorType(u) /\ DOMAIN u = DOMAIN t /\ m \in DOMAIN t
      /\ u[m].deposit = value
      /\ \A x \in DOMAIN t \ {m} : u[x].deposit = t[x].deposit
  BY DEF DepositReplaced
<1> QED
  BY <1>1, DepositSumUpdated

LEMMA LockStepHolding ==
    ASSUME TypeInv, HoldingInv, NEW m \in DOMAIN tor, NEW locks, holding' = holding,
           tor' = [tor EXCEPT ![m].locks = locks]
    PROVE  HoldingInv'
<1>1. SameDeposits(tor, tor')
  BY DEF SameDeposits, TypeInv, TypeOK, TokenOwnerRecordType
<1> QED
  BY <1>1, HoldingSame

LEMMA DepositHolding ==
    ASSUME TypeInv, HoldingInv, NEW m \in Members, NEW amount \in Amounts, NEW minted,
           DepositGoverningTokens(m, amount, minted)
    PROVE  HoldingInv'
<1>1. /\ amount \in Nat /\ MintOf[m] \in Mints /\ holding \in [Mints -> Nat]
      /\ TorType(tor)
  BY ConstantsAssumption DEF TypeInv, TypeOK, TorType
<1>2. \A mint \in Mints :
          holding'[mint] = holding[mint] + (IF MintOf[m] = mint THEN amount ELSE 0)
  BY <1>1 DEF DepositGoverningTokens
<1>3. CASE m \in DOMAIN tor
  <2>1. tor[m].deposit \in Nat
    BY <1>3 DEF TypeInv, TypeOK, TokenOwnerRecordType
  <2> DEFINE value == tor[m].deposit + amount
  <2>2. tor' = [tor EXCEPT ![m] = [tor[m] EXCEPT !.deposit = value]]
    BY <1>3 DEF DepositGoverningTokens
  <2>3. value \in Nat /\ value - tor[m].deposit = amount
    BY <1>1, <2>1
  <2> HIDE DEF value
  <2>4. \A mint : /\ DepositSum(tor, mint) \in Int
                  /\ DepositSum(tor', mint) = DepositSum(tor, mint) +
                         (IF MintOf[m] = mint THEN value - tor[m].deposit ELSE 0)
    <3>1. DepositReplaced(tor, tor', m, value)
      BY <1>1, <1>3, <2>2, <2>3, DepositIsReplaced
    <3> QED
      BY <3>1, ReplacedDepositSum
  <2> QED
    BY <1>1, <1>2, <2>3, <2>4, HoldingMoves
<1>4. CASE m \notin DOMAIN tor
  <2> DEFINE rec == NewTokenOwnerRecord(amount)
  <2>1. tor' = Created(tor, m, rec)
    BY <1>4 DEF DepositGoverningTokens
  <2>2. rec \in TokenOwnerRecordType /\ rec.deposit = amount
    BY <1>1 DEF NewTokenOwnerRecord, TokenOwnerRecordType
  <2>3. TorType(tor)
    BY DEF TypeInv, TypeOK, TorType
  <2> HIDE DEF rec
  <2>4. \A mint : /\ DepositSum(tor, mint) \in Int
                  /\ DepositSum(tor', mint) = DepositSum(tor, mint) +
                         (IF MintOf[m] = mint THEN rec.deposit ELSE 0)
    BY <1>4, <2>1, <2>2, <2>3, DepositSumCreated
  <2> QED
    BY <1>1, <1>2, <2>2, <2>4, HoldingMoves
<1> QED
  BY <1>3, <1>4

LEMMA TokenStepHolding ==
    ASSUME TypeInv, HoldingInv, TokenStep
    PROVE  HoldingInv'
<1>0. /\ holding \in [Mints -> Nat] /\ \A m \in Members : MintOf[m] \in Mints
      /\ TorType(tor)
      /\ \A m \in DOMAIN tor : m \in Members /\ tor[m].deposit \in Nat
  BY ConstantsAssumption DEF TypeInv, TypeOK, TorType, TokenOwnerRecordType
<1>1. ASSUME NEW mint, NEW amount, MintTokens(mint, amount) \/ BurnTokens(mint, amount)
      PROVE  HoldingInv'
  BY <1>1 DEF MintTokens, BurnTokens, HoldingInv
<1>2. ASSUME NEW m \in Members, CreateTokenOwnerRecord(m)
      PROVE  HoldingInv'
  <2> DEFINE rec == NewTokenOwnerRecord(0)
  <2>1. tor' = Created(tor, m, rec) /\ holding' = holding /\ m \notin DOMAIN tor
    BY <1>2 DEF CreateTokenOwnerRecord, tokenVars
  <2>2. rec \in TokenOwnerRecordType /\ rec.deposit = 0 /\ TorType(tor)
    BY DEF NewTokenOwnerRecord, TokenOwnerRecordType, TypeInv, TypeOK, TorType
  <2> HIDE DEF rec
  <2>3. \A mint : /\ DepositSum(tor, mint) \in Int
                  /\ DepositSum(tor', mint) = DepositSum(tor, mint) +
                         (IF MintOf[m] = mint THEN rec.deposit ELSE 0)
    BY <2>1, <2>2, DepositSumCreated
  <2>4. \A mint \in Mints : holding'[mint] = holding[mint] + (IF MintOf[m] = mint THEN 0 ELSE 0)
    BY <1>0, <2>1
  <2> QED
    BY <2>2, <2>3, <2>4, HoldingMoves
<1>3. ASSUME NEW m \in Members, WithdrawGoverningTokens(m)
      PROVE  HoldingInv'
  <2>1. m \in DOMAIN tor /\ tor' = [tor EXCEPT ![m] = [tor[m] EXCEPT !.deposit = 0]]
    BY <1>3 DEF WithdrawGoverningTokens
  <2>2. \A mint \in Mints :
            holding'[mint] = holding[mint] + (IF MintOf[m] = mint THEN 0 - tor[m].deposit ELSE 0)
    BY <1>0, <1>3, <2>1 DEF WithdrawGoverningTokens
  <2>3. \A mint : /\ DepositSum(tor, mint) \in Int
                  /\ DepositSum(tor', mint) = DepositSum(tor, mint) +
                         (IF MintOf[m] = mint THEN 0 - tor[m].deposit ELSE 0)
    <3>1. DepositReplaced(tor, tor', m, 0)
      BY <1>0, <2>1, DepositIsReplaced
    <3> QED
      BY <3>1, ReplacedDepositSum
  <2>4. 0 - tor[m].deposit \in Int
    BY <1>0, <2>1
  <2> QED
    BY <2>2, <2>3, <2>4, HoldingMoves
<1>4. ASSUME NEW m \in Members, NEW amount \in Amounts, RevokeGoverningTokens(m, amount)
      PROVE  HoldingInv'
  <2> DEFINE value == tor[m].deposit - amount
  <2>1. /\ m \in DOMAIN tor /\ amount <= tor[m].deposit /\ amount \in Nat
        /\ tor' = [tor EXCEPT ![m] = [tor[m] EXCEPT !.deposit = value]]
    BY <1>4, ConstantsAssumption DEF RevokeGoverningTokens
  <2>2. value \in Nat /\ value - tor[m].deposit = 0 - amount /\ 0 - amount \in Int
    BY <1>0, <2>1
  <2> HIDE DEF value
  <2>3. \A mint \in Mints :
            holding'[mint] = holding[mint] + (IF MintOf[m] = mint THEN 0 - amount ELSE 0)
    BY <1>0, <1>4, <2>1 DEF RevokeGoverningTokens
  <2>4. \A mint : /\ DepositSum(tor, mint) \in Int
                  /\ DepositSum(tor', mint) = DepositSum(tor, mint) +
                         (IF MintOf[m] = mint THEN value - tor[m].deposit ELSE 0)
    <3>1. DepositReplaced(tor, tor', m, value)
      BY <1>0, <2>1, <2>2, DepositIsReplaced
    <3> QED
      BY <3>1, ReplacedDepositSum
  <2> QED
    BY <2>2, <2>3, <2>4, HoldingMoves
<1>5. ASSUME NEW m \in Members, NEW a, NEW id, NEW expiry,
             SetTokenOwnerRecordLock(m, a, id, expiry)
      PROVE  HoldingInv'
  BY <1>5, LockStepHolding DEF SetTokenOwnerRecordLock, tokenVars
<1>6. ASSUME NEW m \in Members, NEW a, NEW ids, NEW signed,
             RelinquishTokenOwnerRecordLocks(m, a, ids, signed)
      PROVE  HoldingInv'
  BY <1>6, LockStepHolding DEF RelinquishTokenOwnerRecordLocks, tokenVars
<1> QED
  BY <1>1, <1>2, <1>3, <1>4, <1>5, <1>6, DepositHolding DEF TokenStep

\* Tokens move, and the realm and the governance are configured, by handlers of
\* their own.
LEMMA TokensKept ==
    ASSUME ConfigurationStep \/ ProposalStep \/ VoteStep \/ UNCHANGED vars
    PROVE  UNCHANGED tokenVars
<1>1. CASE ConfigurationStep
  BY <1>1 DEF ConfigurationStep, Tick, SetGovernanceConfig, SetRealmConfig, AddLockAuthority,
              RemoveLockAuthority, AddRequiredSignatory, RemoveRequiredSignatory
<1>2. CASE ProposalStep
  BY <1>2, Zenon DEF ProposalStep, CreateProposal, AddSignatory, SignOffProposal,
                     CancelProposal, RefundProposalDeposit
<1>3. CASE VoteStep
  <2>1. ASSUME NEW p, NEW m, NEW vote, CastVote(p, m, vote) PROVE UNCHANGED tokenVars
    BY <2>1 DEF CastVote
  <2>2. ASSUME NEW r, WithdrawVote(r) \/ PruneVote(r) PROVE UNCHANGED tokenVars
    BY <2>2 DEF WithdrawVote, PruneVote, Relinquishes
  <2>3. ASSUME NEW p, FinalizeVote(p) PROVE UNCHANGED tokenVars
    BY <2>3 DEF FinalizeVote
  <2> QED
    BY <1>3, <2>1, <2>2, <2>3, Zenon DEF VoteStep
<1> QED
  BY <1>1, <1>2, <1>3 DEF vars

LEMMA ConfigurationKept ==
    ASSUME TokenStep \/ ProposalStep \/ VoteStep \/ UNCHANGED vars
    PROVE  UNCHANGED <<realm, config>>
<1>1. CASE TokenStep
  BY <1>1, ZenonT(40) DEF TokenStep, MintTokens, BurnTokens, CreateTokenOwnerRecord,
              DepositGoverningTokens, WithdrawGoverningTokens, RevokeGoverningTokens,
              SetTokenOwnerRecordLock, RelinquishTokenOwnerRecordLocks, realmVars, govVars
<1>2. CASE ProposalStep
  BY <1>2, Zenon DEF ProposalStep, CreateProposal, AddSignatory, SignOffProposal,
              CancelProposal, RefundProposalDeposit, realmVars, govVars
<1>3. CASE VoteStep
  <2> USE DEF realmVars, govVars
  <2>1. ASSUME NEW p, NEW m, NEW vote, CastVote(p, m, vote) PROVE UNCHANGED <<realm, config>>
    BY <2>1 DEF CastVote
  <2>2. ASSUME NEW r, WithdrawVote(r) \/ PruneVote(r) PROVE UNCHANGED <<realm, config>>
    BY <2>2 DEF WithdrawVote, PruneVote, Relinquishes
  <2>3. ASSUME NEW p, FinalizeVote(p) PROVE UNCHANGED <<realm, config>>
    BY <2>3 DEF FinalizeVote
  <2> QED
    BY <1>3, <2>1, <2>2, <2>3, Zenon DEF VoteStep
<1> QED
  BY <1>1, <1>2, <1>3 DEF vars, realmVars, govVars

LEMMA NextHolding ==
    ASSUME TypeInv, HoldingInv, [Next]_vars
    PROVE  HoldingInv'
<1>1. CASE ConfigurationStep \/ ProposalStep \/ VoteStep \/ UNCHANGED vars
  <2>1. holding' = holding
    BY <1>1, TokensKept DEF tokenVars
  <2>2. SameDeposits(tor, tor')
    <3>1. tor' = tor => CountersWritten(tor, tor')
      BY DEF CountersWritten
    <3> QED
      BY <1>1, <3>1, ConfigurationStepCounters, ProposalStepWritten, VoteStepWritten
         DEF vars, CountersWritten, SameDeposits
  <2> QED
    BY <2>1, <2>2, HoldingSame
<1> QED
  BY <1>1, TokenStepHolding DEF Next

LEMMA InitHolding == Init => HoldingInv
<1> SUFFICES ASSUME Init, NEW mint \in Mints PROVE holding[mint] = DepositSum(tor, mint)
  BY DEF HoldingInv
<1>1. {x \in DOMAIN tor : MintOf[x] = mint} = {}
  BY DEF Init, NoAccounts
<1>2. ASSUME NEW f, DOMAIN f = {} PROVE SumFunction(f) = 0
  BY <1>2, SumOfNone DEF SumFunction
<1>3. DepositSum(tor, mint) = 0
  BY <1>1, <1>2 DEF DepositSum
<1> QED
  BY <1>3 DEF Init

\* Whatever is deposited, withdrawn and revoked, the holding account of a mint has
\* exactly what the records of its owners say that they have deposited.
THEOREM HoldingBacksDepositsAlways == Spec => []HoldingBacksDeposits
<1>1. Init => TypeInv /\ HoldingInv
  BY InitType, InitHolding
<1>2. TypeInv /\ HoldingInv /\ [Next]_vars => (TypeInv /\ HoldingInv)'
  BY NextType, NextHolding
<1> QED
  BY <1>1, <1>2, HoldingByRecords, PTL DEF Spec

-----------------------------------------------------------------------------
(* Live votes are backed by deposits *)

\* The votes of a mint are weighed by the deposits of its owners, which nobody
\* revokes: no configuration of the realm has a plugin for it, or makes it a
\* membership mint.
OwnTokensVote(mint) ==
    \A r \in Realms : r.tokenType[mint] # "Membership" /\ ~r.weightAddin[mint]

Configured == realm \in Realms /\ config \in Configs

LEMMA InitConfigured == Init => Configured
  BY DEF Init, Configured

LEMMA NextConfigured ==
    ASSUME Configured, [Next]_vars
    PROVE  Configured'
<1>1. CASE ConfigurationStep
  BY <1>1, Zenon DEF ConfigurationStep, Tick, SetGovernanceConfig, SetRealmConfig, AddLockAuthority,
              RemoveLockAuthority, AddRequiredSignatory, RemoveRequiredSignatory,
              Configured, realmVars, govVars
<1> QED
  BY <1>1, ConfigurationKept DEF Configured, Next

BackedInv ==
    \A r \in voteRecords :
        OwnTokensVote(MintOf[r.voter]) /\ ~r.relinquished => r.weight <= tor[r.voter].deposit

\* Where a vote comes from.
LEMMA VotesOfStep ==
    ASSUME TypeInv, [Next]_vars, NEW r \in voteRecords', r \notin voteRecords, ~r.relinquished
    PROVE  /\ VoteStep /\ r.voter \in DOMAIN tor
           /\ r.weight \in VoterWeights(r.voter)
<1>1. CASE ConfigurationStep \/ TokenStep \/ UNCHANGED vars
  BY <1>1, OtherStepsKeepProposals DEF proposalVars, vars
<1>2. CASE ProposalStep
  BY <1>2, ProposalStepEffect DEF OneProposalMoves
<1>3. CASE VoteStep
  <2>1. ASSUME NEW p \in DOMAIN proposal, NEW m \in Members, NEW vote \in Votes(p),
               CastVote(p, m, vote)
        PROVE  r.voter \in DOMAIN tor /\ r.weight \in VoterWeights(r.voter)
    <3>1. PICK weight \in VoterWeights(m) :
              voteRecords' = voteRecords \cup {NewVote(p, m, vote, weight)}
      BY <2>1, CastVoteDecision
    <3>2. r = NewVote(p, m, vote, weight) /\ m \in DOMAIN tor
      BY <2>1, <3>1 DEF CastVote
    <3> QED
      BY <3>2 DEF NewVote
  <2>2. ASSUME NEW v \in voteRecords, WithdrawVote(v)
        PROVE  FALSE
    BY <2>2 DEF WithdrawVote
  <2>3. ASSUME NEW v \in voteRecords, PruneVote(v)
        PROVE  FALSE
    <3>1. [v EXCEPT !.relinquished = TRUE].relinquished
      BY DEF TypeInv, TypeOK, VoteRecordType
    <3> QED
      BY <2>3, <3>1 DEF PruneVote
  <2>4. ASSUME NEW p \in Proposals, FinalizeVote(p)
        PROVE  FALSE
    BY <2>4 DEF FinalizeVote
  <2> QED
    BY <1>3, <2>1, <2>2, <2>3, <2>4 DEF VoteStep
<1> QED
  BY <1>1, <1>2, <1>3 DEF Next

LEMMA NextBacked ==
    ASSUME TypeInv, CountingInv, Configured, BackedInv, [Next]_vars
    PROVE  BackedInv'
<1> SUFFICES ASSUME NEW r \in voteRecords', OwnTokensVote(MintOf[r.voter]), ~r.relinquished
             PROVE  r.weight <= tor'[r.voter].deposit
  BY DEF BackedInv, OwnTokensVote
<1> DEFINE mint == MintOf[r.voter]
<1>0. realm \in Realms
  BY DEF Configured
<1>1. CASE r \in voteRecords
  <2>1. r.voter \in DOMAIN tor /\ r.weight \in Nat /\ r.weight <= tor[r.voter].deposit
    BY <1>1 DEF TypeInv, TypeOK, References, VoteRecordType, BackedInv
  <2>2. Committed(r.voter)
    BY <1>1 DEF Committed, LiveVotesOf
  <2>3. ~(tor'[r.voter].deposit < tor[r.voter].deposit)
    BY <1>0, <2>1, <2>2, NextDeposits DEF DepositsLeaveRightly, OwnTokensVote
  <2>4. tor[r.voter].deposit \in Nat /\ tor'[r.voter].deposit \in Nat
    <3>1. TypeInv'
      BY NextType
    <3>2. r.voter \in DOMAIN tor'
      BY <3>1 DEF TypeInv, References
    <3> QED
      BY <2>1, <3>1, <3>2 DEF TypeInv, TypeOK, TokenOwnerRecordType
  <2> QED
    BY <2>1, <2>3, <2>4
<1>2. CASE r \notin voteRecords
  <2>1. VoteStep /\ r.voter \in DOMAIN tor /\ r.weight \in VoterWeights(r.voter)
    BY <1>2, VotesOfStep
  <2>2. r.weight = tor[r.voter].deposit
    BY <1>0, <2>1 DEF VoterWeights, OwnTokensVote
  <2>3. tor'[r.voter].deposit = tor[r.voter].deposit
    BY <2>1, VoteStepWritten DEF CountersWritten
  <2>4. r.weight \in Nat
    BY <2>1, <2>2 DEF TypeInv, TypeOK, TokenOwnerRecordType
  <2> QED
    BY <2>2, <2>3, <2>4
<1> QED
  BY <1>1, <1>2

-----------------------------------------------------------------------------
(* The votes cast on an open proposal are within the supply *)

VotesOfMint(p, mint) == {r \in VotesOn(p) : MintOf[r.voter] = mint}
WeightSum(V) == SumFunction([r \in V |-> r.weight])

\* Votes of different owners of a mint, each within its owner's deposit.
DepositsCover(V, t, mint) ==
    /\ \A r \in V : /\ r.weight \in Nat /\ r.voter \in DOMAIN t /\ MintOf[r.voter] = mint
                     /\ r.weight <= t[r.voter].deposit
    /\ \A r, s \in V : r.voter = s.voter => r = s

LEMMA VotesWithinDeposits ==
    ASSUME NEW t, TorType(t), NEW V, IsFiniteSet(V), NEW mint, DepositsCover(V, t, mint)
    PROVE  WeightSum(V) \in Nat /\ WeightSum(V) <= DepositSum(t, mint)
<1> DEFINE S == {m \in DOMAIN t : MintOf[m] = mint}
           f == [r \in V |-> r.weight]
           d == [m \in S |-> t[m].deposit]
           by == [r \in V |-> r.voter]
<1>1. IsFiniteSet(S) /\ \A m \in S : t[m].deposit \in Nat
  BY DepositsType
<1>2. /\ DOMAIN f = V /\ DOMAIN d = S
      /\ \A r \in V : f[r] \in Nat /\ by[r] \in S /\ f[r] <= d[by[r]]
      /\ \A r, s \in V : by[r] = by[s] => r = s
      /\ \A m \in S : d[m] \in Nat
  BY <1>1 DEF DepositsCover
<1>3. WeightSum(V) = SumFunction(f) /\ DepositSum(t, mint) = SumFunction(d)
  BY DEF WeightSum, DepositSum
<1> HIDE DEF S, f, d, by
<1>4. SumFunction(f) \in Nat /\ SumFunction(f) <= SumFunction(d)
  BY <1>1, <1>2, SumCovered
<1> QED
  BY <1>3, <1>4

\* The votes on a proposal have not been relinquished before it is decided.
LEMMA OpenVotesCovered ==
    ASSUME TypeInv, CountingInv, VotesInv, BackedInv,
           NEW mint \in Mints, OwnTokensVote(mint),
           NEW p \in DOMAIN proposal, proposal[p].state = "Voting"
    PROVE  /\ TorType(tor) /\ IsFiniteSet(VotesOfMint(p, mint))
           /\ DepositsCover(VotesOfMint(p, mint), tor, mint)
<1> DEFINE V == VotesOfMint(p, mint)
<1>1. V \subseteq voteRecords
  BY DEF VotesOfMint, VotesOn
<1>2. IsFiniteSet(V)
  BY <1>1, FS_Subset DEF CountingInv
<1>3. ASSUME NEW r \in V
      PROVE  /\ r.weight \in Nat /\ r.voter \in DOMAIN tor /\ MintOf[r.voter] = mint
             /\ r.weight <= tor[r.voter].deposit
  <2>1. r \in voteRecords /\ r.proposal = p /\ MintOf[r.voter] = mint
    BY <1>3 DEF VotesOfMint, VotesOn
  <2>2. ~r.relinquished
    BY <2>1 DEF VotesInv, OpenVotesLive
  <2>3. r.weight \in Nat /\ r.voter \in DOMAIN tor
    BY <2>1 DEF TypeInv, TypeOK, References, VoteRecordType
  <2> QED
    BY <2>1, <2>2, <2>3 DEF BackedInv
<1>4. \A r, s \in V : r.voter = s.voter => r = s
  BY DEF VotesOfMint, VotesOn, VotesInv, OneVoteEach
<1>5. TorType(tor)
  BY DEF TypeInv, TypeOK, TorType
<1> QED
  BY <1>2, <1>3, <1>4, <1>5 DEF DepositsCover

LEMMA VotesWithinHolding ==
    ASSUME TypeInv, CountingInv, VotesInv, HoldingInv, BackedInv,
           NEW mint \in Mints, OwnTokensVote(mint),
           NEW p \in DOMAIN proposal, proposal[p].state = "Voting"
    PROVE  WeightSum(VotesOfMint(p, mint)) <= holding[mint]
  BY OpenVotesCovered, VotesWithinDeposits DEF HoldingInv

LEMMA BackedByRecords ==
    VotesWithinSupply <=>
        \A mint \in Mints :
            /\ \A p \in DOMAIN proposal :
                   IsVoting(p) => WeightSum(VotesOfMint(p, mint)) <= holding[mint]
            /\ holding[mint] <= supply[mint]
  BY Zenon DEF VotesWithinSupply, WeightSum, VotesOfMint, SumOver

\* The votes, and the tokens behind them.
SupportInv == BaseInv /\ HoldingInv /\ Configured /\ BackedInv

LEMMA InitSupport == Init => SupportInv
<1>1. Init => BackedInv
  BY DEF Init, BackedInv
<1> QED
  BY <1>1, InitBase, InitHolding, InitConfigured DEF SupportInv

LEMMA NextSupport == SupportInv /\ [Next]_vars => SupportInv'
  BY NextBase, NextHolding, NextConfigured, NextBacked DEF SupportInv, BaseInv

\* Where every mint's own tokens vote and none is a membership mint, a token votes
\* once: live votes are backed by deposits, deposits by the holding account, and
\* the votes on an open proposal by the supply, however tokens are withdrawn and
\* deposited again by another owner.
THEOREM VotesBackedAlways ==
    ASSUME \A mint \in Mints : OwnTokensVote(mint)
    PROVE  Spec => []VotesBacked
<1>1. SupportInv => VotesBacked
  <2> SUFFICES ASSUME SupportInv PROVE VotesBacked
    OBVIOUS
  <2>1. TypeInv /\ CountingInv /\ VotesInv /\ HoldingInv /\ BackedInv
    BY DEF SupportInv, BaseInv
  <2>2. \A r \in voteRecords : MintOf[r.voter] \in Mints
    BY <2>1, ConstantsAssumption DEF TypeInv, TypeOK, VoteRecordType
  <2>3. VotesBackedByDeposit
    BY <2>1, <2>2 DEF BackedInv, VotesBackedByDeposit
  <2>4. VotesWithinSupply
    BY <2>1, VotesWithinHolding, BackedByRecords DEF IsVoting, TypeInv, HoldingWithinSupply
  <2> QED
    BY <2>1, <2>3, <2>4, HoldingByRecords DEF VotesBacked
<1> QED
  BY <1>1, InitSupport, NextSupport, PTL DEF Spec

-----------------------------------------------------------------------------
(* The weights of a tally are within the maximum weight of its vote *)

IsElectorate(r) == VoteKind(r.vote) = "Electorate"

\* What votes add to an option and to Deny is no more than what their voters have.
LEMMA ElectorateSum ==
    ASSUME NEW prop \in ProposalType, NEW V, IsFiniteSet(V), \A r \in V : FitsProposal(r, prop),
           NEW o \in DOMAIN prop.weights
    PROVE  ApproveSum(o, V) + DenySum(V) <= WeightSum({r \in V : IsElectorate(r)})
<1> DEFINE W == {r \in V : IsElectorate(r)}
           a == [r \in V |-> ApproveOf(o, r)]
           d == [r \in V |-> DenyOf(r)]
           h == [r \in V |-> ApproveOf(o, r) + DenyOf(r)]
           g == [r \in W |-> ApproveOf(o, r) + DenyOf(r)]
           w == [r \in W |-> r.weight]
<1>1. \A r \in V : /\ r.weight \in Nat /\ ApproveOf(o, r) \in Nat /\ DenyOf(r) \in Nat
                    /\ ApproveOf(o, r) + DenyOf(r) \in Nat
                    /\ ApproveOf(o, r) + DenyOf(r) <= r.weight
  BY WeightsOfVote
<1>2. \A r \in V \ W : ApproveOf(o, r) + DenyOf(r) = 0
  BY DEF IsElectorate, VoteKind, ApproveOf, DenyOf
<1>3. W \subseteq V /\ IsFiniteSet(W)
  BY FS_Subset
<1>4. /\ DOMAIN a = V /\ DOMAIN d = V /\ DOMAIN h = V /\ DOMAIN g = W /\ DOMAIN w = W
      /\ \A r \in V : a[r] \in Int /\ d[r] \in Int /\ h[r] \in Int /\ h[r] = a[r] + d[r]
      /\ \A r \in V \ W : h[r] = 0
      /\ \A r \in W : g[r] = h[r]
      /\ \A r \in W : g[r] \in Nat /\ w[r] \in Nat /\ g[r] <= w[r]
  BY <1>1, <1>2
<1>5. /\ ApproveSum(o, V) = SumFunction(a) /\ DenySum(V) = SumFunction(d)
      /\ WeightSum(W) = SumFunction(w)
  BY DEF ApproveSum, DenySum, WeightSum
<1> HIDE DEF W, a, d, h, g, w
<1>6. SumFunction(h) = SumFunction(a) + SumFunction(d)
  BY <1>4, SumOfTwo
<1>7. SumFunctionOnSet(h, V) = SumFunctionOnSet(h, W)
  BY <1>3, <1>4, SumOfNonZero
<1>8. SumFunctionOnSet(h, W) = SumFunctionOnSet(g, W)
  BY <1>3, <1>4, SumSameValues
<1>9. SumFunction(g) <= SumFunction(w)
  BY <1>3, <1>4, SumMonotone
<1>10. SumFunction(h) = SumFunction(g)
  BY <1>4, <1>7, <1>8 DEF SumFunction
<1> QED
  BY <1>5, <1>6, <1>9, <1>10 DEF W

LEMMA CoercedCovers ==
    ASSUME NEW weight, NEW prop, NEW o \in DOMAIN prop.weights,
           NEW max \in CoercedMaxVoterWeights(weight, prop, "Electorate")
    PROVE  prop.weights[o] + prop.deny <= max
  BY DEF CoercedMaxVoterWeights, Largest

\* The maximum weight of a mint is coerced to the votes cast in every
\* configuration of the realm.
Coerced(mint) ==
    \A r \in Realms :
        \/ r.maxWeightAddin[mint]
        \/ /\ mint # "council"
           /\ r.maxWeightSource # [kind |-> "SupplyFraction", value |-> SUPPLY_FRACTION_BASE]

LEMMA CastWithinMax ==
    ASSUME SupportInv, NEW p \in DOMAIN proposal, NEW m \in Members, NEW vote \in Votes(p),
           CastVote(p, m, vote), VoteKind(vote) = "Electorate",
           NEW weight \in VoterWeights(m),
           voteRecords' = voteRecords \cup {NewVote(p, m, vote, weight)},
           NEW counted \in ProposalType, counted = Counted(proposal[p], vote, weight, 1),
           1 \in DOMAIN counted.weights,
           NEW max \in MaxVoterWeights(MintOf[m], counted, "Electorate"),
           OwnTokensVote(MintOf[m]) \/ Coerced(MintOf[m])
    PROVE  counted.weights[1] + counted.deny <= max
<1> DEFINE mint == MintOf[m]
           cast == NewVote(p, m, vote, weight)
           V == VotesOn(p)'
           W == {r \in V : IsElectorate(r)}
<1>0. /\ TypeInv /\ CountingInv /\ VotesInv /\ TallyInv /\ HoldingInv /\ BackedInv
      /\ realm \in Realms /\ mint \in Mints
  BY ConstantsAssumption DEF SupportInv, BaseInv, Configured
<1>1. CASE \E w : max \in CoercedMaxVoterWeights(w, counted, "Electorate")
  BY <1>1, CoercedCovers
<1>2. CASE ~realm.maxWeightAddin[mint] /\ UsesWholeSupply(mint) /\ max = supply[mint]
  <2>1. OwnTokensVote(mint)
    BY <1>0, <1>2 DEF Coerced, UsesWholeSupply
  <2>2. /\ m \in DOMAIN tor /\ proposal[p].state = "Voting" /\ mint = proposal[p].mint
        /\ ~\E r \in voteRecords : r.proposal = p /\ r.voter = m
    BY DEF CastVote, CanVoteOn, VotingMint
  <2>3. weight = tor[m].deposit /\ weight \in Nat
    BY <1>0, <2>1, <2>2, VoterWeightsType DEF VoterWeights, OwnTokensVote
  <2>4. /\ FitsProposal(cast, proposal[p]) /\ V = VotesOn(p) \cup {cast}
        /\ TallyIs(counted, V)
    BY <1>0, CastVoteTally
  <2>5. /\ proposal[p] \in ProposalType /\ IsFiniteSet(VotesOn(p))
        /\ \A r \in VotesOn(p) : FitsProposal(r, proposal[p])
    BY <1>0, VotesFitProposals
  <2>6. DOMAIN counted.weights = DOMAIN proposal[p].weights
    BY DEF Counted
  <2>7. counted.weights[1] = ApproveSum(1, V) /\ counted.deny = DenySum(V)
    BY <2>4 DEF TallyIs
  <2>8. ApproveSum(1, V) + DenySum(V) <= WeightSum(W)
    <3>1. IsFiniteSet(V) /\ \A r \in V : FitsProposal(r, proposal[p])
      BY <2>4, <2>5, FS_AddElement
    <3> HIDE DEF V
    <3> QED
      BY <2>5, <2>6, <3>1, ElectorateSum
  <2>9. TorType(tor) /\ IsFiniteSet(W) /\ DepositsCover(W, tor, mint)
    <3>1. /\ TorType(tor) /\ IsFiniteSet(VotesOfMint(p, mint))
          /\ DepositsCover(VotesOfMint(p, mint), tor, mint)
      BY <1>0, <2>1, <2>2, OpenVotesCovered
    <3>2. \A r \in W : r \in VotesOfMint(p, mint) \/ r = cast
      BY <1>0, <2>2, <2>4 DEF VotesOfMint, VotesOn, VotesInv, VotersAreOfMint, IsElectorate,
                              VotingMint
    <3>3. cast.voter = m /\ cast.weight = weight
      BY DEF NewVote
    <3>4. \A r \in VotesOfMint(p, mint) : r.voter # m
      BY <2>2 DEF VotesOfMint, VotesOn
    <3>5. W \subseteq VotesOfMint(p, mint) \cup {cast}
      BY <3>2
    <3> HIDE DEF W, cast
    <3>6. IsFiniteSet(W)
      BY <3>1, <3>5, FS_AddElement, FS_Subset
    <3>7. \A r \in W : /\ r.weight \in Nat /\ r.voter \in DOMAIN tor /\ MintOf[r.voter] = mint
                        /\ r.weight <= tor[r.voter].deposit
      BY <2>2, <2>3, <3>1, <3>2, <3>3 DEF DepositsCover
    <3>8. \A r, s \in W : r.voter = s.voter => r = s
      BY <3>1, <3>2, <3>3, <3>4 DEF DepositsCover
    <3> QED
      BY <3>1, <3>6, <3>7, <3>8 DEF DepositsCover
  <2>10. WeightSum(W) \in Nat /\ WeightSum(W) <= holding[mint]
    <3> HIDE DEF W
    <3> QED
      BY <1>0, <2>9, VotesWithinDeposits DEF HoldingInv
  <2>11. holding[mint] <= supply[mint] /\ holding[mint] \in Nat /\ supply[mint] \in Nat
    BY <1>0 DEF TypeInv, TypeOK, HoldingWithinSupply
  <2>12. counted.weights[1] \in Nat /\ counted.deny \in Nat
    BY SeqIsFunction DEF ProposalType
  <2> HIDE DEF W, V
  <2> QED
    BY <1>2, <2>7, <2>8, <2>10, <2>11, <2>12
<1> QED
  BY <1>1, <1>2 DEF MaxVoterWeights

-----------------------------------------------------------------------------
(* The outcome that a decided proposal shows *)

\* A proposal that is decided shows what its tally resolves to, another one no
\* winners.
Resolved(prop) ==
    LET thr == MinVoteThresholdWeight(prop.voteThreshold, prop.maxVoteWeight)
    IN  /\ prop.state \in {"Succeeded", "Completed", "Defeated"} =>
               /\ prop.state = FinalVoteState(prop.voteType, prop.weights,
                                              prop.hasDeny, prop.deny, thr)
               /\ prop.winners = WinningOptions(prop.voteType, prop.weights, prop.deny, thr)
        /\ prop.state \notin {"Succeeded", "Completed", "Defeated"} => prop.winners = {}
        /\ prop.state = "Vetoed" => prop.veto >= thr

ResolvedInv == \A p \in DOMAIN proposal : Resolved(proposal[p])

\* A strict tip is sound for a mint whose maximum weight covers the votes, either
\* as the supply of tokens that vote once or because it is coerced to; other
\* tippings always are.
NeverStrict(mint) == \A c \in Configs : c.voteTipping[mint] # "Strict"

TippingSound ==
    \A mint \in Mints : OwnTokensVote(mint) \/ Coerced(mint) \/ NeverStrict(mint)

LEMMA SingleSeq ==
    ASSUME NEW S, NEW s \in Seq(S), Len(s) = 1
    PROVE  s = <<s[1]>> /\ 1 \in DOMAIN s /\ s[1] \in S
<1>1. DOMAIN s = {1} /\ s \in [{1} -> S]
  BY SeqIsFunction
<1>2. s = [i \in {1} |-> s[i]]
  BY <1>1
<1>3. DOMAIN <<s[1]>> = {1} /\ <<s[1]>> = [i \in {1} |-> s[1]]
  OBVIOUS
<1>4. [i \in {1} |-> s[i]] = [i \in {1} |-> s[1]]
  OBVIOUS
<1> QED
  BY <1>1, <1>2, <1>3, <1>4

\* Only Yes/No votes tip.
TippedAsYesNo(prop, max, pct, tipping) ==
    /\ prop.voteType = "SingleChoice" /\ prop.hasDeny = TRUE
    /\ prop.weights = <<prop.weights[1]>> /\ 1 \in DOMAIN prop.weights
    /\ prop.weights[1] \in Nat /\ prop.deny \in Nat
    /\ TippedState(prop, "Electorate", max, pct, tipping) =
           TippedElectorateState("SingleChoice", <<prop.weights[1]>>, TRUE, prop.deny, max,
                                 MinVoteThresholdWeight(pct, max), tipping)

LEMMA TippedYesNo ==
    ASSUME NEW prop \in ProposalType, NEW max \in Nat, NEW pct, NEW tipping,
           TippedState(prop, "Electorate", max, pct, tipping) # "Voting"
    PROVE  TippedAsYesNo(prop, max, pct, tipping)
<1>1. /\ prop.weights \in Seq(Nat) /\ prop.deny \in Nat /\ prop.hasDeny \in BOOLEAN
  BY DEF ProposalType
<1>2. IsTippable(prop.voteType, prop.weights, prop.hasDeny)
  BY DEF TippedState, TippedElectorateState
<1>3. /\ prop.voteType = "SingleChoice" /\ prop.hasDeny = TRUE /\ Len(prop.weights) = 1
  BY <1>1, <1>2 DEF IsTippable
<1>4. /\ prop.weights = <<prop.weights[1]>> /\ 1 \in DOMAIN prop.weights
      /\ prop.weights[1] \in Nat
  BY <1>1, <1>3, SingleSeq
<1>5. TippedState(prop, "Electorate", max, pct, tipping) =
          TippedElectorateState("SingleChoice", <<prop.weights[1]>>, TRUE, prop.deny, max,
                                MinVoteThresholdWeight(pct, max), tipping)
  BY <1>3, <1>4 DEF TippedState
<1> QED
  BY <1>1, <1>3, <1>4, <1>5 DEF TippedAsYesNo

\* The vote that decides a proposal leaves what the tally resolves to.
LEMMA TippedResolved ==
    ASSUME NEW prop \in ProposalType, NEW new, NEW max \in Nat, NEW pct \in 0..100,
           NEW tipping \in VoteTippings, NEW state, NEW winners,
           state = TippedState(prop, "Electorate", max, pct, tipping), state # "Voting",
           winners = IF state = "Succeeded" THEN {1} ELSE {},
           Decides(prop, new, state, winners, max, pct),
           tipping = "Strict" /\ 1 \in DOMAIN prop.weights =>
               prop.weights[1] + prop.deny <= max
    PROVE  Resolved(new)
<1> DEFINE thr == MinVoteThresholdWeight(pct, max)
           yes == prop.weights[1]
           deny == prop.deny
           tipped == TippedElectorateState("SingleChoice", <<yes>>, TRUE, deny, max, thr, tipping)
<1>0. TippedState(prop, "Electorate", max, pct, tipping) # "Voting"
  OBVIOUS
<1>1. /\ prop.voteType = "SingleChoice" /\ prop.hasDeny = TRUE
      /\ prop.weights = <<yes>> /\ 1 \in DOMAIN prop.weights
      /\ yes \in Nat /\ deny \in Nat
      /\ TippedState(prop, "Electorate", max, pct, tipping) = tipped
  <2>1. TippedAsYesNo(prop, max, pct, tipping)
    BY <1>0, TippedYesNo
  <2> QED
    BY <2>1 DEF TippedAsYesNo
<1>2. thr \in 0..max
  BY ThresholdIsExactAlways
<1>3. /\ new.voteType = prop.voteType /\ new.hasDeny = prop.hasDeny
      /\ new.weights = prop.weights /\ new.deny = deny
      /\ new.state = state /\ new.winners = winners
      /\ thr = MinVoteThresholdWeight(new.voteThreshold, new.maxVoteWeight)
  BY DEF Decides, SameTally
<1>4. tipping = "Strict" => yes + deny <= max
  BY <1>1
<1> HIDE DEF thr, yes, deny
<1>5. yes \in Nat /\ deny \in Nat /\ tipped # "Voting"
  BY <1>0, <1>1
<1>6. ResolvesAsTipped(yes, deny, max, thr, tipping)
  BY <1>2, <1>4, <1>5, TipResolves
<1>7. /\ new.voteType = "SingleChoice" /\ new.hasDeny = TRUE
      /\ new.weights = <<yes>> /\ new.deny = deny
      /\ new.state = tipped /\ new.winners = IF tipped = "Succeeded" THEN {1} ELSE {}
  BY <1>1, <1>3
<1> HIDE DEF tipped
<1>8. thr = MinVoteThresholdWeight(new.voteThreshold, new.maxVoteWeight)
  BY <1>3
<1>9. CASE tipped = "Succeeded"
  <2>1. /\ new.state = FinalVoteState(new.voteType, new.weights, new.hasDeny, new.deny, thr)
        /\ new.winners = WinningOptions(new.voteType, new.weights, new.deny, thr)
        /\ new.state = "Succeeded"
    BY <1>7, <1>9, <1>6 DEF ResolvesAsTipped, tipped
  <2> QED
    BY <1>8, <2>1 DEF Resolved
<1>10. CASE tipped = "Defeated"
  <2>1. /\ new.state = FinalVoteState(new.voteType, new.weights, new.hasDeny, new.deny, thr)
        /\ new.winners = WinningOptions(new.voteType, new.weights, new.deny, thr)
        /\ new.state = "Defeated"
    BY <1>7, <1>10, <1>6 DEF ResolvesAsTipped, tipped
  <2> QED
    BY <1>8, <2>1 DEF Resolved
<1> QED
  BY <1>9, <1>10, <1>6 DEF ResolvesAsTipped, tipped

LEMMA CastVoteResolved ==
    ASSUME SupportInv, ResolvedInv, TippingSound,
           NEW p \in DOMAIN proposal, NEW m \in Members, NEW vote \in Votes(p),
           CastVote(p, m, vote)
    PROVE  ResolvedInv'
<1> DEFINE kind == VoteKind(vote)
           pct == VoteThresholdOf(MintOf[m], kind)
           tipping == config.voteTipping[MintOf[m]]
<1>0. /\ TypeInv /\ config \in Configs /\ MintOf[m] \in Mints
      /\ proposal[p].state = "Voting" /\ proposal[p] \in ProposalType
  BY ConstantsAssumption DEF SupportInv, BaseInv, Configured, CastVote, TypeInv, TypeOK
<1>1. PICK weight \in VoterWeights(m), new \in ProposalType :
        LET counted == Counted(proposal[p], vote, weight, 1)
        IN  /\ voteRecords' = voteRecords \cup {NewVote(p, m, vote, weight)}
            /\ proposal' = [proposal EXCEPT ![p] = new]
            /\ counted \in ProposalType
            /\ \/ new = counted
               \/ \E max \in MaxVoterWeights(MintOf[m], counted, kind) : \E winners :
                    LET state == TippedState(counted, kind, max, pct, tipping)
                    IN  /\ state # "Voting"
                        /\ winners = IF state = "Succeeded" THEN {1} ELSE {}
                        /\ Decides(counted, new, state, winners, max, pct)
  BY <1>0, CastVoteDecision
<1> DEFINE counted == Counted(proposal[p], vote, weight, 1)
<1>2. /\ voteRecords' = voteRecords \cup {NewVote(p, m, vote, weight)}
      /\ counted \in ProposalType
  BY <1>1
<1>3. SUFFICES Resolved(new)
  BY <1>1 DEF ResolvedInv
<1>4. CASE new = counted
  <2>1. counted.state = "Voting" /\ counted.winners = {}
    BY <1>0 DEF Counted, ProposalType, ResolvedInv, Resolved
  <2> QED
    BY <1>4, <2>1 DEF Resolved
<1>5. ASSUME NEW max \in MaxVoterWeights(MintOf[m], counted, kind), NEW winners,
             TippedState(counted, kind, max, pct, tipping) # "Voting",
             winners = IF TippedState(counted, kind, max, pct, tipping) = "Succeeded"
                       THEN {1} ELSE {},
             Decides(counted, new, TippedState(counted, kind, max, pct, tipping), winners, max, pct)
      PROVE  Resolved(new)
  <2> DEFINE state == TippedState(counted, kind, max, pct, tipping)
             thr == MinVoteThresholdWeight(pct, max)
  <2>1. /\ new.voteType = counted.voteType /\ new.hasDeny = counted.hasDeny
        /\ new.weights = counted.weights /\ new.deny = counted.deny /\ new.veto = counted.veto
        /\ new.state = state /\ new.winners = winners
        /\ new.maxVoteWeight = max /\ new.voteThreshold = pct
    BY <1>5 DEF Decides, SameTally
  <2>2. CASE kind = "Veto"
    <3>1. state = "Vetoed" /\ counted.veto >= thr
      BY <1>5, <2>2 DEF TippedState, TippedVetoState
    <3>2. winners = {}
      BY <1>5, <3>1
    <3> HIDE DEF state, counted, pct
    <3> QED
      BY <2>1, <3>1, <3>2 DEF Resolved
  <2>3. CASE kind = "Electorate"
    <3>1. max \in Nat /\ pct \in 0..100
      BY <1>0, <1>2, MaxVoterWeightsType, ThresholdType
    <3>2. tipping \in VoteTippings
      BY <1>0 DEF TypeInv, TypeOK, ConfigType
    <3>3. tipping = "Strict" => OwnTokensVote(MintOf[m]) \/ Coerced(MintOf[m])
      BY <1>0 DEF TippingSound, NeverStrict
    <3>4. /\ counted = Counted(proposal[p], vote, weight, 1)
          /\ max \in MaxVoterWeights(MintOf[m], counted, "Electorate")
          /\ state = TippedState(counted, "Electorate", max, pct, tipping)
          /\ state # "Voting" /\ winners = IF state = "Succeeded" THEN {1} ELSE {}
          /\ Decides(counted, new, state, winners, max, pct)
      BY <1>5, <2>3
    <3> HIDE DEF state, counted, pct, tipping
    <3>5. tipping = "Strict" /\ 1 \in DOMAIN counted.weights =>
              counted.weights[1] + counted.deny <= max
      BY <1>2, <2>3, <3>3, <3>4, CastWithinMax
    <3> QED
      BY <1>2, <3>1, <3>2, <3>4, <3>5, TippedResolved
  <2> QED
    BY <2>2, <2>3 DEF VoteKind
<1> QED
  BY <1>1, <1>4, <1>5

LEMMA InitResolved == Init => ResolvedInv
  BY DEF Init, NoAccounts, ResolvedInv

\* A proposal before its decision has no winners, and moves on without.
LEMMA ProposalStepResolved ==
    ASSUME TypeInv, ResolvedInv, ProposalStep
    PROVE  ResolvedInv'
<1>1. OneProposalMoves /\ Frozen
  BY ProposalStepEffect, ProposalStepFrozen
<1>2. CASE UNCHANGED proposal
  BY <1>2 DEF ResolvedInv, Resolved
<1>3. ASSUME NEW p \in Proposals \ DOMAIN proposal, NEW new, IsFresh(new),
             proposal' = Created(proposal, p, new)
      PROVE  ResolvedInv'
  <2>1. /\ DOMAIN proposal' = DOMAIN proposal \cup {p} /\ proposal'[p] = new
        /\ \A q \in DOMAIN proposal : proposal'[q] = proposal[q]
    BY <1>3 DEF Created
  <2>2. Resolved(new)
    BY <1>3 DEF IsFresh, Resolved
  <2> QED
    BY <2>1, <2>2 DEF ResolvedInv
<1>4. ASSUME NEW p \in DOMAIN proposal, NEW new, Advances(proposal[p], new),
             proposal' = [proposal EXCEPT ![p] = new]
      PROVE  ResolvedInv'
  <2>1. /\ DOMAIN proposal' = DOMAIN proposal /\ proposal'[p] = new
        /\ \A q \in DOMAIN proposal \ {p} : proposal'[q] = proposal[q]
    BY <1>4
  <2>2. proposal[p].state \notin ActiveStates => new = proposal[p]
    BY <1>1, <2>1 DEF Frozen
  <2>3. proposal[p].state \in ActiveStates => proposal[p].winners = {}
    BY DEF ResolvedInv, Resolved, ActiveStates
  <2>4. proposal[p].state \in ActiveStates => Resolved(new)
    BY <1>4, <2>3 DEF Advances, Resolved
  <2>5. Resolved(new)
    BY <2>2, <2>4 DEF ResolvedInv
  <2> QED
    BY <2>1, <2>5 DEF ResolvedInv
<1> QED
  BY <1>1, <1>2, <1>3, <1>4 DEF OneProposalMoves

\* Taking a vote back leaves the vote open; finalizing resolves the tally as it
\* stands.
LEMMA VoteStepResolved ==
    ASSUME SupportInv, ResolvedInv, TippingSound, VoteStep
    PROVE  ResolvedInv'
<1>0. TypeInv
  BY DEF SupportInv, BaseInv
<1>1. ASSUME NEW r \in voteRecords, WithdrawVote(r)
      PROVE  ResolvedInv'
  <2> DEFINE p == r.proposal
             new == Counted(proposal[p], r.vote, r.weight, -1)
  <2>1. /\ p \in DOMAIN proposal /\ proposal[p].state = "Voting"
        /\ proposal' = [proposal EXCEPT ![p] = new]
    BY <1>0, <1>1 DEF WithdrawVote, TypeInv, References
  <2>2. new.state = "Voting" /\ new.winners = {}
    BY <1>0, <2>1, ZenonT(40) DEF Counted, TypeInv, TypeOK, ProposalType, ResolvedInv, Resolved
  <2> HIDE DEF new
  <2>3. Resolved(new)
    BY <2>2 DEF Resolved
  <2> QED
    BY <2>1, <2>3 DEF ResolvedInv
<1>2. ASSUME NEW r \in voteRecords, PruneVote(r)
      PROVE  ResolvedInv'
  BY <1>2 DEF PruneVote, ResolvedInv, Resolved
<1>3. ASSUME NEW p \in Proposals, FinalizeVote(p)
      PROVE  ResolvedInv'
  <2>1. p \in DOMAIN proposal /\ proposal[p] \in ProposalType
    BY <1>0, <1>3, FinalizeVoteDecision DEF TypeInv, TypeOK
  <2> DEFINE prop == proposal[p]
  <2>2. PICK new \in ProposalType, max \in Nat, pct \in 0..100 :
          LET thr == MinVoteThresholdWeight(pct, max)
          IN  /\ proposal' = [proposal EXCEPT ![p] = new]
              /\ Decides(prop, new,
                         FinalVoteState(prop.voteType, prop.weights, prop.hasDeny,
                                        prop.deny, thr),
                         WinningOptions(prop.voteType, prop.weights, prop.deny, thr),
                         max, pct)
    BY <1>0, <1>3, FinalizeVoteDecision
  <2>3. Resolved(new)
    BY <2>2 DEF Decides, SameTally, Resolved, FinalVoteState
  <2> QED
    BY <2>1, <2>2, <2>3 DEF ResolvedInv
<1> QED
  BY <1>1, <1>2, <1>3, CastVoteResolved DEF VoteStep

LEMMA NextResolved ==
    ASSUME SupportInv, ResolvedInv, TippingSound, [Next]_vars
    PROVE  ResolvedInv'
<1>0. TypeInv
  BY DEF SupportInv, BaseInv
<1>1. CASE ConfigurationStep \/ TokenStep \/ UNCHANGED vars
  <2>1. UNCHANGED proposal
    BY <1>1, OtherStepsKeepProposals DEF vars, proposalVars
  <2> QED
    BY <2>1 DEF ResolvedInv, Resolved
<1> QED
  BY <1>0, <1>1, ProposalStepResolved, VoteStepResolved DEF Next

ResolvedAlways == SupportInv /\ ResolvedInv

\* A vote that tips ends with the very state and winners that its final tally
\* resolves to, and a vote that is finalized does, whatever is configured, minted
\* or burned between its votes, unless a strict tip may be for a mint whose
\* maximum weight the votes can exceed: tokens that are revoked after they voted.
THEOREM OutcomeReproducibleAlways ==
    ASSUME TippingSound
    PROVE  Spec => []OutcomeReproducible
<1>1. ResolvedAlways => OutcomeReproducible
  BY DEF ResolvedAlways, ResolvedInv, Resolved, OutcomeReproducible
<1>2. Init => ResolvedAlways
  BY InitSupport, InitResolved DEF ResolvedAlways
<1>3. ResolvedAlways /\ [Next]_vars => ResolvedAlways'
  BY NextSupport, NextResolved DEF ResolvedAlways
<1> QED
  BY <1>1, <1>2, <1>3, PTL DEF Spec

\* A winner has outvoted the Deny votes, and in a single choice every other
\* option, under the same hypothesis.
THEOREM OneWinnerAlways ==
    ASSUME TippingSound
    PROVE  Spec => []OneWinner
<1>1. ASSUME ResolvedAlways PROVE OneWinner
  <2>1. TypeInv
    BY <1>1 DEF ResolvedAlways, SupportInv, BaseInv
  <2> SUFFICES ASSUME NEW p \in DOMAIN proposal, NEW o \in proposal[p].winners
               PROVE  /\ proposal[p].weights[o] > proposal[p].deny
                      /\ proposal[p].voteType = "SingleChoice" =>
                            \A q \in DOMAIN proposal[p].weights \ {o} :
                                proposal[p].weights[q] < proposal[p].weights[o]
    BY DEF OneWinner
  <2> DEFINE prop == proposal[p]
             thr == MinVoteThresholdWeight(prop.voteThreshold, prop.maxVoteWeight)
  <2>2. /\ prop \in ProposalType /\ prop.weights \in Seq(Nat) /\ prop.deny \in Nat
        /\ prop.voteThreshold \in 0..100 /\ prop.maxVoteWeight \in Nat
    BY <2>1 DEF TypeInv, TypeOK, ProposalType
  <2>3. \A i \in DOMAIN prop.weights : prop.weights[i] \in Nat
    BY <2>2, SeqIsFunction
  <2>4. thr \in Nat
    <3>1. thr \in 0..prop.maxVoteWeight
      BY <2>2, ThresholdIsExactAlways
    <3> QED
      BY <2>2, <3>1
  <2>5. o \in WinningOptions(prop.voteType, prop.weights, prop.deny, thr)
    BY <1>1 DEF ResolvedAlways, ResolvedInv, Resolved
  <2> HIDE DEF thr, prop
  <2>6. /\ prop.weights[o] > prop.deny
        /\ prop.voteType = "SingleChoice" =>
              \A q \in DOMAIN prop.weights \ {o} : prop.weights[q] < prop.weights[o]
    BY <2>2, <2>3, <2>4, <2>5, WinnersOutvote
  <2> QED
    BY <2>6 DEF prop
<1>2. Init => ResolvedAlways
  BY InitSupport, InitResolved DEF ResolvedAlways
<1>3. ResolvedAlways /\ [Next]_vars => ResolvedAlways'
  BY NextSupport, NextResolved DEF ResolvedAlways
<1> QED
  BY <1>1, <1>2, <1>3, PTL DEF Spec

-----------------------------------------------------------------------------
(* A strict tip has the outcome of every continuation *)

\* Every maximum weight is the whole supply of the mint.
FullSupply ==
    \A r \in Realms :
        /\ r.maxWeightSource = [kind |-> "SupplyFraction", value |-> SUPPLY_FRACTION_BASE]
        /\ \A mint \in Mints : ~r.maxWeightAddin[mint]

StrictTip ==
    \A p \in DOMAIN proposal :
        LET before == proposal[p]
            after  == proposal'[p]
            thr    == MinVoteThresholdWeight(after.voteThreshold, after.maxVoteWeight)
            all    == supply[before.mint]
        IN  /\ before.state = "Voting" /\ voteRecords' # voteRecords
            /\ after.state \in {"Succeeded", "Defeated"}
            /\ config.voteTipping[before.mint] = "Strict"
            => \A yes \in after.weights[1]..all, deny \in after.deny..all :
                   yes + deny <= all =>
                       after.state = FinalVoteState(after.voteType, <<yes>>, TRUE, deny, thr)

\* What a vote that is tipped strictly would be resolved to later.
Final(prop, all) ==
    LET thr == MinVoteThresholdWeight(prop.voteThreshold, prop.maxVoteWeight)
    IN  \A yes \in prop.weights[1]..all, deny \in prop.deny..all :
            yes + deny <= all =>
                prop.state = FinalVoteState(prop.voteType, <<yes>>, TRUE, deny, thr)

LEMMA StrictTipOfVote ==
    ASSUME NEW prop \in ProposalType, NEW new, NEW max \in Nat, NEW pct \in 0..100,
           NEW tipping \in VoteTippings, NEW winners,
           TippedState(prop, "Electorate", max, pct, tipping) = "Succeeded" => tipping = "Strict",
           TippedState(prop, "Electorate", max, pct, tipping) # "Voting",
           Decides(prop, new, TippedState(prop, "Electorate", max, pct, tipping), winners,
                   max, pct)
    PROVE  Final(new, max)
<1> DEFINE thr == MinVoteThresholdWeight(pct, max)
           yes == prop.weights[1]
           deny == prop.deny
           tipped == TippedElectorateState("SingleChoice", <<yes>>, TRUE, deny, max, thr, tipping)
<1>0. TippedState(prop, "Electorate", max, pct, tipping) # "Voting"
  OBVIOUS
<1>1. /\ prop.voteType = "SingleChoice" /\ prop.hasDeny = TRUE
      /\ prop.weights = <<yes>> /\ 1 \in DOMAIN prop.weights
      /\ yes \in Nat /\ deny \in Nat
      /\ TippedState(prop, "Electorate", max, pct, tipping) = tipped
  <2>1. TippedAsYesNo(prop, max, pct, tipping)
    BY <1>0, TippedYesNo
  <2> QED
    BY <2>1 DEF TippedAsYesNo
<1>2. /\ new.voteType = prop.voteType
      /\ new.weights[1] = yes /\ new.deny = deny
      /\ new.state = TippedState(prop, "Electorate", max, pct, tipping)
      /\ new.voteThreshold = pct /\ new.maxVoteWeight = max
  BY DEF Decides, SameTally
<1>3. thr \in 0..max
  BY ThresholdIsExactAlways
<1>4. tipped # "Voting" /\ (tipped = "Succeeded" => tipping = "Strict")
  BY <1>1
<1> HIDE DEF thr, yes, deny
<1>5. TipIsIrreversible(yes, deny, max, thr, tipping)
  BY <1>1, <1>3, TipIsFinalAlways
<1>6. \A y \in yes..max, d \in deny..max :
          y + d <= max => tipped = FinalVoteState("SingleChoice", <<y>>, TRUE, d, thr)
  BY <1>4, <1>5 DEF TipIsIrreversible
<1> HIDE DEF tipped
<1>7. /\ new.voteType = "SingleChoice" /\ new.state = tipped
      /\ thr = MinVoteThresholdWeight(new.voteThreshold, new.maxVoteWeight)
  BY <1>1, <1>2 DEF thr
<1> QED
  BY <1>2, <1>6, <1>7 DEF Final

LEMMA CastVoteTips ==
    ASSUME TypeInv, Configured, FullSupply,
           NEW p \in DOMAIN proposal, NEW m \in Members, NEW vote \in Votes(p),
           CastVote(p, m, vote), config.voteTipping[proposal[p].mint] = "Strict",
           proposal'[p].state \in {"Succeeded", "Defeated"}
    PROVE  Final(proposal'[p], supply[proposal[p].mint])
<1> DEFINE kind == VoteKind(vote)
           pct == VoteThresholdOf(MintOf[m], kind)
<1>1. PICK weight \in VoterWeights(m), new \in ProposalType :
        LET counted == Counted(proposal[p], vote, weight, 1)
        IN  /\ proposal' = [proposal EXCEPT ![p] = new]
            /\ counted \in ProposalType
            /\ \/ new = counted
               \/ \E max \in MaxVoterWeights(MintOf[m], counted, kind) : \E winners :
                    LET state == TippedState(counted, kind, max, pct,
                                             config.voteTipping[MintOf[m]])
                    IN  /\ state # "Voting"
                        /\ winners = IF state = "Succeeded" THEN {1} ELSE {}
                        /\ Decides(counted, new, state, winners, max, pct)
  BY CastVoteDecision
<1> DEFINE counted == Counted(proposal[p], vote, weight, 1)
<1>2. /\ proposal[p] \in ProposalType /\ proposal[p].state = "Voting"
      /\ MintOf[m] \in Mints /\ VotingMint(proposal[p].mint, kind) = MintOf[m]
  BY ConstantsAssumption DEF TypeInv, TypeOK, CastVote, CanVoteOn
<1>3. counted \in ProposalType /\ proposal'[p] = new
  BY <1>1
<1>4. new # counted
  <2>1. counted.state = "Voting"
    BY <1>2 DEF Counted, ProposalType
  <2> QED
    BY <1>3, <2>1
<1>4a. PICK max \in MaxVoterWeights(MintOf[m], counted, kind) : \E winners :
        LET state == TippedState(counted, kind, max, pct, config.voteTipping[MintOf[m]])
        IN  /\ state # "Voting"
            /\ Decides(counted, new, state, winners, max, pct)
  BY <1>1, <1>4
<1>5. PICK winners :
        LET state == TippedState(counted, kind, max, pct, config.voteTipping[MintOf[m]])
        IN  /\ max \in MaxVoterWeights(MintOf[m], counted, kind)
            /\ state # "Voting"
            /\ Decides(counted, new, state, winners, max, pct)
  BY <1>4a
<1> HIDE DEF counted, pct
<1>6. kind = "Electorate"
  <2>1. ASSUME kind = "Veto" PROVE FALSE
    <3>1. new.state = "Vetoed"
      BY <1>5, <2>1 DEF Decides, TippedState, TippedVetoState
    <3> QED
      BY <1>3, <3>1
  <2> QED
    BY <2>1 DEF VoteKind
<1>7. MintOf[m] = proposal[p].mint
  BY <1>2, <1>6 DEF VotingMint
<1>8. max = supply[MintOf[m]]
  BY <1>2, <1>5 DEF Configured, FullSupply, MaxVoterWeights, UsesWholeSupply
<1>9. max \in Nat /\ pct \in 0..100
  BY <1>2, <1>3, <1>5, MaxVoterWeightsType, ThresholdType DEF pct
<1> DEFINE tipping == config.voteTipping[MintOf[m]]
<1>10. /\ TippedState(counted, "Electorate", max, pct, tipping) # "Voting"
       /\ Decides(counted, new, TippedState(counted, "Electorate", max, pct, tipping),
                  winners, max, pct)
  BY <1>5, <1>6
<1>11. tipping = "Strict" /\ tipping \in VoteTippings
  BY <1>7 DEF VoteTippings
<1> HIDE DEF kind, tipping
<1>12. Final(new, max)
  BY <1>3, <1>9, <1>10, <1>11, StrictTipOfVote
<1> QED
  BY <1>3, <1>7, <1>8, <1>12

\* Of the steps that change votes only a vote that is cast decides a proposal.
LEMMA NextTips ==
    ASSUME TypeInv, Configured, FullSupply, [Next]_vars
    PROVE  StrictTip
<1> SUFFICES ASSUME NEW p \in DOMAIN proposal, proposal[p].state = "Voting",
                    voteRecords' # voteRecords,
                    proposal'[p].state \in {"Succeeded", "Defeated"},
                    config.voteTipping[proposal[p].mint] = "Strict"
             PROVE  Final(proposal'[p], supply[proposal[p].mint])
  BY Zenon DEF StrictTip, Final
<1>1. CASE ConfigurationStep \/ TokenStep \/ UNCHANGED vars
  BY <1>1, OtherStepsKeepProposals DEF vars, proposalVars
<1>2. CASE ProposalStep
  BY <1>2, ProposalStepEffect DEF OneProposalMoves
<1>3. ASSUME NEW q \in DOMAIN proposal, NEW m \in Members, NEW vote \in Votes(q),
             CastVote(q, m, vote)
      PROVE  Final(proposal'[p], supply[proposal[p].mint])
  <2>1. CASE q = p
    BY <1>3, <2>1, CastVoteTips
  <2>2. CASE q # p
    <3>1. PICK new : proposal' = [proposal EXCEPT ![q] = new]
      BY <1>3, CastVoteDecision
    <3> QED
      BY <2>2, <3>1
  <2> QED
    BY <2>1, <2>2
<1>4. ASSUME NEW r \in voteRecords, WithdrawVote(r)
      PROVE  FALSE
  <2>1. proposal' = [proposal EXCEPT ![r.proposal] =
                         Counted(proposal[r.proposal], r.vote, r.weight, -1)]
    BY <1>4 DEF WithdrawVote
  <2>2. proposal[p] \in ProposalType
    BY DEF TypeInv, TypeOK
  <2>3. Counted(proposal[p], r.vote, r.weight, -1).state = "Voting"
    BY <2>2 DEF Counted, ProposalType
  <2>4. proposal'[p].state = "Voting"
    BY <2>1, <2>3
  <2> QED
    BY <2>4
<1>5. ASSUME NEW r \in voteRecords, PruneVote(r)
      PROVE  FALSE
  BY <1>5 DEF PruneVote
<1>6. ASSUME NEW q \in Proposals, FinalizeVote(q)
      PROVE  FALSE
  BY <1>6, FinalizeVoteDecision
<1> QED
  BY <1>1, <1>2, <1>3, <1>4, <1>5, <1>6 DEF Next, VoteStep

\* Once a vote has tipped strictly no distribution of the supply that has not
\* voted yet resolves it otherwise, where the maximum weight is the supply.
THEOREM StrictTipIsFinalAlways ==
    ASSUME FullSupply
    PROVE  Spec => StrictTipIsFinal
<1>1. TypeInv /\ Configured /\ [Next]_vars => StrictTip
  BY NextTips
<1>2. StrictTipIsFinal <=> [][StrictTip]_vars
  BY PTL DEF StrictTipIsFinal, StrictTip
<1>3. Init => TypeInv /\ Configured
  BY InitType, InitConfigured
<1>4. TypeInv /\ Configured /\ [Next]_vars => (TypeInv /\ Configured)'
  BY NextType, NextConfigured
<1> QED
  BY <1>1, <1>2, <1>3, <1>4, PTL DEF Spec

-----------------------------------------------------------------------------
(* The cool off time is for counter votes *)

CoolOff ==
    \A p \in DOMAIN proposal :
        proposal[p].state = "Voting" /\ HasVotingBaseTimeEnded(p) =>
            \A o \in DOMAIN proposal[p].weights :
                proposal'[p].weights[o] <= proposal[p].weights[o]

NoHelp(before, after) ==
    \A o \in DOMAIN before.weights : after.weights[o] <= before.weights[o]

LEMMA WeightsAreNumbers ==
    ASSUME NEW prop \in ProposalType
    PROVE  \A o \in DOMAIN prop.weights : prop.weights[o] \in Nat
<1>1. prop.weights \in Seq(Nat)
  BY DEF ProposalType
<1> QED
  BY <1>1, SeqIsFunction

LEMMA SameWeightsNoHelp ==
    ASSUME NEW before \in ProposalType, NEW after, after.weights = before.weights
    PROVE  NoHelp(before, after)
  BY WeightsAreNumbers DEF NoHelp

\* Deny and Veto votes leave the options alone, and taking a vote back adds nothing.
LEMMA CountedNoHelp ==
    ASSUME NEW prop \in ProposalType, NEW r, FitsProposal(r, prop), NEW sign \in {1, -1},
           sign = 1 => r.vote.kind # "Approve"
    PROVE  NoHelp(prop, Counted(prop, r.vote, r.weight, sign))
<1> DEFINE counted == Counted(prop, r.vote, r.weight, sign)
<1>1. \A o \in DOMAIN prop.weights : counted.weights[o] = prop.weights[o] + sign * ApproveOf(o, r)
  BY CountedFields
<1>2. \A o \in DOMAIN prop.weights : ApproveOf(o, r) \in Nat
  BY WeightsOfVote
<1>3. \A o \in DOMAIN prop.weights : sign = 1 => ApproveOf(o, r) = 0
  BY DEF ApproveOf
<1> HIDE DEF counted
<1>4. CASE sign = 1
  BY <1>1, <1>3, <1>4, WeightsAreNumbers DEF NoHelp, counted
<1>5. CASE sign = -1
  <2>1. ASSUME NEW a \in Nat, NEW b \in Nat PROVE a + (-1) * b <= a
    BY SMT
  <2>2. \A o \in DOMAIN prop.weights :
            counted.weights[o] = prop.weights[o] + (-1) * ApproveOf(o, r)
    BY <1>1, <1>5
  <2>3. \A o \in DOMAIN prop.weights : counted.weights[o] <= prop.weights[o]
    BY <1>2, <2>1, <2>2, WeightsAreNumbers
  <2> QED
    BY <2>3 DEF NoHelp, counted
<1> QED
  BY <1>4, <1>5

LEMMA CastVoteNoHelp ==
    ASSUME TypeInv, NEW p \in DOMAIN proposal, NEW m \in Members, NEW vote \in Votes(p),
           CastVote(p, m, vote), HasVotingBaseTimeEnded(p)
    PROVE  NoHelp(proposal[p], proposal'[p])
<1>1. PICK weight \in VoterWeights(m), new \in ProposalType :
        LET counted == Counted(proposal[p], vote, weight, 1)
        IN  /\ proposal' = [proposal EXCEPT ![p] = new]
            /\ new = counted \/ new.weights = counted.weights
  BY CastVoteDecision DEF Decides, SameTally
<1>2. /\ proposal[p] \in ProposalType /\ MintOf[m] \in Mints
      /\ p \in Proposals /\ m \in DOMAIN tor /\ vote.kind # "Approve"
  BY ConstantsAssumption DEF TypeInv, TypeOK, CastVote, InVotingTime
<1> DEFINE r == NewVote(p, m, vote, weight)
<1>3. FitsProposal(r, proposal[p]) /\ r.vote = vote /\ r.weight = weight
  <2>1. weight \in Nat
    BY <1>2, VoterWeightsType
  <2> QED
    BY <1>2, <2>1, VotesFit DEF FitsProposal, NewVote, VoteRecordType
<1> HIDE DEF r
<1>4. NoHelp(proposal[p], Counted(proposal[p], r.vote, r.weight, 1))
  BY <1>2, <1>3, CountedNoHelp
<1>5. proposal'[p] = new
  BY <1>1
<1> QED
  BY <1>1, <1>3, <1>4, <1>5 DEF NoHelp

LEMMA NextNoHelp ==
    ASSUME TypeInv, CountingInv, [Next]_vars
    PROVE  CoolOff
<1> SUFFICES ASSUME NEW p \in DOMAIN proposal, proposal[p].state = "Voting",
                    HasVotingBaseTimeEnded(p)
             PROVE  NoHelp(proposal[p], proposal'[p])
  BY DEF CoolOff, NoHelp
<1>0. proposal[p] \in ProposalType
  BY DEF TypeInv, TypeOK
<1>1. CASE UNCHANGED proposal
  BY <1>0, <1>1, SameWeightsNoHelp
<1>2. CASE ConfigurationStep \/ TokenStep \/ UNCHANGED vars
  BY <1>1, <1>2, OtherStepsKeepProposals DEF vars, proposalVars
<1>3. CASE ProposalStep
  <2>1. proposal'[p].weights = proposal[p].weights
    BY <1>3, ProposalStepEffect DEF OneProposalMoves, Created, Advances, SameTally
  <2> QED
    BY <1>0, <2>1, SameWeightsNoHelp
<1>4. ASSUME NEW q \in DOMAIN proposal, NEW m \in Members, NEW vote \in Votes(q),
             CastVote(q, m, vote)
      PROVE  NoHelp(proposal[p], proposal'[p])
  <2>1. CASE q = p
    BY <1>4, <2>1, CastVoteNoHelp
  <2>2. CASE q # p
    <3>1. PICK new : proposal' = [proposal EXCEPT ![q] = new]
      BY <1>4, CastVoteDecision
    <3>2. proposal'[p].weights = proposal[p].weights
      BY <2>2, <3>1
    <3> QED
      BY <1>0, <3>2, SameWeightsNoHelp
  <2> QED
    BY <2>1, <2>2
<1>5. ASSUME NEW r \in voteRecords, WithdrawVote(r)
      PROVE  NoHelp(proposal[p], proposal'[p])
  <2>1. proposal' = [proposal EXCEPT ![r.proposal] =
                         Counted(proposal[r.proposal], r.vote, r.weight, -1)]
    BY <1>5 DEF WithdrawVote
  <2>2. CASE r.proposal = p
    <3>1. FitsProposal(r, proposal[p])
      BY <2>2, VotesFitProposals DEF VotesOn
    <3>2. NoHelp(proposal[p], Counted(proposal[p], r.vote, r.weight, -1))
      BY <1>0, <3>1, CountedNoHelp
    <3> QED
      BY <2>1, <2>2, <3>2
  <2>3. CASE r.proposal # p
    <3>1. proposal'[p].weights = proposal[p].weights
      BY <2>1, <2>3
    <3> QED
      BY <1>0, <3>1, SameWeightsNoHelp
  <2> QED
    BY <2>2, <2>3
<1>6. ASSUME NEW r \in voteRecords, PruneVote(r)
      PROVE  NoHelp(proposal[p], proposal'[p])
  BY <1>1, <1>6 DEF PruneVote
<1>7. ASSUME NEW q \in Proposals, FinalizeVote(q)
      PROVE  NoHelp(proposal[p], proposal'[p])
  <2>1. q \in DOMAIN proposal
    BY <1>7, FinalizeVoteDecision
  <2>2. PICK new : /\ proposal' = [proposal EXCEPT ![q] = new]
                   /\ new.weights = proposal[q].weights
    BY <1>7, FinalizeVoteDecision DEF Decides, SameTally
  <2>3. proposal'[p].weights = proposal[p].weights
    BY <2>1, <2>2
  <2> QED
    BY <1>0, <2>3, SameWeightsNoHelp
<1> QED
  BY <1>2, <1>3, <1>4, <1>5, <1>6, <1>7 DEF Next, VoteStep

\* Once the voting base time is over no option gains weight, by a vote, a vote
\* taken back or the resolution itself.
THEOREM CoolOffNeverHelpsAlways == Spec => CoolOffNeverHelps
<1>1. TypeInv /\ CountingInv /\ [Next]_vars => CoolOff
  BY NextNoHelp
<1>2. CoolOffNeverHelps <=> [][CoolOff]_vars
  BY PTL DEF CoolOffNeverHelps, CoolOff
<1>3. Init => TypeInv /\ CountingInv
  BY InitType, InitCounted
<1>4. TypeInv /\ CountingInv /\ [Next]_vars => (TypeInv /\ CountingInv)'
  BY NextType, NextCounted
<1> QED
  BY <1>1, <1>2, <1>3, <1>4, PTL DEF Spec
=============================================================================
