----------------------------- MODULE MCGovernance -----------------------------
(***************************************************************************)
(* Small instances of Governance.  Every .cfg file picks its constants     *)
(* from the definitions below; what an instance leaves out (a plugin, a    *)
(* lock, a second configuration) it leaves out by an empty set.            *)
(***************************************************************************)
EXTENDS Governance, TLC

CONSTANTS c1, c2, c3, k1, p1, p2, s1, s2, s3, a1, a2, l1

\* c* hold community tokens, k* council tokens.
CommunityMember == {c1, c2, c3}
MCMintOf == [m \in Members |-> IF m \in CommunityMember THEN "community" ELSE "council"]

None == {}

-----------------------------------------------------------------------------
(* Configurations of the governance *)

BaseConfig ==
    [voteThreshold |-> [community |-> 60, council |-> 60],
     vetoThreshold |-> [community |-> 0, council |-> 60],
     voteTipping   |-> [community |-> "Strict", council |-> "Strict"],
     minWeightToCreateProposal |-> [community |-> 1, council |-> 1],
     baseTime |-> 1, coolOffTime |-> 1, holdUpTime |-> 1, depositExempt |-> 0]

\* Strict tipping above a low threshold, early tipping, and no tipping at all.
StrictLowConfig == [BaseConfig EXCEPT !.voteThreshold.community = 30]
EarlyConfig    == [BaseConfig EXCEPT !.voteTipping.community = "Early"]
DisabledConfig == [BaseConfig EXCEPT !.voteThreshold.community = 30,
                                     !.voteTipping.community = "Disabled"]

StrictOnly    == {BaseConfig}
StrictLow     == {StrictLowConfig}
NotStrict     == {EarlyConfig, DisabledConfig}
StrictOrEarly == {BaseConfig, EarlyConfig}

-----------------------------------------------------------------------------
(* Configurations of the realm *)

BaseRealm ==
    [hasCouncil |-> TRUE,
     tokenType |-> [community |-> "Liquid", council |-> "Liquid"],
     maxWeightSource |-> [kind |-> "SupplyFraction", value |-> SUPPLY_FRACTION_BASE],
     weightAddin |-> [community |-> FALSE, council |-> FALSE],
     maxWeightAddin |-> [community |-> FALSE, council |-> FALSE]]

CommunityOnly == [BaseRealm EXCEPT !.hasCouncil = FALSE]
DormantRealm  == [CommunityOnly EXCEPT !.tokenType.community = "Dormant"]
MemberRealm   == [BaseRealm EXCEPT !.tokenType.community = "Membership"]
PluginRealm   == [BaseRealm EXCEPT !.weightAddin.community = TRUE,
                                   !.maxWeightAddin.community = TRUE]

LiquidOnly     == {BaseRealm}
NoCouncil      == {CommunityOnly}
SometimesDormant == {CommunityOnly, DormantRealm}
MembershipOnly == {MemberRealm}
MembershipRealms ==
    {MemberRealm, [MemberRealm EXCEPT !.maxWeightSource.value = 50, !.hasCouncil = FALSE]}
PluginOnly     == {PluginRealm}

-----------------------------------------------------------------------------
(* Ballots *)

YesNo == {[voteType |-> "SingleChoice", options |-> 1, hasDeny |-> TRUE]}
EveryBallot == YesNo \cup
    {[voteType |-> t, options |-> 2, hasDeny |-> d] : t \in VoteTypes, d \in BOOLEAN}

\* Tokens there are to begin with.
ThreeTokens == [community |-> 3, council |-> 1]
TwoTokens   == [community |-> 2, council |-> 1]
OneToken    == [community |-> 1, council |-> 1]
NoTokens    == [community |-> 0, council |-> 0]

CommunitySymmetry == Permutations(CommunityMember)
ProposalSymmetry  == Permutations({p1, p2})
-----------------------------------------------------------------------------
(* The bound of the run accounts: signatories, lock authorities and a       *)
(* dormant realm, whose handlers share nothing but the proposals and the    *)
(* records, occur one kind at a time.                                       *)

NoSignatories ==
    requiredSignatories = {} /\ \A p \in DOMAIN proposal : proposal[p].signatories = {}
NoLocks ==
    /\ \A mint \in Mints : lockAuthorities[mint] = {}
    /\ \A m \in DOMAIN tor : tor[m].locks = {}
NotDormant == realm # DormantRealm

OneKindAtATime ==
    \/ NoSignatories /\ NoLocks
    \/ NoSignatories /\ NotDormant
    \/ NoLocks /\ NotDormant
=============================================================================
