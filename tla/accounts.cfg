\* Two proposals of one member who also votes: signatories and required ones, lock authorities that use the same lock id, and a dormant realm come and go, one kind at a time.
CONSTANTS
    c1 = c1  c2 = c2  c3 = c3  k1 = k1  p1 = p1  p2 = p2  s1 = s1  s2 = s2  s3 = s3  a1 = a1  a2 = a2  l1 = l1
    Members = {c1}
    MintOf <- MCMintOf
    Proposals = {p1, p2}
    Signatories = {s1, s2}
    Authorities = {a1, a2}
    LockIds = {l1}
    Configs <- StrictOnly
    Realms <- SometimesDormant
    Ballots <- YesNo
    Percentages = {100}
    Amounts = {1}
    MintAmounts <- None
    InitialSupply <- OneToken
    AddinWeights <- None
    SUPPLY_FRACTION_BASE = 100
    MAX_OUTSTANDING = 10
    MaxSupply <- OneToken
    MAX_TIME = 4
    LAST_START = 1
SPECIFICATION Spec
CONSTRAINT OneKindAtATime
SYMMETRY ProposalSymmetry
INVARIANTS
    TypeOK
    ProposalsCounted
    VotingNeedsAllSignatures
PROPERTIES
    DecisionFrozen
    LocksAreTheirAuthoritys
    CommittedTokensStay
