\* One Yes/No proposal; two community members and one council member share three and one tokens; time passes and anybody finalizes and prunes.
CONSTANTS
    c1 = c1  c2 = c2  c3 = c3  k1 = k1  p1 = p1  p2 = p2  s1 = s1  s2 = s2  s3 = s3  a1 = a1  a2 = a2  l1 = l1
    Members = {c1, c2, k1}
    MintOf <- MCMintOf
    Proposals = {p1}
    Signatories <- None
    Authorities <- None
    LockIds <- None
    Configs <- StrictLow
    Realms <- LiquidOnly
    Ballots <- YesNo
    Percentages = {100}
    Amounts = {1, 2}
    MintAmounts <- None
    InitialSupply <- ThreeTokens
    AddinWeights <- None
    SUPPLY_FRACTION_BASE = 100
    MAX_OUTSTANDING = 10
    MaxSupply <- ThreeTokens
    MAX_TIME = 4
    LAST_START = 1
SPECIFICATION FairSpec
INVARIANTS
    VotesBacked
PROPERTIES
    CoolOffNeverHelps
    StrictTipIsFinal
    VotingEnds
    VotesReleased
