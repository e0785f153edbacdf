\* Ballots of every type, with weights that plugins report and change between two votes.
CONSTANTS
    c1 = c1  c2 = c2  c3 = c3  k1 = k1  p1 = p1  p2 = p2  s1 = s1  s2 = s2  s3 = s3  a1 = a1  a2 = a2  l1 = l1
    Members = {c1, c2}
    MintOf <- MCMintOf
    Proposals = {p1}
    Signatories <- None
    Authorities <- None
    LockIds <- None
    Configs <- StrictOrEarly
    Realms <- PluginOnly
    Ballots <- EveryBallot
    Percentages = {0, 50, 100}
    Amounts <- None
    MintAmounts <- None
    InitialSupply <- NoTokens
    AddinWeights = {0, 1, 3}
    SUPPLY_FRACTION_BASE = 100
    MAX_OUTSTANDING = 10
    MaxSupply <- NoTokens
    MAX_TIME = 4
    LAST_START = 1
SPECIFICATION Spec
SYMMETRY CommunitySymmetry
INVARIANTS
    TallyMatchesVotes
    OneWinner
