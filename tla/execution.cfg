\* A proposal's transactions are inserted, removed and executed, by each other too; one of them sets a longer hold-up time.
CONSTANTS
    c1 = c1  c2 = c2  c3 = c3  k1 = k1  p1 = p1  p2 = p2  s1 = s1  s2 = s2  s3 = s3  a1 = a1  a2 = a2  l1 = l1
    Members = {c1}
    MintOf <- MCMintOf
    Proposals = {p1}
    Signatories <- None
    Authorities <- None
    LockIds <- None
    Configs <- ExecutionConfigs
    Realms <- NoCouncil
    Ballots <- ExecutionBallots
    Percentages = {0, 100}
    Amounts = {1}
    MintAmounts <- None
    InitialSupply <- OneToken
    AddinWeights <- None
    SUPPLY_FRACTION_BASE = 100
    MAX_OUTSTANDING = 10
    MaxSupply <- OneToken
    MAX_TIME = 4
    LAST_START = 1
    Calls <- SomeCalls
    MAX_TRANSACTIONS = 2
SPECIFICATION FairExecutionSpec
INVARIANTS
    EachRunsOnce
    TransactionsCounted
    TimelineOrdered
PROPERTIES
    LifecycleRefined
    ExecutionEnds
