\* Every Yes/No tally up to weight 12; every pair of numbers of four words of two bits.
CONSTANTS
    Parts = {"votes", "words", "accounts", "realms"}
    MAX_WEIGHT = 12
    U64_RESOLUTION = 2
    Thresholds = {1, 10, 33, 34, 50, 51, 57, 60, 67, 99, 100}
    \* accounts: a governance, a record and a proposal of an older version, and a new proposal
    LegacyProposals = {p1}
    NewProposals = {p2}
    RequiredOnes = {s1, s2}
    LockIds = {l1}
    Weight = 1
    U32 = 4
    LegacyTotals = {0, 2}
    Percentages = {60}
    DEFAULT_DEPOSIT_EXEMPT_PROPOSAL_COUNT = 10
    \* realms: two of them with a governance each
    Names = {r1, r2}
    Seeds = {g1}
    Keys = {alice, member}
    Member = member
    NoKey = NoKey
    NeverEnough = 9
    MinWeights = {1, 9}
    MAX_DEPOSIT = 1
    RecordKeys <- ACommunityAndACouncilRecord
    r1 = r1
    r2 = r2
SPECIFICATION MCSpec
\* All the weight has been cast in the end.
CHECK_DEADLOCK FALSE
INVARIANTS
    VotesDecidedExactly
    WideArithmeticIsExact
PROPERTIES
    AccountsSound
