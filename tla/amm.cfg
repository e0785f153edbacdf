CONSTANTS
    p1 = p1
    p2 = p2
    Positions <- MCPositions
    Ranges <- MCRanges
    Liquidities <- MCLiquidities
    SwapAmounts <- MCSwapAmounts
    PriceLimits <- MCPriceLimits
    ArrayCounts <- MCArrayCounts
    FeeRates <- MCFeeRates
    ProtocolFeeRates <- MCProtocolFeeRates
    Emissions <- MCEmissions
    RewardFunds <- MCRewardFunds
    TickPrice <- MCTickPrice
    InitialPrice = 17
    InitialGrowth <- MCInitialGrowth
    TICK_SPACING = 1
    TICK_ARRAY_SIZE = 2
    FEE_RATE_MUL_VALUE = 10
    PROTOCOL_FEE_RATE_MUL_VALUE = 4
    DAY_IN_SECONDS = 1
    ONE = 16
    U64_MAX = 31
    WORD = 64
    MIN_SQRT_PRICE = 8
    MAX_SQRT_PRICE = 32
    MAX_VAULT = 5
    MAX_TIME = 1
SPECIFICATION Spec
SYMMETRY Symmetric
INVARIANTS
    LiquidityInRange
    TicksMatchPositions
    EarningsFollowRange
    PriceMatchesTick
    VaultsCoverClaims
