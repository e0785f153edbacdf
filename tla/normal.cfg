\* The five parts of the normal program, each explored to its end.
CONSTANTS
    Parts = {"collateral", "liquidation", "oracle", "markets", "users"}
    \* collateral: two users deposit, borrow, repay and transfer with interest and fees
    Users = {c1, c2}
    PRECISION = 8
    INTEREST_ONE = 4
    UTILIZATION_PRECISION = 4
    RATE_PRECISION = 4
    IF_FACTOR_PRECISION = 2
    TWAP_WINDOW = 2
    Amounts = {1, 20}
    Donations = {3}
    Rates = {0, 4}
    Fees = {0, 1}
    Guard = 20
    MaxBorrows = 30
    OptimalUtilization = 3
    TotalFactor = 1
    MarketStates <- ActiveOrClosing
    MAX_TIME = 1
    MAX_CALLS = 6
    MAX_INTEREST = 10
    MAX_VAULT = 61
    \* liquidation: a long account that a fall of the price takes below its margin, and a short one
    u1 = u1  u2 = u2
    Accounts = {u1, u2}
    Opening <- LongAndShort
    MARGIN_PRECISION = 20
    LIQUIDATION_FEE_PRECISION = 40
    LIQUIDATION_PCT_PRECISION = 4
    FIFTY = 20
    Prices = {20, 17}
    Payments = {20}
    LiquidatorMaxima = {40}
    MaintenanceRatio = 2
    InitialRatio = 4
    Buffer = 1
    LiquidatorFee = 2
    MaxIfFee = 1
    OrderStep = 2
    InitialPct = 1
    Duration = 2
    InsuranceVault = 11
    MaxInsurance = 8
    FeePool = 3
    MAX_SLOT = 1
    MAX_LIQUIDATIONS = 2
    \* oracle: messages in any order, of which one has a negative price
    Messages <- RisingFallingNegative
    FirstMessage <- OpeningMessage
    Sources = {"PythPull", "Pyth1KPull", "PythStableCoinPull"}
    Marks = {11}
    ORACLE_PRECISION = 1000
    PRICE_PRECISION = 10
    BID_ASK_SPREAD_PRECISION = 100
    THOUSAND = 10
    FIVE_BPS = 2
    GuardRails <- Rails
    SyntheticTiers <- TwoTiers
    FIVE_MINUTE = 2
    ONE_HOUR = 4
    MAX_NOW = 3
    \* markets: up to three, the first of which is configured
    Openings <- OneOpening
    Ratios = {1, 2, 4}
    FeePairs <- LowHighExcessive
    MIN_MARGIN_RATIO = 1
    MAX_MARGIN_RATIO = 4
    FEE_TO_MARGIN = 2
    Pauses <- NoPause
    Expiries = {1}
    Configured = {0}
    MAX_MARKETS = 3
    MAX_INDEX_MARKETS = 2
    MAX_CLOCK = 1
    \* users: two authorities with up to two sub accounts each
    Authorities = {a1, a2}
    NoReferrer = NoReferrer
    Maxima = {0, 2}
    MaxFees = {0, 1}
    PERCENTAGE_PRECISION = 10
    PayerLamports = 6
    MAX_CREATED = 2
SPECIFICATION NormalSpec
SYMMETRY UserSymmetry
\* Clocks, vaults and counters are full in the end.
CHECK_DEADLOCK FALSE
INVARIANTS
    BalancesAddUp
    FloorHolds
    BankruptcySound
    OraclesSound
    RegistriesConsistent
PROPERTIES
    ShortageIsDust
    
    LiquidationIsPaced
