\* Two stakers enter, request, cancel and leave while insurance is paid and revenue settled.
CONSTANTS
    a = a  b = b
    Owners <- MCOwners
    StakeAmounts <- MCStakeAmounts
    RequestAmounts <- MCRequestAmounts
    Payments <- MCPayments
    Revenues <- MCRevenues
    UnstakingPeriods <- MCUnstakingPeriods
    SettlePeriod = 1
    TotalFactor = 2
    UserFactor = 1
    MAX_VAULT = 130
    MAX_BASE = 1
    MAX_TIME = 1
SYMMETRY Symmetric
SPECIFICATION Spec
INVARIANTS
    SharesBacked
    RequestsCovered
PROPERTIES
    NoDilution
    CancelIsNeutral
