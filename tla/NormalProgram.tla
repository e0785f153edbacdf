----------------------------- MODULE NormalProgram -----------------------------
(***************************************************************************)
(* The machines of the normal program outside of its pool and its insurance *)
(* fund, side by side: the deposits and debts of a market, liquidations,    *)
(* the oracle, the registry of markets and the registry of users.  They     *)
(* share no state in the code that is modelled, so that every behaviour is  *)
(* of one of them: "part" says of which, and the others rest.               *)
(***************************************************************************)
EXTENDS SynthMarkets

CONSTANTS Parts,
    Accounts, Opening, Prices, Payments, LiquidatorMaxima, MaintenanceRatio, InitialRatio, Buffer,
    LiquidatorFee, MaxIfFee, OrderStep, InitialPct, Duration, InsuranceVault, MaxInsurance, FeePool,
    MARGIN_PRECISION, LIQUIDATION_FEE_PRECISION, LIQUIDATION_PCT_PRECISION, FIFTY,
    MAX_SLOT, MAX_LIQUIDATIONS,
    Messages, FirstMessage, Sources, Marks, ORACLE_PRECISION, PRICE_PRECISION,
    BID_ASK_SPREAD_PRECISION, THOUSAND, FIVE_BPS, GuardRails, SyntheticTiers, FIVE_MINUTE, ONE_HOUR,
    MAX_NOW,
    Openings, Ratios, FeePairs, MIN_MARGIN_RATIO,
    MAX_MARGIN_RATIO, FEE_TO_MARGIN, Pauses, Expiries, Configured, MAX_MARKETS, MAX_INDEX_MARKETS,
    MAX_CLOCK,
    Authorities, NoReferrer, Maxima, MaxFees, PERCENTAGE_PRECISION, PayerLamports, MAX_CREATED

VARIABLES
    part,
    accounts, wallets, price, slot, insurance,
    feed, delivered, history, seen, source, tier, mark, oracleTime,
    synthMarkets, indexMarkets, numberOfMarkets, numberOfIndexMarkets, clock,
    userStats, users, userState

ASSUME NormalAssumption ==
    /\ \A m \in Messages : m.time \in Int
    /\ FirstMessage \in Messages
    /\ \A t \in SyntheticTiers : t.clamp \in Nat \ {0}
    /\ {FIVE_MINUTE, ONE_HOUR} \subseteq Nat
    /\ IsFiniteSet(Accounts)
    /\ \A u \in Accounts : Opening[u].base \in Int /\ Opening[u].quote \in Int /\ Opening[u].wallet \in Int
    /\ Prices \cup Payments \cup LiquidatorMaxima
          \cup {MaintenanceRatio, InitialRatio, Buffer, LiquidatorFee, MaxIfFee, InitialPct, Duration,
                MaxInsurance, FeePool} \subseteq Nat
    /\ {InsuranceVault, OrderStep, MARGIN_PRECISION, LIQUIDATION_FEE_PRECISION,
        LIQUIDATION_PCT_PRECISION, FIFTY} \subseteq Nat \ {0}
    /\ \A o \in Openings : o = [f \in {"initial", "maintenance", "fee", "ifFee"} |-> o[f]]

\* Positions are whole steps, an invalid price liquidates nobody (is_oracle_valid_for_action), and
\* the fees and the ratios of a market are those that validate_margin lets through.
ASSUME LiquidationAssumption ==
    /\ \A u \in Accounts : Opening[u].base % OrderStep = 0
    /\ 0 \notin Prices
    /\ LIQUIDATION_FEE_PRECISION % MARGIN_PRECISION = 0
    /\ MaintenanceRatio < InitialRatio
    /\ LiquidatorFee < MaintenanceRatio * (LIQUIDATION_FEE_PRECISION \div MARGIN_PRECISION)

Liquidation == INSTANCE Liquidations WITH Users <- Accounts
Oracle      == INSTANCE OracleFeeds WITH now <- oracleTime
MarketsOf   == INSTANCE MarketRegistry
UsersOf     == INSTANCE UserRegistry

liquidationVars == <<accounts, wallets, price, slot, insurance>>
oracleVars      == <<feed, delivered, history, seen, source, tier, mark, oracleTime>>
registryVars    == <<synthMarkets, indexMarkets, numberOfMarkets, numberOfIndexMarkets, clock>>
userVars        == <<userStats, users, userState>>
normalVars == <<part, vars, liquidationVars, oracleVars, registryVars, userVars>>

First(S) == CHOOSE x \in S : TRUE

NormalInit ==
    /\ part \in Parts
    /\ Init /\ Liquidation!LiquidationInit /\ Oracle!OracleInit
    /\ MarketsOf!RegistryInit /\ UsersOf!UserInit
    /\ part # "liquidation" => price = First(Prices)
    /\ part # "oracle" => source = First(Sources) /\ mark = First(Marks) /\ tier = First(SyntheticTiers)

NormalNext ==
    /\ UNCHANGED part
    /\ \/ /\ part = "collateral" /\ Next
          /\ UNCHANGED <<liquidationVars, oracleVars, registryVars, userVars>>
       \/ /\ part = "liquidation" /\ Liquidation!LiquidationNext
          /\ UNCHANGED <<vars, oracleVars, registryVars, userVars>>
       \/ /\ part = "oracle" /\ Oracle!OracleNext
          /\ UNCHANGED <<vars, liquidationVars, registryVars, userVars>>
       \/ /\ part = "markets" /\ MarketsOf!RegistryNext
          /\ UNCHANGED <<vars, liquidationVars, oracleVars, userVars>>
       \/ /\ part = "users" /\ UsersOf!UserNext
          /\ UNCHANGED <<vars, liquidationVars, oracleVars, registryVars>>

NormalSpec == NormalInit /\ [][NormalNext]_normalVars

-----------------------------------------------------------------------------
(* Properties of the parts *)

\* A liquidation ends with an account that meets its margin requirement (Liquidations).
EndsHealthy == Liquidation!EndsHealthy
\* A liquidation that goes on keeps its clock, its number and what it freed, and margin is
\* freed no faster than the time since it began allows (Liquidations).
LiquidationIsPaced == Liquidation!LiquidationKeepsItsClock /\ Liquidation!LiquidationIsGradual
\* Bad debt is paid once, in the order of the payers, and a bankrupt account can always be
\* resolved (Liquidations).
BankruptcySound == Liquidation!BankruptcySound
\* The feed holds the newest message and averages stay among the prices (OracleFeeds).
OraclesSound == Oracle!OraclesSound
\* Markets, accounts of users, counters and referrals are numbered, counted and configured
\* soundly (MarketRegistry, UserRegistry).
RegistriesConsistent == MarketsOf!RegistryConsistent /\ UsersOf!UsersConsistent
=============================================================================
