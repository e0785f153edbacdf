---------------------------- MODULE MarketRegistry ----------------------------
(***************************************************************************)
(* The markets that the administrator creates, configures, winds down and   *)
(* deletes: synth markets, and index markets beside them.                   *)
(*                                                                         *)
(* A market is the account at the address of its number.  Names, oracles,   *)
(* tiers, visibility and fees, which no other handler reads, are left out;   *)
(* so is rebalancing, which uses names that the code does not define.       *)
(***************************************************************************)
EXTENDS Integers, FiniteSets

CONSTANTS
    Openings,                \* [initial, maintenance, fee, ifFee] a market may be created with
    Ratios, FeePairs,        \* margin ratios, and <<fee, ifFee>>, that are asked for later
    MIN_MARGIN_RATIO, MAX_MARGIN_RATIO,
    FEE_TO_MARGIN,           \* LIQUIDATION_FEE_TO_MARGIN_PRECISION_RATIO
    LIQUIDATION_FEE_PRECISION,
    Pauses,                  \* sets of paused operations
    Expiries,                \* expiry times, later than 0
    Configured,              \* bound: the numbers of the markets whose settings change
    MAX_MARKETS, MAX_INDEX_MARKETS, MAX_CLOCK   \* bounds

VARIABLES synthMarkets, indexMarkets, numberOfMarkets, numberOfIndexMarkets, clock
registryVars == <<synthMarkets, indexMarkets, numberOfMarkets, numberOfIndexMarkets, clock>>

\* Operations that pause in an emergency (EMERGENCY_SHUTDOWN_PAUSED_OPERATIONS)
EmergencyShutdown == {"Create", "Deposit", "Lend", "Delete"}

\* MarketStatus without Settlement and Delisted, that no handler sets
MarketStatuses == {"Initialized", "Active", "ReduceOnly"}

Added(markets, index, market) ==
    [i \in DOMAIN markets \cup {index} |-> IF i = index THEN market ELSE markets[i]]
Removed(markets, index) == [i \in DOMAIN markets \ {index} |-> markets[i]]
FirstStatus(active) == IF active THEN "Active" ELSE "Initialized"

RegistryInit ==
    /\ synthMarkets = [i \in {} |-> 0] /\ indexMarkets = [i \in {} |-> 0]
    /\ numberOfMarkets = 0 /\ numberOfIndexMarkets = 0 /\ clock = 0

-----------------------------------------------------------------------------
(* Synth markets *)

ValidMargin(initial, maintenance, liquidatorFee) ==
    /\ {initial, maintenance} \subseteq MIN_MARGIN_RATIO .. MAX_MARGIN_RATIO
    /\ initial > maintenance
    /\ maintenance * FEE_TO_MARGIN > liquidatorFee

InitializeSynthMarket(active, opening) ==
    /\ numberOfMarkets < MAX_MARKETS
    /\ ValidMargin(opening.initial, opening.maintenance, opening.fee)
    /\ numberOfMarkets \notin DOMAIN synthMarkets
    /\ synthMarkets' = Added(synthMarkets, numberOfMarkets,
          [status |-> FirstStatus(active), paused |-> {}, users |-> 0, expiry |-> 0, margin |-> opening])
    /\ numberOfMarkets' = numberOfMarkets + 1
    /\ UNCHANGED <<indexMarkets, numberOfIndexMarkets, clock>>

DeleteInitializedMarket(i) ==
    /\ i = numberOfMarkets - 1
    /\ synthMarkets[i].status = "Initialized" /\ synthMarkets[i].users = 0
    /\ synthMarkets' = Removed(synthMarkets, i)
    /\ numberOfMarkets' = numberOfMarkets - 1
    /\ UNCHANGED <<indexMarkets, numberOfIndexMarkets, clock>>

\* What a handler of AdminUpdateSynthMarket leaves of everything else
SetMarket(i, market) ==
    /\ synthMarkets' = [synthMarkets EXCEPT ![i] = market]
    /\ UNCHANGED <<indexMarkets, numberOfMarkets, numberOfIndexMarkets, clock>>

UpdateStatus(i, status) == SetMarket(i, [synthMarkets[i] EXCEPT !.status = status])

UpdateExpiry(i, expiry) ==
    /\ clock < expiry
    /\ SetMarket(i, [synthMarkets[i] EXCEPT !.status = "ReduceOnly", !.expiry = expiry])

InitializeShutdown(i, expiry) ==
    /\ clock < expiry
    /\ SetMarket(i, [synthMarkets[i] EXCEPT !.status = "ReduceOnly", !.expiry = expiry,
                                            !.paused = EmergencyShutdown])

\* The handler assigns a name that is not defined, whatever the caller asks for.
UpdatePausedOperations(i, paused) == SetMarket(i, [synthMarkets[i] EXCEPT !.paused = paused])

UpdateNumberOfUsers(i, users) == SetMarket(i, [synthMarkets[i] EXCEPT !.users = users])

UpdateMarginRatio(i, initial, maintenance) ==
    /\ ValidMargin(initial, maintenance, synthMarkets[i].margin.fee)
    /\ SetMarket(i, [synthMarkets[i] EXCEPT !.margin.initial = initial, !.margin.maintenance = maintenance])

\* A mistake: the margin is validated against the old fee.
UpdateLiquidationFeeUnseen(i, fee, ifFee) ==
    /\ fee + ifFee < LIQUIDATION_FEE_PRECISION
    /\ ValidMargin(synthMarkets[i].margin.initial, synthMarkets[i].margin.maintenance, synthMarkets[i].margin.fee)
    /\ SetMarket(i, [synthMarkets[i] EXCEPT !.margin.fee = fee, !.margin.ifFee = ifFee])

UpdateLiquidationFee(i, fee, ifFee) ==
    /\ fee + ifFee < LIQUIDATION_FEE_PRECISION
    /\ ValidMargin(synthMarkets[i].margin.initial, synthMarkets[i].margin.maintenance, fee)
    /\ SetMarket(i, [synthMarkets[i] EXCEPT !.margin.fee = fee, !.margin.ifFee = ifFee])

-----------------------------------------------------------------------------
(* Index markets *)

\* The number and the address come from the number of synth markets; another counter is raised.
InitializeIndexMarket(active) ==
    /\ numberOfIndexMarkets < MAX_INDEX_MARKETS
    /\ numberOfMarkets \notin DOMAIN indexMarkets
    /\ indexMarkets' = Added(indexMarkets, numberOfMarkets,
          [status |-> FirstStatus(active), expiry |-> 0])
    /\ numberOfIndexMarkets' = numberOfIndexMarkets + 1
    /\ UNCHANGED <<synthMarkets, numberOfMarkets, clock>>

\* number_of_users of an index market stays 0.
DeleteInitializedIndexMarket(i) ==
    /\ i = numberOfIndexMarkets - 1
    /\ indexMarkets[i].status = "Initialized"
    /\ indexMarkets' = Removed(indexMarkets, i)
    /\ numberOfIndexMarkets' = numberOfIndexMarkets - 1
    /\ UNCHANGED <<synthMarkets, numberOfMarkets, clock>>

SetIndexMarket(i, market) ==
    /\ indexMarkets' = [indexMarkets EXCEPT ![i] = market]
    /\ UNCHANGED <<synthMarkets, numberOfMarkets, numberOfIndexMarkets, clock>>

UpdateIndexMarketExpiry(i, expiry) ==
    /\ clock < expiry
    /\ SetIndexMarket(i, [indexMarkets[i] EXCEPT !.status = "ReduceOnly", !.expiry = expiry])

Tick ==
    /\ clock < MAX_CLOCK /\ clock' = clock + 1
    /\ UNCHANGED <<synthMarkets, indexMarkets, numberOfMarkets, numberOfIndexMarkets>>

RegistryNext ==
    \/ \E active \in BOOLEAN, o \in Openings : InitializeSynthMarket(active, o)
    \/ \E i \in DOMAIN synthMarkets : DeleteInitializedMarket(i)
    \/ \E i \in DOMAIN synthMarkets \cap Configured :
          \/ \E s \in MarketStatuses : UpdateStatus(i, s)
          \/ \E e \in Expiries : UpdateExpiry(i, e) \/ InitializeShutdown(i, e)
          \/ \E p \in Pauses : UpdatePausedOperations(i, p)
          \/ \E n \in {0, 1} : UpdateNumberOfUsers(i, n)
          \/ \E r, s \in Ratios : UpdateMarginRatio(i, r, s)
          \/ \E f \in FeePairs : UpdateLiquidationFee(i, f[1], f[2])
    \/ \E active \in BOOLEAN : InitializeIndexMarket(active)
    \/ \E i \in DOMAIN indexMarkets : DeleteInitializedIndexMarket(i)
    \/ \E i \in DOMAIN indexMarkets \cap Configured, e \in Expiries : UpdateIndexMarketExpiry(i, e)
    \/ Tick

-----------------------------------------------------------------------------
(* Properties *)

\* Market numbers have no gaps, however markets are created and deleted, so that the next
\* market finds a free address.
MarketsDense == DOMAIN synthMarkets = 0 .. numberOfMarkets - 1
IndexMarketsCounted == Cardinality(DOMAIN indexMarkets) = numberOfIndexMarkets

\* Whichever of the settings changed last, a position is liquidated before it is worth less
\* than the fee of its liquidator, and later than it may be opened (validate_margin).
MarginsSound ==
    \A i \in DOMAIN synthMarkets :
        LET m == synthMarkets[i].margin
        IN  m.maintenance * FEE_TO_MARGIN > m.fee /\ m.initial > m.maintenance

\* The markets of the registry are numbered, counted and configured soundly.
RegistryConsistent == MarketsDense /\ IndexMarketsCounted /\ MarginsSound
=============================================================================
