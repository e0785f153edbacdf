----------------------------- MODULE LiquidityPool -----------------------------
(***************************************************************************)
(* The liquidity of a market's pool: positions on price ranges, the ticks  *)
(* at their bounds, and the fees and rewards that the liquidity in range   *)
(* earns.  What a range has earned is read off growths that the ticks keep *)
(* of the side of the price they are not on, all of them modulo WORD.      *)
(***************************************************************************)
EXTENDS AmmMath, FiniteSets, Functions, FiniteSetsExt

CONSTANTS
    Positions,        \* position accounts
    Ranges,           \* <<lower, upper>> tick indexes of positions
    Liquidities,      \* liquidity amounts of an increase or decrease
    SwapAmounts,      \* amounts specified by a swap
    PriceLimits,      \* explicit price limits of a swap
    ArrayCounts,      \* numbers of tick arrays given to a swap
    FeeRates, ProtocolFeeRates, Emissions, RewardFunds,
    TickPrice,        \* square root prices of the tick indexes
    InitialPrice,
    InitialGrowth,    \* what grew before, in a pool whose positions have all been closed
    TICK_SPACING, TICK_ARRAY_SIZE,
    PROTOCOL_FEE_RATE_MUL_VALUE,
    DAY_IN_SECONDS,
    MAX_VAULT,        \* bound: the tokens of a kind there are
    MAX_TIME          \* bound: the last instant of the clock

TickIndexes == DOMAIN TickPrice
MIN_TICK_INDEX == Min(TickIndexes)
MAX_TICK_INDEX == Max(TickIndexes)
UsableTicks == {t \in TickIndexes : t % TICK_SPACING = 0}

Sides == {"synthetic", "quote"}
\* What grows: the fees in either token and the tokens of a reward.
Growths == Sides \cup {"reward"}
NoGrowth == [g \in Growths |-> 0]

NoLimit == 0

ASSUME LiquidityPoolAssumption ==
    /\ {MIN_TICK_INDEX, MAX_TICK_INDEX} \subseteq Int /\ MIN_TICK_INDEX < MAX_TICK_INDEX
    /\ TickIndexes = MIN_TICK_INDEX..MAX_TICK_INDEX
    /\ \A t \in TickIndexes : TickPrice[t] \in Nat
    /\ \A t \in TickIndexes \ {MAX_TICK_INDEX} : TickPrice[t] < TickPrice[t + 1]
    /\ TickPrice[MIN_TICK_INDEX] = MIN_SQRT_PRICE /\ TickPrice[MAX_TICK_INDEX] = MAX_SQRT_PRICE
    /\ InitialPrice \in MIN_SQRT_PRICE..MAX_SQRT_PRICE
    /\ PriceLimits \subseteq MIN_SQRT_PRICE..MAX_SQRT_PRICE
    /\ \A r \in Ranges : r[1] \in UsableTicks /\ r[2] \in UsableTicks /\ r[1] < r[2]
    /\ ArrayCounts \subseteq 1..3
    /\ {TICK_SPACING, TICK_ARRAY_SIZE} \subseteq Nat \ {0}
    /\ InitialGrowth \in [Growths -> 0..(WORD - 1)]
    /\ IsFiniteSet(Positions)
    /\ Liquidities \subseteq Nat /\ SwapAmounts \subseteq 0..U64_MAX
    /\ RewardFunds \subseteq Nat /\ Emissions \subseteq Nat
    /\ FeeRates # {} /\ FeeRates \subseteq 0..(FEE_RATE_MUL_VALUE - 1)
    /\ PROTOCOL_FEE_RATE_MUL_VALUE \in Nat \ {0}
    /\ ProtocolFeeRates # {} /\ ProtocolFeeRates \subseteq 0..PROTOCOL_FEE_RATE_MUL_VALUE

VARIABLES
    now,         \* the clock
    amm,         \* the AMM account
    ticks,       \* Tick per usable tick index
    positions,   \* position accounts
    vault,       \* balances of the token vaults
    rewardVault, \* balance of the reward's vault
    earned       \* history: what a unit of the liquidity of a position has
                 \* earned in range since its checkpoint, modulo WORD

vars == <<now, amm, ticks, positions, vault, rewardVault, earned>>

-----------------------------------------------------------------------------
(* Ticks *)

NewTick == [initialized |-> FALSE, net |-> 0, gross |-> 0, outside |-> NoGrowth]

\* tick_index_from_sqrt_price
TickAbove(price) == Min({t \in TickIndexes : TickPrice[t] >= price})
TickAt(price) == Max({t \in TickIndexes : TickPrice[t] <= price})

\* next_tick_cross_update
Crossed(tick, growth) ==
    [tick EXCEPT !.outside = [g \in Growths |-> WrappingSub(growth[g], @[g])]]

\* next_tick_modify_liquidity_update.  The growth so far counts as growth below
\* a tick that is initialized.
InitializedBelow(t, current, growth) == NoGrowth
InitialOutside(t, current, growth) == IF current >= t THEN growth ELSE NoGrowth

ModifiedAlike(tick, t, current, growth, delta, isUpper) ==
    IF delta = 0 THEN tick
    ELSE IF tick.gross + delta = 0 THEN NewTick
    ELSE [initialized |-> TRUE,
          gross |-> tick.gross + delta,
          net |-> tick.net + delta,
          outside |-> IF tick.gross = 0 THEN InitialOutside(t, current, growth) ELSE tick.outside]
Modified(tick, t, current, growth, delta, isUpper) ==
    IF delta = 0 THEN tick
    ELSE IF tick.gross + delta = 0 THEN NewTick
    ELSE [initialized |-> TRUE,
          gross |-> tick.gross + delta,
          net |-> IF isUpper THEN tick.net - delta ELSE tick.net + delta,
          outside |-> IF tick.gross = 0 THEN InitialOutside(t, current, growth) ELSE tick.outside]

\* next_fee_growths_inside, next_reward_growths_inside
Below(tick, t, current, growth, g) ==
    IF ~tick.initialized THEN growth[g]
    ELSE IF current < t THEN WrappingSub(growth[g], tick.outside[g]) ELSE tick.outside[g]
Above(tick, t, current, growth, g) ==
    IF ~tick.initialized THEN 0
    ELSE IF current < t THEN tick.outside[g] ELSE WrappingSub(growth[g], tick.outside[g])
Inside(lower, upper, current, growth) ==
    [g \in Growths |-> WrappingSub(WrappingSub(growth[g],
                                   Below(ticks[lower], lower, current, growth, g)),
                                   Above(ticks[upper], upper, current, growth, g))]

InRange(position, current) == position.lower <= current /\ current < position.upper

\* What has been earned since the checkpoint: nothing if it overflows.
Accrued(liquidity, growth) ==
    IF liquidity * growth < WORD THEN (liquidity * growth) \div ONE ELSE 0

-----------------------------------------------------------------------------
(* Rewards *)

\* next_amm_reward_infos: without liquidity nobody earns the time's emissions.
RewardGrowth ==
    IF amm.liquidity = 0 THEN 0
    ELSE LET grown == ((now - amm.rewardsUpdatedAt) * amm.emissions) \div amm.liquidity
         IN  IF (now - amm.rewardsUpdatedAt) * amm.emissions < WORD THEN grown ELSE 0
GrowthNow == [amm.growth EXCEPT !["reward"] = WrappingAdd(@, RewardGrowth)]

\* The history of the positions whose range the current tick is in.
Earning(e, current, g, delta) ==
    [p \in DOMAIN e |-> IF positions[p].liquidity > 0 /\ InRange(positions[p], current)
                        THEN [e[p] EXCEPT ![g] = WrappingAdd(@, delta)] ELSE e[p]]
EarnedNow == Earning(earned, amm.tick, "reward", RewardGrowth)

-----------------------------------------------------------------------------
(* Liquidity *)

\* next_position_modify_liquidity_update
Settled(position, delta) ==
    LET inside == Inside(position.lower, position.upper, amm.tick, GrowthNow)
    IN  [position EXCEPT
            !.liquidity = @ + delta,
            !.checkpoint = inside,
            !.owed = [g \in Growths |->
                (@[g] + Accrued(position.liquidity, WrappingSub(inside[g], position.checkpoint[g])))
                    % (U64_MAX + 1)]]

\* calculate_liquidity_token_deltas
TokenDeltas(position, liquidity, roundUp) ==
    LET lower == TickPrice[position.lower]
        upper == TickPrice[position.upper]
        within == IF amm.tick < position.lower THEN lower
                  ELSE IF amm.tick < position.upper THEN amm.sqrtPrice ELSE upper
    IN  [synthetic |-> AmountDeltaSynthetic(within, upper, liquidity, roundUp),
         quote     |-> AmountDeltaQuote(lower, within, liquidity, roundUp)]

ModifyLiquidity(p, delta) ==
    LET position == positions[p]
        change(t, isUpper) == Modified(ticks[t], t, amm.tick, GrowthNow, delta, isUpper)
        tokens == TokenDeltas(position, IF delta > 0 THEN delta ELSE -delta, delta > 0)
    IN  /\ p \in DOMAIN positions
        /\ position.liquidity + delta >= 0
        /\ \A s \in Sides : tokens[s] <= U64_MAX
        /\ positions' = [positions EXCEPT ![p] = Settled(position, delta)]
        /\ ticks' = [ticks EXCEPT ![position.lower] = change(position.lower, FALSE),
                                  ![position.upper] = change(position.upper, TRUE)]
        /\ amm' = [amm EXCEPT !.growth = GrowthNow, !.rewardsUpdatedAt = now,
                              !.liquidity = IF InRange(position, amm.tick) THEN @ + delta ELSE @]
        /\ vault' = [s \in Sides |-> IF delta > 0 THEN vault[s] + tokens[s]
                                                  ELSE vault[s] - tokens[s]]
        /\ \A s \in Sides : vault'[s] \in 0..MAX_VAULT
        /\ earned' = [EarnedNow EXCEPT ![p] = NoGrowth]
        /\ UNCHANGED <<now, rewardVault>>

IncreaseLiquidity(p, liquidity) == liquidity > 0 /\ ModifyLiquidity(p, liquidity)
DecreaseLiquidity(p, liquidity) == liquidity > 0 /\ ModifyLiquidity(p, -liquidity)

UpdateFeesAndRewards(p) ==
    /\ p \in DOMAIN positions /\ positions[p].liquidity > 0
    /\ positions' = [positions EXCEPT ![p] = Settled(@, 0)]
    /\ amm' = [amm EXCEPT !.growth = GrowthNow, !.rewardsUpdatedAt = now]
    /\ earned' = [EarnedNow EXCEPT ![p] = NoGrowth]
    /\ UNCHANGED <<now, ticks, vault, rewardVault>>

OpenPosition(p, range) ==
    /\ p \notin DOMAIN positions
    /\ positions' = [q \in DOMAIN positions \cup {p} |->
           IF q # p THEN positions[q]
           ELSE [lower |-> range[1], upper |-> range[2], liquidity |-> 0,
                 checkpoint |-> NoGrowth, owed |-> NoGrowth]]
    /\ earned' = [q \in DOMAIN earned \cup {p} |-> IF q # p THEN earned[q] ELSE NoGrowth]
    /\ UNCHANGED <<now, amm, ticks, vault, rewardVault>>

\* is_position_empty
ClosePosition(p) ==
    /\ p \in DOMAIN positions
    /\ positions[p].liquidity = 0 /\ positions[p].owed = NoGrowth
    /\ positions' = Restrict(positions, DOMAIN positions \ {p})
    /\ earned' = Restrict(earned, DOMAIN earned \ {p})
    /\ UNCHANGED <<now, amm, ticks, vault, rewardVault>>

-----------------------------------------------------------------------------
(* Fees and rewards *)

CollectFees(p) ==
    /\ p \in DOMAIN positions
    /\ \A s \in Sides : positions[p].owed[s] <= vault[s]
    /\ vault' = [s \in Sides |-> vault[s] - positions[p].owed[s]]
    /\ positions' = [positions EXCEPT ![p].owed["synthetic"] = 0, ![p].owed["quote"] = 0]
    /\ UNCHANGED <<now, amm, ticks, rewardVault, earned>>

CollectProtocolFees ==
    /\ \A s \in Sides : amm.protocolFeeOwed[s] <= vault[s]
    /\ vault' = [s \in Sides |-> vault[s] - amm.protocolFeeOwed[s]]
    /\ amm' = [amm EXCEPT !.protocolFeeOwed = [s \in Sides |-> 0]]
    /\ UNCHANGED <<now, ticks, positions, rewardVault, earned>>

\* What the vault does not have stays owed.
CollectReward(p) ==
    /\ p \in DOMAIN positions
    /\ LET owed == positions[p].owed["reward"]
           paid == IF owed > rewardVault THEN rewardVault ELSE owed
       IN  /\ positions' = [positions EXCEPT ![p].owed["reward"] = @ - paid]
           /\ rewardVault' = rewardVault - paid
    /\ UNCHANGED <<now, amm, ticks, vault, earned>>

SetRewardEmissions(emissions) ==
    /\ (DAY_IN_SECONDS * emissions) \div ONE <= rewardVault
    /\ amm' = [amm EXCEPT !.growth = GrowthNow, !.rewardsUpdatedAt = now, !.emissions = emissions]
    /\ earned' = EarnedNow
    /\ UNCHANGED <<now, ticks, positions, vault, rewardVault>>

\* Anybody transfers tokens to the reward's vault.
FundReward(amount) ==
    /\ rewardVault + amount <= MAX_VAULT
    /\ rewardVault' = rewardVault + amount
    /\ UNCHANGED <<now, amm, ticks, positions, vault, earned>>

SetFeeRate(rate) ==
    /\ amm' = [amm EXCEPT !.feeRate = rate]
    /\ UNCHANGED <<now, ticks, positions, vault, rewardVault, earned>>

SetProtocolFeeRate(rate) ==
    /\ amm' = [amm EXCEPT !.protocolFeeRate = rate]
    /\ UNCHANGED <<now, ticks, positions, vault, rewardVault, earned>>
=============================================================================
