------------------------- MODULE ConcentratedLiquidity -------------------------
(***************************************************************************)
(* The concentrated liquidity pool of a market: liquidity providers,       *)
(* traders and the pool's authorities acting in any order while time goes  *)
(* on.                                                                     *)
(***************************************************************************)
EXTENDS Swaps

Init ==
    /\ now = 0
    /\ amm = [tick |-> TickAt(InitialPrice), sqrtPrice |-> InitialPrice, liquidity |-> 0,
              growth |-> InitialGrowth, rewardsUpdatedAt |-> 0, emissions |-> 0,
              protocolFeeOwed |-> [s \in Sides |-> 0],
              feeRate |-> Min(FeeRates), protocolFeeRate |-> Min(ProtocolFeeRates)]
    /\ ticks = [t \in UsableTicks |-> NewTick]
    /\ positions = [p \in {} |-> NoGrowth]
    /\ vault = [s \in Sides |-> 0]
    /\ rewardVault = 0
    /\ earned = [p \in {} |-> NoGrowth]

Tick ==
    /\ now < MAX_TIME
    /\ now' = now + 1
    /\ UNCHANGED <<amm, ticks, positions, vault, rewardVault, earned>>

Next ==
    \/ Tick
    \/ \E p \in Positions, range \in Ranges : OpenPosition(p, range)
    \/ \E p \in Positions : ClosePosition(p)
    \/ \E p \in Positions, liquidity \in Liquidities : IncreaseLiquidity(p, liquidity)
    \/ \E p \in Positions, liquidity \in Liquidities : DecreaseLiquidity(p, liquidity)
    \/ \E p \in Positions : UpdateFeesAndRewards(p)
    \/ \E p \in Positions : CollectFees(p)
    \/ CollectProtocolFees
    \/ \E p \in Positions : CollectReward(p)
    \/ \E emissions \in Emissions : SetRewardEmissions(emissions)
    \/ \E amount \in RewardFunds : FundReward(amount)
    \/ \E rate \in FeeRates : SetFeeRate(rate)
    \/ \E rate \in ProtocolFeeRates : SetProtocolFeeRate(rate)
    \/ \E amount \in SwapAmounts, limit \in PriceLimits \cup {NoLimit},
          exactIn, toQuote \in BOOLEAN, arrays \in ArrayCounts :
          Swap(amount, limit, exactIn, toQuote, arrays)

Spec == Init /\ [][Next]_vars

-----------------------------------------------------------------------------

LiquidityOf(S) == SumFunctionOnSet([p \in DOMAIN positions |-> positions[p].liquidity], S)

\* The pool's liquidity, which swaps adjust tick by tick and deposits directly, is
\* that of the positions whose range the current tick is in.
LiquidityInRange ==
    amm.liquidity = LiquidityOf({p \in DOMAIN positions : InRange(positions[p], amm.tick)})

\* A tick holds the liquidity of the positions it bounds, added at their lower and
\* subtracted at their upper one, and is initialized exactly while there is any.
TicksMatchPositions ==
    \A t \in UsableTicks :
        LET lower == LiquidityOf({p \in DOMAIN positions : positions[p].lower = t})
            upper == LiquidityOf({p \in DOMAIN positions : positions[p].upper = t})
        IN  /\ ticks[t].gross = lower + upper /\ ticks[t].net = lower - upper
            /\ ticks[t].initialized = (lower + upper > 0)
            /\ ~ticks[t].initialized => ticks[t] = NewTick

\* Inside and outside growths are differences of numbers that wrap around.  Read
\* through them, a range has earned since a position's checkpoint exactly what was
\* paid and emitted per unit of liquidity while the price was in the range.
EarningsFollowRange ==
    \A p \in DOMAIN positions :
        LET inside == Inside(positions[p].lower, positions[p].upper, amm.tick, GrowthNow)
        IN  positions[p].liquidity > 0 =>
                \A g \in Growths :
                    WrappingSub(inside[g], positions[p].checkpoint[g]) = EarnedNow[p][g]

\* Price and current tick, which a crossing sets on its own, agree: the price is
\* between the tick's and the next one's.
PriceMatchesTick ==
    /\ amm.tick >= MIN_TICK_INDEX => TickPrice[amm.tick] <= amm.sqrtPrice
    /\ amm.tick < MAX_TICK_INDEX  => amm.sqrtPrice <= TickPrice[amm.tick + 1]

\* What the owner of a position could take out now.
Claim(p, s) ==
    LET position == positions[p]
    IN  TokenDeltas(position, position.liquidity, FALSE)[s] + Settled(position, 0).owed[s]

\* After any rounding in swaps, fees and deposits, the vaults can pay out every
\* position, its fees and the protocol's.
VaultsCoverClaims ==
    \A s \in Sides :
        vault[s] >= amm.protocolFeeOwed[s]
                    + SumFunction([p \in DOMAIN positions |-> Claim(p, s)])
=============================================================================
