------------------------ MODULE MCConcentratedLiquidity ------------------------
(***************************************************************************)
(* An instance of the pool for TLC: seven ticks in four arrays, two ranges *)
(* that share a tick, and numbers so small that growths wrap around.       *)
(***************************************************************************)
EXTENDS ConcentratedLiquidity

CONSTANTS p1, p2

MCPositions == {p1, p2}
MCRanges == {<<-1, 1>>, <<1, 2>>}
MCLiquidities == {8}
MCSwapAmounts == {4}
MCPriceLimits == {20}
MCArrayCounts == {2}
MCFeeRates == {1}
MCProtocolFeeRates == {1}
MCEmissions == {60}
MCRewardFunds == {5}
\* Each step is a factor of about 1.26.
MCTickPrice == (-3 :> 8) @@ (-2 :> 10) @@ (-1 :> 13) @@ (0 :> 16) @@ (1 :> 20) @@ (2 :> 26) @@ (3 :> 32)

\* The growths are about to wrap around.
MCInitialGrowth == [g \in Growths |-> IF g = "reward" THEN WORD - 6 ELSE WORD - 3]

Symmetric == Permutations(MCPositions)
=============================================================================
