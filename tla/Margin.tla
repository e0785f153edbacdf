-------------------------------- MODULE Margin --------------------------------
(***************************************************************************)
(* The arithmetic of a liquidation: how far an account is from its margin   *)
(* requirement, how much of its position covers that distance, and which    *)
(* part of it may go at once.  An account holds a position of base units    *)
(* (negative when short) in one market and an amount of quote, its deposits *)
(* included.                                                                *)
(*                                                                         *)
(* Prices are precise enough that the products of a price and a ratio are   *)
(* exact; amounts are whole units.                                          *)
(***************************************************************************)
EXTENDS Integers

CONSTANTS
    MARGIN_PRECISION,
    LIQUIDATION_FEE_PRECISION,   \* a multiple of MARGIN_PRECISION
    LIQUIDATION_PCT_PRECISION,
    FIFTY                        \* fifty dollars

U64_MAX == 10000000

Least(a, b) == IF a < b THEN a ELSE b
Most(a, b) == IF a < b THEN b ELSE a
Magnitude(n) == Most(n, -n)

\* standardize_base_asset_amount and standardize_base_asset_amount_ceil
Standardized(amount, step) == amount - (amount % step)
StandardizedUp(amount, step) == Standardized(amount + step - 1, step)

FeeRatio(marginRatio) == marginRatio * (LIQUIDATION_FEE_PRECISION \div MARGIN_PRECISION)

\* The margin of one position: "margin_requirement_plus_buffer" is what ends a liquidation.
MarginCalculation(account, price, ratio, buffer) ==
    LET liability   == Magnitude(account.base) * price
        requirement == (liability * ratio) \div MARGIN_PRECISION
    IN  [totalCollateral |-> account.quote + account.base * price,
         requirement     |-> requirement,
         plusBuffer      |-> requirement + (liability * buffer) \div MARGIN_PRECISION]

MeetsMarginRequirement(margin) == margin.totalCollateral >= margin.requirement
\* A mistake: the buffer lowers what is required.
CanExitBelow(margin) == margin.totalCollateral >= 2 * margin.requirement - margin.plusBuffer
CanExitLiquidation(margin) == margin.totalCollateral >= margin.plusBuffer

\* The absolute value: a surplus counts as a shortage of its size.
MarginShortage(margin) == Magnitude(margin.plusBuffer - margin.totalCollateral)

\* calculate_vault_if_fee: the insurance fund's fee is what 95 percent of the margin beyond
\* the liquidator's fee and the shortage leaves.
VaultIfFee(shortage, base, marginRatio, liquidatorFee, price, maxFee) ==
    IF price = 0 \/ FeeRatio(marginRatio) <= liquidatorFee \/ base = 0 THEN 0
    ELSE LET left == Most(0, FeeRatio(marginRatio) - liquidatorFee
                                - ((shortage * LIQUIDATION_FEE_PRECISION) \div base) \div price)
         IN  Least(maxFee, (left * 19) \div 20)

\* calculate_base_asset_amount_to_cover_margin_shortage
BaseToCoverShortage(shortage, marginRatio, liquidatorFee, ifFee, price) ==
    IF price = 0 \/ FeeRatio(marginRatio) <= liquidatorFee THEN U64_MAX
    ELSE (shortage * LIQUIDATION_FEE_PRECISION)
            \div (price * (FeeRatio(marginRatio) - liquidatorFee - ifFee))

\* A mistake: every call may free the whole part.
MaxPctOfRest(account, shortage, slot, initialPct, duration) ==
    IF shortage < FIFTY THEN LIQUIDATION_PCT_PRECISION
    ELSE Least(LIQUIDATION_PCT_PRECISION, initialPct
            + (IF duration = 0 THEN LIQUIDATION_PCT_PRECISION
               ELSE ((slot - account.lastActiveSlot) * LIQUIDATION_PCT_PRECISION) \div duration))

\* calculate_max_pct_to_liquidate: the part of the shortage that may be freed grows with the
\* slots since the liquidation began; what has been freed counts.
MaxPctToLiquidate(account, shortage, slot, initialPct, duration) ==
    IF shortage < FIFTY THEN LIQUIDATION_PCT_PRECISION
    ELSE LET elapsed  == IF duration = 0 THEN LIQUIDATION_PCT_PRECISION
                         ELSE ((slot - account.lastActiveSlot) * LIQUIDATION_PCT_PRECISION) \div duration
             freeable == Least(elapsed + initialPct, LIQUIDATION_PCT_PRECISION)
             most     == ((shortage + account.marginFreed) * freeable) \div LIQUIDATION_PCT_PRECISION
         IN  (Most(0, most - account.marginFreed) * LIQUIDATION_PCT_PRECISION) \div shortage

\* How much of the position a liquidator takes over: all that he asks for when it is worth no
\* more than fifty dollars.
BaseToTransfer(base, liquidatorMax, allowed, price, step) ==
    LET whole == IF base * price > FIFTY THEN 0 ELSE base
    IN  StandardizedUp(Least(Least(base, liquidatorMax), Most(allowed, whole)), step)
=============================================================================
