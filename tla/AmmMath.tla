-------------------------------- MODULE AmmMath --------------------------------
(***************************************************************************)
(* The fixed point arithmetic of a swap in a concentrated liquidity pool:  *)
(* token amounts between two square root prices, the price an amount leads *)
(* to, and one step of a swap.  Prices are multiples of 1/ONE, amounts are *)
(* whole tokens, and every rounding is in favour of the pool.              *)
(***************************************************************************)
EXTENDS Integers

CONSTANTS
    ONE,            \* 1 as a fixed point number, 2^64 in the code
    U64_MAX,        \* the largest token amount
    WORD,           \* the values of a u128, which growths wrap around at
    MIN_SQRT_PRICE, MAX_SQRT_PRICE,
    FEE_RATE_MUL_VALUE  \* 100% as a fee rate

ASSUME AmmMathAssumption ==
    /\ {ONE, U64_MAX, WORD, FEE_RATE_MUL_VALUE} \subseteq Nat \ {0}
    /\ MIN_SQRT_PRICE \in Nat \ {0} /\ MAX_SQRT_PRICE \in Nat /\ MIN_SQRT_PRICE < MAX_SQRT_PRICE

\* wrapping_add, wrapping_sub
WrappingAdd(a, b) == IF a + b < WORD THEN a + b ELSE a + b - WORD
WrappingSub(a, b) == IF a >= b THEN a - b ELSE a - b + WORD

DivRounded(n, d, roundUp) == IF roundUp THEN (n + d - 1) \div d ELSE n \div d

\* Tokens that a position with this liquidity holds between two prices.  A result
\* above U64_MAX is an error, or in a first estimate more than there is.
AmountDeltaSynthetic(p, q, liquidity, roundUp) ==
    LET lower == IF p < q THEN p ELSE q
        upper == IF p < q THEN q ELSE p
    IN  DivRounded(liquidity * (upper - lower) * ONE, upper * lower, roundUp)
AmountDeltaQuote(p, q, liquidity, roundUp) ==
    DivRounded(liquidity * (IF p < q THEN q - p ELSE p - q), ONE, roundUp)

\* The amount is of the synthetic token if it is the input of a swap to the quote
\* token or the output of one from it.
FixedDelta(p, q, liquidity, exactIn, toQuote) ==
    IF toQuote = exactIn THEN AmountDeltaSynthetic(p, q, liquidity, exactIn)
                         ELSE AmountDeltaQuote(p, q, liquidity, exactIn)
UnfixedDeltaRoundedOut(p, q, liquidity, exactIn, toQuote) ==
    IF toQuote = exactIn THEN AmountDeltaQuote(p, q, liquidity, exactIn)
                         ELSE AmountDeltaSynthetic(p, q, liquidity, exactIn)
UnfixedDelta(p, q, liquidity, exactIn, toQuote) ==
    IF toQuote = exactIn THEN AmountDeltaQuote(p, q, liquidity, ~exactIn)
                         ELSE AmountDeltaSynthetic(p, q, liquidity, ~exactIn)

NoPrice == -1

\* get_next_sqrt_price_from_a_round_up
NextPriceBySynthetic(price, liquidity, amount, exactIn) ==
    LET shifted == liquidity * ONE
        product == price * amount
        next    == DivRounded(shifted * price,
                              IF exactIn THEN shifted + product ELSE shifted - product, TRUE)
    IN  IF amount = 0 THEN price
        ELSE IF ~exactIn /\ shifted <= product THEN NoPrice
        ELSE IF next \in MIN_SQRT_PRICE..MAX_SQRT_PRICE THEN next ELSE NoPrice

\* get_next_sqrt_price_from_b_round_down
NextPriceByQuote(price, liquidity, amount, exactIn) ==
    LET delta == DivRounded(amount * ONE, liquidity, ~exactIn)
    IN  IF exactIn THEN price + delta ELSE IF delta <= price THEN price - delta ELSE NoPrice

NextPrice(price, liquidity, amount, exactIn, toQuote) ==
    IF exactIn = toQuote THEN NextPriceBySynthetic(price, liquidity, amount, exactIn)
                         ELSE NextPriceByQuote(price, liquidity, amount, exactIn)

-----------------------------------------------------------------------------

\* A step of a swap: amounts, fee and price on the way to the target.  An exact
\* input that does not reach it is used up, what is left of it being the fee.
ComputeSwap(remaining, feeRate, liquidity, price, target, exactIn, toQuote) ==
    LET rest    == FEE_RATE_MUL_VALUE - feeRate
        usable  == IF exactIn THEN (remaining * rest) \div FEE_RATE_MUL_VALUE ELSE remaining
        estimate == FixedDelta(price, target, liquidity, exactIn, toQuote)
        next    == IF estimate <= usable /\ estimate <= U64_MAX THEN target
                   ELSE NextPrice(price, liquidity, usable, exactIn, toQuote)
        fixed   == FixedDelta(price, next, liquidity, exactIn, toQuote)
        unfixed == UnfixedDelta(price, next, liquidity, exactIn, toQuote)
        in      == IF exactIn THEN fixed ELSE unfixed
        out     == IF exactIn THEN unfixed ELSE IF fixed > remaining THEN remaining ELSE fixed
        fee     == IF exactIn /\ next # target THEN remaining - in
                   ELSE DivRounded(in * feeRate, rest, TRUE)
    IN  IF next = NoPrice \/ fixed > U64_MAX \/ unfixed > U64_MAX
        THEN [ok |-> FALSE]
        ELSE [ok |-> fee \in 0..U64_MAX, price |-> next, in |-> in, out |-> out, fee |-> fee]
=============================================================================
