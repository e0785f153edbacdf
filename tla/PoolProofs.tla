------------------------------- MODULE PoolProofs ------------------------------
(***************************************************************************)
(* Theorems about the concentrated liquidity pool, for every table of      *)
(* prices, tick spacing, number of positions, amount and rate: the pool's  *)
(* liquidity, price and current tick, which a swap moves tick by tick,     *)
(* agree with the positions and with each other, and a position earns what *)
(* was paid while the price was in its range.                              *)
(***************************************************************************)
EXTENDS ConcentratedLiquidity, OperatorLemmas

-----------------------------------------------------------------------------
(* Rounded quotients *)

LEMMA Rounded ==
  ASSUME NEW n \in Nat, NEW d \in Nat \ {0}, NEW up \in BOOLEAN
  PROVE  /\ DivRounded(n, d, up) \in Nat
         /\ d * DivRounded(n, d, up) < n + d
         /\ n < d * DivRounded(n, d, up) + d
<1>1. CASE up
  <2>1. DivRounded(n, d, up) = (n + d - 1) \div d /\ n + d - 1 \in Nat
    BY <1>1 DEF DivRounded
  <2>. DEFINE m == n + d - 1  q == m \div d
  <2>2. m \in Nat /\ q \in Nat /\ d * q <= m /\ m < d * q + d
    <3>1. m \in Nat
      OBVIOUS
    <3>. HIDE DEF m
    <3>. QED  BY <3>1
  <2>. QED  BY <2>1, <2>2
<1>2. CASE ~up
  BY <1>2 DEF DivRounded
<1>. QED
  BY <1>1, <1>2

\* Of the multiples of d.
LEMMA MultipleLess ==
  ASSUME NEW d \in Nat \ {0}, NEW a \in Int, NEW b \in Int, d * a < d * b
  PROVE  a < b
  OBVIOUS

LEMMA MultipleMonotone ==
  ASSUME NEW d \in Nat, NEW a \in Int, NEW b \in Int, a <= b
  PROVE  d * a <= d * b
  OBVIOUS

\* A quotient is between two numbers that it is exactly between, however rounded.
LEMMA RoundedBetween ==
  ASSUME NEW n \in Nat, NEW d \in Nat \ {0}, NEW up \in BOOLEAN, NEW a \in Nat, NEW b \in Nat,
         d * a <= n, n <= d * b
  PROVE  DivRounded(n, d, up) \in a..b
<1>. DEFINE q == DivRounded(n, d, up)
            more == q + 1
            above == b + 1
<1>1. q \in Nat /\ d * q < n + d /\ n < d * q + d
  BY Rounded
<1>2. /\ more \in Int /\ above \in Int /\ more = q + 1 /\ above = b + 1
      /\ d * above = d * b + d /\ d * more = d * q + d
  BY <1>1
<1>. HIDE DEF q, more, above
<1>3. d * a < d * more
  BY <1>1, <1>2
<1>4. d * q < d * above
  BY <1>1, <1>2
<1>5. a < more /\ q < above
  BY <1>1, <1>2, <1>3, <1>4, MultipleLess
<1>6. q \in a..b
  BY <1>1, <1>2, <1>5
<1>. QED
  BY <1>6 DEF q

\* What has a quotient of more than u is more than u times the divisor.
LEMMA RoundedExceeds ==
  ASSUME NEW n \in Nat, NEW d \in Nat \ {0}, NEW up \in BOOLEAN, NEW u \in Nat,
         DivRounded(n, d, up) > u
  PROVE  d * u < n
<1>. DEFINE q == DivRounded(n, d, up)
            more == u + 1
<1>1. q \in Nat /\ d * q < n + d /\ more <= q
  BY Rounded
<1>2. more \in Int /\ d * more = d * u + d
  OBVIOUS
<1>. HIDE DEF q, more
<1>3. d * more <= d * q
  BY <1>1, <1>2, MultipleMonotone
<1>. DEFINE x == d * more  y == d * q  z == d * u
<1>4. x \in Int /\ y \in Int /\ z \in Int /\ x <= y /\ x = z + d /\ y < n + d
  BY <1>1, <1>2, <1>3
<1>. HIDE DEF x, y, z
<1>5. z < n
  BY <1>4
<1>. QED
  BY <1>5 DEF z

-----------------------------------------------------------------------------
(* A step of a swap stays between the price and its target *)

\* An amount that leaves the price before the target when it is added to the pool ...
LEMMA AddedSynthetic ==
  ASSUME NEW S \in Nat, NEW p \in Nat \ {0}, NEW t \in Nat \ {0}, NEW u \in Nat \ {0},
         t <= p, (p * t) * u < S * (p - t)
  PROVE  DivRounded(S * p, S + p * u, TRUE) \in t..p
<1>. DEFINE D == S + p * u  n == S * p
<1>1. D \in Nat \ {0} /\ n \in Nat
  OBVIOUS
<1>2. t * D = t * S + (p * t) * u
  OBVIOUS
<1>3. S * (p - t) = n - t * S
  OBVIOUS
<1>4. t * D <= n
  <2>. DEFINE a == t * D  b == t * S  c == (p * t) * u
  <2>1. a \in Int /\ b \in Int /\ c \in Int /\ a = b + c /\ c < n - b
    BY <1>2, <1>3
  <2>. HIDE DEF a, b, c, D, n
  <2>2. a <= n
    BY <2>1, <1>1
  <2>. QED  BY <2>2 DEF a
<1>5. p * D = n + p * (p * u) /\ p * (p * u) \in Nat
  OBVIOUS
<1>6. D * t <= n /\ n <= D * p
  <2>1. D * t = t * D /\ D * p = p * D
    OBVIOUS
  <2>. HIDE DEF D, n
  <2>. QED  BY <1>1, <1>4, <1>5, <2>1
<1>. HIDE DEF D, n
<1>7. DivRounded(n, D, TRUE) \in t..p
  BY <1>1, <1>6, RoundedBetween
<1>. QED
  BY <1>7 DEF D, n

\* ... and when it is taken out of it.
LEMMA RemovedSynthetic ==
  ASSUME NEW S \in Nat, NEW p \in Nat \ {0}, NEW t \in Nat \ {0}, NEW u \in Nat,
         p <= t, p * u < S, (t * p) * u < S * (t - p)
  PROVE  DivRounded(S * p, S - p * u, TRUE) \in p..t
<1>. DEFINE D == S - p * u  n == S * p
<1>1. D \in Nat \ {0} /\ n \in Nat
  OBVIOUS
<1>2. t * D = t * S - (t * p) * u
  OBVIOUS
<1>3. S * (t - p) = t * S - n
  OBVIOUS
<1>4. n <= t * D
  <2>. DEFINE a == t * D  b == t * S  c == (t * p) * u
  <2>1. a \in Int /\ b \in Int /\ c \in Int /\ a = b - c /\ c < b - n
    BY <1>2, <1>3
  <2>. HIDE DEF a, b, c, D, n
  <2>2. n <= a
    BY <2>1, <1>1
  <2>. QED  BY <2>2 DEF a
<1>5. p * D = n - p * (p * u) /\ p * (p * u) \in Nat
  OBVIOUS
<1>6. D * p <= n /\ n <= D * t
  <2>1. D * t = t * D /\ D * p = p * D
    OBVIOUS
  <2>. HIDE DEF D, n
  <2>. QED  BY <1>1, <1>4, <1>5, <2>1
<1>. HIDE DEF D, n
<1>7. DivRounded(n, D, TRUE) \in p..t
  BY <1>1, <1>6, RoundedBetween
<1>. QED
  BY <1>7 DEF D, n

\* The quote token moves the price by what it is of the liquidity.
LEMMA MovedByQuote ==
  ASSUME NEW L \in Nat, NEW w \in Nat, NEW u \in Nat, NEW up \in BOOLEAN, ONE * u < L * w
  PROVE  DivRounded(u * ONE, L, up) \in 0..w
<1>1. L # 0 /\ ONE \in Nat
  BY AmmMathAssumption
<1>2. L * 0 <= u * ONE /\ u * ONE <= L * w /\ u * ONE \in Nat
  BY <1>1
<1>. QED
  BY <1>1, <1>2, RoundedBetween
\* On the way from the price to its target.
OnTheWay(next, price, target, toQuote) ==
    IF toQuote THEN next \in target..price ELSE next \in price..target

LEMMA AmountDeltaType ==
  ASSUME NEW p \in Nat \ {0}, NEW q \in Nat \ {0}, NEW L \in Nat, NEW up \in BOOLEAN
  PROVE  /\ AmountDeltaSynthetic(p, q, L, up) \in Nat
         /\ AmountDeltaQuote(p, q, L, up) \in Nat
<1>. DEFINE lower == IF p < q THEN p ELSE q
            upper == IF p < q THEN q ELSE p
            n == L * (upper - lower) * ONE
            d == upper * lower
            m == L * (IF p < q THEN q - p ELSE p - q)
<1>0. ONE \in Nat \ {0}
  BY AmmMathAssumption
<1>1. lower \in Nat \ {0} /\ upper \in Nat \ {0} /\ upper - lower \in Nat
  OBVIOUS
<1>2. d \in Nat \ {0}
  <2>. HIDE DEF lower, upper
  <2>. QED  BY <1>1
<1>3. n \in Nat
  <2>. DEFINE w == upper - lower
  <2>1. w \in Nat /\ L * w \in Nat
    BY <1>1
  <2>. HIDE DEF w
  <2>2. (L * w) * ONE \in Nat
    BY <1>0, <2>1
  <2>. QED  BY <2>2 DEF w
<1>4. m \in Nat
  <2>. DEFINE w == IF p < q THEN q - p ELSE p - q
  <2>1. w \in Nat
    OBVIOUS
  <2>. HIDE DEF w
  <2>2. L * w \in Nat
    BY <2>1
  <2>. QED  BY <2>2 DEF w
<1>5. AmountDeltaSynthetic(p, q, L, up) = DivRounded(n, d, up)
  BY DEF AmountDeltaSynthetic
<1>6. AmountDeltaQuote(p, q, L, up) = DivRounded(m, ONE, up)
  BY DEF AmountDeltaQuote
<1>. HIDE DEF n, d, m
<1>. QED
  BY <1>0, <1>2, <1>3, <1>4, <1>5, <1>6, Rounded

\* The estimate of an amount is more than u: what this says of the liquidity.
LEMMA SyntheticExceeds ==
  ASSUME NEW p \in Nat \ {0}, NEW q \in Nat \ {0}, NEW L \in Nat, NEW up \in BOOLEAN,
         NEW u \in Nat, AmountDeltaSynthetic(p, q, L, up) > u
  PROVE  /\ q <= p => (p * q) * u < (L * ONE) * (p - q)
         /\ p <= q => (q * p) * u < (L * ONE) * (q - p)
<1>0. ONE \in Nat \ {0}
  BY AmmMathAssumption
<1>1. ASSUME q <= p PROVE (p * q) * u < (L * ONE) * (p - q)
  <2>. DEFINE w == p - q
              n == (L * w) * ONE
              d == p * q
  <2>1. AmountDeltaSynthetic(p, q, L, up) = DivRounded(n, d, up)
    BY <1>1 DEF AmountDeltaSynthetic
  <2>2. w \in Nat /\ d \in Nat \ {0}
    BY <1>1
  <2>3. n \in Nat /\ n = (L * ONE) * w
    <3>. HIDE DEF w
    <3>1. (L * w) * ONE \in Nat /\ (L * w) * ONE = (L * ONE) * w
      BY <1>0, <2>2
    <3>. QED  BY <3>1
  <2>4. d * u < n
    <3>. HIDE DEF n, d
    <3>. QED  BY <2>1, <2>2, <2>3, RoundedExceeds
  <2>. QED  BY <2>3, <2>4
<1>2. ASSUME p <= q PROVE (q * p) * u < (L * ONE) * (q - p)
  <2>. DEFINE w == q - p
              n == (L * w) * ONE
              d == q * p
  <2>1. AmountDeltaSynthetic(p, q, L, up) = DivRounded(n, d, up)
    BY <1>2 DEF AmountDeltaSynthetic
  <2>2. w \in Nat /\ d \in Nat \ {0}
    BY <1>2
  <2>3. n \in Nat /\ n = (L * ONE) * w
    <3>. HIDE DEF w
    <3>1. (L * w) * ONE \in Nat /\ (L * w) * ONE = (L * ONE) * w
      BY <1>0, <2>2
    <3>. QED  BY <3>1
  <2>4. d * u < n
    <3>. HIDE DEF n, d
    <3>. QED  BY <2>1, <2>2, <2>3, RoundedExceeds
  <2>. QED  BY <2>3, <2>4
<1>. QED
  BY <1>1, <1>2

LEMMA QuoteExceeds ==
  ASSUME NEW p \in Nat \ {0}, NEW q \in Nat \ {0}, NEW L \in Nat, NEW up \in BOOLEAN,
         NEW u \in Nat, AmountDeltaQuote(p, q, L, up) > u
  PROVE  /\ q <= p => ONE * u < L * (p - q)
         /\ p <= q => ONE * u < L * (q - p)
<1>0. ONE \in Nat \ {0}
  BY AmmMathAssumption
<1>. DEFINE w == IF p < q THEN q - p ELSE p - q
            n == L * w
<1>1. w \in Nat /\ (q <= p => w = p - q) /\ (p <= q => w = q - p)
  OBVIOUS
<1>2. AmountDeltaQuote(p, q, L, up) = DivRounded(n, ONE, up)
  BY DEF AmountDeltaQuote
<1>3. n \in Nat
  <2>. HIDE DEF w
  <2>. QED  BY <1>1
<1>4. ONE * u < n
  <2>. HIDE DEF n
  <2>. QED  BY <1>0, <1>2, <1>3, RoundedExceeds
<1>. HIDE DEF w
<1>. QED
  BY <1>1, <1>4
\* An amount that is less than the estimate for the whole way leads to a price on it.
LEMMA NextPriceOnTheWay ==
  ASSUME NEW p \in Nat \ {0}, NEW t \in Nat \ {0}, NEW L \in Nat, NEW u \in Nat,
         NEW exactIn \in BOOLEAN, NEW toQuote \in BOOLEAN,
         IF toQuote THEN t <= p ELSE p <= t,
         FixedDelta(p, t, L, exactIn, toQuote) > u,
         NextPrice(p, L, u, exactIn, toQuote) # NoPrice
  PROVE  OnTheWay(NextPrice(p, L, u, exactIn, toQuote), p, t, toQuote)
<1>0. ONE \in Nat \ {0}
  BY AmmMathAssumption
<1>. DEFINE S == L * ONE
<1>s. S \in Nat
  BY <1>0
<1>1. CASE exactIn = TRUE /\ toQuote = TRUE
  <2>0. t <= p
    BY <1>1
  <2>1. AmountDeltaSynthetic(p, t, L, TRUE) > u
    BY <1>1 DEF FixedDelta
  <2>2. NextPrice(p, L, u, exactIn, toQuote) = NextPriceBySynthetic(p, L, u, TRUE)
    BY <1>1 DEF NextPrice
  <2>3. (p * t) * u < S * (p - t)
    BY <2>0, <2>1, SyntheticExceeds
  <2>4. CASE u = 0
    <3>1. NextPrice(p, L, u, exactIn, toQuote) = p
      BY <2>2, <2>4 DEF NextPriceBySynthetic
    <3>. QED  BY <1>1, <2>0, <3>1 DEF OnTheWay
  <2>5. CASE u # 0
    <3>. DEFINE next == DivRounded(S * p, S + p * u, TRUE)
    <3>1. next \in t..p
      <4>. HIDE DEF S
      <4>. QED  BY <1>s, <2>0, <2>3, <2>5, AddedSynthetic
    <3>2. NextPriceBySynthetic(p, L, u, TRUE) \in {next, NoPrice}
      BY <2>5 DEF NextPriceBySynthetic
    <3>. HIDE DEF next
    <3>. QED  BY <1>1, <2>2, <3>1, <3>2 DEF OnTheWay
  <2>. QED  BY <2>4, <2>5
<1>2. CASE exactIn = FALSE /\ toQuote = FALSE
  <2>0. p <= t
    BY <1>2
  <2>1. AmountDeltaSynthetic(p, t, L, FALSE) > u
    BY <1>2 DEF FixedDelta
  <2>2. NextPrice(p, L, u, exactIn, toQuote) = NextPriceBySynthetic(p, L, u, FALSE)
    BY <1>2 DEF NextPrice
  <2>3. (t * p) * u < S * (t - p)
    BY <2>0, <2>1, SyntheticExceeds
  <2>4. CASE u = 0
    <3>1. NextPrice(p, L, u, exactIn, toQuote) = p
      BY <2>2, <2>4 DEF NextPriceBySynthetic
    <3>. QED  BY <1>2, <2>0, <3>1 DEF OnTheWay
  <2>5. CASE u # 0
    <3>. DEFINE next == DivRounded(S * p, S - p * u, TRUE)
    <3>0. NextPriceBySynthetic(p, L, u, FALSE) # NoPrice
      BY <2>2
    <3>1. p * u < S
      <4>1. ~(S <= p * u)
        BY <2>5, <3>0 DEF NextPriceBySynthetic
      <4>. HIDE DEF S
      <4>. QED  BY <1>s, <4>1
    <3>2. next \in p..t
      <4>. HIDE DEF S
      <4>. QED  BY <1>s, <2>0, <2>3, <3>1, RemovedSynthetic
    <3>3. NextPriceBySynthetic(p, L, u, FALSE) \in {next, NoPrice}
      BY <2>5 DEF NextPriceBySynthetic
    <3>. HIDE DEF next
    <3>. QED  BY <1>2, <2>2, <3>2, <3>3 DEF OnTheWay
  <2>. QED  BY <2>4, <2>5
<1>3. CASE exactIn = TRUE /\ toQuote = FALSE
  <2>0. p <= t
    BY <1>3
  <2>1. AmountDeltaQuote(p, t, L, TRUE) > u
    BY <1>3 DEF FixedDelta
  <2>. DEFINE w == t - p
              delta == DivRounded(u * ONE, L, FALSE)
  <2>2. NextPrice(p, L, u, exactIn, toQuote) = p + delta
    BY <1>3 DEF NextPrice, NextPriceByQuote
  <2>3. w \in Nat /\ ONE * u < L * w
    <3>1. ONE * u < L * (t - p)
      BY <2>0, <2>1, QuoteExceeds
    <3>. QED  BY <2>0, <3>1
  <2>4. delta \in 0..w
    <3>. HIDE DEF w
    <3>. QED  BY <2>3, MovedByQuote
  <2>. HIDE DEF delta
  <2>. QED  BY <1>3, <2>0, <2>2, <2>4 DEF OnTheWay
<1>4. CASE exactIn = FALSE /\ toQuote = TRUE
  <2>0. t <= p
    BY <1>4
  <2>1. AmountDeltaQuote(p, t, L, FALSE) > u
    BY <1>4 DEF FixedDelta
  <2>. DEFINE w == p - t
              delta == DivRounded(u * ONE, L, TRUE)
  <2>2. w \in Nat /\ ONE * u < L * w
    <3>1. ONE * u < L * (p - t)
      BY <2>0, <2>1, QuoteExceeds
    <3>. QED  BY <2>0, <3>1
  <2>3. delta \in 0..w
    <3>. HIDE DEF w
    <3>. QED  BY <2>2, MovedByQuote
  <2>4. NextPrice(p, L, u, exactIn, toQuote) = IF delta <= p THEN p - delta ELSE NoPrice
    BY <1>4 DEF NextPrice, NextPriceByQuote
  <2>. HIDE DEF delta
  <2>. QED  BY <1>4, <2>0, <2>3, <2>4 DEF OnTheWay
<1>. QED
  BY <1>1, <1>2, <1>3, <1>4

\* What a step of a swap does.
LEMMA ComputeSwapEffect ==
  ASSUME NEW remaining \in 0..U64_MAX, NEW rate \in 0..(FEE_RATE_MUL_VALUE - 1), NEW L \in Nat,
         NEW p \in Nat \ {0}, NEW t \in Nat \ {0}, NEW exactIn \in BOOLEAN, NEW toQuote \in BOOLEAN,
         IF toQuote THEN t <= p ELSE p <= t,
         ComputeSwap(remaining, rate, L, p, t, exactIn, toQuote).ok
  PROVE  LET step == ComputeSwap(remaining, rate, L, p, t, exactIn, toQuote)
         IN  /\ OnTheWay(step.price, p, t, toQuote)
             /\ step.in \in Nat /\ step.out \in Nat /\ step.fee \in Nat
<1>0. U64_MAX \in Nat \ {0} /\ FEE_RATE_MUL_VALUE \in Nat \ {0} /\ remaining \in Nat
  BY AmmMathAssumption
<1>. DEFINE rest == FEE_RATE_MUL_VALUE - rate
            usable  == IF exactIn THEN (remaining * rest) \div FEE_RATE_MUL_VALUE ELSE remaining
            estimate == FixedDelta(p, t, L, exactIn, toQuote)
            next    == IF estimate <= usable /\ estimate <= U64_MAX THEN t
                       ELSE NextPrice(p, L, usable, exactIn, toQuote)
            fixed   == FixedDelta(p, next, L, exactIn, toQuote)
            unfixed == UnfixedDelta(p, next, L, exactIn, toQuote)
            in      == IF exactIn THEN fixed ELSE unfixed
            out     == IF exactIn THEN unfixed ELSE IF fixed > remaining THEN remaining ELSE fixed
            fee     == IF exactIn /\ next # t THEN remaining - in
                       ELSE DivRounded(in * rate, rest, TRUE)
            step    == ComputeSwap(remaining, rate, L, p, t, exactIn, toQuote)
            done    == [ok |-> fee \in 0..U64_MAX, price |-> next, in |-> in, out |-> out, fee |-> fee]
            fails   == next = NoPrice \/ fixed > U64_MAX \/ unfixed > U64_MAX
<1>1. step = IF fails THEN [ok |-> FALSE] ELSE done
  BY DEF ComputeSwap
<1>2. usable \in Nat /\ usable <= U64_MAX
  <2>1. rest \in Nat /\ rest <= FEE_RATE_MUL_VALUE
    BY <1>0
  <2>. DEFINE n == remaining * rest
              m == remaining * FEE_RATE_MUL_VALUE
  <2>2. n \in Nat /\ n <= m /\ m = FEE_RATE_MUL_VALUE * remaining
    <3>. HIDE DEF rest
    <3>. QED  BY <1>0, <2>1
  <2>3. n \div FEE_RATE_MUL_VALUE \in Nat /\ n \div FEE_RATE_MUL_VALUE <= remaining
    <3>. HIDE DEF n, m
    <3>. QED  BY <1>0, <2>2
  <2>. QED  BY <1>0, <2>3
<1>3. estimate \in Nat
  BY AmountDeltaType DEF FixedDelta
<1>4. step.ok => ~fails /\ step = done
  <2>. HIDE DEF fails, done, step
  <2>. QED  BY <1>1
<1>5. next # NoPrice => OnTheWay(next, p, t, toQuote)
  <2>1. CASE estimate <= usable /\ estimate <= U64_MAX
    BY <2>1 DEF OnTheWay
  <2>2. CASE ~(estimate <= usable /\ estimate <= U64_MAX)
    <3>1. estimate > usable
      <4>. HIDE DEF estimate, usable
      <4>. QED  BY <1>0, <1>2, <1>3, <2>2
    <3>2. next = NextPrice(p, L, usable, exactIn, toQuote)
      BY <2>2
    <3>. HIDE DEF usable, next
    <3>. QED  BY <1>2, <3>1, <3>2, NextPriceOnTheWay
  <2>. QED  BY <2>1, <2>2
<1>6. next # NoPrice => next \in Nat \ {0}
  <2>. HIDE DEF next
  <2>. QED  BY <1>5 DEF OnTheWay
<1>7. next # NoPrice => fixed \in Nat /\ unfixed \in Nat
  <2>. HIDE DEF next
  <2>. QED  BY <1>6, AmountDeltaType DEF FixedDelta, UnfixedDelta
<1>8. ~fails => next # NoPrice
  OBVIOUS
<1>9. ~fails => in \in Nat /\ out \in Nat
  <2>. HIDE DEF fixed, unfixed, next, fails
  <2>. QED  BY <1>0, <1>7, <1>8
<1>. HIDE DEF fails, in, out, fee, next, step
<1>10. step.ok => fee \in 0..U64_MAX
  <2>. DEFINE good == fee \in 0..U64_MAX
  <2>1. done.ok => good
    OBVIOUS
  <2>2. step.ok => good
    <3>. HIDE DEF good, done
    <3>. QED  BY <1>4, <2>1
  <2>. QED  BY <2>2
<1>11. step.ok
  BY DEF step
<1>12. step.price = next /\ step.in = in /\ step.out = out /\ step.fee = fee /\ ~fails
  BY <1>4, <1>11
<1>13. OnTheWay(step.price, p, t, toQuote) /\ step.in \in Nat /\ step.out \in Nat /\ step.fee \in Nat
  BY <1>0, <1>5, <1>8, <1>9, <1>10, <1>11, <1>12
<1>. QED
  BY <1>13 DEF step
-----------------------------------------------------------------------------
(* Ticks and their prices *)

LEMMA ExtremesExist ==
  ASSUME NEW S, IsFiniteSet(S), S # {}, S \subseteq Int
  PROVE  /\ Max(S) \in S /\ \A y \in S : y <= Max(S)
         /\ Min(S) \in S /\ \A y \in S : Min(S) <= y
<1>. DEFINE Has(T) == T = {} \/ /\ \E x \in T : \A y \in T : y <= x
                                /\ \E x \in T : \A y \in T : x <= y
            Good == {T \in SUBSET S : Has(T)}
<1>1. {} \in Good
  OBVIOUS
<1>2. ASSUME NEW T \in SUBSET S, NEW z \in S \ T, T \in Good PROVE T \cup {z} \in Good
  <2>1. CASE T = {}
    <3>1. T \cup {z} = {z}
      BY <2>1
    <3>. QED  BY <3>1
  <2>2. CASE T # {}
    <3>1. PICK x \in T : \A y \in T : y <= x
      BY <1>2, <2>2
    <3>2. PICK w \in T : \A y \in T : w <= y
      BY <1>2, <2>2
    <3>. DEFINE top == IF z > x THEN z ELSE x
                bottom == IF z < w THEN z ELSE w
    <3>3. top \in T \cup {z} /\ \A y \in T \cup {z} : y <= top
      BY <3>1
    <3>4. bottom \in T \cup {z} /\ \A y \in T \cup {z} : bottom <= y
      BY <3>2
    <3>. HIDE DEF top, bottom
    <3>. QED  BY <3>3, <3>4
  <2>. QED  BY <2>1, <2>2
<1>3. S \in Good
  <2>. HIDE DEF Good
  <2>. QED  BY <1>1, <1>2, SubsetInductionBySet
<1>4. /\ \E x \in S : \A y \in S : x >= y
      /\ \E x \in S : \A y \in S : x <= y
  BY <1>3
<1>. QED
  BY <1>4 DEF Max, Min

LEMMA PoolConstants ==
  /\ MIN_TICK_INDEX \in Int /\ MAX_TICK_INDEX \in Int /\ MIN_TICK_INDEX < MAX_TICK_INDEX
  /\ TickIndexes = MIN_TICK_INDEX..MAX_TICK_INDEX /\ IsFiniteSet(TickIndexes)
  /\ \A t \in TickIndexes : TickPrice[t] \in Nat
  /\ \A t \in TickIndexes \ {MAX_TICK_INDEX} : TickPrice[t] < TickPrice[t + 1]
  /\ TickPrice[MIN_TICK_INDEX] = MIN_SQRT_PRICE /\ TickPrice[MAX_TICK_INDEX] = MAX_SQRT_PRICE
  /\ TICK_SPACING \in Nat \ {0} /\ TICK_ARRAY_SIZE \in Nat \ {0}
  /\ UsableTicks \subseteq TickIndexes
  /\ MIN_SQRT_PRICE \in Nat \ {0} /\ MAX_SQRT_PRICE \in Nat
<1>1. IsFiniteSet(MIN_TICK_INDEX..MAX_TICK_INDEX)
  BY LiquidityPoolAssumption, FS_Interval
<1>. QED
  BY <1>1, LiquidityPoolAssumption, AmmMathAssumption DEF UsableTicks

LEMMA PricesRise ==
  ASSUME NEW s \in TickIndexes, NEW t \in TickIndexes, s < t
  PROVE  TickPrice[s] < TickPrice[t]
<1>. DEFINE Good == {n \in Nat : s + n + 1 \in TickIndexes => TickPrice[s] < TickPrice[s + n + 1]}
<1>0. s \in Int /\ t \in Int
  BY PoolConstants
<1>1. 0 \in Good
  BY <1>0, PoolConstants
<1>2. ASSUME NEW n \in Nat, n \in Good PROVE n + 1 \in Good
  <2>1. SUFFICES ASSUME s + (n + 1) + 1 \in TickIndexes
                 PROVE  TickPrice[s] < TickPrice[s + (n + 1) + 1]
    OBVIOUS
  <2>. DEFINE m == s + n + 1
  <2>2. m \in Int /\ s + (n + 1) + 1 = m + 1
    BY <1>0
  <2>3. s \in TickIndexes /\ m \in TickIndexes \ {MAX_TICK_INDEX}
    BY <1>0, <2>1, PoolConstants
  <2>4. TickPrice[s] < TickPrice[m]
    BY <1>2, <2>3
  <2>. HIDE DEF m
  <2>5. /\ TickPrice[m] < TickPrice[m + 1] /\ TickPrice[m] \in Nat /\ TickPrice[s] \in Nat
        /\ TickPrice[m + 1] \in Nat
    BY <2>1, <2>2, <2>3, PoolConstants
  <2>. QED  BY <2>2, <2>4, <2>5
<1>3. Nat \subseteq Good
  <2>. HIDE DEF Good
  <2>. QED  BY <1>1, <1>2, NatInductionBySet
<1>4. t - s - 1 \in Nat /\ s + (t - s - 1) + 1 = t
  BY <1>0
<1>5. t - s - 1 \in Good
  BY <1>3, <1>4
<1>. QED
  BY <1>4, <1>5

LEMMA PriceRange ==
  ASSUME NEW t \in TickIndexes
  PROVE  TickPrice[t] \in MIN_SQRT_PRICE..MAX_SQRT_PRICE /\ TickPrice[t] \in Nat \ {0}
<1>1. t # MIN_TICK_INDEX => TickPrice[MIN_TICK_INDEX] < TickPrice[t]
  BY PoolConstants, PricesRise
<1>2. t # MAX_TICK_INDEX => TickPrice[t] < TickPrice[MAX_TICK_INDEX]
  BY PoolConstants, PricesRise
<1>. QED
  BY <1>1, <1>2, PoolConstants

\* The price is at this tick or between it and the next one.
MatchesTick(price, t) ==
    /\ t >= MIN_TICK_INDEX => TickPrice[t] <= price
    /\ t < MAX_TICK_INDEX  => price <= TickPrice[t + 1]

LEMMA TickAtMatches ==
  ASSUME NEW price \in MIN_SQRT_PRICE..MAX_SQRT_PRICE
  PROVE  /\ TickAt(price) \in TickIndexes
         /\ TickPrice[TickAt(price)] <= price
         /\ TickAt(price) < MAX_TICK_INDEX => price < TickPrice[TickAt(price) + 1]
<1>. DEFINE S == {t \in TickIndexes : TickPrice[t] <= price}
            t == TickAt(price)
<1>1. IsFiniteSet(S) /\ S \subseteq Int /\ MIN_TICK_INDEX \in S
  BY PoolConstants, FS_Subset
<1>2. t \in S /\ \A y \in S : y <= t
  <2>1. t = Max(S)
    BY DEF TickAt
  <2>. HIDE DEF S, t
  <2>. QED  BY <1>1, <2>1, ExtremesExist
<1>3. ASSUME t < MAX_TICK_INDEX PROVE price < TickPrice[t + 1]
  <2>1. t \in Int /\ t + 1 \in TickIndexes
    BY <1>2, <1>3, PoolConstants
  <2>. HIDE DEF t
  <2>2. t + 1 \notin S
    BY <1>1, <1>2, <2>1
  <2>3. TickPrice[t + 1] \in Nat /\ price \in Nat
    BY <2>1, PoolConstants
  <2>. QED  BY <2>1, <2>2, <2>3
<1>. QED
  BY <1>2, <1>3
-----------------------------------------------------------------------------
(* The search for the next initialized tick *)

LEMMA MultipleRemainder ==
  ASSUME NEW d \in Nat \ {0}, NEW k \in Int
  PROVE  (d * k) % d = 0
<1>. DEFINE n == d * k  q == n \div d  r == n % d  above == q + 1
<1>1. n \in Int /\ q \in Int /\ r \in 0..(d - 1) /\ n = d * q + r
  <2>1. n \in Int
    OBVIOUS
  <2>. HIDE DEF n
  <2>. QED  BY <2>1
<1>2. above \in Int /\ above = q + 1 /\ d * above = d * q + d /\ n = d * k
  BY <1>1
<1>. HIDE DEF n, q, r, above
<1>3. d * k < d * above
  BY <1>1, <1>2
<1>4. k < above
  BY <1>2, <1>3, MultipleLess
<1>5. ~(k < q)
  <2>1. SUFFICES ASSUME k < q PROVE FALSE
    OBVIOUS
  <2>2. d * q <= d * k /\ d * q <= n
    BY <1>1, <1>2
  <2>. DEFINE more == k + 1
  <2>3. more \in Int /\ more <= q /\ d * more = d * k + d
    BY <1>1, <2>1
  <2>. HIDE DEF more
  <2>4. d * more <= d * q
    BY <1>1, <2>3, MultipleMonotone
  <2>5. d * k \in Int /\ d * q \in Int
    BY <1>1
  <2>. QED  BY <2>2, <2>3, <2>4, <2>5
<1>6. k = q
  BY <1>1, <1>2, <1>4, <1>5
<1>7. r = 0
  BY <1>1, <1>2, <1>6
<1>. QED
  BY <1>7 DEF r, n

LEMMA NoMultipleBetween ==
  ASSUME NEW d \in Nat \ {0}, NEW a \in Int, NEW t \in Int, a % d = 0, t % d = 0,
         a - d < t, t < a
  PROVE  FALSE
<1>. DEFINE j == a \div d  k == t \div d  below == j - 1
<1>1. j \in Int /\ k \in Int /\ a = d * j /\ t = d * k
  OBVIOUS
<1>2. below \in Int /\ d * below = d * j - d
  BY <1>1
<1>. HIDE DEF j, k, below
<1>3. d * k < d * j /\ d * below < d * k
  BY <1>1, <1>2
<1>4. k < j /\ below < k
  BY <1>1, <1>2, <1>3, MultipleLess
<1>. QED
  BY <1>1, <1>4 DEF below

\* Tick arrays start at multiples of the tick spacing.
GoodStarts(starts) ==
    \A i \in 1..Len(starts) : starts[i] \in Int /\ starts[i] % TICK_SPACING = 0

LEMMA ArraySize == TICKS_IN_ARRAY \in Nat \ {0}
  BY PoolConstants DEF TICKS_IN_ARRAY

\* No initialized tick is skipped: the result is ahead, and nothing between is initialized.
NothingSkipped(all, t, index, toQuote) ==
    IF toQuote THEN index <= t /\ \A i \in UsableTicks : index < i /\ i <= t => ~all[i].initialized
    ELSE index > t /\ \A i \in UsableTicks : t < i /\ i < index => ~all[i].initialized

\* What has been searched on the way to an array: up to from.
Searched(all, t, from, toQuote) ==
    /\ from \in Int
    /\ IF toQuote THEN from <= t /\ \A i \in UsableTicks : from < i /\ i <= t => ~all[i].initialized
       ELSE from >= t /\ \A i \in UsableTicks : t < i /\ i <= from => ~all[i].initialized

\* An array without an initialized tick ahead has been searched to its end.
LEMMA ArraySearched ==
  ASSUME NEW all, DOMAIN all = UsableTicks, NEW t \in Int, NEW toQuote \in BOOLEAN,
         NEW from \in Int, NEW start \in Int, start % TICK_SPACING = 0,
         Searched(all, t, from, toQuote),
         InSearchRange(from, start, ~toQuote),
         InitializedAhead(all, start, from, toQuote) = {}
  PROVE  Searched(all, t, IF toQuote THEN start - 1 ELSE start + TICKS_IN_ARRAY - 1, toQuote)
<1>0. /\ TICKS_IN_ARRAY \in Nat \ {0} /\ TICK_SPACING \in Nat \ {0}
      /\ \A i \in UsableTicks : i \in Int /\ i % TICK_SPACING = 0
  BY ArraySize, PoolConstants DEF UsableTicks
<1>1. CASE toQuote
  <2>1. from >= start /\ from <= start + TICKS_IN_ARRAY - 1
    BY <1>0, <1>1 DEF InSearchRange
  <2>2. ASSUME NEW i \in UsableTicks, start <= i, i <= from PROVE ~all[i].initialized
    BY <1>0, <1>1, <2>1, <2>2 DEF InitializedAhead
  <2>3. \A i \in UsableTicks : from < i /\ i <= t => ~all[i].initialized
    BY <1>1 DEF Searched
  <2>4. from <= t
    BY <1>1 DEF Searched
  <2>5. \A i \in UsableTicks : start - 1 < i /\ i <= t => ~all[i].initialized
    BY <1>0, <2>2, <2>3
  <2>6. start - 1 <= t /\ start - 1 \in Int
    BY <2>1, <2>4
  <2>. QED  BY <1>1, <2>5, <2>6 DEF Searched
<1>2. CASE ~toQuote
  <2>. DEFINE last == start + TICKS_IN_ARRAY - 1
  <2>1. from >= start - TICK_SPACING /\ from < last
    BY <1>0, <1>2 DEF InSearchRange
  <2>2. ASSUME NEW i \in UsableTicks, from < i, i <= last PROVE ~all[i].initialized
    <3>1. i >= start
      <4>1. SUFFICES ASSUME i < start PROVE FALSE
        BY <1>0
      <4>2. i \in Int /\ i % TICK_SPACING = 0 /\ start - TICK_SPACING < i
        BY <1>0, <2>1, <2>2
      <4>. QED  BY <1>0, <4>1, <4>2, NoMultipleBetween
    <3>. QED  BY <1>0, <1>2, <2>2, <3>1 DEF InitializedAhead
  <2>3. from >= t /\ \A i \in UsableTicks : t < i /\ i <= from => ~all[i].initialized
    BY <1>2 DEF Searched
  <2>4. last \in Int /\ last >= t
    BY <1>0, <2>1, <2>3
  <2>. HIDE DEF last
  <2>5. \A i \in UsableTicks : t < i /\ i <= last => ~all[i].initialized
    BY <1>0, <2>2, <2>3, <2>4
  <2>6. Searched(all, t, last, toQuote)
    BY <1>2, <2>4, <2>5 DEF Searched
  <2>. QED  BY <1>2, <2>6 DEF last
<1>. QED
  BY <1>1, <1>2
\* get_next_initialized_tick_index skips no initialized tick.
LEMMA NextTickEffect ==
  ASSUME NEW all, DOMAIN all = UsableTicks, NEW starts, Len(starts) \in Nat, GoodStarts(starts),
         NEW array \in Nat \ {0}, NEW t \in Int, NEW toQuote \in BOOLEAN,
         IF toQuote THEN t \in TickIndexes ELSE t >= MIN_TICK_INDEX - 1 /\ t < MAX_TICK_INDEX,
         NextInitializedTick(all, starts, array, t, toQuote) # NotFound
  PROVE  LET next == NextInitializedTick(all, starts, array, t, toQuote)
         IN  /\ next.array \in Nat \ {0} /\ next.index \in TickIndexes
             /\ NothingSkipped(all, t, next.index, toQuote)
<1>. DEFINE last(c) == starts[c] + TICKS_IN_ARRAY - 1
            from(c) == IF c = array THEN t
                       ELSE IF toQuote THEN starts[c - 1] - 1 ELSE last(c - 1)
            ahead(c) == InitializedAhead(all, starts[c], from(c), toQuote)
            isEnd(c) == IF toQuote THEN starts[c] <= MIN_TICK_INDEX ELSE last(c) >= MAX_TICK_INDEX
            stops == {c \in array..Len(starts) : ahead(c) # {} \/ isEnd(c) \/ c = Len(starts)}
            a == Min(stops)
            index == IF ahead(a) # {} THEN IF toQuote THEN Max(ahead(a)) ELSE Min(ahead(a))
                     ELSE IF isEnd(a) THEN IF toQuote THEN MIN_TICK_INDEX ELSE MAX_TICK_INDEX
                     ELSE IF toQuote THEN starts[a] ELSE last(a)
            outside == stops = {} \/ \E b \in array..a : ~InSearchRange(from(b), starts[b], ~toQuote)
            next == NextInitializedTick(all, starts, array, t, toQuote)
<1>1. next = IF outside THEN NotFound ELSE [array |-> a, index |-> index]
  BY DEF NextInitializedTick
<1>2. ~outside /\ next.array = a /\ next.index = index
  <2>. HIDE DEF outside, a, index, next
  <2>1. next # NotFound
    BY DEF next
  <2>. QED  BY <1>1, <2>1
<1>3. stops # {} /\ \A b \in array..a : InSearchRange(from(b), starts[b], ~toQuote)
  <2>. HIDE DEF a, stops, from
  <2>. QED  BY <1>2
<1>4. a \in stops /\ \A c \in stops : a <= c
  <2>1. IsFiniteSet(array..Len(starts))
    BY FS_Interval
  <2>2. stops \subseteq array..Len(starts)
    OBVIOUS
  <2>. HIDE DEF stops
  <2>3. IsFiniteSet(stops)
    BY <2>1, <2>2, FS_Subset
  <2>4. stops \subseteq Int
    BY <2>2
  <2>. QED  BY <1>3, <2>3, <2>4, ExtremesExist
<1>5. a \in array..Len(starts) /\ a \in Nat \ {0}
  <2>1. a \in array..Len(starts)
    <3>1. \A c \in stops : c \in array..Len(starts)
      OBVIOUS
    <3>. HIDE DEF a, stops
    <3>. QED  BY <1>4, <3>1
  <2>. HIDE DEF a
  <2>. QED  BY <2>1
<1>6. ASSUME NEW b \in array..a, b # a PROVE ahead(b) = {}
  <2>1. b \in array..Len(starts) /\ ~(a <= b)
    <3>. HIDE DEF a
    <3>. QED  BY <1>5, <1>6
  <2>2. b \notin stops
    <3>. HIDE DEF a, stops
    <3>. QED  BY <1>4, <2>1
  <2>. HIDE DEF ahead, isEnd, a
  <2>. QED  BY <2>1, <2>2
<1>7. \A c \in array..a : starts[c] \in Int /\ starts[c] % TICK_SPACING = 0
  <2>. HIDE DEF a
  <2>. QED  BY <1>5 DEF GoodStarts
<1>. HIDE DEF a, stops, outside
<1>8. ASSUME NEW b \in Nat, b \in array..a => Searched(all, t, from(b), toQuote)
      PROVE  b + 1 \in array..a => Searched(all, t, from(b + 1), toQuote)
  <2>1. SUFFICES ASSUME b + 1 \in array..a PROVE Searched(all, t, from(b + 1), toQuote)
    OBVIOUS
  <2>2. CASE b + 1 = array
    BY <2>2 DEF Searched
  <2>3. CASE b + 1 # array
    <3>1. b \in array..a /\ b # a
      BY <1>5, <2>1, <2>3
    <3>2. starts[b] \in Int /\ starts[b] % TICK_SPACING = 0
      BY <1>7, <3>1
    <3>3. Searched(all, t, from(b), toQuote) /\ InSearchRange(from(b), starts[b], ~toQuote)
      BY <1>3, <1>8, <3>1
    <3>4. InitializedAhead(all, starts[b], from(b), toQuote) = {}
      BY <1>6, <3>1
    <3>5. from(b) \in Int
      BY <3>3 DEF Searched
    <3>6. from(b + 1) = IF toQuote THEN starts[b] - 1 ELSE starts[b] + TICKS_IN_ARRAY - 1
      BY <2>3
    <3>. HIDE DEF from
    <3>7. Searched(all, t, IF toQuote THEN starts[b] - 1 ELSE starts[b] + TICKS_IN_ARRAY - 1, toQuote)
      BY <3>2, <3>3, <3>4, <3>5, ArraySearched
    <3>. QED  BY <3>6, <3>7
  <2>. QED  BY <2>2, <2>3
<1>9. \A b \in array..a : Searched(all, t, from(b), toQuote)
  <2>. DEFINE Good == {b \in Nat : b \in array..a => Searched(all, t, from(b), toQuote)}
  <2>. HIDE DEF from
  <2>1. 0 \in Good
    BY <1>5
  <2>2. \A b \in Nat : b \in Good => b + 1 \in Good
    BY <1>8
  <2>3. Nat \subseteq Good
    <3>. HIDE DEF Good
    <3>. QED  BY <2>1, <2>2, NatInductionBySet
  <2>. QED  BY <1>5, <2>3
<1>10. /\ Searched(all, t, from(a), toQuote) /\ InSearchRange(from(a), starts[a], ~toQuote)
       /\ starts[a] \in Int /\ starts[a] % TICK_SPACING = 0 /\ from(a) \in Int
  <2>. HIDE DEF from
  <2>1. a \in array..a
    BY <1>5
  <2>2. Searched(all, t, from(a), toQuote)
    BY <1>9, <2>1
  <2>. QED  BY <1>3, <1>7, <2>1, <2>2 DEF Searched
<1>11. ahead(a) \subseteq UsableTicks /\ IsFiniteSet(ahead(a)) /\ ahead(a) \subseteq Int
  <2>. HIDE DEF from
  <2>1. ahead(a) \subseteq UsableTicks
    BY DEF InitializedAhead
  <2>. HIDE DEF ahead
  <2>2. IsFiniteSet(TickIndexes) /\ UsableTicks \subseteq TickIndexes /\ TickIndexes \subseteq Int
    <3>1. TickIndexes = MIN_TICK_INDEX..MAX_TICK_INDEX
      BY PoolConstants
    <3>2. TickIndexes \subseteq Int
      BY <3>1, PoolConstants
    <3>. QED  BY <3>2, PoolConstants
  <2>3. IsFiniteSet(ahead(a))
    BY <2>1, <2>2, FS_Subset
  <2>. QED  BY <2>1, <2>2, <2>3
<1>. HIDE DEF from
<1>12. /\ index \in TickIndexes
       /\ NothingSkipped(all, t, index, toQuote)
  <2>0. /\ TICKS_IN_ARRAY \in Nat \ {0} /\ TICK_SPACING \in Nat \ {0}
        /\ MIN_TICK_INDEX \in Int /\ MAX_TICK_INDEX \in Int /\ MIN_TICK_INDEX < MAX_TICK_INDEX
        /\ TickIndexes = MIN_TICK_INDEX..MAX_TICK_INDEX /\ UsableTicks \subseteq TickIndexes
        /\ \A i \in UsableTicks : i \in Int /\ MIN_TICK_INDEX <= i /\ i <= MAX_TICK_INDEX
    BY ArraySize, PoolConstants
  <2>1. CASE ahead(a) # {} /\ toQuote
    <3>1. index \in ahead(a) /\ \A i \in ahead(a) : i <= index
      <4>1. index = Max(ahead(a))
        BY <2>1
      <4>. HIDE DEF ahead, index
      <4>. QED  BY <1>11, <2>1, <4>1, ExtremesExist
    <3>. HIDE DEF index
    <3>2. /\ index \in UsableTicks /\ index <= from(a) /\ starts[a] <= index
          /\ from(a) <= t
      BY <1>10, <2>0, <2>1, <3>1 DEF InitializedAhead, Searched
    <3>3. ASSUME NEW i \in UsableTicks, index < i, i <= t PROVE ~all[i].initialized
      <4>1. CASE from(a) < i
        BY <1>10, <2>1, <3>3, <4>1 DEF Searched
      <4>2. CASE i <= from(a)
        <5>1. from(a) < starts[a] + TICKS_IN_ARRAY
          BY <1>10, <2>0, <2>1 DEF InSearchRange
        <5>2. i \notin ahead(a)
          BY <2>0, <3>1, <3>2, <3>3
        <5>. QED  BY <1>10, <2>0, <2>1, <3>2, <3>3, <4>2, <5>1, <5>2, SMTT(40) DEF InitializedAhead
      <4>. QED  BY <1>10, <2>0, <4>1, <4>2
    <3>4. index <= t
      BY <1>10, <2>0, <3>2
    <3>. QED  BY <2>0, <2>1, <3>2, <3>3, <3>4 DEF NothingSkipped
  <2>2. CASE ahead(a) # {} /\ ~toQuote
    <3>1. index \in ahead(a) /\ \A i \in ahead(a) : index <= i
      <4>1. index = Min(ahead(a))
        BY <2>2
      <4>. HIDE DEF ahead, index
      <4>. QED  BY <1>11, <2>2, <4>1, ExtremesExist
    <3>. HIDE DEF index
    <3>2. /\ index \in UsableTicks /\ index > from(a) /\ from(a) >= t
          /\ index < starts[a] + TICKS_IN_ARRAY /\ starts[a] - TICK_SPACING <= from(a)
      <4>1. index \in UsableTicks /\ index > from(a) /\ index < starts[a] + TICKS_IN_ARRAY
        BY <1>10, <2>0, <2>2, <3>1 DEF InitializedAhead
      <4>2. from(a) >= t
        BY <2>2, <1>10 DEF Searched
      <4>3. starts[a] - TICK_SPACING <= from(a)
        BY <1>10, <2>0, <2>2 DEF InSearchRange
      <4>. QED  BY <4>1, <4>2, <4>3
    <3>3. ASSUME NEW i \in UsableTicks, t < i, i < index PROVE ~all[i].initialized
      <4>1. CASE i <= from(a)
        BY <1>10, <2>2, <3>3, <4>1 DEF Searched
      <4>2. CASE from(a) < i
        <5>1. i >= starts[a]
          <6>1. SUFFICES ASSUME i < starts[a] PROVE FALSE
            BY <1>10, <2>0
          <6>2. i \in Int /\ i % TICK_SPACING = 0 /\ starts[a] - TICK_SPACING < i
            BY <1>10, <2>0, <3>2, <4>2 DEF UsableTicks
          <6>. QED  BY <1>10, <2>0, <6>1, <6>2, NoMultipleBetween
        <5>2. i \notin ahead(a)
          BY <2>0, <3>1, <3>2, <3>3
        <5>. QED  BY <1>10, <2>0, <2>2, <3>2, <3>3, <4>2, <5>1, <5>2, SMTT(40) DEF InitializedAhead
      <4>. QED  BY <1>10, <2>0, <4>1, <4>2
    <3>4. index > t
      BY <1>10, <2>0, <3>2
    <3>. QED  BY <2>0, <2>2, <3>2, <3>3, <3>4 DEF NothingSkipped
  <2>3. CASE ahead(a) = {} /\ toQuote
    <3>1. index = IF starts[a] <= MIN_TICK_INDEX THEN MIN_TICK_INDEX ELSE starts[a]
      BY <2>3
    <3>2. Searched(all, t, starts[a] - 1, toQuote)
      <4>1. InitializedAhead(all, starts[a], from(a), toQuote) = {}
        BY <2>3
      <4>2. Searched(all, t, IF toQuote THEN starts[a] - 1 ELSE starts[a] + TICKS_IN_ARRAY - 1, toQuote)
        BY <1>10, <4>1, ArraySearched
      <4>. QED  BY <2>3, <4>2
    <3>3. starts[a] <= t
      <4>1. starts[a] <= from(a) /\ from(a) <= t
        BY <1>10, <2>0, <2>3 DEF InSearchRange, Searched
      <4>. QED  BY <1>10, <4>1
    <3>4. \A i \in UsableTicks : starts[a] <= i /\ i <= t => ~all[i].initialized
      BY <1>10, <2>0, <2>3, <3>2 DEF Searched
    <3>. HIDE DEF index, ahead
    <3>5. t \in Int /\ MIN_TICK_INDEX <= t /\ t <= MAX_TICK_INDEX
      BY <2>0, <2>3
    <3>6. index \in TickIndexes /\ index <= t /\ starts[a] <= index /\ index \in Int
      BY <1>10, <2>0, <3>1, <3>3, <3>5
    <3>. QED  BY <1>10, <2>0, <2>3, <3>4, <3>6 DEF NothingSkipped
  <2>4. CASE ahead(a) = {} /\ ~toQuote
    <3>. DEFINE end == starts[a] + TICKS_IN_ARRAY - 1
    <3>1. index = IF end >= MAX_TICK_INDEX THEN MAX_TICK_INDEX ELSE end
      BY <2>4
    <3>2. Searched(all, t, end, toQuote)
      <4>1. InitializedAhead(all, starts[a], from(a), toQuote) = {}
        BY <2>4
      <4>2. Searched(all, t, IF toQuote THEN starts[a] - 1 ELSE starts[a] + TICKS_IN_ARRAY - 1, toQuote)
        BY <1>10, <4>1, ArraySearched
      <4>. QED  BY <2>4, <4>2
    <3>3. t < end /\ end \in Int
      <4>1. from(a) < end /\ from(a) >= t
        BY <1>10, <2>0, <2>4 DEF InSearchRange, Searched
      <4>. QED  BY <1>10, <2>0, <4>1
    <3>. HIDE DEF index, ahead, end
    <3>4. \A i \in UsableTicks : t < i /\ i <= end => ~all[i].initialized
      BY <2>4, <3>2 DEF Searched
    <3>5. t \in Int /\ MIN_TICK_INDEX - 1 <= t /\ t < MAX_TICK_INDEX
      BY <2>0, <2>4
    <3>6. index \in TickIndexes /\ index > t /\ index <= end /\ index \in Int
      BY <2>0, <3>1, <3>3, <3>5
    <3>. QED  BY <2>0, <2>4, <3>3, <3>4, <3>6 DEF NothingSkipped
  <2>. QED  BY <2>1, <2>2, <2>3, <2>4
<1>. HIDE DEF index, next
<1>13. /\ next.array \in Nat \ {0} /\ next.index \in TickIndexes
       /\ NothingSkipped(all, t, next.index, toQuote)
  BY <1>2, <1>5, <1>12
<1>. QED
  BY <1>13 DEF next
LEMMA StartsGood ==
  ASSUME amm.tick \in Int, NEW toQuote \in BOOLEAN, NEW n \in Nat,
         n <= Len(StartTickIndexes(toQuote))
  PROVE  /\ Len(SubSeq(StartTickIndexes(toQuote), 1, n)) \in Nat
         /\ GoodStarts(SubSeq(StartTickIndexes(toQuote), 1, n))
<1>. DEFINE base    == (amm.tick \div TICKS_IN_ARRAY) * TICKS_IN_ARRAY
            shifted == amm.tick + TICK_SPACING >= base + TICKS_IN_ARRAY
            factor(i) == IF toQuote THEN 1 - i ELSE IF shifted THEN i ELSE i - 1
            start(i) == base + TICKS_IN_ARRAY * factor(i)
            valid   == {i \in 1..3 : IsValidStart(start(i))}
            all == [i \in 1..Cardinality(valid) |-> start(i)]
<1>1. StartTickIndexes(toQuote) = all
  BY DEF StartTickIndexes
<1>2. Cardinality(valid) \in Nat
  <2>1. IsFiniteSet(1..3)
    <3>. DEFINE first == 1  last == 3
    <3>1. first \in Int /\ last \in Int
      OBVIOUS
    <3>. HIDE DEF first, last
    <3>2. IsFiniteSet(first..last)
      BY <3>1, FS_Interval
    <3>. QED  BY <3>2 DEF first, last
  <2>2. IsFiniteSet(valid)
    <3>1. valid \subseteq 1..3
      OBVIOUS
    <3>. HIDE DEF valid
    <3>. QED  BY <2>1, <3>1, FS_Subset
  <2>. HIDE DEF valid
  <2>. QED  BY <2>2, FS_CardinalityType
<1>3. ASSUME NEW i \in Int PROVE start(i) \in Int /\ start(i) % TICK_SPACING = 0
  <2>. DEFINE q == amm.tick \div TICKS_IN_ARRAY
              f == factor(i)
              m == TICK_ARRAY_SIZE * (q + f)
  <2>1. q \in Int
    BY ArraySize
  <2>2. f \in Int
    <3>. HIDE DEF shifted
    <3>. QED  OBVIOUS
  <2>3. start(i) = q * TICKS_IN_ARRAY + TICKS_IN_ARRAY * f
    OBVIOUS
  <2>. HIDE DEF q, f, start
  <2>4. m \in Int /\ start(i) = TICK_SPACING * m
    BY <2>1, <2>2, <2>3, PoolConstants DEF TICKS_IN_ARRAY
  <2>5. start(i) \in Int
    BY <2>4, PoolConstants
  <2>. HIDE DEF m
  <2>6. (TICK_SPACING * m) % TICK_SPACING = 0
    BY <2>4, PoolConstants, MultipleRemainder
  <2>. QED  BY <2>4, <2>5, <2>6
<1>. DEFINE c == Cardinality(valid)
<1>4. all \in Seq(Int) /\ Len(all) = c /\ \A i \in 1..c : all[i] = start(i)
  <2>1. \A i \in 1..c : start(i) \in Int
    <3>. HIDE DEF start, c
    <3>. QED  BY <1>2, <1>3
  <2>. HIDE DEF start
  <2>2. all \in [1..c -> Int]
    <3>1. all = [i \in 1..c |-> start(i)]
      OBVIOUS
    <3>. HIDE DEF all, c
    <3>. QED  BY <2>1, <3>1
  <2>3. c \in Nat
    BY <1>2
  <2>4. \A i \in 1..c : all[i] = start(i)
    OBVIOUS
  <2>. HIDE DEF c, all
  <2>. QED  BY <2>2, <2>3, <2>4
<1>. HIDE DEF start, c, all
<1>5. n <= c /\ c \in Nat
  BY <1>1, <1>2, <1>4 DEF c
<1>. DEFINE some == SubSeq(all, 1, n)
<1>6. Len(some) = n /\ \A i \in 1..n : some[i] = all[i]
  BY <1>4, <1>5
<1>. HIDE DEF some
<1>7. \A i \in 1..n : some[i] \in Int /\ some[i] % TICK_SPACING = 0
  <2>1. \A i \in 1..n : i \in 1..c /\ i \in Int
    BY <1>5
  <2>. QED  BY <1>3, <1>4, <1>6, <2>1
<1>. QED
  BY <1>1, <1>6, <1>7 DEF some, GoodStarts

-----------------------------------------------------------------------------
(* Growths modulo WORD *)

Word == 0..(WORD - 1)

LEMMA WordFacts == WORD \in Nat \ {0} /\ Word \subseteq Int /\ 0 \in Word
  BY AmmMathAssumption DEF Word

LEMMA WrappingType ==
  ASSUME NEW a \in Word, NEW b \in Word
  PROVE  WrappingAdd(a, b) \in Word /\ WrappingSub(a, b) \in Word
  BY WordFacts DEF Word, WrappingAdd, WrappingSub

LEMMA WrappingNeutral ==
  ASSUME NEW a \in Word
  PROVE  WrappingSub(a, 0) = a /\ WrappingSub(a, a) = 0
  BY WordFacts DEF Word, WrappingSub

\* What is outside of the outside is inside.
LEMMA WrappingTwice ==
  ASSUME NEW a \in Word, NEW b \in Word
  PROVE  WrappingSub(a, WrappingSub(a, b)) = b
  BY WordFacts DEF Word, WrappingSub

LEMMA WrappingShift ==
  ASSUME NEW a \in Word, NEW b \in Word, NEW d \in Word
  PROVE  WrappingSub(WrappingAdd(a, d), b) = WrappingAdd(WrappingSub(a, b), d)
  BY WordFacts DEF Word, WrappingAdd, WrappingSub

\* Above the upper bound what is inside does not depend on the growth.
LEMMA WrappingCancels ==
  ASSUME NEW a \in Word, NEW b \in Word, NEW c \in Word
  PROVE  WrappingSub(WrappingSub(a, b), WrappingSub(a, c)) = WrappingSub(c, b)
  BY WordFacts DEF Word, WrappingSub
LEMMA WrappingSwaps ==
  ASSUME NEW a \in Word, NEW b \in Word, NEW c \in Word
  PROVE  WrappingSub(WrappingSub(a, b), c) = WrappingSub(WrappingSub(a, c), b)
  BY WordFacts DEF Word, WrappingSub

-----------------------------------------------------------------------------
(* The inductive invariant *)

GrowthType == [Growths -> Word]
TickType == [initialized : BOOLEAN, net : Int, gross : Nat, outside : GrowthType]
PositionType == [lower : UsableTicks, upper : UsableTicks, liquidity : Nat,
                 checkpoint : GrowthType, owed : [Growths -> Nat]]

PositionsFit(pos) ==
    /\ pos \in [DOMAIN pos -> PositionType]
    /\ IsFiniteSet(DOMAIN pos)
    /\ \A p \in DOMAIN pos : pos[p].lower < pos[p].upper

\* What a position contributes to the pool's liquidity at a tick, and to the ticks it bounds.
Within(pos, t)  == [p \in DOMAIN pos |-> IF InRange(pos[p], t) THEN pos[p].liquidity ELSE 0]
LowerAt(pos, t) == [p \in DOMAIN pos |-> IF pos[p].lower = t THEN pos[p].liquidity ELSE 0]
UpperAt(pos, t) == [p \in DOMAIN pos |-> IF pos[p].upper = t THEN pos[p].liquidity ELSE 0]

TicksFit(pos, tks) ==
    /\ tks \in [UsableTicks -> TickType]
    /\ \A t \in UsableTicks :
           /\ tks[t].gross = SumFunction(LowerAt(pos, t)) + SumFunction(UpperAt(pos, t))
           /\ tks[t].net = SumFunction(LowerAt(pos, t)) - SumFunction(UpperAt(pos, t))
           /\ tks[t].initialized <=> tks[t].gross > 0
           /\ ~tks[t].initialized => tks[t] = NewTick

\* Inside, of ticks that a swap may have crossed already.
InsideOf(tks, q, t, growth, g) ==
    WrappingSub(WrappingSub(growth[g], Below(tks[q.lower], q.lower, t, growth, g)),
                Above(tks[q.upper], q.upper, t, growth, g))

EarningsFit(pos, tks, t, growth, e) ==
    /\ growth \in GrowthType
    /\ e \in [DOMAIN pos -> GrowthType]
    /\ \A p \in DOMAIN pos : pos[p].liquidity > 0 =>
           \A g \in Growths : WrappingSub(InsideOf(tks, pos[p], t, growth, g), pos[p].checkpoint[g])
                                  = e[p][g]

\* Tick, price and liquidity.
PriceFits(pos, t, price, liquidity) ==
    /\ t \in Int /\ MIN_TICK_INDEX - 1 <= t /\ t <= MAX_TICK_INDEX
    /\ price \in MIN_SQRT_PRICE..MAX_SQRT_PRICE
    /\ MatchesTick(price, t)
    /\ liquidity = SumFunction(Within(pos, t))

AmmType == [tick : Int, sqrtPrice : Nat, liquidity : Nat, growth : GrowthType,
            rewardsUpdatedAt : Nat, emissions : Nat, protocolFeeOwed : [Sides -> Nat],
            feeRate : 0..(FEE_RATE_MUL_VALUE - 1), protocolFeeRate : 0..PROTOCOL_FEE_RATE_MUL_VALUE]

PoolInv ==
    /\ now \in Nat /\ rewardVault \in Nat
    /\ amm \in AmmType /\ amm.rewardsUpdatedAt <= now
    /\ DOMAIN positions \subseteq Positions /\ PositionsFit(positions)
    /\ TicksFit(positions, ticks)
    /\ EarningsFit(positions, ticks, amm.tick, amm.growth, earned)
    /\ PriceFits(positions, amm.tick, amm.sqrtPrice, amm.liquidity)

-----------------------------------------------------------------------------
(* Positions and the ticks at their bounds *)

LEMMA PositionFacts ==
  ASSUME NEW pos, PositionsFit(pos), NEW p \in DOMAIN pos
  PROVE  /\ pos[p].lower \in UsableTicks /\ pos[p].upper \in UsableTicks
         /\ pos[p].lower \in Int /\ pos[p].upper \in Int /\ pos[p].lower < pos[p].upper
         /\ pos[p].liquidity \in Nat /\ pos[p].checkpoint \in GrowthType
<1>1. pos[p] \in PositionType /\ pos[p].lower < pos[p].upper
  BY DEF PositionsFit
<1>2. \A t \in UsableTicks : t \in Int
  BY PoolConstants
<1>. QED
  BY <1>1, <1>2 DEF PositionType

LEMMA WeightTypes ==
  ASSUME NEW pos, PositionsFit(pos), NEW t
  PROVE  /\ SumFunction(Within(pos, t)) \in Nat
         /\ SumFunction(LowerAt(pos, t)) \in Nat
         /\ SumFunction(UpperAt(pos, t)) \in Nat
<1>1. IsFiniteSet(DOMAIN pos) /\ \A p \in DOMAIN pos : pos[p].liquidity \in Nat
  BY PositionFacts DEF PositionsFit
<1>2. SumFunction(Within(pos, t)) \in Nat
  <2>. DEFINE f == Within(pos, t)
  <2>1. DOMAIN f = DOMAIN pos /\ \A p \in DOMAIN f : f[p] \in Nat
    BY <1>1 DEF Within
  <2>. HIDE DEF f
  <2>2. SumFunction(f) \in Nat
    BY <1>1, <2>1, SumNatural
  <2>. QED  BY <2>2 DEF f
<1>3. SumFunction(LowerAt(pos, t)) \in Nat
  <2>. DEFINE f == LowerAt(pos, t)
  <2>1. DOMAIN f = DOMAIN pos /\ \A p \in DOMAIN f : f[p] \in Nat
    BY <1>1 DEF LowerAt
  <2>. HIDE DEF f
  <2>2. SumFunction(f) \in Nat
    BY <1>1, <2>1, SumNatural
  <2>. QED  BY <2>2 DEF f
<1>4. SumFunction(UpperAt(pos, t)) \in Nat
  <2>. DEFINE f == UpperAt(pos, t)
  <2>1. DOMAIN f = DOMAIN pos /\ \A p \in DOMAIN f : f[p] \in Nat
    BY <1>1 DEF UpperAt
  <2>. HIDE DEF f
  <2>2. SumFunction(f) \in Nat
    BY <1>1, <2>1, SumNatural
  <2>. QED  BY <2>2 DEF f
<1>. QED
  BY <1>2, <1>3, <1>4

\* No summand is more than the sum.
LEMMA SumAtLeast ==
  ASSUME NEW f, IsFiniteSet(DOMAIN f), \A x \in DOMAIN f : f[x] \in Nat, NEW z \in DOMAIN f
  PROVE  f[z] <= SumFunction(f)
<1>. DEFINE rest == DOMAIN f \ {z}
            g == [x \in rest |-> f[x]]
<1>1. SumFunctionOnSet(f, DOMAIN f) = f[z] + SumFunctionOnSet(f, rest)
  BY SumWithout
<1>2. IsFiniteSet(rest)
  BY FS_RemoveElement
<1>3. SumFunctionOnSet(f, rest) = SumFunctionOnSet(g, rest)
  BY <1>2, SumSameValues
<1>4. DOMAIN g = rest /\ \A x \in DOMAIN g : g[x] \in Nat
  OBVIOUS
<1>. HIDE DEF g
<1>5. SumFunction(g) \in Nat
  BY <1>2, <1>4, SumNatural
<1>6. f[z] \in Nat
  OBVIOUS
<1>. QED
  BY <1>1, <1>3, <1>4, <1>5, <1>6 DEF SumFunction

\* The ticks at the bounds of a position with liquidity are initialized.
LEMMA BoundsInitialized ==
  ASSUME NEW pos, PositionsFit(pos), NEW tks, TicksFit(pos, tks),
         NEW p \in DOMAIN pos, pos[p].liquidity > 0
  PROVE  tks[pos[p].lower].initialized /\ tks[pos[p].upper].initialized
<1>1. IsFiniteSet(DOMAIN pos) /\ \A q \in DOMAIN pos : pos[q].liquidity \in Nat
  BY PositionFacts DEF PositionsFit
<1>2. /\ pos[p].lower \in UsableTicks /\ pos[p].upper \in UsableTicks
      /\ pos[p].liquidity \in Nat
  BY PositionFacts
<1>3. SumFunction(LowerAt(pos, pos[p].lower)) > 0
  <2>. DEFINE t == pos[p].lower  f == LowerAt(pos, t)
  <2>1. DOMAIN f = DOMAIN pos /\ (\A q \in DOMAIN f : f[q] \in Nat) /\ f[p] = pos[p].liquidity
    BY <1>1 DEF LowerAt
  <2>2. SumFunction(f) \in Nat
    BY WeightTypes
  <2>. HIDE DEF f
  <2>3. f[p] <= SumFunction(f)
    BY <1>1, <2>1, SumAtLeast
  <2>4. SumFunction(f) > 0
    BY <1>2, <2>1, <2>2, <2>3
  <2>. QED  BY <2>4 DEF f
<1>4. SumFunction(UpperAt(pos, pos[p].upper)) > 0
  <2>. DEFINE t == pos[p].upper  f == UpperAt(pos, t)
  <2>1. DOMAIN f = DOMAIN pos /\ (\A q \in DOMAIN f : f[q] \in Nat) /\ f[p] = pos[p].liquidity
    BY <1>1 DEF UpperAt
  <2>2. SumFunction(f) \in Nat
    BY WeightTypes
  <2>. HIDE DEF f
  <2>3. f[p] <= SumFunction(f)
    BY <1>1, <2>1, SumAtLeast
  <2>4. SumFunction(f) > 0
    BY <1>2, <2>1, <2>2, <2>3
  <2>. QED  BY <2>4 DEF f
<1>5. /\ SumFunction(UpperAt(pos, pos[p].lower)) \in Nat /\ SumFunction(LowerAt(pos, pos[p].upper)) \in Nat
      /\ SumFunction(LowerAt(pos, pos[p].lower)) \in Nat /\ SumFunction(UpperAt(pos, pos[p].upper)) \in Nat
  BY WeightTypes
<1>6. tks[pos[p].lower].gross > 0
  BY <1>2, <1>3, <1>5 DEF TicksFit
<1>7. tks[pos[p].upper].gross > 0
  BY <1>2, <1>4, <1>5 DEF TicksFit
<1>. QED
  BY <1>2, <1>6, <1>7 DEF TicksFit
-----------------------------------------------------------------------------
(* What a range has earned *)

LEMMA OutsideType ==
  ASSUME NEW pos, NEW tks, TicksFit(pos, tks), NEW t \in UsableTicks, NEW g \in Growths
  PROVE  tks[t].outside[g] \in Word
<1>1. tks[t] \in TickType
  BY DEF TicksFit
<1>. QED
  BY <1>1 DEF TickType, GrowthType

\* Read off the ticks at its bounds: inside is outside of the one less outside of the other.
LEMMA InsideBetween ==
  ASSUME NEW pos, PositionsFit(pos), NEW tks, TicksFit(pos, tks),
         NEW p \in DOMAIN pos, pos[p].liquidity > 0,
         NEW t \in Int, NEW growth \in GrowthType, NEW g \in Growths
  PROVE  LET below == tks[pos[p].lower].outside[g]
             above == tks[pos[p].upper].outside[g]
         IN  InsideOf(tks, pos[p], t, growth, g) =
                 IF t < pos[p].lower THEN WrappingSub(below, above)
                 ELSE IF t < pos[p].upper
                      THEN WrappingSub(WrappingSub(growth[g], below), above)
                      ELSE WrappingSub(above, below)
<1>. DEFINE below == tks[pos[p].lower].outside[g]
            above == tks[pos[p].upper].outside[g]
            l == pos[p].lower
            u == pos[p].upper
            x == growth[g]
<1>1. l \in UsableTicks /\ u \in UsableTicks /\ l \in Int /\ u \in Int /\ l < u
  BY PositionFacts
<1>2. tks[l].initialized /\ tks[u].initialized
  BY BoundsInitialized
<1>3. below \in Word /\ above \in Word /\ x \in Word
  BY <1>1, OutsideType DEF GrowthType
<1>4. Below(tks[l], l, t, growth, g) = IF t < l THEN WrappingSub(x, below) ELSE below
  BY <1>2 DEF Below
<1>5. Above(tks[u], u, t, growth, g) = IF t < u THEN above ELSE WrappingSub(x, above)
  BY <1>2 DEF Above
<1>6. InsideOf(tks, pos[p], t, growth, g) =
          WrappingSub(WrappingSub(x, IF t < l THEN WrappingSub(x, below) ELSE below),
                      IF t < u THEN above ELSE WrappingSub(x, above))
  BY <1>4, <1>5 DEF InsideOf
<1>. HIDE DEF below, above, l, u, x
<1>7. CASE t < l
  <2>1. t < u
    BY <1>1, <1>7
  <2>2. WrappingSub(x, WrappingSub(x, below)) = below
    BY <1>3, WrappingTwice
  <2>. QED  BY <1>6, <1>7, <2>1, <2>2 DEF below, above, l, u, x
<1>8. CASE ~(t < l) /\ t < u
  BY <1>6, <1>8 DEF below, above, l, u, x
<1>9. CASE ~(t < l) /\ ~(t < u)
  <2>1. WrappingSub(WrappingSub(x, below), WrappingSub(x, above)) = WrappingSub(above, below)
    BY <1>3, WrappingCancels
  <2>. QED  BY <1>6, <1>9, <2>1 DEF below, above, l, u, x
<1>. QED
  BY <1>7, <1>8, <1>9

LEMMA InsideType ==
  ASSUME NEW pos, PositionsFit(pos), NEW tks, TicksFit(pos, tks),
         NEW p \in DOMAIN pos, pos[p].liquidity > 0,
         NEW t \in Int, NEW growth \in GrowthType, NEW g \in Growths
  PROVE  InsideOf(tks, pos[p], t, growth, g) \in Word
<1>. DEFINE below == tks[pos[p].lower].outside[g]
            above == tks[pos[p].upper].outside[g]
            x == growth[g]
<1>1. below \in Word /\ above \in Word /\ x \in Word
  BY PositionFacts, OutsideType DEF GrowthType
<1>2. InsideOf(tks, pos[p], t, growth, g) =
          IF t < pos[p].lower THEN WrappingSub(below, above)
          ELSE IF t < pos[p].upper THEN WrappingSub(WrappingSub(x, below), above)
          ELSE WrappingSub(above, below)
  BY InsideBetween
<1>. HIDE DEF below, above, x
<1>3. /\ WrappingSub(below, above) \in Word /\ WrappingSub(above, below) \in Word
      /\ WrappingSub(x, below) \in Word
  BY <1>1, WrappingType
<1>4. WrappingSub(WrappingSub(x, below), above) \in Word
  BY <1>1, <1>3, WrappingType
<1>. QED
  BY <1>2, <1>3, <1>4

\* A move that passes no initialized tick changes nothing.
LEMMA MoveBetweenTicks ==
  ASSUME NEW pos, PositionsFit(pos), NEW tks, TicksFit(pos, tks),
         NEW t \in Int, NEW s \in Int,
         \A i \in UsableTicks : tks[i].initialized => (i <= t <=> i <= s)
  PROVE  /\ Within(pos, s) = Within(pos, t)
         /\ \A growth, e : EarningsFit(pos, tks, t, growth, e) => EarningsFit(pos, tks, s, growth, e)
<1>1. ASSUME NEW p \in DOMAIN pos, pos[p].liquidity > 0
      PROVE  /\ t < pos[p].lower <=> s < pos[p].lower
             /\ t < pos[p].upper <=> s < pos[p].upper
  <2>1. tks[pos[p].lower].initialized /\ tks[pos[p].upper].initialized
    BY <1>1, BoundsInitialized
  <2>2. /\ pos[p].lower \in UsableTicks /\ pos[p].upper \in UsableTicks
        /\ pos[p].lower \in Int /\ pos[p].upper \in Int
    BY PositionFacts
  <2>. QED  BY <2>1, <2>2
<1>2. ASSUME NEW p \in DOMAIN pos
      PROVE  (IF InRange(pos[p], s) THEN pos[p].liquidity ELSE 0)
                 = (IF InRange(pos[p], t) THEN pos[p].liquidity ELSE 0)
  <2>1. pos[p].liquidity \in Nat /\ pos[p].lower \in Int /\ pos[p].upper \in Int
    BY PositionFacts
  <2>2. CASE pos[p].liquidity > 0
    BY <1>1, <2>1, <2>2 DEF InRange
  <2>3. CASE pos[p].liquidity = 0
    BY <2>3
  <2>. QED  BY <2>1, <2>2, <2>3
<1>3. ASSUME NEW growth, NEW e, EarningsFit(pos, tks, t, growth, e),
             NEW p \in DOMAIN pos, pos[p].liquidity > 0, NEW g \in Growths
      PROVE  InsideOf(tks, pos[p], s, growth, g) = InsideOf(tks, pos[p], t, growth, g)
  <2>1. growth \in GrowthType
    BY <1>3 DEF EarningsFit
  <2>. QED  BY <1>1, <1>3, <2>1, InsideBetween
<1>. QED
  BY <1>2, <1>3 DEF Within, EarningsFit
\* The ticks of which one is crossed.
Flipped(tks, i, growth) == [tks EXCEPT ![i] = Crossed(@, growth)]

\* Between two ticks t and s there is one initialized tick, i.
OnlyBetween(tks, t, s, i) ==
    /\ i \in UsableTicks /\ tks[i].initialized
    /\ \A j \in UsableTicks : tks[j].initialized /\ j # i => (j <= t <=> j <= s)

LEMMA FlippedValues ==
  ASSUME NEW pos, NEW tks, TicksFit(pos, tks), NEW i \in UsableTicks, NEW growth \in GrowthType
  PROVE  /\ Flipped(tks, i, growth) \in [UsableTicks -> TickType]
         /\ \A t \in UsableTicks :
                /\ Flipped(tks, i, growth)[t].gross = tks[t].gross
                /\ Flipped(tks, i, growth)[t].net = tks[t].net
                /\ Flipped(tks, i, growth)[t].initialized = tks[t].initialized
                /\ t # i => Flipped(tks, i, growth)[t] = tks[t]
         /\ \A g \in Growths :
                Flipped(tks, i, growth)[i].outside[g] = WrappingSub(growth[g], tks[i].outside[g])
<1>1. tks \in [UsableTicks -> TickType] /\ tks[i] \in TickType
  BY DEF TicksFit
<1>. DEFINE o == [g \in Growths |-> WrappingSub(growth[g], tks[i].outside[g])]
            c == Crossed(tks[i], growth)
<1>2. o \in GrowthType /\ \A g \in Growths : o[g] = WrappingSub(growth[g], tks[i].outside[g])
  BY OutsideType, WrappingType DEF GrowthType
<1>3. c = [tks[i] EXCEPT !.outside = o]
  BY <1>1 DEF Crossed, TickType
<1>. HIDE DEF o, c
<1>4. /\ c \in TickType /\ c.gross = tks[i].gross /\ c.net = tks[i].net
      /\ c.initialized = tks[i].initialized /\ c.outside = o
  BY <1>1, <1>2, <1>3 DEF TickType
<1>5. Flipped(tks, i, growth) = [tks EXCEPT ![i] = c]
  BY DEF Flipped, c
<1>. QED
  BY <1>1, <1>2, <1>4, <1>5

LEMMA FlippedFits ==
  ASSUME NEW pos, NEW tks, TicksFit(pos, tks), NEW i \in UsableTicks, tks[i].initialized,
         NEW growth \in GrowthType
  PROVE  TicksFit(pos, Flipped(tks, i, growth))
<1>. DEFINE new == Flipped(tks, i, growth)
<1>1. /\ new \in [UsableTicks -> TickType]
      /\ \A t \in UsableTicks :
             /\ new[t].gross = tks[t].gross /\ new[t].net = tks[t].net
             /\ new[t].initialized = tks[t].initialized
             /\ t # i => new[t] = tks[t]
  BY FlippedValues
<1>. HIDE DEF new
<1>2. TicksFit(pos, new)
  BY <1>1 DEF TicksFit
<1>. QED
  BY <1>2 DEF new

\* Upwards over a tick the liquidity of the positions it is the lower bound of is added,
\* and that of the positions it is the upper bound of removed.
LEMMA CrossedLiquidity ==
  ASSUME NEW pos, PositionsFit(pos), NEW tks, TicksFit(pos, tks),
         NEW t \in Int, NEW s \in Int, NEW i, OnlyBetween(tks, t, s, i), t < i, i <= s
  PROVE  SumFunction(Within(pos, s)) = SumFunction(Within(pos, t)) + tks[i].net
<1>. DEFINE low == LowerAt(pos, i)  up == UpperAt(pos, i)
            old == Within(pos, t)   new == Within(pos, s)
            both == [p \in DOMAIN pos |-> old[p] + low[p]]
<1>0. i \in UsableTicks /\ i \in Int /\ tks[i].initialized /\ IsFiniteSet(DOMAIN pos)
  BY PoolConstants DEF OnlyBetween, PositionsFit
<1>1. /\ DOMAIN low = DOMAIN pos /\ DOMAIN up = DOMAIN pos /\ DOMAIN old = DOMAIN pos
      /\ DOMAIN new = DOMAIN pos /\ DOMAIN both = DOMAIN pos
  BY DEF LowerAt, UpperAt, Within
<1>2. ASSUME NEW p \in DOMAIN pos
      PROVE  /\ low[p] \in Int /\ up[p] \in Int /\ old[p] \in Int /\ new[p] \in Int
             /\ new[p] + up[p] = old[p] + low[p]
  <2>0. /\ pos[p].liquidity \in Nat /\ pos[p].lower \in Int /\ pos[p].upper \in Int
        /\ pos[p].lower < pos[p].upper /\ pos[p].lower \in UsableTicks /\ pos[p].upper \in UsableTicks
    BY PositionFacts
  <2>. DEFINE L == pos[p].liquidity  l == pos[p].lower  u == pos[p].upper
  <2>1. /\ low[p] = IF l = i THEN L ELSE 0
        /\ up[p] = IF u = i THEN L ELSE 0
        /\ old[p] = IF l <= t /\ t < u THEN L ELSE 0
        /\ new[p] = IF l <= s /\ s < u THEN L ELSE 0
    BY DEF LowerAt, UpperAt, Within, InRange
  <2>2. CASE L = 0
    BY <2>1, <2>2
  <2>3. CASE L > 0
    <3>1. tks[l].initialized /\ tks[u].initialized
      BY <2>3, BoundsInitialized
    <3>2. /\ l # i => (l <= t <=> l <= s)
          /\ u # i => (u <= t <=> u <= s)
      BY <2>0, <3>1 DEF OnlyBetween
    <3>. HIDE DEF L, l, u, low, up, old, new
    <3>3. L \in Nat /\ l \in Int /\ u \in Int /\ l < u
      BY <2>0 DEF L, l, u
    <3>. QED  BY <1>0, <2>1, <2>3, <3>2, <3>3
  <2>. QED  BY <2>0, <2>2, <2>3
<1>. HIDE DEF low, up, old, new
<1>3. SumFunction(both) = SumFunction(old) + SumFunction(low)
  <2>1. \A p \in DOMAIN both : old[p] \in Int /\ low[p] \in Int /\ both[p] = old[p] + low[p]
    BY <1>1, <1>2
  <2>. HIDE DEF both
  <2>. QED  BY <1>0, <1>1, <2>1, SumOfTwo
<1>4. SumFunction(both) = SumFunction(new) + SumFunction(up)
  <2>1. \A p \in DOMAIN both : new[p] \in Int /\ up[p] \in Int /\ both[p] = new[p] + up[p]
    BY <1>1, <1>2
  <2>. HIDE DEF both
  <2>. QED  BY <1>0, <1>1, <2>1, SumOfTwo
<1>5. /\ SumFunction(old) \in Nat /\ SumFunction(new) \in Nat
      /\ SumFunction(low) \in Nat /\ SumFunction(up) \in Nat
  BY WeightTypes DEF low, up, old, new
<1>6. tks[i].net = SumFunction(low) - SumFunction(up)
  BY <1>0 DEF TicksFit, low, up
<1>. HIDE DEF both
<1>7. SumFunction(new) = SumFunction(old) + tks[i].net
  BY <1>3, <1>4, <1>5, <1>6
<1>. QED
  BY <1>7 DEF old, new

\* What every range has earned stays the same when a tick is crossed, in either direction.
LEMMA CrossedEarnings ==
  ASSUME NEW pos, PositionsFit(pos), NEW tks, TicksFit(pos, tks),
         NEW t \in Int, NEW s \in Int, NEW i, OnlyBetween(tks, t, s, i), i <= t <=> s < i,
         NEW growth, NEW e, EarningsFit(pos, tks, t, growth, e)
  PROVE  EarningsFit(pos, Flipped(tks, i, growth), s, growth, e)
<1>. DEFINE new == Flipped(tks, i, growth)
<1>0. i \in UsableTicks /\ i \in Int /\ tks[i].initialized /\ growth \in GrowthType
  BY PoolConstants DEF OnlyBetween, EarningsFit
<1>1. TicksFit(pos, new)
  BY <1>0, FlippedFits
<1>2. /\ \A j \in UsableTicks : j # i => new[j] = tks[j]
      /\ \A g \in Growths : new[i].outside[g] = WrappingSub(growth[g], tks[i].outside[g])
  BY <1>0, FlippedValues
<1>. HIDE DEF new
<1>3. ASSUME NEW p \in DOMAIN pos, pos[p].liquidity > 0, NEW g \in Growths
      PROVE  InsideOf(new, pos[p], s, growth, g) = InsideOf(tks, pos[p], t, growth, g)
  <2>. DEFINE l == pos[p].lower  u == pos[p].upper
              a == tks[l].outside[g]  b == tks[u].outside[g]
              c == new[l].outside[g]  d == new[u].outside[g]
              x == growth[g]
  <2>0. l \in UsableTicks /\ u \in UsableTicks /\ l \in Int /\ u \in Int /\ l < u
    BY PositionFacts
  <2>1. InsideOf(tks, pos[p], t, growth, g) =
            IF t < l THEN WrappingSub(a, b)
            ELSE IF t < u THEN WrappingSub(WrappingSub(x, a), b) ELSE WrappingSub(b, a)
    BY <1>0, <1>3, InsideBetween
  <2>2. InsideOf(new, pos[p], s, growth, g) =
            IF s < l THEN WrappingSub(c, d)
            ELSE IF s < u THEN WrappingSub(WrappingSub(x, c), d) ELSE WrappingSub(d, c)
    BY <1>0, <1>1, <1>3, InsideBetween
  <2>3. a \in Word /\ b \in Word /\ x \in Word
    BY <1>0, <2>0, OutsideType DEF GrowthType
  <2>4. tks[l].initialized /\ tks[u].initialized
    BY <1>3, BoundsInitialized
  <2>5. /\ l # i => c = a /\ (l <= t <=> l <= s)
        /\ u # i => d = b /\ (u <= t <=> u <= s)
        /\ l = i => c = WrappingSub(x, a)
        /\ u = i => d = WrappingSub(x, b)
    BY <1>2, <2>0, <2>4 DEF OnlyBetween
  <2>. HIDE DEF l, u, a, b, c, d, x
  <2>6. /\ WrappingSub(x, WrappingSub(x, a)) = a
        /\ WrappingSub(x, WrappingSub(x, b)) = b
        /\ WrappingSub(WrappingSub(x, a), b) = WrappingSub(WrappingSub(x, b), a)
    BY <2>3, WrappingTwice, WrappingSwaps
  <2>7. CASE l = i
    <3>1. u # i /\ c = WrappingSub(x, a) /\ d = b /\ (u <= t <=> u <= s)
      BY <2>0, <2>5, <2>7
    <3>2. CASE i <= t
      \* downwards, out of the range
      <4>1. ~(t < l) /\ t < u /\ s < l
        BY <1>0, <2>0, <2>7, <3>1, <3>2
      <4>. QED  BY <2>1, <2>2, <3>1, <4>1
    <3>3. CASE t < i
      <4>1. t < l /\ ~(s < l) /\ s < u
        BY <1>0, <2>0, <2>7, <3>1, <3>3
      <4>. QED  BY <2>1, <2>2, <2>6, <3>1, <4>1
    <3>. QED  BY <1>0, <3>2, <3>3
  <2>8. CASE u = i
    <3>1. l # i /\ d = WrappingSub(x, b) /\ c = a /\ (l <= t <=> l <= s)
      BY <2>0, <2>5, <2>8
    <3>2. CASE i <= t
      \* downwards, into the range
      <4>1. ~(t < l) /\ ~(t < u) /\ ~(s < l) /\ s < u
        BY <1>0, <2>0, <2>8, <3>1, <3>2
      <4>2. WrappingSub(WrappingSub(x, a), WrappingSub(x, b)) = WrappingSub(b, a)
        BY <2>3, WrappingCancels
      <4>. QED  BY <2>1, <2>2, <3>1, <4>1, <4>2
    <3>3. CASE t < i
      <4>1. ~(t < l) /\ t < u /\ ~(s < l) /\ ~(s < u)
        BY <1>0, <2>0, <2>8, <3>1, <3>3
      <4>. QED  BY <2>1, <2>2, <2>6, <3>1, <4>1
    <3>. QED  BY <1>0, <3>2, <3>3
  <2>9. CASE l # i /\ u # i
    <3>1. c = a /\ d = b /\ (t < l <=> s < l) /\ (t < u <=> s < u)
      BY <2>0, <2>5, <2>9
    <3>. QED  BY <2>1, <2>2, <3>1
  <2>. QED  BY <2>7, <2>8, <2>9
<1>4. EarningsFit(pos, new, s, growth, e)
  BY <1>3 DEF EarningsFit
<1>. QED
  BY <1>4 DEF new
Grown(growth, g, d) == [growth EXCEPT ![g] = WrappingAdd(@, d)]

LEMMA GrownValues ==
  ASSUME NEW growth \in GrowthType, NEW g \in Growths, NEW d \in Word
  PROVE  /\ Grown(growth, g, d) \in GrowthType
         /\ Grown(growth, g, d)[g] = WrappingAdd(growth[g], d)
         /\ \A h \in Growths : h # g => Grown(growth, g, d)[h] = growth[h]
<1>1. growth[g] \in Word
  BY DEF GrowthType
<1>. DEFINE x == WrappingAdd(growth[g], d)
<1>2. x \in Word
  BY <1>1, WrappingType
<1>3. Grown(growth, g, d) = [growth EXCEPT ![g] = x]
  BY DEF Grown
<1>. HIDE DEF x
<1>4. /\ [growth EXCEPT ![g] = x] \in GrowthType /\ [growth EXCEPT ![g] = x][g] = x
      /\ \A h \in Growths : h # g => [growth EXCEPT ![g] = x][h] = growth[h]
  BY <1>2 DEF GrowthType
<1>. QED
  BY <1>3, <1>4 DEF x

\* What is paid per unit of the liquidity in range is earned by the ranges that the
\* current tick is in, and by no other.
LEMMA PaidIsEarned ==
  ASSUME PositionsFit(positions), NEW tks, TicksFit(positions, tks), NEW t \in Int,
         NEW growth, NEW e, EarningsFit(positions, tks, t, growth, e),
         NEW g \in Growths, NEW d \in Word
  PROVE  EarningsFit(positions, tks, t, Grown(growth, g, d), Earning(e, t, g, d))
<1>. DEFINE grown == Grown(growth, g, d)
            e2 == Earning(e, t, g, d)
            earns(p) == positions[p].liquidity > 0 /\ InRange(positions[p], t)
<1>0. growth \in GrowthType /\ e \in [DOMAIN positions -> GrowthType]
  BY DEF EarningsFit
<1>1. /\ grown \in GrowthType /\ grown[g] = WrappingAdd(growth[g], d)
      /\ \A h \in Growths : h # g => grown[h] = growth[h]
  BY <1>0, GrownValues
<1>2. e2 = [p \in DOMAIN positions |-> IF earns(p) THEN Grown(e[p], g, d) ELSE e[p]]
  BY <1>0 DEF Earning, Grown
<1>. HIDE DEF grown, earns, e2
<1>3. \A p \in DOMAIN positions : e[p] \in GrowthType /\ Grown(e[p], g, d) \in GrowthType
  BY <1>0, GrownValues
<1>4. e2 \in [DOMAIN positions -> GrowthType]
  BY <1>2, <1>3
<1>5. ASSUME NEW p \in DOMAIN positions, positions[p].liquidity > 0, NEW h \in Growths
      PROVE  WrappingSub(InsideOf(tks, positions[p], t, grown, h), positions[p].checkpoint[h])
                 = e2[p][h]
  <2>. DEFINE l == positions[p].lower  u == positions[p].upper
              a == tks[l].outside[h]  b == tks[u].outside[h]
              c == positions[p].checkpoint[h]
              x == growth[h]
              y == grown[h]
              before == InsideOf(tks, positions[p], t, growth, h)
              after == InsideOf(tks, positions[p], t, grown, h)
  <2>0. /\ l \in UsableTicks /\ u \in UsableTicks /\ l \in Int /\ u \in Int /\ l < u
        /\ positions[p].checkpoint \in GrowthType
    BY PositionFacts
  <2>1. before = IF t < l THEN WrappingSub(a, b)
                 ELSE IF t < u THEN WrappingSub(WrappingSub(x, a), b) ELSE WrappingSub(b, a)
    BY <1>0, <1>5, InsideBetween
  <2>2. after = IF t < l THEN WrappingSub(a, b)
                ELSE IF t < u THEN WrappingSub(WrappingSub(y, a), b) ELSE WrappingSub(b, a)
    BY <1>1, <1>5, InsideBetween
  <2>3. /\ a \in Word /\ b \in Word /\ x \in Word /\ c \in Word
        /\ before \in Word
    BY <1>0, <1>5, <2>0, OutsideType, InsideType DEF GrowthType
  <2>4. WrappingSub(before, c) = e[p][h]
    BY <1>5 DEF EarningsFit
  <2>5. e2[p] = IF earns(p) THEN Grown(e[p], g, d) ELSE e[p]
    BY <1>2
  <2>6. earns(p) <=> (l <= t /\ t < u)
    BY <1>5 DEF earns, InRange
  <2>. HIDE DEF l, u, a, b, c, x, y, before, after
  <2>7. CASE ~earns(p)
    <3>1. after = before
      BY <2>0, <2>1, <2>2, <2>6, <2>7
    <3>. QED  BY <2>4, <2>5, <2>7, <3>1 DEF after, c
  <2>8. CASE earns(p) /\ h # g
    <3>1. y = x
      BY <1>1, <2>8 DEF y, x
    <3>2. after = before
      BY <2>1, <2>2, <3>1
    <3>3. e2[p][h] = e[p][h]
      BY <1>3, <2>5, <2>8, <1>0, GrownValues
    <3>. QED  BY <2>4, <3>2, <3>3 DEF after, c
  <2>9. CASE earns(p) /\ h = g
    <3>1. y = WrappingAdd(x, d)
      BY <1>1, <2>9 DEF y, x
    <3>2. /\ before = WrappingSub(WrappingSub(x, a), b)
          /\ after = WrappingSub(WrappingSub(y, a), b)
      BY <2>0, <2>1, <2>2, <2>6, <2>9
    <3>3. WrappingSub(y, a) = WrappingAdd(WrappingSub(x, a), d) /\ WrappingSub(x, a) \in Word
      BY <2>3, <3>1, WrappingShift, WrappingType
    <3>4. after = WrappingAdd(before, d)
      BY <2>3, <3>2, <3>3, WrappingShift
    <3>5. WrappingSub(after, c) = WrappingAdd(WrappingSub(before, c), d)
      BY <2>3, <3>4, WrappingShift
    <3>6. e2[p][h] = WrappingAdd(e[p][h], d)
      BY <1>3, <2>5, <2>9, <1>0, GrownValues
    <3>. QED  BY <2>4, <3>5, <3>6 DEF after, c
  <2>. QED  BY <2>7, <2>8, <2>9
<1>6. EarningsFit(positions, tks, t, grown, e2)
  BY <1>1, <1>4, <1>5 DEF EarningsFit
<1>. QED
  BY <1>6 DEF grown, e2

-----------------------------------------------------------------------------
(* The loop of a swap *)

LEMMA TwoExtremes ==
  ASSUME NEW a \in Int, NEW b \in Int
  PROVE  /\ Max({a, b}) \in {a, b} /\ a <= Max({a, b}) /\ b <= Max({a, b})
         /\ Min({a, b}) \in {a, b} /\ Min({a, b}) <= a /\ Min({a, b}) <= b
<1>. DEFINE S == {a, b}
<1>1. IsFiniteSet(S) /\ S # {} /\ S \subseteq Int /\ a \in S /\ b \in S
  <2>1. IsFiniteSet({a} \cup {b})
    BY FS_Singleton, FS_AddElement
  <2>2. {a} \cup {b} = S
    OBVIOUS
  <2>. QED  BY <2>1, <2>2
<1>2. S = {a, b}
  OBVIOUS
<1>. HIDE DEF S
<1>3. /\ Max(S) \in S /\ \A y \in S : y <= Max(S)
      /\ Min(S) \in S /\ \A y \in S : Min(S) <= y
  BY <1>1, ExtremesExist
<1>. QED
  BY <1>1, <1>2, <1>3

SwapStateType ==
    [ok : BOOLEAN, remaining : 0..U64_MAX, calculated : Nat, price : Nat, tick : Int,
     liquidity : Nat, protocolFee : Nat, growth : GrowthType, ticks : [UsableTicks -> TickType],
     array : Nat \ {0}, earned : [DOMAIN positions -> GrowthType]]

\* What holds after each iteration.
SwapFits(s, limit, toQuote) ==
    /\ s \in SwapStateType
    /\ TicksFit(positions, s.ticks)
    /\ EarningsFit(positions, s.ticks, s.tick, s.growth, s.earned)
    /\ PriceFits(positions, s.tick, s.price, s.liquidity)
    /\ IF toQuote THEN limit <= s.price ELSE s.price <= limit

\* The tick that is next and the price the step aims at.
LEMMA NextTarget ==
  ASSUME NEW t \in Int, NEW price \in MIN_SQRT_PRICE..MAX_SQRT_PRICE, NEW toQuote \in BOOLEAN,
         MIN_TICK_INDEX - 1 <= t, t <= MAX_TICK_INDEX, MatchesTick(price, t),
         NEW limit \in MIN_SQRT_PRICE..MAX_SQRT_PRICE, price # limit,
         IF toQuote THEN limit <= price ELSE price <= limit,
         NEW i \in TickIndexes, IF toQuote THEN i <= t ELSE t < i
  PROVE  LET target == IF toQuote THEN Max({limit, TickPrice[i]}) ELSE Min({limit, TickPrice[i]})
         IN  /\ target \in Nat \ {0}
             /\ IF toQuote THEN target <= price /\ limit <= target /\ TickPrice[i] <= target
                ELSE price <= target /\ target <= limit /\ target <= TickPrice[i]
<1>. DEFINE P == TickPrice[i]
<1>0. /\ P \in Nat \ {0} /\ limit \in Nat \ {0} /\ price \in Nat
      /\ i \in Int /\ MIN_TICK_INDEX <= i /\ i <= MAX_TICK_INDEX
      /\ MIN_TICK_INDEX \in Int /\ MAX_TICK_INDEX \in Int
  BY PoolConstants, PriceRange
<1>1. CASE toQuote
  <2>1. t \in TickIndexes /\ TickPrice[t] <= price /\ TickPrice[t] \in Nat
    BY <1>0, <1>1, PoolConstants DEF MatchesTick
  <2>2. P <= TickPrice[t]
    <3>1. i < t => TickPrice[i] < TickPrice[t]
      BY <2>1, PricesRise
    <3>2. i < t \/ i = t
      BY <1>0, <1>1
    <3>. QED  BY <1>0, <2>1, <3>1, <3>2
  <2>3. P <= price
    BY <1>0, <2>1, <2>2
  <2>. HIDE DEF P
  <2>4. /\ Max({limit, P}) \in {limit, P} /\ limit <= Max({limit, P}) /\ P <= Max({limit, P})
    BY <1>0, TwoExtremes
  <2>5. /\ Max({limit, P}) \in Nat \ {0} /\ Max({limit, P}) <= price
    BY <1>0, <1>1, <2>3, <2>4
  <2>. QED  BY <1>1, <2>4, <2>5 DEF P
<1>2. CASE ~toQuote
  <2>1. t < MAX_TICK_INDEX
    BY <1>0, <1>2
  <2>2. t + 1 \in TickIndexes /\ price <= TickPrice[t + 1] /\ TickPrice[t + 1] \in Nat
    BY <1>0, <2>1, PoolConstants DEF MatchesTick
  <2>3. TickPrice[t + 1] <= P
    <3>. DEFINE u == t + 1
    <3>1. u \in TickIndexes /\ u \in Int /\ (u < i \/ u = i) /\ TickPrice[u] \in Nat
      BY <1>0, <1>2, <2>2
    <3>. HIDE DEF u
    <3>2. u < i => TickPrice[u] < TickPrice[i]
      BY <3>1, PricesRise
    <3>3. TickPrice[u] <= TickPrice[i]
      BY <1>0, <3>1, <3>2
    <3>. QED  BY <3>3 DEF u
  <2>4. price <= P
    BY <1>0, <2>2, <2>3
  <2>. HIDE DEF P
  <2>. DEFINE m == Min({limit, P})
  <2>5. m \in {limit, P} /\ m <= limit /\ m <= P
    <3>1. limit \in Int /\ P \in Int
      BY <1>0
    <3>. QED  BY <3>1, TwoExtremes
  <2>. HIDE DEF m
  <2>6. m \in Nat \ {0} /\ price <= m
    BY <1>0, <1>2, <2>4, <2>5
  <2>. QED  BY <1>2, <2>5, <2>6 DEF P, m
<1>. QED
  BY <1>1, <1>2

\* A price strictly between is at a tick between, from the next one on.
LEMMA TickBetween ==
  ASSUME NEW t \in Int, NEW price \in MIN_SQRT_PRICE..MAX_SQRT_PRICE, NEW toQuote \in BOOLEAN,
         MIN_TICK_INDEX - 1 <= t, t <= MAX_TICK_INDEX, MatchesTick(price, t),
         NEW i \in TickIndexes, NEW new \in MIN_SQRT_PRICE..MAX_SQRT_PRICE,
         IF toQuote THEN TickPrice[i] < new /\ new < price ELSE price < new /\ new < TickPrice[i]
  PROVE  /\ TickAt(new) \in TickIndexes /\ MatchesTick(new, TickAt(new))
         /\ IF toQuote THEN i <= TickAt(new) /\ TickAt(new) <= t ELSE t <= TickAt(new) /\ TickAt(new) < i
<1>. DEFINE j == TickAt(new)
<1>0. /\ TickPrice[i] \in Nat /\ price \in Nat /\ new \in Nat
      /\ i \in Int /\ MIN_TICK_INDEX <= i /\ i <= MAX_TICK_INDEX
      /\ MIN_TICK_INDEX \in Int /\ MAX_TICK_INDEX \in Int
  BY PoolConstants, PriceRange
<1>1. /\ j \in TickIndexes /\ TickPrice[j] <= new
      /\ j < MAX_TICK_INDEX => new < TickPrice[j + 1]
  BY TickAtMatches
<1>. HIDE DEF j
<1>2. j \in Int /\ MIN_TICK_INDEX <= j /\ j <= MAX_TICK_INDEX /\ TickPrice[j] \in Nat
  BY <1>1, PoolConstants
<1>3. j < MAX_TICK_INDEX => j + 1 \in TickIndexes /\ TickPrice[j + 1] \in Nat
  BY <1>2, PoolConstants
<1>4. MatchesTick(new, j)
  <2>1. j < MAX_TICK_INDEX => new <= TickPrice[j + 1]
    BY <1>0, <1>1, <1>3
  <2>. QED  BY <1>1, <2>1 DEF MatchesTick
\* The prices of ticks are in the order of the ticks.
<1>5. ASSUME NEW k \in TickIndexes, j < k PROVE new < TickPrice[k]
  <2>. DEFINE u == j + 1
  <2>1. k \in Int /\ j < MAX_TICK_INDEX /\ TickPrice[k] \in Nat
    BY <1>2, <1>5, PoolConstants
  <2>2. u \in TickIndexes /\ u \in Int /\ (u < k \/ u = k) /\ new < TickPrice[u] /\ TickPrice[u] \in Nat
    BY <1>1, <1>2, <1>3, <1>5, <2>1
  <2>. HIDE DEF u
  <2>3. u < k => TickPrice[u] < TickPrice[k]
    BY <2>2, PricesRise
  <2>. QED  BY <1>0, <2>1, <2>2, <2>3
<1>6. ASSUME NEW k \in TickIndexes, k <= j PROVE TickPrice[k] <= new
  <2>1. k \in Int /\ TickPrice[k] \in Nat
    BY PoolConstants
  <2>2. k < j => TickPrice[k] < TickPrice[j]
    BY <1>1, PricesRise
  <2>. QED  BY <1>0, <1>1, <1>2, <1>6, <2>1, <2>2
<1>7. CASE toQuote
  <2>1. i <= j
    <3>1. SUFFICES ASSUME j < i PROVE FALSE
      BY <1>0, <1>2
    <3>. QED  BY <1>0, <1>5, <1>7, <3>1
  <2>2. j <= t
    <3>1. SUFFICES ASSUME t < j PROVE FALSE
      BY <1>2
    <3>2. t < MAX_TICK_INDEX
      BY <1>0, <1>2, <3>1
    <3>3. t + 1 \in TickIndexes /\ price <= TickPrice[t + 1] /\ t + 1 <= j /\ TickPrice[t + 1] \in Nat
      BY <1>0, <1>2, <3>1, <3>2, PoolConstants DEF MatchesTick
    <3>4. TickPrice[t + 1] <= new
      BY <1>6, <3>3
    <3>. QED  BY <1>0, <1>7, <3>3, <3>4
  <2>. QED  BY <1>1, <1>4, <1>7, <2>1, <2>2 DEF j
<1>8. CASE ~toQuote
  <2>1. j < i
    <3>1. SUFFICES ASSUME i <= j PROVE FALSE
      BY <1>0, <1>2
    <3>2. TickPrice[i] <= new
      BY <1>6, <3>1
    <3>. QED  BY <1>0, <1>8, <3>2
  <2>2. t <= j
    <3>1. SUFFICES ASSUME j < t PROVE FALSE
      BY <1>2
    <3>2. t \in TickIndexes /\ TickPrice[t] <= price /\ TickPrice[t] \in Nat
      BY <1>0, <1>2, <3>1, PoolConstants DEF MatchesTick
    <3>3. new < TickPrice[t]
      BY <1>5, <3>1, <3>2
    <3>. QED  BY <1>0, <1>8, <3>2, <3>3
  <2>. QED  BY <1>1, <1>4, <1>8, <2>1, <2>2 DEF j
<1>. QED
  BY <1>7, <1>8
\* The fees of a step and its amounts have been taken, the tick has not been moved.
LEMMA PaidStep ==
  ASSUME amm \in AmmType, PositionsFit(positions), NEW s \in SwapStateType,
         TicksFit(positions, s.ticks),
         EarningsFit(positions, s.ticks, s.tick, s.growth, s.earned),
         NEW fee \in Nat, NEW input \in Growths,
         NEW remaining \in 0..U64_MAX, NEW calculated \in Nat, NEW price \in Nat
  PROVE  LET paid == [FeesTaken(s, fee, input) EXCEPT !.remaining = remaining,
                          !.calculated = calculated, !.price = price]
         IN  /\ paid \in SwapStateType
             /\ paid.ok = s.ok /\ paid.tick = s.tick /\ paid.price = price
             /\ paid.liquidity = s.liquidity /\ paid.ticks = s.ticks
             /\ EarningsFit(positions, s.ticks, s.tick, paid.growth, paid.earned)
<1>. DEFINE protocolFee == (fee * amm.protocolFeeRate) \div PROTOCOL_FEE_RATE_MUL_VALUE
            grown == IF s.liquidity = 0 THEN 0 ELSE ((fee - protocolFee) * ONE) \div s.liquidity
            d == grown % WORD
            total == s.protocolFee + protocolFee
            growth == Grown(s.growth, input, d)
            e == Earning(s.earned, s.tick, input, d)
            paid == [FeesTaken(s, fee, input) EXCEPT !.remaining = remaining,
                        !.calculated = calculated, !.price = price]
<1>1. s.liquidity \in Nat /\ s.protocolFee \in Nat /\ s.tick \in Int
  BY DEF SwapStateType
<1>2. protocolFee \in Nat
  <2>1. PROTOCOL_FEE_RATE_MUL_VALUE \in Nat \ {0} /\ amm.protocolFeeRate \in Nat
    BY LiquidityPoolAssumption DEF AmmType
  <2>. DEFINE n == fee * amm.protocolFeeRate
  <2>2. n \in Nat
    BY <2>1
  <2>. HIDE DEF n
  <2>3. n \div PROTOCOL_FEE_RATE_MUL_VALUE \in Nat
    BY <2>1, <2>2
  <2>. QED  BY <2>3 DEF n
<1>3. d \in Word
  <2>1. grown \in Int
    <3>1. CASE s.liquidity = 0
      BY <3>1
    <3>2. CASE s.liquidity # 0
      <4>. DEFINE n == (fee - protocolFee) * ONE
      <4>1. ONE \in Nat
        BY AmmMathAssumption
      <4>2. n \in Int
        <5>. HIDE DEF protocolFee
        <5>. QED  BY <1>2, <4>1
      <4>3. grown = n \div s.liquidity
        BY <3>2
      <4>. HIDE DEF n, grown
      <4>. QED  BY <1>1, <3>2, <4>2, <4>3
    <3>. QED  BY <3>1, <3>2
  <2>. HIDE DEF grown
  <2>. QED  BY <2>1, WordFacts DEF Word
<1>4. EarningsFit(positions, s.ticks, s.tick, growth, e)
  <2>. HIDE DEF d
  <2>. QED  BY <1>1, <1>3, PaidIsEarned
<1>5. FeesTaken(s, fee, input) = [s EXCEPT !.protocolFee = total, !.growth = growth, !.earned = e]
  BY DEF FeesTaken, Grown
<1>6. total \in Nat
  BY <1>1, <1>2
<1>. HIDE DEF total, growth, e, d, protocolFee, grown
<1>7. growth \in GrowthType /\ e \in [DOMAIN positions -> GrowthType]
  BY <1>4 DEF EarningsFit
<1>8. paid = [s EXCEPT !.protocolFee = total, !.growth = growth, !.earned = e,
                       !.remaining = remaining, !.calculated = calculated, !.price = price]
  BY <1>5 DEF SwapStateType
<1>. HIDE DEF paid
<1>9. /\ paid \in SwapStateType
      /\ paid.ok = s.ok /\ paid.tick = s.tick /\ paid.price = price
      /\ paid.liquidity = s.liquidity /\ paid.ticks = s.ticks
      /\ paid.growth = growth /\ paid.earned = e
  BY <1>6, <1>7, <1>8 DEF SwapStateType
<1>10. EarningsFit(positions, s.ticks, s.tick, paid.growth, paid.earned)
  BY <1>4, <1>9
<1>. QED
  BY <1>9, <1>10 DEF paid

\* The same step after the tick has been moved.
Moved(s, tick, array) == [s EXCEPT !.tick = tick, !.array = array]

LEMMA MovedStep ==
  ASSUME PositionsFit(positions), NEW s \in SwapStateType, TicksFit(positions, s.ticks),
         NEW t \in Int, NEW j \in Int, NEW array \in Nat \ {0},
         EarningsFit(positions, s.ticks, t, s.growth, s.earned),
         s.liquidity = SumFunction(Within(positions, t)),
         \A i \in UsableTicks : s.ticks[i].initialized => (i <= t <=> i <= j),
         MIN_TICK_INDEX - 1 <= j, j <= MAX_TICK_INDEX,
         s.price \in MIN_SQRT_PRICE..MAX_SQRT_PRICE, MatchesTick(s.price, j),
         NEW limit, NEW toQuote \in BOOLEAN,
         IF toQuote THEN limit <= s.price ELSE s.price <= limit
  PROVE  SwapFits(Moved(s, j, array), limit, toQuote) /\ Moved(s, j, array).ok = s.ok
<1>. DEFINE m == Moved(s, j, array)
<1>1. /\ m \in SwapStateType
      /\ m.ok = s.ok /\ m.tick = j /\ m.price = s.price /\ m.liquidity = s.liquidity
      /\ m.ticks = s.ticks /\ m.growth = s.growth /\ m.earned = s.earned
  BY DEF SwapStateType, Moved
<1>. HIDE DEF m
<1>2. /\ Within(positions, j) = Within(positions, t)
      /\ EarningsFit(positions, s.ticks, j, s.growth, s.earned)
  BY MoveBetweenTicks
<1>3. PriceFits(positions, j, s.price, s.liquidity)
  BY <1>2 DEF PriceFits
<1>4. SwapFits(m, limit, toQuote)
  BY <1>1, <1>2, <1>3 DEF SwapFits
<1>. QED
  BY <1>1, <1>4 DEF m
\* The price has reached a tick, and the pool moves to its other side.
LEMMA CrossStep ==
  ASSUME PositionsFit(positions), NEW s \in SwapStateType, s.ok, TicksFit(positions, s.ticks),
         EarningsFit(positions, s.ticks, s.tick, s.growth, s.earned),
         s.liquidity = SumFunction(Within(positions, s.tick)),
         NEW limit, NEW toQuote \in BOOLEAN,
         IF toQuote THEN limit <= s.price ELSE s.price <= limit,
         NEW starts, NEW next, next.array \in Nat \ {0}, next.index \in TickIndexes,
         s.price = TickPrice[next.index],
         NothingSkipped(s.ticks, s.tick, next.index, toQuote)
  PROVE  /\ Cross(s, starts, next, toQuote).ok \in BOOLEAN
         /\ Cross(s, starts, next, toQuote).ok => SwapFits(Cross(s, starts, next, toQuote), limit, toQuote)
<1>. DEFINE i == next.index
            k == IF toQuote THEN i - 1 ELSE i
            array == ArrayAfter(next.array, starts[next.array], i, toQuote)
            initialized == i \in DOMAIN s.ticks /\ s.ticks[i].initialized
            net == IF toQuote THEN -s.ticks[i].net ELSE s.ticks[i].net
            moved == Moved(s, k, array)
            crossed == [moved EXCEPT !.liquidity = @ + net, !.ticks = Flipped(s.ticks, i, s.growth)]
            result == Cross(s, starts, next, toQuote)
<1>0. /\ s.tick \in Int /\ s.price \in Nat /\ s.liquidity \in Nat /\ s.growth \in GrowthType
      /\ s.ticks \in [UsableTicks -> TickType] /\ s.ok \in BOOLEAN
      /\ i \in Int /\ MIN_TICK_INDEX <= i /\ i <= MAX_TICK_INDEX
      /\ MIN_TICK_INDEX \in Int /\ MAX_TICK_INDEX \in Int
      /\ \A j \in UsableTicks : j \in Int
  BY PoolConstants DEF SwapStateType
<1>1. result = IF ~initialized THEN moved
               ELSE IF s.liquidity + net < 0 THEN Failed(s) ELSE crossed
  BY DEF Cross, Moved, SwapStateType, Flipped
<1>2. array \in Nat \ {0}
  BY DEF ArrayAfter
<1>3. k \in Int /\ MIN_TICK_INDEX - 1 <= k /\ k <= MAX_TICK_INDEX
  BY <1>0
<1>. HIDE DEF array, initialized, net
<1>4. MatchesTick(s.price, k)
  <2>1. CASE toQuote
    <3>. DEFINE b == i - 1
    <3>1. b \in Int /\ k = b /\ b + 1 = i /\ (b >= MIN_TICK_INDEX => b \in TickIndexes /\ b < i)
      BY <1>0, <2>1, PoolConstants
    <3>. HIDE DEF b, k, i
    <3>2. b >= MIN_TICK_INDEX => TickPrice[b] <= s.price
      <4>1. SUFFICES ASSUME b >= MIN_TICK_INDEX PROVE TickPrice[b] <= s.price
        OBVIOUS
      <4>2. TickPrice[b] < TickPrice[i] /\ TickPrice[b] \in Nat
        BY <3>1, <4>1, PricesRise, PoolConstants DEF i
      <4>. QED  BY <1>0, <4>2 DEF i
    <3>3. s.price <= TickPrice[b + 1]
      BY <1>0, <3>1 DEF i
    <3>. QED  BY <3>1, <3>2, <3>3 DEF MatchesTick
  <2>2. CASE ~toQuote
    <3>1. k = i
      BY <2>2
    <3>2. i < MAX_TICK_INDEX => TickPrice[i] < TickPrice[i + 1] /\ TickPrice[i + 1] \in Nat
      BY <1>0, PoolConstants
    <3>3. TickPrice[i] = s.price
      OBVIOUS
    <3>. HIDE DEF k, i
    <3>. QED  BY <1>0, <3>1, <3>2, <3>3 DEF MatchesTick
  <2>. QED  BY <2>1, <2>2
<1>5. s.price \in MIN_SQRT_PRICE..MAX_SQRT_PRICE
  BY PriceRange
\* Only the tick that is crossed can be initialized on the way to its other side.
<1>6. \A j \in UsableTicks : s.ticks[j].initialized /\ j # i => (j <= s.tick <=> j <= k)
  <2>1. TAKE j \in UsableTicks
  <2>2. j \in Int
    BY <1>0
  <2>3. CASE toQuote
    <3>1. k = i - 1 /\ i <= s.tick /\ (i < j /\ j <= s.tick => ~s.ticks[j].initialized)
      BY <2>3 DEF NothingSkipped
    <3>. HIDE DEF k, i
    <3>. QED  BY <1>0, <2>2, <3>1
  <2>4. CASE ~toQuote
    <3>1. k = i /\ s.tick < i /\ (s.tick < j /\ j < i => ~s.ticks[j].initialized)
      BY <2>4 DEF NothingSkipped
    <3>. HIDE DEF k, i
    <3>. QED  BY <1>0, <2>2, <3>1
  <2>. QED  BY <2>3, <2>4
<1>7. IF toQuote THEN k < i /\ i <= s.tick ELSE s.tick < i /\ i <= k
  BY <1>0 DEF NothingSkipped
<1>. HIDE DEF k, i, result
<1>8. CASE ~initialized
  <2>1. \A j \in UsableTicks : s.ticks[j].initialized => (j <= s.tick <=> j <= k)
    BY <1>0, <1>6, <1>8 DEF initialized
  <2>2. SwapFits(moved, limit, toQuote) /\ moved.ok = s.ok
    <3>. HIDE DEF moved
    <3>. QED  BY <1>0, <1>2, <1>3, <1>4, <1>5, <2>1, MovedStep DEF moved
  <2>3. result = moved
    BY <1>1, <1>8
  <2>. HIDE DEF moved
  <2>4. result.ok \in BOOLEAN /\ (result.ok => SwapFits(result, limit, toQuote))
    BY <2>2, <2>3
  <2>. QED  BY <2>4 DEF result
<1>9. CASE initialized /\ s.liquidity + net < 0
  <2>1. result.ok = FALSE
    BY <1>1, <1>9 DEF Failed, SwapStateType
  <2>. QED  BY <2>1 DEF result
<1>10. CASE initialized /\ ~(s.liquidity + net < 0)
  <2>1. OnlyBetween(s.ticks, s.tick, k, i) /\ OnlyBetween(s.ticks, k, s.tick, i)
    BY <1>0, <1>6, <1>10 DEF OnlyBetween, initialized
  <2>2. s.ticks[i] \in TickType /\ i \in UsableTicks /\ s.ticks[i].initialized
    BY <1>0, <1>10 DEF initialized
  <2>3. s.ticks[i].net \in Int
    BY <2>2 DEF TickType
  <2>4. SumFunction(Within(positions, k)) \in Nat
    BY WeightTypes
  <2>5. SumFunction(Within(positions, k)) = s.liquidity + net
    <3>1. CASE toQuote
      <4>1. SumFunction(Within(positions, s.tick)) = SumFunction(Within(positions, k)) + s.ticks[i].net
        BY <1>0, <1>3, <1>7, <2>1, <3>1, CrossedLiquidity
      <4>2. net = -s.ticks[i].net
        BY <3>1 DEF net
      <4>. QED  BY <1>0, <2>3, <2>4, <4>1, <4>2
    <3>2. CASE ~toQuote
      <4>1. SumFunction(Within(positions, k)) = SumFunction(Within(positions, s.tick)) + s.ticks[i].net
        BY <1>0, <1>3, <1>7, <2>1, <3>2, CrossedLiquidity
      <4>2. net = s.ticks[i].net
        BY <3>2 DEF net
      <4>. QED  BY <4>1, <4>2
    <3>. QED  BY <3>1, <3>2
  <2>. DEFINE flipped == Flipped(s.ticks, i, s.growth)
              liquidity == s.liquidity + net
  <2>6. TicksFit(positions, flipped)
    BY <1>0, <2>2, FlippedFits
  <2>7. EarningsFit(positions, flipped, k, s.growth, s.earned)
    <3>1. i <= s.tick <=> k < i
      BY <1>0, <1>3, <1>7
    <3>. QED  BY <1>0, <1>3, <2>1, <3>1, CrossedEarnings
  <2>8. crossed = [Moved(s, k, array) EXCEPT !.liquidity = liquidity, !.ticks = flipped]
    BY DEF Moved, SwapStateType
  <2>9. flipped \in [UsableTicks -> TickType] /\ liquidity \in Nat
    BY <2>4, <2>5, <2>6 DEF TicksFit
  <2>10. PriceFits(positions, k, s.price, liquidity)
    BY <1>3, <1>4, <1>5, <2>5 DEF PriceFits
  <2>. HIDE DEF flipped, liquidity, crossed, moved
  <2>11. /\ crossed \in SwapStateType
         /\ crossed.ok = s.ok /\ crossed.tick = k /\ crossed.price = s.price
         /\ crossed.liquidity = liquidity /\ crossed.ticks = flipped
         /\ crossed.growth = s.growth /\ crossed.earned = s.earned
    BY <1>2, <1>3, <2>8, <2>9 DEF SwapStateType, Moved
  <2>12. SwapFits(crossed, limit, toQuote)
    BY <2>6, <2>7, <2>10, <2>11 DEF SwapFits
  <2>13. result = crossed
    BY <1>1, <1>10
  <2>14. result.ok \in BOOLEAN /\ (result.ok => SwapFits(result, limit, toQuote))
    BY <1>0, <2>11, <2>12, <2>13
  <2>. QED  BY <2>14 DEF result
<1>. QED
  BY <1>8, <1>9, <1>10

\* What a step pays in and out, and what has been computed when the price is at the new one.
Input(toQuote) == IF toQuote THEN "synthetic" ELSE "quote"
Left(s, step, exactIn) == s.remaining - (IF exactIn THEN step.in + step.fee ELSE step.out)
Counted(s, step, exactIn) == s.calculated + (IF exactIn THEN step.out ELSE step.in + step.fee)
Paid(s, step, exactIn, toQuote) ==
    [FeesTaken(s, step.fee, Input(toQuote)) EXCEPT
        !.remaining = Left(s, step, exactIn), !.calculated = Counted(s, step, exactIn),
        !.price = step.price]
Arrived(s, starts, next, step, exactIn, toQuote) ==
    LET paid == Paid(s, step, exactIn, toQuote)
    IN  IF step.price = TickPrice[next.index] THEN Cross(paid, starts, next, toQuote)
        ELSE IF step.price # s.price THEN [paid EXCEPT !.tick = TickAt(step.price)]
        ELSE paid

\* A step towards the next tick: no initialized tick is passed, and the new price is
\* between the old one and those of the tick and the limit.
Reaches(s, limit, exactIn, toQuote, next, step) ==
    /\ next.array \in Nat \ {0} /\ next.index \in TickIndexes
    /\ NothingSkipped(s.ticks, s.tick, next.index, toQuote)
    /\ step.in \in Nat /\ step.out \in Nat /\ step.fee \in Nat
    /\ Left(s, step, exactIn) \in 0..U64_MAX
    /\ step.price \in MIN_SQRT_PRICE..MAX_SQRT_PRICE /\ step.price \in Nat
    /\ IF toQuote THEN limit <= step.price /\ step.price <= s.price
                       /\ TickPrice[next.index] <= step.price
                  ELSE step.price <= limit /\ s.price <= step.price
                       /\ step.price <= TickPrice[next.index]
    /\ \E goal \in Nat \ {0} :
           /\ step = ComputeSwap(s.remaining, amm.feeRate, s.liquidity, s.price, goal, exactIn, toQuote)
           /\ step.ok /\ IF toQuote THEN goal <= s.price ELSE s.price <= goal
           /\ goal \in MIN_SQRT_PRICE..MAX_SQRT_PRICE

LEMMA StepEffect ==
  ASSUME amm \in AmmType, PositionsFit(positions), NEW starts, Len(starts) \in Nat, GoodStarts(starts),
         NEW limit \in MIN_SQRT_PRICE..MAX_SQRT_PRICE, NEW exactIn \in BOOLEAN, NEW toQuote \in BOOLEAN,
         NEW s, s.ok, SwapFits(s, limit, toQuote), s.price # limit
  PROVE  LET result == SwapStep(s, starts, limit, exactIn, toQuote)
         IN  \/ result = Failed(s)
             \/ \E next, step : /\ Reaches(s, limit, exactIn, toQuote, next, step)
                               /\ result = Arrived(s, starts, next, step, exactIn, toQuote)
<1>. DEFINE next   == NextInitializedTick(s.ticks, starts, s.array, s.tick, toQuote)
            target == IF toQuote THEN Max({limit, TickPrice[next.index]})
                                 ELSE Min({limit, TickPrice[next.index]})
            step   == ComputeSwap(s.remaining, amm.feeRate, s.liquidity, s.price, target, exactIn, toQuote)
            left == Left(s, step, exactIn)
            fails == next = NotFound \/ ~step.ok \/ left < 0 \/ Counted(s, step, exactIn) > U64_MAX
            result == SwapStep(s, starts, limit, exactIn, toQuote)
<1>1. result = IF fails THEN Failed(s) ELSE Arrived(s, starts, next, step, exactIn, toQuote)
  BY DEF SwapStep, Arrived, Paid, Left, Counted, Input
<1>2. /\ s \in SwapStateType /\ TicksFit(positions, s.ticks)
      /\ EarningsFit(positions, s.ticks, s.tick, s.growth, s.earned)
      /\ PriceFits(positions, s.tick, s.price, s.liquidity)
      /\ IF toQuote THEN limit <= s.price ELSE s.price <= limit
  BY DEF SwapFits
<1>3. /\ s.ok \in BOOLEAN /\ s.remaining \in 0..U64_MAX /\ s.calculated \in Nat
      /\ s.tick \in Int /\ s.liquidity \in Nat /\ s.array \in Nat \ {0}
      /\ s.ticks \in [UsableTicks -> TickType] /\ s.growth \in GrowthType
  BY <1>2 DEF SwapStateType
<1>4. /\ MIN_TICK_INDEX - 1 <= s.tick /\ s.tick <= MAX_TICK_INDEX
      /\ s.price \in MIN_SQRT_PRICE..MAX_SQRT_PRICE /\ MatchesTick(s.price, s.tick)
      /\ s.liquidity = SumFunction(Within(positions, s.tick))
  BY <1>2 DEF PriceFits
<1>5. /\ MIN_TICK_INDEX \in Int /\ MAX_TICK_INDEX \in Int /\ MIN_SQRT_PRICE \in Nat \ {0}
      /\ MAX_SQRT_PRICE \in Nat /\ TickPrice[MIN_TICK_INDEX] = MIN_SQRT_PRICE
      /\ TickPrice[MAX_TICK_INDEX] = MAX_SQRT_PRICE /\ s.price \in Nat \ {0}
      /\ MIN_TICK_INDEX < MAX_TICK_INDEX /\ U64_MAX \in Nat
  BY <1>4, PoolConstants, AmmMathAssumption
\* The price has not reached the end of the table that it moves to.
<1>6. IF toQuote THEN s.tick \in TickIndexes ELSE s.tick < MAX_TICK_INDEX
  <2>1. CASE toQuote
    <3>1. SUFFICES ASSUME s.tick < MIN_TICK_INDEX PROVE FALSE
      BY <1>3, <1>4, <2>1, PoolConstants
    <3>2. s.tick = MIN_TICK_INDEX - 1
      BY <1>3, <1>4, <1>5, <3>1
    <3>3. s.tick < MAX_TICK_INDEX /\ s.tick + 1 = MIN_TICK_INDEX
      <4>. DEFINE t == s.tick
      <4>1. t \in Int /\ t = MIN_TICK_INDEX - 1
        BY <1>3, <3>2
      <4>. HIDE DEF t
      <4>2. t < MAX_TICK_INDEX /\ t + 1 = MIN_TICK_INDEX
        BY ONLY <4>1, PoolConstants
      <4>. QED  BY <4>2 DEF t
    <3>4. s.price <= MIN_SQRT_PRICE
      <4>1. MatchesTick(s.price, s.tick) /\ TickPrice[MIN_TICK_INDEX] = MIN_SQRT_PRICE
        BY <1>4, <1>5
      <4>. QED  BY ONLY <3>3, <4>1 DEF MatchesTick
    <3>. QED  BY <1>2, <1>4, <1>5, <2>1, <3>4
  <2>2. CASE ~toQuote
    <3>1. SUFFICES ASSUME s.tick >= MAX_TICK_INDEX PROVE FALSE
      BY <1>3, <1>5, <2>2
    <3>2. s.tick = MAX_TICK_INDEX /\ s.tick >= MIN_TICK_INDEX
      BY <1>3, <1>4, <1>5, <3>1
    <3>3. MAX_SQRT_PRICE <= s.price
      BY <1>4, <1>5, <3>2 DEF MatchesTick
    <3>. QED  BY <1>2, <1>4, <1>5, <2>2, <3>3
  <2>. QED  BY <2>1, <2>2
<1>. HIDE DEF result
<1>7. CASE fails
  <2>1. result = Failed(s)
    BY <1>1, <1>7
  <2>. QED  BY <2>1 DEF result
<1>8. CASE ~fails
  <2>0. ~(left < 0)
    <3>. HIDE DEF left, step, next
    <3>. QED  BY <1>8
  <2>. HIDE DEF next
  <2>1. /\ next.array \in Nat \ {0} /\ next.index \in TickIndexes
        /\ NothingSkipped(s.ticks, s.tick, next.index, toQuote)
    <3>1. DOMAIN s.ticks = UsableTicks
      BY <1>3
    <3>2. next # NotFound
      BY <1>8
    <3>3. IF toQuote THEN s.tick \in TickIndexes
          ELSE s.tick >= MIN_TICK_INDEX - 1 /\ s.tick < MAX_TICK_INDEX
      BY <1>3, <1>4, <1>5, <1>6
    <3>. QED  BY <1>3, <3>1, <3>2, <3>3, NextTickEffect DEF next
  <2>2. IF toQuote THEN next.index <= s.tick ELSE s.tick < next.index
    <3>1. next.index \in Int
      BY <2>1, PoolConstants
    <3>. QED  BY <1>3, <2>1, <3>1 DEF NothingSkipped
  <2>3. /\ target \in Nat \ {0}
        /\ IF toQuote THEN target <= s.price /\ limit <= target /\ TickPrice[next.index] <= target
           ELSE s.price <= target /\ target <= limit /\ target <= TickPrice[next.index]
    BY <1>2, <1>3, <1>4, <2>1, <2>2, NextTarget
  <2>. HIDE DEF target
  <2>. DEFINE new == step.price
  <2>4. OnTheWay(new, s.price, target, toQuote) /\ step.in \in Nat /\ step.out \in Nat /\ step.fee \in Nat
    <3>1. step.ok
      BY <1>8
    <3>2. amm.feeRate \in 0..(FEE_RATE_MUL_VALUE - 1)
      BY DEF AmmType
    <3>3. IF toQuote THEN target <= s.price ELSE s.price <= target
      BY <2>3
    <3>. DEFINE remains == s.remaining  rate == amm.feeRate  liquidity == s.liquidity  price == s.price
                result3 == ComputeSwap(remains, rate, liquidity, price, target, exactIn, toQuote)
    <3>4. /\ remains \in 0..U64_MAX /\ rate \in 0..(FEE_RATE_MUL_VALUE - 1) /\ liquidity \in Nat
          /\ price \in Nat \ {0} /\ target \in Nat \ {0}
          /\ IF toQuote THEN target <= price ELSE price <= target
          /\ result3.ok
      BY <1>3, <1>5, <2>3, <3>1, <3>2, <3>3
    <3>. HIDE DEF remains, rate, liquidity, price
    <3>5. /\ OnTheWay(result3.price, price, target, toQuote)
          /\ result3.in \in Nat /\ result3.out \in Nat /\ result3.fee \in Nat
      BY <3>4, ComputeSwapEffect
    <3>6. step = result3 /\ price = s.price
      BY DEF remains, rate, liquidity, price
    <3>. HIDE DEF step, result3
    <3>. QED  BY <3>5, <3>6
  <2>. HIDE DEF step
  <2>5. /\ new \in MIN_SQRT_PRICE..MAX_SQRT_PRICE /\ new \in Nat
        /\ IF toQuote THEN limit <= new /\ new <= s.price /\ TickPrice[next.index] <= new
           ELSE new <= limit /\ s.price <= new /\ new <= TickPrice[next.index]
    <3>1. TickPrice[next.index] \in Nat /\ limit \in Nat
      BY <1>5, <2>1, PoolConstants
    <3>2. MIN_SQRT_PRICE <= limit /\ limit <= MAX_SQRT_PRICE /\ MIN_SQRT_PRICE <= s.price /\ s.price <= MAX_SQRT_PRICE
      BY <1>4
    <3>3. IF toQuote THEN target <= new /\ new <= s.price ELSE s.price <= new /\ new <= target
      BY <2>4 DEF OnTheWay
    <3>4. new \in Int
      BY <1>5, <2>3, <2>4 DEF OnTheWay
    <3>. HIDE DEF new
    <3>. QED  BY <1>5, <2>3, <3>1, <3>2, <3>3, <3>4
  <2>6. left \in 0..U64_MAX
    <3>1. left \in Int /\ left <= s.remaining
      BY <1>3, <2>4 DEF Left
    <3>. HIDE DEF left
    <3>. QED  BY <1>3, <1>5, <2>0, <3>1
  <2>7. \E goal \in Nat \ {0} :
            /\ step = ComputeSwap(s.remaining, amm.feeRate, s.liquidity, s.price, goal, exactIn, toQuote)
            /\ step.ok /\ IF toQuote THEN goal <= s.price ELSE s.price <= goal
            /\ goal \in MIN_SQRT_PRICE..MAX_SQRT_PRICE
    <3>1. step.ok
      BY <1>8
    <3>2. target \in MIN_SQRT_PRICE..MAX_SQRT_PRICE
      <4>1. MIN_SQRT_PRICE <= limit /\ limit <= MAX_SQRT_PRICE /\ limit \in Int
        BY <1>5
      <4>2. MIN_SQRT_PRICE <= s.price /\ s.price <= MAX_SQRT_PRICE
        BY <1>4
      <4>. QED  BY <1>5, <2>3, <4>1, <4>2
    <3>. QED  BY <2>3, <3>1, <3>2 DEF step
  <2>. DEFINE good == Reaches(s, limit, exactIn, toQuote, next, step)
              end == Arrived(s, starts, next, step, exactIn, toQuote)
  <2>8. good
    <3>. HIDE DEF step
    <3>. QED  BY <2>1, <2>4, <2>5, <2>6, <2>7 DEF Reaches
  <2>9. result = end
    BY <1>1, <1>8
  <2>. QED
    <3>. HIDE DEF step, next
    <3>. QED  BY <2>8, <2>9 DEF result
<1>. QED
  BY <1>7, <1>8

\* What has been paid is part of a state of the loop.
LEMMA PaidFits ==
  ASSUME amm \in AmmType, PositionsFit(positions), NEW limit, NEW exactIn \in BOOLEAN, NEW toQuote \in BOOLEAN,
         NEW s, SwapFits(s, limit, toQuote),
         NEW next, NEW step, Reaches(s, limit, exactIn, toQuote, next, step)
  PROVE  LET paid == Paid(s, step, exactIn, toQuote)
         IN  /\ paid \in SwapStateType
             /\ paid.ok = s.ok /\ paid.tick = s.tick /\ paid.price = step.price
             /\ paid.liquidity = s.liquidity /\ paid.ticks = s.ticks
             /\ EarningsFit(positions, s.ticks, s.tick, paid.growth, paid.earned)
<1>. DEFINE new == step.price
            input == Input(toQuote)
            remaining == Left(s, step, exactIn)
            calculated == Counted(s, step, exactIn)
            paid == Paid(s, step, exactIn, toQuote)
            fee == step.fee
            after == [FeesTaken(s, fee, input) EXCEPT !.remaining = remaining,
                          !.calculated = calculated, !.price = new]
<1>a. /\ s \in SwapStateType /\ TicksFit(positions, s.ticks)
      /\ EarningsFit(positions, s.ticks, s.tick, s.growth, s.earned)
  BY DEF SwapFits
<1>1. /\ step.in \in Nat /\ step.out \in Nat /\ fee \in Nat /\ remaining \in 0..U64_MAX /\ new \in Nat
  BY DEF Reaches
<1>2. calculated \in Nat
  BY <1>a, <1>1 DEF Counted, SwapStateType
<1>3. input \in Growths
  BY DEF Growths, Sides, Input
<1>4. /\ after \in SwapStateType
      /\ after.ok = s.ok /\ after.tick = s.tick /\ after.price = new
      /\ after.liquidity = s.liquidity /\ after.ticks = s.ticks
      /\ EarningsFit(positions, s.ticks, s.tick, after.growth, after.earned)
  <2>. HIDE DEF input, fee, new, remaining, calculated
  <2>. QED  BY <1>1, <1>2, <1>3, <1>a, PaidStep
<1>5. paid = after
  BY DEF Paid
<1>. HIDE DEF after, paid
<1>6. /\ paid \in SwapStateType
      /\ paid.ok = s.ok /\ paid.tick = s.tick /\ paid.price = new
      /\ paid.liquidity = s.liquidity /\ paid.ticks = s.ticks
      /\ EarningsFit(positions, s.ticks, s.tick, paid.growth, paid.earned)
  BY <1>4, <1>5
<1>. QED
  BY <1>6 DEF paid

\* Where the step leads to is a state of the loop again.
LEMMA ArrivedKeeps ==
  ASSUME amm \in AmmType, PositionsFit(positions), NEW starts,
         NEW limit \in MIN_SQRT_PRICE..MAX_SQRT_PRICE, NEW exactIn \in BOOLEAN, NEW toQuote \in BOOLEAN,
         NEW s, s.ok, SwapFits(s, limit, toQuote),
         NEW next, NEW step, Reaches(s, limit, exactIn, toQuote, next, step)
  PROVE  LET result == Arrived(s, starts, next, step, exactIn, toQuote)
         IN  result.ok \in BOOLEAN /\ (result.ok => SwapFits(result, limit, toQuote))
<1>. DEFINE new == step.price
            input == Input(toQuote)
            remaining == Left(s, step, exactIn)
            calculated == Counted(s, step, exactIn)
            paid == Paid(s, step, exactIn, toQuote)
            result == Arrived(s, starts, next, step, exactIn, toQuote)
<1>a. /\ s \in SwapStateType /\ TicksFit(positions, s.ticks)
      /\ EarningsFit(positions, s.ticks, s.tick, s.growth, s.earned)
      /\ PriceFits(positions, s.tick, s.price, s.liquidity)
      /\ IF toQuote THEN limit <= s.price ELSE s.price <= limit
  BY DEF SwapFits
<1>b. /\ s.ok \in BOOLEAN /\ s.remaining \in 0..U64_MAX /\ s.calculated \in Nat
      /\ s.tick \in Int /\ s.liquidity \in Nat /\ s.array \in Nat \ {0}
      /\ s.ticks \in [UsableTicks -> TickType] /\ s.growth \in GrowthType
  BY <1>a DEF SwapStateType
<1>c. /\ MIN_TICK_INDEX - 1 <= s.tick /\ s.tick <= MAX_TICK_INDEX
      /\ s.price \in MIN_SQRT_PRICE..MAX_SQRT_PRICE /\ MatchesTick(s.price, s.tick)
      /\ s.liquidity = SumFunction(Within(positions, s.tick))
  BY <1>a DEF PriceFits
<1>d. /\ MIN_TICK_INDEX \in Int /\ MAX_TICK_INDEX \in Int /\ MIN_SQRT_PRICE \in Nat \ {0}
      /\ MAX_SQRT_PRICE \in Nat /\ s.price \in Nat \ {0}
  BY <1>c, PoolConstants
<1>1. /\ next.array \in Nat \ {0} /\ next.index \in TickIndexes
      /\ NothingSkipped(s.ticks, s.tick, next.index, toQuote)
      /\ step.in \in Nat /\ step.out \in Nat /\ step.fee \in Nat /\ remaining \in 0..U64_MAX
  BY DEF Reaches
<1>5. /\ new \in MIN_SQRT_PRICE..MAX_SQRT_PRICE /\ new \in Nat
      /\ IF toQuote THEN limit <= new /\ new <= s.price /\ TickPrice[next.index] <= new
         ELSE new <= limit /\ s.price <= new /\ new <= TickPrice[next.index]
  BY DEF Reaches
<1>6. result = IF new = TickPrice[next.index] THEN Cross(paid, starts, next, toQuote)
               ELSE IF new # s.price THEN [paid EXCEPT !.tick = TickAt(new)]
               ELSE paid
  BY DEF Arrived
<1>7. /\ paid \in SwapStateType
      /\ paid.ok = s.ok /\ paid.tick = s.tick /\ paid.price = new
      /\ paid.liquidity = s.liquidity /\ paid.ticks = s.ticks
      /\ EarningsFit(positions, s.ticks, s.tick, paid.growth, paid.earned)
  <2>1. LET after == Paid(s, step, exactIn, toQuote)
        IN  /\ after \in SwapStateType
            /\ after.ok = s.ok /\ after.tick = s.tick /\ after.price = step.price
            /\ after.liquidity = s.liquidity /\ after.ticks = s.ticks
            /\ EarningsFit(positions, s.ticks, s.tick, after.growth, after.earned)
    BY PaidFits
  <2>. QED  BY <2>1
<1>. HIDE DEF paid, new, remaining, calculated, result
<1>8. /\ paid.ok /\ TicksFit(positions, paid.ticks)
      /\ EarningsFit(positions, paid.ticks, paid.tick, paid.growth, paid.earned)
      /\ paid.liquidity = SumFunction(Within(positions, paid.tick))
      /\ IF toQuote THEN limit <= paid.price ELSE paid.price <= limit
      /\ NothingSkipped(paid.ticks, paid.tick, next.index, toQuote)
  BY <1>a, <1>c, <1>1, <1>5, <1>7
<1>9. CASE new = TickPrice[next.index]
  <2>1. result = Cross(paid, starts, next, toQuote)
    BY <1>6, <1>9 DEF new
  <2>2. paid.price = TickPrice[next.index]
    BY <1>7, <1>9
  <2>3. /\ Cross(paid, starts, next, toQuote).ok \in BOOLEAN
        /\ Cross(paid, starts, next, toQuote).ok =>
               SwapFits(Cross(paid, starts, next, toQuote), limit, toQuote)
    BY <1>1, <1>7, <1>8, <2>2, CrossStep
  <2>. QED  BY <2>1, <2>3 DEF result
<1>10. CASE new # TickPrice[next.index] /\ new # s.price
  <2>. DEFINE j == TickAt(new)
  <2>1. TickPrice[next.index] \in Nat
    BY <1>1, PoolConstants
  <2>2. /\ j \in TickIndexes /\ MatchesTick(new, j)
        /\ IF toQuote THEN next.index <= j /\ j <= s.tick ELSE s.tick <= j /\ j < next.index
    <3>1. IF toQuote THEN TickPrice[next.index] < new /\ new < s.price
          ELSE s.price < new /\ new < TickPrice[next.index]
      BY <1>d, <1>5, <1>10, <2>1
    <3>. QED  BY <1>b, <1>c, <1>1, <1>5, <3>1, TickBetween
  <2>3. result = Moved(paid, j, paid.array)
    <3>1. result = [paid EXCEPT !.tick = j]
      BY <1>6, <1>10 DEF new
    <3>. HIDE DEF j
    <3>. QED  BY <1>7, <3>1 DEF Moved, SwapStateType
  <2>. HIDE DEF j
  <2>4. j \in Int /\ MIN_TICK_INDEX - 1 <= j /\ j <= MAX_TICK_INDEX
    BY <1>d, <2>2, PoolConstants
  <2>5. \A i \in UsableTicks : paid.ticks[i].initialized => (i <= paid.tick <=> i <= j)
    <3>1. TAKE i \in UsableTicks
    <3>2. i \in Int /\ next.index \in Int
      BY <1>1, PoolConstants
    <3>3. CASE toQuote
      <4>1. next.index <= j /\ j <= s.tick /\ (next.index < i /\ i <= s.tick => ~s.ticks[i].initialized)
        BY <1>1, <2>2, <3>3 DEF NothingSkipped
      <4>. QED  BY <1>b, <1>7, <2>4, <3>2, <4>1
    <3>4. CASE ~toQuote
      <4>1. s.tick <= j /\ j < next.index /\ (s.tick < i /\ i < next.index => ~s.ticks[i].initialized)
        BY <1>1, <2>2, <3>4 DEF NothingSkipped
      <4>. QED  BY <1>b, <1>7, <2>4, <3>2, <4>1
    <3>. QED  BY <3>3, <3>4
  <2>6. SwapFits(Moved(paid, j, paid.array), limit, toQuote) /\ Moved(paid, j, paid.array).ok = paid.ok
    <3>1. paid.array \in Nat \ {0} /\ paid.tick \in Int
      BY <1>7 DEF SwapStateType
    <3>2. paid.price \in MIN_SQRT_PRICE..MAX_SQRT_PRICE /\ MatchesTick(paid.price, j)
      BY <1>5, <1>7, <2>2
    <3>. QED  BY <1>7, <1>8, <2>4, <2>5, <3>1, <3>2, MovedStep
  <2>7. result.ok /\ SwapFits(result, limit, toQuote)
    BY <1>8, <2>3, <2>6
  <2>8. result.ok \in BOOLEAN
    BY <1>b, <1>7, <2>3, <2>6
  <2>. QED  BY <2>7, <2>8 DEF result
<1>11. CASE new # TickPrice[next.index] /\ new = s.price
  <2>1. result = paid
    BY <1>6, <1>11 DEF new
  <2>2. PriceFits(positions, paid.tick, paid.price, paid.liquidity)
    BY <1>a, <1>7, <1>11
  <2>3. SwapFits(paid, limit, toQuote)
    BY <1>7, <1>8, <2>2 DEF SwapFits
  <2>4. result.ok \in BOOLEAN /\ SwapFits(result, limit, toQuote)
    BY <1>b, <1>7, <2>1, <2>3
  <2>. QED  BY <2>4 DEF result
<1>. QED  BY <1>9, <1>10, <1>11

LEMMA SwapStepKeeps ==
  ASSUME amm \in AmmType, PositionsFit(positions), NEW starts, Len(starts) \in Nat, GoodStarts(starts),
         NEW limit \in MIN_SQRT_PRICE..MAX_SQRT_PRICE, NEW exactIn \in BOOLEAN, NEW toQuote \in BOOLEAN,
         NEW s, s.ok, SwapFits(s, limit, toQuote), s.price # limit
  PROVE  LET s2 == SwapStep(s, starts, limit, exactIn, toQuote)
         IN  s2.ok \in BOOLEAN /\ (s2.ok => SwapFits(s2, limit, toQuote))
<1>. DEFINE result == SwapStep(s, starts, limit, exactIn, toQuote)
<1>1. CASE result = Failed(s)
  <2>1. result.ok = FALSE
    BY <1>1 DEF SwapFits, Failed, SwapStateType
  <2>. HIDE DEF result
  <2>2. result.ok \in BOOLEAN /\ (result.ok => SwapFits(result, limit, toQuote))
    BY <2>1
  <2>. QED  BY <2>2 DEF result
<1>2. ASSUME NEW next, NEW step, Reaches(s, limit, exactIn, toQuote, next, step),
             result = Arrived(s, starts, next, step, exactIn, toQuote)
      PROVE  result.ok \in BOOLEAN /\ (result.ok => SwapFits(result, limit, toQuote))
  <2>. DEFINE after == Arrived(s, starts, next, step, exactIn, toQuote)
  <2>1. after.ok \in BOOLEAN /\ (after.ok => SwapFits(after, limit, toQuote))
    BY <1>2, ArrivedKeeps, Zenon
  <2>. HIDE DEF result, after
  <2>2. result = after
    BY <1>2 DEF after
  <2>. QED  BY ONLY <2>1, <2>2
<1>3. \/ result = Failed(s)
      \/ \E next, step : /\ Reaches(s, limit, exactIn, toQuote, next, step)
                        /\ result = Arrived(s, starts, next, step, exactIn, toQuote)
  BY StepEffect
<1>4. CASE \E next, step : /\ Reaches(s, limit, exactIn, toQuote, next, step)
                           /\ result = Arrived(s, starts, next, step, exactIn, toQuote)
  <2>1. PICK next, step : /\ Reaches(s, limit, exactIn, toQuote, next, step)
                          /\ result = Arrived(s, starts, next, step, exactIn, toQuote)
    BY <1>4
  <2>. HIDE DEF result
  <2>2. result.ok \in BOOLEAN /\ (result.ok => SwapFits(result, limit, toQuote))
    BY <1>2, <2>1
  <2>. QED  BY <2>2 DEF result
<1>. QED
  BY <1>1, <1>3, <1>4

\* Every iteration of the loop.
LEMMA SwapLoopKeeps ==
  ASSUME amm \in AmmType, PositionsFit(positions), NEW starts, Len(starts) \in Nat, GoodStarts(starts),
         NEW limit \in MIN_SQRT_PRICE..MAX_SQRT_PRICE, NEW exactIn \in BOOLEAN, NEW toQuote \in BOOLEAN,
         NEW s, s.ok \in BOOLEAN, s.ok => SwapFits(s, limit, toQuote)
  PROVE  LET s2 == SwapLoop(s, starts, limit, exactIn, toQuote)
         IN  s2.ok \in BOOLEAN /\ (s2.ok => SwapFits(s2, limit, toQuote))
<1>. DEFINE again == s.ok /\ s.remaining > 0 /\ s.price # limit
<1>1. CASE again
  <2>1. SwapLoop(s, starts, limit, exactIn, toQuote) = SwapStep(s, starts, limit, exactIn, toQuote)
    BY <1>1 DEF SwapLoop
  <2>2. s.ok /\ s.price # limit
    BY <1>1
  <2>. QED  BY <2>1, <2>2, SwapStepKeeps
<1>2. CASE ~again
  <2>1. SwapLoop(s, starts, limit, exactIn, toQuote) = s
    BY <1>2 DEF SwapLoop
  <2>. QED  BY <2>1
<1>. QED
  BY <1>1, <1>2
\* The states of the loop after each of n iterations.
IsRun(h, n, s, starts, limit, exactIn, toQuote) ==
    h = [k \in 0..n |-> IF k = 0 THEN s ELSE SwapLoop(h[k - 1], starts, limit, exactIn, toQuote)]

LEMMA RunExists ==
  ASSUME NEW s, NEW starts, NEW limit, NEW exactIn, NEW toQuote
  PROVE  \A n \in Nat : \E h : IsRun(h, n, s, starts, limit, exactIn, toQuote)
<1>. DEFINE Good == {n \in Nat : \E h : IsRun(h, n, s, starts, limit, exactIn, toQuote)}
            next(x) == SwapLoop(x, starts, limit, exactIn, toQuote)
<1>1. 0 \in Good
  <2>1. IsRun([k \in {0} |-> s], 0, s, starts, limit, exactIn, toQuote)
    BY DEF IsRun
  <2>. QED  BY <2>1
<1>2. ASSUME NEW n \in Nat, n \in Good PROVE n + 1 \in Good
  <2>1. PICK h : IsRun(h, n, s, starts, limit, exactIn, toQuote)
    BY <1>2
  <2>. DEFINE g == [k \in 0..(n + 1) |-> IF k = n + 1 THEN next(h[n]) ELSE h[k]]
  <2>2. h = [k \in 0..n |-> IF k = 0 THEN s ELSE next(h[k - 1])]
    BY <2>1 DEF IsRun
  <2>. HIDE DEF next
  <2>3. ASSUME NEW k \in 0..(n + 1) PROVE g[k] = IF k = 0 THEN s ELSE next(g[k - 1])
    BY <2>2
  <2>4. g = [k \in 0..(n + 1) |-> IF k = 0 THEN s ELSE next(g[k - 1])]
    <3>1. g = [k \in 0..(n + 1) |-> g[k]]
      OBVIOUS
    <3>. HIDE DEF g
    <3>. QED  BY <2>3, <3>1
  <2>5. IsRun(g, n + 1, s, starts, limit, exactIn, toQuote)
    <3>. HIDE DEF g
    <3>. QED  BY <2>4 DEF IsRun, next
  <2>. QED  BY <2>5
<1>. HIDE DEF Good
<1>3. Nat \subseteq Good
  BY <1>1, <1>2, NatInductionBySet
<1>. QED
  BY <1>3 DEF Good

LEMMA RunKeeps ==
  ASSUME amm \in AmmType, PositionsFit(positions), NEW starts, Len(starts) \in Nat, GoodStarts(starts),
         NEW limit \in MIN_SQRT_PRICE..MAX_SQRT_PRICE, NEW exactIn \in BOOLEAN, NEW toQuote \in BOOLEAN,
         NEW s, s.ok \in BOOLEAN, s.ok => SwapFits(s, limit, toQuote),
         NEW n \in Nat, NEW h, IsRun(h, n, s, starts, limit, exactIn, toQuote)
  PROVE  h[n].ok \in BOOLEAN /\ (h[n].ok => SwapFits(h[n], limit, toQuote))
<1>. DEFINE Kept(x) == x.ok \in BOOLEAN /\ (x.ok => SwapFits(x, limit, toQuote))
            next(x) == SwapLoop(x, starts, limit, exactIn, toQuote)
            Good == {k \in Nat : k <= n => Kept(h[k])}
<1>1. h = [k \in 0..n |-> IF k = 0 THEN s ELSE next(h[k - 1])]
  BY DEF IsRun
<1>2. ASSUME NEW x, Kept(x) PROVE Kept(next(x))
  BY <1>2, SwapLoopKeeps
<1>3. Kept(s)
  OBVIOUS
<1>. HIDE DEF Kept, next
<1>4. 0 \in Good
  <2>1. h[0] = s
    BY <1>1
  <2>. QED  BY <1>3, <2>1
<1>5. ASSUME NEW k \in Nat, k \in Good PROVE k + 1 \in Good
  <2>1. k + 1 <= n => h[k + 1] = next(h[k]) /\ k <= n
    BY <1>1
  <2>. QED  BY <1>2, <1>5, <2>1
<1>. HIDE DEF Good
<1>6. Nat \subseteq Good
  BY <1>4, <1>5, NatInductionBySet
<1>7. Kept(h[n])
  BY <1>6 DEF Good
<1>. QED
  BY <1>7 DEF Kept

\* What a swap leads to, if it succeeds.
LEMMA SwapResultKeeps ==
  ASSUME amm \in AmmType, PositionsFit(positions), NEW starts, Len(starts) \in Nat, GoodStarts(starts),
         NEW limit \in MIN_SQRT_PRICE..MAX_SQRT_PRICE, NEW exactIn \in BOOLEAN, NEW toQuote \in BOOLEAN,
         NEW amount, SwapFits(SwapStart(amount), limit, toQuote)
  PROVE  LET r == SwapResult(amount, starts, limit, exactIn, toQuote)
         IN  r.ok => SwapFits(r, limit, toQuote)
<1>. DEFINE s == SwapStart(amount)
            Is(h) == IsRun(h, MaxSteps, s, starts, limit, exactIn, toQuote)
            run == CHOOSE h : Is(h)
<1>1. MaxSteps \in Nat
  <2>1. Cardinality(TickIndexes) \in Nat
    BY PoolConstants, FS_CardinalityType
  <2>. QED  BY <2>1 DEF MaxSteps
<1>2. SwapResult(amount, starts, limit, exactIn, toQuote) = run[MaxSteps]
  BY DEF SwapResult, IsRun
<1>3. s.ok \in BOOLEAN /\ (s.ok => SwapFits(s, limit, toQuote))
  BY DEF SwapFits, SwapStateType
<1>. HIDE DEF s
<1>4. Is(run)
  <2>1. \E h : Is(h)
    BY <1>1, RunExists
  <2>. HIDE DEF Is
  <2>. QED  BY <2>1
<1>. HIDE DEF run
<1>5. run[MaxSteps].ok => SwapFits(run[MaxSteps], limit, toQuote)
  BY <1>1, <1>3, <1>4, RunKeeps
<1>. QED
  BY <1>2, <1>5
-----------------------------------------------------------------------------
(* Rewards up to now *)

LEMMA RewardGrowthType ==
  ASSUME PoolInv
  PROVE  RewardGrowth \in Word
<1>. DEFINE n == (now - amm.rewardsUpdatedAt) * amm.emissions
<1>1. amm.liquidity \in Nat /\ now - amm.rewardsUpdatedAt \in Nat /\ amm.emissions \in Nat
  BY DEF PoolInv, AmmType
<1>2. n \in Nat
  BY <1>1
<1>3. RewardGrowth = IF amm.liquidity = 0 THEN 0
                     ELSE IF n < WORD THEN n \div amm.liquidity ELSE 0
  BY DEF RewardGrowth
<1>. HIDE DEF n
<1>4. CASE amm.liquidity = 0
  BY <1>3, <1>4, WordFacts
<1>5. CASE amm.liquidity # 0
  <2>. DEFINE d == amm.liquidity  q == n \div d
  <2>1. d \in Nat \ {0}
    BY <1>1, <1>5
  <2>. HIDE DEF d
  <2>2. q \in Nat /\ q <= n
    BY <1>2, <2>1
  <2>. HIDE DEF q
  <2>3. RewardGrowth = IF n < WORD THEN q ELSE 0
    BY <1>3, <1>5 DEF q, d
  <2>. QED  BY <1>2, <2>2, <2>3, WordFacts DEF Word
<1>. QED
  BY <1>4, <1>5

\* With the rewards up to now, the earnings are still what the ranges have earned.
LEMMA NowFits ==
  ASSUME PoolInv
  PROVE  /\ EarningsFit(positions, ticks, amm.tick, GrowthNow, EarnedNow)
         /\ GrowthNow \in GrowthType /\ EarnedNow \in [DOMAIN positions -> GrowthType]
<1>1. /\ PositionsFit(positions) /\ TicksFit(positions, ticks) /\ amm.tick \in Int
      /\ EarningsFit(positions, ticks, amm.tick, amm.growth, earned)
  BY DEF PoolInv, AmmType
<1>2. "reward" \in Growths
  BY DEF Growths
<1>3. EarningsFit(positions, ticks, amm.tick, Grown(amm.growth, "reward", RewardGrowth),
                  Earning(earned, amm.tick, "reward", RewardGrowth))
  BY <1>1, <1>2, RewardGrowthType, PaidIsEarned
<1>4. EarningsFit(positions, ticks, amm.tick, GrowthNow, EarnedNow)
  BY <1>3 DEF GrowthNow, EarnedNow, Grown
<1>. QED
  BY <1>4 DEF EarningsFit

-----------------------------------------------------------------------------
(* The actions preserve the invariant *)

\* What a swap starts with: the tick arrays it is given and the price it may not pass.
StartsGiven(toQuote, arrays) == SubSeq(StartTickIndexes(toQuote), 1, arrays)
LimitOf(priceLimit, toQuote) == IF priceLimit # NoLimit THEN priceLimit
                                ELSE IF toQuote THEN MIN_SQRT_PRICE ELSE MAX_SQRT_PRICE

LEMMA SwapBegins ==
  ASSUME PoolInv, NEW amount \in SwapAmounts, NEW priceLimit \in PriceLimits \cup {NoLimit},
         NEW exactIn \in BOOLEAN, NEW toQuote \in BOOLEAN, NEW arrays \in ArrayCounts,
         Swap(amount, priceLimit, exactIn, toQuote, arrays)
  PROVE  /\ Len(StartsGiven(toQuote, arrays)) \in Nat /\ GoodStarts(StartsGiven(toQuote, arrays))
         /\ LimitOf(priceLimit, toQuote) \in MIN_SQRT_PRICE..MAX_SQRT_PRICE
         /\ SwapFits(SwapStart(amount), LimitOf(priceLimit, toQuote), toQuote)
<1>. DEFINE starts == StartsGiven(toQuote, arrays)
            limit  == LimitOf(priceLimit, toQuote)
            s == SwapStart(amount)
<1>1. /\ arrays <= Len(StartTickIndexes(toQuote))
      /\ IF toQuote THEN limit <= amm.sqrtPrice ELSE limit >= amm.sqrtPrice
  BY DEF Swap, LimitOf
<1>2. /\ amm \in AmmType /\ PositionsFit(positions) /\ TicksFit(positions, ticks)
      /\ PriceFits(positions, amm.tick, amm.sqrtPrice, amm.liquidity)
  BY DEF PoolInv
<1>3. Len(starts) \in Nat /\ GoodStarts(starts)
  <2>1. arrays \in Nat /\ amm.tick \in Int
    BY <1>2, LiquidityPoolAssumption DEF AmmType
  <2>. QED  BY <1>1, <2>1, StartsGood DEF StartsGiven
<1>4. limit \in MIN_SQRT_PRICE..MAX_SQRT_PRICE
  BY LiquidityPoolAssumption, AmmMathAssumption DEF LimitOf
<1>. HIDE DEF limit, starts
<1>5. SwapFits(s, limit, toQuote)
  <2>1. amount \in 0..U64_MAX
    BY LiquidityPoolAssumption
  <2>2. s = [ok |-> TRUE, remaining |-> amount, calculated |-> 0, price |-> amm.sqrtPrice,
             tick |-> amm.tick, liquidity |-> amm.liquidity, protocolFee |-> 0,
             growth |-> GrowthNow, ticks |-> ticks, array |-> 1, earned |-> EarnedNow]
    BY DEF SwapStart
  <2>3. /\ amm.sqrtPrice \in Nat /\ amm.tick \in Int /\ amm.liquidity \in Nat
        /\ ticks \in [UsableTicks -> TickType]
    BY <1>2 DEF AmmType, TicksFit
  <2>. HIDE DEF s
  <2>4. s \in SwapStateType
    BY <2>1, <2>2, <2>3, NowFits DEF SwapStateType
  <2>5. IF toQuote THEN limit <= s.price ELSE s.price <= limit
    <3>1. s.price = amm.sqrtPrice /\ limit \in Int
      BY <1>4, <2>2, AmmMathAssumption
    <3>. QED  BY <1>1, <2>3, <3>1
  <2>6. /\ TicksFit(positions, s.ticks)
        /\ EarningsFit(positions, s.ticks, s.tick, s.growth, s.earned)
        /\ PriceFits(positions, s.tick, s.price, s.liquidity)
    BY <1>2, <2>2, NowFits
  <2>. QED  BY <2>4, <2>5, <2>6 DEF SwapFits
<1>. QED
  BY <1>3, <1>4, <1>5 DEF starts, limit, s

LEMMA SwapKeeps ==
  ASSUME PoolInv, NEW amount \in SwapAmounts, NEW priceLimit \in PriceLimits \cup {NoLimit},
         NEW exactIn \in BOOLEAN, NEW toQuote \in BOOLEAN, NEW arrays \in ArrayCounts,
         Swap(amount, priceLimit, exactIn, toQuote, arrays)
  PROVE  PoolInv'
<1>. DEFINE starts == StartsGiven(toQuote, arrays)
            limit  == LimitOf(priceLimit, toQuote)
            input  == IF toQuote THEN "synthetic" ELSE "quote"
            r == SwapResult(amount, starts, limit, exactIn, toQuote)
            s == SwapStart(amount)
<1>1. /\ r.ok
      /\ amm' = [amm EXCEPT !.tick = r.tick, !.sqrtPrice = r.price, !.liquidity = r.liquidity,
                            !.growth = r.growth, !.rewardsUpdatedAt = now,
                            !.protocolFeeOwed[input] = @ + r.protocolFee]
      /\ ticks' = r.ticks /\ earned' = r.earned
      /\ UNCHANGED <<now, positions, rewardVault>>
  BY DEF Swap, StartsGiven, LimitOf
<1>2. /\ amm \in AmmType /\ PositionsFit(positions)
      /\ now \in Nat /\ rewardVault \in Nat /\ DOMAIN positions \subseteq Positions
  BY DEF PoolInv
<1>3. Len(starts) \in Nat /\ GoodStarts(starts)
  BY SwapBegins
<1>4. limit \in MIN_SQRT_PRICE..MAX_SQRT_PRICE
  BY SwapBegins
<1>5. SwapFits(s, limit, toQuote)
  BY SwapBegins
<1>. HIDE DEF limit, starts
<1>6. SwapFits(r, limit, toQuote)
  <2>1. r.ok => SwapFits(r, limit, toQuote)
    <3>. HIDE DEF r, s
    <3>. QED  BY <1>2, <1>3, <1>4, <1>5, SwapResultKeeps DEF r, s
  <2>. QED  BY <1>1, <2>1
<1>. HIDE DEF r, s
<1>7. /\ r \in SwapStateType /\ TicksFit(positions, r.ticks)
      /\ EarningsFit(positions, r.ticks, r.tick, r.growth, r.earned)
      /\ PriceFits(positions, r.tick, r.price, r.liquidity)
  BY <1>6 DEF SwapFits
<1>8. input \in Sides
  BY DEF Sides
<1>. HIDE DEF input
<1>9. /\ amm' \in AmmType /\ amm'.rewardsUpdatedAt = now
      /\ amm'.tick = r.tick /\ amm'.growth = r.growth /\ amm'.sqrtPrice = r.price
      /\ amm'.liquidity = r.liquidity
  <2>1. /\ r.tick \in Int /\ r.price \in Nat /\ r.liquidity \in Nat /\ r.growth \in GrowthType
        /\ r.protocolFee \in Nat
    BY <1>7 DEF SwapStateType
  <2>. DEFINE owed == [amm.protocolFeeOwed EXCEPT ![input] = @ + r.protocolFee]
  <2>2. owed \in [Sides -> Nat]
    BY <1>2, <1>8, <2>1 DEF AmmType
  <2>3. amm' = [amm EXCEPT !.tick = r.tick, !.sqrtPrice = r.price, !.liquidity = r.liquidity,
                           !.growth = r.growth, !.rewardsUpdatedAt = now, !.protocolFeeOwed = owed]
    BY <1>1, <1>2 DEF AmmType
  <2>. HIDE DEF owed
  <2>. QED  BY <1>2, <2>1, <2>2, <2>3 DEF AmmType
<1>10. now' = now /\ positions' = positions /\ rewardVault' = rewardVault
  BY <1>1
<1>. QED
  BY <1>1, <1>2, <1>7, <1>9, <1>10 DEF PoolInv
\* One position has more or less liquidity, in the same range.
Adjusted(pos, pos2, p, delta) ==
    /\ DOMAIN pos2 = DOMAIN pos
    /\ pos2[p].lower = pos[p].lower /\ pos2[p].upper = pos[p].upper
    /\ pos2[p].liquidity = pos[p].liquidity + delta
    /\ \A q \in DOMAIN pos : q # p => /\ pos2[q].lower = pos[q].lower /\ pos2[q].upper = pos[q].upper
                                      /\ pos2[q].liquidity = pos[q].liquidity

LEMMA AdjustedSums ==
  ASSUME NEW pos, NEW pos2, PositionsFit(pos), PositionsFit(pos2), NEW p \in DOMAIN pos,
         NEW delta \in Int, Adjusted(pos, pos2, p, delta), NEW t
  PROVE  /\ SumFunction(LowerAt(pos2, t)) =
                SumFunction(LowerAt(pos, t)) + (IF pos[p].lower = t THEN delta ELSE 0)
         /\ SumFunction(UpperAt(pos2, t)) =
                SumFunction(UpperAt(pos, t)) + (IF pos[p].upper = t THEN delta ELSE 0)
         /\ SumFunction(Within(pos2, t)) =
                SumFunction(Within(pos, t)) + (IF InRange(pos[p], t) THEN delta ELSE 0)
<1>1. /\ IsFiniteSet(DOMAIN pos) /\ DOMAIN pos2 = DOMAIN pos
      /\ \A q \in DOMAIN pos : pos[q].liquidity \in Nat /\ pos2[q].liquidity \in Nat
  BY PositionFacts DEF PositionsFit, Adjusted
<1>2. \A q \in DOMAIN pos : InRange(pos2[q], t) <=> InRange(pos[q], t)
  BY DEF Adjusted, InRange
<1>3. SumFunction(LowerAt(pos2, t)) =
          SumFunction(LowerAt(pos, t)) + (IF pos[p].lower = t THEN delta ELSE 0)
  <2>. DEFINE f == LowerAt(pos, t)  g == LowerAt(pos2, t)  d == IF pos[p].lower = t THEN delta ELSE 0
  <2>1. /\ DOMAIN f = DOMAIN pos /\ DOMAIN g = DOMAIN f
        /\ \A q \in DOMAIN f : f[q] \in Int /\ g[q] \in Int
        /\ \A q \in DOMAIN f : q # p => g[q] = f[q]
    BY <1>1 DEF LowerAt, Adjusted
  <2>2. g[p] = f[p] + d
    BY <1>1 DEF LowerAt, Adjusted
  <2>3. d \in Int
    OBVIOUS
  <2>. HIDE DEF f, g, d
  <2>4. SumFunction(f) \in Int /\ SumFunction(g) = SumFunction(f) - f[p] + g[p]
    BY <1>1, <2>1, SumUpdated
  <2>5. f[p] \in Int
    BY <2>1
  <2>6. SumFunction(g) = SumFunction(f) + d
    BY <2>2, <2>3, <2>4, <2>5
  <2>. QED  BY <2>6 DEF f, g, d
<1>4. SumFunction(UpperAt(pos2, t)) =
          SumFunction(UpperAt(pos, t)) + (IF pos[p].upper = t THEN delta ELSE 0)
  <2>. DEFINE f == UpperAt(pos, t)  g == UpperAt(pos2, t)  d == IF pos[p].upper = t THEN delta ELSE 0
  <2>1. /\ DOMAIN f = DOMAIN pos /\ DOMAIN g = DOMAIN f
        /\ \A q \in DOMAIN f : f[q] \in Int /\ g[q] \in Int
        /\ \A q \in DOMAIN f : q # p => g[q] = f[q]
    BY <1>1 DEF UpperAt, Adjusted
  <2>2. g[p] = f[p] + d
    BY <1>1 DEF UpperAt, Adjusted
  <2>3. d \in Int
    OBVIOUS
  <2>. HIDE DEF f, g, d
  <2>4. SumFunction(f) \in Int /\ SumFunction(g) = SumFunction(f) - f[p] + g[p]
    BY <1>1, <2>1, SumUpdated
  <2>5. f[p] \in Int
    BY <2>1
  <2>6. SumFunction(g) = SumFunction(f) + d
    BY <2>2, <2>3, <2>4, <2>5
  <2>. QED  BY <2>6 DEF f, g, d
<1>5. SumFunction(Within(pos2, t)) =
          SumFunction(Within(pos, t)) + (IF InRange(pos[p], t) THEN delta ELSE 0)
  <2>. DEFINE f == Within(pos, t)  g == Within(pos2, t)  d == IF InRange(pos[p], t) THEN delta ELSE 0
  <2>1. /\ DOMAIN f = DOMAIN pos /\ DOMAIN g = DOMAIN f
        /\ \A q \in DOMAIN f : f[q] \in Int /\ g[q] \in Int
        /\ \A q \in DOMAIN f : q # p => g[q] = f[q]
    BY <1>1, <1>2 DEF Within, Adjusted
  <2>2. g[p] = f[p] + d
    BY <1>1, <1>2 DEF Within, Adjusted
  <2>3. d \in Int
    OBVIOUS
  <2>. HIDE DEF f, g, d
  <2>4. SumFunction(f) \in Int /\ SumFunction(g) = SumFunction(f) - f[p] + g[p]
    BY <1>1, <2>1, SumUpdated
  <2>5. f[p] \in Int
    BY <2>1
  <2>6. SumFunction(g) = SumFunction(f) + d
    BY <2>2, <2>3, <2>4, <2>5
  <2>. QED  BY <2>6 DEF f, g, d
<1>. QED
  BY <1>3, <1>4, <1>5

\* With the same sums, ticks and price fit the positions as before.
LEMMA SameSums ==
  ASSUME NEW pos, NEW pos2,
         \A t : /\ SumFunction(LowerAt(pos2, t)) = SumFunction(LowerAt(pos, t))
                /\ SumFunction(UpperAt(pos2, t)) = SumFunction(UpperAt(pos, t))
                /\ SumFunction(Within(pos2, t)) = SumFunction(Within(pos, t))
  PROVE  /\ \A tks : TicksFit(pos, tks) => TicksFit(pos2, tks)
         /\ \A t, price, liquidity :
                PriceFits(pos, t, price, liquidity) => PriceFits(pos2, t, price, liquidity)
  BY DEF TicksFit, PriceFits

LEMMA AdjustedByNone ==
  ASSUME NEW pos, NEW pos2, PositionsFit(pos), PositionsFit(pos2), NEW p \in DOMAIN pos,
         Adjusted(pos, pos2, p, 0)
  PROVE  /\ \A tks : TicksFit(pos, tks) => TicksFit(pos2, tks)
         /\ \A t, price, liquidity :
                PriceFits(pos, t, price, liquidity) => PriceFits(pos2, t, price, liquidity)
<1>1. \A t : /\ SumFunction(LowerAt(pos2, t)) = SumFunction(LowerAt(pos, t))
             /\ SumFunction(UpperAt(pos2, t)) = SumFunction(UpperAt(pos, t))
             /\ SumFunction(Within(pos2, t)) = SumFunction(Within(pos, t))
  <2>1. TAKE t
  <2>. DEFINE zero == 0
  <2>2. Adjusted(pos, pos2, p, zero) /\ zero \in Int /\ zero = 0
    OBVIOUS
  <2>. HIDE DEF zero
  <2>3. /\ SumFunction(LowerAt(pos2, t)) =
                SumFunction(LowerAt(pos, t)) + (IF pos[p].lower = t THEN zero ELSE 0)
        /\ SumFunction(UpperAt(pos2, t)) =
                SumFunction(UpperAt(pos, t)) + (IF pos[p].upper = t THEN zero ELSE 0)
        /\ SumFunction(Within(pos2, t)) =
                SumFunction(Within(pos, t)) + (IF InRange(pos[p], t) THEN zero ELSE 0)
    BY <2>2, AdjustedSums
  <2>4. /\ SumFunction(Within(pos, t)) \in Nat
        /\ SumFunction(LowerAt(pos, t)) \in Nat
        /\ SumFunction(UpperAt(pos, t)) \in Nat
    BY WeightTypes
  <2>. QED  BY <2>2, <2>3, <2>4
<1>. QED
  BY <1>1, SameSums
LEMMA ReadType ==
  ASSUME NEW tick \in TickType, NEW x, NEW current, NEW growth \in GrowthType, NEW g \in Growths
  PROVE  Below(tick, x, current, growth, g) \in Word /\ Above(tick, x, current, growth, g) \in Word
<1>1. growth[g] \in Word /\ tick.outside[g] \in Word
  BY DEF GrowthType, TickType
<1>2. WrappingSub(growth[g], tick.outside[g]) \in Word
  BY <1>1, WrappingType
<1>. QED
  BY <1>1, <1>2, WordFacts DEF Below, Above

\* A position whose growths are brought up to date, with more or less liquidity.
LEMMA SettledFits ==
  ASSUME PoolInv, NEW p \in DOMAIN positions, NEW delta \in Int, positions[p].liquidity + delta >= 0
  PROVE  LET new == [positions EXCEPT ![p] = Settled(positions[p], delta)]
         IN  /\ PositionsFit(new) /\ Adjusted(positions, new, p, delta)
             /\ \A q \in DOMAIN positions : q # p => new[q] = positions[q]
             /\ \A g \in Growths : new[p].checkpoint[g] =
                    InsideOf(ticks, positions[p], amm.tick, GrowthNow, g)
<1>. DEFINE position == positions[p]
            inside == Inside(position.lower, position.upper, amm.tick, GrowthNow)
            owed == [g \in Growths |-> (position.owed[g]
                        + Accrued(position.liquidity, WrappingSub(inside[g], position.checkpoint[g])))
                            % (U64_MAX + 1)]
            settled == Settled(position, delta)
            new == [positions EXCEPT ![p] = settled]
<1>1. /\ PositionsFit(positions) /\ ticks \in [UsableTicks -> TickType] /\ GrowthNow \in GrowthType
  BY NowFits DEF PoolInv, TicksFit
<1>2. /\ position \in PositionType /\ position.lower \in UsableTicks /\ position.upper \in UsableTicks
      /\ position.liquidity \in Nat /\ position.checkpoint \in GrowthType
      /\ position.owed \in [Growths -> Nat]
  BY <1>1 DEF PositionsFit, PositionType
<1>3. \A g \in Growths : inside[g] = InsideOf(ticks, position, amm.tick, GrowthNow, g)
  BY DEF Inside, InsideOf
<1>4. ASSUME NEW g \in Growths PROVE inside[g] \in Word
  <2>. DEFINE below == Below(ticks[position.lower], position.lower, amm.tick, GrowthNow, g)
              above == Above(ticks[position.upper], position.upper, amm.tick, GrowthNow, g)
  <2>1. below \in Word /\ above \in Word /\ GrowthNow[g] \in Word
    <3>1. ticks[position.lower] \in TickType /\ ticks[position.upper] \in TickType
      BY <1>1, <1>2
    <3>. QED  BY <1>1, <3>1, ReadType DEF GrowthType
  <2>2. inside[g] = WrappingSub(WrappingSub(GrowthNow[g], below), above)
    BY DEF Inside
  <2>. HIDE DEF below, above, inside
  <2>. QED  BY <2>1, <2>2, WrappingType
<1>5. inside \in GrowthType
  <2>1. inside = [g \in Growths |-> inside[g]]
    BY DEF Inside
  <2>. HIDE DEF inside
  <2>. QED  BY <1>4, <2>1 DEF GrowthType
<1>6. owed \in [Growths -> Nat]
  <2>1. ASSUME NEW g \in Growths
        PROVE  (position.owed[g]
                   + Accrued(position.liquidity, WrappingSub(inside[g], position.checkpoint[g])))
                       % (U64_MAX + 1) \in Nat
    <3>. DEFINE w == WrappingSub(inside[g], position.checkpoint[g])
                accrued == Accrued(position.liquidity, w)
                x == position.liquidity * w
    <3>1. w \in Nat
      <4>1. inside[g] \in Word /\ position.checkpoint[g] \in Word
        BY <1>2, <1>4 DEF GrowthType
      <4>2. w \in Word
        <5>. HIDE DEF inside
        <5>. QED  BY <4>1, WrappingType
      <4>. HIDE DEF w
      <4>. QED  BY <4>2, WordFacts DEF Word
    <3>. HIDE DEF w
    <3>2. x \in Nat
      BY <1>2, <3>1
    <3>3. accrued = IF x < WORD THEN x \div ONE ELSE 0
      BY DEF Accrued
    <3>. HIDE DEF x, accrued
    <3>4. accrued \in Int
      BY <3>2, <3>3, AmmMathAssumption
    <3>5. (position.owed[g] + accrued) % (U64_MAX + 1) \in Nat
      <4>. DEFINE y == position.owed[g] + accrued  m == U64_MAX + 1
      <4>1. y \in Int /\ m \in Nat \ {0}
        BY <1>2, <3>4, AmmMathAssumption
      <4>. HIDE DEF y, m
      <4>2. y % m \in Nat
        BY <4>1
      <4>. QED  BY <4>2 DEF y, m
    <3>. QED  BY <3>5 DEF accrued, w
  <2>. HIDE DEF inside, position
  <2>. QED  BY <2>1
<1>7. settled = [position EXCEPT !.liquidity = position.liquidity + delta, !.checkpoint = inside, !.owed = owed]
  BY <1>2 DEF Settled, PositionType
<1>. HIDE DEF inside, owed, settled
<1>8. /\ settled \in PositionType /\ settled.lower = position.lower /\ settled.upper = position.upper
      /\ settled.liquidity = position.liquidity + delta /\ settled.checkpoint = inside
  <2>. DEFINE total == position.liquidity + delta
  <2>1. total \in Nat
    BY <1>2
  <2>2. settled = [position EXCEPT !.liquidity = total, !.checkpoint = inside, !.owed = owed]
    BY <1>7
  <2>3. total = position.liquidity + delta
    OBVIOUS
  <2>. HIDE DEF total, position
  <2>. QED  BY <1>2, <1>5, <1>6, <2>1, <2>2, <2>3 DEF PositionType
<1>9. /\ DOMAIN new = DOMAIN positions /\ new[p] = settled
      /\ \A q \in DOMAIN positions : q # p => new[q] = positions[q]
  BY <1>1 DEF PositionsFit
<1>10. new \in [DOMAIN positions -> PositionType]
  BY <1>1, <1>8 DEF PositionsFit
<1>. HIDE DEF new
<1>11. PositionsFit(new)
  BY <1>1, <1>8, <1>9, <1>10 DEF PositionsFit
<1>12. Adjusted(positions, new, p, delta)
  BY <1>8, <1>9 DEF Adjusted
<1>13. \A g \in Growths : new[p].checkpoint[g] = InsideOf(ticks, position, amm.tick, GrowthNow, g)
  BY <1>3, <1>8, <1>9
<1>. QED
  BY <1>9, <1>11, <1>12, <1>13 DEF new, settled, position
\* The earnings after the growths of one position have been brought up to date: the ticks
\* that are still initialized read the same as before.
LEMMA SettledEarnings ==
  ASSUME PoolInv, NEW p \in DOMAIN positions, NEW delta \in Int, positions[p].liquidity + delta >= 0,
         NEW tks, TicksFit([positions EXCEPT ![p] = Settled(positions[p], delta)], tks),
         \A x \in UsableTicks, g \in Growths : tks[x].initialized =>
             /\ Below(tks[x], x, amm.tick, GrowthNow, g) = Below(ticks[x], x, amm.tick, GrowthNow, g)
             /\ Above(tks[x], x, amm.tick, GrowthNow, g) = Above(ticks[x], x, amm.tick, GrowthNow, g)
  PROVE  EarningsFit([positions EXCEPT ![p] = Settled(positions[p], delta)], tks, amm.tick, GrowthNow,
                     [EarnedNow EXCEPT ![p] = NoGrowth])
<1>. DEFINE new == [positions EXCEPT ![p] = Settled(positions[p], delta)]
            e == [EarnedNow EXCEPT ![p] = NoGrowth]
            t == amm.tick
            growth == GrowthNow
<1>1. /\ PositionsFit(new) /\ DOMAIN new = DOMAIN positions
      /\ new[p].lower = positions[p].lower /\ new[p].upper = positions[p].upper
      /\ \A q \in DOMAIN positions : q # p => new[q] = positions[q]
      /\ \A g \in Growths : new[p].checkpoint[g] = InsideOf(ticks, positions[p], t, growth, g)
  BY SettledFits DEF Adjusted
<1>2. /\ growth \in GrowthType /\ EarnedNow \in [DOMAIN positions -> GrowthType]
      /\ EarningsFit(positions, ticks, t, growth, EarnedNow)
  BY NowFits
<1>3. NoGrowth \in GrowthType /\ \A g \in Growths : NoGrowth[g] = 0
  BY WordFacts DEF NoGrowth, GrowthType
<1>4. /\ e \in [DOMAIN new -> GrowthType] /\ e[p] = NoGrowth
      /\ \A q \in DOMAIN positions : q # p => e[q] = EarnedNow[q]
  BY <1>1, <1>2, <1>3
<1>. HIDE DEF new, e, t, growth
<1>5. ASSUME NEW q \in DOMAIN new, new[q].liquidity > 0, NEW g \in Growths
      PROVE  WrappingSub(InsideOf(tks, new[q], t, growth, g), new[q].checkpoint[g]) = e[q][g]
  <2>1. tks[new[q].lower].initialized /\ tks[new[q].upper].initialized
    BY <1>1, <1>5, BoundsInitialized DEF new
  <2>2. new[q].lower \in UsableTicks /\ new[q].upper \in UsableTicks
    BY <1>1, <1>5, PositionFacts
  <2>3. InsideOf(tks, new[q], t, growth, g) = InsideOf(ticks, new[q], t, growth, g)
    BY <2>1, <2>2 DEF InsideOf, t, growth
  <2>4. CASE q = p
    <3>1. InsideOf(ticks, new[p], t, growth, g) = InsideOf(ticks, positions[p], t, growth, g)
      BY <1>1 DEF InsideOf
    <3>2. new[p].checkpoint[g] \in Word
      BY <1>1, <2>4, PositionFacts DEF GrowthType
    <3>3. InsideOf(tks, new[q], t, growth, g) = new[p].checkpoint[g]
      BY <1>1, <2>3, <2>4, <3>1
    <3>. QED  BY <1>3, <1>4, <2>4, <3>2, <3>3, WrappingNeutral
  <2>5. CASE q # p
    <3>1. new[q] = positions[q] /\ e[q] = EarnedNow[q] /\ q \in DOMAIN positions
      BY <1>1, <1>4, <2>5
    <3>2. WrappingSub(InsideOf(ticks, positions[q], t, growth, g), positions[q].checkpoint[g])
              = EarnedNow[q][g]
      BY <1>2, <1>5, <3>1 DEF EarningsFit
    <3>. QED  BY <2>3, <3>1, <3>2
  <2>. QED  BY <2>4, <2>5
<1>6. EarningsFit(new, tks, t, growth, e)
  BY <1>2, <1>4, <1>5 DEF EarningsFit
<1>. QED
  BY <1>6 DEF new, e, t, growth

LEMMA UpdateKeeps ==
  ASSUME PoolInv, NEW p \in Positions, UpdateFeesAndRewards(p)
  PROVE  PoolInv'
<1>. DEFINE new == [positions EXCEPT ![p] = Settled(positions[p], 0)]
<1>1. /\ p \in DOMAIN positions /\ positions' = new
      /\ amm' = [amm EXCEPT !.growth = GrowthNow, !.rewardsUpdatedAt = now]
      /\ earned' = [EarnedNow EXCEPT ![p] = NoGrowth]
      /\ now' = now /\ ticks' = ticks /\ rewardVault' = rewardVault
  BY DEF UpdateFeesAndRewards
<1>2. /\ amm \in AmmType /\ PositionsFit(positions) /\ TicksFit(positions, ticks)
      /\ PriceFits(positions, amm.tick, amm.sqrtPrice, amm.liquidity)
      /\ now \in Nat /\ rewardVault \in Nat /\ DOMAIN positions \subseteq Positions
  BY DEF PoolInv
<1>3. p \in DOMAIN positions /\ positions[p].liquidity + 0 >= 0
  BY <1>1, <1>2, PositionFacts
<1>4. PositionsFit(new) /\ Adjusted(positions, new, p, 0)
  <2>. DEFINE none == 0
  <2>1. none \in Int /\ positions[p].liquidity + none >= 0
    BY <1>3
  <2>. HIDE DEF none
  <2>2. LET some == [positions EXCEPT ![p] = Settled(positions[p], none)]
        IN  PositionsFit(some) /\ Adjusted(positions, some, p, none)
    BY <1>3, <2>1, SettledFits
  <2>. QED  BY <2>2 DEF none
<1>5. TicksFit(new, ticks) /\ PriceFits(new, amm.tick, amm.sqrtPrice, amm.liquidity)
  <2>. HIDE DEF new
  <2>1. TicksFit(positions, ticks) => TicksFit(new, ticks)
    BY <1>2, <1>3, <1>4, AdjustedByNone
  <2>2. PriceFits(positions, amm.tick, amm.sqrtPrice, amm.liquidity)
            => PriceFits(new, amm.tick, amm.sqrtPrice, amm.liquidity)
    BY <1>2, <1>3, <1>4, AdjustedByNone
  <2>. QED  BY <1>2, <2>1, <2>2
<1>6. EarningsFit(new, ticks, amm.tick, GrowthNow, [EarnedNow EXCEPT ![p] = NoGrowth])
  BY <1>3, <1>5, SettledEarnings
<1>7. /\ amm' \in AmmType /\ amm'.rewardsUpdatedAt = now /\ amm'.growth = GrowthNow
      /\ amm'.tick = amm.tick /\ amm'.sqrtPrice = amm.sqrtPrice /\ amm'.liquidity = amm.liquidity
  BY <1>1, <1>2, NowFits DEF AmmType
<1>8. DOMAIN new = DOMAIN positions
  OBVIOUS
<1>. HIDE DEF new
<1>. QED
  BY <1>1, <1>2, <1>4, <1>5, <1>6, <1>7, <1>8 DEF PoolInv

\* Fees and rewards owed are paid to the owner: nothing else of the position changes.
LEMMA OwedKeeps ==
  ASSUME PoolInv, NEW p \in DOMAIN positions, NEW owed \in [Growths -> Nat],
         now' = now, amm' = amm, ticks' = ticks, earned' = earned, rewardVault' \in Nat,
         positions' = [positions EXCEPT ![p] = [positions[p] EXCEPT !.owed = owed]]
  PROVE  PoolInv'
<1>. DEFINE paid == [positions[p] EXCEPT !.owed = owed]
            new == [positions EXCEPT ![p] = paid]
<1>1. /\ amm \in AmmType /\ amm.rewardsUpdatedAt <= now
      /\ PositionsFit(positions) /\ TicksFit(positions, ticks)
      /\ EarningsFit(positions, ticks, amm.tick, amm.growth, earned)
      /\ PriceFits(positions, amm.tick, amm.sqrtPrice, amm.liquidity)
      /\ now \in Nat /\ DOMAIN positions \subseteq Positions
  BY DEF PoolInv
<1>2. positions[p] \in PositionType
  BY <1>1 DEF PositionsFit
<1>3. /\ paid \in PositionType /\ paid.lower = positions[p].lower /\ paid.upper = positions[p].upper
      /\ paid.liquidity = positions[p].liquidity /\ paid.checkpoint = positions[p].checkpoint
      /\ paid.liquidity \in Nat
  BY <1>2 DEF PositionType
<1>. HIDE DEF paid
<1>4. /\ DOMAIN new = DOMAIN positions /\ new \in [DOMAIN positions -> PositionType]
      /\ new[p] = paid /\ \A q \in DOMAIN positions : q # p => new[q] = positions[q]
  BY <1>1, <1>3 DEF PositionsFit
<1>. HIDE DEF new
<1>5. PositionsFit(new)
  BY <1>1, <1>3, <1>4 DEF PositionsFit
<1>6. Adjusted(positions, new, p, 0)
  BY <1>3, <1>4 DEF Adjusted
<1>7. TicksFit(new, ticks) /\ PriceFits(new, amm.tick, amm.sqrtPrice, amm.liquidity)
  BY <1>1, <1>5, <1>6, AdjustedByNone
<1>8. EarningsFit(new, ticks, amm.tick, amm.growth, earned)
  <2>1. ASSUME NEW q \in DOMAIN new
        PROVE  /\ new[q].liquidity = positions[q].liquidity
               /\ new[q].checkpoint = positions[q].checkpoint
               /\ new[q].lower = positions[q].lower /\ new[q].upper = positions[q].upper
    BY <1>3, <1>4
  <2>. QED  BY <1>1, <1>4, <2>1 DEF EarningsFit, InsideOf
<1>9. positions' = new
  BY DEF new, paid
<1>. QED
  BY <1>1, <1>4, <1>5, <1>7, <1>8, <1>9 DEF PoolInv

LEMMA CollectFeesKeeps ==
  ASSUME PoolInv, NEW p \in Positions, CollectFees(p)
  PROVE  PoolInv'
<1>. DEFINE owed == [positions[p].owed EXCEPT !["synthetic"] = 0, !["quote"] = 0]
<1>1. /\ p \in DOMAIN positions /\ now' = now /\ amm' = amm /\ ticks' = ticks /\ earned' = earned
      /\ rewardVault' = rewardVault /\ rewardVault \in Nat /\ PositionsFit(positions)
  BY DEF CollectFees, PoolInv
<1>2. positions[p] \in PositionType
  BY <1>1 DEF PositionsFit
<1>3. owed \in [Growths -> Nat]
  BY <1>2 DEF PositionType
<1>4. positions' = [positions EXCEPT ![p] = [positions[p] EXCEPT !.owed = owed]]
  BY <1>1, <1>2 DEF CollectFees, PositionType, PositionsFit
<1>. HIDE DEF owed
<1>. QED
  BY <1>1, <1>3, <1>4, OwedKeeps

LEMMA CollectRewardKeeps ==
  ASSUME PoolInv, NEW p \in Positions, CollectReward(p)
  PROVE  PoolInv'
<1>. DEFINE o == positions[p].owed["reward"]
            paid == IF o > rewardVault THEN rewardVault ELSE o
            rest == o - paid
            owed == [positions[p].owed EXCEPT !["reward"] = rest]
<1>1. /\ p \in DOMAIN positions /\ now' = now /\ amm' = amm /\ ticks' = ticks /\ earned' = earned
      /\ rewardVault' = rewardVault - paid /\ rewardVault \in Nat /\ PositionsFit(positions)
  BY DEF CollectReward, PoolInv
<1>2. positions[p] \in PositionType
  BY <1>1 DEF PositionsFit
<1>3. o \in Nat
  BY <1>2 DEF PositionType, Growths
<1>4. rest \in Nat /\ rewardVault' \in Nat
  <2>. HIDE DEF o
  <2>. QED  BY <1>1, <1>3
<1>5. positions' = [positions EXCEPT ![p].owed["reward"] = rest]
  BY DEF CollectReward
<1>. HIDE DEF rest
<1>6. owed \in [Growths -> Nat]
  BY <1>2, <1>4 DEF PositionType
<1>7. positions' = [positions EXCEPT ![p] = [positions[p] EXCEPT !.owed = owed]]
  BY <1>1, <1>2, <1>5 DEF PositionType, PositionsFit
<1>. HIDE DEF owed
<1>. QED
  BY <1>1, <1>4, <1>6, <1>7, OwedKeeps
\* A position without liquidity adds nothing.
LEMMA ExtendedByNone ==
  ASSUME NEW pos, NEW pos2, PositionsFit(pos), PositionsFit(pos2), NEW p, p \notin DOMAIN pos,
         DOMAIN pos2 = DOMAIN pos \cup {p}, \A q \in DOMAIN pos : pos2[q] = pos[q],
         pos2[p].liquidity = 0
  PROVE  \A t : /\ SumFunction(LowerAt(pos2, t)) = SumFunction(LowerAt(pos, t))
                /\ SumFunction(UpperAt(pos2, t)) = SumFunction(UpperAt(pos, t))
                /\ SumFunction(Within(pos2, t)) = SumFunction(Within(pos, t))
<1>1. TAKE t
<1>2. /\ IsFiniteSet(DOMAIN pos)
      /\ \A q \in DOMAIN pos2 : pos2[q].liquidity \in Nat
  BY PositionFacts DEF PositionsFit
<1>3. SumFunction(LowerAt(pos2, t)) = SumFunction(LowerAt(pos, t))
  <2>. DEFINE f == LowerAt(pos, t)  g == LowerAt(pos2, t)
  <2>1. /\ DOMAIN f = DOMAIN pos /\ DOMAIN g = DOMAIN f \cup {p} /\ g[p] = 0
        /\ \A q \in DOMAIN f : g[q] = f[q]
        /\ \A q \in DOMAIN g : g[q] \in Int
    BY <1>2 DEF LowerAt
  <2>. HIDE DEF f, g
  <2>2. SumFunction(f) \in Int /\ SumFunction(g) = SumFunction(f) + g[p]
    BY <1>2, <2>1, SumExtended
  <2>3. SumFunction(g) = SumFunction(f)
    BY <2>1, <2>2
  <2>. QED  BY <2>3 DEF f, g
<1>4. SumFunction(UpperAt(pos2, t)) = SumFunction(UpperAt(pos, t))
  <2>. DEFINE f == UpperAt(pos, t)  g == UpperAt(pos2, t)
  <2>1. /\ DOMAIN f = DOMAIN pos /\ DOMAIN g = DOMAIN f \cup {p} /\ g[p] = 0
        /\ \A q \in DOMAIN f : g[q] = f[q]
        /\ \A q \in DOMAIN g : g[q] \in Int
    BY <1>2 DEF UpperAt
  <2>. HIDE DEF f, g
  <2>2. SumFunction(f) \in Int /\ SumFunction(g) = SumFunction(f) + g[p]
    BY <1>2, <2>1, SumExtended
  <2>3. SumFunction(g) = SumFunction(f)
    BY <2>1, <2>2
  <2>. QED  BY <2>3 DEF f, g
<1>5. SumFunction(Within(pos2, t)) = SumFunction(Within(pos, t))
  <2>. DEFINE f == Within(pos, t)  g == Within(pos2, t)
  <2>1. /\ DOMAIN f = DOMAIN pos /\ DOMAIN g = DOMAIN f \cup {p} /\ g[p] = 0
        /\ \A q \in DOMAIN f : g[q] = f[q]
        /\ \A q \in DOMAIN g : g[q] \in Int
    BY <1>2 DEF Within
  <2>. HIDE DEF f, g
  <2>2. SumFunction(f) \in Int /\ SumFunction(g) = SumFunction(f) + g[p]
    BY <1>2, <2>1, SumExtended
  <2>3. SumFunction(g) = SumFunction(f)
    BY <2>1, <2>2
  <2>. QED  BY <2>3 DEF f, g
<1>. QED
  BY <1>3, <1>4, <1>5

LEMMA OpenKeeps ==
  ASSUME PoolInv, NEW p \in Positions, NEW range \in Ranges, OpenPosition(p, range)
  PROVE  PoolInv'
<1>. DEFINE opened == [lower |-> range[1], upper |-> range[2], liquidity |-> 0,
                       checkpoint |-> NoGrowth, owed |-> NoGrowth]
            new == [q \in DOMAIN positions \cup {p} |-> IF q # p THEN positions[q] ELSE opened]
            e == [q \in DOMAIN earned \cup {p} |-> IF q # p THEN earned[q] ELSE NoGrowth]
<1>1. /\ p \notin DOMAIN positions /\ positions' = new /\ earned' = e
      /\ now' = now /\ amm' = amm /\ ticks' = ticks /\ rewardVault' = rewardVault
  BY DEF OpenPosition
<1>2. /\ amm \in AmmType /\ amm.rewardsUpdatedAt <= now /\ now \in Nat /\ rewardVault \in Nat
      /\ PositionsFit(positions) /\ TicksFit(positions, ticks)
      /\ EarningsFit(positions, ticks, amm.tick, amm.growth, earned)
      /\ PriceFits(positions, amm.tick, amm.sqrtPrice, amm.liquidity)
      /\ DOMAIN positions \subseteq Positions
  BY DEF PoolInv
<1>3. NoGrowth \in GrowthType /\ NoGrowth \in [Growths -> Nat]
  BY WordFacts DEF NoGrowth, GrowthType
<1>4. /\ opened \in PositionType /\ opened.liquidity = 0 /\ opened.lower < opened.upper
  BY <1>3, LiquidityPoolAssumption DEF PositionType
<1>. HIDE DEF opened
<1>5. DOMAIN earned = DOMAIN positions /\ earned \in [DOMAIN positions -> GrowthType]
  BY <1>2 DEF EarningsFit
<1>6. /\ DOMAIN new = DOMAIN positions \cup {p} /\ new[p] = opened
      /\ \A q \in DOMAIN positions : new[q] = positions[q]
  BY <1>1
<1>7. new \in [DOMAIN positions \cup {p} -> PositionType]
  BY <1>2, <1>4 DEF PositionsFit
<1>8. e \in [DOMAIN positions \cup {p} -> GrowthType] /\ \A q \in DOMAIN positions : e[q] = earned[q]
  BY <1>1, <1>3, <1>5
<1>. HIDE DEF new, e
<1>9. PositionsFit(new)
  <2>1. IsFiniteSet(DOMAIN new)
    BY <1>2, <1>6, FS_AddElement DEF PositionsFit
  <2>. QED  BY <1>2, <1>4, <1>6, <1>7, <2>1 DEF PositionsFit
<1>10. TicksFit(new, ticks) /\ PriceFits(new, amm.tick, amm.sqrtPrice, amm.liquidity)
  <2>1. \A t : /\ SumFunction(LowerAt(new, t)) = SumFunction(LowerAt(positions, t))
               /\ SumFunction(UpperAt(new, t)) = SumFunction(UpperAt(positions, t))
               /\ SumFunction(Within(new, t)) = SumFunction(Within(positions, t))
    <3>1. new[p].liquidity = 0
      BY <1>4, <1>6
    <3>. QED  BY <1>1, <1>2, <1>6, <1>9, <3>1, ExtendedByNone
  <2>. QED  BY <1>2, <2>1, SameSums
<1>11. EarningsFit(new, ticks, amm.tick, amm.growth, e)
  <2>1. \A q \in DOMAIN new : new[q].liquidity > 0 => q \in DOMAIN positions /\ new[q] = positions[q] /\ e[q] = earned[q]
    BY <1>4, <1>6, <1>8
  <2>. QED  BY <1>2, <1>6, <1>8, <2>1 DEF EarningsFit
<1>. QED
  BY <1>1, <1>2, <1>6, <1>9, <1>10, <1>11 DEF PoolInv

LEMMA CloseKeeps ==
  ASSUME PoolInv, NEW p \in Positions, ClosePosition(p)
  PROVE  PoolInv'
<1>. DEFINE left == DOMAIN positions \ {p}
            new == [q \in left |-> positions[q]]
            e == [q \in left |-> earned[q]]
<1>2. /\ amm \in AmmType /\ amm.rewardsUpdatedAt <= now /\ now \in Nat /\ rewardVault \in Nat
      /\ PositionsFit(positions) /\ TicksFit(positions, ticks)
      /\ EarningsFit(positions, ticks, amm.tick, amm.growth, earned)
      /\ PriceFits(positions, amm.tick, amm.sqrtPrice, amm.liquidity)
      /\ DOMAIN positions \subseteq Positions
  BY DEF PoolInv
<1>3. DOMAIN earned = DOMAIN positions /\ earned \in [DOMAIN positions -> GrowthType]
  BY <1>2 DEF EarningsFit
<1>4. /\ p \in DOMAIN positions /\ positions[p].liquidity = 0
      /\ positions' = new /\ earned' = e
      /\ now' = now /\ amm' = amm /\ ticks' = ticks /\ rewardVault' = rewardVault
  BY <1>3 DEF ClosePosition, Restrict
<1>5. /\ DOMAIN new = left /\ \A q \in left : new[q] = positions[q] /\ e[q] = earned[q]
  OBVIOUS
<1>6. new \in [left -> PositionType] /\ e \in [left -> GrowthType]
  BY <1>2, <1>3 DEF PositionsFit
<1>7. left \cup {p} = DOMAIN positions /\ p \notin left /\ left \subseteq DOMAIN positions
  BY <1>4
<1>8. IsFiniteSet(left)
  BY <1>2, FS_RemoveElement DEF PositionsFit
<1>. HIDE DEF left, new, e
<1>9. PositionsFit(new)
  BY <1>2, <1>5, <1>6, <1>7, <1>8 DEF PositionsFit
<1>10. TicksFit(new, ticks) /\ PriceFits(new, amm.tick, amm.sqrtPrice, amm.liquidity)
  <2>1. \A t : /\ SumFunction(LowerAt(positions, t)) = SumFunction(LowerAt(new, t))
               /\ SumFunction(UpperAt(positions, t)) = SumFunction(UpperAt(new, t))
               /\ SumFunction(Within(positions, t)) = SumFunction(Within(new, t))
    <3>1. /\ DOMAIN positions = DOMAIN new \cup {p} /\ p \notin DOMAIN new
          /\ \A q \in DOMAIN new : positions[q] = new[q]
      BY <1>5, <1>7
    <3>. QED  BY <1>2, <1>4, <1>9, <3>1, ExtendedByNone
  <2>. QED  BY <1>2, <2>1, SameSums
<1>11. EarningsFit(new, ticks, amm.tick, amm.growth, e)
  BY <1>2, <1>5, <1>6, <1>7 DEF EarningsFit
<1>. QED
  BY <1>2, <1>4, <1>5, <1>7, <1>9, <1>10, <1>11 DEF PoolInv
\* A tick that stays or becomes initialized reads the same: as long as it was not, the
\* growth so far counts as growth below it.
LEMMA ModifiedReads ==
  ASSUME NEW tick \in TickType, tick.initialized <=> tick.gross > 0,
         NEW x \in Int, NEW current \in Int, NEW growth \in GrowthType, NEW delta \in Int, delta # 0,
         tick.gross + delta >= 0, NEW isUpper \in BOOLEAN
  PROVE  LET new == Modified(tick, x, current, growth, delta, isUpper)
         IN  /\ new \in TickType
             /\ new.gross = tick.gross + delta
             /\ tick.gross + delta > 0 =>
                    new.net = IF isUpper THEN tick.net - delta ELSE tick.net + delta
             /\ new.initialized <=> new.gross > 0
             /\ ~new.initialized => new = NewTick
             /\ new.initialized => \A g \in Growths :
                    /\ Below(new, x, current, growth, g) = Below(tick, x, current, growth, g)
                    /\ Above(new, x, current, growth, g) = Above(tick, x, current, growth, g)
<1>. DEFINE new == Modified(tick, x, current, growth, delta, isUpper)
            gross == tick.gross + delta
            net == IF isUpper THEN tick.net - delta ELSE tick.net + delta
            outside == IF tick.gross = 0 THEN InitialOutside(x, current, growth) ELSE tick.outside
<1>1. /\ tick.initialized \in BOOLEAN /\ tick.gross \in Nat /\ tick.net \in Int
      /\ tick.outside \in GrowthType
  BY DEF TickType
<1>2. gross \in Nat /\ net \in Int
  BY <1>1
<1>3. NoGrowth \in GrowthType /\ \A g \in Growths : NoGrowth[g] = 0
  BY WordFacts DEF NoGrowth, GrowthType
<1>4. outside \in GrowthType
  BY <1>1, <1>3 DEF InitialOutside
<1>5. NewTick \in TickType /\ NewTick.initialized = FALSE /\ NewTick.gross = 0
  BY <1>3 DEF NewTick, TickType
<1>6. new = IF gross = 0 THEN NewTick
            ELSE [initialized |-> TRUE, gross |-> gross, net |-> net, outside |-> outside]
  BY DEF Modified
<1>. HIDE DEF new, gross, net
<1>7. CASE gross = 0
  <2>1. new = NewTick
    BY <1>6, <1>7
  <2>2. /\ new \in TickType /\ new.gross = gross /\ ~(gross > 0)
        /\ new.initialized <=> new.gross > 0
        /\ ~new.initialized /\ new = NewTick
    BY <1>5, <1>7, <2>1
  <2>. QED  BY <2>2 DEF new, gross
<1>8. CASE gross # 0
  <2>1. new = [initialized |-> TRUE, gross |-> gross, net |-> net, outside |-> outside]
    BY <1>6, <1>8
  <2>2. /\ new.initialized = TRUE /\ new.gross = gross /\ new.net = net /\ new.outside = outside
        /\ gross > 0
    BY <1>2, <1>8, <2>1
  <2>3. new \in TickType
    <3>. HIDE DEF outside
    <3>. QED  BY <1>2, <1>4, <2>1 DEF TickType
  <2>4. ASSUME NEW g \in Growths
        PROVE  /\ Below(new, x, current, growth, g) = Below(tick, x, current, growth, g)
               /\ Above(new, x, current, growth, g) = Above(tick, x, current, growth, g)
    <3>. DEFINE a == growth[g]
    <3>0. a \in Word
      BY DEF GrowthType
    <3>1. CASE tick.gross = 0
      <4>1. /\ ~tick.initialized
            /\ outside[g] = IF current >= x THEN a ELSE 0
        BY <1>1, <1>3, <3>1 DEF InitialOutside
      <4>. HIDE DEF outside, a
      <4>2. /\ Below(tick, x, current, growth, g) = a /\ Above(tick, x, current, growth, g) = 0
        BY <4>1 DEF Below, Above, a
      <4>3. WrappingSub(a, 0) = a /\ WrappingSub(a, a) = 0
        BY <3>0, WrappingNeutral
      <4>4. /\ Below(new, x, current, growth, g) =
                   IF current < x THEN WrappingSub(a, outside[g]) ELSE outside[g]
            /\ Above(new, x, current, growth, g) =
                   IF current < x THEN outside[g] ELSE WrappingSub(a, outside[g])
        BY <2>2 DEF Below, Above, a
      <4>5. CASE current < x
        BY <4>1, <4>2, <4>3, <4>4, <4>5
      <4>6. CASE ~(current < x)
        BY <4>1, <4>2, <4>3, <4>4, <4>6
      <4>. QED  BY <4>5, <4>6
    <3>2. CASE tick.gross # 0
      <4>1. outside = tick.outside
        BY <3>2
      <4>2. tick.initialized = TRUE /\ new.initialized = TRUE /\ new.outside = tick.outside
        BY <1>1, <2>2, <3>2, <4>1
      <4>. QED  BY <4>2 DEF Below, Above
    <3>. QED  BY <3>1, <3>2
  <2>. HIDE DEF outside
  <2>. QED  BY <2>2, <2>3, <2>4 DEF new, gross, net
<1>. QED
  BY <1>7, <1>8
LEMMA ModifyKeeps ==
  ASSUME PoolInv, NEW p \in Positions, NEW delta \in Int, delta # 0, ModifyLiquidity(p, delta)
  PROVE  PoolInv'
<1>. DEFINE position == positions[p]
            l == position.lower
            u == position.upper
            new == [positions EXCEPT ![p] = Settled(positions[p], delta)]
            t == amm.tick
            growth == GrowthNow
            atLower == Modified(ticks[l], l, t, growth, delta, FALSE)
            atUpper == Modified(ticks[u], u, t, growth, delta, TRUE)
            tks == [ticks EXCEPT ![l] = atLower, ![u] = atUpper]
            liquidity == IF InRange(position, t) THEN amm.liquidity + delta ELSE amm.liquidity
            e == [EarnedNow EXCEPT ![p] = NoGrowth]
<1>1. /\ p \in DOMAIN positions /\ positions[p].liquidity + delta >= 0
      /\ positions' = new /\ ticks' = tks /\ earned' = e
      /\ amm' = [amm EXCEPT !.growth = growth, !.rewardsUpdatedAt = now, !.liquidity = liquidity]
      /\ now' = now /\ rewardVault' = rewardVault
  BY DEF ModifyLiquidity
<1>2. /\ amm \in AmmType /\ now \in Nat /\ rewardVault \in Nat
      /\ PositionsFit(positions) /\ TicksFit(positions, ticks)
      /\ PriceFits(positions, t, amm.sqrtPrice, amm.liquidity)
      /\ DOMAIN positions \subseteq Positions /\ t \in Int
  BY DEF PoolInv, AmmType
<1>3. growth \in GrowthType
  BY NowFits
<1>4. l \in UsableTicks /\ u \in UsableTicks /\ l \in Int /\ u \in Int /\ l < u
  BY <1>1, <1>2, PositionFacts
<1>5. PositionsFit(new) /\ Adjusted(positions, new, p, delta)
  BY <1>1, SettledFits
<1>6. DOMAIN new = DOMAIN positions
  BY <1>5 DEF Adjusted
<1>. HIDE DEF new, liquidity, growth, t
\* The sums at each tick before and after.
<1>. DEFINE L(x) == SumFunction(LowerAt(positions, x))
            U(x) == SumFunction(UpperAt(positions, x))
            L2(x) == SumFunction(LowerAt(new, x))
            U2(x) == SumFunction(UpperAt(new, x))
<1>7. ASSUME NEW x
      PROVE  /\ L(x) \in Nat /\ U(x) \in Nat /\ L2(x) \in Nat /\ U2(x) \in Nat
             /\ L2(x) = L(x) + (IF l = x THEN delta ELSE 0)
             /\ U2(x) = U(x) + (IF u = x THEN delta ELSE 0)
  BY <1>1, <1>2, <1>5, AdjustedSums, WeightTypes
<1>8. ASSUME NEW x \in UsableTicks
      PROVE  /\ ticks[x] \in TickType /\ ticks[x].gross = L(x) + U(x) /\ ticks[x].net = L(x) - U(x)
             /\ ticks[x].initialized <=> ticks[x].gross > 0
             /\ ~ticks[x].initialized => ticks[x] = NewTick
             /\ ticks[x].gross \in Nat /\ ticks[x].net \in Int
  <2>1. ticks[x] \in TickType
    BY <1>2 DEF TicksFit
  <2>2. ticks[x].gross \in Nat /\ ticks[x].net \in Int
    BY <2>1 DEF TickType
  <2>. QED  BY <1>2, <2>1, <2>2 DEF TicksFit
<1>. HIDE DEF l, u, atLower, atUpper, L, U, L2, U2, position
<1>. DEFINE Reads(tick, x) ==
                tick.initialized => \A g \in Growths :
                    /\ Below(tick, x, t, growth, g) = Below(ticks[x], x, t, growth, g)
                    /\ Above(tick, x, t, growth, g) = Above(ticks[x], x, t, growth, g)
            Fits(tick, x) ==
                /\ tick \in TickType /\ tick.gross = L2(x) + U2(x) /\ tick.net = L2(x) - U2(x)
                /\ tick.initialized <=> tick.gross > 0
                /\ ~tick.initialized => tick = NewTick
<1>9. Fits(atLower, l) /\ Reads(atLower, l)
  <2>1. L2(l) = L(l) + delta /\ U2(l) = U(l)
    BY <1>4, <1>7
  <2>2. L(l) \in Nat /\ U(l) \in Nat /\ L2(l) \in Nat /\ U2(l) \in Nat
    BY <1>7
  <2>3. /\ ticks[l] \in TickType /\ ticks[l].gross = L(l) + U(l) /\ ticks[l].net = L(l) - U(l)
        /\ ticks[l].initialized <=> ticks[l].gross > 0
    BY <1>4, <1>8
  <2>4. ticks[l].gross + delta = L2(l) + U2(l) /\ ticks[l].gross + delta >= 0
    BY <2>1, <2>2, <2>3
  <2>5. /\ atLower \in TickType
        /\ atLower.gross = ticks[l].gross + delta
        /\ ticks[l].gross + delta > 0 => atLower.net = ticks[l].net + delta
        /\ atLower.initialized <=> atLower.gross > 0
        /\ ~atLower.initialized => atLower = NewTick
        /\ Reads(atLower, l)
    <3>. DEFINE side == FALSE  tick == ticks[l]  after == Modified(tick, l, t, growth, delta, side)
    <3>0. side = FALSE
      OBVIOUS
    <3>1. side \in BOOLEAN
      OBVIOUS
    <3>. HIDE DEF side
    <3>2. /\ after \in TickType
          /\ after.gross = tick.gross + delta
          /\ tick.gross + delta > 0 =>
                 after.net = IF side THEN tick.net - delta ELSE tick.net + delta
          /\ after.initialized <=> after.gross > 0
          /\ ~after.initialized => after = NewTick
          /\ after.initialized => \A g \in Growths :
                 /\ Below(after, l, t, growth, g) = Below(tick, l, t, growth, g)
                 /\ Above(after, l, t, growth, g) = Above(tick, l, t, growth, g)
      BY <1>2, <1>3, <1>4, <2>3, <2>4, <3>1, ModifiedReads
    <3>3. after = atLower
      BY DEF atLower, side
    <3>. HIDE DEF after
    <3>. QED  BY <3>0, <3>2, <3>3
  <2>6. atLower.net = L2(l) - U2(l)
    <3>1. CASE ticks[l].gross + delta > 0
      BY <2>1, <2>2, <2>3, <2>5, <3>1
    <3>2. CASE ~(ticks[l].gross + delta > 0)
      <4>1. L2(l) = 0 /\ U2(l) = 0 /\ ~(atLower.gross > 0)
        BY <2>2, <2>4, <2>5, <3>2
      <4>2. atLower = NewTick
        BY <2>5, <4>1
      <4>. QED  BY <4>1, <4>2 DEF NewTick
    <3>. QED  BY <3>1, <3>2
  <2>. QED  BY <2>4, <2>5, <2>6
<1>10. Fits(atUpper, u) /\ Reads(atUpper, u)
  <2>1. U2(u) = U(u) + delta /\ L2(u) = L(u)
    BY <1>4, <1>7
  <2>2. L(u) \in Nat /\ U(u) \in Nat /\ L2(u) \in Nat /\ U2(u) \in Nat
    BY <1>7
  <2>3. /\ ticks[u] \in TickType /\ ticks[u].gross = L(u) + U(u) /\ ticks[u].net = L(u) - U(u)
        /\ ticks[u].initialized <=> ticks[u].gross > 0
    BY <1>4, <1>8
  <2>4. ticks[u].gross + delta = L2(u) + U2(u) /\ ticks[u].gross + delta >= 0
    BY <2>1, <2>2, <2>3
  <2>5. /\ atUpper \in TickType
        /\ atUpper.gross = ticks[u].gross + delta
        /\ ticks[u].gross + delta > 0 => atUpper.net = ticks[u].net - delta
        /\ atUpper.initialized <=> atUpper.gross > 0
        /\ ~atUpper.initialized => atUpper = NewTick
        /\ Reads(atUpper, u)
    <3>. DEFINE side == TRUE  tick == ticks[u]  after == Modified(tick, u, t, growth, delta, side)
    <3>0. side = TRUE
      OBVIOUS
    <3>1. side \in BOOLEAN
      OBVIOUS
    <3>. HIDE DEF side
    <3>2. /\ after \in TickType
          /\ after.gross = tick.gross + delta
          /\ tick.gross + delta > 0 =>
                 after.net = IF side THEN tick.net - delta ELSE tick.net + delta
          /\ after.initialized <=> after.gross > 0
          /\ ~after.initialized => after = NewTick
          /\ after.initialized => \A g \in Growths :
                 /\ Below(after, u, t, growth, g) = Below(tick, u, t, growth, g)
                 /\ Above(after, u, t, growth, g) = Above(tick, u, t, growth, g)
      BY <1>2, <1>3, <1>4, <2>3, <2>4, <3>1, ModifiedReads
    <3>3. after = atUpper
      BY DEF atUpper, side
    <3>. HIDE DEF after
    <3>. QED  BY <3>0, <3>2, <3>3
  <2>6. atUpper.net = L2(u) - U2(u)
    <3>1. CASE ticks[u].gross + delta > 0
      BY <2>1, <2>2, <2>3, <2>5, <3>1
    <3>2. CASE ~(ticks[u].gross + delta > 0)
      <4>1. L2(u) = 0 /\ U2(u) = 0 /\ ~(atUpper.gross > 0)
        BY <2>2, <2>4, <2>5, <3>2
      <4>2. atUpper = NewTick
        BY <2>5, <4>1
      <4>. QED  BY <4>1, <4>2 DEF NewTick
    <3>. QED  BY <3>1, <3>2
  <2>. QED  BY <2>4, <2>5, <2>6
<1>11. ASSUME NEW x \in UsableTicks, x # l, x # u
       PROVE  Fits(ticks[x], x) /\ Reads(ticks[x], x)
  <2>1. L2(x) = L(x) /\ U2(x) = U(x)
    BY <1>7, <1>11
  <2>. QED  BY <1>8, <2>1
<1>12. /\ DOMAIN tks = UsableTicks
       /\ \A x \in UsableTicks : tks[x] = IF x = u THEN atUpper ELSE IF x = l THEN atLower ELSE ticks[x]
  <2>1. DOMAIN ticks = UsableTicks
    BY <1>2 DEF TicksFit
  <2>. QED  BY <1>4, <2>1
<1>13. tks = [x \in UsableTicks |-> tks[x]]
  BY <1>12
<1>. HIDE DEF tks, Fits, Reads
<1>14. \A x \in UsableTicks : Fits(tks[x], x) /\ Reads(tks[x], x)
  BY <1>4, <1>9, <1>10, <1>11, <1>12
<1>15. TicksFit(new, tks)
  <2>1. tks \in [UsableTicks -> TickType]
    BY <1>13, <1>14 DEF Fits
  <2>. QED  BY <1>14, <2>1 DEF TicksFit, Fits, L2, U2
<1>16. EarningsFit(new, tks, t, growth, e)
  <2>1. \A x \in UsableTicks, g \in Growths : tks[x].initialized =>
             /\ Below(tks[x], x, amm.tick, GrowthNow, g) = Below(ticks[x], x, amm.tick, GrowthNow, g)
             /\ Above(tks[x], x, amm.tick, GrowthNow, g) = Above(ticks[x], x, amm.tick, GrowthNow, g)
    BY <1>14 DEF Reads, t, growth
  <2>. QED  BY <1>1, <1>15, <2>1, SettledEarnings DEF new, t, growth
<1>17. /\ liquidity = SumFunction(Within(new, t)) /\ liquidity \in Nat
  <2>1. amm.liquidity = SumFunction(Within(positions, t))
    BY <1>2 DEF PriceFits
  <2>2. /\ SumFunction(Within(new, t)) =
               SumFunction(Within(positions, t)) + (IF InRange(positions[p], t) THEN delta ELSE 0)
        /\ SumFunction(Within(new, t)) \in Nat /\ SumFunction(Within(positions, t)) \in Nat
    BY <1>1, <1>2, <1>5, AdjustedSums, WeightTypes
  <2>. QED  BY <2>1, <2>2 DEF liquidity, position
<1>18. PriceFits(new, t, amm.sqrtPrice, liquidity)
  BY <1>2, <1>17 DEF PriceFits
<1>19. /\ amm' \in AmmType /\ amm'.rewardsUpdatedAt = now /\ amm'.growth = growth
       /\ amm'.tick = t /\ amm'.sqrtPrice = amm.sqrtPrice /\ amm'.liquidity = liquidity
  BY <1>1, <1>2, <1>3, <1>17 DEF AmmType, t
<1>. HIDE DEF e
<1>. QED
  BY <1>1, <1>2, <1>5, <1>6, <1>15, <1>16, <1>18, <1>19 DEF PoolInv
LEMMA InitFits ==
  ASSUME Init
  PROVE  PoolInv
<1>. DEFINE t == TickAt(InitialPrice)
            feeRate == Min(FeeRates)
            protocolFeeRate == Min(ProtocolFeeRates)
            none == [s \in Sides |-> 0]
<1>1. /\ now = 0 /\ rewardVault = 0
      /\ amm = [tick |-> t, sqrtPrice |-> InitialPrice, liquidity |-> 0, growth |-> InitialGrowth,
                rewardsUpdatedAt |-> 0, emissions |-> 0, protocolFeeOwed |-> none,
                feeRate |-> feeRate, protocolFeeRate |-> protocolFeeRate]
      /\ ticks = [i \in UsableTicks |-> NewTick]
      /\ positions = [p \in {} |-> NoGrowth] /\ earned = [p \in {} |-> NoGrowth]
  BY DEF Init
<1>2. feeRate \in 0..(FEE_RATE_MUL_VALUE - 1)
  <2>. DEFINE first == 0  last == FEE_RATE_MUL_VALUE - 1
  <2>1. FeeRates \subseteq first..last /\ FeeRates # {} /\ first \in Int /\ last \in Int
    BY LiquidityPoolAssumption, AmmMathAssumption
  <2>2. first..last \subseteq Int
    BY <2>1
  <2>. HIDE DEF first, last
  <2>3. IsFiniteSet(FeeRates) /\ FeeRates \subseteq Int
    BY <2>1, <2>2, FS_Interval, FS_Subset
  <2>4. Min(FeeRates) \in FeeRates
    BY <2>1, <2>3, ExtremesExist
  <2>5. Min(FeeRates) \in first..last
    BY <2>1, <2>4
  <2>. QED  BY <2>5 DEF first, last
<1>3. protocolFeeRate \in 0..PROTOCOL_FEE_RATE_MUL_VALUE
  <2>. DEFINE first == 0  last == PROTOCOL_FEE_RATE_MUL_VALUE
  <2>1. ProtocolFeeRates \subseteq first..last /\ ProtocolFeeRates # {} /\ first \in Int /\ last \in Int
    BY LiquidityPoolAssumption
  <2>2. first..last \subseteq Int
    BY <2>1
  <2>. HIDE DEF first, last
  <2>3. IsFiniteSet(ProtocolFeeRates) /\ ProtocolFeeRates \subseteq Int
    BY <2>1, <2>2, FS_Interval, FS_Subset
  <2>4. Min(ProtocolFeeRates) \in ProtocolFeeRates
    BY <2>1, <2>3, ExtremesExist
  <2>5. Min(ProtocolFeeRates) \in first..last
    BY <2>1, <2>4
  <2>. QED  BY <2>5 DEF first, last
<1>4. InitialPrice \in MIN_SQRT_PRICE..MAX_SQRT_PRICE /\ InitialPrice \in Nat
  BY LiquidityPoolAssumption, AmmMathAssumption
<1>5. /\ t \in TickIndexes /\ TickPrice[t] <= InitialPrice
      /\ t < MAX_TICK_INDEX => InitialPrice < TickPrice[t + 1]
  BY <1>4, TickAtMatches
<1>. HIDE DEF t, feeRate, protocolFeeRate, none
<1>6. /\ t \in Int /\ MIN_TICK_INDEX - 1 <= t /\ t <= MAX_TICK_INDEX
  BY <1>5, PoolConstants
<1>7. MatchesTick(InitialPrice, t)
  <2>1. t < MAX_TICK_INDEX => InitialPrice <= TickPrice[t + 1]
    <3>1. SUFFICES ASSUME t < MAX_TICK_INDEX PROVE InitialPrice <= TickPrice[t + 1]
      OBVIOUS
    <3>2. t + 1 \in TickIndexes
      BY <1>5, <3>1, PoolConstants
    <3>3. TickPrice[t + 1] \in Nat
      BY <3>2, PoolConstants
    <3>. QED  BY <1>4, <1>5, <3>1, <3>3
  <2>. QED  BY <1>5, <2>1 DEF MatchesTick
<1>8. InitialGrowth \in GrowthType
  BY LiquidityPoolAssumption DEF GrowthType, Word
<1>9. amm \in AmmType /\ amm.rewardsUpdatedAt <= now /\ now \in Nat /\ rewardVault \in Nat
  BY <1>1, <1>2, <1>3, <1>4, <1>6, <1>8 DEF AmmType, none
<1>10. DOMAIN positions = {} /\ PositionsFit(positions)
  <2>1. DOMAIN positions = {}
    BY <1>1
  <2>. QED  BY <1>1, <2>1, FS_EmptySet DEF PositionsFit
<1>11. ASSUME NEW f, DOMAIN f = {} PROVE SumFunction(f) = 0
  BY <1>11, SumOfNone DEF SumFunction
<1>12. \A i : /\ SumFunction(LowerAt(positions, i)) = 0 /\ SumFunction(UpperAt(positions, i)) = 0
              /\ SumFunction(Within(positions, i)) = 0
  <2>1. TAKE i
  <2>2. DOMAIN LowerAt(positions, i) = {} /\ DOMAIN UpperAt(positions, i) = {} /\ DOMAIN Within(positions, i) = {}
    BY <1>10 DEF LowerAt, UpperAt, Within
  <2>. QED  BY <1>11, <2>2
<1>13. NewTick \in TickType /\ NewTick.gross = 0 /\ NewTick.net = 0 /\ ~NewTick.initialized
  BY WordFacts DEF NewTick, TickType, NoGrowth, GrowthType
<1>14. TicksFit(positions, ticks)
  <2>. HIDE DEF NewTick
  <2>1. ticks \in [UsableTicks -> TickType] /\ \A i \in UsableTicks : ticks[i] = NewTick
    BY <1>1, <1>13
  <2>. QED  BY <1>12, <1>13, <2>1 DEF TicksFit
<1>15. EarningsFit(positions, ticks, amm.tick, amm.growth, earned)
  <2>1. amm.growth = InitialGrowth /\ earned \in [{} -> GrowthType]
    BY <1>1
  <2>. QED  BY <1>8, <1>10, <2>1 DEF EarningsFit
<1>16. PriceFits(positions, amm.tick, amm.sqrtPrice, amm.liquidity)
  <2>1. amm.tick = t /\ amm.sqrtPrice = InitialPrice /\ amm.liquidity = 0
    BY <1>1
  <2>. QED  BY <1>4, <1>6, <1>7, <1>12, <2>1 DEF PriceFits
<1>. QED
  BY <1>9, <1>10, <1>14, <1>15, <1>16 DEF PoolInv

\* What only the authorities and the clock change.
LEMMA AmmKeeps ==
  ASSUME PoolInv, now' \in Nat, rewardVault' \in Nat, positions' = positions, ticks' = ticks,
         amm' \in AmmType, amm'.rewardsUpdatedAt <= now', amm'.tick = amm.tick,
         amm'.sqrtPrice = amm.sqrtPrice, amm'.liquidity = amm.liquidity,
         EarningsFit(positions, ticks, amm.tick, amm'.growth, earned')
  PROVE  PoolInv'
<1>1. EarningsFit(positions', ticks', amm'.tick, amm'.growth, earned')
  OBVIOUS
<1>2. /\ DOMAIN positions' \subseteq Positions /\ PositionsFit(positions') /\ TicksFit(positions', ticks')
      /\ PriceFits(positions', amm'.tick, amm'.sqrtPrice, amm'.liquidity)
  BY DEF PoolInv
<1>. QED
  BY <1>1, <1>2 DEF PoolInv

LEMMA OthersKeep ==
  ASSUME PoolInv,
         \/ Tick
         \/ CollectProtocolFees
         \/ \E emissions \in Emissions : SetRewardEmissions(emissions)
         \/ \E amount \in RewardFunds : FundReward(amount)
         \/ \E rate \in FeeRates : SetFeeRate(rate)
         \/ \E rate \in ProtocolFeeRates : SetProtocolFeeRate(rate)
  PROVE  PoolInv'
<1>1. /\ amm \in AmmType /\ amm.rewardsUpdatedAt <= now /\ now \in Nat /\ rewardVault \in Nat
      /\ EarningsFit(positions, ticks, amm.tick, amm.growth, earned)
      /\ amm.rewardsUpdatedAt \in Nat
  BY DEF PoolInv, AmmType
<1>2. CASE Tick
  BY <1>1, <1>2, AmmKeeps DEF Tick
<1>3. CASE CollectProtocolFees
  <2>1. /\ now' = now /\ rewardVault' = rewardVault /\ positions' = positions /\ ticks' = ticks
        /\ earned' = earned
    BY <1>3 DEF CollectProtocolFees
  <2>2. /\ amm' \in AmmType /\ amm'.rewardsUpdatedAt = amm.rewardsUpdatedAt /\ amm'.tick = amm.tick
        /\ amm'.sqrtPrice = amm.sqrtPrice /\ amm'.liquidity = amm.liquidity /\ amm'.growth = amm.growth
    BY <1>1, <1>3 DEF CollectProtocolFees, AmmType
  <2>. QED  BY <1>1, <2>1, <2>2, AmmKeeps
<1>4. ASSUME NEW emissions \in Emissions, SetRewardEmissions(emissions) PROVE PoolInv'
  <2>1. /\ now' = now /\ rewardVault' = rewardVault /\ positions' = positions /\ ticks' = ticks
        /\ earned' = EarnedNow
        /\ amm' = [amm EXCEPT !.growth = GrowthNow, !.rewardsUpdatedAt = now, !.emissions = emissions]
    BY <1>4 DEF SetRewardEmissions
  <2>2. emissions \in Nat
    BY LiquidityPoolAssumption
  <2>3. /\ amm' \in AmmType /\ amm'.rewardsUpdatedAt = now /\ amm'.tick = amm.tick
        /\ amm'.sqrtPrice = amm.sqrtPrice /\ amm'.liquidity = amm.liquidity /\ amm'.growth = GrowthNow
    BY <1>1, <2>1, <2>2, NowFits DEF AmmType
  <2>4. EarningsFit(positions, ticks, amm.tick, amm'.growth, earned')
    BY <2>1, <2>3, NowFits
  <2>. QED  BY <1>1, <2>1, <2>3, <2>4, AmmKeeps
<1>5. ASSUME NEW amount \in RewardFunds, FundReward(amount) PROVE PoolInv'
  <2>1. /\ now' = now /\ positions' = positions /\ ticks' = ticks /\ earned' = earned /\ amm' = amm
        /\ rewardVault' = rewardVault + amount
    BY <1>5 DEF FundReward
  <2>2. rewardVault' \in Nat
    BY <1>1, <2>1, LiquidityPoolAssumption
  <2>. QED  BY <1>1, <2>1, <2>2, AmmKeeps
<1>6. ASSUME NEW rate \in FeeRates, SetFeeRate(rate) PROVE PoolInv'
  <2>1. /\ now' = now /\ rewardVault' = rewardVault /\ positions' = positions /\ ticks' = ticks
        /\ earned' = earned /\ amm' = [amm EXCEPT !.feeRate = rate]
    BY <1>6 DEF SetFeeRate
  <2>2. rate \in 0..(FEE_RATE_MUL_VALUE - 1)
    BY LiquidityPoolAssumption
  <2>3. /\ amm' \in AmmType /\ amm'.rewardsUpdatedAt = amm.rewardsUpdatedAt /\ amm'.tick = amm.tick
        /\ amm'.sqrtPrice = amm.sqrtPrice /\ amm'.liquidity = amm.liquidity /\ amm'.growth = amm.growth
    BY <1>1, <2>1, <2>2 DEF AmmType
  <2>. QED  BY <1>1, <2>1, <2>3, AmmKeeps
<1>7. ASSUME NEW rate \in ProtocolFeeRates, SetProtocolFeeRate(rate) PROVE PoolInv'
  <2>1. /\ now' = now /\ rewardVault' = rewardVault /\ positions' = positions /\ ticks' = ticks
        /\ earned' = earned /\ amm' = [amm EXCEPT !.protocolFeeRate = rate]
    BY <1>7 DEF SetProtocolFeeRate
  <2>2. rate \in 0..PROTOCOL_FEE_RATE_MUL_VALUE
    BY LiquidityPoolAssumption
  <2>3. /\ amm' \in AmmType /\ amm'.rewardsUpdatedAt = amm.rewardsUpdatedAt /\ amm'.tick = amm.tick
        /\ amm'.sqrtPrice = amm.sqrtPrice /\ amm'.liquidity = amm.liquidity /\ amm'.growth = amm.growth
    BY <1>1, <2>1, <2>2 DEF AmmType
  <2>. QED  BY <1>1, <2>1, <2>3, AmmKeeps
<1>. QED
  BY <1>2, <1>3, <1>4, <1>5, <1>6, <1>7
-----------------------------------------------------------------------------
(* The theorems *)

\* Every step of every provider, trader and authority preserves the invariant: what the
\* pool, its ticks and its positions keep apart from each other fits together.
THEOREM PoolInvariant == Spec => []PoolInv
<1>1. Init => PoolInv
  BY InitFits
<1>2. PoolInv /\ [Next]_vars => PoolInv'
  <2>1. SUFFICES ASSUME PoolInv, [Next]_vars PROVE PoolInv'
    OBVIOUS
  <2>2. CASE UNCHANGED vars
    <3>1. /\ now' = now /\ amm' = amm /\ ticks' = ticks /\ positions' = positions
          /\ rewardVault' = rewardVault /\ earned' = earned
      BY <2>2 DEF vars
    <3>. QED  BY <2>1, <3>1 DEF PoolInv
  <2>3. ASSUME NEW p \in Positions, NEW range \in Ranges, OpenPosition(p, range) PROVE PoolInv'
    BY <2>1, <2>3, OpenKeeps
  <2>4. ASSUME NEW p \in Positions, ClosePosition(p) PROVE PoolInv'
    BY <2>1, <2>4, CloseKeeps
  <2>5. ASSUME NEW p \in Positions, NEW liquidity \in Liquidities, IncreaseLiquidity(p, liquidity)
        PROVE  PoolInv'
    <3>1. liquidity \in Int /\ liquidity # 0 /\ ModifyLiquidity(p, liquidity)
      BY <2>5, LiquidityPoolAssumption DEF IncreaseLiquidity
    <3>. QED  BY <2>1, <3>1, ModifyKeeps
  <2>6. ASSUME NEW p \in Positions, NEW liquidity \in Liquidities, DecreaseLiquidity(p, liquidity)
        PROVE  PoolInv'
    <3>. DEFINE less == -liquidity
    <3>1. less \in Int /\ less # 0
      BY <2>6, LiquidityPoolAssumption DEF DecreaseLiquidity
    <3>2. ModifyLiquidity(p, less)
      BY <2>6 DEF DecreaseLiquidity
    <3>. HIDE DEF less
    <3>. QED  BY <2>1, <3>1, <3>2, ModifyKeeps
  <2>7. ASSUME NEW p \in Positions, UpdateFeesAndRewards(p) PROVE PoolInv'
    BY <2>1, <2>7, UpdateKeeps
  <2>8. ASSUME NEW p \in Positions, CollectFees(p) PROVE PoolInv'
    BY <2>1, <2>8, CollectFeesKeeps
  <2>9. ASSUME NEW p \in Positions, CollectReward(p) PROVE PoolInv'
    BY <2>1, <2>9, CollectRewardKeeps
  <2>10. ASSUME NEW amount \in SwapAmounts, NEW limit \in PriceLimits \cup {NoLimit},
                NEW exactIn \in BOOLEAN, NEW toQuote \in BOOLEAN, NEW arrays \in ArrayCounts,
                Swap(amount, limit, exactIn, toQuote, arrays)
         PROVE  PoolInv'
    BY <2>1, <2>10, SwapKeeps
  <2>11. CASE \/ Tick
              \/ CollectProtocolFees
              \/ \E emissions \in Emissions : SetRewardEmissions(emissions)
              \/ \E amount \in RewardFunds : FundReward(amount)
              \/ \E rate \in FeeRates : SetFeeRate(rate)
              \/ \E rate \in ProtocolFeeRates : SetProtocolFeeRate(rate)
    BY <2>1, <2>11, OthersKeep
  <2>. QED
    BY <2>1, <2>2, <2>3, <2>4, <2>5, <2>6, <2>7, <2>8, <2>9, <2>10, <2>11 DEF Next
<1>. QED
  BY <1>1, <1>2, PTL DEF Spec

LEMMA LiquidityOfSome ==
  ASSUME PositionsFit(positions), NEW S \in SUBSET DOMAIN positions, NEW f,
         DOMAIN f = DOMAIN positions,
         \A p \in DOMAIN positions : f[p] = IF p \in S THEN positions[p].liquidity ELSE 0
  PROVE  SumFunction(f) = LiquidityOf(S)
<1>. DEFINE T == DOMAIN positions
            all == [p \in T |-> positions[p].liquidity]
<1>1. IsFiniteSet(T) /\ IsFiniteSet(S) /\ \A p \in T : positions[p].liquidity \in Nat
  BY PositionFacts, FS_Subset DEF PositionsFit
<1>2. SumFunctionOnSet(f, T) = SumFunctionOnSet(f, S)
  <2>1. (\A x \in T : f[x] \in Int) /\ \A x \in T \ S : f[x] = 0
    BY <1>1
  <2>. QED  BY <1>1, <2>1, SumOfNonZero
<1>3. SumFunctionOnSet(f, S) = SumFunctionOnSet(all, S)
  <2>1. \A x \in S : f[x] = all[x]
    OBVIOUS
  <2>. HIDE DEF all
  <2>. QED  BY <1>1, <2>1, SumSameValues
<1>. QED
  BY <1>2, <1>3 DEF LiquidityOf, SumFunction

\* The pool's liquidity, which swaps adjust tick by tick and deposits directly, is always
\* that of the positions whose range the current tick is in.
THEOREM LiquidityInRangeAlways == Spec => []LiquidityInRange
<1>1. PoolInv => LiquidityInRange
  <2>1. SUFFICES ASSUME PoolInv PROVE LiquidityInRange
    OBVIOUS
  <2>. DEFINE S == {p \in DOMAIN positions : InRange(positions[p], amm.tick)}
              f == Within(positions, amm.tick)
  <2>2. /\ PositionsFit(positions) /\ S \in SUBSET DOMAIN positions
        /\ DOMAIN f = DOMAIN positions
        /\ \A p \in DOMAIN positions : f[p] = IF p \in S THEN positions[p].liquidity ELSE 0
    BY <2>1 DEF PoolInv, Within
  <2>3. amm.liquidity = SumFunction(f)
    BY <2>1 DEF PoolInv, PriceFits
  <2>4. LiquidityInRange <=> amm.liquidity = LiquidityOf(S)
    BY DEF LiquidityInRange
  <2>. HIDE DEF S, f
  <2>5. SumFunction(f) = LiquidityOf(S)
    BY <2>2, LiquidityOfSome
  <2>. QED  BY <2>3, <2>4, <2>5
<1>. QED
  BY <1>1, PoolInvariant, PTL

\* A tick always holds the liquidity of the positions it bounds, and is initialized exactly
\* while there is any.
THEOREM TicksMatchPositionsAlways == Spec => []TicksMatchPositions
<1>1. PoolInv => TicksMatchPositions
  <2>1. SUFFICES ASSUME PoolInv, NEW t \in UsableTicks
        PROVE  LET lower == LiquidityOf({p \in DOMAIN positions : positions[p].lower = t})
                   upper == LiquidityOf({p \in DOMAIN positions : positions[p].upper = t})
               IN  /\ ticks[t].gross = lower + upper /\ ticks[t].net = lower - upper
                   /\ ticks[t].initialized = (lower + upper > 0)
                   /\ ~ticks[t].initialized => ticks[t] = NewTick
    BY DEF TicksMatchPositions
  <2>. DEFINE atLower == {p \in DOMAIN positions : positions[p].lower = t}
              atUpper == {p \in DOMAIN positions : positions[p].upper = t}
              f == LowerAt(positions, t)
              g == UpperAt(positions, t)
  <2>2. /\ PositionsFit(positions) /\ TicksFit(positions, ticks)
        /\ atLower \in SUBSET DOMAIN positions /\ atUpper \in SUBSET DOMAIN positions
        /\ DOMAIN f = DOMAIN positions /\ DOMAIN g = DOMAIN positions
        /\ \A p \in DOMAIN positions :
               /\ f[p] = IF p \in atLower THEN positions[p].liquidity ELSE 0
               /\ g[p] = IF p \in atUpper THEN positions[p].liquidity ELSE 0
    BY <2>1 DEF PoolInv, LowerAt, UpperAt
  <2>3. /\ ticks[t] \in TickType
        /\ ticks[t].gross = SumFunction(f) + SumFunction(g)
        /\ ticks[t].net = SumFunction(f) - SumFunction(g)
        /\ ticks[t].initialized <=> ticks[t].gross > 0
        /\ ~ticks[t].initialized => ticks[t] = NewTick
    BY <2>2 DEF TicksFit
  <2>. HIDE DEF atLower, atUpper, f, g
  <2>4. SumFunction(f) = LiquidityOf(atLower)
    BY <2>2, LiquidityOfSome
  <2>5. SumFunction(g) = LiquidityOf(atUpper)
    BY <2>2, LiquidityOfSome
  <2>6. ticks[t].initialized \in BOOLEAN
    BY <2>3 DEF TickType
  <2>. DEFINE a == LiquidityOf(atLower)  b == LiquidityOf(atUpper)
  <2>. HIDE DEF a, b
  <2>7. /\ ticks[t].gross = a + b /\ ticks[t].net = a - b
        /\ ticks[t].initialized = (a + b > 0)
        /\ ~ticks[t].initialized => ticks[t] = NewTick
    BY <2>3, <2>4, <2>5, <2>6 DEF a, b
  <2>. QED  BY <2>7 DEF a, b, atLower, atUpper
<1>. QED
  BY <1>1, PoolInvariant, PTL

\* Read off growths that wrap around, a range has always earned since a position's
\* checkpoint exactly what was paid and emitted while the price was in it.
THEOREM EarningsFollowRangeAlways == Spec => []EarningsFollowRange
<1>1. PoolInv => EarningsFollowRange
  <2>1. SUFFICES ASSUME PoolInv PROVE EarningsFollowRange
    OBVIOUS
  <2>2. \A p \in DOMAIN positions : positions[p].liquidity > 0 => \A g \in Growths :
            WrappingSub(InsideOf(ticks, positions[p], amm.tick, GrowthNow, g), positions[p].checkpoint[g])
                = EarnedNow[p][g]
    BY <2>1, NowFits DEF EarningsFit
  <2>3. ASSUME NEW p \in DOMAIN positions, NEW g \in Growths
        PROVE  Inside(positions[p].lower, positions[p].upper, amm.tick, GrowthNow)[g] =
                   InsideOf(ticks, positions[p], amm.tick, GrowthNow, g)
    BY DEF Inside, InsideOf
  <2>. QED  BY <2>2, <2>3 DEF EarningsFollowRange
<1>. QED
  BY <1>1, PoolInvariant, PTL

\* Price and current tick, which a crossing sets on its own, always agree.
THEOREM PriceMatchesTickAlways == Spec => []PriceMatchesTick
<1>1. PoolInv => PriceMatchesTick
  BY DEF PoolInv, PriceFits, MatchesTick, PriceMatchesTick
<1>. QED
  BY <1>1, PoolInvariant, PTL

-----------------------------------------------------------------------------
(* A unit in which the worth of liquidity at every price is a whole number *)

LEMMA CommonMultipleExists ==
  ASSUME NEW n \in Nat
  PROVE  \E m \in Nat \ {0} : \A p \in 1..n : \E k \in Nat : m = p * k
<1>. DEFINE Good == {i \in Nat : \E m \in Nat \ {0} : \A p \in 1..i : \E k \in Nat : m = p * k}
<1>1. 0 \in Good
  <2>1. \A p \in 1..0 : FALSE
    OBVIOUS
  <2>. QED  BY <2>1
<1>2. ASSUME NEW i \in Nat, i \in Good PROVE i + 1 \in Good
  <2>1. PICK m \in Nat \ {0} : \A p \in 1..i : \E k \in Nat : m = p * k
    BY <1>2
  <2>. DEFINE j == i + 1  n2 == j * m
  <2>2. j \in Nat \ {0} /\ n2 \in Nat \ {0}
    OBVIOUS
  <2>3. ASSUME NEW p \in 1..j PROVE \E k \in Nat : n2 = p * k
    <3>1. CASE p = j
      BY <3>1
    <3>2. CASE p # j
      <4>1. p \in 1..i
        BY <3>2
      <4>2. PICK k \in Nat : m = p * k
        BY <2>1, <4>1
      <4>3. j * k \in Nat /\ n2 = p * (j * k)
        <5>. HIDE DEF j
        <5>. QED  BY <2>2, <4>1, <4>2
      <4>. QED  BY <4>3
    <3>. QED  BY <3>1, <3>2
  <2>. HIDE DEF n2
  <2>. QED  BY <2>2, <2>3
<1>. HIDE DEF Good
<1>3. Nat \subseteq Good
  BY <1>1, <1>2, NatInductionBySet
<1>. QED
  BY <1>3 DEF Good

\* A multiple of every price, and what a price makes of it.
ALL == CHOOSE m \in Nat \ {0} : \A p \in 1..MAX_SQRT_PRICE : \E k \in Nat : m = p * k
Reciprocal(p) == CHOOSE k \in Nat : ALL = p * k

Price == 1..MAX_SQRT_PRICE

LEMMA ReciprocalFacts ==
  /\ ALL \in Nat \ {0}
  /\ \A p \in Price : p \in Nat \ {0} /\ Reciprocal(p) \in Nat /\ p * Reciprocal(p) = ALL
<1>1. /\ ALL \in Nat \ {0}
      /\ \A p \in 1..MAX_SQRT_PRICE : \E k \in Nat : ALL = p * k
  BY PoolConstants, CommonMultipleExists DEF ALL
<1>2. ASSUME NEW p \in Price PROVE p \in Nat \ {0} /\ Reciprocal(p) \in Nat /\ p * Reciprocal(p) = ALL
  <2>1. p \in Nat \ {0}
    BY PoolConstants DEF Price
  <2>3. \E k \in Nat : ALL = p * k
    BY <1>1, Zenon DEF Price
  <2>2. Reciprocal(p) \in Nat /\ ALL = p * Reciprocal(p)
    BY <2>3, Zenon DEF Reciprocal
  <2>. QED  BY <2>1, <2>2
<1>. QED
  BY <1>1, <1>2

\* What a unit of liquidity is worth at a price in either token, up to a constant, in
\* parts of which Scale are a token: the synthetic token's worth falls with the price.
Scale(side) == IF side = "quote" THEN ONE ELSE ALL
Depth(side, price) == IF side = "quote" THEN price ELSE ONE * Reciprocal(price)

LEMMA DepthFacts ==
  ASSUME NEW side \in Sides
  PROVE  /\ Scale(side) \in Nat \ {0}
         /\ \A p \in Price : Depth(side, p) \in Nat
  BY ReciprocalFacts, AmmMathAssumption DEF Scale, Depth

\* The amount between two prices, rounded against the pool's counterpart either way, is at
\* least or at most what the liquidity is worth more at one of them.
LEMMA CeilingAtLeast ==
  ASSUME NEW n \in Nat, NEW d \in Nat \ {0}
  PROVE  DivRounded(n, d, TRUE) \in Nat /\ n <= d * DivRounded(n, d, TRUE)
<1>. DEFINE m == n + d - 1  q == m \div d
<1>1. DivRounded(n, d, TRUE) = q /\ m \in Nat
  BY DEF DivRounded
<1>2. q \in Nat /\ m < d * q + d
  <2>. HIDE DEF m
  <2>. QED  BY <1>1
<1>. HIDE DEF q
<1>3. n <= d * q
  <2>. DEFINE x == d * q
  <2>1. x \in Int /\ m < x + d
    BY <1>2
  <2>. HIDE DEF x
  <2>2. n <= x
    BY <2>1
  <2>. QED  BY <2>2 DEF x
<1>. QED
  BY <1>1, <1>2, <1>3

LEMMA FloorAtMost ==
  ASSUME NEW n \in Nat, NEW d \in Nat \ {0}
  PROVE  DivRounded(n, d, FALSE) \in Nat /\ d * DivRounded(n, d, FALSE) <= n
  BY DEF DivRounded

\* Amounts of the synthetic token compare as the worth at the two prices does.
LEMMA SyntheticScaled ==
  ASSUME NEW p \in Price, NEW q \in Price, p <= q, NEW L \in Nat, NEW a \in Nat
  PROVE  LET n == (L * (q - p)) * ONE
             d == q * p
             w == L * (ONE * Reciprocal(p) - ONE * Reciprocal(q))
         IN  /\ n <= d * a => w <= ALL * a
             /\ d * a <= n => ALL * a <= w
<1>. DEFINE i == Reciprocal(p)  j == Reciprocal(q)  g == q - p  d == q * p
            n == (L * g) * ONE
            w == L * (ONE * i - ONE * j)
            x == L * ONE
<1>1. /\ p \in Nat \ {0} /\ q \in Nat \ {0} /\ i \in Nat /\ j \in Nat /\ ALL \in Nat \ {0}
      /\ p * i = ALL /\ q * j = ALL /\ ONE \in Nat \ {0}
  BY ReciprocalFacts, AmmMathAssumption
<1>2. d \in Nat \ {0} /\ g \in Nat /\ x \in Nat
  BY <1>1
<1>3. w = x * (i - j) /\ w \in Int
  <2>. HIDE DEF i, j
  <2>. QED  BY <1>1
<1>4. n = x * g /\ n \in Nat
  <2>. HIDE DEF g
  <2>. QED  BY <1>1, <1>2
<1>5. d * (i - j) = ALL * g
  <2>1. d * (i - j) = q * (p * i) - p * (q * j)
    <3>. HIDE DEF i, j
    <3>. QED  BY <1>1
  <2>2. d * (i - j) = q * ALL - p * ALL
    BY <1>1, <2>1
  <2>. QED  BY <1>1, <2>2
<1>6. d * w = ALL * n
  <2>. DEFINE h == i - j
  <2>1. h \in Int
    BY <1>1
  <2>2. w = x * h /\ d * h = ALL * g
    BY <1>3, <1>5
  <2>. HIDE DEF h, d, g, x, w, n
  <2>3. d * (x * h) = x * (d * h)
    BY <1>2, <2>1
  <2>4. d * w = x * (ALL * g)
    BY <2>2, <2>3
  <2>5. x * (ALL * g) = ALL * (x * g)
    BY <1>1, <1>2
  <2>. QED  BY <1>4, <2>4, <2>5
<1>7. d * (ALL * a) = ALL * (d * a) /\ d * a \in Nat /\ ALL * a \in Nat
  <2>. HIDE DEF d
  <2>. QED  BY <1>1, <1>2
<1>. HIDE DEF d, n, w
<1>8. n <= d * a => w <= ALL * a
  <2>1. SUFFICES ASSUME n <= d * a, ALL * a < w PROVE FALSE
    BY <1>3, <1>7
  <2>. DEFINE b == d * a  c == ALL * a
  <2>2. b \in Nat /\ c \in Nat /\ d * c = ALL * b /\ n <= b /\ c < w
    BY <1>7, <2>1
  <2>. HIDE DEF b, c
  <2>3. ALL * n <= ALL * b
    BY <1>1, <1>4, <2>2, MultipleMonotone
  <2>4. d * w <= d * c
    BY <1>6, <2>2, <2>3
  <2>5. w \in Int /\ c + 1 <= w
    BY <1>3, <2>2
  <2>6. d * (c + 1) <= d * w
    BY <1>2, <2>2, <2>5, MultipleMonotone
  <2>7. d * (c + 1) = d * c + d
    BY <1>2, <2>2
  <2>. DEFINE y == d * c  z == d * w
  <2>8. y \in Int /\ z \in Int /\ y + d <= z /\ z <= y
    BY <1>2, <1>3, <2>2, <2>4, <2>6, <2>7
  <2>. HIDE DEF y, z
  <2>. QED  BY <1>2, <2>8
<1>9. d * a <= n => ALL * a <= w
  <2>1. SUFFICES ASSUME d * a <= n, w < ALL * a PROVE FALSE
    BY <1>3, <1>7
  <2>. DEFINE b == d * a  c == ALL * a
  <2>2. b \in Nat /\ c \in Nat /\ d * c = ALL * b /\ b <= n /\ w < c
    BY <1>7, <2>1
  <2>. HIDE DEF b, c
  <2>3. ALL * b <= ALL * n
    BY <1>1, <1>4, <2>2, MultipleMonotone
  <2>4. d * c <= d * w
    BY <1>6, <2>2, <2>3
  <2>5. w \in Int /\ w + 1 <= c
    BY <1>3, <2>2
  <2>6. d * (w + 1) <= d * c
    BY <1>2, <2>2, <2>5, MultipleMonotone
  <2>7. d * (w + 1) = d * w + d
    BY <1>2, <1>3
  <2>. DEFINE y == d * c  z == d * w
  <2>8. y \in Int /\ z \in Int /\ z + d <= y /\ y <= z
    BY <1>2, <1>3, <2>2, <2>4, <2>6, <2>7
  <2>. HIDE DEF y, z
  <2>. QED  BY <1>2, <2>8
<1>. QED
  BY <1>8, <1>9 DEF d, n, w

AmountDelta(side, p, q, L, up) ==
    IF side = "quote" THEN AmountDeltaQuote(p, q, L, up) ELSE AmountDeltaSynthetic(p, q, L, up)

\* Between the price at which the token is worth more and the other one, in either order.
LEMMA AmountScaled ==
  ASSUME NEW side \in Sides, NEW p \in Price, NEW q \in Price, NEW L \in Nat,
         IF side = "quote" THEN q <= p ELSE p <= q
  PROVE  LET w == L * (Depth(side, p) - Depth(side, q))
         IN  /\ \A up \in BOOLEAN : AmountDelta(side, p, q, L, up) = AmountDelta(side, q, p, L, up)
             /\ AmountDelta(side, p, q, L, TRUE) \in Nat /\ AmountDelta(side, p, q, L, FALSE) \in Nat
             /\ w <= Scale(side) * AmountDelta(side, p, q, L, TRUE)
             /\ Scale(side) * AmountDelta(side, p, q, L, FALSE) <= w
<1>0. p \in Nat \ {0} /\ q \in Nat \ {0} /\ ONE \in Nat \ {0}
  BY ReciprocalFacts, AmmMathAssumption
<1>1. CASE side = "quote"
  <2>. DEFINE g == p - q  n == L * g
  <2>1. g \in Nat /\ (IF p < q THEN q - p ELSE p - q) = g /\ (IF q < p THEN p - q ELSE q - p) = g
    BY <1>0, <1>1
  <2>2. \A up \in BOOLEAN : /\ AmountDelta(side, p, q, L, up) = DivRounded(n, ONE, up)
                            /\ AmountDelta(side, q, p, L, up) = DivRounded(n, ONE, up)
    BY <1>1, <2>1 DEF AmountDelta, AmountDeltaQuote
  <2>3. n \in Nat
    <3>. HIDE DEF g
    <3>. QED  BY <2>1
  <2>4. L * (Depth(side, p) - Depth(side, q)) = n /\ Scale(side) = ONE
    BY <1>1 DEF Depth, Scale
  <2>. HIDE DEF n
  <2>5. /\ DivRounded(n, ONE, TRUE) \in Nat /\ n <= ONE * DivRounded(n, ONE, TRUE)
        /\ DivRounded(n, ONE, FALSE) \in Nat /\ ONE * DivRounded(n, ONE, FALSE) <= n
    BY <1>0, <2>3, CeilingAtLeast, FloorAtMost
  <2>. QED  BY <2>2, <2>4, <2>5
<1>2. CASE side # "quote"
  <2>. DEFINE g == q - p  n == (L * g) * ONE  d == q * p
  <2>0. p <= q
    BY <1>2
  <2>1. g \in Nat /\ d \in Nat \ {0} /\ d = p * q
    BY <1>0, <2>0
  <2>2. \A up \in BOOLEAN : /\ AmountDelta(side, p, q, L, up) = DivRounded(n, d, up)
                            /\ AmountDelta(side, q, p, L, up) = DivRounded(n, d, up)
    <3>1. CASE p < q
      <4>1. ~(q < p)
        BY <1>0, <3>1
      <4>. QED  BY <1>2, <3>1, <4>1 DEF AmountDelta, AmountDeltaSynthetic
    <3>2. CASE p = q
      BY <1>2, <3>2 DEF AmountDelta, AmountDeltaSynthetic
    <3>. QED  BY <1>0, <2>0, <3>1, <3>2
  <2>3. n \in Nat
    <3>. HIDE DEF g
    <3>1. L * g \in Nat
      BY <2>1
    <3>. QED  BY <1>0, <3>1
  <2>. DEFINE a == DivRounded(n, d, TRUE)  b == DivRounded(n, d, FALSE)
              w == L * (ONE * Reciprocal(p) - ONE * Reciprocal(q))
  <2>4. L * (Depth(side, p) - Depth(side, q)) = w /\ Scale(side) = ALL
    BY <1>2 DEF Depth, Scale
  <2>5. a \in Nat /\ n <= d * a /\ b \in Nat /\ d * b <= n
    <3>. HIDE DEF n, d
    <3>. QED  BY <2>1, <2>3, CeilingAtLeast, FloorAtMost
  <2>6. w <= ALL * a
    <3>. HIDE DEF a
    <3>. QED  BY <2>0, <2>5, SyntheticScaled
  <2>7. ALL * b <= w
    <3>. HIDE DEF b
    <3>. QED  BY <2>0, <2>5, SyntheticScaled
  <2>. HIDE DEF n, d, w
  <2>. QED  BY <2>2, <2>4, <2>5, <2>6, <2>7
<1>. QED
  BY <1>1, <1>2

-----------------------------------------------------------------------------
(* A step of a swap takes in at least, and gives out at most, what the liquidity *)
(* is worth more and less at the new price                                      *)

Output(toQuote) == IF toQuote THEN "quote" ELSE "synthetic"

\* The amounts of a step, which gives out no more than is left to give out.
IsStep(step, remaining, L, p, toQuote) ==
    /\ step.in = AmountDelta(Input(toQuote), p, step.price, L, TRUE)
    /\ LET out == AmountDelta(Output(toQuote), p, step.price, L, FALSE)
       IN  step.out = out \/ (step.out = remaining /\ out > remaining)

LEMMA StepIsDeltas ==
  ASSUME NEW remaining, NEW rate, NEW L, NEW p, NEW t, NEW exactIn \in BOOLEAN, NEW toQuote \in BOOLEAN,
         ComputeSwap(remaining, rate, L, p, t, exactIn, toQuote).ok
  PROVE  IsStep(ComputeSwap(remaining, rate, L, p, t, exactIn, toQuote), remaining, L, p, toQuote)
<1>. DEFINE rest == FEE_RATE_MUL_VALUE - rate
            usable  == IF exactIn THEN (remaining * rest) \div FEE_RATE_MUL_VALUE ELSE remaining
            estimate == FixedDelta(p, t, L, exactIn, toQuote)
            next    == IF estimate <= usable /\ estimate <= U64_MAX THEN t
                       ELSE NextPrice(p, L, usable, exactIn, toQuote)
            fixed   == FixedDelta(p, next, L, exactIn, toQuote)
            unfixed == UnfixedDelta(p, next, L, exactIn, toQuote)
            in      == IF exactIn THEN fixed ELSE unfixed
            out     == IF exactIn THEN unfixed ELSE IF fixed > remaining THEN remaining ELSE fixed
            fee     == IF exactIn /\ next # t THEN remaining - in
                       ELSE DivRounded(in * rate, rest, TRUE)
            step    == ComputeSwap(remaining, rate, L, p, t, exactIn, toQuote)
            done    == [ok |-> fee \in 0..U64_MAX, price |-> next, in |-> in, out |-> out, fee |-> fee]
            fails   == next = NoPrice \/ fixed > U64_MAX \/ unfixed > U64_MAX
<1>1. step = IF fails THEN [ok |-> FALSE] ELSE done
  BY DEF ComputeSwap
<1>2. step = done
  <2>. HIDE DEF fails, done, step
  <2>1. step.ok
    BY DEF step
  <2>. QED  BY <1>1, <2>1
<1>3. step.price = next /\ step.in = in /\ step.out = out
  <2>. HIDE DEF next, in, out, fee, step
  <2>. QED  BY <1>2
<1>. HIDE DEF next, step, usable, done, fails
<1>4. in = AmountDelta(Input(toQuote), p, next, L, TRUE)
  BY DEF AmountDelta, Input, FixedDelta, UnfixedDelta
<1>5. \/ out = AmountDelta(Output(toQuote), p, next, L, FALSE)
      \/ out = remaining /\ AmountDelta(Output(toQuote), p, next, L, FALSE) > remaining
  BY DEF AmountDelta, Output, FixedDelta, UnfixedDelta
<1>. HIDE DEF in, out
<1>6. IsStep(step, remaining, L, p, toQuote)
  BY <1>3, <1>4, <1>5 DEF IsStep
<1>. QED
  BY <1>6 DEF step

LEMMA StepCovered ==
  ASSUME NEW remaining \in 0..U64_MAX, NEW rate \in 0..(FEE_RATE_MUL_VALUE - 1), NEW L \in Nat,
         NEW p \in Price, NEW t \in Price, NEW exactIn \in BOOLEAN, NEW toQuote \in BOOLEAN,
         IF toQuote THEN t <= p ELSE p <= t,
         ComputeSwap(remaining, rate, L, p, t, exactIn, toQuote).ok
  PROVE  LET step == ComputeSwap(remaining, rate, L, p, t, exactIn, toQuote)
             input == Input(toQuote)
             output == Output(toQuote)
         IN  /\ step.price \in Price
             /\ L * (Depth(input, step.price) - Depth(input, p)) <= Scale(input) * step.in
             /\ Scale(output) * step.out <= L * (Depth(output, p) - Depth(output, step.price))
<1>. DEFINE step == ComputeSwap(remaining, rate, L, p, t, exactIn, toQuote)
            next == step.price
            input == Input(toQuote)
            output == Output(toQuote)
            a == AmountDelta(input, p, next, L, TRUE)
            b == AmountDelta(output, p, next, L, FALSE)
            c == L * (Depth(output, p) - Depth(output, next))
<1>1. p \in Nat \ {0} /\ t \in Nat \ {0} /\ U64_MAX \in Nat /\ remaining \in Nat /\ MAX_SQRT_PRICE \in Nat
  BY ReciprocalFacts, AmmMathAssumption
<1>2. OnTheWay(next, p, t, toQuote) /\ step.out \in Nat
  BY <1>1, ComputeSwapEffect
<1>a. step.in = a /\ (step.out = b \/ (step.out = remaining /\ b > remaining))
  <2>1. IsStep(step, remaining, L, p, toQuote)
    BY StepIsDeltas
  <2>. HIDE DEF step
  <2>. QED  BY <2>1 DEF IsStep
<1>3. input \in Sides /\ output \in Sides /\ (input = "quote" <=> ~toQuote) /\ (output = "quote" <=> toQuote)
  BY DEF Input, Output, Sides
<1>. HIDE DEF step, input, output
<1>4. next \in Price /\ IF toQuote THEN next <= p ELSE p <= next
  <2>1. p <= MAX_SQRT_PRICE /\ t <= MAX_SQRT_PRICE
    BY DEF Price
  <2>2. IF toQuote THEN next \in Int /\ t <= next /\ next <= p ELSE next \in Int /\ p <= next /\ next <= t
    BY <1>1, <1>2 DEF OnTheWay
  <2>. QED  BY <1>1, <2>1, <2>2 DEF Price
<1>. HIDE DEF next
<1>5. L * (Depth(input, next) - Depth(input, p)) <= Scale(input) * a
  <2>1. IF input = "quote" THEN p <= next ELSE next <= p
    BY <1>3, <1>4
  <2>2. /\ AmountDelta(input, next, p, L, TRUE) = a
        /\ L * (Depth(input, next) - Depth(input, p)) <= Scale(input) * AmountDelta(input, next, p, L, TRUE)
    BY <1>3, <1>4, <2>1, AmountScaled
  <2>. QED  BY <2>2
<1>6. b \in Nat /\ Scale(output) * b <= c
  <2>1. IF output = "quote" THEN next <= p ELSE p <= next
    BY <1>3, <1>4
  <2>. QED  BY <1>3, <1>4, <2>1, AmountScaled
<1>7. Scale(output) * step.out <= c
  <2>. DEFINE k == Scale(output)  o == step.out
  <2>1. k \in Nat /\ o \in Nat /\ o <= b /\ c \in Int
    <3>1. Depth(output, p) \in Nat /\ Depth(output, next) \in Nat /\ k \in Nat
      BY <1>3, <1>4, DepthFacts
    <3>2. o \in Nat /\ (o = b \/ (o = remaining /\ b > remaining))
      BY <1>2, <1>a
    <3>. HIDE DEF k, o, b
    <3>3. o <= b
      BY <1>1, <1>6, <3>2
    <3>4. c \in Int
      <4>. DEFINE x == Depth(output, p)  y == Depth(output, next)
      <4>1. x \in Nat /\ y \in Nat
        BY <3>1
      <4>. HIDE DEF x, y
      <4>2. L * (x - y) \in Int
        BY <4>1
      <4>. QED  BY <4>2 DEF x, y
    <3>. QED  BY <3>1, <3>2, <3>3, <3>4
  <2>2. k * b <= c
    BY <1>6
  <2>. HIDE DEF k, o, b, c
  <2>3. k * o <= k * b
    BY <1>6, <2>1, MultipleMonotone
  <2>4. k * o <= c
    <3>. DEFINE x == k * o  y == k * b
    <3>1. x \in Int /\ y \in Int /\ x <= y /\ y <= c
      BY <1>6, <2>1, <2>2, <2>3
    <3>. HIDE DEF x, y
    <3>2. x <= c
      BY <2>1, <3>1
    <3>. QED  BY <3>2 DEF x
  <2>. QED  BY <2>4 DEF k, o, b, c
<1>. HIDE DEF a, b, c
<1>. QED
  BY <1>a, <1>4, <1>5, <1>7 DEF step, input, output, next, c
-----------------------------------------------------------------------------
(* What is owed to the positions *)

LEMMA PricesAreUnits ==
  /\ MIN_SQRT_PRICE..MAX_SQRT_PRICE \subseteq Price
  /\ \A t \in TickIndexes : TickPrice[t] \in Price
<1>1. MIN_SQRT_PRICE..MAX_SQRT_PRICE \subseteq Price
  BY PoolConstants DEF Price
<1>. QED
  BY <1>1, PriceRange

\* A price brought into a position's range, and where the range is worth nothing.
Clip(q, price) == IF price < TickPrice[q.lower] THEN TickPrice[q.lower]
                  ELSE IF price < TickPrice[q.upper] THEN price ELSE TickPrice[q.upper]
End(side, q) == TickPrice[IF side = "quote" THEN q.lower ELSE q.upper]

\* The worth of a position's liquidity, what it is owed and what it has earned since its
\* checkpoint, with no rounding, in parts of which ONE times Scale are a token.
Worth(side, q, price) == Depth(side, Clip(q, price)) - Depth(side, End(side, q))
Debt(side, q, price, e) ==
    ONE * (q.liquidity * Worth(side, q, price)) + Scale(side) * (ONE * q.owed[side] + q.liquidity * e)
Debts(side, pos, price, e) == [p \in DOMAIN pos |-> Debt(side, pos[p], price, e[p][side])]

\* So many tokens cover what is owed.
Covered(side, kept, pos, price, e) ==
    SumFunction(Debts(side, pos, price, e)) <= (ONE * Scale(side)) * kept

LEMMA ClipFacts ==
  ASSUME NEW pos, PositionsFit(pos), NEW p \in DOMAIN pos, NEW price \in Price
  PROVE  LET q == pos[p]
             l == TickPrice[q.lower]
             u == TickPrice[q.upper]
         IN  /\ l \in Price /\ u \in Price /\ l < u
             /\ Clip(q, price) \in l..u /\ Clip(q, price) \in Price
             /\ price <= l => Clip(q, price) = l
             /\ u <= price => Clip(q, price) = u
             /\ l <= price /\ price <= u => Clip(q, price) = price
<1>. DEFINE q == pos[p]
            l == TickPrice[q.lower]
            u == TickPrice[q.upper]
<1>1. q.lower \in TickIndexes /\ q.upper \in TickIndexes /\ q.lower < q.upper
  BY PositionFacts, PoolConstants
<1>2. l \in Price /\ u \in Price /\ l < u
  BY <1>1, PricesAreUnits, PricesRise
<1>3. \A x \in Price : x \in Int
  BY ReciprocalFacts
<1>4. Clip(q, price) = IF price < l THEN l ELSE IF price < u THEN price ELSE u
  BY DEF Clip
<1>. HIDE DEF l, u, q
<1>5. l \in Int /\ u \in Int /\ price \in Int
  BY <1>2, <1>3
<1>6. /\ Clip(q, price) \in l..u /\ Clip(q, price) \in Price
      /\ price <= l => Clip(q, price) = l
      /\ u <= price => Clip(q, price) = u
      /\ l <= price /\ price <= u => Clip(q, price) = price
  BY <1>2, <1>4, <1>5
<1>. QED
  BY <1>2, <1>6 DEF l, u, q

LEMMA DebtType ==
  ASSUME NEW side \in Sides, NEW pos, PositionsFit(pos), NEW p \in DOMAIN pos,
         NEW price \in Price, NEW e \in Nat
  PROVE  /\ pos[p].liquidity \in Nat /\ pos[p].owed[side] \in Nat
         /\ Worth(side, pos[p], price) \in Int
         /\ Debt(side, pos[p], price, e) \in Int
<1>. DEFINE L == pos[p].liquidity  o == pos[p].owed[side]  w == Worth(side, pos[p], price)
<1>1. pos[p] \in PositionType /\ side \in Growths
  BY DEF PositionsFit, Growths
<1>2. L \in Nat /\ o \in Nat
  BY <1>1 DEF PositionType
<1>3. w \in Int
  <2>1. Clip(pos[p], price) \in Price /\ End(side, pos[p]) \in Price
    BY ClipFacts DEF End
  <2>2. Depth(side, Clip(pos[p], price)) \in Nat /\ Depth(side, End(side, pos[p])) \in Nat
    BY <2>1, DepthFacts
  <2>. QED  BY <2>2 DEF Worth
<1>4. Debt(side, pos[p], price, e) = ONE * (L * w) + Scale(side) * (ONE * o + L * e)
  BY DEF Debt
<1>. HIDE DEF L, o, w
<1>5. ONE \in Nat /\ Scale(side) \in Nat
  BY AmmMathAssumption, DepthFacts
<1>6. Debt(side, pos[p], price, e) \in Int
  BY <1>2, <1>3, <1>4, <1>5
<1>. QED
  BY <1>2, <1>3, <1>6 DEF L, o, w

\* While the price stays inside or outside of a range.
Stays(q, t, old, new) ==
    LET l == TickPrice[q.lower]
        u == TickPrice[q.upper]
    IN  IF InRange(q, t) THEN l <= old /\ old <= u /\ l <= new /\ new <= u
        ELSE (old <= l /\ new <= l) \/ (u <= old /\ u <= new)

\* ... what is owed changes by what the depth of the liquidity in range does.
LEMMA DebtMoves ==
  ASSUME NEW side \in Sides, PositionsFit(positions), NEW p \in DOMAIN positions,
         NEW old \in Price, NEW new \in Price, NEW t, NEW d \in Nat, NEW e \in Nat, NEW e2 \in Nat,
         positions[p].liquidity > 0 => /\ Stays(positions[p], t, old, new)
                                       /\ e2 <= IF InRange(positions[p], t) THEN e + d ELSE e
  PROVE  Debt(side, positions[p], new, e2) <= Debt(side, positions[p], old, e)
             + (ONE * (Depth(side, new) - Depth(side, old)) + Scale(side) * d) * Within(positions, t)[p]
<1>. DEFINE q == positions[p]
            L == q.liquidity  o == q.owed[side]
            v == Worth(side, q, old)  w == Worth(side, q, new)
            x == Depth(side, old)  y == Depth(side, new)  S == Scale(side)
            In == InRange(q, t)
            D1 == Debt(side, q, old, e)  D2 == Debt(side, q, new, e2)
            weight == Within(positions, t)[p]
<1>1. /\ L \in Nat /\ o \in Nat /\ v \in Int /\ w \in Int
      /\ x \in Nat /\ y \in Nat /\ S \in Nat /\ ONE \in Nat
  BY DebtType, DepthFacts, AmmMathAssumption
<1>2. /\ D1 = ONE * (L * v) + S * (ONE * o + L * e)
      /\ D2 = ONE * (L * w) + S * (ONE * o + L * e2)
      /\ weight = IF In THEN L ELSE 0
  BY DEF Debt, Within
<1>3. L > 0 => IF In THEN w = v + (y - x) ELSE w = v
  <2>1. SUFFICES ASSUME L > 0 PROVE IF In THEN w = v + (y - x) ELSE w = v
    OBVIOUS
  <2>. DEFINE z == Depth(side, End(side, q))
  <2>2. z \in Nat
    <3>1. End(side, q) \in Price
      BY ClipFacts DEF End
    <3>. QED  BY <3>1, DepthFacts
  <2>3. v = Depth(side, Clip(q, old)) - z /\ w = Depth(side, Clip(q, new)) - z
    BY DEF Worth
  <2>4. IF In THEN Clip(q, old) = old /\ Clip(q, new) = new ELSE Clip(q, old) = Clip(q, new)
    BY <2>1, ClipFacts DEF Stays
  <2>. HIDE DEF z, v, w, q
  <2>5. CASE In
    BY <1>1, <2>2, <2>3, <2>4, <2>5
  <2>6. CASE ~In
    BY <2>3, <2>4, <2>6
  <2>. QED  BY <2>5, <2>6
<1>4. L > 0 => e2 <= IF In THEN e + d ELSE e
  OBVIOUS
<1>. DEFINE c == ONE * (y - x) + S * d
<1>. HIDE DEF q, L, o, v, w, x, y, S, In, D1, D2, weight
<1>5. CASE L = 0
  <2>1. L * v = 0 /\ L * w = 0 /\ L * e = 0 /\ L * e2 = 0 /\ weight = 0
    BY <1>1, <1>2, <1>5
  <2>2. D2 = D1 /\ D1 \in Int /\ c \in Int
    BY <1>1, <1>2, <2>1
  <2>. HIDE DEF c
  <2>3. D2 <= D1 + c * weight
    BY <2>1, <2>2
  <2>. QED  BY <2>3 DEF c, q, L, o, v, w, x, y, S, In, D1, D2, weight
<1>6. CASE L > 0 /\ ~In
  <2>1. w = v /\ e2 <= e /\ weight = 0
    BY <1>2, <1>3, <1>4, <1>6
  <2>2. L * e2 <= L * e
    BY <1>1, <2>1, MultipleMonotone
  <2>. DEFINE m == L * v  f == L * e  f2 == L * e2  k == ONE * m  h == ONE * o
  <2>3. m \in Int /\ f \in Int /\ f2 \in Int /\ f2 <= f /\ c \in Int
    BY <1>1, <2>2
  <2>. HIDE DEF m, f, f2
  <2>4. k \in Int /\ h \in Int /\ D1 = k + S * (h + f) /\ D2 = k + S * (h + f2)
    BY <1>1, <1>2, <2>1, <2>3 DEF m, f, f2
  <2>. HIDE DEF k, h
  <2>5. S * (h + f2) <= S * (h + f)
    <3>1. h + f2 <= h + f /\ h + f2 \in Int /\ h + f \in Int
      BY <2>3, <2>4
    <3>. QED  BY <1>1, <3>1, MultipleMonotone
  <2>. DEFINE i == S * (h + f)  j == S * (h + f2)
  <2>6. i \in Int /\ j \in Int /\ j <= i /\ D1 = k + i /\ D2 = k + j
    BY <1>1, <2>3, <2>4, <2>5
  <2>. HIDE DEF i, j, c
  <2>7. D2 <= D1 + c * weight
    BY <2>1, <2>3, <2>4, <2>6
  <2>. QED  BY <2>7 DEF c, q, L, o, v, w, x, y, S, In, D1, D2, weight
<1>7. CASE L > 0 /\ In
  <2>. DEFINE g == y - x  top == e + d
  <2>1. w = v + g /\ e2 <= top /\ weight = L /\ g \in Int /\ top \in Nat
    BY <1>1, <1>2, <1>3, <1>4, <1>7
  <2>2. L * e2 <= L * top
    <3>. HIDE DEF top
    <3>. QED  BY <1>1, <2>1, MultipleMonotone
  <2>3. L * top = L * e + L * d /\ L * w = L * v + L * g
    <3>. HIDE DEF g
    <3>. QED  BY <1>1, <2>1
  <2>. DEFINE m == L * v  n == L * g  f == L * e  r == L * d  f2 == L * e2  h == ONE * o
  <2>4. m \in Int /\ n \in Int /\ f \in Int /\ r \in Int /\ f2 \in Int /\ f2 <= f + r /\ h \in Int
    BY <1>1, <2>1, <2>2, <2>3
  <2>5. /\ D1 = ONE * m + S * (h + f) /\ D2 = ONE * (m + n) + S * (h + f2)
    BY <1>2, <2>3
  <2>6. c * weight = ONE * n + S * r
    <3>. HIDE DEF g
    <3>1. c * weight = (ONE * g + S * d) * L
      BY <2>1 DEF g
    <3>2. (ONE * g + S * d) * L = ONE * (L * g) + S * (L * d)
      BY <1>1, <2>1
    <3>. QED  BY <3>1, <3>2
  <2>. HIDE DEF m, n, f, r, f2, h, c
  <2>7. S * (h + f2) <= S * ((h + f) + r)
    <3>1. h + f2 <= (h + f) + r /\ h + f2 \in Int /\ (h + f) + r \in Int
      BY <2>4
    <3>. QED  BY <1>1, <3>1, MultipleMonotone
  <2>8. S * ((h + f) + r) = S * (h + f) + S * r /\ ONE * (m + n) = ONE * m + ONE * n
    BY <1>1, <2>4
  <2>. DEFINE i == S * (h + f)  j == S * (h + f2)  k == S * r  om == ONE * m  on == ONE * n
  <2>9. /\ i \in Int /\ j \in Int /\ k \in Int /\ om \in Int /\ on \in Int
        /\ j <= i + k /\ D1 = om + i /\ D2 = (om + on) + j /\ c * weight = on + k
    BY <1>1, <2>4, <2>5, <2>6, <2>7, <2>8
  <2>. HIDE DEF i, j, k, om, on
  <2>10. D2 <= D1 + c * weight
    BY <2>9
  <2>. QED  BY <2>10 DEF c, q, L, o, v, w, x, y, S, In, D1, D2, weight
<1>. QED
  BY <1>1, <1>5, <1>6, <1>7

\* Nor is what is owed to all of them more than is covered, if the tokens gained cover what
\* the liquidity in range gains in depth and earns.
Gains(side, liquidity, old, new, d, gained) ==
    ONE * (liquidity * (Depth(side, new) - Depth(side, old))) + Scale(side) * (liquidity * d)
        <= (ONE * Scale(side)) * gained

LEMMA CoveredMoves ==
  ASSUME NEW side \in Sides, PositionsFit(positions), NEW old \in Price, NEW new \in Price,
         NEW t, NEW d \in Nat, NEW e \in [DOMAIN positions -> GrowthType],
         NEW e2 \in [DOMAIN positions -> GrowthType], NEW kept \in Int, NEW gained \in Int,
         \A p \in DOMAIN positions : positions[p].liquidity > 0 =>
             /\ Stays(positions[p], t, old, new)
             /\ e2[p][side] <= IF InRange(positions[p], t) THEN e[p][side] + d ELSE e[p][side],
         Covered(side, kept, positions, old, e),
         Gains(side, SumFunction(Within(positions, t)), old, new, d, gained)
  PROVE  Covered(side, kept + gained, positions, new, e2)
<1>. DEFINE x == Depth(side, old)  y == Depth(side, new)  S == Scale(side)
            L == SumFunction(Within(positions, t))
            c == ONE * (y - x) + S * d
            f == Debts(side, positions, old, e)
            g == Debts(side, positions, new, e2)
            w == Within(positions, t)
<1>1. x \in Nat /\ y \in Nat /\ S \in Nat /\ ONE \in Nat /\ L \in Nat
  BY DepthFacts, AmmMathAssumption, WeightTypes
<1>2. c \in Int
  <2>. HIDE DEF x, y, S
  <2>. QED  BY <1>1
<1>3. /\ DOMAIN f = DOMAIN positions /\ DOMAIN g = DOMAIN f /\ DOMAIN w = DOMAIN f
      /\ IsFiniteSet(DOMAIN f)
  BY DEF Debts, Within, PositionsFit
<1>4. ASSUME NEW p \in DOMAIN f
      PROVE  f[p] \in Int /\ g[p] \in Int /\ w[p] \in Int /\ g[p] <= f[p] + c * w[p]
  <2>1. p \in DOMAIN positions /\ e[p] \in GrowthType /\ e2[p] \in GrowthType /\ side \in Growths
    BY <1>3 DEF Growths
  <2>2. e[p][side] \in Nat /\ e2[p][side] \in Nat
    BY <2>1, WordFacts DEF GrowthType, Word
  <2>3. /\ f[p] = Debt(side, positions[p], old, e[p][side])
        /\ g[p] = Debt(side, positions[p], new, e2[p][side])
    BY <2>1 DEF Debts
  <2>4. f[p] \in Int /\ g[p] \in Int
    BY <2>1, <2>2, <2>3, DebtType
  <2>5. w[p] \in Int
    BY <2>1, DebtType, PositionFacts DEF Within
  <2>6. Debt(side, positions[p], new, e2[p][side]) <= Debt(side, positions[p], old, e[p][side])
             + (ONE * (Depth(side, new) - Depth(side, old)) + Scale(side) * d) * Within(positions, t)[p]
    BY <2>1, <2>2, DebtMoves
  <2>. HIDE DEF f, g
  <2>. QED  BY <2>3, <2>4, <2>5, <2>6
<1>. HIDE DEF f, g, w
<1>5. /\ SumFunction(f) \in Int /\ SumFunction(g) \in Int
      /\ SumFunction(g) <= SumFunction(f) + c * SumFunction(w)
  <2>. HIDE DEF c
  <2>. QED  BY <1>2, <1>3, <1>4, SumShifted
<1>6. SumFunction(f) <= (ONE * S) * kept
  BY DEF Covered, f
<1>7. ONE * (L * (y - x)) + S * (L * d) <= (ONE * S) * gained
  BY DEF Gains
<1>8. SumFunction(w) = L
  BY DEF w
<1>. HIDE DEF x, y, S, L
<1>9. c * L = ONE * (L * (y - x)) + S * (L * d)
  BY <1>1
<1>. HIDE DEF c
<1>. DEFINE m == ONE * S  a == m * kept  b == m * gained  k == c * L  total == m * (kept + gained)
<1>10. m \in Nat /\ k \in Int
  BY <1>1, <1>2
<1>. HIDE DEF k
<1>11. a \in Int /\ b \in Int /\ total = a + b
  <2>. HIDE DEF m
  <2>. QED  BY <1>10
<1>12. SumFunction(g) <= SumFunction(f) + k /\ SumFunction(f) <= a /\ k <= b
  BY <1>5, <1>6, <1>7, <1>8, <1>9 DEF k
<1>. HIDE DEF a, b, total
<1>13. SumFunction(g) <= total
  BY <1>5, <1>10, <1>11, <1>12
<1>. QED
  BY <1>13 DEF Covered, g, total, m, S

-----------------------------------------------------------------------------
(* A step of a swap leaves the vaults covering what is owed *)

LEMMA PricesInOrder ==
  ASSUME NEW i \in TickIndexes, NEW j \in TickIndexes, i <= j
  PROVE  TickPrice[i] <= TickPrice[j]
<1>1. i \in Int /\ j \in Int /\ TickPrice[i] \in Nat /\ TickPrice[j] \in Nat
  BY PoolConstants
<1>2. i < j => TickPrice[i] < TickPrice[j]
  BY PricesRise
<1>. QED
  BY <1>1, <1>2

\* The prices of the ticks up to the current one, and of those after it.
LEMMA TickSides ==
  ASSUME NEW t \in Int, MIN_TICK_INDEX - 1 <= t, t <= MAX_TICK_INDEX, NEW price \in Nat,
         MatchesTick(price, t), NEW k \in TickIndexes
  PROVE  IF k <= t THEN TickPrice[k] <= price ELSE price <= TickPrice[k]
<1>1. /\ k \in Int /\ MIN_TICK_INDEX <= k /\ k <= MAX_TICK_INDEX /\ TickPrice[k] \in Nat
      /\ \A i \in Int : MIN_TICK_INDEX <= i /\ i <= MAX_TICK_INDEX => i \in TickIndexes
      /\ \A i \in TickIndexes : TickPrice[i] \in Nat
      /\ MIN_TICK_INDEX \in Int /\ MAX_TICK_INDEX \in Int
  BY PoolConstants
<1>2. CASE k <= t
  <2>1. t \in TickIndexes /\ MIN_TICK_INDEX <= t
    BY <1>1, <1>2
  <2>2. TickPrice[t] <= price /\ TickPrice[k] <= TickPrice[t] /\ TickPrice[t] \in Nat
    BY <1>1, <1>2, <2>1, PricesInOrder DEF MatchesTick
  <2>. QED  BY <1>1, <1>2, <2>2
<1>3. CASE ~(k <= t)
  <2>. DEFINE a == t + 1
  <2>1. a \in TickIndexes /\ t < MAX_TICK_INDEX /\ a <= k
    BY <1>1, <1>3
  <2>2. price <= TickPrice[a]
    BY <2>1 DEF MatchesTick
  <2>. HIDE DEF a
  <2>3. TickPrice[a] <= TickPrice[k] /\ TickPrice[a] \in Nat
    BY <1>1, <2>1, PricesInOrder
  <2>. QED  BY <1>1, <1>3, <2>2, <2>3
<1>. QED
  BY <1>2, <1>3

\* The price stays inside or outside of every range that has liquidity: its bounds are
\* initialized ticks, and none is passed.
LEMMA StepStays ==
  ASSUME PositionsFit(positions), NEW limit, NEW exactIn, NEW toQuote \in BOOLEAN,
         NEW s, SwapFits(s, limit, toQuote), NEW next, NEW step,
         Reaches(s, limit, exactIn, toQuote, next, step),
         NEW p \in DOMAIN positions, positions[p].liquidity > 0
  PROVE  Stays(positions[p], s.tick, s.price, step.price)
<1>. DEFINE q == positions[p]  l == q.lower  u == q.upper  i == next.index  t == s.tick
            old == s.price  new == step.price
<1>1. /\ s \in SwapStateType /\ TicksFit(positions, s.ticks)
      /\ PriceFits(positions, t, old, s.liquidity)
  BY DEF SwapFits
<1>2. /\ t \in Int /\ MIN_TICK_INDEX - 1 <= t /\ t <= MAX_TICK_INDEX /\ MatchesTick(old, t)
      /\ old \in Nat /\ DOMAIN s.ticks = UsableTicks
  BY <1>1 DEF PriceFits, SwapStateType
<1>3. /\ i \in TickIndexes /\ new \in Nat /\ NothingSkipped(s.ticks, t, i, toQuote)
      /\ IF toQuote THEN new <= old /\ TickPrice[i] <= new ELSE old <= new /\ new <= TickPrice[i]
  BY DEF Reaches
<1>4. /\ l \in UsableTicks /\ u \in UsableTicks /\ l < u
      /\ s.ticks[l].initialized /\ s.ticks[u].initialized
  BY <1>1, PositionFacts, BoundsInitialized
<1>5. l \in TickIndexes /\ u \in TickIndexes
  BY <1>4, PoolConstants
<1>6. /\ \A k \in TickIndexes : k \in Int /\ MIN_TICK_INDEX <= k /\ k <= MAX_TICK_INDEX
      /\ \A k \in TickIndexes : TickPrice[k] \in Nat
      /\ \A k \in Int : MIN_TICK_INDEX <= k /\ k <= MAX_TICK_INDEX => k \in TickIndexes
      /\ MIN_TICK_INDEX \in Int /\ MAX_TICK_INDEX \in Int
  BY PoolConstants
<1>7. IF toQuote
      THEN i <= t /\ (l <= t => l <= i) /\ (u <= t => u <= i)
      ELSE t < i /\ (t < l => i <= l) /\ (t < u => i <= u)
  <2>1. l \in Int /\ u \in Int /\ i \in Int
    BY <1>3, <1>5, <1>6
  <2>2. CASE toQuote
    <3>1. /\ i <= t /\ ~(i < l /\ l <= t) /\ ~(i < u /\ u <= t)
      BY <1>2, <1>3, <1>4, <2>2 DEF NothingSkipped
    <3>. HIDE DEF l, u, i, t
    <3>. QED  BY <1>2, <2>1, <2>2, <3>1
  <2>3. CASE ~toQuote
    <3>1. /\ t < i /\ ~(t < l /\ l < i) /\ ~(t < u /\ u < i)
      BY <1>2, <1>3, <1>4, <2>3 DEF NothingSkipped
    <3>. HIDE DEF l, u, i, t
    <3>. QED  BY <1>2, <2>1, <2>3, <3>1
  <2>. QED  BY <2>2, <2>3
<1>8. InRange(q, t) <=> l <= t /\ t < u
  BY DEF InRange
<1>9. Stays(q, t, old, new) <=>
          IF l <= t /\ t < u
          THEN TickPrice[l] <= old /\ old <= TickPrice[u] /\ TickPrice[l] <= new /\ new <= TickPrice[u]
          ELSE \/ old <= TickPrice[l] /\ new <= TickPrice[l]
               \/ TickPrice[u] <= old /\ TickPrice[u] <= new
  BY <1>8 DEF Stays
<1>. HIDE DEF l, u, i, t, old, new
\* Where the price is between the current tick and the next one.
<1>10. ASSUME NEW k \in TickIndexes, k <= t PROVE TickPrice[k] <= old
  BY <1>2, <1>10, TickSides
<1>11. ASSUME NEW k \in TickIndexes, t < k PROVE old <= TickPrice[k]
  <2>1. ~(k <= t)
    BY <1>2, <1>6, <1>11
  <2>. QED  BY <1>2, <2>1, TickSides
<1>12. /\ l <= i => TickPrice[l] <= TickPrice[i]
       /\ u <= i => TickPrice[u] <= TickPrice[i]
       /\ i <= l => TickPrice[i] <= TickPrice[l]
       /\ i <= u => TickPrice[i] <= TickPrice[u]
  BY <1>3, <1>5, PricesInOrder
<1>13. /\ l <= t => TickPrice[l] <= old
       /\ u <= t => TickPrice[u] <= old
       /\ t < l => old <= TickPrice[l]
       /\ t < u => old <= TickPrice[u]
  BY <1>5, <1>10, <1>11
<1>14. /\ l \in Int /\ u \in Int /\ TickPrice[l] \in Nat /\ TickPrice[u] \in Nat /\ TickPrice[i] \in Nat
  BY <1>3, <1>5, <1>6
<1>. DEFINE pl == TickPrice[l]  pu == TickPrice[u]  pi == TickPrice[i]
<1>. HIDE DEF pl, pu, pi
<1>15. IF l <= t /\ t < u
       THEN pl <= old /\ old <= pu /\ pl <= new /\ new <= pu
       ELSE (old <= pl /\ new <= pl) \/ (pu <= old /\ pu <= new)
  <2>1. CASE toQuote
    BY <1>2, <1>3, <1>4, <1>7, <1>12, <1>13, <1>14, <2>1 DEF pl, pu, pi
  <2>2. CASE ~toQuote
    BY <1>2, <1>3, <1>4, <1>7, <1>12, <1>13, <1>14, <2>2 DEF pl, pu, pi
  <2>. QED  BY <2>1, <2>2
<1>. QED
  BY <1>9, <1>15 DEF pl, pu, l, u, t, old, new

\* A position earns what is paid while the tick is in its range, or less if that wraps.
LEMMA EarningValues ==
  ASSUME NEW e \in [DOMAIN positions -> GrowthType], NEW t, NEW g \in Growths, NEW d \in Word,
         NEW p \in DOMAIN positions, NEW side \in Growths
  PROVE  Earning(e, t, g, d)[p][side] <=
             IF InRange(positions[p], t) THEN e[p][side] + (IF side = g THEN d ELSE 0) ELSE e[p][side]
<1>. DEFINE e2 == Earning(e, t, g, d)[p][side]  x == e[p][side]
<1>1. e[p] \in GrowthType /\ x \in Nat /\ d \in Nat /\ WORD \in Nat
  BY WordFacts DEF GrowthType, Word
<1>2. Earning(e, t, g, d)[p] = IF positions[p].liquidity > 0 /\ InRange(positions[p], t)
                               THEN Grown(e[p], g, d) ELSE e[p]
  BY DEF Earning, Grown
<1>3. Grown(e[p], g, d)[side] = IF side = g THEN WrappingAdd(x, d) ELSE x
  BY <1>1, GrownValues
<1>4. WrappingAdd(x, d) <= x + d
  BY <1>1 DEF WrappingAdd
<1>5. e2 \in {x, Grown(e[p], g, d)[side]} /\ (~InRange(positions[p], t) => e2 = x)
  BY <1>2
<1>. HIDE DEF e2, x
<1>6. e2 <= IF InRange(positions[p], t) THEN x + (IF side = g THEN d ELSE 0) ELSE x
  BY <1>1, <1>3, <1>4, <1>5
<1>. QED
  BY <1>6 DEF e2, x

\* The fee of a step is divided between the protocol and the liquidity in range.
Divided(s, fee, input, protocolFee, d, paid) ==
    /\ protocolFee \in Nat /\ d \in Word
    /\ s.liquidity * d <= ONE * (fee - protocolFee)
    /\ paid.protocolFee = s.protocolFee + protocolFee
    /\ paid.earned = Earning(s.earned, s.tick, input, d)

LEMMA FeeDivided ==
  ASSUME amm \in AmmType, NEW s \in SwapStateType, NEW step, step.fee \in Nat,
         NEW exactIn \in BOOLEAN, NEW toQuote \in BOOLEAN
  PROVE  LET paid == Paid(s, step, exactIn, toQuote)
         IN  /\ \E protocolFee, d : Divided(s, step.fee, Input(toQuote), protocolFee, d, paid)
             /\ paid.remaining = Left(s, step, exactIn) /\ paid.calculated = Counted(s, step, exactIn)
<1>. DEFINE fee == step.fee
            input == Input(toQuote)
            rate == amm.protocolFeeRate
            M == PROTOCOL_FEE_RATE_MUL_VALUE
            protocolFee == (fee * rate) \div M
            rest == fee - protocolFee
            grown == IF s.liquidity = 0 THEN 0 ELSE (rest * ONE) \div s.liquidity
            d == grown % WORD
            total == s.protocolFee + protocolFee
            growth == Grown(s.growth, input, d)
            e == Earning(s.earned, s.tick, input, d)
            left == Left(s, step, exactIn)
            counted == Counted(s, step, exactIn)
            price == step.price
            paid == Paid(s, step, exactIn, toQuote)
<1>1. s.liquidity \in Nat /\ s.protocolFee \in Nat /\ ONE \in Nat \ {0}
  BY AmmMathAssumption DEF SwapStateType
<1>2. protocolFee \in Nat /\ protocolFee <= fee
  <2>1. M \in Nat \ {0} /\ rate \in Nat /\ rate <= M /\ fee \in Nat
    BY LiquidityPoolAssumption DEF AmmType
  <2>. DEFINE n == fee * rate  m == fee * M
  <2>. HIDE DEF rate, M, fee
  <2>2. n \in Nat /\ n <= m /\ m = M * fee
    BY <2>1
  <2>3. n \div M \in Nat /\ n \div M <= fee
    <3>. HIDE DEF n, m
    <3>. QED  BY <2>1, <2>2
  <2>. QED  BY <2>3
<1>3. d \in Word /\ s.liquidity * d <= ONE * rest
  <2>. DEFINE L == s.liquidity
  <2>0. rest \in Nat /\ L \in Nat
    <3>. HIDE DEF protocolFee
    <3>. QED  BY <1>1, <1>2
  <2>. HIDE DEF rest
  <2>1. grown \in Nat /\ L * grown <= ONE * rest
    <3>1. CASE L = 0
      BY <1>1, <2>0, <3>1
    <3>2. CASE L # 0
      <4>. DEFINE n == rest * ONE
      <4>1. n \in Nat /\ n = ONE * rest
        BY <1>1, <2>0
      <4>2. grown = n \div L
        BY <3>2
      <4>. HIDE DEF n, L, grown
      <4>. QED  BY <2>0, <3>2, <4>1, <4>2
    <3>. QED  BY <3>1, <3>2
  <2>. HIDE DEF grown, L
  <2>2. d \in Word /\ d <= grown
    BY <2>1, WordFacts DEF Word
  <2>3. L * d <= L * grown /\ d \in Nat
    <3>1. d \in Nat
      BY <2>2, WordFacts DEF Word
    <3>. HIDE DEF d
    <3>. QED  BY <2>0, <2>1, <2>2, <3>1, MultipleMonotone
  <2>. DEFINE x == L * d  y == L * grown  z == ONE * rest
  <2>4. x \in Int /\ y \in Int /\ z \in Int
    <3>. HIDE DEF d
    <3>. QED  BY <1>1, <2>0, <2>1, <2>3
  <2>5. x <= z
    <3>1. x <= y /\ y <= z
      BY <2>1, <2>3
    <3>. HIDE DEF x, y, z
    <3>. QED  BY <2>4, <3>1
  <2>. QED  BY <2>2, <2>5 DEF L
<1>4. FeesTaken(s, fee, input) = [s EXCEPT !.protocolFee = total, !.growth = growth, !.earned = e]
  BY DEF FeesTaken, Grown
<1>5. paid = [FeesTaken(s, fee, input) EXCEPT !.remaining = left, !.calculated = counted, !.price = price]
  BY DEF Paid
<1>. HIDE DEF growth, e, d, protocolFee, grown, left, counted, price, paid, fee, input
<1>6. paid = [s EXCEPT !.protocolFee = total, !.growth = growth, !.earned = e,
                       !.remaining = left, !.calculated = counted, !.price = price]
  BY <1>4, <1>5 DEF SwapStateType
<1>7. paid.protocolFee = total /\ paid.earned = e /\ paid.remaining = left /\ paid.calculated = counted
  <2>. HIDE DEF total
  <2>. QED  BY <1>6 DEF SwapStateType
<1>8. Divided(s, fee, input, protocolFee, d, paid)
  BY <1>2, <1>3, <1>7 DEF Divided, e
<1>9. \E f, x : Divided(s, fee, input, f, x, paid)
  BY <1>8
<1>. QED
  BY <1>7, <1>9 DEF paid, left, counted, fee, input

\* Moving to the other side of a tick takes nothing more.
LEMMA ArrivedAmounts ==
  ASSUME NEW s, NEW starts, NEW next, NEW step, NEW exactIn, NEW toQuote,
         Paid(s, step, exactIn, toQuote) \in SwapStateType,
         Arrived(s, starts, next, step, exactIn, toQuote).ok
  PROVE  LET result == Arrived(s, starts, next, step, exactIn, toQuote)
             paid == Paid(s, step, exactIn, toQuote)
         IN  /\ result.price = paid.price /\ result.earned = paid.earned
             /\ result.protocolFee = paid.protocolFee
             /\ result.remaining = paid.remaining /\ result.calculated = paid.calculated
<1>. DEFINE result == Arrived(s, starts, next, step, exactIn, toQuote)
            paid == Paid(s, step, exactIn, toQuote)
            Alike(x) == /\ x.price = paid.price /\ x.earned = paid.earned
                        /\ x.protocolFee = paid.protocolFee
                        /\ x.remaining = paid.remaining /\ x.calculated = paid.calculated
<1>1. result = IF step.price = TickPrice[next.index] THEN Cross(paid, starts, next, toQuote)
               ELSE IF step.price # s.price THEN [paid EXCEPT !.tick = TickAt(step.price)]
               ELSE paid
  BY DEF Arrived
<1>2. paid \in SwapStateType /\ result.ok
  OBVIOUS
<1>. HIDE DEF paid, result
<1>3. Cross(paid, starts, next, toQuote).ok => Alike(Cross(paid, starts, next, toQuote))
  <2>. DEFINE i == next.index
              k == IF toQuote THEN i - 1 ELSE i
              array == ArrayAfter(next.array, starts[next.array], i, toQuote)
              initialized == i \in DOMAIN paid.ticks /\ paid.ticks[i].initialized
              liquidity == paid.liquidity + (IF toQuote THEN -paid.ticks[i].net ELSE paid.ticks[i].net)
              moved == Moved(paid, k, array)
              crossed == [moved EXCEPT !.liquidity = liquidity, !.ticks = Flipped(paid.ticks, i, paid.growth)]
              result2 == Cross(paid, starts, next, toQuote)
  <2>1. result2 = IF ~initialized THEN moved
                  ELSE IF liquidity < 0 THEN Failed(paid) ELSE crossed
    BY <1>2 DEF Cross, Moved, SwapStateType, Flipped
  <2>2. Failed(paid).ok = FALSE
    BY <1>2 DEF Failed, SwapStateType
  <2>3. Alike(moved) /\ Alike(crossed)
    <3>. HIDE DEF k, array, liquidity
    <3>. QED  BY <1>2 DEF SwapStateType, Moved
  <2>. HIDE DEF Alike, result2, moved, crossed, initialized, liquidity
  <2>4. result2.ok => Alike(result2)
    BY <2>1, <2>2, <2>3
  <2>. QED  BY <2>4 DEF result2
<1>4. Alike([paid EXCEPT !.tick = TickAt(step.price)]) /\ Alike(paid)
  BY <1>2 DEF SwapStateType
<1>. HIDE DEF Alike
<1>5. Alike(result)
  BY <1>1, <1>2, <1>3, <1>4
<1>. QED
  BY <1>5 DEF Alike, result, paid

\* What an input, less the protocol's part of the fee, and an output make of it.
LEMMA InputGains ==
  ASSUME NEW side \in Sides, NEW L \in Nat, NEW old \in Price, NEW new \in Price,
         NEW in \in Nat, NEW fee \in Nat, NEW protocolFee \in Nat, NEW d \in Nat,
         L * (Depth(side, new) - Depth(side, old)) <= Scale(side) * in,
         L * d <= ONE * (fee - protocolFee)
  PROVE  Gains(side, L, old, new, d, in + (fee - protocolFee))
<1>. DEFINE S == Scale(side)  x == Depth(side, old)  y == Depth(side, new)
            g == y - x  w == L * g  r == L * d  rest == fee - protocolFee
            a == S * in  b == ONE * rest
<1>1. ONE \in Nat /\ S \in Nat /\ g \in Int /\ rest \in Int
  <2>1. ONE \in Nat /\ S \in Nat /\ x \in Nat /\ y \in Nat
    BY DepthFacts, AmmMathAssumption
  <2>. HIDE DEF x, y
  <2>. QED  BY <2>1
<1>2. w <= a /\ r <= b
  OBVIOUS
<1>3. Gains(side, L, old, new, d, in + rest) <=> ONE * w + S * r <= (ONE * S) * (in + rest)
  BY DEF Gains
<1>. HIDE DEF S, g, rest
<1>4. w \in Int /\ r \in Int /\ a \in Int /\ b \in Int
  BY <1>1
<1>5. (ONE * S) * (in + rest) = ONE * a + S * b
  BY <1>1
<1>. HIDE DEF w, r, a, b
<1>6. ONE * w <= ONE * a /\ S * r <= S * b
  BY <1>1, <1>2, <1>4, MultipleMonotone
<1>. DEFINE ow == ONE * w  oa == ONE * a  sr == S * r  sb == S * b
<1>7. ow \in Int /\ oa \in Int /\ sr \in Int /\ sb \in Int /\ ow <= oa /\ sr <= sb
  BY <1>1, <1>4, <1>6
<1>. HIDE DEF ow, oa, sr, sb
<1>8. ow + sr <= oa + sb
  BY <1>7
<1>9. Gains(side, L, old, new, d, in + rest)
  BY <1>3, <1>5, <1>8 DEF ow, oa, sr, sb
<1>. QED
  BY <1>9 DEF rest

LEMMA OutputGains ==
  ASSUME NEW side \in Sides, NEW L \in Nat, NEW old \in Price, NEW new \in Price, NEW out \in Nat,
         Scale(side) * out <= L * (Depth(side, old) - Depth(side, new))
  PROVE  Gains(side, L, old, new, 0, -out)
<1>. DEFINE S == Scale(side)  x == Depth(side, old)  y == Depth(side, new)
            g == x - y  h == y - x  w == L * g  a == S * out
<1>1. ONE \in Nat /\ S \in Nat /\ g \in Int /\ h = -g
  <2>1. ONE \in Nat /\ S \in Nat /\ x \in Nat /\ y \in Nat
    BY DepthFacts, AmmMathAssumption
  <2>. HIDE DEF x, y
  <2>. QED  BY <2>1
<1>2. a <= w
  OBVIOUS
<1>3. Gains(side, L, old, new, 0, -out) <=> ONE * (L * h) + S * (L * 0) <= (ONE * S) * (-out)
  BY DEF Gains
<1>. HIDE DEF S, g, h
<1>4. w \in Int /\ a \in Int
  BY <1>1
<1>5. (ONE * S) * (-out) = -(ONE * a) /\ ONE * (L * h) = -(ONE * w) /\ S * (L * 0) = 0
  BY <1>1
<1>. HIDE DEF w, a
<1>6. ONE * a <= ONE * w
  BY <1>1, <1>2, <1>4, MultipleMonotone
<1>. DEFINE ow == ONE * w  oa == ONE * a
<1>7. ow \in Int /\ oa \in Int /\ oa <= ow
  BY <1>1, <1>4, <1>6
<1>. HIDE DEF ow, oa
<1>8. -ow + 0 <= -oa
  BY <1>7
<1>. QED
  BY <1>3, <1>5, <1>8 DEF ow, oa

\* What the pool has for its positions during a swap that began with an amount.
In(r, amount, exactIn)  == IF exactIn THEN amount - r.remaining ELSE r.calculated
Out(r, amount, exactIn) == IF exactIn THEN r.calculated ELSE amount - r.remaining
KeptIn(r, amount, exactIn, side) ==
    vault[side] + In(r, amount, exactIn) - amm.protocolFeeOwed[side] - r.protocolFee
KeptOut(r, amount, exactIn, side) ==
    vault[side] - Out(r, amount, exactIn) - amm.protocolFeeOwed[side]
SwapCovered(r, amount, exactIn, toQuote) ==
    /\ Covered(Input(toQuote), KeptIn(r, amount, exactIn, Input(toQuote)), positions, r.price, r.earned)
    /\ Covered(Output(toQuote), KeptOut(r, amount, exactIn, Output(toQuote)), positions, r.price, r.earned)

LEMMA ArrivedCovered ==
  ASSUME amm \in AmmType, PositionsFit(positions), vault \in [Sides -> Int], NEW amount \in Int, NEW starts,
         NEW limit \in MIN_SQRT_PRICE..MAX_SQRT_PRICE, NEW exactIn \in BOOLEAN, NEW toQuote \in BOOLEAN,
         NEW s, SwapFits(s, limit, toQuote), SwapCovered(s, amount, exactIn, toQuote),
         NEW next, NEW step, Reaches(s, limit, exactIn, toQuote, next, step),
         Arrived(s, starts, next, step, exactIn, toQuote).ok
  PROVE  SwapCovered(Arrived(s, starts, next, step, exactIn, toQuote), amount, exactIn, toQuote)
<1>. DEFINE result == Arrived(s, starts, next, step, exactIn, toQuote)
            paid == Paid(s, step, exactIn, toQuote)
            input == Input(toQuote)
            output == Output(toQuote)
            L == s.liquidity
            old == s.price
            new == step.price
<1>1. /\ s \in SwapStateType /\ PriceFits(positions, s.tick, s.price, s.liquidity)
      /\ s.remaining \in Int /\ s.calculated \in Int /\ s.protocolFee \in Int /\ L \in Nat
      /\ s.earned \in [DOMAIN positions -> GrowthType]
  BY AmmMathAssumption DEF SwapFits, SwapStateType
<1>2. old \in Price /\ L = SumFunction(Within(positions, s.tick))
  BY <1>1, PricesAreUnits DEF PriceFits
<1>3. /\ input \in Sides /\ output \in Sides /\ input # output /\ input \in Growths /\ output \in Growths
  BY DEF Input, Output, Sides, Growths
<1>4. step.in \in Nat /\ step.out \in Nat /\ step.fee \in Nat
  BY DEF Reaches
<1>5. /\ new \in Price
      /\ L * (Depth(input, new) - Depth(input, old)) <= Scale(input) * step.in
      /\ Scale(output) * step.out <= L * (Depth(output, old) - Depth(output, new))
  <2>1. PICK goal \in Nat \ {0} :
           /\ step = ComputeSwap(s.remaining, amm.feeRate, s.liquidity, s.price, goal, exactIn, toQuote)
           /\ step.ok /\ IF toQuote THEN goal <= s.price ELSE s.price <= goal
           /\ goal \in MIN_SQRT_PRICE..MAX_SQRT_PRICE
    BY DEF Reaches
  <2>2. goal \in Price /\ amm.feeRate \in 0..(FEE_RATE_MUL_VALUE - 1) /\ s.remaining \in 0..U64_MAX
    BY <1>1, <2>1, PricesAreUnits DEF AmmType, SwapStateType
  <2>3. IF toQuote THEN goal <= old ELSE old <= goal
    BY <2>1
  <2>4. ComputeSwap(s.remaining, amm.feeRate, L, old, goal, exactIn, toQuote).ok
    BY <2>1
  <2>5. LET z == ComputeSwap(s.remaining, amm.feeRate, L, old, goal, exactIn, toQuote)
        IN  /\ z.price \in Price
            /\ L * (Depth(input, z.price) - Depth(input, old)) <= Scale(input) * z.in
            /\ Scale(output) * z.out <= L * (Depth(output, old) - Depth(output, z.price))
    <3>. HIDE DEF L, old
    <3>. QED  BY <1>1, <1>2, <2>2, <2>3, <2>4, StepCovered
  <2>6. step = ComputeSwap(s.remaining, amm.feeRate, L, old, goal, exactIn, toQuote)
    BY <2>1
  <2>. HIDE DEF L, old, input, output
  <2>. QED  BY <2>5, <2>6
<1>6. PICK protocolFee, d : Divided(s, step.fee, input, protocolFee, d, paid)
  BY <1>1, <1>4, FeeDivided
<1>7. /\ protocolFee \in Nat /\ d \in Word /\ d \in Nat
      /\ L * d <= ONE * (step.fee - protocolFee)
      /\ paid.protocolFee = s.protocolFee + protocolFee
      /\ paid.earned = Earning(s.earned, s.tick, input, d)
  BY <1>6, WordFacts DEF Divided, Word
<1>8. /\ paid.remaining = Left(s, step, exactIn) /\ paid.calculated = Counted(s, step, exactIn)
  BY <1>1, <1>4, FeeDivided
<1>9. paid \in SwapStateType /\ paid.price = new /\ paid.earned \in [DOMAIN positions -> GrowthType]
  <2>1. paid \in SwapStateType /\ paid.price = new
    BY PaidFits
  <2>. HIDE DEF paid
  <2>. QED  BY <2>1 DEF SwapStateType
<1>10. /\ result.price = new /\ result.earned = paid.earned
       /\ result.protocolFee = paid.protocolFee
       /\ result.remaining = paid.remaining /\ result.calculated = paid.calculated
  BY <1>9, ArrivedAmounts
<1>. HIDE DEF result, paid, input, output, L
<1>11. ASSUME NEW p \in DOMAIN positions, positions[p].liquidity > 0
       PROVE  Stays(positions[p], s.tick, old, new)
  BY <1>11, StepStays
<1>. HIDE DEF old, new
\* The token that is put in.
<1>12. Covered(input, KeptIn(result, amount, exactIn, input), positions, new, paid.earned)
  <2>. DEFINE kept == KeptIn(s, amount, exactIn, input)  gained == step.in + (step.fee - protocolFee)
  <2>1. kept \in Int /\ gained \in Int /\ KeptIn(result, amount, exactIn, input) = kept + gained
    <3>1. vault[input] \in Int /\ amm.protocolFeeOwed[input] \in Int
      BY <1>3 DEF AmmType
    <3>. QED  BY <1>1, <1>4, <1>7, <1>8, <1>10, <3>1 DEF KeptIn, In, Left, Counted
  <2>2. Covered(input, kept, positions, old, s.earned)
    BY DEF SwapCovered, input, old
  <2>3. Gains(input, L, old, new, d, gained)
    BY <1>1, <1>2, <1>3, <1>4, <1>5, <1>7, InputGains
  <2>4. ASSUME NEW p \in DOMAIN positions
        PROVE  paid.earned[p][input] <= IF InRange(positions[p], s.tick) THEN s.earned[p][input] + d
                                                                         ELSE s.earned[p][input]
    BY <1>1, <1>3, <1>7, EarningValues
  <2>. HIDE DEF kept, gained
  <2>5. Covered(input, kept + gained, positions, new, paid.earned)
    BY <1>1, <1>2, <1>3, <1>5, <1>7, <1>9, <1>11, <2>1, <2>2, <2>3, <2>4, CoveredMoves
  <2>. QED  BY <2>1, <2>5
\* And the one that is taken out.
<1>13. Covered(output, KeptOut(result, amount, exactIn, output), positions, new, paid.earned)
  <2>. DEFINE kept == KeptOut(s, amount, exactIn, output)  gained == -step.out
  <2>1. kept \in Int /\ gained \in Int /\ KeptOut(result, amount, exactIn, output) = kept + gained
    <3>1. vault[output] \in Int /\ amm.protocolFeeOwed[output] \in Int
      BY <1>3 DEF AmmType
    <3>. QED  BY <1>1, <1>4, <1>8, <1>10, <3>1 DEF KeptOut, Out, Left, Counted
  <2>2. Covered(output, kept, positions, old, s.earned)
    BY DEF SwapCovered, output, old
  <2>3. Gains(output, L, old, new, 0, gained)
    BY <1>1, <1>2, <1>3, <1>4, <1>5, OutputGains
  <2>4. ASSUME NEW p \in DOMAIN positions
        PROVE  paid.earned[p][output] <= IF InRange(positions[p], s.tick) THEN s.earned[p][output] + 0
                                                                          ELSE s.earned[p][output]
    BY <1>1, <1>3, <1>7, EarningValues
  <2>. HIDE DEF kept, gained
  <2>5. Covered(output, kept + gained, positions, new, paid.earned)
    BY <1>1, <1>2, <1>3, <1>5, <1>9, <1>11, <2>1, <2>2, <2>3, <2>4, CoveredMoves
  <2>. QED  BY <2>1, <2>5
<1>. QED
  BY <1>10, <1>12, <1>13 DEF SwapCovered, result, input, output, new, paid

\* Every iteration of the loop, and so a swap, leaves the vaults covering what is owed.
LEMMA SwapLoopCovered ==
  ASSUME amm \in AmmType, PositionsFit(positions), vault \in [Sides -> Int], NEW amount \in Int,
         NEW starts, Len(starts) \in Nat, GoodStarts(starts),
         NEW limit \in MIN_SQRT_PRICE..MAX_SQRT_PRICE, NEW exactIn \in BOOLEAN, NEW toQuote \in BOOLEAN,
         NEW s, s.ok \in BOOLEAN, s.ok => SwapFits(s, limit, toQuote),
         s.ok => SwapCovered(s, amount, exactIn, toQuote)
  PROVE  LET s2 == SwapLoop(s, starts, limit, exactIn, toQuote)
         IN  s2.ok => SwapCovered(s2, amount, exactIn, toQuote)
<1>. DEFINE again == s.ok /\ s.remaining > 0 /\ s.price # limit
            result == SwapLoop(s, starts, limit, exactIn, toQuote)
            Reached == \E next, step : /\ Reaches(s, limit, exactIn, toQuote, next, step)
                                      /\ result = Arrived(s, starts, next, step, exactIn, toQuote)
<1>1. CASE ~again
  <2>1. result = s
    BY <1>1 DEF SwapLoop
  <2>. QED  BY <2>1
<1>2. CASE again
  <2>1. result = SwapStep(s, starts, limit, exactIn, toQuote)
    BY <1>2 DEF SwapLoop
  <2>2. s.ok /\ s.price # limit /\ SwapFits(s, limit, toQuote) /\ SwapCovered(s, amount, exactIn, toQuote)
    BY <1>2
  <2>3. result = Failed(s) \/ Reached
    BY <2>1, <2>2, StepEffect
  <2>4. CASE result = Failed(s)
    <3>1. result.ok = FALSE
      BY <2>2, <2>4 DEF SwapFits, Failed, SwapStateType
    <3>. QED  BY <3>1
  <2>5. CASE Reached
    <3>1. PICK next, step : /\ Reaches(s, limit, exactIn, toQuote, next, step)
                            /\ result = Arrived(s, starts, next, step, exactIn, toQuote)
      BY <2>5
    <3>. HIDE DEF result
    <3>2. result.ok => SwapCovered(result, amount, exactIn, toQuote)
      BY <2>2, <3>1, ArrivedCovered
    <3>. QED  BY <3>2 DEF result
  <2>. QED  BY <2>3, <2>4, <2>5
<1>. QED
  BY <1>1, <1>2

LEMMA RunCovered ==
  ASSUME amm \in AmmType, PositionsFit(positions), vault \in [Sides -> Int], NEW amount \in Int,
         NEW starts, Len(starts) \in Nat, GoodStarts(starts),
         NEW limit \in MIN_SQRT_PRICE..MAX_SQRT_PRICE, NEW exactIn \in BOOLEAN, NEW toQuote \in BOOLEAN,
         NEW s, s.ok \in BOOLEAN, s.ok => SwapFits(s, limit, toQuote),
         s.ok => SwapCovered(s, amount, exactIn, toQuote),
         NEW n \in Nat, NEW h, IsRun(h, n, s, starts, limit, exactIn, toQuote)
  PROVE  h[n].ok => SwapCovered(h[n], amount, exactIn, toQuote)
<1>. DEFINE Fits(x) == x.ok \in BOOLEAN /\ (x.ok => SwapFits(x, limit, toQuote))
            Kept(x) == Fits(x) /\ (x.ok => SwapCovered(x, amount, exactIn, toQuote))
            next(x) == SwapLoop(x, starts, limit, exactIn, toQuote)
            Good == {k \in Nat : k <= n => Kept(h[k])}
<1>1. h = [k \in 0..n |-> IF k = 0 THEN s ELSE next(h[k - 1])]
  BY DEF IsRun
<1>2. ASSUME NEW x, Kept(x) PROVE Kept(next(x))
  <2>1. Fits(next(x))
    BY <1>2, SwapLoopKeeps
  <2>2. next(x).ok => SwapCovered(next(x), amount, exactIn, toQuote)
    BY <1>2, SwapLoopCovered
  <2>. QED  BY <2>1, <2>2
<1>3. Kept(s)
  OBVIOUS
<1>. HIDE DEF Kept, next
<1>4. 0 \in Good
  <2>1. h[0] = s
    BY <1>1
  <2>. QED  BY <1>3, <2>1
<1>5. ASSUME NEW k \in Nat, k \in Good PROVE k + 1 \in Good
  <2>1. k + 1 <= n => h[k + 1] = next(h[k]) /\ k <= n
    BY <1>1
  <2>. QED  BY <1>2, <1>5, <2>1
<1>. HIDE DEF Good
<1>6. Nat \subseteq Good
  BY <1>4, <1>5, NatInductionBySet
<1>7. Kept(h[n])
  BY <1>6 DEF Good
<1>. QED
  BY <1>7 DEF Kept

LEMMA SwapResultCovered ==
  ASSUME amm \in AmmType, PositionsFit(positions), vault \in [Sides -> Int],
         NEW starts, Len(starts) \in Nat, GoodStarts(starts),
         NEW limit \in MIN_SQRT_PRICE..MAX_SQRT_PRICE, NEW exactIn \in BOOLEAN, NEW toQuote \in BOOLEAN,
         NEW amount \in Int, SwapFits(SwapStart(amount), limit, toQuote),
         SwapCovered(SwapStart(amount), amount, exactIn, toQuote)
  PROVE  LET r == SwapResult(amount, starts, limit, exactIn, toQuote)
         IN  r.ok => SwapCovered(r, amount, exactIn, toQuote)
<1>. DEFINE s == SwapStart(amount)
            Is(h) == IsRun(h, MaxSteps, s, starts, limit, exactIn, toQuote)
            run == CHOOSE h : Is(h)
<1>1. MaxSteps \in Nat
  <2>1. Cardinality(TickIndexes) \in Nat
    BY PoolConstants, FS_CardinalityType
  <2>. QED  BY <2>1 DEF MaxSteps
<1>2. SwapResult(amount, starts, limit, exactIn, toQuote) = run[MaxSteps]
  BY DEF SwapResult, IsRun
<1>3. s.ok \in BOOLEAN /\ (s.ok => SwapFits(s, limit, toQuote))
  BY DEF SwapFits, SwapStateType
<1>4. s.ok => SwapCovered(s, amount, exactIn, toQuote)
  OBVIOUS
<1>. HIDE DEF s
<1>5. Is(run)
  <2>1. \E h : Is(h)
    BY <1>1, RunExists
  <2>. HIDE DEF Is
  <2>. QED  BY <2>1
<1>. HIDE DEF run
<1>6. run[MaxSteps].ok => SwapCovered(run[MaxSteps], amount, exactIn, toQuote)
  BY <1>1, <1>3, <1>4, <1>5, RunCovered
<1>. QED
  BY <1>2, <1>6

-----------------------------------------------------------------------------
(* The invariant *)

\* Beside what fits together: the vaults, less what they owe the protocol, cover what is
\* owed to the positions with no rounding.
SolventInv ==
    /\ PoolInv
    /\ vault \in [Sides -> Int]
    /\ \A side \in Sides :
           Covered(side, vault[side] - amm.protocolFeeOwed[side], positions, amm.sqrtPrice, earned)

\* Only the growth of the reward depends on the clock.
LEMMA EarnedNowValues ==
  ASSUME PoolInv, NEW p \in DOMAIN positions, NEW side \in Sides
  PROVE  EarnedNow[p][side] = earned[p][side]
<1>1. earned \in [DOMAIN positions -> GrowthType] /\ side # "reward" /\ side \in Growths
  BY DEF PoolInv, EarningsFit, Sides, Growths
<1>2. earned[p] \in GrowthType
  BY <1>1
<1>. QED
  BY <1>1, <1>2 DEF EarnedNow, Earning, GrowthType

LEMMA EarnedNowDebts ==
  ASSUME PoolInv, NEW side \in Sides, NEW price
  PROVE  Debts(side, positions, price, EarnedNow) = Debts(side, positions, price, earned)
  BY EarnedNowValues DEF Debts

-----------------------------------------------------------------------------
(* The actions preserve it *)

LEMMA SwapSolvent ==
  ASSUME SolventInv, NEW amount \in SwapAmounts, NEW priceLimit \in PriceLimits \cup {NoLimit},
         NEW exactIn \in BOOLEAN, NEW toQuote \in BOOLEAN, NEW arrays \in ArrayCounts,
         Swap(amount, priceLimit, exactIn, toQuote, arrays)
  PROVE  SolventInv'
<1>. DEFINE starts == StartsGiven(toQuote, arrays)
            limit  == LimitOf(priceLimit, toQuote)
            input  == Input(toQuote)
            output == Output(toQuote)
            s == SwapStart(amount)
            r == SwapResult(amount, starts, limit, exactIn, toQuote)
            in  == IF exactIn THEN amount - r.remaining ELSE r.calculated
            out == IF exactIn THEN r.calculated ELSE amount - r.remaining
<1>1. /\ r.ok
      /\ amm' = [amm EXCEPT !.tick = r.tick, !.sqrtPrice = r.price, !.liquidity = r.liquidity,
                            !.growth = r.growth, !.rewardsUpdatedAt = now,
                            !.protocolFeeOwed[input] = @ + r.protocolFee]
      /\ vault' = [vault EXCEPT ![input] = @ + in, ![output] = @ - out]
      /\ earned' = r.earned /\ positions' = positions
  BY DEF Swap, StartsGiven, LimitOf, Input, Output
<1>2. /\ PoolInv /\ amm \in AmmType /\ PositionsFit(positions) /\ vault \in [Sides -> Int]
      /\ \A side \in Sides :
           Covered(side, vault[side] - amm.protocolFeeOwed[side], positions, amm.sqrtPrice, earned)
  BY DEF SolventInv, PoolInv
<1>3. /\ Len(starts) \in Nat /\ GoodStarts(starts) /\ limit \in MIN_SQRT_PRICE..MAX_SQRT_PRICE
      /\ SwapFits(s, limit, toQuote)
  BY <1>2, SwapBegins
<1>4. PoolInv'
  BY <1>2, SwapKeeps
<1>5. amount \in Int
  BY LiquidityPoolAssumption, AmmMathAssumption
<1>6. /\ input \in Sides /\ output \in Sides /\ input # output
      /\ \A side \in Sides : side = input \/ side = output
      /\ \A side \in Sides : vault[side] \in Int /\ amm.protocolFeeOwed[side] \in Int
  BY <1>2 DEF Input, Output, Sides, AmmType
<1>. HIDE DEF starts, limit
<1>7. SwapCovered(s, amount, exactIn, toQuote)
  <2>1. /\ s.remaining = amount /\ s.calculated = 0 /\ s.protocolFee = 0
        /\ s.price = amm.sqrtPrice /\ s.earned = EarnedNow
    BY DEF SwapStart
  <2>. HIDE DEF s
  <2>2. ASSUME NEW side \in Sides
        PROVE  Covered(side, vault[side] - amm.protocolFeeOwed[side], positions, amm.sqrtPrice, EarnedNow)
    BY <1>2, EarnedNowDebts DEF Covered
  <2>. HIDE DEF input, output
  <2>3. /\ KeptIn(s, amount, exactIn, input) = vault[input] - amm.protocolFeeOwed[input]
        /\ KeptOut(s, amount, exactIn, output) = vault[output] - amm.protocolFeeOwed[output]
    BY <1>5, <1>6, <2>1 DEF KeptIn, KeptOut, In, Out
  <2>. QED  BY <1>6, <2>1, <2>2, <2>3 DEF SwapCovered, input, output
<1>8. SwapFits(r, limit, toQuote) /\ SwapCovered(r, amount, exactIn, toQuote)
  <2>1. r.ok => SwapFits(r, limit, toQuote)
    <3>. HIDE DEF r, s
    <3>. QED  BY <1>2, <1>3, SwapResultKeeps DEF r, s
  <2>2. r.ok => SwapCovered(r, amount, exactIn, toQuote)
    <3>. HIDE DEF r, s
    <3>. QED  BY <1>2, <1>3, <1>5, <1>7, SwapResultCovered DEF r, s
  <2>. QED  BY <1>1, <2>1, <2>2
<1>. HIDE DEF r, s
<1>9. r.remaining \in Int /\ r.calculated \in Int /\ r.protocolFee \in Int
  BY <1>8, AmmMathAssumption DEF SwapFits, SwapStateType
<1>10. in \in Int /\ out \in Int
  BY <1>5, <1>9
<1>11. in = In(r, amount, exactIn) /\ out = Out(r, amount, exactIn)
  BY DEF In, Out
<1>. HIDE DEF in, out, input, output
<1>12. /\ amm'.sqrtPrice = r.price /\ vault' \in [Sides -> Int]
       /\ vault'[input] - amm'.protocolFeeOwed[input] = KeptIn(r, amount, exactIn, input)
       /\ vault'[output] - amm'.protocolFeeOwed[output] = KeptOut(r, amount, exactIn, output)
  <2>1. vault' \in [Sides -> Int] /\ vault'[input] = vault[input] + in /\ vault'[output] = vault[output] - out
    BY <1>1, <1>2, <1>6, <1>10
  <2>2. /\ amm'.sqrtPrice = r.price
        /\ amm'.protocolFeeOwed[input] = amm.protocolFeeOwed[input] + r.protocolFee
        /\ amm'.protocolFeeOwed[output] = amm.protocolFeeOwed[output]
    BY <1>1, <1>2, <1>6 DEF AmmType
  <2>. QED  BY <1>6, <1>9, <1>10, <1>11, <2>1, <2>2 DEF KeptIn, KeptOut
<1>13. /\ Covered(input, KeptIn(r, amount, exactIn, input), positions, r.price, r.earned)
       /\ Covered(output, KeptOut(r, amount, exactIn, output), positions, r.price, r.earned)
  BY <1>8 DEF SwapCovered, input, output
<1>14. ASSUME NEW side \in Sides
       PROVE  Covered(side, vault'[side] - amm'.protocolFeeOwed[side], positions', amm'.sqrtPrice, earned')
  BY <1>1, <1>6, <1>12, <1>13
<1>. QED
  BY <1>4, <1>12, <1>14 DEF SolventInv, Covered

\* One position is owed more, and as many tokens are gained.
LEMMA CoveredReplaced ==
  ASSUME NEW side \in Sides, NEW pos, PositionsFit(pos), NEW pos2, PositionsFit(pos2),
         DOMAIN pos2 = DOMAIN pos, NEW p \in DOMAIN pos, NEW price \in Price,
         NEW e \in [DOMAIN pos -> GrowthType], NEW e2 \in [DOMAIN pos -> GrowthType],
         \A q \in DOMAIN pos : q # p =>
             Debt(side, pos2[q], price, e2[q][side]) = Debt(side, pos[q], price, e[q][side]),
         NEW kept \in Int, NEW gained \in Int,
         Debt(side, pos2[p], price, e2[p][side])
             <= Debt(side, pos[p], price, e[p][side]) + (ONE * Scale(side)) * gained,
         Covered(side, kept, pos, price, e)
  PROVE  Covered(side, kept + gained, pos2, price, e2)
<1>. DEFINE f == Debts(side, pos, price, e)
            g == Debts(side, pos2, price, e2)
            unit == ONE * Scale(side)
            a == unit * kept  b == unit * gained  total == unit * (kept + gained)
<1>1. DOMAIN f = DOMAIN pos /\ DOMAIN g = DOMAIN f /\ IsFiniteSet(DOMAIN f)
  BY DEF Debts, PositionsFit
<1>2. ASSUME NEW q \in DOMAIN f
      PROVE  /\ f[q] = Debt(side, pos[q], price, e[q][side])
             /\ g[q] = Debt(side, pos2[q], price, e2[q][side])
             /\ f[q] \in Int /\ g[q] \in Int
  <2>1. q \in DOMAIN pos /\ e[q] \in GrowthType /\ e2[q] \in GrowthType /\ side \in Growths
    BY <1>1 DEF Growths
  <2>2. e[q][side] \in Nat /\ e2[q][side] \in Nat
    BY <2>1, WordFacts DEF GrowthType, Word
  <2>3. /\ f[q] = Debt(side, pos[q], price, e[q][side])
        /\ g[q] = Debt(side, pos2[q], price, e2[q][side])
    BY <2>1 DEF Debts
  <2>4. Debt(side, pos[q], price, e[q][side]) \in Int /\ Debt(side, pos2[q], price, e2[q][side]) \in Int
    BY <2>1, <2>2, DebtType
  <2>. HIDE DEF f, g
  <2>. QED  BY <2>3, <2>4
<1>3. /\ \A q \in DOMAIN f : q # p => g[q] = f[q]
      /\ g[p] <= f[p] + b /\ p \in DOMAIN f
  BY <1>1, <1>2
<1>4. SumFunction(f) <= a
  BY DEF Covered
<1>5. a \in Int /\ b \in Int /\ total = a + b
  <2>1. unit \in Nat
    BY AmmMathAssumption, DepthFacts
  <2>. HIDE DEF unit
  <2>. QED  BY <2>1
<1>. HIDE DEF f, g, a, b, total
<1>6. SumFunction(f) \in Int /\ SumFunction(g) = SumFunction(f) - f[p] + g[p]
  BY <1>1, <1>2, <1>3, SumUpdated
<1>7. SumFunction(g) <= total
  BY <1>2, <1>3, <1>4, <1>5, <1>6
<1>. QED
  BY <1>7 DEF Covered, g, total

\* What has been earned is rounded down when it becomes owed, or lost.
LEMMA SettledOwed ==
  ASSUME PoolInv, NEW p \in DOMAIN positions, NEW delta \in Int, NEW side \in Sides
  PROVE  LET q == positions[p]
             owed == Settled(q, delta).owed[side]
         IN  owed \in Nat /\ ONE * owed <= ONE * q.owed[side] + q.liquidity * EarnedNow[p][side]
<1>. DEFINE q == positions[p]
            inside == Inside(q.lower, q.upper, amm.tick, GrowthNow)
            w == WrappingSub(inside[side], q.checkpoint[side])
            L == q.liquidity
            old == q.owed[side]
            x == L * w
            accrued == Accrued(L, w)
            e == EarnedNow[p][side]
            m == U64_MAX + 1
            owed == Settled(q, delta).owed[side]
<1>1. /\ q \in PositionType /\ side \in Growths /\ PositionsFit(positions)
      /\ EarnedNow \in [DOMAIN positions -> GrowthType]
      /\ EarningsFit(positions, ticks, amm.tick, GrowthNow, EarnedNow)
  BY NowFits DEF PoolInv, PositionsFit, Growths
<1>2. owed = (old + accrued) % m
  <2>1. Settled(q, delta).owed = [g \in Growths |->
            (q.owed[g] + Accrued(q.liquidity, WrappingSub(inside[g], q.checkpoint[g]))) % m]
    BY <1>1 DEF Settled, PositionType
  <2>. QED  BY <1>1, <2>1
<1>3. L \in Nat /\ old \in Nat /\ ONE \in Nat \ {0} /\ m \in Nat \ {0} /\ WORD \in Nat \ {0}
  BY <1>1, AmmMathAssumption DEF PositionType
<1>4. e \in Nat
  <2>1. EarnedNow[p] \in GrowthType
    BY <1>1
  <2>. QED  BY <1>1, <2>1, WordFacts DEF GrowthType, Word
<1>5. L > 0 => w = e
  <2>1. inside[side] = InsideOf(ticks, q, amm.tick, GrowthNow, side)
    BY <1>1 DEF Inside, InsideOf
  <2>. HIDE DEF inside
  <2>. QED  BY <1>1, <2>1 DEF EarningsFit
<1>6. accrued = IF x < WORD THEN x \div ONE ELSE 0
  BY DEF Accrued
<1>7. accrued \in Nat /\ ONE * accrued <= L * e
  <2>. HIDE DEF q, w, L, e, accrued
  <2>1. CASE L = 0
    <3>1. L * e = 0
      BY <1>4, <2>1
    <3>2. w \in Int
      <4>1. inside[side] \in Int /\ positions[p].checkpoint[side] \in Int
        <5>1. positions[p].checkpoint[side] \in Int
          BY <1>1, WordFacts DEF PositionType, GrowthType, q
        <5>2. inside[side] \in Int
          <6>1. /\ ticks[q.lower] \in TickType /\ ticks[q.upper] \in TickType
                /\ GrowthNow \in GrowthType /\ side \in Growths
            BY <1>1, NowFits DEF PoolInv, TicksFit, PositionType
          <6>. DEFINE below == Below(ticks[q.lower], q.lower, amm.tick, GrowthNow, side)
                      above == Above(ticks[q.upper], q.upper, amm.tick, GrowthNow, side)
          <6>2. below \in Word /\ above \in Word /\ GrowthNow[side] \in Word
            BY <6>1, ReadType DEF GrowthType
          <6>3. inside[side] = WrappingSub(WrappingSub(GrowthNow[side], below), above)
            BY <1>1 DEF Inside
          <6>. HIDE DEF below, above, inside
          <6>4. inside[side] \in Word
            BY <6>2, <6>3, WrappingType
          <6>. QED  BY <6>4, WordFacts
        <5>. QED  BY <5>1, <5>2
      <4>. HIDE DEF inside
      <4>. QED  BY <1>3, <4>1 DEF w, WrappingSub, q
    <3>3. x = 0
      BY <2>1, <3>2
    <3>. HIDE DEF x
    <3>4. accrued = 0
      BY <1>3, <1>6, <3>3
    <3>. QED  BY <1>3, <3>1, <3>4
  <2>2. CASE L > 0
    <3>1. x = L * e /\ x \in Nat
      BY <1>3, <1>4, <1>5, <2>2
    <3>. HIDE DEF x
    <3>2. accrued \in Nat /\ ONE * accrued <= x
      BY <1>3, <1>6, <3>1
    <3>. QED  BY <3>1, <3>2
  <2>. QED  BY <1>3, <2>1, <2>2
<1>. HIDE DEF q, w, x, L, old, accrued, e, m, owed
<1>8. owed \in Nat /\ owed <= old + accrued
  <2>. DEFINE total == old + accrued
  <2>1. total \in Nat
    BY <1>3, <1>7
  <2>. HIDE DEF total
  <2>2. total % m \in Nat /\ total % m <= total
    BY <1>3, <2>1
  <2>. QED  BY <1>2, <2>2 DEF total
<1>9. ONE * owed <= ONE * old + ONE * accrued
  <2>1. ONE * owed <= ONE * (old + accrued)
    <3>1. old + accrued \in Int
      BY <1>3, <1>7
    <3>. QED  BY <1>3, <1>8, <3>1, MultipleMonotone
  <2>. QED  BY <1>3, <1>7, <2>1
<1>. DEFINE a == ONE * owed  b == ONE * old  c == ONE * accrued  d == L * e
<1>10. a \in Int /\ b \in Int /\ c \in Int /\ d \in Int /\ a <= b + c /\ c <= d
  BY <1>3, <1>4, <1>7, <1>8, <1>9
<1>. HIDE DEF a, b, c, d
<1>11. a <= b + d
  BY <1>10
<1>. QED
  BY <1>8, <1>11 DEF a, b, d, q, L, old, e, owed

\* A position that is brought up to date and changed is owed what the change is worth more.
LEMMA SettledDebt ==
  ASSUME PoolInv, NEW p \in DOMAIN positions, NEW delta \in Int, positions[p].liquidity + delta >= 0,
         NEW side \in Sides, NEW price \in Price
  PROVE  LET q == positions[p]
         IN  Debt(side, Settled(q, delta), price, NoGrowth[side])
                 <= Debt(side, q, price, EarnedNow[p][side]) + ONE * (delta * Worth(side, q, price))
<1>. DEFINE q == positions[p]
            settled == Settled(q, delta)
            W == Worth(side, q, price)
            L == q.liquidity
            old == q.owed[side]
            owed == settled.owed[side]
            e == EarnedNow[p][side]
            S == Scale(side)
            D1 == Debt(side, q, price, e)
            D2 == Debt(side, settled, price, NoGrowth[side])
<1>1. PositionsFit(positions) /\ q \in PositionType
  BY DEF PoolInv, PositionsFit
<1>2. e \in Nat
  <2>1. EarnedNow[p] \in GrowthType
    BY NowFits
  <2>. QED  BY <2>1, WordFacts DEF GrowthType, Word, Growths
<1>3. L \in Nat /\ old \in Nat /\ W \in Int /\ S \in Nat /\ ONE \in Nat
  BY <1>1, DebtType, DepthFacts, AmmMathAssumption
<1>4. owed \in Nat /\ ONE * owed <= ONE * old + L * e
  BY SettledOwed
<1>5. NoGrowth[side] = 0
  BY DEF NoGrowth, Growths
<1>6. /\ settled.lower = q.lower /\ settled.upper = q.upper /\ settled.liquidity = L + delta
  BY <1>1 DEF Settled, PositionType
<1>7. Worth(side, settled, price) = W
  <2>. HIDE DEF settled, q
  <2>. QED  BY <1>6 DEF Worth, Clip, End
<1>8. /\ D1 = ONE * (L * W) + S * (ONE * old + L * e)
      /\ D2 = ONE * ((L + delta) * W) + S * (ONE * owed + (L + delta) * 0)
  <2>. HIDE DEF settled, W, L
  <2>. QED  BY <1>5, <1>6, <1>7 DEF Debt, L, W
<1>. HIDE DEF q, settled, W, L, old, owed, e, S, D1, D2
<1>. DEFINE a == ONE * owed  b == ONE * old + L * e  m == L * W  n == delta * W
<1>9. a \in Int /\ b \in Int /\ m \in Int /\ n \in Int /\ a <= b
  BY <1>2, <1>3, <1>4
<1>10. (L + delta) * W = m + n /\ (L + delta) * 0 = 0
  BY <1>3
<1>11. D1 = ONE * m + S * b /\ D2 = ONE * (m + n) + S * (a + 0)
  BY <1>8, <1>10
<1>. HIDE DEF a, b, m, n
<1>12. S * a <= S * b
  BY <1>3, <1>9, MultipleMonotone
<1>. DEFINE x == S * a  y == S * b  u == ONE * m  v == ONE * n
<1>13. /\ x \in Int /\ y \in Int /\ u \in Int /\ v \in Int /\ x <= y
       /\ D1 = u + y /\ D2 = (u + v) + x
  BY <1>3, <1>9, <1>11, <1>12
<1>. HIDE DEF x, y, u, v
<1>14. D2 <= D1 + v
  BY <1>13
<1>. QED
  BY <1>14 DEF v, n, D1, D2, q, W, settled, e

\* The tokens that a deposit takes, and a withdrawal gives, for what the liquidity is worth.
LEMMA TokensCover ==
  ASSUME PoolInv, NEW p \in DOMAIN positions, NEW n \in Nat, NEW side \in Sides
  PROVE  LET q == positions[p]
             worth == n * Worth(side, q, amm.sqrtPrice)
             up == TokenDeltas(q, n, TRUE)[side]
             down == TokenDeltas(q, n, FALSE)[side]
         IN  /\ up \in Nat /\ down \in Nat
             /\ worth <= Scale(side) * up /\ Scale(side) * down <= worth
<1>. DEFINE q == positions[p]
            l == TickPrice[q.lower]
            u == TickPrice[q.upper]
            price == amm.sqrtPrice
            t == amm.tick
            within == IF t < q.lower THEN l ELSE IF t < q.upper THEN price ELSE u
            c == Clip(q, price)
            z == End(side, q)
<1>1. /\ PositionsFit(positions) /\ t \in Int /\ MIN_TICK_INDEX - 1 <= t /\ t <= MAX_TICK_INDEX
      /\ price \in MIN_SQRT_PRICE..MAX_SQRT_PRICE /\ MatchesTick(price, t)
  BY DEF PoolInv, PriceFits
<1>2. price \in Price /\ price \in Nat
  BY <1>1, PricesAreUnits, ReciprocalFacts
<1>3. q.lower \in TickIndexes /\ q.upper \in TickIndexes /\ q.lower \in Int /\ q.upper \in Int /\ q.lower < q.upper
  BY <1>1, PositionFacts, PoolConstants
<1>4. /\ IF q.lower <= t THEN l <= price ELSE price <= l
      /\ IF q.upper <= t THEN u <= price ELSE price <= u
  BY <1>1, <1>2, <1>3, TickSides
<1>5. /\ l \in Price /\ u \in Price /\ l < u /\ c \in Price /\ c \in l..u
      /\ price <= l => c = l
      /\ u <= price => c = u
      /\ l <= price /\ price <= u => c = price
  BY <1>1, <1>2, ClipFacts
<1>6. within = c
  <2>. DEFINE i == q.lower  j == q.upper
  <2>1. i \in Int /\ j \in Int /\ i < j
    BY <1>3
  <2>2. within = IF t < i THEN l ELSE IF t < j THEN price ELSE u
    OBVIOUS
  <2>3. (IF i <= t THEN l <= price ELSE price <= l) /\ (IF j <= t THEN u <= price ELSE price <= u)
    BY <1>4
  <2>. HIDE DEF i, j, l, u, price, t, c, within, q
  <2>4. CASE t < i
    BY <1>1, <1>5, <2>1, <2>2, <2>3, <2>4
  <2>5. CASE ~(t < i) /\ t < j
    BY <1>1, <1>5, <2>1, <2>2, <2>3, <2>5
  <2>6. CASE ~(t < i) /\ ~(t < j)
    BY <1>1, <1>5, <2>1, <2>2, <2>3, <2>6
  <2>. QED  BY <2>4, <2>5, <2>6
<1>7. /\ z \in Price /\ IF side = "quote" THEN z = l /\ z <= c ELSE z = u /\ c <= z
  <2>1. \A x \in Price : x \in Int
    BY ReciprocalFacts
  <2>2. z = IF side = "quote" THEN l ELSE u
    BY DEF End
  <2>. HIDE DEF z, l, u, c
  <2>. QED  BY <1>5, <2>1, <2>2
<1>8. Worth(side, q, price) = Depth(side, c) - Depth(side, z)
  BY DEF Worth
<1>9. ASSUME NEW up \in BOOLEAN
      PROVE  TokenDeltas(q, n, up)[side] = AmountDelta(side, c, z, n, up)
  <2>1. TokenDeltas(q, n, up) = [synthetic |-> AmountDeltaSynthetic(within, u, n, up),
                                 quote     |-> AmountDeltaQuote(l, within, n, up)]
    BY DEF TokenDeltas
  <2>. HIDE DEF within, l, u, c, z, q
  <2>2. CASE side = "quote"
    <3>1. TokenDeltas(q, n, up)[side] = AmountDeltaQuote(z, c, n, up)
      BY <1>6, <1>7, <2>1, <2>2
    <3>2. z <= c /\ c \in Price /\ z \in Price
      BY <1>5, <1>7, <2>2
    <3>3. \A b \in BOOLEAN : AmountDelta(side, c, z, n, b) = AmountDelta(side, z, c, n, b)
      BY <2>2, <3>2, AmountScaled
    <3>4. AmountDelta(side, z, c, n, up) = AmountDeltaQuote(z, c, n, up)
      BY <2>2 DEF AmountDelta
    <3>. QED  BY <3>1, <3>3, <3>4
  <2>3. CASE side = "synthetic"
    <3>1. TokenDeltas(q, n, up)[side] = AmountDeltaSynthetic(c, z, n, up)
      BY <1>6, <1>7, <2>1, <2>3
    <3>. QED  BY <2>3, <3>1 DEF AmountDelta
  <2>. QED  BY <2>2, <2>3 DEF Sides
<1>10. LET w == n * (Depth(side, c) - Depth(side, z))
       IN  /\ AmountDelta(side, c, z, n, TRUE) \in Nat /\ AmountDelta(side, c, z, n, FALSE) \in Nat
           /\ w <= Scale(side) * AmountDelta(side, c, z, n, TRUE)
           /\ Scale(side) * AmountDelta(side, c, z, n, FALSE) <= w
  <2>. HIDE DEF c, z, l, u
  <2>. QED  BY <1>5, <1>7, AmountScaled
<1>. HIDE DEF c, z, q, price
<1>11. /\ TokenDeltas(q, n, TRUE)[side] = AmountDelta(side, c, z, n, TRUE)
       /\ TokenDeltas(q, n, FALSE)[side] = AmountDelta(side, c, z, n, FALSE)
  BY <1>9
<1>. QED
  BY <1>8, <1>10, <1>11 DEF q, price

LEMMA SettleCovered ==
  ASSUME SolventInv, NEW p \in DOMAIN positions, NEW delta \in Int, positions[p].liquidity + delta >= 0,
         NEW side \in Sides, NEW gained \in Int,
         delta * Worth(side, positions[p], amm.sqrtPrice) <= Scale(side) * gained
  PROVE  Covered(side, (vault[side] - amm.protocolFeeOwed[side]) + gained,
                 [positions EXCEPT ![p] = Settled(positions[p], delta)], amm.sqrtPrice,
                 [EarnedNow EXCEPT ![p] = NoGrowth])
<1>. DEFINE q == positions[p]
            new == [positions EXCEPT ![p] = Settled(q, delta)]
            e == [EarnedNow EXCEPT ![p] = NoGrowth]
            price == amm.sqrtPrice
            kept == vault[side] - amm.protocolFeeOwed[side]
<1>1. /\ PoolInv /\ PositionsFit(positions) /\ vault[side] \in Int /\ amm.protocolFeeOwed[side] \in Int
      /\ price \in Price /\ Covered(side, kept, positions, price, earned)
  BY PricesAreUnits DEF SolventInv, PoolInv, PriceFits, AmmType
<1>2. kept \in Int
  BY <1>1
<1>3. Covered(side, kept, positions, price, EarnedNow)
  BY <1>1, EarnedNowDebts DEF Covered
<1>4. /\ PositionsFit(new) /\ DOMAIN new = DOMAIN positions /\ new[p] = Settled(q, delta)
      /\ \A x \in DOMAIN positions : x # p => new[x] = positions[x]
  BY <1>1, SettledFits DEF PositionsFit
<1>5. EarnedNow \in [DOMAIN positions -> GrowthType] /\ NoGrowth \in GrowthType
  BY <1>1, NowFits, WordFacts DEF NoGrowth, GrowthType
<1>6. /\ e \in [DOMAIN positions -> GrowthType] /\ e[p] = NoGrowth
      /\ \A x \in DOMAIN positions : x # p => e[x] = EarnedNow[x]
  BY <1>5
<1>7. Debt(side, new[p], price, e[p][side])
          <= Debt(side, positions[p], price, EarnedNow[p][side]) + (ONE * Scale(side)) * gained
  <2>. DEFINE w == delta * Worth(side, q, price)  g == Scale(side) * gained
              D1 == Debt(side, q, price, EarnedNow[p][side])  D2 == Debt(side, new[p], price, e[p][side])
  <2>1. D2 <= D1 + ONE * w
    BY <1>1, <1>4, <1>6, SettledDebt
  <2>2. w \in Int /\ D1 \in Int /\ D2 \in Int /\ Scale(side) \in Nat /\ ONE \in Nat
    <3>1. EarnedNow[p][side] \in Nat /\ e[p][side] \in Nat
      BY <1>5, <1>6, WordFacts DEF GrowthType, Growths, Word
    <3>2. D1 \in Int /\ D2 \in Int /\ Worth(side, q, price) \in Int
      BY <1>1, <1>4, <3>1, DebtType
    <3>. QED  BY <3>2, DepthFacts, AmmMathAssumption
  <2>3. w <= g
    OBVIOUS
  <2>4. (ONE * Scale(side)) * gained = ONE * g /\ g \in Int
    BY <2>2
  <2>. HIDE DEF w, g, D1, D2
  <2>5. ONE * w <= ONE * g
    BY <2>2, <2>3, <2>4, MultipleMonotone
  <2>. DEFINE x == ONE * w  y == ONE * g
  <2>6. x \in Int /\ y \in Int /\ x <= y /\ D2 <= D1 + x
    BY <2>1, <2>2, <2>4, <2>5
  <2>. HIDE DEF x, y
  <2>7. D2 <= D1 + y
    BY <2>2, <2>6
  <2>. QED  BY <2>4, <2>7 DEF y, D1, D2
<1>. HIDE DEF new, e, price, kept
<1>8. \A x \in DOMAIN positions : x # p =>
          Debt(side, new[x], price, e[x][side]) = Debt(side, positions[x], price, EarnedNow[x][side])
  BY <1>4, <1>6
<1>9. Covered(side, kept + gained, new, price, e)
  BY <1>1, <1>2, <1>3, <1>4, <1>5, <1>6, <1>7, <1>8, CoveredReplaced
<1>. QED
  BY <1>9 DEF new, e, price, kept, q

LEMMA ModifySolvent ==
  ASSUME SolventInv, NEW p \in Positions, NEW delta \in Int, delta # 0, ModifyLiquidity(p, delta)
  PROVE  SolventInv'
<1>. DEFINE q == positions[p]
            n == IF delta > 0 THEN delta ELSE -delta
            tokens == TokenDeltas(q, n, delta > 0)
            gained(side) == IF delta > 0 THEN tokens[side] ELSE -tokens[side]
            worth(side) == Worth(side, q, amm.sqrtPrice)
<1>1. PoolInv /\ amm \in AmmType /\ vault \in [Sides -> Int] /\ PositionsFit(positions)
      /\ amm.sqrtPrice \in Price
  BY PricesAreUnits DEF SolventInv, PoolInv, PriceFits
<1>2. /\ p \in DOMAIN positions /\ q.liquidity + delta >= 0
      /\ positions' = [positions EXCEPT ![p] = Settled(q, delta)]
      /\ earned' = [EarnedNow EXCEPT ![p] = NoGrowth]
      /\ vault' = [s \in Sides |-> IF delta > 0 THEN vault[s] + tokens[s] ELSE vault[s] - tokens[s]]
      /\ amm'.sqrtPrice = amm.sqrtPrice /\ amm'.protocolFeeOwed = amm.protocolFeeOwed
  BY <1>1 DEF ModifyLiquidity, AmmType
<1>3. PoolInv'
  BY <1>1, ModifyKeeps
<1>4. ASSUME NEW side \in Sides
      PROVE  /\ gained(side) \in Int /\ delta * worth(side) <= Scale(side) * gained(side)
             /\ vault'[side] = vault[side] + gained(side) /\ vault'[side] \in Int
  <2>. DEFINE up == TokenDeltas(q, n, TRUE)[side]  down == TokenDeltas(q, n, FALSE)[side]
              S == Scale(side)  w == worth(side)  t == tokens[side]
  <2>1. n \in Nat
    OBVIOUS
  <2>2. up \in Nat /\ down \in Nat /\ n * w <= S * up /\ S * down <= n * w
    <3>. HIDE DEF n
    <3>. QED  BY <1>1, <1>2, <2>1, TokensCover
  <2>3. S \in Nat /\ w \in Int
    <3>1. 0 \in Nat
      OBVIOUS
    <3>. QED  BY <1>1, <1>2, <3>1, DebtType, DepthFacts
  <2>4. t = IF delta > 0 THEN up ELSE down
    <3>1. (delta > 0) \in BOOLEAN
      OBVIOUS
    <3>. QED  BY <3>1
  <2>5. vault[side] \in Int /\ vault'[side] = IF delta > 0 THEN vault[side] + t ELSE vault[side] - t
    BY <1>1, <1>2
  <2>. HIDE DEF up, down, S, w
  <2>6. CASE delta > 0
    BY <2>2, <2>3, <2>4, <2>5, <2>6 DEF S, w
  <2>7. CASE ~(delta > 0)
    <3>1. gained(side) = -down /\ vault'[side] = vault[side] - down
      BY <2>4, <2>5, <2>7
    <3>. DEFINE a == n * w  b == S * down
    <3>2. delta * w = -a /\ S * (-down) = -b /\ a \in Int /\ b \in Int
      BY <2>2, <2>3, <2>7
    <3>. HIDE DEF a, b
    <3>3. b <= a
      BY <2>2 DEF a, b
    <3>4. delta * w <= S * (-down)
      BY <3>2, <3>3
    <3>. QED  BY <2>2, <2>5, <3>1, <3>4 DEF S, w
  <2>. QED  BY <2>6, <2>7
<1>. HIDE DEF gained, worth, tokens, n
<1>5. ASSUME NEW side \in Sides
      PROVE  Covered(side, vault'[side] - amm'.protocolFeeOwed[side], positions', amm'.sqrtPrice, earned')
  <2>1. Covered(side, (vault[side] - amm.protocolFeeOwed[side]) + gained(side), positions',
                amm.sqrtPrice, earned')
    BY <1>2, <1>4, SettleCovered DEF worth
  <2>2. vault'[side] - amm'.protocolFeeOwed[side] = (vault[side] - amm.protocolFeeOwed[side]) + gained(side)
    <3>1. vault[side] \in Int /\ amm.protocolFeeOwed[side] \in Int
      BY <1>1 DEF AmmType
    <3>. QED  BY <1>2, <1>4, <3>1
  <2>. QED  BY <1>2, <2>1, <2>2
<1>6. vault' \in [Sides -> Int]
  <2>1. \A side \in Sides : vault'[side] \in Int
    BY <1>4
  <2>2. vault' = [s \in Sides |-> vault'[s]]
    BY <1>2
  <2>. QED  BY <2>1, <2>2
<1>. QED
  BY <1>3, <1>5, <1>6 DEF SolventInv, Covered

LEMMA UpdateSolvent ==
  ASSUME SolventInv, NEW p \in Positions, UpdateFeesAndRewards(p)
  PROVE  SolventInv'
<1>. DEFINE none == 0
<1>1. PoolInv /\ amm \in AmmType /\ vault \in [Sides -> Int] /\ PositionsFit(positions)
      /\ amm.sqrtPrice \in Price
  BY PricesAreUnits DEF SolventInv, PoolInv, PriceFits
<1>2. /\ p \in DOMAIN positions
      /\ positions' = [positions EXCEPT ![p] = Settled(positions[p], none)]
      /\ earned' = [EarnedNow EXCEPT ![p] = NoGrowth]
      /\ vault' = vault
      /\ amm'.sqrtPrice = amm.sqrtPrice /\ amm'.protocolFeeOwed = amm.protocolFeeOwed
  BY <1>1 DEF UpdateFeesAndRewards, AmmType
<1>3. PoolInv'
  BY <1>1, UpdateKeeps
<1>4. none \in Int /\ positions[p].liquidity + none >= 0
  BY <1>1, <1>2, PositionFacts
<1>5. ASSUME NEW side \in Sides
      PROVE  Covered(side, vault'[side] - amm'.protocolFeeOwed[side], positions', amm'.sqrtPrice, earned')
  <2>1. none * Worth(side, positions[p], amm.sqrtPrice) <= Scale(side) * none
    <3>1. 0 \in Nat
      OBVIOUS
    <3>2. Worth(side, positions[p], amm.sqrtPrice) \in Int /\ Scale(side) \in Int
      BY <1>1, <1>2, <3>1, DebtType, DepthFacts
    <3>. QED  BY <3>2
  <2>2. (vault[side] - amm.protocolFeeOwed[side]) + none = vault[side] - amm.protocolFeeOwed[side]
    BY <1>1 DEF AmmType
  <2>. HIDE DEF none
  <2>3. Covered(side, (vault[side] - amm.protocolFeeOwed[side]) + none, positions',
                amm.sqrtPrice, earned')
    BY <1>2, <1>4, <2>1, SettleCovered
  <2>. QED  BY <1>2, <2>2, <2>3
<1>. QED
  BY <1>1, <1>2, <1>3, <1>5 DEF SolventInv, Covered

\* What is paid out to an owner is owed no more.
LEMMA OwedSolvent ==
  ASSUME SolventInv, PoolInv', NEW p \in DOMAIN positions, NEW owed \in [Growths -> Nat],
         positions' = [positions EXCEPT ![p] = [positions[p] EXCEPT !.owed = owed]],
         amm' = amm, earned' = earned, vault' \in [Sides -> Int],
         \A side \in Sides : vault'[side] = vault[side] + (owed[side] - positions[p].owed[side])
  PROVE  SolventInv'
<1>. DEFINE q == positions[p]
            paid == [q EXCEPT !.owed = owed]
            new == [positions EXCEPT ![p] = paid]
            price == amm.sqrtPrice
<1>1. /\ PositionsFit(positions) /\ amm \in AmmType /\ vault \in [Sides -> Int]
      /\ earned \in [DOMAIN positions -> GrowthType] /\ price \in Price
      /\ \A side \in Sides :
             Covered(side, vault[side] - amm.protocolFeeOwed[side], positions, price, earned)
  BY PricesAreUnits DEF SolventInv, PoolInv, PriceFits, EarningsFit
<1>2. q \in PositionType
  BY <1>1 DEF PositionsFit
<1>3. /\ paid.lower = q.lower /\ paid.upper = q.upper /\ paid.liquidity = q.liquidity
      /\ paid.owed = owed
  BY <1>2 DEF PositionType
<1>4. /\ DOMAIN new = DOMAIN positions /\ new[p] = paid
      /\ \A x \in DOMAIN positions : x # p => new[x] = positions[x]
  OBVIOUS
<1>5. PositionsFit(new)
  <2>1. positions' = new
    OBVIOUS
  <2>2. PositionsFit(positions')
    BY DEF PoolInv, PositionsFit
  <2>. QED  BY <2>1, <2>2
<1>6. positions' = new
  OBVIOUS
<1>. HIDE DEF new, paid, price
<1>7. ASSUME NEW side \in Sides
      PROVE  Covered(side, vault'[side] - amm'.protocolFeeOwed[side], positions', amm'.sqrtPrice, earned')
  <2>. DEFINE e == earned[p][side]
              gained == owed[side] - q.owed[side]
              kept == vault[side] - amm.protocolFeeOwed[side]
              S == Scale(side)  L == q.liquidity  o == q.owed[side]  o2 == owed[side]
              W == Worth(side, q, price)
              D1 == Debt(side, q, price, e)  D2 == Debt(side, new[p], price, e)
  <2>1. /\ e \in Nat /\ side \in Growths
    <3>1. earned[p] \in GrowthType /\ side \in Growths
      BY <1>1 DEF Growths
    <3>. QED  BY <3>1, WordFacts DEF GrowthType, Word
  <2>2. /\ L \in Nat /\ o \in Nat /\ o2 \in Nat /\ W \in Int /\ S \in Nat /\ ONE \in Nat
        /\ gained \in Int /\ kept \in Int
    <3>1. L \in Nat /\ o \in Nat /\ W \in Int /\ S \in Nat /\ ONE \in Nat
      BY <1>1, <2>1, DebtType, DepthFacts, AmmMathAssumption
    <3>2. o2 \in Nat /\ vault[side] \in Int /\ amm.protocolFeeOwed[side] \in Int
      BY <1>1, <2>1 DEF AmmType
    <3>. QED  BY <3>1, <3>2
  <2>3. Worth(side, new[p], price) = W
    BY <1>3, <1>4 DEF Worth, Clip, End
  <2>4. /\ D1 = ONE * (L * W) + S * (ONE * o + L * e)
        /\ D2 = ONE * (L * W) + S * (ONE * o2 + L * e)
    BY <1>3, <1>4, <2>3 DEF Debt
  <2>5. D2 <= D1 + (ONE * S) * gained
    <3>. DEFINE m == ONE * (L * W)  f == L * e  h == ONE * o  h2 == ONE * o2
    <3>1. m \in Int /\ f \in Int /\ h \in Int /\ h2 \in Int
      <4>. HIDE DEF L, W, e, o, o2
      <4>. QED  BY <2>1, <2>2
    <3>2. (ONE * S) * gained = S * (h2 - h)
      <4>1. gained = o2 - o
        OBVIOUS
      <4>. HIDE DEF o, o2, S, gained
      <4>2. (ONE * S) * gained = S * (ONE * gained) /\ ONE * gained = ONE * o2 - ONE * o
        BY <2>2, <4>1
      <4>. QED  BY <4>2
    <3>3. D1 = m + S * (h + f) /\ D2 = m + S * (h2 + f)
      BY <2>4
    <3>. HIDE DEF m, f, h, h2, S, D1, D2
    <3>4. S * (h2 + f) = S * (h + f) + S * (h2 - h)
      BY <2>2, <3>1
    <3>. DEFINE x == S * (h + f)  y == S * (h2 - h)
    <3>5. x \in Int /\ y \in Int /\ D1 = m + x /\ D2 = m + (x + y)
      BY <2>2, <3>1, <3>3, <3>4
    <3>. HIDE DEF x, y
    <3>6. D2 <= D1 + y
      BY <3>1, <3>5
    <3>. QED  BY <3>2, <3>6 DEF y
  <2>6. vault'[side] - amm'.protocolFeeOwed[side] = kept + gained
    <3>1. vault[side] \in Int /\ amm.protocolFeeOwed[side] \in Int /\ o \in Int /\ o2 \in Int
      BY <1>1, <2>2 DEF AmmType
    <3>2. amm'.protocolFeeOwed[side] = amm.protocolFeeOwed[side] /\ vault'[side] = vault[side] + (o2 - o)
      OBVIOUS
    <3>. HIDE DEF o, o2
    <3>. QED  BY <3>1, <3>2 DEF o, o2
  <2>7. Covered(side, kept, positions, price, earned)
    BY <1>1
  <2>8. \A x \in DOMAIN positions : x # p =>
            Debt(side, new[x], price, earned[x][side]) = Debt(side, positions[x], price, earned[x][side])
    BY <1>4
  <2>. HIDE DEF kept, gained
  <2>9. Covered(side, kept + gained, new, price, earned)
    <3>1. Debt(side, new[p], price, earned[p][side])
              <= Debt(side, positions[p], price, earned[p][side]) + (ONE * Scale(side)) * gained
      BY <2>5
    <3>. QED  BY <1>1, <1>4, <1>5, <2>2, <2>7, <2>8, <3>1, CoveredReplaced
  <2>. QED  BY <1>6, <2>6, <2>9 DEF price
<1>. QED
  BY <1>7 DEF SolventInv, Covered

LEMMA CollectFeesSolvent ==
  ASSUME SolventInv, NEW p \in Positions, CollectFees(p)
  PROVE  SolventInv'
<1>. DEFINE owed == [positions[p].owed EXCEPT !["synthetic"] = 0, !["quote"] = 0]
<1>1. /\ p \in DOMAIN positions /\ amm' = amm /\ earned' = earned
      /\ vault' = [s \in Sides |-> vault[s] - positions[p].owed[s]]
      /\ PoolInv /\ PositionsFit(positions) /\ vault \in [Sides -> Int]
  BY DEF CollectFees, SolventInv, PoolInv
<1>2. PoolInv'
  BY <1>1, CollectFeesKeeps
<1>3. positions[p] \in PositionType
  BY <1>1 DEF PositionsFit
<1>4. owed \in [Growths -> Nat] /\ \A side \in Sides : owed[side] = 0
  BY <1>3 DEF PositionType, Sides, Growths
<1>5. positions' = [positions EXCEPT ![p] = [positions[p] EXCEPT !.owed = owed]]
  BY <1>1, <1>3 DEF CollectFees, PositionType, PositionsFit
<1>. HIDE DEF owed
<1>6. /\ vault' \in [Sides -> Int]
      /\ \A side \in Sides : vault'[side] = vault[side] + (owed[side] - positions[p].owed[side])
  <2>1. \A side \in Sides : positions[p].owed[side] \in Nat
    BY <1>3 DEF PositionType, Growths
  <2>. QED  BY <1>1, <1>4, <2>1
<1>. QED
  BY <1>1, <1>2, <1>4, <1>5, <1>6, OwedSolvent

LEMMA CollectRewardSolvent ==
  ASSUME SolventInv, NEW p \in Positions, CollectReward(p)
  PROVE  SolventInv'
<1>. DEFINE o == positions[p].owed["reward"]
            paid == IF o > rewardVault THEN rewardVault ELSE o
            rest == o - paid
            owed == [positions[p].owed EXCEPT !["reward"] = rest]
<1>1. /\ p \in DOMAIN positions /\ amm' = amm /\ earned' = earned /\ vault' = vault
      /\ PoolInv /\ rewardVault \in Nat /\ PositionsFit(positions) /\ vault \in [Sides -> Int]
  BY DEF CollectReward, SolventInv, PoolInv
<1>2. PoolInv'
  BY <1>1, CollectRewardKeeps
<1>3. positions[p] \in PositionType
  BY <1>1 DEF PositionsFit
<1>4. o \in Nat
  BY <1>3 DEF PositionType, Growths
<1>5. rest \in Nat
  <2>. HIDE DEF o
  <2>. QED  BY <1>1, <1>4
<1>6. positions' = [positions EXCEPT ![p].owed["reward"] = rest]
  BY DEF CollectReward
<1>. HIDE DEF rest
<1>7. /\ owed \in [Growths -> Nat]
      /\ \A side \in Sides : owed[side] = positions[p].owed[side] /\ owed[side] \in Nat
  BY <1>3, <1>5 DEF PositionType, Sides, Growths
<1>8. positions' = [positions EXCEPT ![p] = [positions[p] EXCEPT !.owed = owed]]
  BY <1>1, <1>3, <1>6 DEF PositionType, PositionsFit
<1>. HIDE DEF owed
<1>9. \A side \in Sides : vault'[side] = vault[side] + (owed[side] - positions[p].owed[side])
  BY <1>1, <1>7
<1>. QED
  BY <1>1, <1>2, <1>7, <1>8, <1>9, OwedSolvent

\* An empty position is owed nothing.
LEMMA DebtsOfEmpty ==
  ASSUME NEW side \in Sides, NEW pos, PositionsFit(pos), NEW pos2, PositionsFit(pos2),
         NEW p, p \notin DOMAIN pos, DOMAIN pos2 = DOMAIN pos \cup {p}, NEW price \in Price,
         NEW e, NEW e2 \in [DOMAIN pos2 -> GrowthType],
         \A q \in DOMAIN pos : pos2[q] = pos[q] /\ e2[q] = e[q],
         pos2[p].liquidity = 0, pos2[p].owed[side] = 0
  PROVE  SumFunction(Debts(side, pos2, price, e2)) = SumFunction(Debts(side, pos, price, e))
<1>. DEFINE f == Debts(side, pos, price, e)
            g == Debts(side, pos2, price, e2)
<1>1. ASSUME NEW q \in DOMAIN pos2
      PROVE  e2[q][side] \in Nat /\ Debt(side, pos2[q], price, e2[q][side]) \in Int
  <2>1. e2[q] \in GrowthType /\ side \in Growths
    BY DEF Growths
  <2>2. e2[q][side] \in Nat
    BY <2>1, WordFacts DEF GrowthType, Word
  <2>. QED  BY <2>2, DebtType
<1>2. /\ DOMAIN f = DOMAIN pos /\ DOMAIN g = DOMAIN f \cup {p} /\ p \notin DOMAIN f
      /\ IsFiniteSet(DOMAIN f)
      /\ \A q \in DOMAIN f : g[q] = f[q]
      /\ \A q \in DOMAIN g : g[q] \in Int
  BY <1>1 DEF Debts, PositionsFit
<1>3. g[p] = 0
  <2>. DEFINE W == Worth(side, pos2[p], price)  k == e2[p][side]
  <2>1. p \in DOMAIN pos2 /\ k \in Nat
    BY <1>1
  <2>2. W \in Int /\ Scale(side) \in Nat /\ ONE \in Nat
    BY <2>1, DebtType, DepthFacts, AmmMathAssumption
  <2>3. g[p] = ONE * (0 * W) + Scale(side) * (ONE * 0 + 0 * k)
    BY <2>1 DEF Debts, Debt
  <2>. HIDE DEF W, k
  <2>4. 0 * W = 0 /\ ONE * 0 + 0 * k = 0
    BY <2>1, <2>2
  <2>. QED  BY <2>2, <2>3, <2>4
<1>. HIDE DEF f, g
<1>4. SumFunction(f) \in Int /\ SumFunction(g) = SumFunction(f) + g[p]
  BY <1>2, SumExtended
<1>5. SumFunction(g) = SumFunction(f)
  BY <1>3, <1>4
<1>. QED
  BY <1>5 DEF f, g

LEMMA OpenSolvent ==
  ASSUME SolventInv, NEW p \in Positions, NEW range \in Ranges, OpenPosition(p, range)
  PROVE  SolventInv'
<1>1. /\ PoolInv /\ PositionsFit(positions) /\ amm.sqrtPrice \in Price
      /\ earned \in [DOMAIN positions -> GrowthType]
  BY PricesAreUnits DEF SolventInv, PoolInv, PriceFits, EarningsFit
<1>2. PoolInv'
  BY <1>1, OpenKeeps
<1>3. PositionsFit(positions') /\ earned' \in [DOMAIN positions' -> GrowthType]
  BY <1>2 DEF PoolInv, EarningsFit, PositionsFit
<1>4. /\ p \notin DOMAIN positions /\ DOMAIN positions' = DOMAIN positions \cup {p}
      /\ amm' = amm /\ vault' = vault
      /\ \A q \in DOMAIN positions : positions'[q] = positions[q] /\ earned'[q] = earned[q]
  BY <1>1 DEF OpenPosition
<1>5. positions'[p].liquidity = 0 /\ \A side \in Sides : positions'[p].owed[side] = 0
  BY DEF OpenPosition, NoGrowth, Growths
<1>6. ASSUME NEW side \in Sides
      PROVE  SumFunction(Debts(side, positions', amm.sqrtPrice, earned'))
                 = SumFunction(Debts(side, positions, amm.sqrtPrice, earned))
  BY <1>1, <1>3, <1>4, <1>5, DebtsOfEmpty
<1>. QED
  BY <1>2, <1>4, <1>6 DEF SolventInv, Covered

LEMMA CloseSolvent ==
  ASSUME SolventInv, NEW p \in Positions, ClosePosition(p)
  PROVE  SolventInv'
<1>1. /\ PoolInv /\ PositionsFit(positions) /\ amm.sqrtPrice \in Price
      /\ earned \in [DOMAIN positions -> GrowthType]
  BY PricesAreUnits DEF SolventInv, PoolInv, PriceFits, EarningsFit
<1>2. PoolInv'
  BY <1>1, CloseKeeps
<1>3. PositionsFit(positions')
  BY <1>2 DEF PoolInv, PositionsFit
<1>4. /\ p \in DOMAIN positions /\ p \notin DOMAIN positions'
      /\ DOMAIN positions = DOMAIN positions' \cup {p}
      /\ amm' = amm /\ vault' = vault
      /\ \A q \in DOMAIN positions' : positions[q] = positions'[q] /\ earned[q] = earned'[q]
  BY <1>1 DEF ClosePosition, Restrict
<1>5. positions[p].liquidity = 0 /\ \A side \in Sides : positions[p].owed[side] = 0
  BY DEF ClosePosition, NoGrowth, Growths
<1>6. ASSUME NEW side \in Sides
      PROVE  SumFunction(Debts(side, positions, amm.sqrtPrice, earned))
                 = SumFunction(Debts(side, positions', amm.sqrtPrice, earned'))
  BY <1>1, <1>3, <1>4, <1>5, DebtsOfEmpty
<1>. QED
  BY <1>2, <1>4, <1>6 DEF SolventInv, Covered

\* A step that leaves the positions and the price as they are, and what the vaults
\* hold beyond the protocol's fees: earnings are at most brought up to date.
IdleStep ==
    /\ positions' = positions /\ amm'.sqrtPrice = amm.sqrtPrice
    /\ (earned' = earned \/ earned' = EarnedNow)
    /\ vault' \in [Sides -> Int]
    /\ \A side \in Sides :
           vault'[side] - amm'.protocolFeeOwed[side] = vault[side] - amm.protocolFeeOwed[side]

LEMMA OthersSolvent ==
  ASSUME SolventInv,
         \/ Tick
         \/ CollectProtocolFees
         \/ \E emissions \in Emissions : SetRewardEmissions(emissions)
         \/ \E amount \in RewardFunds : FundReward(amount)
         \/ \E rate \in FeeRates : SetFeeRate(rate)
         \/ \E rate \in ProtocolFeeRates : SetProtocolFeeRate(rate)
  PROVE  SolventInv'
<1>1. /\ PoolInv /\ amm \in AmmType /\ vault \in [Sides -> Int]
      /\ \A side \in Sides :
             Covered(side, vault[side] - amm.protocolFeeOwed[side], positions, amm.sqrtPrice, earned)
  BY DEF SolventInv, PoolInv
<1>2. PoolInv'
  BY <1>1, OthersKeep
<1>3. IdleStep
  <2>1. CASE Tick
    BY <1>1, <2>1 DEF Tick, IdleStep
  <2>2. CASE CollectProtocolFees
    <3>1. /\ vault' = [s \in Sides |-> vault[s] - amm.protocolFeeOwed[s]]
          /\ amm'.protocolFeeOwed = [s \in Sides |-> 0]
          /\ positions' = positions /\ amm'.sqrtPrice = amm.sqrtPrice /\ earned' = earned
      BY <1>1, <2>2 DEF CollectProtocolFees, AmmType
    <3>2. \A side \in Sides : vault[side] \in Int /\ amm.protocolFeeOwed[side] \in Int
      BY <1>1 DEF AmmType
    <3>3. /\ vault' \in [Sides -> Int]
          /\ \A side \in Sides :
                 vault'[side] - amm'.protocolFeeOwed[side] = vault[side] - amm.protocolFeeOwed[side]
      BY <3>1, <3>2
    <3>. QED  BY <3>1, <3>3 DEF IdleStep
  <2>3. ASSUME NEW emissions \in Emissions, SetRewardEmissions(emissions) PROVE IdleStep
    <3>1. /\ vault' = vault /\ positions' = positions /\ earned' = EarnedNow
          /\ amm' = [amm EXCEPT !.growth = GrowthNow, !.rewardsUpdatedAt = now, !.emissions = emissions]
      BY ONLY <2>3 DEF SetRewardEmissions
    <3>2. amm'.protocolFeeOwed = amm.protocolFeeOwed /\ amm'.sqrtPrice = amm.sqrtPrice
      BY <1>1, <3>1 DEF AmmType
    <3>. QED  BY <1>1, <3>1, <3>2 DEF IdleStep
  <2>4. ASSUME NEW amount \in RewardFunds, FundReward(amount) PROVE IdleStep
    BY <1>1, <2>4 DEF FundReward, IdleStep
  <2>5. ASSUME NEW rate \in FeeRates, SetFeeRate(rate) PROVE IdleStep
    <3>1. /\ amm'.protocolFeeOwed = amm.protocolFeeOwed /\ amm'.sqrtPrice = amm.sqrtPrice
          /\ vault' = vault /\ positions' = positions /\ earned' = earned
      BY <1>1, <2>5 DEF SetFeeRate, AmmType
    <3>. QED  BY <1>1, <3>1 DEF IdleStep
  <2>6. ASSUME NEW rate \in ProtocolFeeRates, SetProtocolFeeRate(rate) PROVE IdleStep
    <3>1. /\ amm'.protocolFeeOwed = amm.protocolFeeOwed /\ amm'.sqrtPrice = amm.sqrtPrice
          /\ vault' = vault /\ positions' = positions /\ earned' = earned
      BY <1>1, <2>6 DEF SetProtocolFeeRate, AmmType
    <3>. QED  BY <1>1, <3>1 DEF IdleStep
  <2>. QED  BY <2>1, <2>2, <2>3, <2>4, <2>5, <2>6
<1>4. /\ positions' = positions /\ amm'.sqrtPrice = amm.sqrtPrice
      /\ earned' = earned \/ earned' = EarnedNow
  BY <1>3 DEF IdleStep
<1>5. /\ vault' \in [Sides -> Int]
      /\ \A side \in Sides :
             vault'[side] - amm'.protocolFeeOwed[side] = vault[side] - amm.protocolFeeOwed[side]
  BY <1>1, <1>3 DEF IdleStep
<1>6. ASSUME NEW side \in Sides
      PROVE  Covered(side, vault[side] - amm.protocolFeeOwed[side], positions, amm.sqrtPrice, earned')
  <2>1. CASE earned' = earned
    BY <1>1, <2>1
  <2>2. CASE earned' = EarnedNow
    BY <1>1, <2>2, EarnedNowDebts DEF Covered
  <2>. QED  BY <1>4, <2>1, <2>2
<1>. QED
  BY <1>2, <1>4, <1>5, <1>6 DEF SolventInv, Covered

LEMMA InitSolvent ==
  ASSUME Init
  PROVE  SolventInv
<1>1. PoolInv
  BY InitFits
<1>2. /\ vault \in [Sides -> Int] /\ DOMAIN positions = {}
      /\ \A side \in Sides : vault[side] = 0 /\ amm.protocolFeeOwed[side] = 0
  BY DEF Init
<1>3. ASSUME NEW side \in Sides
      PROVE  Covered(side, vault[side] - amm.protocolFeeOwed[side], positions, amm.sqrtPrice, earned)
  <2>. DEFINE f == Debts(side, positions, amm.sqrtPrice, earned)
  <2>1. DOMAIN f = {}
    BY <1>2 DEF Debts
  <2>. HIDE DEF f
  <2>2. SumFunction(f) = 0
    BY <2>1, SumOfNone DEF SumFunction
  <2>3. ONE \in Nat /\ Scale(side) \in Nat /\ vault[side] - amm.protocolFeeOwed[side] = 0
    BY <1>2, DepthFacts, AmmMathAssumption
  <2>4. (ONE * Scale(side)) * (vault[side] - amm.protocolFeeOwed[side]) = 0
    BY <2>3
  <2>. QED  BY <2>2, <2>4 DEF Covered, f
<1>. QED
  BY <1>1, <1>2, <1>3 DEF SolventInv

-----------------------------------------------------------------------------
(* The theorems *)

\* Every step of every provider, trader and authority leaves the vaults covering what is
\* owed from them when nothing is rounded.
THEOREM SolventInvariant == Spec => []SolventInv
<1>1. Init => SolventInv
  BY InitSolvent
<1>2. SolventInv /\ [Next]_vars => SolventInv'
  <2>1. SUFFICES ASSUME SolventInv, [Next]_vars PROVE SolventInv'
    OBVIOUS
  <2>2. CASE UNCHANGED vars
    <3>1. /\ now' = now /\ amm' = amm /\ ticks' = ticks /\ positions' = positions
          /\ vault' = vault /\ rewardVault' = rewardVault /\ earned' = earned
      BY <2>2 DEF vars
    <3>. QED  BY <2>1, <3>1 DEF SolventInv, PoolInv, Covered
  <2>3. ASSUME NEW p \in Positions, NEW range \in Ranges, OpenPosition(p, range) PROVE SolventInv'
    BY <2>1, <2>3, OpenSolvent
  <2>4. ASSUME NEW p \in Positions, ClosePosition(p) PROVE SolventInv'
    BY <2>1, <2>4, CloseSolvent
  <2>5. ASSUME NEW p \in Positions, NEW liquidity \in Liquidities, IncreaseLiquidity(p, liquidity)
        PROVE  SolventInv'
    <3>1. liquidity \in Int /\ liquidity # 0 /\ ModifyLiquidity(p, liquidity)
      BY <2>5, LiquidityPoolAssumption DEF IncreaseLiquidity
    <3>. QED  BY <2>1, <3>1, ModifySolvent
  <2>6. ASSUME NEW p \in Positions, NEW liquidity \in Liquidities, DecreaseLiquidity(p, liquidity)
        PROVE  SolventInv'
    <3>. DEFINE less == -liquidity
    <3>1. less \in Int /\ less # 0
      BY <2>6, LiquidityPoolAssumption DEF DecreaseLiquidity
    <3>2. ModifyLiquidity(p, less)
      BY <2>6 DEF DecreaseLiquidity
    <3>. HIDE DEF less
    <3>. QED  BY <2>1, <3>1, <3>2, ModifySolvent
  <2>7. ASSUME NEW p \in Positions, UpdateFeesAndRewards(p) PROVE SolventInv'
    BY <2>1, <2>7, UpdateSolvent
  <2>8. ASSUME NEW p \in Positions, CollectFees(p) PROVE SolventInv'
    BY <2>1, <2>8, CollectFeesSolvent
  <2>9. ASSUME NEW p \in Positions, CollectReward(p) PROVE SolventInv'
    BY <2>1, <2>9, CollectRewardSolvent
  <2>10. ASSUME NEW amount \in SwapAmounts, NEW limit \in PriceLimits \cup {NoLimit},
                NEW exactIn \in BOOLEAN, NEW toQuote \in BOOLEAN, NEW arrays \in ArrayCounts,
                Swap(amount, limit, exactIn, toQuote, arrays)
         PROVE  SolventInv'
    BY <2>1, <2>10, SwapSolvent
  <2>11. CASE \/ Tick
              \/ CollectProtocolFees
              \/ \E emissions \in Emissions : SetRewardEmissions(emissions)
              \/ \E amount \in RewardFunds : FundReward(amount)
              \/ \E rate \in FeeRates : SetFeeRate(rate)
              \/ \E rate \in ProtocolFeeRates : SetProtocolFeeRate(rate)
    BY <2>1, <2>11, OthersSolvent
  <2>. QED
    BY <2>1, <2>2, <2>3, <2>4, <2>5, <2>6, <2>7, <2>8, <2>9, <2>10, <2>11 DEF Next
<1>. QED
  BY <1>1, <1>2, PTL DEF Spec

\* A claim is what is owed, rounded down twice.
LEMMA ClaimCovered ==
  ASSUME PoolInv, NEW side \in Sides, NEW p \in DOMAIN positions
  PROVE  /\ Claim(p, side) \in Nat
         /\ (ONE * Scale(side)) * Claim(p, side)
                <= Debt(side, positions[p], amm.sqrtPrice, EarnedNow[p][side])
<1>. DEFINE q == positions[p]
            none == 0
            L == q.liquidity
            S == Scale(side)
            W == Worth(side, q, amm.sqrtPrice)
            e == EarnedNow[p][side]
            old == q.owed[side]
            tokens == TokenDeltas(q, L, FALSE)[side]
            owed == Settled(q, none).owed[side]
            D == Debt(side, q, amm.sqrtPrice, e)
<1>1. Claim(p, side) = tokens + owed
  BY DEF Claim
<1>2. amm.sqrtPrice \in Price /\ PositionsFit(positions) /\ none \in Int
  BY PricesAreUnits DEF PoolInv, PriceFits
<1>3. e \in Nat
  <2>1. EarnedNow[p] \in GrowthType /\ side \in Growths
    BY NowFits DEF Growths
  <2>. QED  BY <2>1, WordFacts DEF GrowthType, Word
<1>4. L \in Nat /\ old \in Nat /\ W \in Int /\ S \in Nat /\ ONE \in Nat
  BY <1>2, <1>3, DebtType, DepthFacts, AmmMathAssumption
<1>5. tokens \in Nat /\ S * tokens <= L * W
  <2>. HIDE DEF L
  <2>. QED  BY <1>4, TokensCover
<1>. HIDE DEF none
<1>6. owed \in Nat /\ ONE * owed <= ONE * old + L * e
  BY <1>2, SettledOwed
<1>7. D = ONE * (L * W) + S * (ONE * old + L * e)
  BY DEF Debt
<1>. HIDE DEF q, L, S, W, e, old, tokens, owed, D
<1>. DEFINE a == S * tokens  b == L * W  c == ONE * owed  d == ONE * old + L * e
<1>8. a \in Int /\ b \in Int /\ c \in Int /\ d \in Int /\ a <= b /\ c <= d
  BY <1>3, <1>4, <1>5, <1>6
<1>9. (ONE * S) * (tokens + owed) = ONE * a + S * c /\ D = ONE * b + S * d
  BY <1>4, <1>5, <1>6, <1>7
<1>. HIDE DEF a, b, c, d
<1>10. ONE * a <= ONE * b /\ S * c <= S * d
  BY <1>4, <1>8, MultipleMonotone
<1>. DEFINE x == ONE * a  y == ONE * b  z == S * c  v == S * d
<1>11. x \in Int /\ y \in Int /\ z \in Int /\ v \in Int /\ x <= y /\ z <= v
  BY <1>4, <1>8, <1>10
<1>. HIDE DEF x, y, z, v
<1>12. x + z <= y + v
  BY <1>11
<1>13. (ONE * S) * (tokens + owed) <= D /\ tokens + owed \in Nat
  BY <1>5, <1>6, <1>9, <1>12 DEF x, y, z, v
<1>. QED
  BY <1>1, <1>13 DEF S, D, q, e

\* After any rounding in swaps, fees, deposits and withdrawals, by any number of providers
\* and traders, the vaults can always pay out every position, its fees and the protocol's.
THEOREM VaultsCoverClaimsAlways == Spec => []VaultsCoverClaims
<1>1. SolventInv => VaultsCoverClaims
  <2>1. SUFFICES ASSUME SolventInv, NEW s \in Sides
        PROVE  vault[s] >= amm.protocolFeeOwed[s] + SumFunction([p \in DOMAIN positions |-> Claim(p, s)])
    BY DEF VaultsCoverClaims
  <2>. DEFINE f == Debts(s, positions, amm.sqrtPrice, EarnedNow)
              w == [p \in DOMAIN positions |-> Claim(p, s)]
              none == [p \in DOMAIN positions |-> 0]
              unit == ONE * Scale(s)
              c == -unit
              kept == vault[s] - amm.protocolFeeOwed[s]
  <2>2. /\ PoolInv /\ PositionsFit(positions) /\ vault[s] \in Int /\ amm.protocolFeeOwed[s] \in Int
        /\ amm.sqrtPrice \in Price /\ Covered(s, kept, positions, amm.sqrtPrice, earned)
    BY <2>1, PricesAreUnits DEF SolventInv, PoolInv, PriceFits, AmmType
  <2>3. unit \in Nat \ {0} /\ c \in Int /\ kept \in Int
    BY <2>2, DepthFacts, AmmMathAssumption
  <2>4. SumFunction(f) <= unit * kept
    BY <2>2, EarnedNowDebts DEF Covered
  <2>5. /\ IsFiniteSet(DOMAIN f) /\ DOMAIN f = DOMAIN positions
        /\ DOMAIN w = DOMAIN f /\ DOMAIN none = DOMAIN f
    BY <2>2 DEF Debts, PositionsFit
  <2>6. ASSUME NEW p \in DOMAIN f
        PROVE  /\ f[p] \in Int /\ none[p] \in Int /\ w[p] \in Int /\ none[p] \in Nat
               /\ none[p] <= f[p] + c * w[p]
    <3>1. p \in DOMAIN positions
      BY <2>5
    <3>2. EarnedNow[p][s] \in Nat
      <4>1. EarnedNow[p] \in GrowthType /\ s \in Growths
        BY <2>2, <3>1, NowFits DEF Growths
      <4>. QED  BY <4>1, WordFacts DEF GrowthType, Word
    <3>3. f[p] = Debt(s, positions[p], amm.sqrtPrice, EarnedNow[p][s]) /\ w[p] = Claim(p, s) /\ none[p] = 0
      BY <3>1 DEF Debts
    <3>4. f[p] \in Int
      BY <2>2, <3>1, <3>2, <3>3, DebtType
    <3>. HIDE DEF f, w, none, unit, c
    <3>5. w[p] \in Nat /\ unit * w[p] <= f[p]
      BY <2>2, <3>1, <3>3, ClaimCovered DEF unit
    <3>6. c * w[p] = -(unit * w[p]) /\ unit * w[p] \in Int
      BY <2>3, <3>5 DEF c
    <3>. QED  BY <3>3, <3>4, <3>5, <3>6
  <2>. HIDE DEF f, w, none, unit, c, kept
  <2>7. /\ SumFunction(f) \in Int /\ SumFunction(none) \in Int /\ SumFunction(w) \in Int
        /\ SumFunction(none) <= SumFunction(f) + c * SumFunction(w)
    BY <2>3, <2>5, <2>6, SumShifted
  <2>8. SumFunction(none) \in Nat
    BY <2>5, <2>6, SumNatural
  <2>. DEFINE sum == SumFunction(w)  x == unit * sum  y == unit * kept
  <2>9. c * sum = -x /\ x \in Int /\ y \in Int
    BY <2>3, <2>7 DEF c
  <2>10. unit * sum <= unit * kept
    <3>. HIDE DEF sum, x, y
    <3>1. SumFunction(none) <= SumFunction(f) + c * sum
      BY <2>7 DEF sum
    <3>2. x <= y
      BY <2>4, <2>7, <2>8, <2>9, <3>1 DEF y
    <3>. QED  BY <3>2 DEF x, y
  <2>. HIDE DEF x, y
  <2>11. sum <= kept
    <3>. DEFINE more == kept + 1
    <3>1. sum \in Int /\ more \in Int /\ unit * more = unit * kept + unit
      BY <2>3, <2>7
    <3>2. unit * sum < unit * more
      <4>. DEFINE i == unit * sum  j == unit * kept
      <4>1. i \in Int /\ j \in Int /\ i <= j
        BY <2>3, <2>7, <2>10
      <4>. HIDE DEF i, j, more, sum
      <4>2. i < j + unit
        BY <2>3, <4>1
      <4>. QED  BY <3>1, <4>2 DEF i, j
    <3>. HIDE DEF sum, more
    <3>3. sum < more
      BY <2>3, <3>1, <3>2, MultipleLess
    <3>. QED  BY <2>3, <3>1, <3>3 DEF more
  <2>. QED
    BY <2>2, <2>7, <2>11 DEF kept, w
<1>. QED
  BY <1>1, SolventInvariant, PTL
=============================================================================
