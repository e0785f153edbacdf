----------------------------- MODULE NormalProofs -----------------------------
(***************************************************************************)
(* What holds of the markets' balances, the registries, the oracle and the *)
(* liquidations of the normal program for every value of the constants: for*)
(* any number of users, calls, amounts, rates, prices and precisions.  The *)
(* machines share no state; the balances' theorems are about the market's  *)
(* own specification, the others about the machines side by side.          *)
(***************************************************************************)
EXTENDS NormalProgram, OperatorLemmas

USE DEF Sides

-----------------------------------------------------------------------------
(* Markets, balances and what a balance adds to a side *)

Fields == {"status", "paused", "total", "interest", "revenuePool", "twap", "utilization",
           "lastTwap", "lastInterest", "guard", "maxBorrows", "optimalUtilization"}
PoolType == [type : {"Deposit"}, scaled : Nat]
PositionType == [type : Sides, scaled : Nat, cumulative : Int]

IsMarket(m) ==
    /\ DOMAIN m = Fields
    /\ m.total \in [Sides -> Nat]
    /\ m.interest \in [Sides -> Nat \ {0}]
    /\ m.interest["Deposit"] >= INTEREST_ONE
    /\ m.revenuePool \in PoolType

On(side, balance) == IF balance.type = side THEN balance.scaled ELSE 0

\* A token is at most a unit of scaled balance: nothing is worth less than a token.
Coarse == PRECISION <= INTEREST_ONE

\* What one update may do to a balance and the totals: the sum of both sides stays with the
\* balance, and only the deposits' total may be left with more than it was.
Moves(m, b, n, c) ==
    /\ n.total["Deposit"] + n.total["Borrow"] - c.scaled = m.total["Deposit"] + m.total["Borrow"] - b.scaled
    /\ n.total["Deposit"] - On("Deposit", c) >= m.total["Deposit"] - On("Deposit", b)
    /\ Coarse => n.total["Deposit"] - On("Deposit", c) = m.total["Deposit"] - On("Deposit", b)

SameOtherwise(m, n) ==
    /\ n.interest = m.interest /\ n.revenuePool = m.revenuePool /\ DOMAIN n = DOMAIN m
    /\ n.guard = m.guard /\ n.twap = m.twap /\ n.lastTwap = m.lastTwap
    /\ n.utilization = m.utilization /\ n.optimalUtilization = m.optimalUtilization

LEMMA ProductNatural == ASSUME NEW a \in Nat, NEW b \in Nat PROVE a * b \in Nat
OBVIOUS

LEMMA QuotientNatural == ASSUME NEW a \in Nat, NEW d \in Nat \ {0} PROVE a \div d \in Nat
OBVIOUS

\* A debt rounds up: it is nothing only if there is none.
LEMMA CeilingOfProduct ==
  ASSUME NEW a \in Nat, NEW b \in Nat \ {0}, NEW d \in Nat \ {0}
  PROVE  CeilDiv(a * b, d) \in Nat /\ (CeilDiv(a * b, d) = 0 => a = 0)
<1>. DEFINE p == a * b
<1>1. p \in Nat /\ (p = 0 => a = 0)
  OBVIOUS
<1>. HIDE DEF p
<1>2. (p + d - 1) \div d \in Nat /\ ((p + d - 1) \div d = 0 => p = 0)
  BY <1>1
<1>. QED
  BY <1>1, <1>2 DEF CeilDiv, p

LEMMA QuotientPositive ==
  ASSUME NEW a \in Nat, NEW b \in Nat \ {0}, NEW d \in Nat \ {0}, d <= b, (a * b) \div d = 0
  PROVE  a = 0
<1>1. SUFFICES ASSUME a >= 1 PROVE FALSE
  OBVIOUS
<1>. DEFINE p == a * b
<1>2. p \in Nat /\ p >= b
  BY <1>1
<1>. HIDE DEF p
<1>3. p \div d >= 1
  BY <1>2
<1>. QED
  BY <1>3 DEF p

LEMMA ScaledNatural ==
  ASSUME NEW m, IsMarket(m), NEW side \in Sides, NEW tokens \in Nat, NEW roundUp \in BOOLEAN
  PROVE  SpotBalance(m, side, tokens, roundUp) \in Nat
<1>1. m.interest[side] \in Nat \ {0} /\ PRECISION \in Nat
  BY SynthBalancesAssumption DEF IsMarket
<1>2. (tokens * PRECISION) \div m.interest[side] \in Nat
  BY <1>1, ProductNatural, QuotientNatural
<1>. QED
  BY <1>2 DEF SpotBalance

LEMMA TokensNatural ==
  ASSUME NEW m, IsMarket(m), NEW side \in Sides, NEW scaled \in Nat
  PROVE  /\ TokenAmount(m, side, scaled) \in Nat
         /\ TokenAmount(m, side, scaled) = 0 /\ (side = "Borrow" \/ Coarse) => scaled = 0
<1>1. m.interest[side] \in Nat \ {0} /\ PRECISION \in Nat \ {0} /\ INTEREST_ONE \in Nat
  BY SynthBalancesAssumption DEF IsMarket
<1>2. CASE side = "Borrow"
  BY <1>1, <1>2, CeilingOfProduct DEF TokenAmount
<1>3. CASE side = "Deposit"
  <2>1. (scaled * m.interest[side]) \div PRECISION \in Nat
    BY <1>1, ProductNatural, QuotientNatural
  <2>2. Coarse => PRECISION <= m.interest[side]
    BY <1>1, <1>3 DEF IsMarket, Coarse
  <2>. QED  BY <1>1, <1>3, <2>1, <2>2, QuotientPositive DEF TokenAmount
<1>. QED
  BY <1>2, <1>3
-----------------------------------------------------------------------------
(* One update of a balance *)

BareType == [type : Sides, scaled : Nat]
IsBalance(b) == b \in PositionType \/ b \in BareType
Kept(b, c) == /\ b \in PositionType => c \in PositionType
              /\ b \in BareType => c \in BareType

LEMMA BalanceTyped == ASSUME NEW b, IsBalance(b) PROVE b.type \in Sides /\ b.scaled \in Nat
BY DEF IsBalance, PositionType, BareType

Rewritten(b, side, n) == [b EXCEPT !.type = side, !.scaled = n]
Rescaled(b, n) == [b EXCEPT !.scaled = n]

LEMMA BalanceRewritten ==
  ASSUME NEW b, IsBalance(b), NEW side \in Sides, NEW n \in Nat
  PROVE  /\ Kept(b, Rewritten(b, side, n)) /\ Kept(b, Rescaled(b, n))
         /\ Rewritten(b, side, n).type = side /\ Rewritten(b, side, n).scaled = n
         /\ Rescaled(b, n).type = b.type /\ Rescaled(b, n).scaled = n
<1>1. CASE b \in PositionType
  <2>1. b \notin BareType
    <3>1. "cumulative" \in DOMAIN b
      BY <1>1 DEF PositionType
    <3>2. b \in BareType => DOMAIN b = {"type", "scaled"}
      BY DEF BareType
    <3>. QED  BY <3>1, <3>2
  <2>. QED  BY <1>1, <2>1 DEF PositionType, Kept, Rewritten, Rescaled
<1>2. CASE b \in BareType
  <2>1. b \notin PositionType
    <3>1. b \in PositionType => "cumulative" \in DOMAIN b
      BY DEF PositionType
    <3>2. DOMAIN b = {"type", "scaled"}
      BY <1>2 DEF BareType
    <3>. QED  BY <3>1, <3>2
  <2>. QED  BY <1>2, <2>1 DEF BareType, Kept, Rewritten, Rescaled
<1>. QED
  BY <1>1, <1>2 DEF IsBalance

\* The totals, with delta more on a side
Shifted(total, side, delta) == [total EXCEPT ![side] = @ + delta]
WithTotal(m, side, delta) == [m EXCEPT !.total = Shifted(m.total, side, delta)]

LEMMA TotalShifted ==
  ASSUME NEW m, IsMarket(m), NEW side \in Sides, NEW delta \in Int, m.total[side] + delta \in Nat
  PROVE  /\ IsMarket(WithTotal(m, side, delta)) /\ SameOtherwise(m, WithTotal(m, side, delta))
         /\ WithTotal(m, side, delta).total[side] = m.total[side] + delta
         /\ \A s \in Sides : s # side => WithTotal(m, side, delta).total[s] = m.total[s]
<1>. DEFINE n == WithTotal(m, side, delta)
<1>1. n.total = Shifted(m.total, side, delta) /\ SameOtherwise(m, n)
  BY DEF IsMarket, SameOtherwise, Fields, WithTotal
<1>2. n.total \in [Sides -> Nat] /\ m.total \in [Sides -> Nat]
  BY <1>1 DEF IsMarket, Shifted
<1>3. IsMarket(n)
  BY <1>1, <1>2 DEF IsMarket, SameOtherwise
<1>. QED
  BY <1>1, <1>2, <1>3 DEF Shifted

Increasing(r, m, b, side, delta) == r = Increased(m, b, side, delta)

LEMMA IncreaseEffect ==
  ASSUME NEW m, IsMarket(m), NEW b, IsBalance(b), NEW side \in Sides, NEW delta \in Nat,
         NEW r, Increasing(r, m, b, side, delta)
  PROVE  /\ IsMarket(r.market) /\ SameOtherwise(m, r.market) /\ Kept(b, r.balance)
         /\ r.balance.type = side /\ r.balance.scaled = b.scaled + delta
         /\ r.market.total[side] = m.total[side] + delta
         /\ \A s \in Sides : s # side => r.market.total[s] = m.total[s]
<1>. DEFINE n == b.scaled + delta
<1>1. n \in Nat
  BY BalanceTyped
<1>2. r.market = WithTotal(m, side, delta) /\ r.balance = Rewritten(b, side, n)
  <2>1. [b EXCEPT !.type = side, !.scaled = @ + delta] = Rewritten(b, side, n)
    BY DEF IsBalance, PositionType, BareType, Rewritten
  <2>2. [m EXCEPT !.total[side] = @ + delta] = WithTotal(m, side, delta)
    BY DEF Shifted, WithTotal
  <2>. QED  BY <2>1, <2>2 DEF Increased, Increasing
<1>3. m.total[side] + delta \in Nat /\ delta \in Int
  BY DEF IsMarket
<1>4. Rewritten(b, side, n).type = side /\ Rewritten(b, side, n).scaled = n /\ Kept(b, Rewritten(b, side, n))
  <2>. HIDE DEF n
  <2>. QED  BY <1>1, BalanceRewritten
<1>5. /\ IsMarket(r.market) /\ SameOtherwise(m, r.market)
      /\ r.market.total[side] = m.total[side] + delta
      /\ \A s \in Sides : s # side => r.market.total[s] = m.total[s]
  BY <1>2, <1>3, TotalShifted
<1>. QED
  BY <1>2, <1>4, <1>5

Decreasing(r, m, b, delta) == r = Decreased(m, b, delta)

LEMMA DecreaseEffect ==
  ASSUME NEW m, IsMarket(m), NEW b, IsBalance(b), NEW delta \in Nat,
         delta <= b.scaled, delta <= m.total[b.type],
         NEW r, Decreasing(r, m, b, delta)
  PROVE  /\ IsMarket(r.market) /\ SameOtherwise(m, r.market) /\ Kept(b, r.balance)
         /\ r.balance.type = b.type /\ r.balance.scaled = b.scaled - delta
         /\ r.market.total[b.type] = m.total[b.type] - delta
         /\ \A s \in Sides : s # b.type => r.market.total[s] = m.total[s]
<1>. DEFINE minus == -delta  n == b.scaled - delta  side == b.type
<1>1. side \in Sides /\ n \in Nat
  BY BalanceTyped
<1>2. minus \in Int /\ m.total[side] \in Nat /\ m.total[side] + minus = m.total[side] - delta
  BY <1>1 DEF IsMarket
<1>3. r.market = WithTotal(m, side, minus) /\ r.balance = Rescaled(b, n)
  <2>1. [m EXCEPT !.total[side] = @ - delta] = WithTotal(m, side, minus)
    <3>1. [m.total EXCEPT ![side] = @ - delta] = Shifted(m.total, side, minus)
      BY <1>1, <1>2 DEF Shifted, IsMarket
    <3>. QED  BY <3>1 DEF WithTotal
  <2>2. [b EXCEPT !.scaled = @ - delta] = Rescaled(b, n)
    BY DEF Rescaled
  <2>. QED  BY <2>1, <2>2 DEF Decreased, Decreasing
<1>4. m.total[side] + minus \in Nat
  BY <1>1, <1>2
<1>. HIDE DEF minus, n, side
<1>5. /\ IsMarket(r.market) /\ SameOtherwise(m, r.market)
      /\ r.market.total[side] = m.total[side] + minus
      /\ \A s \in Sides : s # side => r.market.total[s] = m.total[s]
  BY <1>1, <1>2, <1>3, <1>4, TotalShifted
<1>6. /\ Kept(b, r.balance) /\ r.balance.type = b.type /\ r.balance.scaled = n
  BY <1>1, <1>3, BalanceRewritten
<1>. QED
  BY <1>2, <1>5, <1>6 DEF n, side

LEMMA MovesTwice ==
  ASSUME NEW m1, IsMarket(m1), NEW m2, IsMarket(m2), NEW m3, IsMarket(m3),
         NEW b1, IsBalance(b1), NEW b2, IsBalance(b2), NEW b3, IsBalance(b3),
         Moves(m1, b1, m2, b2), Moves(m2, b2, m3, b3)
  PROVE  Moves(m1, b1, m3, b3)
<1>. DEFINE Typed(m, b) == /\ m.total["Deposit"] \in Int /\ m.total["Borrow"] \in Int
                           /\ b.scaled \in Int /\ On("Deposit", b) \in Int
<1>1. ASSUME NEW m, IsMarket(m), NEW b, IsBalance(b) PROVE Typed(m, b)
  BY <1>1, BalanceTyped DEF IsMarket, On
<1>2. Typed(m1, b1) /\ Typed(m2, b2) /\ Typed(m3, b3)
  <2>. HIDE DEF Typed
  <2>. QED  BY <1>1
<1>. QED
  BY <1>2 DEF Moves

\* What is done to a balance by one update
Effect(m, b, r) ==
    /\ DOMAIN r = {"market", "balance"}
    /\ IsMarket(r.market) /\ SameOtherwise(m, r.market)
    /\ IsBalance(r.balance) /\ Kept(b, r.balance)
    /\ Moves(m, b, r.market, r.balance)

LEMMA IncreaseMoves ==
  ASSUME NEW m, IsMarket(m), NEW b, IsBalance(b), NEW side \in Sides, NEW delta \in Nat,
         b.type = side \/ b.scaled = 0 \/ (b.type = "Deposit" /\ ~Coarse),
         NEW r, Increasing(r, m, b, side, delta)
  PROVE  Effect(m, b, r) /\ r.balance.type = side
<1>1. /\ IsMarket(r.market) /\ SameOtherwise(m, r.market) /\ Kept(b, r.balance)
      /\ r.balance.type = side /\ r.balance.scaled = b.scaled + delta
      /\ r.market.total[side] = m.total[side] + delta
      /\ \A s \in Sides : s # side => r.market.total[s] = m.total[s]
  BY IncreaseEffect
<1>2. b.type \in Sides /\ b.scaled \in Nat /\ m.total["Deposit"] \in Nat /\ m.total["Borrow"] \in Nat
  BY BalanceTyped DEF IsMarket
<1>3. IsBalance(r.balance)
  BY <1>1 DEF IsBalance, Kept
<1>6. DOMAIN r = {"market", "balance"}
  BY DEF Increasing, Increased
<1>4. CASE side = "Deposit"
  BY <1>1, <1>2, <1>3, <1>4, <1>6 DEF Effect, Moves, On
<1>5. CASE side = "Borrow"
  BY <1>1, <1>2, <1>3, <1>5, <1>6 DEF Effect, Moves, On
<1>. QED
  BY <1>4, <1>5

LEMMA DecreaseMoves ==
  ASSUME NEW m, IsMarket(m), NEW b, IsBalance(b), NEW delta \in Nat,
         delta <= b.scaled, delta <= m.total[b.type],
         NEW r, Decreasing(r, m, b, delta)
  PROVE  Effect(m, b, r) /\ r.balance.type = b.type /\ r.balance.scaled = b.scaled - delta
<1>1. /\ IsMarket(r.market) /\ SameOtherwise(m, r.market) /\ Kept(b, r.balance)
      /\ r.balance.type = b.type /\ r.balance.scaled = b.scaled - delta
      /\ r.market.total[b.type] = m.total[b.type] - delta
      /\ \A s \in Sides : s # b.type => r.market.total[s] = m.total[s]
  BY DecreaseEffect
<1>2. b.type \in Sides /\ b.scaled \in Nat /\ m.total["Deposit"] \in Nat /\ m.total["Borrow"] \in Nat
  BY BalanceTyped DEF IsMarket
<1>3. IsBalance(r.balance)
  BY <1>1 DEF IsBalance, Kept
<1>6. DOMAIN r = {"market", "balance"}
  BY DEF Decreasing, Decreased
<1>4. CASE b.type = "Deposit"
  BY <1>1, <1>2, <1>3, <1>4, <1>6 DEF Effect, Moves, On
<1>5. CASE b.type = "Borrow"
  BY <1>1, <1>2, <1>3, <1>5, <1>6 DEF Effect, Moves, On
<1>. QED
  BY <1>2, <1>4, <1>5

\* A balance that changes sides keeps no more than dust.
LEMMA ReductionFacts ==
  ASSUME NEW m, IsMarket(m), NEW b, IsBalance(b), NEW tokens \in Nat, NEW leaving \in BOOLEAN
  PROVE  LET taken == Reduction(m, b, tokens, leaving)
         IN  /\ taken.scaled \in Nat /\ tokens - taken.tokens \in Nat
             /\ \/ tokens - taken.tokens = 0
                \/ b.scaled - taken.scaled = 0
                \/ b.type = "Deposit" /\ ~Coarse
<1>. DEFINE current == TokensOf(m, b)
            roundUp == leaving \/ b.type = "Borrow"
            scaled == SpotBalance(m, b.type, tokens, roundUp)
<1>1. b.type \in Sides /\ b.scaled \in Nat
  BY BalanceTyped
<1>2. current \in Nat /\ (current = 0 /\ (b.type = "Borrow" \/ Coarse) => b.scaled = 0)
  BY <1>1, TokensNatural DEF TokensOf
<1>3. scaled \in Nat
  <2>1. roundUp \in BOOLEAN
    OBVIOUS
  <2>. HIDE DEF roundUp
  <2>. QED  BY <1>1, <2>1, ScaledNatural
<1>. HIDE DEF current, scaled
<1>4. Reduction(m, b, tokens, leaving) = CASE current = 0 -> [tokens |-> 0, scaled |-> 0]
                                           [] current > tokens -> [tokens |-> tokens, scaled |-> scaled]
                                           [] OTHER -> [tokens |-> current, scaled |-> b.scaled]
  BY DEF Reduction, current, scaled
<1>5. CASE current = 0
  BY <1>1, <1>2, <1>4, <1>5
<1>6. CASE current # 0 /\ current > tokens
  BY <1>1, <1>2, <1>3, <1>4, <1>6
<1>7. CASE current # 0 /\ ~(current > tokens)
  BY <1>1, <1>2, <1>4, <1>7
<1>. QED
  BY <1>5, <1>6, <1>7

LEMMA UpdateEffect ==
  ASSUME NEW m, IsMarket(m), NEW b, IsBalance(b), NEW side \in Sides, NEW tokens \in Nat,
         NEW leaving \in BOOLEAN, NEW r \in UpdateBalances(m, b, side, tokens, leaving)
  PROVE  Effect(m, b, r) /\ (b.type = side => r.balance.type = side)
<1>. DEFINE roundUp == side = "Borrow"
            taken == Reduction(m, b, tokens, leaving)
            left == tokens - taken.tokens
            reduced == Decreased(m, b, taken.scaled)
<1>0. b.type \in Sides /\ b.scaled \in Nat /\ m.total[b.type] \in Nat
  BY BalanceTyped DEF IsMarket
<1>1. CASE b.type = side
  <2>. DEFINE delta == SpotBalance(m, side, tokens, roundUp)
  <2>1. delta \in Nat
    BY ScaledNatural
  <2>2. Increasing(r, m, b, side, delta)
    BY <1>1 DEF UpdateBalances, Increasing
  <2>. HIDE DEF delta
  <2>. QED  BY <1>1, <2>1, <2>2, IncreaseMoves
<1>2. CASE b.type # side
  <2>1. /\ r = TakenFrom(m, b, side, tokens, taken)
        /\ taken.scaled <= Smaller(b.scaled, m.total[b.type])
    BY <1>2 DEF UpdateBalances
  <2>2. /\ taken.scaled \in Nat /\ left \in Nat
        /\ left = 0 \/ b.scaled - taken.scaled = 0 \/ (b.type = "Deposit" /\ ~Coarse)
    BY ReductionFacts
  <2>3. r = IF left = 0 THEN reduced
            ELSE Increased(reduced.market, reduced.balance, side,
                           SpotBalance(m, side, left, roundUp))
    BY <2>1 DEF TakenFrom
  <2>4. /\ Effect(m, b, reduced) /\ reduced.balance.type = b.type
        /\ reduced.balance.scaled = b.scaled - taken.scaled
    <3>1. taken.scaled <= b.scaled /\ taken.scaled <= m.total[b.type]
      <4>. HIDE DEF taken
      <4>. QED  BY <1>0, <2>1, <2>2 DEF Smaller
    <3>2. Decreasing(reduced, m, b, taken.scaled)
      BY DEF Decreasing
    <3>. HIDE DEF reduced, taken
    <3>. QED  BY <2>2, <3>1, <3>2, DecreaseMoves
  <2>5. CASE left = 0
    BY <1>2, <2>3, <2>4, <2>5
  <2>6. CASE left # 0
    <3>. DEFINE delta == SpotBalance(m, side, left, roundUp)
                m2 == reduced.market  b2 == reduced.balance
    <3>1. delta \in Nat
      <4>. HIDE DEF left
      <4>. QED  BY <2>2, ScaledNatural
    <3>2. Increasing(r, m2, b2, side, delta)
      BY <2>3, <2>6 DEF Increasing
    <3>3. /\ IsMarket(m2) /\ IsBalance(b2) /\ SameOtherwise(m, m2) /\ Kept(b, b2) /\ Moves(m, b, m2, b2)
          /\ b2.type = side \/ b2.scaled = 0 \/ (b2.type = "Deposit" /\ ~Coarse)
      BY <2>2, <2>4, <2>6 DEF Effect
    <3>. HIDE DEF delta, m2, b2
    <3>4. Effect(m2, b2, r)
      BY <3>1, <3>2, <3>3, IncreaseMoves
    <3>5. Moves(m, b, r.market, r.balance)
      <4>1. IsMarket(r.market) /\ IsBalance(r.balance) /\ Moves(m2, b2, r.market, r.balance)
        BY <3>4 DEF Effect
      <4>. QED  BY <3>3, <4>1, MovesTwice
    <3>. QED  BY <1>2, <3>3, <3>4, <3>5 DEF Effect, SameOtherwise, Kept
  <2>. QED  BY <2>5, <2>6
<1>. QED
  BY <1>1, <1>2

-----------------------------------------------------------------------------
(* The market and all positions *)

Positions == [Users -> PositionType]

\* BalancesAddUp of any market and positions; with coarse balances each side adds up.
Balanced(m, P) ==
    /\ m.total["Deposit"] + m.total["Borrow"]
          = Total("Deposit", P) + m.revenuePool.scaled + Total("Borrow", P)
    /\ Total("Deposit", P) + m.revenuePool.scaled <= m.total["Deposit"]
    /\ Coarse => Total("Deposit", P) + m.revenuePool.scaled = m.total["Deposit"]

LEMMA TotalUpdated ==
  ASSUME NEW P \in Positions, NEW u \in Users, NEW b \in PositionType, NEW side \in Sides
  PROVE  /\ Total(side, P) \in Int
         /\ Total(side, [P EXCEPT ![u] = b]) = Total(side, P) - On(side, P[u]) + On(side, b)
<1>. DEFINE Q == [P EXCEPT ![u] = b]
            f == [v \in Users |-> On(side, P[v])]
            g == [v \in Users |-> On(side, Q[v])]
<1>1. IsFiniteSet(Users)
  BY SynthMarketsAssumption
<1>2. Q \in Positions /\ Q[u] = b /\ \A v \in Users : v # u => Q[v] = P[v]
  BY DEF Positions
<1>3. \A v \in Users : On(side, P[v]) \in Int /\ On(side, Q[v]) \in Int
  BY <1>2 DEF Positions, PositionType, On
<1>4. /\ DOMAIN f = Users /\ DOMAIN g = Users
      /\ \A v \in Users : f[v] = On(side, P[v]) /\ g[v] = On(side, Q[v])
  OBVIOUS
<1>5. Total(side, P) = SumFunction(f) /\ Total(side, Q) = SumFunction(g)
  BY DEF Total, On
<1>. HIDE DEF f, g, Q
<1>6. /\ \A v \in DOMAIN f : v # u => g[v] = f[v]
      /\ \A v \in DOMAIN f : f[v] \in Int /\ g[v] \in Int
      /\ IsFiniteSet(DOMAIN f) /\ DOMAIN g = DOMAIN f /\ u \in DOMAIN f
  BY <1>1, <1>2, <1>3, <1>4
<1>7. SumFunction(f) \in Int /\ SumFunction(g) = SumFunction(f) - f[u] + g[u]
  BY <1>6, SumUpdated
<1>. QED
  BY <1>2, <1>4, <1>5, <1>7 DEF Q

LEMMA TotalTyped ==
  ASSUME NEW P \in Positions, NEW side \in Sides
  PROVE  Total(side, P) \in Int
<1>. DEFINE f == [v \in Users |-> On(side, P[v])]
<1>1. Total(side, P) = SumFunction(f)
  BY DEF Total, On
<1>2. IsFiniteSet(DOMAIN f) /\ \A v \in DOMAIN f : f[v] \in Nat
  BY SynthMarketsAssumption DEF Positions, PositionType, On
<1>. HIDE DEF f
<1>. QED
  BY <1>1, <1>2, SumNatural

LEMMA BalancedSame ==
  ASSUME NEW m, NEW n, NEW P, Balanced(m, P), n.total = m.total, n.revenuePool = m.revenuePool
  PROVE  Balanced(n, P)
BY DEF Balanced

\* An update of one position
LEMMA PositionEffect ==
  ASSUME NEW m, IsMarket(m), NEW P \in Positions, Balanced(m, P), NEW u \in Users,
         NEW side \in Sides, NEW tokens \in Nat, NEW leaving \in BOOLEAN, NEW counted \in Int,
         NEW r \in PositionUpdated(m, P[u], side, tokens, leaving, counted)
  PROVE  /\ IsMarket(r.market) /\ r.balance \in PositionType
         /\ [P EXCEPT ![u] = r.balance] \in Positions
         /\ Balanced(r.market, [P EXCEPT ![u] = r.balance])
<1>. DEFINE Delta(x) == IF side = "Deposit" THEN x + counted ELSE x - counted
<1>1. PICK q \in UpdateBalances(m, P[u], side, tokens, leaving) :
          r = [q EXCEPT !.balance.cumulative = IF side = "Deposit" THEN @ + counted ELSE @ - counted]
  BY DEF PositionUpdated
<1>2. P[u] \in PositionType /\ IsBalance(P[u])
  BY DEF Positions, IsBalance
<1>3. Effect(m, P[u], q)
  BY <1>2, UpdateEffect
<1>4. /\ q.balance \in PositionType /\ DOMAIN q = {"market", "balance"}
      /\ IsMarket(q.market) /\ SameOtherwise(m, q.market) /\ Moves(m, P[u], q.market, q.balance)
  BY <1>2, <1>3 DEF Effect, Kept
<1>5. /\ r.market = q.market
      /\ r.balance = [q.balance EXCEPT !.cumulative = Delta(@)]
  BY <1>1, <1>4
<1>6. r.balance \in PositionType /\ r.balance.type = q.balance.type /\ r.balance.scaled = q.balance.scaled
  BY <1>4, <1>5 DEF PositionType
<1>7. Moves(m, P[u], r.market, r.balance) /\ r.market.revenuePool = m.revenuePool
  BY <1>4, <1>5, <1>6 DEF Moves, On, SameOtherwise
<1>. DEFINE Q == [P EXCEPT ![u] = r.balance]  D == Total("Deposit", P)  B == Total("Borrow", P)
<1>8. Q \in Positions
  BY <1>6 DEF Positions
<1>9. /\ Total("Deposit", Q) = D - On("Deposit", P[u]) + On("Deposit", r.balance)
      /\ Total("Borrow", Q) = B - On("Borrow", P[u]) + On("Borrow", r.balance)
      /\ D \in Int /\ B \in Int
  BY <1>6, TotalUpdated
<1>10. ASSUME NEW b \in PositionType
       PROVE  /\ On("Deposit", b) \in Int /\ On("Borrow", b) \in Int
              /\ On("Deposit", b) + On("Borrow", b) = b.scaled
  BY DEF PositionType, On
<1>11. /\ On("Deposit", P[u]) \in Int /\ On("Borrow", P[u]) \in Int
       /\ On("Deposit", P[u]) + On("Borrow", P[u]) = P[u].scaled
       /\ On("Deposit", r.balance) \in Int /\ On("Borrow", r.balance) \in Int
       /\ On("Deposit", r.balance) + On("Borrow", r.balance) = r.balance.scaled
  BY <1>2, <1>6, <1>10
<1>12. /\ m.total["Deposit"] \in Int /\ m.total["Borrow"] \in Int /\ m.revenuePool.scaled \in Int
       /\ r.market.total["Deposit"] \in Int /\ r.market.total["Borrow"] \in Int
  BY <1>4, <1>5 DEF IsMarket, PoolType
<1>13. Balanced(r.market, Q)
  <2>. HIDE DEF Q, D, B, Delta
  <2>1. Balanced(m, P) /\ D = Total("Deposit", P) /\ B = Total("Borrow", P)
    BY DEF D, B
  <2>2. r.market.revenuePool.scaled = m.revenuePool.scaled
    BY <1>7
  <2>3. Moves(m, P[u], r.market, r.balance)
    BY <1>7
  <2>4. r.market.total["Deposit"] + r.market.total["Borrow"]
          = Total("Deposit", Q) + r.market.revenuePool.scaled + Total("Borrow", Q)
    BY <1>9, <1>11, <1>12, <2>1, <2>2, <2>3 DEF Balanced, Moves
  <2>5. Total("Deposit", Q) + r.market.revenuePool.scaled <= r.market.total["Deposit"]
    BY <1>9, <1>11, <1>12, <2>1, <2>2, <2>3 DEF Balanced, Moves
  <2>6. ASSUME Coarse PROVE Total("Deposit", Q) + r.market.revenuePool.scaled = r.market.total["Deposit"]
    <3>1. r.market.total["Deposit"] - On("Deposit", r.balance) = m.total["Deposit"] - On("Deposit", P[u])
      BY <2>3, <2>6 DEF Moves
    <3>2. D + m.revenuePool.scaled = m.total["Deposit"]
      BY <2>1, <2>6 DEF Balanced
    <3>3. Total("Deposit", Q) = D - On("Deposit", P[u]) + On("Deposit", r.balance) /\ D \in Int
      BY <1>9
    <3>4. On("Deposit", P[u]) \in Int /\ On("Deposit", r.balance) \in Int
      BY <1>11
    <3>. QED  BY <1>12, <2>2, <3>1, <3>2, <3>3, <3>4, SMTT(60)
  <2>. QED  BY <2>4, <2>5, <2>6 DEF Balanced
<1>. QED
  BY <1>4, <1>5, <1>6, <1>8, <1>13

\* A deposit of the revenue pool
LEMMA PoolEffect ==
  ASSUME NEW m, IsMarket(m), NEW P \in Positions, Balanced(m, P), NEW tokens \in Nat,
         NEW n \in RevenuePoolUpdated(m, "Deposit", tokens)
  PROVE  IsMarket(n) /\ Balanced(n, P)
<1>1. PICK q \in UpdateBalances(m, m.revenuePool, "Deposit", tokens, FALSE) :
          n = [q.market EXCEPT !.revenuePool = q.balance]
  BY DEF RevenuePoolUpdated
<1>2. m.revenuePool \in BareType /\ IsBalance(m.revenuePool) /\ m.revenuePool.type = "Deposit"
  BY DEF IsMarket, PoolType, BareType, IsBalance
<1>3. Effect(m, m.revenuePool, q) /\ q.balance.type = "Deposit"
  BY <1>2, UpdateEffect
<1>4. /\ q.balance \in PoolType /\ IsMarket(q.market)
      /\ Moves(m, m.revenuePool, q.market, q.balance)
  BY <1>2, <1>3 DEF Effect, Kept, PoolType, BareType
<1>5. /\ n.total = q.market.total /\ n.interest = q.market.interest /\ n.revenuePool = q.balance
      /\ DOMAIN n = DOMAIN q.market
  BY <1>1, <1>4 DEF IsMarket, Fields
<1>6. IsMarket(n)
  BY <1>4, <1>5 DEF IsMarket
<1>7. /\ Total("Deposit", P) \in Int /\ Total("Borrow", P) \in Int
      /\ On("Deposit", m.revenuePool) = m.revenuePool.scaled /\ On("Deposit", q.balance) = q.balance.scaled
      /\ m.revenuePool.scaled \in Int /\ q.balance.scaled \in Int
  BY <1>2, <1>3, <1>4, TotalTyped DEF On, PoolType, BareType
<1>8. /\ m.total["Deposit"] \in Int /\ m.total["Borrow"] \in Int
      /\ n.total["Deposit"] \in Int /\ n.total["Borrow"] \in Int
  BY <1>6 DEF IsMarket
<1>9. Balanced(n, P)
  BY <1>4, <1>5, <1>7, <1>8 DEF Balanced, Moves
<1>. QED
  BY <1>6, <1>9

-----------------------------------------------------------------------------
(* Interest *)

LEMMA AmountsTyped ==
  ASSUME NEW m, IsMarket(m)
  PROVE  Deposits(m) \in Nat /\ Borrows(m) \in Nat
BY TokensNatural DEF IsMarket, Deposits, Borrows

LEMMA UtilizationTyped ==
  ASSUME NEW d \in Nat, NEW b \in Nat
  PROVE  Utilization(d, b) \in Nat
<1>1. UTILIZATION_PRECISION \in Nat
  BY SynthBalancesAssumption
<1>2. d # 0 => (b * UTILIZATION_PRECISION) \div d \in Nat
  BY <1>1, ProductNatural, QuotientNatural
<1>. QED
  BY <1>1, <1>2 DEF Utilization

LEMMA InterestTyped ==
  ASSUME NEW m, IsMarket(m), NEW rate \in Nat, NEW t
  PROVE  /\ AccumulatedInterest(m, rate, t)["Deposit"] \in Nat
         /\ AccumulatedInterest(m, rate, t)["Borrow"] \in Nat
<1>. DEFINE utilization == Utilization(Deposits(m), Borrows(m))
            depositRate == (rate * utilization) \div UTILIZATION_PRECISION
            onDeposits == (m.interest["Deposit"] * depositRate) \div RATE_PRECISION
            onBorrows == (m.interest["Borrow"] * rate) \div RATE_PRECISION
<1>1. utilization \in Nat
  BY AmountsTyped, UtilizationTyped
<1>2. /\ UTILIZATION_PRECISION \in Nat \ {0} /\ RATE_PRECISION \in Nat \ {0}
      /\ m.interest["Deposit"] \in Nat /\ m.interest["Borrow"] \in Nat
  BY SynthBalancesAssumption DEF IsMarket
<1>3. depositRate \in Nat
  <2>. HIDE DEF utilization
  <2>. QED  BY <1>1, <1>2, ProductNatural, QuotientNatural
<1>4. onDeposits \in Nat /\ onBorrows \in Nat
  <2>. HIDE DEF depositRate
  <2>. QED  BY <1>2, <1>3, ProductNatural, QuotientNatural
<1>5. AccumulatedInterest(m, rate, t) =
        IF t <= m.lastInterest \/ utilization = 0 THEN [Deposit |-> 0, Borrow |-> 0]
        ELSE [Deposit |-> onDeposits, Borrow |-> onBorrows + 1]
  BY DEF AccumulatedInterest
<1>. HIDE DEF onDeposits, onBorrows, utilization
<1>. QED
  BY <1>4, <1>5

LEMMA InterestRaised ==
  ASSUME NEW m, IsMarket(m), NEW P \in Positions, Balanced(m, P), NEW i \in Nat, NEW j \in Nat, NEW t
  PROVE  LET n == [m EXCEPT !.interest["Deposit"] = @ + i, !.interest["Borrow"] = @ + j, !.lastInterest = t]
         IN  IsMarket(n) /\ Balanced(n, P)
<1>. DEFINE n == [m EXCEPT !.interest["Deposit"] = @ + i, !.interest["Borrow"] = @ + j, !.lastInterest = t]
<1>1. /\ n.total = m.total /\ n.revenuePool = m.revenuePool /\ DOMAIN n = DOMAIN m
      /\ n.interest = [m.interest EXCEPT !["Deposit"] = @ + i, !["Borrow"] = @ + j]
  BY DEF IsMarket, Fields
<1>2. m.interest \in [Sides -> Nat \ {0}] /\ m.interest["Deposit"] >= INTEREST_ONE /\ INTEREST_ONE \in Nat
  BY SynthBalancesAssumption DEF IsMarket
<1>3. n.interest \in [Sides -> Nat \ {0}] /\ n.interest["Deposit"] >= INTEREST_ONE
  <2>. HIDE DEF n
  <2>1. n.interest["Deposit"] = m.interest["Deposit"] + i /\ n.interest["Borrow"] = m.interest["Borrow"] + j
    BY <1>1, <1>2
  <2>2. n.interest = [s \in Sides |-> n.interest[s]]
    BY <1>1, <1>2
  <2>. QED  BY <1>2, <2>1, <2>2
<1>. HIDE DEF n
<1>4. IsMarket(n) /\ Balanced(n, P)
  BY <1>1, <1>3, BalancedSame DEF IsMarket
<1>. QED
  BY <1>4 DEF n

LEMMA InterestEffect ==
  ASSUME NEW m, IsMarket(m), NEW P \in Positions, Balanced(m, P), NEW rate \in Nat, NEW t,
         NEW n \in InterestPaid(m, AccumulatedInterest(m, rate, t), TotalFactor, t)
  PROVE  IsMarket(n) /\ Balanced(n, P)
<1>. DEFINE accumulated == AccumulatedInterest(m, rate, t)
            all == accumulated["Deposit"]  debt == accumulated["Borrow"]
            stakers == (all * TotalFactor) \div IF_FACTOR_PRECISION
            lenders == all - stakers
            raised == [m EXCEPT !.interest["Deposit"] = @ + lenders, !.interest["Borrow"] = @ + debt,
                                !.lastInterest = t]
            gain == (m.total["Deposit"] * stakers) \div PRECISION
<1>1. all \in Nat /\ debt \in Nat
  BY InterestTyped
<1>2. /\ TotalFactor \in Nat /\ IF_FACTOR_PRECISION \in Nat \ {0} /\ TotalFactor <= IF_FACTOR_PRECISION
      /\ PRECISION \in Nat \ {0} /\ m.total["Deposit"] \in Nat
  BY SynthBalancesAssumption, SynthMarketsAssumption DEF IsMarket
<1>3. stakers \in Nat /\ lenders \in Nat
  <2>. HIDE DEF all
  <2>1. all * TotalFactor \in Nat /\ all * TotalFactor <= all * IF_FACTOR_PRECISION
    BY <1>1, <1>2
  <2>2. stakers \in Nat /\ stakers <= all
    BY <1>1, <1>2, <2>1
  <2>. QED  BY <1>1, <2>2
<1>4. gain \in Nat
  <2>. HIDE DEF stakers
  <2>. QED  BY <1>2, <1>3, ProductNatural, QuotientNatural
<1>5. IsMarket(raised) /\ Balanced(raised, P)
  <2>. HIDE DEF lenders, debt
  <2>. QED  BY <1>1, <1>3, InterestRaised
<1>6. n = m \/ n \in RevenuePoolUpdated(raised, "Deposit", gain)
  BY DEF InterestPaid
<1>. HIDE DEF raised, gain
<1>. QED
  BY <1>4, <1>5, <1>6, PoolEffect

LEMMA AveragesEffect ==
  ASSUME NEW m, IsMarket(m), NEW P \in Positions, Balanced(m, P), NEW t
  PROVE  IsMarket(TwapsUpdated(m, t)) /\ Balanced(TwapsUpdated(m, t), P)
<1>. DEFINE n == TwapsUpdated(m, t)
<1>1. /\ n.total = m.total /\ n.revenuePool = m.revenuePool /\ DOMAIN n = DOMAIN m
      /\ n.interest = m.interest
  BY DEF IsMarket, Fields, TwapsUpdated
<1>. HIDE DEF n
<1>. QED
  BY <1>1, BalancedSame DEF IsMarket, n

LEMMA RefreshedEffect ==
  ASSUME IsMarket(market), NEW P \in Positions, Balanced(market, P), NEW rate \in Nat, NEW m \in Refreshed(rate)
  PROVE  IsMarket(m) /\ Balanced(m, P)
<1>1. PICK n : /\ m = TwapsUpdated(n, now)
               /\ n = market \/ n \in InterestPaid(market, AccumulatedInterest(market, rate, now), TotalFactor, now)
  BY DEF Refreshed, CumulativeInterestUpdated
<1>2. IsMarket(n) /\ Balanced(n, P)
  BY <1>1, InterestEffect
<1>. QED
  BY <1>1, <1>2, AveragesEffect

-----------------------------------------------------------------------------
(* The calls *)

SynthInv == IsMarket(market) /\ positions \in Positions /\ Balanced(market, positions)

LEMMA InitSynthInv == Init => SynthInv
<1>. SUFFICES ASSUME Init PROVE SynthInv
  OBVIOUS
<1>1. IsMarket(market) /\ positions \in Positions
  <2>1. INTEREST_ONE \in Nat \ {0}
    BY SynthBalancesAssumption
  <2>. QED  BY <2>1 DEF Init, IsMarket, Fields, PoolType, Positions, PositionType, NoPosition
<1>2. ASSUME NEW side \in Sides PROVE Total(side, positions) = 0
  <2>. DEFINE f == [v \in Users |-> On(side, positions[v])]
  <2>1. Total(side, positions) = SumFunction(f)
    BY DEF Total, On
  <2>2. DOMAIN f = Users /\ \A v \in Users : f[v] = 0
    BY DEF Init, NoPosition, On
  <2>3. IsFiniteSet(Users)
    BY SynthMarketsAssumption
  <2>. HIDE DEF f
  <2>4. SumFunctionOnSet(f, Users) = SumFunctionOnSet(f, {})
    <3>1. /\ {} \in SUBSET Users /\ \A v \in Users : f[v] \in Int
          /\ \A v \in Users \ {} : f[v] = 0
      BY <2>2
    <3>. QED  BY <2>3, <3>1, SumOfNonZero
  <2>. QED  BY <2>1, <2>2, <2>4, SumOfNone DEF SumFunction
<1>3. market.total["Deposit"] = 0 /\ market.total["Borrow"] = 0 /\ market.revenuePool.scaled = 0
  BY DEF Init
<1>. QED
  BY <1>1, <1>2, <1>3 DEF SynthInv, Balanced

LEMMA DepositStep ==
  ASSUME SynthInv, NEW u \in Users, NEW amount \in Amounts, NEW rate \in Rates,
         NEW reduceOnly \in BOOLEAN, DepositCollateral(u, amount, reduceOnly, rate)
  PROVE  SynthInv'
<1>0. amount \in Nat /\ rate \in Nat
  BY SynthMarketsAssumption
<1>1. PICK m \in Refreshed(rate) :
        \E tokens \in {Smaller(TokensOf(m, positions[u]), amount), amount} :
        \E r \in PositionUpdated(m, positions[u], "Deposit", tokens, FALSE, tokens) :
           market' = r.market /\ positions' = [positions EXCEPT ![u] = r.balance]
  BY DEF DepositCollateral
<1>2. PICK tokens \in {Smaller(TokensOf(m, positions[u]), amount), amount} :
        \E r \in PositionUpdated(m, positions[u], "Deposit", tokens, FALSE, tokens) :
           market' = r.market /\ positions' = [positions EXCEPT ![u] = r.balance]
  BY <1>1
<1>3. PICK r \in PositionUpdated(m, positions[u], "Deposit", tokens, FALSE, tokens) :
           market' = r.market /\ positions' = [positions EXCEPT ![u] = r.balance]
  BY <1>2
<1>4. IsMarket(m) /\ Balanced(m, positions) /\ positions \in Positions
  BY <1>0, RefreshedEffect DEF SynthInv
<1>5. tokens \in Nat
  <2>1. TokensOf(m, positions[u]) \in Nat
    <3>1. positions[u].type \in Sides /\ positions[u].scaled \in Nat
      BY <1>4 DEF Positions, PositionType
    <3>. QED  BY <1>4, <3>1, TokensNatural DEF TokensOf
  <2>. QED  BY <1>0, <2>1 DEF Smaller
<1>6. /\ IsMarket(r.market) /\ [positions EXCEPT ![u] = r.balance] \in Positions
      /\ Balanced(r.market, [positions EXCEPT ![u] = r.balance])
  <2>1. tokens \in Int /\ "Deposit" \in Sides /\ FALSE \in BOOLEAN
    BY <1>5
  <2>. QED  BY <1>4, <1>5, <2>1, PositionEffect
<1>. QED
  BY <1>3, <1>6 DEF SynthInv, IsMarket, Balanced, Total

LEMMA Arrived ==
  ASSUME NEW m, NEW P, IsMarket(m), P \in Positions, Balanced(m, P), market' = m, positions' = P
  PROVE  SynthInv'
BY DEF SynthInv, IsMarket, Balanced, Total

LEMMA WithdrawStep ==
  ASSUME SynthInv, NEW u \in Users, NEW amount \in Amounts, NEW rate \in Rates, NEW fee \in Fees,
         NEW reduceOnly \in BOOLEAN, WithdrawCollateral(u, amount, reduceOnly, fee, rate)
  PROVE  SynthInv'
<1>0. amount \in Nat /\ rate \in Nat /\ fee \in Nat
  BY SynthMarketsAssumption
<1>1. PICK m \in Refreshed(rate) :
        \E tokens \in {Smaller(amount, TokensOf(m, positions[u])) - fee, amount - fee} :
           /\ tokens >= 0
           /\ \E charged \in FeeCharged(m, positions[u], fee) :
              \E r \in PositionUpdated(charged.market, charged.balance, "Borrow", tokens, TRUE, tokens) :
                 market' = r.market /\ positions' = [positions EXCEPT ![u] = r.balance]
  BY DEF WithdrawCollateral
<1>2. PICK tokens \in {Smaller(amount, TokensOf(m, positions[u])) - fee, amount - fee} :
           /\ tokens >= 0
           /\ \E charged \in FeeCharged(m, positions[u], fee) :
              \E r \in PositionUpdated(charged.market, charged.balance, "Borrow", tokens, TRUE, tokens) :
                 market' = r.market /\ positions' = [positions EXCEPT ![u] = r.balance]
  BY <1>1
<1>3. PICK charged \in FeeCharged(m, positions[u], fee) :
              \E r \in PositionUpdated(charged.market, charged.balance, "Borrow", tokens, TRUE, tokens) :
                 market' = r.market /\ positions' = [positions EXCEPT ![u] = r.balance]
  BY <1>2
<1>4. PICK r \in PositionUpdated(charged.market, charged.balance, "Borrow", tokens, TRUE, tokens) :
                 market' = r.market /\ positions' = [positions EXCEPT ![u] = r.balance]
  BY <1>3
<1>5. IsMarket(m) /\ Balanced(m, positions) /\ positions \in Positions
  BY <1>0, RefreshedEffect DEF SynthInv
<1>6. tokens \in Nat
  <2>1. TokensOf(m, positions[u]) \in Nat
    <3>1. positions[u].type \in Sides /\ positions[u].scaled \in Nat
      BY <1>5 DEF Positions, PositionType
    <3>. QED  BY <1>5, <3>1, TokensNatural DEF TokensOf
  <2>. QED  BY <1>0, <1>2, <2>1 DEF Smaller
<1>. DEFINE Q == [positions EXCEPT ![u] = charged.balance]
<1>7. IsMarket(charged.market) /\ Q \in Positions /\ Balanced(charged.market, Q)
  <2>1. CASE fee = 0
    <3>1. charged.market = m /\ charged.balance = positions[u]
      BY <2>1 DEF FeeCharged
    <3>2. Q = positions
      BY <1>5, <3>1 DEF Positions
    <3>. QED  BY <1>5, <3>1, <3>2
  <2>2. CASE fee # 0
    <3>1. PICK paid \in RevenuePoolUpdated(m, "Deposit", fee) :
            charged \in PositionUpdated(paid, positions[u], "Borrow", fee, FALSE, 0)
      BY <2>2 DEF FeeCharged
    <3>2. IsMarket(paid) /\ Balanced(paid, positions)
      BY <1>0, <1>5, PoolEffect
    <3>3. "Borrow" \in Sides /\ FALSE \in BOOLEAN /\ 0 \in Int
      OBVIOUS
    <3>. QED  BY <1>0, <1>5, <3>1, <3>2, <3>3, PositionEffect
  <2>. QED  BY <2>1, <2>2
<1>8. Q[u] = charged.balance /\ [Q EXCEPT ![u] = r.balance] = [positions EXCEPT ![u] = r.balance]
  BY <1>5 DEF Positions
<1>. HIDE DEF Q
<1>9. /\ IsMarket(r.market) /\ [Q EXCEPT ![u] = r.balance] \in Positions
      /\ Balanced(r.market, [Q EXCEPT ![u] = r.balance])
  <2>1. tokens \in Int /\ "Borrow" \in Sides /\ TRUE \in BOOLEAN
    BY <1>6
  <2>2. r \in PositionUpdated(charged.market, Q[u], "Borrow", tokens, TRUE, tokens)
    BY <1>8
  <2>. QED  BY <1>6, <1>7, <2>1, <2>2, PositionEffect
<1>. DEFINE R == [Q EXCEPT ![u] = r.balance]
<1>10. market' = r.market /\ positions' = R
  BY <1>4, <1>8
<1>11. IsMarket(r.market) /\ R \in Positions /\ Balanced(r.market, R)
  BY <1>9
<1>. HIDE DEF R
<1>. QED
  BY <1>10, <1>11, Arrived

LEMMA TransferStep ==
  ASSUME SynthInv, NEW from \in Users, NEW to \in Users, NEW amount \in Amounts, NEW rate \in Rates,
         TransferCollateral(from, to, amount, rate)
  PROVE  SynthInv'
<1>0. amount \in Nat /\ amount \in Int /\ rate \in Nat
  BY SynthMarketsAssumption
<1>1. PICK m \in Refreshed(rate) :
        \E taken \in PositionUpdated(m, positions[from], "Borrow", amount, TRUE, amount) :
        \E given \in PositionUpdated(taken.market, positions[to], "Deposit", amount, FALSE, amount) :
           /\ market' = given.market
           /\ positions' = [positions EXCEPT ![from] = taken.balance, ![to] = given.balance]
  BY DEF TransferCollateral
<1>2. PICK taken \in PositionUpdated(m, positions[from], "Borrow", amount, TRUE, amount) :
        \E given \in PositionUpdated(taken.market, positions[to], "Deposit", amount, FALSE, amount) :
           /\ market' = given.market
           /\ positions' = [positions EXCEPT ![from] = taken.balance, ![to] = given.balance]
  BY <1>1
<1>3. PICK given \in PositionUpdated(taken.market, positions[to], "Deposit", amount, FALSE, amount) :
           /\ market' = given.market
           /\ positions' = [positions EXCEPT ![from] = taken.balance, ![to] = given.balance]
  BY <1>2
<1>4. from # to
  BY DEF TransferCollateral
<1>5. IsMarket(m) /\ Balanced(m, positions) /\ positions \in Positions
  BY <1>0, RefreshedEffect DEF SynthInv
<1>. DEFINE Q == [positions EXCEPT ![from] = taken.balance]
<1>6. IsMarket(taken.market) /\ Q \in Positions /\ Balanced(taken.market, Q)
  <2>1. "Borrow" \in Sides /\ TRUE \in BOOLEAN
    OBVIOUS
  <2>. QED  BY <1>0, <1>5, <2>1, PositionEffect
<1>7. /\ Q[to] = positions[to]
      /\ [Q EXCEPT ![to] = given.balance] = [positions EXCEPT ![from] = taken.balance, ![to] = given.balance]
  BY <1>4, <1>5 DEF Positions
<1>. HIDE DEF Q
<1>8. /\ IsMarket(given.market) /\ [Q EXCEPT ![to] = given.balance] \in Positions
      /\ Balanced(given.market, [Q EXCEPT ![to] = given.balance])
  <2>1. "Deposit" \in Sides /\ FALSE \in BOOLEAN
    OBVIOUS
  <2>2. given \in PositionUpdated(taken.market, Q[to], "Deposit", amount, FALSE, amount)
    BY <1>7
  <2>. QED  BY <1>0, <1>6, <2>1, <2>2, PositionEffect
<1>. DEFINE R == [Q EXCEPT ![to] = given.balance]
<1>9. market' = given.market /\ positions' = R
  BY <1>3, <1>7
<1>10. IsMarket(given.market) /\ R \in Positions /\ Balanced(given.market, R)
  BY <1>8
<1>. HIDE DEF R
<1>. QED
  BY <1>9, <1>10, Arrived

\* What leaves the totals and the positions alone leaves the sums alone.
LEMMA OtherStep ==
  ASSUME SynthInv, positions' = positions, DOMAIN market' = DOMAIN market,
         market'.total = market.total, market'.revenuePool = market.revenuePool,
         market'.interest \in [Sides -> Nat \ {0}], market'.interest["Deposit"] >= INTEREST_ONE
  PROVE  SynthInv'
<1>1. IsMarket(market)'
  BY DEF SynthInv, IsMarket
<1>2. Balanced(market, positions)'
  BY DEF SynthInv, Balanced, Total
<1>. QED
  BY <1>1, <1>2 DEF SynthInv

LEMMA DonationStep ==
  ASSUME SynthInv, NEW amount \in Donations, DepositIntoVault(amount)
  PROVE  SynthInv'
<1>. DEFINE raised == (((Deposits(market) + amount) * INTEREST_ONE) \div market.total["Deposit"])
                        * (PRECISION \div INTEREST_ONE)
<1>1. /\ market' = [market EXCEPT !.interest["Deposit"] = raised] /\ positions' = positions
      /\ raised > market.interest["Deposit"] /\ market.total["Deposit"] > 0
  BY DEF DepositIntoVault
<1>2. raised \in Nat
  <2>1. /\ INTEREST_ONE \in Nat \ {0} /\ PRECISION \in Nat /\ amount \in Nat
        /\ Deposits(market) \in Nat /\ market.total["Deposit"] \in Nat \ {0}
    BY <1>1, SynthBalancesAssumption, SynthMarketsAssumption, AmountsTyped DEF SynthInv, IsMarket
  <2>2. ((Deposits(market) + amount) * INTEREST_ONE) \div market.total["Deposit"] \in Nat
    BY <2>1, ProductNatural, QuotientNatural
  <2>3. PRECISION \div INTEREST_ONE \in Nat
    BY <2>1, QuotientNatural
  <2>. QED  BY <2>2, <2>3, ProductNatural
<1>. HIDE DEF raised
<1>3. /\ market.interest \in [Sides -> Nat \ {0}] /\ market.interest["Deposit"] >= INTEREST_ONE
      /\ DOMAIN market = Fields /\ INTEREST_ONE \in Nat
  BY SynthBalancesAssumption DEF SynthInv, IsMarket
<1>4. /\ DOMAIN market' = DOMAIN market /\ market'.total = market.total
      /\ market'.revenuePool = market.revenuePool
      /\ market'.interest = [market.interest EXCEPT !["Deposit"] = raised]
  BY <1>1, <1>3 DEF Fields
<1>5. market'.interest \in [Sides -> Nat \ {0}] /\ market'.interest["Deposit"] >= INTEREST_ONE
  BY <1>1, <1>2, <1>3, <1>4
<1>. QED
  BY <1>1, <1>4, <1>5, OtherStep

LEMMA StateStep ==
  ASSUME SynthInv, NEW status, NEW paused, SetMarketState(status, paused)
  PROVE  SynthInv'
<1>1. market' = [market EXCEPT !.status = status, !.paused = paused] /\ positions' = positions
  BY DEF SetMarketState
<1>2. DOMAIN market = Fields
  BY DEF SynthInv, IsMarket
<1>3. /\ DOMAIN market' = DOMAIN market /\ market'.total = market.total
      /\ market'.revenuePool = market.revenuePool /\ market'.interest = market.interest
  BY <1>1, <1>2 DEF Fields
<1>4. market.interest \in [Sides -> Nat \ {0}] /\ market.interest["Deposit"] >= INTEREST_ONE
  BY DEF SynthInv, IsMarket
<1>. QED
  BY <1>1, <1>3, <1>4, OtherStep

LEMMA StepKeepsSynthInv == SynthInv /\ [Next]_vars => SynthInv'
<1>. SUFFICES ASSUME SynthInv, [Next]_vars PROVE SynthInv'
  OBVIOUS
<1>1. ASSUME NEW u \in Users, NEW amount \in Amounts, NEW rate \in Rates, NEW reduceOnly \in BOOLEAN,
             DepositCollateral(u, amount, reduceOnly, rate)
      PROVE  SynthInv'
  BY <1>1, DepositStep
<1>2. ASSUME NEW u \in Users, NEW amount \in Amounts, NEW rate \in Rates, NEW reduceOnly \in BOOLEAN,
             NEW fee \in Fees, WithdrawCollateral(u, amount, reduceOnly, fee, rate)
      PROVE  SynthInv'
  BY <1>2, WithdrawStep
<1>3. ASSUME NEW u \in Users, NEW amount \in Amounts, NEW rate \in Rates, NEW to \in Users,
             TransferCollateral(u, to, amount, rate)
      PROVE  SynthInv'
  BY <1>3, TransferStep
<1>4. ASSUME NEW amount \in Donations, DepositIntoVault(amount) PROVE SynthInv'
  BY <1>4, DonationStep
<1>5. ASSUME NEW state \in MarketStates, SetMarketState(state[1], state[2]) PROVE SynthInv'
  BY <1>5, StateStep
<1>6. CASE Tick \/ UNCHANGED vars
  BY <1>6 DEF Tick, vars, SynthInv, IsMarket, Balanced, Total
<1>. QED
  BY <1>1, <1>2, <1>3, <1>4, <1>5, <1>6 DEF Next

LEMMA SynthInvAlways == Spec => []SynthInv
<1>1. Init => SynthInv
  BY InitSynthInv
<1>2. SynthInv /\ [Next]_vars => SynthInv'
  BY StepKeepsSynthInv
<1>. QED
  BY <1>1, <1>2, PTL DEF Spec

-----------------------------------------------------------------------------
(* The theorems about the balances *)

\* No call of update_spot_balances makes or loses scaled balance, and the lenders are never
\* promised more than the total of the deposits: whatever the users, the amounts, the rates,
\* the fees and the precisions are, and whichever way the many divisions round.
THEOREM BalancesAddUpAlways == Spec => []BalancesAddUp
<1>1. SynthInv => BalancesAddUp
  BY DEF SynthInv, IsMarket, PoolType, Balanced, BalancesAddUp
<1>. QED
  BY <1>1, SynthInvAlways, PTL

\* In a market whose token is no finer than its scaled balances (nine or more decimals) the
\* totals are what the fields of SynthMarket are documented to be.
THEOREM CoarseTotalsAreSums == PRECISION <= INTEREST_ONE => (Spec => []TotalsAreSums)
<1>1. SUFFICES ASSUME Coarse PROVE Spec => []TotalsAreSums
  BY DEF Coarse
<1>2. ASSUME SynthInv PROVE TotalsAreSums
  <2>. DEFINE d == Total("Deposit", positions)  b == Total("Borrow", positions)
              e == market.total["Deposit"]  c == market.total["Borrow"]  q == market.revenuePool.scaled
  <2>1. d \in Int /\ b \in Int /\ e \in Int /\ c \in Int /\ q \in Int
    BY <1>2, TotalTyped DEF SynthInv, IsMarket, PoolType
  <2>2. e + c = d + q + b /\ d + q = e
    BY <1>1, <1>2 DEF SynthInv, Balanced
  <2>3. TotalsAreSums <=> c = b /\ e = d + q
    BY DEF TotalsAreSums
  <2>. HIDE DEF d, b, e, c, q
  <2>. QED  BY <2>1, <2>2, <2>3
<1>3. SynthInv => TotalsAreSums
  BY <1>2
<1>. QED
  BY <1>3, SynthInvAlways, PTL

-----------------------------------------------------------------------------
(* The floor under withdrawals *)

\* The deposits that an average demands
Floor(twap, guard) == twap - Larger(twap \div 4, Smaller(guard, twap))

LEMMA FloorFacts ==
  ASSUME NEW x \in Nat, NEW guard \in Nat
  PROVE  /\ Floor(x, guard) \in Nat /\ Floor(x, guard) <= x
         /\ \A y \in Nat : x <= y => Floor(x, guard) <= Floor(y, guard)
BY DEF Floor, Larger, Smaller

\* An average that is biased rises by one above what it averages, and no further.
LEMMA AverageRises ==
  ASSUME NEW d \in Nat, NEW t \in Nat, NEW w1 \in Nat, NEW w2 \in Nat \ {0}
  PROVE  /\ WeightedAverage(d, t, w1, w2) \in Nat
         /\ WeightedAverage(d, t, w1, w2) <= t \/ WeightedAverage(d, t, w1, w2) <= d + 1
<1>. DEFINE x == d * w1  y == t * w2  w == w1 + w2
            bias == CASE w2 <= 1 -> 0 [] y < x -> -1 [] y > x -> 1 [] OTHER -> 0
            average == (x + y) \div w
<1>1. CASE w1 = 0
  BY <1>1 DEF WeightedAverage
<1>2. CASE w1 # 0
  <2>0. x \in Nat /\ y \in Nat /\ w \in Nat \ {0} /\ w = w1 + w2
    BY <1>2, ProductNatural
  <2>1. t <= d => x + y <= d * w
    <3>1. t <= d => t * w2 <= d * w2
      OBVIOUS
    <3>2. d * w = d * w1 + d * w2
      OBVIOUS
    <3>3. d * w2 \in Int /\ d * w1 \in Int
      OBVIOUS
    <3>. QED  BY <2>0, <3>1, <3>2, <3>3
  <2>2. d < t => x + y < t * w
    <3>1. d < t => d * w1 < t * w1
      BY <1>2
    <3>2. t * w = t * w1 + t * w2
      OBVIOUS
    <3>3. t * w2 \in Int /\ t * w1 \in Int
      OBVIOUS
    <3>. QED  BY <2>0, <3>1, <3>2, <3>3
  <2>3. WeightedAverage(d, t, w1, w2) = IF average = 0 /\ bias < 0 THEN 0 ELSE average + bias
    <3>1. x + y >= 0
      BY <2>0
    <3>2. Quot(x + y, w) = average
      BY <3>1 DEF Quot
    <3>. DEFINE twap == Quot(x + y, w)
    <3>3. WeightedAverage(d, t, w1, w2) = IF twap = 0 /\ bias < 0 THEN 0 ELSE twap + bias
      <4>. HIDE DEF twap
      <4>1. WeightedAverage(d, t, w1, w2) = CASE w1 = 0 -> t [] w2 = 0 -> d [] twap = 0 /\ bias < 0 -> 0
                                              [] OTHER -> twap + bias
        BY DEF WeightedAverage, twap
      <4>. QED  BY <1>2, <4>1
    <3>. QED  BY <3>2, <3>3
  <2>. HIDE DEF x, y, w
  <2>4. /\ average \in Nat
        /\ t <= d => average <= d
        /\ d < t => average < t
    BY <2>0, <2>1, <2>2
  <2>5. bias \in {-1, 0, 1}
    BY <2>0
  <2>. HIDE DEF average, bias
  <2>. QED  BY <2>3, <2>4, <2>5
<1>. QED
  BY <1>1, <1>2

\* In parts of which PRECISION are a token: the deposits of a market, one of them, and what an
\* exempt user can hold at most.
Stock(m) == m.total["Deposit"] * m.interest["Deposit"]
Held(m, b) == On("Deposit", b) * m.interest["Deposit"]
Exemption(m) == (m.guard \div 10) * PRECISION + m.interest["Deposit"]

\* What a user can still hold, and so could have taken, as one who is exempt.
Room(m, b) == Larger(0, Exemption(m) - Held(m, b))
Rooms(m, P) == SumFunction([u \in Users |-> Room(m, P[u])])

Guarded(m) ==
    /\ m.guard \in Nat /\ m.lastTwap \in Nat
    /\ DOMAIN m.twap = Sides /\ m.twap["Deposit"] \in Nat
    /\ m.utilization \in Nat /\ m.optimalUtilization \in Nat
SameGuard(m, n) ==
    /\ n.guard = m.guard /\ n.twap = m.twap /\ n.lastTwap = m.lastTwap
    /\ n.utilization = m.utilization /\ n.optimalUtilization = m.optimalUtilization

\* The floor is kept but for what the exempt users took.
Floored(m, P) == MinDepositForTwap(m) * PRECISION <= Stock(m) + Rooms(m, P) + PRECISION

LEMMA StockFacts ==
  ASSUME NEW m, IsMarket(m), Guarded(m)
  PROVE  /\ PRECISION \in Nat \ {0} /\ m.interest["Deposit"] \in Nat \ {0} /\ m.total["Deposit"] \in Nat
         /\ Stock(m) \in Nat /\ Exemption(m) \in Nat
         /\ Deposits(m) \in Nat /\ Deposits(m) * PRECISION <= Stock(m)
         /\ Stock(m) < (Deposits(m) + 1) * PRECISION
         /\ MinDepositForTwap(m) = Floor(m.twap["Deposit"], m.guard)
         /\ MinDepositForTwap(m) \in Nat
<1>. DEFINE i == m.interest["Deposit"]  t == m.total["Deposit"]
<1>1. PRECISION \in Nat \ {0} /\ i \in Nat \ {0} /\ t \in Nat /\ m.guard \in Nat
  BY SynthBalancesAssumption DEF IsMarket, Guarded
<1>2. t * i \in Nat /\ Stock(m) = t * i /\ Deposits(m) = (t * i) \div PRECISION
  BY <1>1, ProductNatural DEF Stock, Deposits, TokenAmount
<1>3. Exemption(m) \in Nat
  <2>1. m.guard \div 10 \in Nat
    BY <1>1
  <2>. QED  BY <1>1, <2>1, ProductNatural DEF Exemption
<1>. HIDE DEF i, t
<1>4. Deposits(m) \in Nat /\ Deposits(m) * PRECISION <= Stock(m) /\ Stock(m) < (Deposits(m) + 1) * PRECISION
  BY <1>1, <1>2
<1>5. MinDepositForTwap(m) = Floor(m.twap["Deposit"], m.guard) /\ MinDepositForTwap(m) \in Nat
  BY FloorFacts DEF MinDepositForTwap, Floor, Guarded
<1>. QED
  BY <1>1, <1>2, <1>3, <1>4, <1>5 DEF i, t

LEMMA RoomFacts ==
  ASSUME NEW m, IsMarket(m), Guarded(m), NEW b \in PositionType
  PROVE  /\ On("Deposit", b) \in Nat /\ Held(m, b) \in Nat
         /\ Room(m, b) \in Nat /\ Room(m, b) <= Exemption(m)
<1>1. On("Deposit", b) \in Nat /\ m.interest["Deposit"] \in Nat /\ Exemption(m) \in Nat
  BY StockFacts DEF On, PositionType
<1>2. Held(m, b) \in Nat
  BY <1>1, ProductNatural DEF Held
<1>. QED
  BY <1>1, <1>2 DEF Room, Larger

LEMMA RoomsNatural ==
  ASSUME NEW m, IsMarket(m), Guarded(m), NEW P \in Positions
  PROVE  Rooms(m, P) \in Nat
<1>. DEFINE f == [u \in Users |-> Room(m, P[u])]
<1>1. IsFiniteSet(DOMAIN f) /\ \A u \in DOMAIN f : f[u] \in Nat
  BY RoomFacts, SynthMarketsAssumption DEF Positions
<1>2. Rooms(m, P) = SumFunction(f)
  BY DEF Rooms
<1>. HIDE DEF f
<1>. QED
  BY <1>1, <1>2, SumNatural

\* Where the limits are kept, so is the floor.
LEMMA LimitsFloor ==
  ASSUME NEW m, IsMarket(m), Guarded(m), NEW P \in Positions, Deposits(m) >= MinDepositForTwap(m)
  PROVE  Floored(m, P)
<1>. DEFINE low == MinDepositForTwap(m)  d == Deposits(m)  x == low * PRECISION  y == d * PRECISION
<1>1. /\ PRECISION \in Nat \ {0} /\ Stock(m) \in Nat /\ d \in Nat /\ y <= Stock(m) /\ low \in Nat
      /\ Rooms(m, P) \in Nat
  BY StockFacts, RoomsNatural
<1>2. low <= d
  BY <1>1
<1>. HIDE DEF low, d
<1>3. x <= y /\ x \in Int /\ y \in Int
  BY <1>1, <1>2
<1>. HIDE DEF x, y
<1>4. x <= Stock(m) + Rooms(m, P) + PRECISION
  BY <1>1, <1>3
<1>. QED
  BY <1>4 DEF Floored, x, low

\* The averages are brought up to date: they stay below what they were or reach the deposits.
LEMMA AveragesFloored ==
  ASSUME NEW m, IsMarket(m), Guarded(m), NEW P \in Positions, Floored(m, P), NEW t \in Nat
  PROVE  Guarded(TwapsUpdated(m, t)) /\ Floored(TwapsUpdated(m, t), P)
<1>. DEFINE n == TwapsUpdated(m, t)
            sinceLast == Larger(0, t - m.lastTwap)
            fromStart == Larger(1, TWAP_WINDOW - sinceLast)
            old == m.twap["Deposit"]
            new == WeightedAverage(Deposits(m), old, sinceLast, fromStart)
<1>1. sinceLast \in Nat /\ fromStart \in Nat \ {0}
  BY SynthBalancesAssumption DEF Guarded, Larger
<1>2. Deposits(m) \in Nat /\ old \in Nat
  BY StockFacts DEF Guarded
<1>3. new \in Nat /\ (new <= old \/ new <= Deposits(m) + 1)
  <2>. HIDE DEF sinceLast, fromStart, old
  <2>. QED  BY <1>1, <1>2, AverageRises
<1>4. /\ n.guard = m.guard /\ n.lastTwap = t /\ n.total = m.total /\ n.interest = m.interest
      /\ n.revenuePool = m.revenuePool /\ DOMAIN n = DOMAIN m
  BY DEF TwapsUpdated, IsMarket, Fields
<1>5. DOMAIN n.twap = Sides /\ n.twap["Deposit"] = new
  <2>1. DOMAIN m = Fields /\ DOMAIN m.twap = Sides
    BY DEF IsMarket, Guarded
  <2>2. n.twap = [m.twap EXCEPT !["Deposit"] = new,
                                !["Borrow"] = WeightedAverage(Borrows(m), @, sinceLast, fromStart)]
    <3>. HIDE DEF new, sinceLast, fromStart
    <3>. QED  BY ONLY <2>1 DEF TwapsUpdated, Fields, new, sinceLast, fromStart
  <2>. HIDE DEF n, new, sinceLast, fromStart
  <2>. QED  BY <2>1, <2>2
<1>. DEFINE now2 == Utilization(Deposits(m), Borrows(m))
            average == WeightedAverage(now2, m.utilization, sinceLast, fromStart)
<1>16. n.optimalUtilization = m.optimalUtilization /\ n.utilization = average
  <2>1. DOMAIN m = Fields
    BY DEF IsMarket
  <2>. HIDE DEF average
  <2>2. average = WeightedAverage(now2, m.utilization, sinceLast, fromStart)
    BY DEF average
  <2>. HIDE DEF now2, sinceLast, fromStart, new
  <2>. QED  BY ONLY <2>1, <2>2 DEF TwapsUpdated, Fields, now2, sinceLast, fromStart
<1>17. average \in Nat
  <2>1. now2 \in Nat
    BY AmountsTyped, UtilizationTyped
  <2>2. m.utilization \in Nat
    BY DEF Guarded
  <2>. HIDE DEF now2, sinceLast, fromStart
  <2>. QED  BY <1>1, <2>1, <2>2, AverageRises
<1>. HIDE DEF n, new, average
<1>6. IsMarket(n) /\ Guarded(n)
  BY <1>3, <1>4, <1>5, <1>16, <1>17 DEF IsMarket, Guarded
<1>7. Stock(n) = Stock(m) /\ Exemption(n) = Exemption(m)
  BY <1>4 DEF Stock, Exemption
<1>8. Rooms(n, P) = Rooms(m, P)
  BY <1>4, <1>7 DEF Rooms, Room, Held
<1>. DEFINE low == MinDepositForTwap(m)  low2 == MinDepositForTwap(n)  d == Deposits(m)
<1>9. /\ PRECISION \in Nat \ {0} /\ Stock(m) \in Nat /\ d \in Nat /\ d * PRECISION <= Stock(m)
      /\ low \in Nat /\ low2 \in Nat /\ Rooms(m, P) \in Nat
      /\ low = Floor(old, m.guard) /\ low2 = Floor(new, m.guard)
  <2>1. low2 = Floor(n.twap["Deposit"], n.guard) /\ low2 \in Nat
    BY <1>6, StockFacts
  <2>. QED  BY <1>4, <1>5, <2>1, StockFacts, RoomsNatural
<1>10. low2 <= low \/ low2 <= d + 1
  <2>1. m.guard \in Nat
    BY DEF Guarded
  <2>2. CASE new <= old
    <3>1. Floor(new, m.guard) <= Floor(old, m.guard)
      <4>. HIDE DEF old
      <4>. QED  BY <1>2, <1>3, <2>1, <2>2, FloorFacts
    <3>. QED  BY <1>9, <3>1
  <2>3. CASE new <= d + 1
    <3>1. low2 <= new
      BY <1>3, <1>9, <2>1, FloorFacts
    <3>. QED  BY <1>3, <1>9, <2>3, <3>1
  <2>. QED  BY <1>3, <2>2, <2>3
<1>11. low * PRECISION <= Stock(m) + Rooms(m, P) + PRECISION
  BY DEF Floored
<1>. HIDE DEF low, low2, d
<1>. DEFINE x == low * PRECISION  x2 == low2 * PRECISION  y == d * PRECISION
<1>12. /\ (d + 1) * PRECISION = y + PRECISION /\ x \in Int /\ x2 \in Int /\ y \in Int
       /\ x2 <= x \/ x2 <= (d + 1) * PRECISION
  BY <1>9, <1>10
<1>. HIDE DEF x, x2, y
<1>13. x <= Stock(m) + Rooms(m, P) + PRECISION /\ y <= Stock(m)
  BY <1>9, <1>11 DEF x, y
<1>14. x2 <= Stock(m) + Rooms(m, P) + PRECISION
  BY <1>9, <1>12, <1>13
<1>15. Floored(n, P)
  BY <1>7, <1>8, <1>14 DEF Floored, x2, low2
<1>. QED
  BY <1>6, <1>15 DEF n

\* Interest on all deposits is at least what the users among them get.
LEMMA InterestFloored ==
  ASSUME NEW m, IsMarket(m), Guarded(m), NEW P \in Positions, Balanced(m, P), Floored(m, P),
         NEW n, IsMarket(n), SameGuard(m, n), n.total = m.total,
         n.interest["Deposit"] >= m.interest["Deposit"]
  PROVE  Guarded(n) /\ Floored(n, P)
<1>. DEFINE i == m.interest["Deposit"]  j == n.interest["Deposit"]  c == j - i
            f == [u \in Users |-> Room(n, P[u])]
            g == [u \in Users |-> Room(m, P[u])]
            w == [u \in Users |-> On("Deposit", P[u])]
            t == m.total["Deposit"]
<1>1. Guarded(n) /\ MinDepositForTwap(n) = MinDepositForTwap(m)
  BY DEF Guarded, SameGuard, MinDepositForTwap
<1>2. i \in Nat /\ j \in Nat /\ c \in Nat /\ j = i + c /\ t \in Nat /\ PRECISION \in Nat
  BY StockFacts DEF IsMarket
<1>3. ASSUME NEW u \in Users
      PROVE  f[u] \in Int /\ g[u] \in Int /\ w[u] \in Nat /\ g[u] <= f[u] + c * w[u]
  <2>. DEFINE s == On("Deposit", P[u])  x == s * i  y == c * s  e == Exemption(m)
  <2>1. P[u] \in PositionType
    BY DEF Positions
  <2>2. s \in Nat /\ f[u] \in Int /\ g[u] \in Int
    BY <1>1, <2>1, RoomFacts
  <2>3. Held(m, P[u]) = x
    BY DEF Held
  <2>4. Held(n, P[u]) = x + y
    <3>. HIDE DEF s, i, j, c
    <3>1. s * j = s * i + c * s
      BY <1>2, <2>2
    <3>. QED  BY <3>1 DEF Held, s, j
  <2>5. Exemption(n) = e + c /\ e \in Int
    <3>1. n.guard = m.guard /\ e \in Int
      BY StockFacts DEF SameGuard
    <3>. DEFINE k == (m.guard \div 10) * PRECISION
    <3>2. k \in Int
      <4>1. m.guard \div 10 \in Nat
        BY DEF Guarded
      <4>. QED  BY <1>2, <4>1, ProductNatural
    <3>3. Exemption(n) = k + j /\ e = k + i
      BY <3>1 DEF Exemption
    <3>. HIDE DEF k, i, j, c, e
    <3>. QED  BY <1>2, <3>1, <3>2, <3>3
  <2>6. x \in Int /\ y \in Nat
    <3>. HIDE DEF s, i, c
    <3>. QED  BY <1>2, <2>2, ProductNatural
  <2>7. f[u] = Larger(0, e + c - (x + y)) /\ g[u] = Larger(0, e - x)
    <3>1. f[u] = Larger(0, Exemption(n) - Held(n, P[u])) /\ g[u] = Larger(0, Exemption(m) - Held(m, P[u]))
      BY DEF Room
    <3>. HIDE DEF x, y, c, f, g
    <3>2. Exemption(n) - Held(n, P[u]) = e + c - (x + y) /\ Exemption(m) - Held(m, P[u]) = e - x
      BY <1>2, <2>3, <2>4, <2>5, <2>6
    <3>. DEFINE v == Exemption(n) - Held(n, P[u])  v2 == Exemption(m) - Held(m, P[u])
    <3>3. v = e + c - (x + y) /\ v2 = e - x /\ f[u] = Larger(0, v) /\ g[u] = Larger(0, v2)
      BY <3>1, <3>2
    <3>. HIDE DEF v, v2
    <3>. QED  BY <3>3
  <2>8. w[u] = s
    OBVIOUS
  <2>. HIDE DEF x, y, e, c, f, g, w, s
  <2>9. g[u] <= f[u] + y
    BY <1>2, <2>2, <2>5, <2>6, <2>7 DEF Larger
  <2>. QED  BY <2>2, <2>8, <2>9 DEF y
<1>. HIDE DEF i, j, c
<1>4. /\ DOMAIN f = Users /\ DOMAIN g = Users /\ DOMAIN w = Users /\ IsFiniteSet(Users)
      /\ Rooms(n, P) = SumFunction(f) /\ Rooms(m, P) = SumFunction(g)
      /\ Total("Deposit", P) = SumFunction(w)
  BY SynthMarketsAssumption DEF Rooms, Total, On
<1>. HIDE DEF f, g, w
<1>5. /\ SumFunction(f) \in Int /\ SumFunction(g) \in Int /\ SumFunction(w) \in Int
      /\ SumFunction(g) <= SumFunction(f) + c * SumFunction(w)
  <2>1. \A u \in DOMAIN f : /\ f[u] \in Int /\ g[u] \in Int /\ w[u] \in Int /\ g[u] <= f[u] + c * w[u]
    BY <1>3, <1>4
  <2>. QED  BY <1>2, <1>4, <2>1, SumShifted
<1>6. SumFunction(w) \in Int /\ SumFunction(w) <= t
  <2>1. m.revenuePool.scaled \in Nat
    BY DEF IsMarket, PoolType
  <2>. QED  BY <1>2, <1>4, <1>5, <2>1 DEF Balanced
<1>. DEFINE all == SumFunction(w)  x == c * all  y == c * t  z == t * i
<1>7. x <= y /\ x \in Int /\ y \in Int /\ z \in Int /\ t * j = z + y
  <2>. HIDE DEF t, all
  <2>1. x <= y /\ x \in Int /\ y \in Int /\ z \in Int
    BY <1>2, <1>6 DEF all
  <2>2. t * j = z + y
    BY <1>2
  <2>. QED  BY <2>1, <2>2
<1>8. Stock(m) = z /\ Stock(n) = z + y
  BY <1>7 DEF Stock, i, j
<1>. HIDE DEF x, y, z
<1>9. Rooms(m, P) <= Rooms(n, P) + x /\ Rooms(m, P) \in Int /\ Rooms(n, P) \in Int
  BY <1>4, <1>5 DEF x
<1>. DEFINE low == MinDepositForTwap(m) * PRECISION
<1>10. low \in Int
  BY <1>2, StockFacts, ProductNatural
<1>11. low <= Stock(m) + Rooms(m, P) + PRECISION
  BY DEF Floored
<1>. HIDE DEF low
<1>12. low <= Stock(n) + Rooms(n, P) + PRECISION
  BY <1>2, <1>7, <1>8, <1>9, <1>10, <1>11
<1>. QED
  BY <1>1, <1>12 DEF Floored, low

\* One position changes: it is enough that its room makes up for what the market loses.
LEMMA RoomReplaced ==
  ASSUME NEW m, IsMarket(m), Guarded(m), NEW P \in Positions, Floored(m, P), NEW u \in Users,
         NEW n, IsMarket(n), SameGuard(m, n), n.interest = m.interest, NEW c \in PositionType,
         Stock(m) + Room(m, P[u]) <= Stock(n) + Room(n, c)
  PROVE  Guarded(n) /\ Floored(n, [P EXCEPT ![u] = c])
<1>. DEFINE Q == [P EXCEPT ![u] = c]
            f == [v \in Users |-> Room(m, P[v])]
            g == [v \in Users |-> Room(n, Q[v])]
<1>1. Guarded(n) /\ MinDepositForTwap(n) = MinDepositForTwap(m)
  BY DEF Guarded, SameGuard, MinDepositForTwap
<1>2. \A b : Room(n, b) = Room(m, b)
  BY DEF Room, Exemption, Held, SameGuard
<1>3. Q \in Positions /\ Q[u] = c /\ \A v \in Users : v # u => Q[v] = P[v]
  BY DEF Positions
<1>. HIDE DEF Q
<1>4. /\ \A v \in Users : f[v] \in Int /\ g[v] \in Int
      /\ \A v \in Users : v # u => g[v] = f[v]
      /\ f[u] = Room(m, P[u]) /\ g[u] = Room(n, c)
  BY <1>1, <1>2, <1>3, RoomFacts DEF Positions
<1>5. /\ DOMAIN f = Users /\ DOMAIN g = Users /\ IsFiniteSet(Users)
      /\ Rooms(m, P) = SumFunction(f) /\ Rooms(n, Q) = SumFunction(g)
  BY SynthMarketsAssumption DEF Rooms
<1>. HIDE DEF f, g
<1>6. SumFunction(f) \in Int /\ SumFunction(g) = SumFunction(f) - f[u] + g[u]
  BY <1>4, <1>5, SumUpdated
<1>. DEFINE low == MinDepositForTwap(m) * PRECISION
<1>7. low \in Int /\ Stock(m) \in Int /\ Stock(n) \in Int /\ PRECISION \in Int
  BY <1>1, StockFacts, ProductNatural
<1>8. low <= Stock(m) + Rooms(m, P) + PRECISION
  BY DEF Floored
<1>. HIDE DEF low
<1>9. low <= Stock(n) + Rooms(n, Q) + PRECISION
  <2>1. f[u] \in Int /\ g[u] \in Int
    BY <1>4
  <2>2. Stock(m) + f[u] <= Stock(n) + g[u]
    BY <1>4
  <2>. HIDE DEF Floored
  <2>. QED  BY <1>5, <1>6, <1>7, <1>8, <2>1, <2>2
<1>. QED
  BY <1>1, <1>9 DEF Floored, low, Q

\* A deposit grows, and with it the total.
LEMMA RaisedFloored ==
  ASSUME NEW m, IsMarket(m), Guarded(m), NEW P \in Positions, Floored(m, P), NEW u \in Users,
         NEW n, IsMarket(n), SameGuard(m, n), n.interest = m.interest, NEW c \in PositionType,
         n.total["Deposit"] - On("Deposit", c) >= m.total["Deposit"] - On("Deposit", P[u]),
         On("Deposit", c) >= On("Deposit", P[u])
  PROVE  Guarded(n) /\ Floored(n, [P EXCEPT ![u] = c])
<1>. DEFINE i == m.interest["Deposit"]  t == m.total["Deposit"]  t2 == n.total["Deposit"]
            s == On("Deposit", P[u])  s2 == On("Deposit", c)  e == Exemption(m)
<1>1. Guarded(n) /\ P[u] \in PositionType
  BY DEF Guarded, SameGuard, Positions
<1>2. i \in Nat /\ t \in Nat /\ t2 \in Nat /\ s \in Nat /\ s2 \in Nat /\ e \in Int
  BY <1>1, StockFacts, RoomFacts
<1>3. t2 - s2 >= t - s /\ s2 >= s
  OBVIOUS
<1>4. /\ Stock(m) = t * i /\ Stock(n) = t2 * i
      /\ Room(m, P[u]) = Larger(0, e - s * i) /\ Room(n, c) = Larger(0, e - s2 * i)
  BY DEF Stock, Room, Held, Exemption, SameGuard
<1>. HIDE DEF i, t, t2, s, s2, e
<1>. DEFINE x == t * i  x2 == t2 * i  y == s * i  y2 == s2 * i
<1>5. x \in Int /\ x2 \in Int /\ y \in Int /\ y2 \in Int /\ x2 - y2 >= x - y /\ y2 >= y
  <2>1. (t2 - s2) * i = x2 - y2 /\ (t - s) * i = x - y
    BY <1>2
  <2>2. (t2 - s2) * i >= (t - s) * i
    BY <1>2, <1>3
  <2>3. s2 * i >= s * i
    BY <1>2, <1>3
  <2>4. x \in Int /\ x2 \in Int /\ y \in Int /\ y2 \in Int
    BY <1>2
  <2>. QED  BY <2>1, <2>2, <2>3, <2>4
<1>. HIDE DEF x, x2, y, y2
<1>6. x + Larger(0, e - y) <= x2 + Larger(0, e - y2)
  BY <1>2, <1>5 DEF Larger
<1>7. Stock(m) + Room(m, P[u]) <= Stock(n) + Room(n, c)
  BY <1>4, <1>6 DEF x, x2, y, y2
<1>. QED
  BY <1>7, RoomReplaced

\* An update of a position, which also counts what its owner has brought
LEMMA PositionMoves ==
  ASSUME NEW m, IsMarket(m), NEW b \in PositionType, NEW side \in Sides, NEW tokens \in Nat,
         NEW leaving \in BOOLEAN, NEW counted \in Int,
         NEW r \in PositionUpdated(m, b, side, tokens, leaving, counted)
  PROVE  /\ IsMarket(r.market) /\ SameGuard(m, r.market) /\ r.market.interest = m.interest
         /\ r.balance \in PositionType /\ Moves(m, b, r.market, r.balance)
         /\ \E q \in UpdateBalances(m, b, side, tokens, leaving) :
               /\ r.market = q.market /\ IsBalance(q.balance)
               /\ r.balance.type = q.balance.type /\ r.balance.scaled = q.balance.scaled
<1>. DEFINE Delta(x) == IF side = "Deposit" THEN x + counted ELSE x - counted
<1>1. PICK q \in UpdateBalances(m, b, side, tokens, leaving) :
          r = [q EXCEPT !.balance.cumulative = IF side = "Deposit" THEN @ + counted ELSE @ - counted]
  BY DEF PositionUpdated
<1>2. IsBalance(b)
  BY DEF IsBalance
<1>3. Effect(m, b, q)
  BY <1>2, UpdateEffect
<1>4. /\ q.balance \in PositionType /\ DOMAIN q = {"market", "balance"}
      /\ IsMarket(q.market) /\ SameOtherwise(m, q.market) /\ Moves(m, b, q.market, q.balance)
  BY <1>2, <1>3 DEF Effect, Kept
<1>5. /\ r.market = q.market
      /\ r.balance = [q.balance EXCEPT !.cumulative = Delta(@)]
  BY <1>1, <1>4
<1>6. r.balance \in PositionType /\ r.balance.type = q.balance.type /\ r.balance.scaled = q.balance.scaled
  BY <1>4, <1>5 DEF PositionType
<1>7. Moves(m, b, r.market, r.balance)
  BY <1>4, <1>5, <1>6 DEF Moves, On
<1>. QED
  BY <1>4, <1>5, <1>6, <1>7 DEF SameGuard, SameOtherwise, IsBalance

\* A balance that is added to on its own side
LEMMA AddedScaled ==
  ASSUME NEW m, IsMarket(m), NEW b, IsBalance(b), b.type = "Deposit", NEW tokens \in Nat,
         NEW leaving \in BOOLEAN, NEW q \in UpdateBalances(m, b, "Deposit", tokens, leaving)
  PROVE  /\ q.balance.type = "Deposit"
         /\ q.balance.scaled = b.scaled + SpotBalance(m, "Deposit", tokens, FALSE)
         /\ q.market.total["Deposit"] = m.total["Deposit"] + SpotBalance(m, "Deposit", tokens, FALSE)
<1>. DEFINE delta == SpotBalance(m, "Deposit", tokens, FALSE)
<1>1. delta \in Nat
  BY ScaledNatural
<1>2. Increasing(q, m, b, "Deposit", delta)
  BY DEF UpdateBalances, Increasing
<1>. HIDE DEF delta
<1>3. /\ q.balance.type = "Deposit" /\ q.balance.scaled = b.scaled + delta
      /\ q.market.total["Deposit"] = m.total["Deposit"] + delta
  BY <1>1, <1>2, IncreaseEffect
<1>. QED
  BY <1>3 DEF delta

LEMMA DepositGrows ==
  ASSUME NEW m, IsMarket(m), NEW b \in PositionType, NEW tokens \in Nat, NEW counted \in Int,
         NEW r \in PositionUpdated(m, b, "Deposit", tokens, FALSE, counted)
  PROVE  On("Deposit", r.balance) >= On("Deposit", b)
<1>. DEFINE leaving == FALSE  side == "Deposit"
<1>0. leaving \in BOOLEAN /\ side \in Sides /\ r \in PositionUpdated(m, b, side, tokens, leaving, counted)
  OBVIOUS
<1>5. /\ r.balance \in PositionType
      /\ \E q \in UpdateBalances(m, b, side, tokens, leaving) :
            r.balance.type = q.balance.type /\ r.balance.scaled = q.balance.scaled
  <2>. HIDE DEF leaving, side
  <2>. QED  BY <1>0, PositionMoves
<1>1. PICK q \in UpdateBalances(m, b, "Deposit", tokens, FALSE) :
         r.balance.type = q.balance.type /\ r.balance.scaled = q.balance.scaled
  BY <1>5
<1>2. r.balance \in PositionType /\ IsBalance(b)
  BY <1>5 DEF IsBalance
<1>3. CASE b.type = "Deposit"
  <2>. DEFINE delta == SpotBalance(m, "Deposit", tokens, FALSE)
  <2>1. delta \in Nat /\ b.scaled \in Nat
    BY ScaledNatural DEF PositionType
  <2>2. r.balance.type = "Deposit" /\ r.balance.scaled = b.scaled + delta
    BY <1>1, <1>2, <1>3, AddedScaled
  <2>. HIDE DEF delta
  <2>. QED  BY <1>3, <2>1, <2>2 DEF On
<1>4. CASE b.type # "Deposit"
  BY <1>2, <1>4 DEF On, PositionType
<1>. QED
  BY <1>3, <1>4

\* The revenue pool only grows.
LEMMA PoolGain ==
  ASSUME NEW m, IsMarket(m), NEW tokens \in Nat, NEW n \in RevenuePoolUpdated(m, "Deposit", tokens)
  PROVE  /\ IsMarket(n) /\ SameGuard(m, n) /\ n.interest = m.interest
         /\ n.total["Deposit"] = m.total["Deposit"] + SpotBalance(m, "Deposit", tokens, FALSE)
<1>1. PICK q \in UpdateBalances(m, m.revenuePool, "Deposit", tokens, FALSE) :
          n = [q.market EXCEPT !.revenuePool = q.balance]
  BY DEF RevenuePoolUpdated
<1>2. m.revenuePool \in BareType /\ IsBalance(m.revenuePool) /\ m.revenuePool.type = "Deposit"
  BY DEF IsMarket, PoolType, BareType, IsBalance
<1>3. Effect(m, m.revenuePool, q) /\ q.balance.type = "Deposit"
  BY <1>2, UpdateEffect
<1>4. q.balance \in PoolType /\ IsMarket(q.market) /\ SameOtherwise(m, q.market)
  BY <1>2, <1>3 DEF Effect, Kept, PoolType, BareType
<1>5. /\ n.total = q.market.total /\ n.interest = q.market.interest /\ n.revenuePool = q.balance
      /\ n.guard = q.market.guard /\ n.twap = q.market.twap /\ n.lastTwap = q.market.lastTwap
      /\ n.utilization = q.market.utilization /\ n.optimalUtilization = q.market.optimalUtilization
      /\ DOMAIN n = DOMAIN q.market
  BY <1>1, <1>4 DEF IsMarket, Fields
<1>6. IsMarket(n)
  BY <1>4, <1>5 DEF IsMarket
<1>7. q.market.total["Deposit"] = m.total["Deposit"] + SpotBalance(m, "Deposit", tokens, FALSE)
  BY <1>2, AddedScaled
<1>. QED
  BY <1>4, <1>5, <1>6, <1>7 DEF SameGuard, SameOtherwise

\* What is taken for tokens of a balance that stays a deposit: nothing, the tokens' scaled
\* balance, or all of it, if that is what they are worth.
LEMMA TakenScaled ==
  ASSUME NEW m, IsMarket(m), NEW b, IsBalance(b), NEW tokens \in Nat, NEW leaving \in BOOLEAN,
         NEW q \in UpdateBalances(m, b, "Borrow", tokens, leaving), q.balance.type = "Deposit"
  PROVE  /\ b.type = "Deposit" /\ q.balance.scaled \in Nat /\ q.balance.scaled <= b.scaled
         /\ q.market.total["Deposit"] = m.total["Deposit"] - (b.scaled - q.balance.scaled)
         /\ \/ b.scaled - q.balance.scaled = 0
            \/ b.scaled - q.balance.scaled = SpotBalance(m, "Deposit", tokens, leaving)
            \/ q.balance.scaled = 0 /\ TokensOf(m, b) <= tokens
<1>. DEFINE taken == Reduction(m, b, tokens, leaving)
            left == tokens - taken.tokens
            reduced == Decreased(m, b, taken.scaled)
            current == TokensOf(m, b)
            scaled == SpotBalance(m, b.type, tokens, leaving \/ b.type = "Borrow")
<1>0. b.type \in Sides /\ b.scaled \in Nat /\ m.total[b.type] \in Nat
  BY BalanceTyped DEF IsMarket
<1>1. b.type = "Deposit"
  <2>1. SUFFICES ASSUME b.type = "Borrow" PROVE FALSE
    BY <1>0
  <2>2. "Borrow" \in Sides
    OBVIOUS
  <2>. QED  BY <2>1, <2>2, UpdateEffect
<1>2. q = TakenFrom(m, b, "Borrow", tokens, taken) /\ taken.scaled <= Smaller(b.scaled, m.total[b.type])
  BY <1>1 DEF UpdateBalances
<1>3. taken.scaled \in Nat /\ left \in Nat
  BY ReductionFacts
<1>4. taken.scaled <= b.scaled /\ taken.scaled <= m.total[b.type]
  <2>. HIDE DEF taken
  <2>. QED  BY <1>0, <1>2, <1>3 DEF Smaller
<1>5. Decreasing(reduced, m, b, taken.scaled)
  BY DEF Decreasing
<1>6. q = reduced
  <2>1. q = IF left = 0 THEN reduced
            ELSE Increased(reduced.market, reduced.balance, "Borrow", SpotBalance(m, "Borrow", left, TRUE))
    BY <1>2 DEF TakenFrom
  <2>2. \A n, c, delta : Increased(n, c, "Borrow", delta).balance.type # "Deposit"
                         \/ "type" \notin DOMAIN c
    BY DEF Increased
  <2>3. "type" \in DOMAIN reduced.balance
    <3>1. "type" \in DOMAIN b
      BY DEF IsBalance, PositionType, BareType
    <3>. QED  BY <3>1 DEF Decreased
  <2>. HIDE DEF reduced, left
  <2>. QED  BY <2>1, <2>2, <2>3
<1>7. /\ q.balance.scaled = b.scaled - taken.scaled
      /\ q.market.total["Deposit"] = m.total["Deposit"] - taken.scaled
  <2>. HIDE DEF taken, reduced
  <2>. QED  BY <1>1, <1>3, <1>4, <1>5, <1>6, DecreaseEffect
<1>8. \/ taken.scaled = 0
      \/ taken.scaled = SpotBalance(m, "Deposit", tokens, leaving)
      \/ taken.scaled = b.scaled /\ current <= tokens
  <2>1. current \in Nat
    BY <1>0, TokensNatural DEF TokensOf
  <2>2. taken = CASE current = 0 -> [tokens |-> 0, scaled |-> 0]
                  [] current > tokens -> [tokens |-> tokens, scaled |-> scaled]
                  [] OTHER -> [tokens |-> current, scaled |-> b.scaled]
    BY DEF Reduction
  <2>3. scaled = SpotBalance(m, "Deposit", tokens, leaving)
    BY <1>1
  <2>. HIDE DEF current, scaled, taken
  <2>. QED  BY <2>1, <2>2, <2>3
<1>. HIDE DEF taken, left, reduced
<1>. QED
  BY <1>0, <1>1, <1>3, <1>4, <1>7, <1>8

LEMMA QuotientBounds ==
  ASSUME NEW x \in Nat, NEW i \in Nat \ {0}
  PROVE  x \div i \in Nat /\ (x \div i) * i <= x /\ x < (x \div i) * i + i
OBVIOUS

\* A scaled balance is worth its tokens but for a unit of it.
LEMMA ScaledBounds ==
  ASSUME NEW m, IsMarket(m), NEW tokens \in Nat, NEW up \in BOOLEAN
  PROVE  /\ SpotBalance(m, "Deposit", tokens, up) \in Nat
         /\ SpotBalance(m, "Deposit", tokens, up) * m.interest["Deposit"]
               <= tokens * PRECISION + m.interest["Deposit"]
         /\ tokens * PRECISION
               < SpotBalance(m, "Deposit", tokens, FALSE) * m.interest["Deposit"] + m.interest["Deposit"]
<1>. DEFINE i == m.interest["Deposit"]  x == tokens * PRECISION  k == x \div i
            y == SpotBalance(m, "Deposit", tokens, up)
<1>1. i \in Nat \ {0} /\ x \in Nat
  BY SynthBalancesAssumption, ProductNatural DEF IsMarket
<1>2. y \in {k, k + 1} /\ SpotBalance(m, "Deposit", tokens, FALSE) = k
  BY DEF SpotBalance
<1>. HIDE DEF i, x, y
<1>3. k \in Nat /\ k * i <= x /\ x < k * i + i
  BY <1>1, QuotientBounds
<1>. HIDE DEF k
<1>. DEFINE p == k * i
<1>4. p \in Int /\ (k + 1) * i = p + i
  BY <1>1, <1>3
<1>5. y * i \in {p, p + i}
  BY <1>2, <1>4
<1>6. p <= x /\ x < p + i
  BY <1>3
<1>. HIDE DEF p
<1>7. y * i <= x + i
  BY <1>1, <1>4, <1>5, <1>6
<1>. QED
  BY <1>1, <1>2, <1>3, <1>7, ScaledNatural DEF i, x, y, k

\* A deposit in tokens and in parts of a token
LEMMA HeldFacts ==
  ASSUME NEW m, IsMarket(m), NEW b, IsBalance(b), b.type = "Deposit"
  PROVE  /\ TokensOf(m, b) \in Nat /\ b.scaled * m.interest["Deposit"] \in Nat
         /\ \A t \in Nat : TokensOf(m, b) < t => b.scaled * m.interest["Deposit"] < t * PRECISION
<1>. DEFINE i == m.interest["Deposit"]  x == b.scaled * i  k == x \div PRECISION
<1>1. i \in Nat \ {0} /\ PRECISION \in Nat \ {0} /\ b.scaled \in Nat
  BY BalanceTyped, SynthBalancesAssumption DEF IsMarket
<1>2. x \in Nat
  <2>. HIDE DEF i
  <2>. QED  BY <1>1, ProductNatural
<1>3. TokensOf(m, b) = k
  BY DEF TokensOf, TokenAmount
<1>. HIDE DEF x
<1>4. k \in Nat /\ x < k * PRECISION + PRECISION
  BY <1>1, <1>2, QuotientBounds
<1>. HIDE DEF k
<1>5. ASSUME NEW t \in Nat, k < t PROVE x < t * PRECISION
  <2>1. (k + 1) * PRECISION <= t * PRECISION
    BY <1>1, <1>4, <1>5
  <2>2. (k + 1) * PRECISION = k * PRECISION + PRECISION /\ k * PRECISION \in Int /\ t * PRECISION \in Int
    BY <1>1, <1>4
  <2>. QED  BY <1>1, <1>2, <1>4, <2>1, <2>2
<1>. QED
  BY <1>2, <1>3, <1>4, <1>5 DEF x, i

\* A user who is exempt held no more than the exemption, before the tokens were taken and after.
LEMMA ExemptHeld ==
  ASSUME NEW m, IsMarket(m), Guarded(m), NEW b, IsBalance(b), NEW tokens \in Nat,
         NEW q \in UpdateBalances(m, b, "Borrow", tokens, TRUE), q.balance.type = "Deposit",
         TokensOf(m, q.balance) + tokens < m.guard \div 10
  PROVE  /\ b.type = "Deposit" /\ m.guard \div 10 >= 1
         /\ b.scaled * m.interest["Deposit"] <= Exemption(m)
         /\ q.balance.scaled * m.interest["Deposit"] <= Exemption(m)
<1>. DEFINE i == m.interest["Deposit"]  s == b.scaled  s2 == q.balance.scaled  g == m.guard \div 10
            y == SpotBalance(m, "Deposit", tokens, TRUE)
<1>1. /\ b.type = "Deposit" /\ s2 \in Nat /\ s2 <= s
      /\ s - s2 = 0 \/ s - s2 = y \/ (s2 = 0 /\ TokensOf(m, b) <= tokens)
  BY TakenScaled
<1>2. IsBalance(q.balance)
  BY UpdateEffect DEF Effect
<1>3. /\ i \in Nat \ {0} /\ s \in Nat /\ g \in Nat /\ PRECISION \in Nat \ {0}
      /\ Exemption(m) = g * PRECISION + i
  BY BalanceTyped, SynthBalancesAssumption DEF IsMarket, Guarded, Exemption
<1>4. /\ TokensOf(m, q.balance) \in Nat
      /\ \A t \in Nat : TokensOf(m, q.balance) < t => s2 * i < t * PRECISION
  BY <1>2, HeldFacts
<1>5. /\ TokensOf(m, b) \in Nat
      /\ \A t \in Nat : TokensOf(m, b) < t => s * i < t * PRECISION
  BY <1>1, HeldFacts
<1>6. y \in Nat /\ y * i <= tokens * PRECISION + i
  BY ScaledBounds
<1>7. TokensOf(m, q.balance) + tokens < g
  OBVIOUS
<1>. DEFINE left == g - tokens  z == TokensOf(m, q.balance)
<1>8. left \in Nat /\ z < left /\ tokens < g /\ g >= 1
  BY <1>3, <1>4, <1>7
<1>9. s2 * i < left * PRECISION
  BY <1>4, <1>8
<1>. HIDE DEF i, s, s2, g, y, z
<1>. DEFINE p == tokens * PRECISION  e == g * PRECISION  x == s * i  x2 == s2 * i
<1>10. /\ p \in Nat /\ e \in Nat /\ x \in Nat /\ x2 \in Nat /\ left * PRECISION = e - p
  <2>1. (g - tokens) * PRECISION = g * PRECISION - tokens * PRECISION
    BY <1>3
  <2>. QED  BY <1>1, <1>3, <2>1, ProductNatural
<1>11. x2 < e - p
  BY <1>9, <1>10
<1>12. x <= e + i
  <2>1. CASE s - s2 = 0
    <3>1. s = s2
      BY <1>1, <1>3, <2>1
    <3>2. x = x2
      BY <3>1
    <3>. HIDE DEF p, e, x, x2
    <3>. QED  BY <1>3, <1>10, <1>11, <3>2
  <2>2. CASE s - s2 = y
    <3>1. s = s2 + y
      BY <1>1, <1>3, <2>2
    <3>2. x = x2 + y * i /\ y * i \in Int
      BY <1>1, <1>3, <1>6, <3>1
    <3>. DEFINE v == y * i
    <3>3. x = x2 + v /\ v \in Int /\ v <= p + i
      BY <1>6, <3>2
    <3>. HIDE DEF p, e, x, x2, v
    <3>. QED  BY <1>3, <1>10, <1>11, <3>3
  <2>3. CASE s2 = 0 /\ TokensOf(m, b) <= tokens
    <3>1. TokensOf(m, b) < g
      BY <1>3, <1>5, <1>8, <2>3
    <3>2. x < e
      BY <1>3, <1>5, <3>1
    <3>. HIDE DEF p, e, x, x2
    <3>. QED  BY <1>3, <1>10, <3>2
  <2>. QED  BY <1>1, <2>1, <2>2, <2>3
<1>13. x2 <= e + i
  <2>. HIDE DEF p, e, x, x2
  <2>. QED  BY <1>3, <1>10, <1>11
<1>. QED
  BY <1>1, <1>3, <1>8, <1>12, <1>13 DEF i, s, s2, g

\* What a fee does to a deposit: it loses no more than the revenue pool gains, or was worth no
\* more than the fee.
Charged(m, b, n, c) ==
    /\ IsMarket(n) /\ SameGuard(m, n) /\ n.interest = m.interest /\ c \in PositionType
    /\ c.type = "Deposit" =>
          /\ b.type = "Deposit" /\ c.scaled <= b.scaled
          /\ \E gain \in Nat :
                /\ n.total["Deposit"] = m.total["Deposit"] + gain - (b.scaled - c.scaled)
                /\ \/ b.scaled - c.scaled <= gain
                   \/ b.scaled * m.interest["Deposit"]
                         < gain * m.interest["Deposit"] + m.interest["Deposit"] + PRECISION

LEMMA FeeTaken ==
  ASSUME NEW m, IsMarket(m), NEW b \in PositionType, NEW fee \in Nat, NEW charged \in FeeCharged(m, b, fee)
  PROVE  Charged(m, b, charged.market, charged.balance)
<1>1. CASE fee = 0
  <2>1. charged.market = m /\ charged.balance = b
    BY <1>1 DEF FeeCharged
  <2>2. b.scaled \in Nat /\ m.total["Deposit"] \in Nat
    BY DEF PositionType, IsMarket
  <2>3. 0 \in Nat /\ m.total["Deposit"] = m.total["Deposit"] + 0 - (b.scaled - b.scaled) /\ b.scaled - b.scaled <= 0
    BY <2>2
  <2>. QED  BY <2>1, <2>2, <2>3 DEF Charged, SameGuard
<1>2. CASE fee # 0
  <2>1. PICK paid \in RevenuePoolUpdated(m, "Deposit", fee) :
           charged \in PositionUpdated(paid, b, "Borrow", fee, FALSE, 0)
    BY <1>2 DEF FeeCharged
  <2>. DEFINE gain == SpotBalance(m, "Deposit", fee, FALSE)
  <2>2. /\ IsMarket(paid) /\ SameGuard(m, paid) /\ paid.interest = m.interest
        /\ paid.total["Deposit"] = m.total["Deposit"] + gain
    BY <2>1, PoolGain
  <2>3. SpotBalance(paid, "Deposit", fee, FALSE) = gain
    BY <2>2 DEF SpotBalance
  <2>4. /\ IsMarket(charged.market) /\ SameGuard(paid, charged.market) /\ charged.market.interest = paid.interest
        /\ charged.balance \in PositionType
        /\ \E q \in UpdateBalances(paid, b, "Borrow", fee, FALSE) :
              /\ charged.market = q.market
              /\ charged.balance.type = q.balance.type /\ charged.balance.scaled = q.balance.scaled
    <3>. DEFINE none == 0  leaving == FALSE  side == "Borrow"
    <3>1. none \in Int /\ leaving \in BOOLEAN /\ side \in Sides
      OBVIOUS
    <3>2. charged \in PositionUpdated(paid, b, side, fee, leaving, none)
      BY <2>1
    <3>. HIDE DEF none, leaving, side
    <3>3. /\ IsMarket(charged.market) /\ SameGuard(paid, charged.market) /\ charged.market.interest = paid.interest
          /\ charged.balance \in PositionType
          /\ \E q \in UpdateBalances(paid, b, side, fee, leaving) :
                /\ charged.market = q.market
                /\ charged.balance.type = q.balance.type /\ charged.balance.scaled = q.balance.scaled
      BY <2>2, <3>1, <3>2, PositionMoves
    <3>. QED  BY <3>3 DEF side, leaving
  <2>. DEFINE i == m.interest["Deposit"]  n == charged.market  c == charged.balance
  <2>5. ASSUME c.type = "Deposit"
        PROVE  /\ b.type = "Deposit" /\ c.scaled <= b.scaled /\ gain \in Nat
               /\ n.total["Deposit"] = m.total["Deposit"] + gain - (b.scaled - c.scaled)
               /\ b.scaled - c.scaled <= gain \/ b.scaled * i < gain * i + i + PRECISION
    <3>1. PICK q \in UpdateBalances(paid, b, "Borrow", fee, FALSE) :
             n = q.market /\ c.type = q.balance.type /\ c.scaled = q.balance.scaled
      BY <2>4
    <3>2. IsBalance(b) /\ b.scaled \in Nat
      BY DEF IsBalance, PositionType
    <3>3. /\ b.type = "Deposit" /\ c.scaled \in Nat /\ c.scaled <= b.scaled
          /\ n.total["Deposit"] = paid.total["Deposit"] - (b.scaled - c.scaled)
          /\ \/ b.scaled - c.scaled = 0
             \/ b.scaled - c.scaled = gain
             \/ c.scaled = 0 /\ TokensOf(paid, b) <= fee
      <4>. DEFINE leaving == FALSE
      <4>1. q.balance.type = "Deposit" /\ leaving \in BOOLEAN /\ q \in UpdateBalances(paid, b, "Borrow", fee, leaving)
        BY <2>5, <3>1
      <4>2. SpotBalance(paid, "Deposit", fee, leaving) = gain
        BY <2>3
      <4>. HIDE DEF gain, n, c, leaving
      <4>3. /\ b.type = "Deposit" /\ q.balance.scaled \in Nat /\ q.balance.scaled <= b.scaled
            /\ q.market.total["Deposit"] = paid.total["Deposit"] - (b.scaled - q.balance.scaled)
            /\ \/ b.scaled - q.balance.scaled = 0
               \/ b.scaled - q.balance.scaled = SpotBalance(paid, "Deposit", fee, leaving)
               \/ q.balance.scaled = 0 /\ TokensOf(paid, b) <= fee
        BY <2>2, <3>2, <4>1, TakenScaled
      <4>. QED  BY <3>1, <4>2, <4>3
    <3>4. gain \in Nat /\ fee * PRECISION < gain * i + i
      BY ScaledBounds
    <3>5. ASSUME TokensOf(paid, b) <= fee PROVE b.scaled * i < gain * i + i + PRECISION
      <4>1. /\ TokensOf(paid, b) \in Nat
            /\ \A t \in Nat : TokensOf(paid, b) < t => b.scaled * i < t * PRECISION
        BY <2>2, <3>2, <3>3, HeldFacts
      <4>2. b.scaled * i < (fee + 1) * PRECISION
        BY <3>5, <4>1
      <4>3. /\ PRECISION \in Int /\ i \in Int
            /\ (fee + 1) * PRECISION = fee * PRECISION + PRECISION
        BY SynthBalancesAssumption DEF IsMarket
      <4>. HIDE DEF i, gain
      <4>. DEFINE x == b.scaled * i  v == fee * PRECISION  w == gain * i
      <4>4. x \in Int /\ v \in Int /\ w \in Int
        BY <3>2, <3>4, <4>3
      <4>5. x < v + PRECISION /\ v < w + i
        BY <3>4, <4>2, <4>3
      <4>. HIDE DEF x, v, w
      <4>6. x < w + i + PRECISION
        BY <4>3, <4>4, <4>5
      <4>. QED  BY <4>6 DEF x, w
    <3>6. b.scaled - c.scaled <= gain \/ b.scaled * i < gain * i + i + PRECISION
      <4>. HIDE DEF i, gain, c
      <4>. QED  BY <3>2, <3>3, <3>4, <3>5
    <3>7. n.total["Deposit"] = m.total["Deposit"] + gain - (b.scaled - c.scaled)
      <4>1. m.total["Deposit"] \in Int
        BY DEF IsMarket
      <4>. HIDE DEF gain, n, c
      <4>. QED  BY <2>2, <3>2, <3>3, <3>4, <4>1
    <3>. QED  BY <3>3, <3>4, <3>6, <3>7
  <2>6. SameGuard(m, n) /\ n.interest = m.interest
    BY <2>2, <2>4 DEF SameGuard
  <2>. HIDE DEF gain, n, c, i
  <2>7. Charged(m, b, n, c)
    BY <2>4, <2>5, <2>6 DEF Charged, n, c, i
  <2>. QED  BY <2>7 DEF n, c
<1>. QED
  BY <1>1, <1>2

\* The limit that keeps the utilization down is a number: it divides by no zero.
LEMMA LimitNatural ==
  ASSUME NEW m, IsMarket(m), Guarded(m)
  PROVE  MinDepositForUtilization(m) \in Nat
<1>. DEFINE most == MaxWithdrawUtilization(m)  x == Borrows(m) * UTILIZATION_PRECISION
<1>1. UTILIZATION_PRECISION \in Nat /\ UTILIZATION_PRECISION >= 2
  BY SynthBalancesAssumption
<1>2. Borrows(m) \in Nat /\ Deposits(m) \in Nat
  BY AmountsTyped
<1>3. most \in Nat \ {0}
  BY <1>1 DEF MaxWithdrawUtilization, Guarded, Larger, Minus
<1>4. x \in Nat
  BY <1>1, <1>2, ProductNatural
<1>5. MinDepositForUtilization(m) = Smaller(x \div most, Minus(Deposits(m), m.guard))
  BY DEF MinDepositForUtilization
<1>. HIDE DEF most, x
<1>6. x \div most \in Nat
  BY <1>3, <1>4, QuotientNatural
<1>7. Minus(Deposits(m), m.guard) \in Nat
  BY <1>2 DEF Minus, Larger, Guarded
<1>. QED
  BY <1>5, <1>6, <1>7 DEF Smaller

\* Tokens that are taken within the limits keep the floor.
LEMMA WithdrawnFloored ==
  ASSUME NEW m, IsMarket(m), Guarded(m), NEW P \in Positions, Floored(m, P), NEW u \in Users,
         NEW n, NEW b, Charged(m, P[u], n, b), NEW tokens \in Nat, NEW counted \in Int, NEW net,
         NEW r \in PositionUpdated(n, b, "Borrow", tokens, TRUE, counted), CanLeave(r, net, tokens)
  PROVE  Guarded(r.market) /\ Floored(r.market, [P EXCEPT ![u] = r.balance])
<1>1. /\ IsMarket(n) /\ SameGuard(m, n) /\ n.interest = m.interest /\ b \in PositionType
      /\ P[u] \in PositionType
  BY DEF Charged, Positions
<1>2. /\ IsMarket(r.market) /\ SameGuard(n, r.market) /\ r.market.interest = n.interest
      /\ r.balance \in PositionType
      /\ \E q \in UpdateBalances(n, b, "Borrow", tokens, TRUE) :
            /\ r.market = q.market
            /\ r.balance.type = q.balance.type /\ r.balance.scaled = q.balance.scaled
  <2>. DEFINE leaving == TRUE  side == "Borrow"
  <2>1. leaving \in BOOLEAN /\ side \in Sides /\ r \in PositionUpdated(n, b, side, tokens, leaving, counted)
    OBVIOUS
  <2>. HIDE DEF leaving, side
  <2>2. /\ IsMarket(r.market) /\ SameGuard(n, r.market) /\ r.market.interest = n.interest
        /\ r.balance \in PositionType
        /\ \E q \in UpdateBalances(n, b, side, tokens, leaving) :
              /\ r.market = q.market
              /\ r.balance.type = q.balance.type /\ r.balance.scaled = q.balance.scaled
    BY <1>1, <2>1, PositionMoves
  <2>. QED  BY <2>2 DEF leaving, side
<1>3. SameGuard(m, r.market) /\ r.market.interest = m.interest
  BY <1>1, <1>2 DEF SameGuard
<1>4. Guarded(n) /\ Guarded(r.market)
  BY <1>1, <1>3 DEF Guarded, SameGuard
<1>5. CASE Deposits(r.market) >= MinDeposit(r.market)
  <2>1. [P EXCEPT ![u] = r.balance] \in Positions
    BY <1>2 DEF Positions
  <2>2. MinDepositForTwap(r.market) \in Nat /\ Deposits(r.market) \in Nat
    BY <1>2, <1>4, StockFacts
  <2>3. \/ MinDeposit(r.market) = MinDepositForTwap(r.market)
        \/ MinDeposit(r.market) = MinDepositForUtilization(r.market)
           /\ ~(MinDepositForTwap(r.market) >= MinDepositForUtilization(r.market))
    BY DEF MinDeposit, Larger
  <2>4. MinDepositForUtilization(r.market) \in Int
    BY <1>2, <1>4, LimitNatural
  <2>5. Deposits(r.market) >= MinDepositForTwap(r.market)
    BY <1>5, <2>2, <2>3, <2>4
  <2>. QED  BY <1>2, <1>4, <2>1, <2>5, LimitsFloor
<1>6. CASE IsExempt(r.market, r.balance, net, tokens)
  <2>. DEFINE i == m.interest["Deposit"]  s == P[u].scaled  s1 == b.scaled  s2 == r.balance.scaled
              t == m.total["Deposit"]  t2 == r.market.total["Deposit"]  e == Exemption(m)
  <2>1. PICK q \in UpdateBalances(n, b, "Borrow", tokens, TRUE) :
           r.market = q.market /\ r.balance.type = q.balance.type /\ r.balance.scaled = q.balance.scaled
    BY <1>2
  <2>2. IsBalance(b) /\ q.balance.type = "Deposit" /\ TokensOf(n, q.balance) + tokens < n.guard \div 10
    BY <1>1, <1>2, <1>6, <2>1 DEF IsExempt, IsBalance, TokensOf, TokenAmount, SameGuard
  <2>3. /\ b.type = "Deposit" /\ n.guard \div 10 >= 1
        /\ b.scaled * n.interest["Deposit"] <= Exemption(n)
        /\ q.balance.scaled * n.interest["Deposit"] <= Exemption(n)
    BY <1>1, <1>4, <2>1, <2>2, ExemptHeld
  <2>4. /\ q.balance.scaled \in Nat /\ q.balance.scaled <= b.scaled
        /\ q.market.total["Deposit"] = n.total["Deposit"] - (b.scaled - q.balance.scaled)
    <3>. DEFINE leaving == TRUE
    <3>1. leaving \in BOOLEAN /\ q \in UpdateBalances(n, b, "Borrow", tokens, leaving)
      BY <2>1
    <3>. HIDE DEF leaving
    <3>. QED  BY <1>1, <2>2, <3>1, TakenScaled
  <2>5. PICK gain \in Nat :
           /\ n.total["Deposit"] = m.total["Deposit"] + gain - (P[u].scaled - b.scaled)
           /\ \/ P[u].scaled - b.scaled <= gain
              \/ P[u].scaled * m.interest["Deposit"]
                    < gain * m.interest["Deposit"] + m.interest["Deposit"] + PRECISION
    BY <2>3 DEF Charged
  <2>6. P[u].type = "Deposit" /\ s1 <= s
    BY <2>3 DEF Charged
  <2>7. /\ i \in Nat /\ s \in Nat /\ s1 \in Nat /\ s2 \in Nat /\ t \in Nat /\ t2 \in Nat /\ e \in Nat
        /\ PRECISION \in Nat
    BY <1>1, <1>2, StockFacts DEF PositionType, IsMarket
  <2>8. Exemption(n) = e /\ n.interest["Deposit"] = i
    BY <1>1 DEF Exemption, SameGuard
  <2>9. t2 = t + gain - (s - s2)
    BY <1>1, <2>1, <2>4, <2>5, <2>7 DEF IsMarket
  <2>10. s2 * i <= e /\ s1 * i <= e
    BY <2>1, <2>3, <2>8
  <2>11. PRECISION + i <= e
    <3>. DEFINE g == m.guard \div 10
    <3>1. g \in Nat /\ g >= 1
      BY <1>1, <2>3 DEF Guarded, SameGuard
    <3>2. e = g * PRECISION + i
      BY DEF Exemption
    <3>. HIDE DEF g, e, i
    <3>. QED  BY <2>7, <3>1, <3>2
  <2>12. /\ Stock(m) = t * i /\ Stock(r.market) = t2 * i
         /\ Room(m, P[u]) = Larger(0, e - s * i) /\ Room(r.market, r.balance) = Larger(0, e - s2 * i)
    <3>1. r.balance.type = "Deposit"
      BY <2>1, <2>2
    <3>2. Exemption(r.market) = e
      BY <1>3 DEF Exemption, SameGuard
    <3>. QED  BY <1>3, <2>6, <3>1, <3>2 DEF Stock, Room, Held, On
  <2>. DEFINE x == t * i  w == gain * i  y == s * i  y1 == s1 * i  y2 == s2 * i
  <2>13. x \in Int /\ w \in Nat /\ y \in Int /\ y1 \in Int /\ y2 \in Int /\ t2 * i = x + w - y + y2
    <3>. HIDE DEF i, s, s1, s2, t, t2, e
    <3>1. (t + gain - (s - s2)) * i = t * i + gain * i - s * i + s2 * i
      BY <2>7
    <3>. QED  BY <2>7, <2>9, <3>1, ProductNatural
  <2>14. y <= w + e
    <3>1. CASE s - s1 <= gain
      <4>. HIDE DEF i, s, s1, s2, t, t2, e
      <4>1. (s - s1) * i <= gain * i
        BY <2>7, <3>1
      <4>2. (s - s1) * i = y - y1
        BY <2>7
      <4>3. y - y1 <= w /\ y1 <= e
        BY <2>10, <4>1, <4>2
      <4>. HIDE DEF w, y, y1
      <4>. QED  BY <2>7, <2>13, <4>3
    <3>2. CASE y < w + i + PRECISION
      <4>. HIDE DEF w, y, i, e
      <4>. QED  BY <2>7, <2>11, <2>13, <3>2
    <3>. QED  BY <2>5, <3>1, <3>2
  <2>. HIDE DEF x, w, y, y1, y2
  <2>15. x + Larger(0, e - y) <= x + w - y + y2 + Larger(0, e - y2)
    <3>1. y2 <= e
      BY <2>10 DEF y2
    <3>. HIDE DEF e
    <3>. QED  BY <2>7, <2>13, <2>14, <3>1 DEF Larger
  <2>16. Stock(m) + Room(m, P[u]) <= Stock(r.market) + Room(r.market, r.balance)
    BY <2>12, <2>13, <2>15 DEF x, y, y2
  <2>. QED  BY <1>2, <1>3, <2>16, RoomReplaced
<1>. QED
  BY <1>5, <1>6 DEF CanLeave, WithinWithdrawLimits

LEMMA PoolFloored ==
  ASSUME NEW m, IsMarket(m), Guarded(m), NEW P \in Positions, Floored(m, P), NEW tokens \in Nat,
         NEW n \in RevenuePoolUpdated(m, "Deposit", tokens)
  PROVE  Guarded(n) /\ Floored(n, P)
<1>. DEFINE i == m.interest["Deposit"]  t == m.total["Deposit"]  gain == SpotBalance(m, "Deposit", tokens, FALSE)
<1>1. /\ IsMarket(n) /\ SameGuard(m, n) /\ n.interest = m.interest /\ n.total["Deposit"] = t + gain
      /\ gain \in Nat
  BY PoolGain, ScaledNatural
<1>2. Guarded(n) /\ MinDepositForTwap(n) = MinDepositForTwap(m)
  BY <1>1 DEF Guarded, SameGuard, MinDepositForTwap
<1>3. Rooms(n, P) = Rooms(m, P)
  BY <1>1 DEF Rooms, Room, Held, Exemption, SameGuard
<1>4. i \in Nat /\ t \in Nat /\ MinDepositForTwap(m) \in Nat /\ PRECISION \in Nat /\ Rooms(m, P) \in Nat
  BY StockFacts, RoomsNatural
<1>5. Stock(m) = t * i /\ Stock(n) = (t + gain) * i
  BY <1>1 DEF Stock
<1>. HIDE DEF i, t, gain
<1>. DEFINE x == t * i  y == gain * i  low == MinDepositForTwap(m) * PRECISION
<1>6. x \in Nat /\ y \in Nat /\ low \in Nat /\ Stock(n) = x + y
  BY <1>1, <1>4, <1>5, ProductNatural
<1>7. low <= x + Rooms(m, P) + PRECISION
  BY <1>5 DEF Floored
<1>. HIDE DEF x, y, low
<1>8. low <= Stock(n) + Rooms(n, P) + PRECISION
  BY <1>3, <1>4, <1>6, <1>7
<1>. QED
  BY <1>2, <1>8 DEF Floored, low

LEMMA InterestPaidFloored ==
  ASSUME NEW m, IsMarket(m), Guarded(m), NEW P \in Positions, Balanced(m, P), Floored(m, P),
         NEW rate \in Nat, NEW t,
         NEW n \in InterestPaid(m, AccumulatedInterest(m, rate, t), TotalFactor, t)
  PROVE  Guarded(n) /\ Floored(n, P)
<1>. DEFINE accumulated == AccumulatedInterest(m, rate, t)
            all == accumulated["Deposit"]  debt == accumulated["Borrow"]
            stakers == (all * TotalFactor) \div IF_FACTOR_PRECISION
            lenders == all - stakers
            raised == [m EXCEPT !.interest["Deposit"] = @ + lenders, !.interest["Borrow"] = @ + debt,
                                !.lastInterest = t]
            gain == (m.total["Deposit"] * stakers) \div PRECISION
<1>1. all \in Nat /\ debt \in Nat
  BY InterestTyped
<1>2. /\ TotalFactor \in Nat /\ IF_FACTOR_PRECISION \in Nat \ {0} /\ TotalFactor <= IF_FACTOR_PRECISION
      /\ PRECISION \in Nat \ {0} /\ m.total["Deposit"] \in Nat
  BY SynthBalancesAssumption, SynthMarketsAssumption DEF IsMarket
<1>3. stakers \in Nat /\ lenders \in Nat
  <2>. HIDE DEF all
  <2>1. all * TotalFactor \in Nat /\ all * TotalFactor <= all * IF_FACTOR_PRECISION
    BY <1>1, <1>2
  <2>2. stakers \in Nat /\ stakers <= all
    BY <1>1, <1>2, <2>1
  <2>. QED  BY <1>1, <2>2
<1>4. gain \in Nat
  <2>. HIDE DEF stakers
  <2>. QED  BY <1>2, <1>3, ProductNatural, QuotientNatural
<1>5. IsMarket(raised)
  <2>. HIDE DEF lenders, debt
  <2>. QED  BY <1>1, <1>3, InterestRaised
<1>6. /\ raised.total = m.total /\ SameGuard(m, raised)
      /\ raised.interest["Deposit"] = m.interest["Deposit"] + lenders /\ m.interest["Deposit"] \in Nat
  <2>. HIDE DEF lenders, debt
  <2>. QED  BY DEF IsMarket, Fields, SameGuard
<1>7. n = m \/ n \in RevenuePoolUpdated(raised, "Deposit", gain)
  BY DEF InterestPaid
<1>. HIDE DEF raised, gain, lenders
<1>8. Guarded(raised) /\ Floored(raised, P)
  <2>1. raised.interest["Deposit"] >= m.interest["Deposit"]
    BY <1>3, <1>6
  <2>. QED  BY <1>5, <1>6, <2>1, InterestFloored
<1>. QED
  BY <1>4, <1>5, <1>7, <1>8, PoolFloored

\* The floor, as the calls keep it
FloorInv == now \in Nat /\ Guarded(market) /\ Floored(market, positions)

LEMMA RefreshedFloored ==
  ASSUME SynthInv, FloorInv, NEW rate \in Nat, NEW m \in Refreshed(rate)
  PROVE  Guarded(m) /\ Floored(m, positions)
<1>1. PICK n : /\ m = TwapsUpdated(n, now)
               /\ n = market \/ n \in InterestPaid(market, AccumulatedInterest(market, rate, now), TotalFactor, now)
  BY DEF Refreshed, CumulativeInterestUpdated
<1>2. /\ IsMarket(market) /\ positions \in Positions /\ Balanced(market, positions)
      /\ Guarded(market) /\ Floored(market, positions) /\ now \in Nat
  BY DEF SynthInv, FloorInv
<1>3. IsMarket(n)
  BY <1>1, <1>2, InterestEffect
<1>4. Guarded(n) /\ Floored(n, positions)
  BY <1>1, <1>2, InterestPaidFloored
<1>. QED
  BY <1>1, <1>2, <1>3, <1>4, AveragesFloored

LEMMA ArrivedFloored ==
  ASSUME NEW m, NEW P, Guarded(m), Floored(m, P), market' = m, positions' = P, now' \in Nat
  PROVE  FloorInv'
BY DEF FloorInv, Guarded, Floored, MinDepositForTwap, Stock, Rooms, Room, Exemption, Held, On

\* A deposit into a position
LEMMA GivenFloored ==
  ASSUME NEW m, IsMarket(m), Guarded(m), NEW P \in Positions, Floored(m, P), NEW u \in Users,
         NEW tokens \in Nat, NEW counted \in Int,
         NEW r \in PositionUpdated(m, P[u], "Deposit", tokens, FALSE, counted)
  PROVE  Guarded(r.market) /\ Floored(r.market, [P EXCEPT ![u] = r.balance])
<1>1. P[u] \in PositionType
  BY DEF Positions
<1>2. /\ IsMarket(r.market) /\ SameGuard(m, r.market) /\ r.market.interest = m.interest
      /\ r.balance \in PositionType /\ Moves(m, P[u], r.market, r.balance)
  <2>. DEFINE leaving == FALSE  side == "Deposit"
  <2>1. leaving \in BOOLEAN /\ side \in Sides /\ r \in PositionUpdated(m, P[u], side, tokens, leaving, counted)
    OBVIOUS
  <2>. HIDE DEF leaving, side
  <2>. QED  BY <1>1, <2>1, PositionMoves
<1>3. On("Deposit", r.balance) >= On("Deposit", P[u])
  BY <1>1, DepositGrows
<1>. QED
  BY <1>2, <1>3, RaisedFloored DEF Moves

LEMMA DepositFloored ==
  ASSUME SynthInv, FloorInv, NEW u \in Users, NEW amount \in Amounts, NEW rate \in Rates,
         NEW reduceOnly \in BOOLEAN, DepositCollateral(u, amount, reduceOnly, rate)
  PROVE  FloorInv'
<1>0. amount \in Nat /\ rate \in Nat
  BY SynthMarketsAssumption
<1>1. PICK m \in Refreshed(rate) :
        \E tokens \in {Smaller(TokensOf(m, positions[u]), amount), amount} :
        \E r \in PositionUpdated(m, positions[u], "Deposit", tokens, FALSE, tokens) :
           market' = r.market /\ positions' = [positions EXCEPT ![u] = r.balance]
  BY DEF DepositCollateral
<1>2. PICK tokens \in {Smaller(TokensOf(m, positions[u]), amount), amount} :
        \E r \in PositionUpdated(m, positions[u], "Deposit", tokens, FALSE, tokens) :
           market' = r.market /\ positions' = [positions EXCEPT ![u] = r.balance]
  BY <1>1
<1>3. PICK r \in PositionUpdated(m, positions[u], "Deposit", tokens, FALSE, tokens) :
           market' = r.market /\ positions' = [positions EXCEPT ![u] = r.balance]
  BY <1>2
<1>4. /\ IsMarket(m) /\ positions \in Positions
      /\ Guarded(m) /\ Floored(m, positions)
  BY <1>0, RefreshedEffect, RefreshedFloored DEF SynthInv
<1>5. tokens \in Nat /\ tokens \in Int
  <2>1. TokensOf(m, positions[u]) \in Nat
    <3>1. positions[u].type \in Sides /\ positions[u].scaled \in Nat
      BY <1>4 DEF Positions, PositionType
    <3>. QED  BY <1>4, <3>1, TokensNatural DEF TokensOf
  <2>. QED  BY <1>0, <2>1 DEF Smaller
<1>. DEFINE Q == [positions EXCEPT ![u] = r.balance]
<1>6. Guarded(r.market) /\ Floored(r.market, Q)
  BY <1>4, <1>5, GivenFloored
<1>7. now' \in Nat
  BY DEF DepositCollateral, FloorInv
<1>8. market' = r.market /\ positions' = Q
  BY <1>3
<1>. HIDE DEF Q
<1>. QED
  BY <1>6, <1>7, <1>8, ArrivedFloored

LEMMA WithdrawFloored ==
  ASSUME SynthInv, FloorInv, NEW u \in Users, NEW amount \in Amounts, NEW rate \in Rates, NEW fee \in Fees,
         NEW reduceOnly \in BOOLEAN, WithdrawCollateral(u, amount, reduceOnly, fee, rate)
  PROVE  FloorInv'
<1>0. amount \in Nat /\ rate \in Nat /\ fee \in Nat
  BY SynthMarketsAssumption
<1>1. PICK m \in Refreshed(rate) :
        \E tokens \in {Smaller(amount, TokensOf(m, positions[u])) - fee, amount - fee} :
           /\ tokens >= 0
           /\ \E charged \in FeeCharged(m, positions[u], fee) :
              \E r \in PositionUpdated(charged.market, charged.balance, "Borrow", tokens, TRUE, tokens) :
                 /\ CanLeave(r, netDeposits[u] - tokens, tokens)
                 /\ market' = r.market /\ positions' = [positions EXCEPT ![u] = r.balance]
  BY DEF WithdrawCollateral
<1>2. PICK tokens \in {Smaller(amount, TokensOf(m, positions[u])) - fee, amount - fee} :
           /\ tokens >= 0
           /\ \E charged \in FeeCharged(m, positions[u], fee) :
              \E r \in PositionUpdated(charged.market, charged.balance, "Borrow", tokens, TRUE, tokens) :
                 /\ CanLeave(r, netDeposits[u] - tokens, tokens)
                 /\ market' = r.market /\ positions' = [positions EXCEPT ![u] = r.balance]
  BY <1>1
<1>3. PICK charged \in FeeCharged(m, positions[u], fee) :
              \E r \in PositionUpdated(charged.market, charged.balance, "Borrow", tokens, TRUE, tokens) :
                 /\ CanLeave(r, netDeposits[u] - tokens, tokens)
                 /\ market' = r.market /\ positions' = [positions EXCEPT ![u] = r.balance]
  BY <1>2
<1>4. PICK r \in PositionUpdated(charged.market, charged.balance, "Borrow", tokens, TRUE, tokens) :
                 /\ CanLeave(r, netDeposits[u] - tokens, tokens)
                 /\ market' = r.market /\ positions' = [positions EXCEPT ![u] = r.balance]
  BY <1>3
<1>5. /\ IsMarket(m) /\ positions \in Positions /\ positions[u] \in PositionType
      /\ Guarded(m) /\ Floored(m, positions)
  BY <1>0, RefreshedEffect, RefreshedFloored DEF SynthInv, Positions
<1>6. tokens \in Nat /\ tokens \in Int
  <2>1. TokensOf(m, positions[u]) \in Nat
    <3>1. positions[u].type \in Sides /\ positions[u].scaled \in Nat
      BY <1>5 DEF Positions, PositionType
    <3>. QED  BY <1>5, <3>1, TokensNatural DEF TokensOf
  <2>. QED  BY <1>0, <1>2, <2>1 DEF Smaller
<1>7. Charged(m, positions[u], charged.market, charged.balance)
  BY <1>0, <1>5, FeeTaken
<1>. DEFINE Q == [positions EXCEPT ![u] = r.balance]  net == netDeposits[u] - tokens
<1>8. Guarded(r.market) /\ Floored(r.market, Q)
  <2>1. CanLeave(r, net, tokens)
    BY <1>4
  <2>. HIDE DEF net
  <2>. QED  BY <1>5, <1>6, <1>7, <2>1, WithdrawnFloored
<1>9. now' \in Nat
  BY DEF WithdrawCollateral, FloorInv
<1>10. market' = r.market /\ positions' = Q
  BY <1>4
<1>. HIDE DEF Q
<1>. QED
  BY <1>8, <1>9, <1>10, ArrivedFloored

LEMMA TransferFloored ==
  ASSUME SynthInv, FloorInv, NEW from \in Users, NEW to \in Users, NEW amount \in Amounts, NEW rate \in Rates,
         TransferCollateral(from, to, amount, rate)
  PROVE  FloorInv'
<1>0. amount \in Nat /\ amount \in Int /\ rate \in Nat
  BY SynthMarketsAssumption
<1>1. PICK m \in Refreshed(rate) :
        \E taken \in PositionUpdated(m, positions[from], "Borrow", amount, TRUE, amount) :
           /\ CanLeave(taken, netDeposits[from] - amount, amount)
           /\ \E given \in PositionUpdated(taken.market, positions[to], "Deposit", amount, FALSE, amount) :
              /\ market' = given.market
              /\ positions' = [positions EXCEPT ![from] = taken.balance, ![to] = given.balance]
  BY DEF TransferCollateral
<1>2. PICK taken \in PositionUpdated(m, positions[from], "Borrow", amount, TRUE, amount) :
           /\ CanLeave(taken, netDeposits[from] - amount, amount)
           /\ \E given \in PositionUpdated(taken.market, positions[to], "Deposit", amount, FALSE, amount) :
              /\ market' = given.market
              /\ positions' = [positions EXCEPT ![from] = taken.balance, ![to] = given.balance]
  BY <1>1
<1>3. PICK given \in PositionUpdated(taken.market, positions[to], "Deposit", amount, FALSE, amount) :
           /\ market' = given.market
           /\ positions' = [positions EXCEPT ![from] = taken.balance, ![to] = given.balance]
  BY <1>2
<1>4. from # to
  BY DEF TransferCollateral
<1>5. /\ IsMarket(m) /\ positions \in Positions /\ positions[from] \in PositionType
      /\ Balanced(m, positions) /\ Guarded(m) /\ Floored(m, positions)
  BY <1>0, RefreshedEffect, RefreshedFloored DEF SynthInv, Positions
<1>. DEFINE Q == [positions EXCEPT ![from] = taken.balance]  net == netDeposits[from] - amount
<1>6. IsMarket(taken.market) /\ Q \in Positions
  <2>1. "Borrow" \in Sides /\ TRUE \in BOOLEAN
    OBVIOUS
  <2>. QED  BY <1>0, <1>5, <2>1, PositionEffect
<1>7. /\ Q[to] = positions[to]
      /\ [Q EXCEPT ![to] = given.balance] = [positions EXCEPT ![from] = taken.balance, ![to] = given.balance]
  BY <1>4, <1>5 DEF Positions
<1>8. Guarded(taken.market) /\ Floored(taken.market, Q)
  <2>1. CanLeave(taken, net, amount)
    BY <1>2
  <2>2. Charged(m, positions[from], m, positions[from])
    <3>. DEFINE fee == 0  c == [market |-> m, balance |-> positions[from]]
    <3>1. fee \in Nat /\ c \in FeeCharged(m, positions[from], fee)
      BY DEF FeeCharged
    <3>2. c.market = m /\ c.balance = positions[from]
      OBVIOUS
    <3>. HIDE DEF fee, c
    <3>3. Charged(m, positions[from], c.market, c.balance)
      BY <1>5, <3>1, FeeTaken
    <3>. QED  BY <3>2, <3>3
  <2>. HIDE DEF net
  <2>. QED  BY <1>0, <1>2, <1>5, <2>1, <2>2, WithdrawnFloored
<1>. HIDE DEF Q
<1>. DEFINE R == [Q EXCEPT ![to] = given.balance]
<1>9. Guarded(given.market) /\ Floored(given.market, R)
  <2>1. given \in PositionUpdated(taken.market, Q[to], "Deposit", amount, FALSE, amount)
    BY <1>7
  <2>. QED  BY <1>0, <1>6, <1>8, <2>1, GivenFloored
<1>10. now' \in Nat
  BY DEF TransferCollateral, FloorInv
<1>11. market' = given.market /\ positions' = R
  BY <1>3, <1>7
<1>. HIDE DEF R
<1>. QED
  BY <1>9, <1>10, <1>11, ArrivedFloored

LEMMA DonationFloored ==
  ASSUME SynthInv, FloorInv, NEW amount \in Donations, DepositIntoVault(amount), SynthInv'
  PROVE  FloorInv'
<1>. DEFINE raised == (((Deposits(market) + amount) * INTEREST_ONE) \div market.total["Deposit"])
                        * (PRECISION \div INTEREST_ONE)
            m == [market EXCEPT !.interest["Deposit"] = raised]
<1>1. /\ market' = m /\ positions' = positions /\ now' = now
      /\ raised > market.interest["Deposit"]
  BY DEF DepositIntoVault
<1>. HIDE DEF raised
<1>2. /\ IsMarket(market) /\ positions \in Positions /\ Balanced(market, positions)
      /\ Guarded(market) /\ Floored(market, positions) /\ now \in Nat
  BY DEF SynthInv, FloorInv
<1>3. IsMarket(market')
  BY DEF SynthInv, IsMarket
<1>4. /\ m.total = market.total /\ m.interest["Deposit"] = raised /\ SameGuard(market, m)
  BY <1>2 DEF IsMarket, Fields, SameGuard
<1>5. m.interest["Deposit"] >= market.interest["Deposit"]
  <2>1. m.interest["Deposit"] \in Nat /\ market.interest["Deposit"] \in Nat
    BY <1>1, <1>2, <1>3 DEF IsMarket
  <2>. QED  BY <1>1, <1>4, <2>1
<1>. HIDE DEF m
<1>6. Guarded(m) /\ Floored(m, positions)
  BY <1>1, <1>2, <1>3, <1>4, <1>5, InterestFloored
<1>. QED
  BY <1>1, <1>2, <1>6, ArrivedFloored

LEMMA StateFloored ==
  ASSUME SynthInv, FloorInv, NEW status, NEW paused, SetMarketState(status, paused)
  PROVE  FloorInv'
<1>1. market' = [market EXCEPT !.status = status, !.paused = paused] /\ positions' = positions /\ now' = now
  BY DEF SetMarketState
<1>2. DOMAIN market = Fields
  BY DEF SynthInv, IsMarket
<1>3. /\ market'.total = market.total /\ market'.interest = market.interest
      /\ market'.guard = market.guard /\ market'.twap = market.twap /\ market'.lastTwap = market.lastTwap
      /\ market'.utilization = market.utilization /\ market'.optimalUtilization = market.optimalUtilization
  BY <1>1, <1>2 DEF Fields
<1>. QED
  BY <1>1, <1>3
  DEF FloorInv, Guarded, Floored, MinDepositForTwap, Stock, Rooms, Room, Exemption, Held, On

LEMMA InitFloorInv == Init => FloorInv
<1>. SUFFICES ASSUME Init PROVE FloorInv
  OBVIOUS
<1>1. Guarded(market) /\ now \in Nat
  BY SynthMarketsAssumption DEF Init, Guarded
<1>2. IsMarket(market) /\ positions \in Positions
  BY InitSynthInv DEF SynthInv
<1>3. MinDepositForTwap(market) = 0
  <2>1. Floor(0, market.guard) \in Nat /\ Floor(0, market.guard) <= 0
    BY <1>1, FloorFacts DEF Guarded
  <2>2. market.twap["Deposit"] = 0
    BY DEF Init
  <2>. QED  BY <2>1, <2>2 DEF MinDepositForTwap, Floor
<1>4. Stock(market) \in Nat /\ Rooms(market, positions) \in Nat /\ PRECISION \in Nat
  BY <1>1, <1>2, StockFacts, RoomsNatural
<1>5. 0 * PRECISION <= Stock(market) + Rooms(market, positions) + PRECISION
  BY <1>4
<1>. QED
  BY <1>1, <1>3, <1>5 DEF FloorInv, Floored

LEMMA StepKeepsFloorInv == SynthInv /\ FloorInv /\ [Next]_vars => FloorInv'
<1>. SUFFICES ASSUME SynthInv, FloorInv, [Next]_vars PROVE FloorInv'
  OBVIOUS
<1>1. ASSUME NEW u \in Users, NEW amount \in Amounts, NEW rate \in Rates, NEW reduceOnly \in BOOLEAN,
             DepositCollateral(u, amount, reduceOnly, rate)
      PROVE  FloorInv'
  BY <1>1, DepositFloored
<1>2. ASSUME NEW u \in Users, NEW amount \in Amounts, NEW rate \in Rates, NEW reduceOnly \in BOOLEAN,
             NEW fee \in Fees, WithdrawCollateral(u, amount, reduceOnly, fee, rate)
      PROVE  FloorInv'
  BY <1>2, WithdrawFloored
<1>3. ASSUME NEW u \in Users, NEW amount \in Amounts, NEW rate \in Rates, NEW to \in Users,
             TransferCollateral(u, to, amount, rate)
      PROVE  FloorInv'
  BY <1>3, TransferFloored
<1>4. ASSUME NEW amount \in Donations, DepositIntoVault(amount) PROVE FloorInv'
  BY <1>4, StepKeepsSynthInv, DonationFloored
<1>5. ASSUME NEW state \in MarketStates, SetMarketState(state[1], state[2]) PROVE FloorInv'
  BY <1>5, StateFloored
<1>6. CASE Tick \/ UNCHANGED vars
  BY <1>6
  DEF Tick, vars, FloorInv, Guarded, Floored, MinDepositForTwap, Stock, Rooms, Room, Exemption, Held, On
<1>. QED
  BY <1>1, <1>2, <1>3, <1>4, <1>5, <1>6 DEF Next

\* What the exempt users took is at most an exemption each.
LEMMA FlooredHolds ==
  ASSUME SynthInv, FloorInv
  PROVE  FloorHolds
<1>. DEFINE i == market.interest["Deposit"]  g == market.guard \div 10  c == CeilDiv(i, PRECISION)
            each == Exemption(market)  all == Cardinality(Users)
            f == [u \in Users |-> Room(market, positions[u])]
            d == Deposits(market)  low == MinDepositForTwap(market)
            stock == Stock(market)  rooms == Rooms(market, positions)
<1>1. IsMarket(market) /\ positions \in Positions /\ Guarded(market) /\ Floored(market, positions)
  BY DEF SynthInv, FloorInv
<1>2. /\ PRECISION \in Nat \ {0} /\ i \in Nat /\ g \in Nat /\ each \in Nat /\ stock \in Nat
      /\ d \in Nat /\ stock < (d + 1) * PRECISION /\ low \in Nat /\ rooms \in Nat
  BY <1>1, StockFacts, RoomsNatural DEF Guarded
<1>3. rooms <= all * each /\ all \in Nat
  <2>1. IsFiniteSet(DOMAIN f) /\ \A u \in DOMAIN f : f[u] \in Int /\ f[u] <= each
    BY <1>1, RoomFacts, SynthMarketsAssumption DEF Positions
  <2>2. rooms = SumFunction(f) /\ DOMAIN f = Users
    BY DEF Rooms
  <2>. HIDE DEF f, rooms
  <2>. QED  BY <1>2, <2>1, <2>2, SumBounded
<1>4. low * PRECISION <= stock + rooms + PRECISION
  BY <1>1 DEF Floored
<1>5. each = g * PRECISION + i
  BY DEF Exemption
<1>6. FloorHolds <=> d + all * (g + c) + 1 >= low
  BY DEF FloorHolds
<1>7. c \in Nat /\ i <= c * PRECISION
  <2>. HIDE DEF i
  <2>1. (i + PRECISION - 1) \div PRECISION \in Nat
        /\ i + PRECISION - 1 < ((i + PRECISION - 1) \div PRECISION) * PRECISION + PRECISION
    <3>1. i + PRECISION - 1 \in Nat
      BY <1>2
    <3>. QED  BY <1>2, <3>1, QuotientBounds
  <2>2. c = (i + PRECISION - 1) \div PRECISION
    BY DEF CeilDiv
  <2>. HIDE DEF c
  <2>3. c \in Nat /\ i + PRECISION - 1 < c * PRECISION + PRECISION
    BY <2>1, <2>2
  <2>4. c * PRECISION \in Int
    BY <1>2, <2>3
  <2>. QED  BY <1>2, <2>3, <2>4
<1>. HIDE DEF i, g, c, each, all, d, low, stock, rooms
<1>. DEFINE both == g + c  z == all * both
<1>8. all * each <= z * PRECISION /\ z \in Nat
  <2>1. both * PRECISION = g * PRECISION + c * PRECISION
    BY <1>2, <1>7
  <2>. DEFINE x == g * PRECISION  y == c * PRECISION  w == both * PRECISION
  <2>2. x \in Int /\ y \in Int /\ w \in Int /\ w = x + y /\ i <= y /\ each = x + i /\ both \in Nat
    BY <1>2, <1>5, <1>7, <2>1
  <2>. HIDE DEF x, y, w, both
  <2>3. each <= w
    BY <1>2, <2>2
  <2>4. all * each <= all * w
    BY <1>2, <1>3, <2>2, <2>3
  <2>5. all * (both * PRECISION) = (all * both) * PRECISION
    BY <1>2, <1>3, <2>2
  <2>6. all * both \in Nat
    BY <1>3, <2>2, ProductNatural
  <2>. QED  BY <2>4, <2>5, <2>6 DEF w
<1>. HIDE DEF both, z
<1>9. low < d + 1 + z + 1
  <2>. DEFINE x == all * each  y == (d + 1) * PRECISION  w == z * PRECISION  k == d + 1 + z + 1
  <2>1. x \in Int /\ y \in Int /\ w \in Int /\ k \in Int /\ k * PRECISION = y + w + PRECISION
    <3>1. ((d + 1) + z + 1) * PRECISION = (d + 1) * PRECISION + z * PRECISION + PRECISION
      BY <1>2, <1>8
    <3>. QED  BY <1>2, <1>3, <1>8, <3>1
  <2>2. rooms <= x /\ stock < y /\ x <= w
    BY <1>2, <1>3, <1>8
  <2>. HIDE DEF x, y, w, k
  <2>3. low * PRECISION < k * PRECISION
    <3>. DEFINE v == low * PRECISION
    <3>1. v <= stock + rooms + PRECISION /\ v \in Int
      BY <1>2, <1>4
    <3>. HIDE DEF v
    <3>2. v < k * PRECISION
      BY <1>2, <2>1, <2>2, <3>1
    <3>. QED  BY <3>2 DEF v
  <2>4. low < k
    <3>1. SUFFICES ASSUME k <= low PROVE FALSE
      BY <1>2, <2>1
    <3>2. k * PRECISION <= low * PRECISION
      BY <1>2, <2>1, <3>1
    <3>3. k * PRECISION \in Int /\ low * PRECISION \in Int
      BY <1>2, <2>1
    <3>. QED  BY <2>3, <3>2, <3>3
  <2>. QED  BY <2>4 DEF k
<1>. QED
  BY <1>2, <1>6, <1>8, <1>9 DEF z, both

\* Withdrawals never take the deposits below what the average of the last day demands, but for
\* what the users who are exempt took: whatever the users, the amounts, the rates, the fees, the
\* precisions and the guard are.
THEOREM FloorHoldsAlways == Spec => []FloorHolds
<1>1. Init => SynthInv /\ FloorInv
  BY InitSynthInv, InitFloorInv
<1>2. SynthInv /\ FloorInv /\ [Next]_vars => (SynthInv /\ FloorInv)'
  BY StepKeepsSynthInv, StepKeepsFloorInv
<1>3. SynthInv /\ FloorInv => FloorHolds
  BY FlooredHolds
<1>. QED
  BY <1>1, <1>2, <1>3, PTL DEF Spec

-----------------------------------------------------------------------------
(* What rounding takes from the vault *)

\* Products of unknowns, in the forms that the arithmetic below needs
LEMMA TimesKeepsOrder ==
  ASSUME NEW a \in Nat, NEW b \in Int, NEW c \in Int, b <= c
  PROVE  a * b \in Int /\ a * c \in Int /\ a * b <= a * c
OBVIOUS

LEMMA TimesReflectsOrder ==
  ASSUME NEW a \in Nat \ {0}, NEW b \in Int, NEW c \in Int, a * b <= a * c
  PROVE  b <= c
OBVIOUS

LEMMA ThreeFactors ==
  ASSUME NEW a \in Nat, NEW b \in Nat, NEW c \in Nat
  PROVE  a * b * c \in Nat
BY ProductNatural

\* The depositors' interest, at a rate that the utilization takes a share of, is the borrowers' but
\* for that on one token: with dd the deposits or one, if there are none.
LEMMA LendersEarn ==
  ASSUME NEW one \in Nat \ {0}, NEW two \in Nat \ {0}, NEW id \in Nat, NEW ib \in Nat, NEW B \in Nat, NEW dd \in Nat,
         NEW rate \in Nat, NEW util \in Nat, NEW dr \in Nat, NEW all \in Nat, NEW debt \in Nat,
         two * all <= id * dr, one * dr <= rate * util, dd * util <= B * one, ib * rate <= two * debt
  PROVE  ib * dd * all <= id * B * debt
<1>. DEFINE x1 == one * dd * ib  x2 == id * dd * ib  x3 == id * ib * rate  x4 == id * B * one  x == two * one
            left == ib * dd * all  right == id * B * debt
<1>1. x1 \in Nat /\ x2 \in Nat /\ x3 \in Nat /\ x4 \in Nat /\ left \in Nat /\ right \in Nat
  BY ThreeFactors
<1>2. x \in Nat \ {0}
  OBVIOUS
<1>3. x * left = x1 * (two * all)
  OBVIOUS
<1>4. x1 * (id * dr) = x2 * (one * dr)
  OBVIOUS
<1>5. x2 * (rate * util) = x3 * (dd * util)
  OBVIOUS
<1>6. x3 * (B * one) = x4 * (ib * rate)
  OBVIOUS
<1>7. x4 * (two * debt) = x * right
  OBVIOUS
<1>8. /\ two * all \in Int /\ id * dr \in Int /\ one * dr \in Int /\ rate * util \in Int /\ dd * util \in Int
      /\ B * one \in Int /\ ib * rate \in Int /\ two * debt \in Int
  OBVIOUS
<1>. DEFINE a1 == two * all  a2 == id * dr  b1 == one * dr  b2 == rate * util  c1 == dd * util  c2 == B * one
            d1 == ib * rate  d2 == two * debt
<1>9. a1 <= a2 /\ b1 <= b2 /\ c1 <= c2 /\ d1 <= d2
  OBVIOUS
<1>. HIDE DEF x1, x2, x3, x4, x, left, right, a1, a2, b1, b2, c1, c2, d1, d2
<1>10. x1 * a1 <= x1 * a2 /\ x1 * a1 \in Int /\ x1 * a2 \in Int
  BY <1>1, <1>8, <1>9, TimesKeepsOrder DEF a1, a2
<1>11. x2 * b1 <= x2 * b2 /\ x2 * b1 \in Int /\ x2 * b2 \in Int
  BY <1>1, <1>8, <1>9, TimesKeepsOrder DEF b1, b2
<1>12. x3 * c1 <= x3 * c2 /\ x3 * c1 \in Int /\ x3 * c2 \in Int
  BY <1>1, <1>8, <1>9, TimesKeepsOrder DEF c1, c2
<1>13. x4 * d1 <= x4 * d2 /\ x4 * d1 \in Int /\ x4 * d2 \in Int
  BY <1>1, <1>8, <1>9, TimesKeepsOrder DEF d1, d2
<1>14. /\ x * left = x1 * a1 /\ x1 * a2 = x2 * b1 /\ x2 * b2 = x3 * c1 /\ x3 * c2 = x4 * d1
       /\ x4 * d2 = x * right
  BY <1>3, <1>4, <1>5, <1>6, <1>7 DEF a1, a2, b1, b2, c1, c2, d1, d2
<1>15. x * left <= x * right
  <2>. DEFINE p0 == x * left  p1 == x1 * a2  p2 == x2 * b2  p3 == x3 * c2  p4 == x * right
  <2>1. p0 <= p1 /\ p1 <= p2 /\ p2 <= p3 /\ p3 <= p4
        /\ p0 \in Int /\ p1 \in Int /\ p2 \in Int /\ p3 \in Int /\ p4 \in Int
    BY <1>10, <1>11, <1>12, <1>13, <1>14
  <2>. HIDE DEF p0, p1, p2, p3, p4
  <2>2. p0 <= p4
    BY <2>1
  <2>. QED  BY <2>2 DEF p0, p4
<1>16. left <= right
  BY <1>1, <1>2, <1>15, TimesReflectsOrder
<1>. QED
  BY <1>16 DEF left, right

\* What interest adds to the worth of the deposits, less what it adds to that of the debts
LEMMA InterestGap ==
  ASSUME NEW P \in Nat \ {0}, NEW td \in Nat, NEW tb \in Nat, NEW id \in Nat, NEW ib \in Nat, NEW B \in Nat,
         NEW D \in Nat, NEW dd \in Nat, NEW all \in Nat, NEW debt \in Nat,
         B >= 1, dd = D \/ (D = 0 /\ dd = 1), td * id <= (D + 1) * P, (B - 1) * P <= tb * ib,
         ib * dd * all <= id * B * debt
  PROVE  ib * dd * (td * all - tb * debt) <= P * debt * (D + B)
<1>. DEFINE bd == B * debt  e == dd * debt  held == td * id  owed == tb * ib
            lent == td * all  due == tb * debt  y == ib * dd
            h == (D + 1) * P  o == (B - 1) * P
<1>1. /\ bd \in Nat /\ e \in Nat /\ held \in Nat /\ owed \in Nat /\ lent \in Nat /\ due \in Nat /\ y \in Nat
      /\ h \in Int /\ o \in Int
  BY ProductNatural
<1>2. y * lent <= bd * held
  <2>. DEFINE u == ib * dd * all  v == id * B * debt
  <2>1. u \in Int /\ v \in Int /\ u <= v
    BY ThreeFactors
  <2>2. y * lent = td * u /\ bd * held = td * v
    OBVIOUS
  <2>. HIDE DEF u, v, y, lent, bd, held
  <2>. QED  BY <2>1, <2>2, TimesKeepsOrder
<1>3. y * due = e * owed
  OBVIOUS
<1>4. bd * h - e * o <= P * debt * (D + B)
  <2>. DEFINE g == P * debt  k == B * (D + 1) - dd * (B - 1)
  <2>1. g \in Nat
    BY ProductNatural
  <2>2. bd * h - e * o = g * k
    OBVIOUS
  <2>3. k <= D + B /\ k \in Int
    <3>1. CASE dd = D
      <4>1. k = B + D
        BY <3>1
      <4>. QED  BY <4>1
    <3>2. CASE D = 0 /\ dd = 1
      <4>1. k = 1
        BY <3>2
      <4>. QED  BY <3>2, <4>1
    <3>. QED  BY <3>1, <3>2
  <2>. HIDE DEF g, k
  <2>4. g * k <= g * (D + B)
    BY <2>1, <2>3, TimesKeepsOrder
  <2>. QED  BY <2>2, <2>4 DEF g
<1>5. y * (lent - due) = y * lent - y * due
  <2>. HIDE DEF y, lent, due
  <2>. QED  BY <1>1
<1>6. held <= h /\ o <= owed
  OBVIOUS
<1>. HIDE DEF bd, e, held, owed, lent, due, y, h, o
<1>. DEFINE q == P * debt * (D + B)
<1>7. q \in Int
  <2>1. P * debt \in Nat
    BY ProductNatural
  <2>. HIDE DEF q
  <2>. QED  BY <2>1 DEF q
<1>8. bd * held <= bd * h /\ e * o <= e * owed
      /\ bd * held \in Int /\ bd * h \in Int /\ e * o \in Int /\ e * owed \in Int
  BY <1>1, <1>6, TimesKeepsOrder
<1>9. y * lent \in Int /\ y * due \in Int
  BY <1>1
<1>10. y * lent - y * due <= q
  <2>. DEFINE z1 == y * lent  z2 == y * due  z3 == bd * held  z4 == bd * h  z5 == e * o  z6 == e * owed
  <2>1. /\ z1 \in Int /\ z2 \in Int /\ z3 \in Int /\ z4 \in Int /\ z5 \in Int /\ z6 \in Int
        /\ z1 <= z3 /\ z3 <= z4 /\ z5 <= z6 /\ z2 = z6 /\ z4 - z5 <= q
    BY <1>2, <1>3, <1>4, <1>8, <1>9
  <2>. HIDE DEF z1, z2, z3, z4, z5, z6, q
  <2>2. z1 - z2 <= q
    BY <1>7, <2>1
  <2>. QED  BY <2>2 DEF z1, z2
<1>. QED
  BY <1>5, <1>10 DEF y, lent, due, q

\* What the deposits are worth beyond the debts, in parts of a token
Owed(m) == m.total["Deposit"] * m.interest["Deposit"] - m.total["Borrow"] * m.interest["Borrow"]

\* A quotient rounded up covers its dividend.
LEMMA CeilingBounds ==
  ASSUME NEW x \in Nat, NEW d \in Nat \ {0}
  PROVE  CeilDiv(x, d) \in Nat /\ x <= CeilDiv(x, d) * d /\ CeilDiv(x, d) * d <= x + d - 1
<1>. DEFINE y == x + d - 1
<1>1. y \in Nat /\ CeilDiv(x, d) = y \div d
  BY DEF CeilDiv
<1>. HIDE DEF y
<1>2. y \div d \in Nat /\ (y \div d) * d <= y /\ y < (y \div d) * d + d
  BY <1>1, QuotientBounds
<1>. DEFINE z == (y \div d) * d
<1>3. z \in Int
  BY <1>2
<1>4. z <= y /\ y < z + d
  BY <1>2
<1>. HIDE DEF z
<1>5. x <= z /\ z <= x + d - 1
  BY <1>3, <1>4 DEF y
<1>. QED
  BY <1>1, <1>2, <1>5 DEF z

\* Deposits and debts in tokens are worth what they are in parts of a token, up to one each.
LEMMA AmountBounds ==
  ASSUME NEW m, IsMarket(m)
  PROVE  /\ Deposits(m) \in Nat /\ Borrows(m) \in Nat /\ PRECISION \in Nat \ {0}
         /\ m.total["Deposit"] * m.interest["Deposit"] \in Nat /\ m.total["Borrow"] * m.interest["Borrow"] \in Nat
         /\ PRECISION * Deposits(m) <= m.total["Deposit"] * m.interest["Deposit"]
         /\ m.total["Deposit"] * m.interest["Deposit"] <= PRECISION * Deposits(m) + PRECISION - 1
         /\ m.total["Borrow"] * m.interest["Borrow"] <= PRECISION * Borrows(m)
         /\ PRECISION * Borrows(m) <= m.total["Borrow"] * m.interest["Borrow"] + PRECISION - 1
<1>. DEFINE x == m.total["Deposit"] * m.interest["Deposit"]  y == m.total["Borrow"] * m.interest["Borrow"]
<1>1. x \in Nat /\ y \in Nat /\ PRECISION \in Nat \ {0}
  <2>1. /\ m.total["Deposit"] \in Nat /\ m.interest["Deposit"] \in Nat
        /\ m.total["Borrow"] \in Nat /\ m.interest["Borrow"] \in Nat
    BY DEF IsMarket
  <2>. QED  BY <2>1, SynthBalancesAssumption, ProductNatural
<1>2. Deposits(m) = x \div PRECISION /\ Borrows(m) = CeilDiv(y, PRECISION)
  BY DEF Deposits, Borrows, TokenAmount
<1>. HIDE DEF x, y
<1>3. /\ Deposits(m) \in Nat /\ Deposits(m) * PRECISION <= x /\ x < Deposits(m) * PRECISION + PRECISION
  BY <1>1, <1>2, QuotientBounds
<1>4. /\ Borrows(m) \in Nat /\ y <= Borrows(m) * PRECISION /\ Borrows(m) * PRECISION <= y + PRECISION - 1
  BY <1>1, <1>2, CeilingBounds
<1>5. Deposits(m) * PRECISION = PRECISION * Deposits(m) /\ Borrows(m) * PRECISION = PRECISION * Borrows(m)
      /\ PRECISION * Deposits(m) \in Int /\ PRECISION * Borrows(m) \in Int
  BY <1>1, <1>3, <1>4
<1>. DEFINE d == PRECISION * Deposits(m)
<1>6. x <= d + PRECISION - 1
  <2>1. d \in Int /\ x < d + PRECISION
    BY <1>3, <1>5
  <2>. HIDE DEF d
  <2>. QED  BY <1>1, <2>1
<1>. QED
  BY <1>1, <1>3, <1>4, <1>5, <1>6 DEF x, y

\* The depositors' claim in tokens is what is owed in parts of a token, but for both roundings.
LEMMA ClaimBounds ==
  ASSUME NEW m, IsMarket(m)
  PROVE  /\ Owed(m) \in Int /\ DepositorsClaim(m) \in Int
         /\ PRECISION * DepositorsClaim(m) <= Owed(m)
         /\ Owed(m) <= PRECISION * DepositorsClaim(m) + 2 * (PRECISION - 1)
<1>. DEFINE x == m.total["Deposit"] * m.interest["Deposit"]  y == m.total["Borrow"] * m.interest["Borrow"]
            d == PRECISION * Deposits(m)  b == PRECISION * Borrows(m)
<1>1. /\ x \in Nat /\ y \in Nat /\ PRECISION \in Nat \ {0} /\ d <= x /\ x <= d + PRECISION - 1
      /\ y <= b /\ b <= y + PRECISION - 1 /\ Deposits(m) \in Nat /\ Borrows(m) \in Nat
  BY AmountBounds
<1>2. /\ Owed(m) = x - y /\ DepositorsClaim(m) = Deposits(m) - Borrows(m)
  BY DEF Owed, DepositorsClaim
<1>3. PRECISION * DepositorsClaim(m) = d - b /\ d \in Int /\ b \in Int
  BY <1>1, <1>2
<1>. HIDE DEF x, y, d, b
<1>4. d - b <= x - y /\ x - y <= (d - b) + 2 * (PRECISION - 1)
  BY <1>1, <1>3
<1>. QED
  BY <1>1, <1>2, <1>3, <1>4

\* A scaled balance is rounded down to its tokens, or up by less than a unit.
LEMMA SpotWorth ==
  ASSUME NEW m, IsMarket(m), NEW side \in Sides, NEW tokens \in Nat, NEW up \in BOOLEAN
  PROVE  /\ SpotBalance(m, side, tokens, up) \in Nat /\ m.interest[side] \in Nat \ {0}
         /\ PRECISION * tokens \in Nat
         /\ SpotBalance(m, side, tokens, up) * m.interest[side] <= PRECISION * tokens + m.interest[side]
         /\ SpotBalance(m, side, tokens, FALSE) * m.interest[side] <= PRECISION * tokens
<1>. DEFINE i == m.interest[side]  x == tokens * PRECISION  k == x \div i  y == SpotBalance(m, side, tokens, up)
<1>1. i \in Nat \ {0} /\ x \in Nat /\ x = PRECISION * tokens
  BY SynthBalancesAssumption, ProductNatural DEF IsMarket
<1>2. y \in {k, k + 1} /\ SpotBalance(m, side, tokens, FALSE) = k
  BY DEF SpotBalance
<1>. HIDE DEF i, x, y
<1>3. k \in Nat /\ k * i <= x
  BY <1>1, QuotientBounds
<1>. HIDE DEF k
<1>. DEFINE p == k * i
<1>4. p \in Int /\ (k + 1) * i = p + i
  BY <1>1, <1>3
<1>5. y * i \in {p, p + i} /\ p <= x
  BY <1>2, <1>3, <1>4
<1>. HIDE DEF p
<1>6. y * i <= x + i
  BY <1>1, <1>4, <1>5
<1>. QED
  BY <1>1, <1>2, <1>3, <1>6, ScaledNatural DEF i, x, y, k

\* A deposit that adds to a deposit adds no more than its tokens.
LEMMA AddedOwed ==
  ASSUME NEW m, IsMarket(m), NEW b, IsBalance(b), NEW tokens \in Nat,
         NEW r, Increasing(r, m, b, "Deposit", SpotBalance(m, "Deposit", tokens, FALSE))
  PROVE  /\ IsMarket(r.market) /\ r.market.interest = m.interest
         /\ Owed(r.market) <= Owed(m) + PRECISION * tokens
<1>. DEFINE n == r.market  delta == SpotBalance(m, "Deposit", tokens, FALSE)
            td == m.total["Deposit"]  id == m.interest["Deposit"]  owed == m.total["Borrow"] * m.interest["Borrow"]
<1>0. "Deposit" \in Sides /\ FALSE \in BOOLEAN
  OBVIOUS
<1>1. /\ delta \in Nat /\ delta * id <= PRECISION * tokens /\ PRECISION * tokens \in Nat
  BY <1>0, SpotWorth
<1>2. /\ IsMarket(n) /\ SameOtherwise(m, n) /\ n.total["Deposit"] = td + delta
      /\ n.total["Borrow"] = m.total["Borrow"]
  <2>1. Increasing(r, m, b, "Deposit", delta)
    OBVIOUS
  <2>. HIDE DEF delta
  <2>2. "Borrow" \in Sides /\ "Borrow" # "Deposit"
    OBVIOUS
  <2>. QED  BY <1>0, <1>1, <2>1, <2>2, IncreaseEffect
<1>3. n.interest = m.interest
  BY <1>2 DEF SameOtherwise
<1>4. td \in Nat /\ id \in Nat /\ owed \in Nat
  <2>1. td \in Nat /\ id \in Nat /\ m.total["Borrow"] \in Nat /\ m.interest["Borrow"] \in Nat
    BY DEF IsMarket
  <2>. QED  BY <2>1, ProductNatural
<1>5. Owed(n) = (td + delta) * id - owed /\ Owed(m) = td * id - owed
  BY <1>2, <1>3 DEF Owed
<1>6. (td + delta) * id = td * id + delta * id /\ td * id \in Nat /\ delta * id \in Nat
  <2>. HIDE DEF td, id, delta
  <2>. QED  BY <1>1, <1>4
<1>. DEFINE w == td * id  g == delta * id  t == PRECISION * tokens
<1>7. w \in Nat /\ g \in Nat /\ g <= t /\ t \in Nat /\ Owed(n) = (w + g) - owed /\ Owed(m) = w - owed
  BY <1>1, <1>5, <1>6
<1>. HIDE DEF n, w, g, t, owed
<1>8. Owed(n) <= Owed(m) + t
  BY <1>4, <1>7
<1>. QED
  BY <1>2, <1>3, <1>8 DEF n, t

\* Taking a debt off for tokens takes no more than these are worth, but for a unit of it.
LEMMA RepaidScaled ==
  ASSUME NEW m, IsMarket(m), NEW b, IsBalance(b), b.type = "Borrow", NEW tokens \in Nat,
         NEW leaving \in BOOLEAN, NEW taken, taken = Reduction(m, b, tokens, leaving)
  PROVE  /\ taken.scaled \in Nat /\ taken.tokens \in Nat /\ tokens - taken.tokens \in Nat
         /\ taken.scaled * m.interest["Borrow"] <= PRECISION * taken.tokens + m.interest["Borrow"]
<1>. DEFINE current == TokensOf(m, b)  roundUp == leaving \/ b.type = "Borrow"
            scaled == SpotBalance(m, b.type, tokens, roundUp)  ib == m.interest["Borrow"]
<1>1. b.scaled \in Nat /\ ib \in Nat \ {0} /\ PRECISION \in Nat \ {0}
  BY SynthBalancesAssumption, BalanceTyped DEF IsMarket
<1>2. /\ current \in Nat /\ b.scaled * ib <= current * PRECISION
  <2>1. b.scaled * ib \in Nat
    BY <1>1, ProductNatural
  <2>2. current = CeilDiv(b.scaled * ib, PRECISION)
    BY DEF TokensOf, TokenAmount
  <2>. DEFINE x == b.scaled * ib
  <2>. HIDE DEF x, current
  <2>. QED  BY <1>1, <2>1, <2>2, CeilingBounds DEF x
<1>3. scaled \in Nat /\ scaled * ib <= PRECISION * tokens + ib
  <2>1. roundUp \in BOOLEAN /\ b.type \in Sides
    OBVIOUS
  <2>. HIDE DEF roundUp
  <2>. QED  BY <2>1, SpotWorth
<1>4. taken = CASE current = 0 -> [tokens |-> 0, scaled |-> 0]
                [] current > tokens -> [tokens |-> tokens, scaled |-> scaled]
                [] OTHER -> [tokens |-> current, scaled |-> b.scaled]
  BY DEF Reduction
<1>5. current * PRECISION = PRECISION * current /\ PRECISION * current \in Int
  BY <1>1, <1>2
<1>. HIDE DEF current, scaled, ib
<1>6. \/ taken.tokens = 0 /\ taken.scaled = 0
      \/ taken.tokens = tokens /\ taken.scaled = scaled
      \/ taken.tokens = current /\ taken.scaled = b.scaled /\ current <= tokens
  BY <1>2, <1>4
<1>. DEFINE P == PRECISION
<1>7. CASE taken.tokens = 0 /\ taken.scaled = 0
  <2>1. 0 * ib = 0 /\ P * 0 = 0
    BY <1>1
  <2>2. taken.scaled * ib <= P * taken.tokens + ib
    BY <1>1, <1>7, <2>1
  <2>. QED  BY <1>7, <2>2 DEF ib
<1>8. CASE taken.tokens = tokens /\ taken.scaled = scaled
  <2>1. taken.scaled * ib <= P * taken.tokens + ib
    BY <1>3, <1>8 DEF ib
  <2>. QED  BY <1>3, <1>8, <2>1 DEF ib
<1>9. CASE taken.tokens = current /\ taken.scaled = b.scaled /\ current <= tokens
  <2>1. b.scaled * ib <= P * current + ib
    <3>. DEFINE x == b.scaled * ib  y == P * current
    <3>1. x \in Int /\ y \in Int /\ x <= y
      BY <1>1, <1>2, <1>5
    <3>. HIDE DEF x, y
    <3>2. x <= y + ib
      BY <1>1, <3>1
    <3>. QED  BY <3>2 DEF x, y
  <2>2. taken.scaled * ib <= P * taken.tokens + ib
    BY <1>9, <2>1
  <2>3. tokens - taken.tokens \in Nat
    BY <1>2, <1>9
  <2>. QED  BY <1>1, <1>2, <1>9, <2>2, <2>3 DEF ib
<1>. QED
  BY <1>6, <1>7, <1>8, <1>9

\* Repaying and depositing tokens promises no more than these, but for a unit of a debt.
LEMMA UpdateOwed ==
  ASSUME NEW m, IsMarket(m), NEW b, IsBalance(b), NEW tokens \in Nat,
         NEW leaving \in BOOLEAN, NEW q \in UpdateBalances(m, b, "Deposit", tokens, leaving)
  PROVE  /\ IsMarket(q.market) /\ q.market.interest = m.interest
         /\ Owed(q.market) <= Owed(m) + PRECISION * tokens + m.interest["Borrow"]
         /\ b.type = "Deposit" => Owed(q.market) <= Owed(m) + PRECISION * tokens
<1>. DEFINE ib == m.interest["Borrow"]  t == PRECISION * tokens
<1>0. "Deposit" \in Sides /\ "Borrow" \in Sides /\ FALSE \in BOOLEAN
  OBVIOUS
<1>1. ib \in Nat \ {0} /\ PRECISION \in Nat \ {0} /\ t \in Nat /\ Owed(m) \in Int
  <2>1. ib \in Nat \ {0} /\ PRECISION \in Nat \ {0}
    BY SynthBalancesAssumption DEF IsMarket
  <2>. QED  BY <2>1, ProductNatural, ClaimBounds
<1>2. IsMarket(q.market) /\ q.market.interest = m.interest /\ Owed(q.market) \in Int
  <2>1. Effect(m, b, q)
    BY <1>0, UpdateEffect
  <2>. QED  BY <2>1, ClaimBounds DEF Effect, SameOtherwise
<1>3. CASE b.type = "Deposit"
  <2>1. Increasing(q, m, b, "Deposit", SpotBalance(m, "Deposit", tokens, FALSE))
    BY <1>3 DEF UpdateBalances, Increasing
  <2>2. Owed(q.market) <= Owed(m) + t
    BY <2>1, AddedOwed
  <2>. HIDE DEF t
  <2>3. Owed(q.market) <= Owed(m) + t + ib
    BY <1>1, <1>2, <2>2
  <2>. QED  BY <1>2, <1>3, <2>2, <2>3 DEF t
<1>4. CASE b.type # "Deposit"
  <2>. DEFINE taken == Reduction(m, b, tokens, leaving)  left == tokens - taken.tokens
              reduced == Decreased(m, b, taken.scaled)
  <2>1. b.type = "Borrow" /\ b.scaled \in Nat
    BY <1>4, BalanceTyped
  <2>2. /\ taken.scaled \in Nat /\ taken.tokens \in Nat /\ left \in Nat
        /\ taken.scaled * ib <= PRECISION * taken.tokens + ib
    BY <2>1, RepaidScaled
  <2>3. /\ q = TakenFrom(m, b, "Deposit", tokens, taken)
        /\ taken.scaled <= Smaller(b.scaled, m.total["Borrow"])
    BY <2>1 DEF UpdateBalances
  <2>4. taken.scaled <= b.scaled /\ taken.scaled <= m.total["Borrow"] /\ m.total["Borrow"] \in Nat
    <3>1. m.total["Borrow"] \in Nat
      BY DEF IsMarket
    <3>. HIDE DEF taken
    <3>. QED  BY <2>1, <2>2, <2>3, <3>1 DEF Smaller
  <2>5. q = IF left = 0 THEN reduced
            ELSE Increased(reduced.market, reduced.balance, "Deposit", SpotBalance(m, "Deposit", left, FALSE))
    BY <2>3 DEF TakenFrom
  <2>6. Decreasing(reduced, m, b, taken.scaled)
    BY DEF Decreasing
  <2>. HIDE DEF taken, left, reduced
  <2>. DEFINE n == reduced.market
  <2>7. /\ IsMarket(n) /\ SameOtherwise(m, n) /\ IsBalance(reduced.balance)
        /\ n.total["Borrow"] = m.total["Borrow"] - taken.scaled /\ n.total["Deposit"] = m.total["Deposit"]
    <3>1. "Deposit" # "Borrow"
      OBVIOUS
    <3>. QED  BY <1>0, <2>1, <2>2, <2>4, <2>6, <3>1, DecreaseEffect DEF Kept, IsBalance
  <2>8. n.interest = m.interest
    BY <2>7 DEF SameOtherwise
  <2>9. Owed(n) = Owed(m) + taken.scaled * ib /\ Owed(n) \in Int /\ taken.scaled * ib \in Int
    <3>. DEFINE tb == m.total["Borrow"]  s == taken.scaled  w == m.total["Deposit"] * m.interest["Deposit"]
                u == tb * ib  v == s * ib
    <3>1. w \in Nat /\ tb \in Nat /\ s \in Nat
      BY <2>2, <2>4, AmountBounds
    <3>2. Owed(n) = w - (tb - s) * ib /\ Owed(m) = w - u
      BY <2>7, <2>8 DEF Owed
    <3>. HIDE DEF w, tb, s, ib
    <3>3. (tb - s) * ib = u - v /\ u \in Int /\ v \in Int
      BY <1>1, <3>1
    <3>. HIDE DEF u, v
    <3>4. Owed(n) = Owed(m) + v
      BY <3>1, <3>2, <3>3
    <3>. QED  BY <1>1, <3>3, <3>4 DEF v, s
  <2>10. Owed(q.market) <= Owed(n) + PRECISION * left
    <3>1. CASE left = 0
      <4>1. q.market = n /\ PRECISION * left = 0
        BY <1>1, <2>5, <3>1
      <4>. HIDE DEF n
      <4>. QED  BY <2>9, <4>1
    <3>2. CASE left # 0
      <4>1. SpotBalance(m, "Deposit", left, FALSE) = SpotBalance(n, "Deposit", left, FALSE)
        BY <2>8 DEF SpotBalance
      <4>2. Increasing(q, n, reduced.balance, "Deposit", SpotBalance(n, "Deposit", left, FALSE))
        BY <2>5, <3>2, <4>1 DEF Increasing
      <4>. HIDE DEF n
      <4>. QED  BY <2>2, <2>7, <4>2, AddedOwed
    <3>. QED  BY <3>1, <3>2
  <2>11. PRECISION * taken.tokens + PRECISION * left = t
         /\ PRECISION * taken.tokens \in Int /\ PRECISION * left \in Int
    <3>1. tokens = taken.tokens + left
      BY <2>2 DEF left
    <3>2. PRECISION * (taken.tokens + left) = PRECISION * taken.tokens + PRECISION * left
      BY <1>1, <2>2
    <3>. QED  BY <1>1, <2>2, <3>1, <3>2
  <2>. DEFINE x == PRECISION * taken.tokens  y == PRECISION * left  z == taken.scaled * ib
  <2>12. /\ z <= x + ib /\ x + y = t /\ Owed(n) = Owed(m) + z /\ Owed(q.market) <= Owed(n) + y
         /\ x \in Int /\ y \in Int /\ z \in Int /\ Owed(n) \in Int
    BY <2>2, <2>9, <2>10, <2>11
  <2>. HIDE DEF x, y, z, n, t, ib
  <2>13. Owed(q.market) <= Owed(m) + t + ib
    BY <1>1, <1>2, <2>12
  <2>. QED  BY <1>2, <1>4, <2>13 DEF t, ib
<1>. QED
  BY <1>3, <1>4

\* The utilization is no more than the debts are of the deposits, or of one token if there are none.
LEMMA UtilizationBounds ==
  ASSUME NEW D \in Nat, NEW B \in Nat, NEW util, util = Utilization(D, B), util # 0
  PROVE  util \in Nat /\ B >= 1 /\ Larger(1, D) * util <= B * UTILIZATION_PRECISION
<1>. DEFINE one == UTILIZATION_PRECISION  x == B * one
<1>1. one \in Nat \ {0}
  BY SynthBalancesAssumption
<1>2. x \in Nat /\ (B = 0 => x = 0)
  BY <1>1, ProductNatural
<1>3. util \in Nat
  BY UtilizationTyped
<1>4. CASE D # 0
  <2>1. util = x \div D /\ Larger(1, D) = D
    BY <1>4 DEF Utilization, Larger
  <2>. HIDE DEF x
  <2>2. (x \div D) * D <= x /\ x \div D \in Nat /\ D \in Nat \ {0}
    BY <1>2, <1>4, QuotientBounds
  <2>3. util * D = D * util
    BY <1>3
  <2>4. B >= 1
    <3>1. SUFFICES ASSUME B = 0 PROVE FALSE
      OBVIOUS
    <3>2. x = 0
      BY <1>2, <3>1
    <3>3. 0 \div D = 0
      BY <2>2
    <3>. QED  BY <2>1, <3>2, <3>3
  <2>. QED  BY <1>3, <2>1, <2>2, <2>3, <2>4 DEF x
<1>5. CASE D = 0
  <2>1. util = one /\ B # 0 /\ Larger(1, D) = 1
    BY <1>5 DEF Utilization, Larger
  <2>2. 1 * one <= B * one
    BY <1>1, <2>1
  <2>. QED  BY <1>3, <2>1, <2>2
<1>. QED
  BY <1>4, <1>5

\* What interest the lenders are to have, and the borrowers to pay
LEMMA AccumulatedBounds ==
  ASSUME NEW m, IsMarket(m), NEW rate \in Nat, NEW t, NEW a, a = AccumulatedInterest(m, rate, t), a["Deposit"] # 0
  PROVE  /\ Borrows(m) >= 1
         /\ m.interest["Borrow"] * Larger(1, Deposits(m)) * a["Deposit"]
               <= m.interest["Deposit"] * Borrows(m) * a["Borrow"]
<1>. DEFINE D == Deposits(m)  B == Borrows(m)  util == Utilization(D, B)  dd == Larger(1, D)
            one == UTILIZATION_PRECISION  two == RATE_PRECISION  id == m.interest["Deposit"]  ib == m.interest["Borrow"]
            x == rate * util  dr == x \div one  y == id * dr  z == ib * rate  all == y \div two  due == z \div two
<1>1. /\ D \in Nat /\ B \in Nat /\ one \in Nat \ {0} /\ two \in Nat \ {0} /\ id \in Nat /\ ib \in Nat
  BY SynthBalancesAssumption, AmountsTyped DEF IsMarket
<1>2. a = IF t <= m.lastInterest \/ util = 0 THEN [Deposit |-> 0, Borrow |-> 0]
          ELSE [Deposit |-> all, Borrow |-> due + 1]
  BY DEF AccumulatedInterest
<1>. HIDE DEF D, B, one, two, id, ib
<1>3. util # 0 /\ a["Deposit"] = all /\ a["Borrow"] = due + 1
  <2>. HIDE DEF util, all, due
  <2>. QED  BY <1>2
<1>4. util \in Nat /\ B >= 1 /\ dd * util <= B * one
  <2>. HIDE DEF util
  <2>1. util = Utilization(D, B)
    BY DEF util
  <2>. QED  BY <1>1, <1>3, <2>1, UtilizationBounds DEF one
<1>5. dd \in Nat
  BY <1>1 DEF Larger
<1>. HIDE DEF util, dd
<1>6. x \in Nat
  BY <1>4, ProductNatural
<1>. HIDE DEF x
<1>7. dr \in Nat /\ dr * one <= x
  BY <1>1, <1>6, QuotientBounds
<1>. HIDE DEF dr
<1>8. y \in Nat /\ z \in Nat
  BY <1>1, <1>7, ProductNatural
<1>. HIDE DEF y, z
<1>9. all \in Nat /\ all * two <= y /\ due \in Nat /\ z < due * two + two
  BY <1>1, <1>8, QuotientBounds
<1>. HIDE DEF all, due
<1>. DEFINE debt == due + 1
<1>10. /\ one * dr = dr * one /\ two * all = all * two /\ two * debt = due * two + two /\ debt \in Nat
  BY <1>1, <1>7, <1>9
<1>11. /\ two * all <= id * dr /\ one * dr <= rate * util
  BY <1>7, <1>9, <1>10 DEF x, y
<1>12. ib * rate <= two * debt
  <2>. DEFINE w == due * two
  <2>1. w \in Int /\ z < w + two
    BY <1>1, <1>9
  <2>. HIDE DEF w
  <2>2. z <= w + two
    BY <1>1, <1>8, <2>1
  <2>. QED  BY <1>10, <2>2 DEF w, z
<1>. HIDE DEF debt
<1>13. ib * dd * all <= id * B * debt
  BY <1>1, <1>4, <1>5, <1>7, <1>9, <1>10, <1>11, <1>12, LendersEarn
<1>. QED
  BY <1>3, <1>4, <1>13 DEF D, B, ib, id, dd, debt

\* The revenue pool's gain promises no more than its tokens.
LEMMA PoolOwed ==
  ASSUME NEW m, IsMarket(m), NEW tokens \in Nat, NEW n \in RevenuePoolUpdated(m, "Deposit", tokens)
  PROVE  IsMarket(n) /\ n.interest = m.interest /\ Owed(n) <= Owed(m) + PRECISION * tokens
<1>1. PICK q \in UpdateBalances(m, m.revenuePool, "Deposit", tokens, FALSE) :
          n = [q.market EXCEPT !.revenuePool = q.balance]
  BY DEF RevenuePoolUpdated
<1>2. m.revenuePool \in BareType /\ IsBalance(m.revenuePool) /\ m.revenuePool.type = "Deposit"
  BY DEF IsMarket, PoolType, BareType, IsBalance
<1>3. /\ IsMarket(q.market) /\ q.market.interest = m.interest
      /\ Owed(q.market) <= Owed(m) + PRECISION * tokens
  <2>1. FALSE \in BOOLEAN
    OBVIOUS
  <2>. QED  BY <1>2, <2>1, UpdateOwed
<1>4. n.total = q.market.total /\ n.interest = q.market.interest
  BY <1>1, <1>3 DEF IsMarket, Fields
<1>5. Owed(n) = Owed(q.market)
  BY <1>4 DEF Owed
<1>. QED
  BY <1>3, <1>4, <1>5, PoolGain

\* n has the interest of m and what has come up since, which promises no more than the borrowers
\* owe, but for the interest on one token.
Earned(m, n) ==
    /\ IsMarket(n) /\ n.interest["Borrow"] - m.interest["Borrow"] \in Nat
    /\ (m.interest["Borrow"] * Larger(1, Deposits(m))) * (Owed(n) - Owed(m))
          <= PRECISION * (n.interest["Borrow"] - m.interest["Borrow"]) * (Deposits(m) + Borrows(m))

\* A market whose interest is up to date
LEMMA NothingEarned ==
  ASSUME NEW m, IsMarket(m), NEW n, IsMarket(n), n.total = m.total, n.interest = m.interest
  PROVE  Earned(m, n)
<1>. DEFINE ib == m.interest["Borrow"]  y == ib * Larger(1, Deposits(m))  k == n.interest["Borrow"] - ib
            s == Deposits(m) + Borrows(m)
<1>1. ib \in Nat /\ Deposits(m) \in Nat /\ Borrows(m) \in Nat /\ PRECISION \in Nat /\ Owed(m) \in Int
  BY SynthBalancesAssumption, AmountsTyped, ClaimBounds DEF IsMarket
<1>2. k = 0 /\ Owed(n) - Owed(m) = 0
  BY <1>1 DEF Owed
<1>3. y \in Nat /\ s \in Nat
  <2>1. Larger(1, Deposits(m)) \in Nat
    BY <1>1 DEF Larger
  <2>. QED  BY <1>1, <2>1, ProductNatural
<1>. HIDE DEF y, k, s
<1>4. y * 0 <= PRECISION * 0 * s
  BY <1>1, <1>3
<1>5. y * (Owed(n) - Owed(m)) <= PRECISION * k * s /\ k \in Nat
  BY <1>2, <1>4
<1>. QED
  BY <1>5 DEF Earned, y, k, s

\* With the stakers' part paid into the revenue pool, the interest is still covered by the borrowers'.
LEMMA InterestOwed ==
  ASSUME NEW m, IsMarket(m), NEW P \in Positions, Balanced(m, P), NEW rate \in Nat, NEW t,
         NEW n \in InterestPaid(m, AccumulatedInterest(m, rate, t), TotalFactor, t)
  PROVE  Earned(m, n)
<1>. DEFINE accumulated == AccumulatedInterest(m, rate, t)
            all == accumulated["Deposit"]  debt == accumulated["Borrow"]
            stakers == (all * TotalFactor) \div IF_FACTOR_PRECISION
            lenders == all - stakers
            raised == [m EXCEPT !.interest["Deposit"] = @ + lenders, !.interest["Borrow"] = @ + debt,
                                !.lastInterest = t]
            td == m.total["Deposit"]  tb == m.total["Borrow"]
            id == m.interest["Deposit"]  ib == m.interest["Borrow"]
            gained == td * stakers  gain == gained \div PRECISION
            D == Deposits(m)  B == Borrows(m)  dd == Larger(1, D)
<1>1. all \in Nat /\ debt \in Nat
  BY InterestTyped
<1>2. /\ TotalFactor \in Nat /\ IF_FACTOR_PRECISION \in Nat \ {0} /\ TotalFactor <= IF_FACTOR_PRECISION
      /\ PRECISION \in Nat \ {0} /\ td \in Nat /\ tb \in Nat /\ id \in Nat /\ ib \in Nat
  BY SynthBalancesAssumption, SynthMarketsAssumption DEF IsMarket
<1>3. stakers \in Nat /\ lenders \in Nat /\ stakers + lenders = all
  <2>. HIDE DEF all
  <2>1. all * TotalFactor \in Nat /\ all * TotalFactor <= all * IF_FACTOR_PRECISION
    BY <1>1, <1>2
  <2>2. stakers \in Nat /\ stakers <= all
    BY <1>1, <1>2, <2>1
  <2>. QED  BY <1>1, <2>2
<1>4. all # 0 => B >= 1 /\ ib * dd * all <= id * B * debt
  BY AccumulatedBounds
<1>5. n = m \/ (all # 0 /\ n \in RevenuePoolUpdated(raised, "Deposit", gain))
  BY DEF InterestPaid
<1>6. IsMarket(raised)
  <2>. HIDE DEF lenders, debt
  <2>. QED  BY <1>1, <1>3, InterestRaised
<1>7. /\ raised.total["Deposit"] = td /\ raised.total["Borrow"] = tb
      /\ raised.interest["Deposit"] = id + lenders /\ raised.interest["Borrow"] = ib + debt
  <2>. HIDE DEF lenders, debt
  <2>. QED  BY DEF IsMarket, Fields
<1>. HIDE DEF raised, stakers, lenders, all, debt, td, tb, id, ib
<1>8. gained \in Nat /\ gain \in Nat /\ PRECISION * gain <= gained
  <2>1. gained \in Nat
    BY <1>2, <1>3, ProductNatural
  <2>. HIDE DEF gained
  <2>2. gain \in Nat /\ gain * PRECISION <= gained
    BY <1>2, <2>1, QuotientBounds
  <2>3. gain * PRECISION = PRECISION * gain
    BY <1>2, <2>2
  <2>. QED  BY <2>1, <2>2, <2>3
<1>. HIDE DEF gain
<1>9. CASE n = m
  BY <1>9, NothingEarned
<1>10. CASE all # 0 /\ n \in RevenuePoolUpdated(raised, "Deposit", gain)
  <2>1. IsMarket(n) /\ n.interest = raised.interest /\ Owed(n) <= Owed(raised) + PRECISION * gain
    BY <1>6, <1>8, <1>10, PoolOwed
  <2>2. Owed(raised) = td * (id + lenders) - tb * (ib + debt) /\ Owed(m) = td * id - tb * ib
    BY <1>7 DEF Owed, td, tb, id, ib
  <2>. DEFINE w == td * id  v == tb * ib  l == td * lenders  e == tb * debt  h == td * all  o == PRECISION * gain
  <2>3. /\ td * (id + lenders) = w + l /\ tb * (ib + debt) = v + e
        /\ w \in Nat /\ v \in Nat /\ l \in Nat /\ e \in Nat
    BY <1>1, <1>2, <1>3
  <2>4. h = gained + l
    <3>1. td * (stakers + lenders) = td * stakers + td * lenders
      BY <1>2, <1>3
    <3>. QED  BY <1>3, <3>1 DEF gained
  <2>5. o \in Nat /\ o <= gained
    BY <1>2, <1>8
  <2>6. Owed(n) \in Int
    BY <2>1, ClaimBounds
  <2>7. Owed(n) - Owed(m) <= h - e /\ Owed(m) \in Int /\ h \in Int
    <3>1. Owed(n) <= ((w + l) - (v + e)) + o /\ Owed(m) = w - v
      BY <2>1, <2>2, <2>3
    <3>. HIDE DEF w, v, l, e, h, o
    <3>. QED  BY <1>8, <2>3, <2>4, <2>5, <2>6, <3>1
  <2>8. /\ D \in Nat /\ B \in Nat /\ dd \in Nat /\ (dd = D \/ (D = 0 /\ dd = 1))
        /\ w <= (D + 1) * PRECISION /\ (B - 1) * PRECISION <= v
    <3>1. /\ D \in Nat /\ B \in Nat /\ w <= PRECISION * D + PRECISION - 1 /\ PRECISION * B <= v + PRECISION - 1
      BY AmountBounds DEF td, tb, id, ib
    <3>. HIDE DEF D, B
    <3>2. dd \in Nat /\ (dd = D \/ (D = 0 /\ dd = 1))
      BY <3>1 DEF Larger
    <3>. DEFINE x == PRECISION * D  y == PRECISION * B
    <3>3. /\ (D + 1) * PRECISION = x + PRECISION /\ (B - 1) * PRECISION = y - PRECISION
          /\ x \in Int /\ y \in Int
      BY <1>2, <3>1
    <3>4. w <= x + PRECISION /\ y - PRECISION <= v
      <4>1. w <= x + PRECISION - 1 /\ y <= v + PRECISION - 1
        BY <3>1
      <4>. HIDE DEF x, y, w, v
      <4>. QED  BY <1>2, <2>3, <3>3, <4>1
    <3>. QED  BY <3>1, <3>2, <3>3, <3>4
  <2>. HIDE DEF D, B, dd
  <2>9. ib * dd * (h - e) <= PRECISION * debt * (D + B)
    BY <1>1, <1>2, <1>4, <1>10, <2>8, InterestGap
  <2>. DEFINE y == ib * dd  g == Owed(n) - Owed(m)  k == n.interest["Borrow"] - m.interest["Borrow"]
  <2>10. y \in Nat
    BY <1>2, <2>8, ProductNatural
  <2>11. y * g <= y * (h - e) /\ y * g \in Int /\ y * (h - e) \in Int
    <3>. HIDE DEF y, h, e
    <3>1. g \in Int /\ h - e \in Int /\ g <= h - e
      BY <2>3, <2>6, <2>7
    <3>. HIDE DEF g
    <3>. QED  BY <2>10, <3>1, TimesKeepsOrder
  <2>12. k = debt
    BY <1>1, <1>2, <1>7, <2>1 DEF ib
  <2>. DEFINE q == PRECISION * debt * (D + B)
  <2>13. q \in Int
    <3>1. PRECISION * debt \in Nat
      BY <1>1, <1>2, ProductNatural
    <3>. QED  BY <2>8, <3>1
  <2>14. y * g <= q
    <3>1. y * (h - e) <= q
      BY <2>9
    <3>. DEFINE z1 == y * g  z2 == y * (h - e)
    <3>2. z1 <= z2 /\ z1 \in Int /\ z2 \in Int /\ z2 <= q
      BY <2>11, <3>1
    <3>. HIDE DEF z1, z2, q
    <3>3. z1 <= q
      BY <2>13, <3>2
    <3>. QED  BY <3>3 DEF z1
  <2>. HIDE DEF k
  <2>15. k \in Nat /\ y * g <= PRECISION * k * (D + B)
    BY <1>1, <2>12, <2>14
  <2>. QED  BY <2>1, <2>15 DEF Earned, y, g, k, D, B, dd, ib
<1>. QED
  BY <1>5, <1>9, <1>10

\* What a call finds after the interest has been brought up to date
LEMMA RefreshedOwed ==
  ASSUME IsMarket(market), NEW P \in Positions, Balanced(market, P), NEW rate \in Nat, NEW m \in Refreshed(rate)
  PROVE  Earned(market, m)
<1>1. PICK n : /\ m = TwapsUpdated(n, now)
               /\ n = market \/ n \in InterestPaid(market, AccumulatedInterest(market, rate, now), TotalFactor, now)
  BY DEF Refreshed, CumulativeInterestUpdated
<1>2. Earned(market, n)
  <2>1. CASE n = market
    BY <2>1, NothingEarned
  <2>2. CASE n \in InterestPaid(market, AccumulatedInterest(market, rate, now), TotalFactor, now)
    BY <2>2, InterestOwed
  <2>. QED  BY <1>1, <2>1, <2>2
<1>3. IsMarket(n)
  BY <1>2 DEF Earned
<1>4. m.total = n.total /\ m.interest = n.interest
  BY <1>1, <1>3 DEF TwapsUpdated, IsMarket, Fields
<1>5. IsMarket(m)
  BY RefreshedEffect
<1>. QED
  BY <1>2, <1>4, <1>5 DEF Earned, Owed

\* What the debts' interest came up by in a step, and what that leaves to rounding
DustStep ==
    /\ market'.interest["Borrow"] - market.interest["Borrow"] \in Nat
    /\ PRECISION * (Shortage' - Shortage) <= 2 * (PRECISION - 1) + market'.interest["Borrow"] + InterestOnOne

\* The interest on one token is rounded up: it bounds each gap that it covers multiplied out.
LEMMA InterestOnOneBounds ==
  ASSUME IsMarket(market), NEW k \in Nat, market'.interest["Borrow"] = market.interest["Borrow"] + k
  PROVE  /\ InterestOnOne \in Nat
         /\ \A gap \in Int :
               (market.interest["Borrow"] * Larger(1, Deposits(market))) * gap
                    <= PRECISION * k * (Deposits(market) + Borrows(market))
               => gap <= InterestOnOne
<1>. DEFINE ib == market.interest["Borrow"]  s == Deposits(market) + Borrows(market)
            y == ib * Larger(1, Deposits(market))  x == PRECISION * k * s
<1>1. ib \in Nat \ {0} /\ Deposits(market) \in Nat /\ Borrows(market) \in Nat /\ PRECISION \in Nat
  BY SynthBalancesAssumption, AmountsTyped DEF IsMarket
<1>2. market'.interest["Borrow"] - ib = k
  BY <1>1
<1>3. InterestOnOne = CeilDiv(x, y)
  BY <1>2 DEF InterestOnOne
<1>4. y \in Nat \ {0}
  <2>1. Larger(1, Deposits(market)) \in Nat \ {0}
    BY <1>1 DEF Larger
  <2>. QED  BY <1>1, <2>1
<1>5. x \in Nat
  BY <1>1, ThreeFactors
<1>6. ASSUME NEW gap \in Int, y * gap <= x PROVE gap <= CeilDiv(x, y)
  <2>. HIDE DEF x, y
  <2>1. CeilDiv(x, y) \in Nat /\ x <= CeilDiv(x, y) * y
    BY <1>4, <1>5, CeilingBounds
  <2>. DEFINE c == CeilDiv(x, y)
  <2>2. y * c = c * y /\ y * c \in Int /\ y * gap \in Int
    BY <1>4, <2>1
  <2>. HIDE DEF c
  <2>3. y * gap <= y * c
    BY <1>5, <1>6, <2>1, <2>2 DEF c
  <2>. QED  BY <1>4, <2>1, <2>3, TimesReflectsOrder DEF c
<1>7. CeilDiv(x, y) \in Nat
  <2>. HIDE DEF x, y
  <2>. QED  BY <1>4, <1>5, CeilingBounds
<1>. HIDE DEF x, y
<1>. QED
  BY <1>3, <1>6, <1>7 DEF x, y, ib, s

\* A call after which the vault covers the claims
LEMMA CoveredIsDust ==
  ASSUME IsMarket(market), IsMarket(market)', vault \in Int,
         market'.interest["Borrow"] - market.interest["Borrow"] \in Nat, DepositorsClaim(market') <= vault', vault' \in Int
  PROVE  DustStep
<1>. DEFINE k == market'.interest["Borrow"] - market.interest["Borrow"]
<1>1. /\ market.interest["Borrow"] \in Nat /\ market'.interest["Borrow"] \in Nat /\ PRECISION \in Nat \ {0}
      /\ DepositorsClaim(market) \in Int /\ DepositorsClaim(market') \in Int
  <2>1. market.interest["Borrow"] \in Nat /\ PRECISION \in Nat \ {0} /\ DepositorsClaim(market) \in Int
    BY SynthBalancesAssumption, ClaimBounds DEF IsMarket
  <2>2. IsMarket(market')
    BY DEF IsMarket
  <2>3. market'.interest["Borrow"] \in Nat /\ DepositorsClaim(market') \in Int
    BY <2>2, ClaimBounds DEF IsMarket
  <2>. QED  BY <2>1, <2>3
<1>2. InterestOnOne \in Nat
  <2>1. k \in Nat /\ market'.interest["Borrow"] = market.interest["Borrow"] + k
    BY <1>1
  <2>. HIDE DEF k
  <2>. QED  BY <2>1, InterestOnOneBounds
<1>3. Shortage' = 0 /\ Shortage \in Nat
  BY <1>1 DEF Shortage, Larger
<1>4. PRECISION * (Shortage' - Shortage) <= 0
  BY <1>1, <1>3
<1>. DEFINE z == PRECISION * (Shortage' - Shortage)
<1>5. z \in Int
  BY <1>1, <1>3
<1>. HIDE DEF z
<1>6. z <= 2 * (PRECISION - 1) + market'.interest["Borrow"] + InterestOnOne
  BY <1>1, <1>2, <1>4, <1>5 DEF z
<1>. QED
  BY <1>6 DEF DustStep, z

\* A shortage that starts at nothing grows no faster than what is owed.
LEMMA ShortageGrows ==
  ASSUME NEW P \in Nat \ {0}, NEW c \in Int, NEW v \in Int, NEW cc \in Int, NEW vv \in Int, NEW e \in Nat,
         P * cc - P * vv <= (P * c - P * v) + e
  PROVE  P * (Larger(0, cc - vv) - Larger(0, c - v)) <= e
<1>. DEFINE x == cc - vv  y == c - v
<1>1. x \in Int /\ y \in Int /\ P * x = P * cc - P * vv /\ P * y = P * c - P * v
  OBVIOUS
<1>2. P * x \in Int /\ P * y \in Int /\ P * x <= P * y + e
  BY <1>1
<1>. HIDE DEF x, y
<1>3. Larger(0, x) = (IF x <= 0 THEN 0 ELSE x) /\ Larger(0, y) = (IF y <= 0 THEN 0 ELSE y)
  BY <1>1 DEF Larger
<1>4. CASE x <= 0
  <2>1. Larger(0, x) - Larger(0, y) \in Int /\ Larger(0, x) - Larger(0, y) <= 0
    BY <1>1, <1>3, <1>4
  <2>. QED  BY <2>1 DEF x, y
<1>5. CASE x > 0 /\ y <= 0
  <2>1. P * y <= 0
    BY <1>1, <1>5
  <2>2. Larger(0, x) - Larger(0, y) = x
    BY <1>1, <1>3, <1>5
  <2>3. P * x <= e
    BY <1>2, <2>1
  <2>. QED  BY <2>2, <2>3 DEF x, y
<1>6. CASE x > 0 /\ y > 0
  <2>1. Larger(0, x) - Larger(0, y) = x - y
    BY <1>1, <1>3, <1>6
  <2>2. P * (x - y) = P * x - P * y
    BY <1>1
  <2>3. P * (x - y) <= e
    BY <1>2, <2>2
  <2>. QED  BY <2>1, <2>3 DEF x, y
<1>. QED
  BY <1>1, <1>4, <1>5, <1>6

\* A call after which more is owed than before by the tokens that came, a unit of a debt and
\* the interest on one token.
LEMMA RoundedIsDust ==
  ASSUME IsMarket(market), IsMarket(market)', vault \in Int, vault' \in Int,
         market'.interest["Borrow"] - market.interest["Borrow"] \in Nat, NEW gap \in Int, gap <= InterestOnOne,
         Owed(market') <= Owed(market) + gap + PRECISION * (vault' - vault) + market'.interest["Borrow"]
  PROVE  DustStep
<1>. DEFINE k == market'.interest["Borrow"] - market.interest["Borrow"]
            c == DepositorsClaim(market)  cc == DepositorsClaim(market')
            e == 2 * (PRECISION - 1) + market'.interest["Borrow"] + InterestOnOne
<1>0. IsMarket(market')
  BY DEF IsMarket
<1>1. /\ market.interest["Borrow"] \in Nat /\ market'.interest["Borrow"] \in Nat /\ PRECISION \in Nat \ {0}
  BY <1>0, SynthBalancesAssumption DEF IsMarket
<1>2. InterestOnOne \in Nat
  <2>1. k \in Nat /\ market'.interest["Borrow"] = market.interest["Borrow"] + k
    BY <1>1
  <2>. HIDE DEF k
  <2>. QED  BY <2>1, InterestOnOneBounds
<1>3. /\ c \in Int /\ cc \in Int /\ Owed(market) \in Int /\ Owed(market') \in Int
      /\ PRECISION * cc <= Owed(market')
      /\ Owed(market) <= PRECISION * c + 2 * (PRECISION - 1)
  BY <1>0, ClaimBounds
<1>4. e \in Nat
  BY <1>1, <1>2
<1>5. Shortage = Larger(0, c - vault) /\ Shortage' = Larger(0, cc - vault')
  BY DEF Shortage, DepositorsClaim, Deposits, Borrows, TokenAmount
<1>6. PRECISION * cc - PRECISION * vault' <= (PRECISION * c - PRECISION * vault) + e
  <2>. DEFINE p == PRECISION * cc  q == PRECISION * c  a == PRECISION * vault  b == PRECISION * vault'
              d == PRECISION * (vault' - vault)
  <2>1. p \in Int /\ q \in Int /\ a \in Int /\ b \in Int /\ d = b - a
    BY <1>1, <1>3
  <2>2. /\ p <= Owed(market') /\ Owed(market) <= q + 2 * (PRECISION - 1)
        /\ Owed(market') <= Owed(market) + gap + d + market'.interest["Borrow"]
    BY <1>3
  <2>. HIDE DEF p, q, a, b, d
  <2>3. p - b <= (q - a) + (2 * (PRECISION - 1) + market'.interest["Borrow"] + InterestOnOne)
    BY <1>1, <1>2, <1>3, <2>1, <2>2
  <2>. QED  BY <2>3 DEF p, q, a, b
<1>. HIDE DEF c, cc, e
<1>7. PRECISION * (Larger(0, cc - vault') - Larger(0, c - vault)) <= e
  BY <1>1, <1>3, <1>4, <1>6, ShortageGrows
<1>. QED
  BY <1>5, <1>7 DEF DustStep, e

\* Without a change of the balances, the interest or the vault nothing is lost.
LEMMA SameIsDust ==
  ASSUME IsMarket(market), IsMarket(market)', vault \in Int, vault' = vault,
         market'.total = market.total, market'.interest = market.interest
  PROVE  DustStep
<1>1. /\ market.interest["Borrow"] \in Nat /\ PRECISION \in Nat /\ Owed(market) \in Int
  BY SynthBalancesAssumption, ClaimBounds DEF IsMarket
<1>2. InterestOnOne \in Nat
  <2>. DEFINE none == 0
  <2>1. none \in Nat /\ market'.interest["Borrow"] = market.interest["Borrow"] + none
    BY <1>1
  <2>. HIDE DEF none
  <2>. QED  BY <2>1, InterestOnOneBounds
<1>3. Owed(market') = Owed(market)
  BY DEF Owed
<1>4. PRECISION * (vault' - vault) = 0
  BY <1>1
<1>5. Owed(market') <= Owed(market) + 0 + PRECISION * (vault' - vault) + market'.interest["Borrow"]
  BY <1>1, <1>3, <1>4
<1>6. market'.interest["Borrow"] - market.interest["Borrow"] \in Nat /\ 0 \in Int /\ 0 <= InterestOnOne
  BY <1>1, <1>2
<1>7. vault' \in Int
  OBVIOUS
<1>. QED
  BY <1>5, <1>6, <1>7, RoundedIsDust

\* What the refreshed market promises beyond the market is the interest on one token at most.
LEMMA RefreshedGap ==
  ASSUME IsMarket(market), NEW m, Earned(market, m), market'.interest["Borrow"] = m.interest["Borrow"]
  PROVE  /\ market'.interest["Borrow"] - market.interest["Borrow"] \in Nat
         /\ Owed(m) - Owed(market) \in Int /\ Owed(m) - Owed(market) <= InterestOnOne
<1>. DEFINE k == m.interest["Borrow"] - market.interest["Borrow"]  gap == Owed(m) - Owed(market)
            y == market.interest["Borrow"] * Larger(1, Deposits(market))
<1>1. /\ k \in Nat /\ IsMarket(m) /\ y * gap <= PRECISION * k * (Deposits(market) + Borrows(market))
  BY DEF Earned
<1>2. gap \in Int /\ market.interest["Borrow"] \in Nat /\ m.interest["Borrow"] \in Nat
  BY <1>1, ClaimBounds DEF IsMarket
<1>3. market'.interest["Borrow"] = market.interest["Borrow"] + k
  BY <1>2
<1>. HIDE DEF gap, k
<1>4. gap <= InterestOnOne
  BY <1>1, <1>2, <1>3, InterestOnOneBounds
<1>5. market'.interest["Borrow"] - market.interest["Borrow"] \in Nat
  BY <1>1, <1>2 DEF k
<1>. QED
  BY <1>2, <1>4, <1>5 DEF gap

\* A deposit is not checked against the vault: the bound is what it promises.
LEMMA DepositIsDust ==
  ASSUME SynthInv, vault \in Int, NEW u \in Users, NEW amount \in Amounts, NEW rate \in Rates,
         NEW reduceOnly \in BOOLEAN, DepositCollateral(u, amount, reduceOnly, rate)
  PROVE  vault' \in Int /\ DustStep
<1>0. amount \in Nat /\ rate \in Nat
  BY SynthMarketsAssumption
<1>1. PICK m \in Refreshed(rate) :
        \E tokens \in {Smaller(TokensOf(m, positions[u]), amount), amount} :
        \E r \in PositionUpdated(m, positions[u], "Deposit", tokens, FALSE, tokens) :
           market' = r.market /\ vault' = vault + tokens
  BY DEF DepositCollateral
<1>2. PICK tokens \in {Smaller(TokensOf(m, positions[u]), amount), amount} :
        \E r \in PositionUpdated(m, positions[u], "Deposit", tokens, FALSE, tokens) :
           market' = r.market /\ vault' = vault + tokens
  BY <1>1
<1>3. PICK r \in PositionUpdated(m, positions[u], "Deposit", tokens, FALSE, tokens) :
           market' = r.market /\ vault' = vault + tokens
  BY <1>2
<1>4. /\ IsMarket(m) /\ positions[u] \in PositionType /\ Earned(market, m) /\ IsMarket(market)
      /\ Owed(market) \in Int /\ Owed(m) \in Int
  <2>1. IsMarket(m) /\ Earned(market, m) /\ IsMarket(market) /\ positions \in Positions
    BY <1>0, RefreshedEffect, RefreshedOwed DEF SynthInv
  <2>. QED  BY <2>1, ClaimBounds DEF Positions
<1>5. tokens \in Nat /\ tokens \in Int
  <2>1. TokensOf(m, positions[u]) \in Nat
    <3>1. positions[u].type \in Sides /\ positions[u].scaled \in Nat
      BY <1>4 DEF PositionType
    <3>. QED  BY <1>4, <3>1, TokensNatural DEF TokensOf
  <2>. QED  BY <1>0, <2>1 DEF Smaller
<1>. DEFINE side == "Deposit"  leaving == FALSE
<1>6. side \in Sides /\ leaving \in BOOLEAN
  OBVIOUS
<1>7. r.market.interest = m.interest /\ \E q \in UpdateBalances(m, positions[u], side, tokens, leaving) : r.market = q.market
  <2>1. r \in PositionUpdated(m, positions[u], side, tokens, leaving, tokens)
    OBVIOUS
  <2>. HIDE DEF side, leaving
  <2>. QED  BY <1>4, <1>5, <1>6, <2>1, PositionMoves
<1>8. PICK q \in UpdateBalances(m, positions[u], side, tokens, leaving) : r.market = q.market
  BY <1>7
<1>9. Owed(q.market) <= Owed(m) + PRECISION * tokens + m.interest["Borrow"] /\ IsMarket(q.market)
  <2>1. IsBalance(positions[u])
    BY <1>4 DEF IsBalance
  <2>2. q \in UpdateBalances(m, positions[u], "Deposit", tokens, leaving)
    OBVIOUS
  <2>. HIDE DEF side, leaving
  <2>. QED  BY <1>4, <1>5, <1>6, <2>1, <2>2, UpdateOwed
<1>10. /\ market'.interest["Borrow"] - market.interest["Borrow"] \in Nat
       /\ Owed(m) - Owed(market) \in Int /\ Owed(m) - Owed(market) <= InterestOnOne
  BY <1>3, <1>4, <1>7, RefreshedGap
<1>11. IsMarket(market)'
  BY <1>3, <1>8, <1>9 DEF IsMarket
<1>. DEFINE gap == Owed(m) - Owed(market)
<1>12. Owed(market') <= Owed(market) + gap + PRECISION * (vault' - vault) + market'.interest["Borrow"]
  <2>1. vault' - vault = tokens
    BY <1>3, <1>5
  <2>2. Owed(market) + gap = Owed(m)
    BY <1>4
  <2>3. market' = q.market /\ market'.interest["Borrow"] = m.interest["Borrow"]
    BY <1>3, <1>7, <1>8
  <2>. QED  BY <1>9, <2>1, <2>2, <2>3
<1>. HIDE DEF gap
<1>13. vault' \in Int
  BY <1>3, <1>5
<1>. QED
  BY <1>4, <1>10, <1>11, <1>12, <1>13, RoundedIsDust DEF gap

\* The calls that end with validate_spot_market_vault_amount
LEMMA WithdrawIsDust ==
  ASSUME SynthInv, vault \in Int, NEW u \in Users, NEW amount \in Amounts, NEW rate \in Rates, NEW fee \in Fees,
         NEW reduceOnly \in BOOLEAN, WithdrawCollateral(u, amount, reduceOnly, fee, rate)
  PROVE  vault' \in Int /\ DustStep
<1>0. amount \in Nat /\ rate \in Nat /\ fee \in Nat
  BY SynthMarketsAssumption
<1>1. PICK m \in Refreshed(rate) :
        \E tokens \in {Smaller(amount, TokensOf(m, positions[u])) - fee, amount - fee} :
           /\ tokens >= 0 /\ vault' = vault - tokens
           /\ \E charged \in FeeCharged(m, positions[u], fee) :
              \E r \in PositionUpdated(charged.market, charged.balance, "Borrow", tokens, TRUE, tokens) :
                 market' = r.market /\ VaultCovers(r.market, vault - tokens)
  BY DEF WithdrawCollateral
<1>2. PICK tokens \in {Smaller(amount, TokensOf(m, positions[u])) - fee, amount - fee} :
           /\ tokens >= 0 /\ vault' = vault - tokens
           /\ \E charged \in FeeCharged(m, positions[u], fee) :
              \E r \in PositionUpdated(charged.market, charged.balance, "Borrow", tokens, TRUE, tokens) :
                 market' = r.market /\ VaultCovers(r.market, vault - tokens)
  BY <1>1
<1>3. PICK charged \in FeeCharged(m, positions[u], fee) :
              \E r \in PositionUpdated(charged.market, charged.balance, "Borrow", tokens, TRUE, tokens) :
                 market' = r.market /\ VaultCovers(r.market, vault - tokens)
  BY <1>2
<1>4. PICK r \in PositionUpdated(charged.market, charged.balance, "Borrow", tokens, TRUE, tokens) :
                 market' = r.market /\ VaultCovers(r.market, vault - tokens)
  BY <1>3
<1>5. /\ IsMarket(m) /\ positions[u] \in PositionType /\ Earned(market, m) /\ IsMarket(market)
  <2>1. IsMarket(m) /\ Earned(market, m) /\ IsMarket(market) /\ positions \in Positions
    BY <1>0, RefreshedEffect, RefreshedOwed DEF SynthInv
  <2>. QED  BY <2>1 DEF Positions
<1>6. tokens \in Nat /\ tokens \in Int
  <2>1. TokensOf(m, positions[u]) \in Nat
    <3>1. positions[u].type \in Sides /\ positions[u].scaled \in Nat
      BY <1>5 DEF PositionType
    <3>. QED  BY <1>5, <3>1, TokensNatural DEF TokensOf
  <2>. QED  BY <1>0, <1>2, <2>1 DEF Smaller
<1>. DEFINE side == "Borrow"  leaving == TRUE  staying == FALSE  none == 0
<1>7. side \in Sides /\ leaving \in BOOLEAN /\ staying \in BOOLEAN /\ none \in Int
  OBVIOUS
<1>8. IsMarket(charged.market) /\ charged.balance \in PositionType /\ charged.market.interest = m.interest
  <2>1. CASE fee = 0
    <3>1. charged.market = m /\ charged.balance = positions[u]
      BY <2>1 DEF FeeCharged
    <3>. QED  BY <1>5, <3>1
  <2>2. CASE fee # 0
    <3>1. PICK paid \in RevenuePoolUpdated(m, "Deposit", fee) :
            charged \in PositionUpdated(paid, positions[u], side, fee, staying, none)
      BY <2>2 DEF FeeCharged
    <3>2. IsMarket(paid) /\ paid.interest = m.interest
      BY <1>0, <1>5, PoolGain
    <3>. HIDE DEF side, staying, none
    <3>. QED  BY <1>0, <1>5, <1>7, <3>1, <3>2, PositionMoves
  <2>. QED  BY <2>1, <2>2
<1>9. IsMarket(r.market) /\ r.market.interest = charged.market.interest
  <2>1. r \in PositionUpdated(charged.market, charged.balance, side, tokens, leaving, tokens)
    OBVIOUS
  <2>. HIDE DEF side, leaving
  <2>. QED  BY <1>6, <1>7, <1>8, <2>1, PositionMoves
<1>10. market'.interest["Borrow"] - market.interest["Borrow"] \in Nat
  BY <1>4, <1>5, <1>8, <1>9, RefreshedGap
<1>11. IsMarket(market)' /\ vault' \in Int /\ DepositorsClaim(market') <= vault'
  <2>1. IsMarket(market)' /\ vault' \in Int /\ DepositorsClaim(r.market) \in Int
    BY <1>2, <1>4, <1>6, <1>9, ClaimBounds DEF IsMarket
  <2>2. vault - tokens >= DepositorsClaim(r.market)
    BY <1>4 DEF VaultCovers
  <2>. QED  BY <1>2, <1>4, <2>1, <2>2
<1>. QED
  BY <1>5, <1>10, <1>11, CoveredIsDust

LEMMA TransferIsDust ==
  ASSUME SynthInv, vault \in Int, NEW from \in Users, NEW to \in Users, NEW amount \in Amounts, NEW rate \in Rates,
         TransferCollateral(from, to, amount, rate)
  PROVE  vault' \in Int /\ DustStep
<1>0. amount \in Nat /\ amount \in Int /\ rate \in Nat
  BY SynthMarketsAssumption
<1>1. PICK m \in Refreshed(rate) :
        \E taken \in PositionUpdated(m, positions[from], "Borrow", amount, TRUE, amount) :
        \E given \in PositionUpdated(taken.market, positions[to], "Deposit", amount, FALSE, amount) :
           market' = given.market /\ VaultCovers(given.market, vault)
  BY DEF TransferCollateral
<1>2. PICK taken \in PositionUpdated(m, positions[from], "Borrow", amount, TRUE, amount) :
        \E given \in PositionUpdated(taken.market, positions[to], "Deposit", amount, FALSE, amount) :
           market' = given.market /\ VaultCovers(given.market, vault)
  BY <1>1
<1>3. PICK given \in PositionUpdated(taken.market, positions[to], "Deposit", amount, FALSE, amount) :
           market' = given.market /\ VaultCovers(given.market, vault)
  BY <1>2
<1>4. vault' = vault
  BY DEF TransferCollateral
<1>5. /\ IsMarket(m) /\ Earned(market, m) /\ IsMarket(market)
      /\ positions[from] \in PositionType /\ positions[to] \in PositionType
  <2>1. IsMarket(m) /\ Earned(market, m) /\ IsMarket(market) /\ positions \in Positions
    BY <1>0, RefreshedEffect, RefreshedOwed DEF SynthInv
  <2>. QED  BY <2>1 DEF Positions
<1>. DEFINE out == "Borrow"  in == "Deposit"  leaving == TRUE  staying == FALSE
<1>6. out \in Sides /\ in \in Sides /\ leaving \in BOOLEAN /\ staying \in BOOLEAN
  OBVIOUS
<1>7. IsMarket(taken.market) /\ taken.market.interest = m.interest
  <2>1. taken \in PositionUpdated(m, positions[from], out, amount, leaving, amount)
    OBVIOUS
  <2>. HIDE DEF out, leaving
  <2>. QED  BY <1>0, <1>5, <1>6, <2>1, PositionMoves
<1>8. IsMarket(given.market) /\ given.market.interest = taken.market.interest
  <2>1. given \in PositionUpdated(taken.market, positions[to], in, amount, staying, amount)
    OBVIOUS
  <2>. HIDE DEF in, staying
  <2>. QED  BY <1>0, <1>5, <1>6, <1>7, <2>1, PositionMoves
<1>9. market'.interest["Borrow"] - market.interest["Borrow"] \in Nat
  BY <1>3, <1>5, <1>7, <1>8, RefreshedGap
<1>10. IsMarket(market)' /\ DepositorsClaim(market') <= vault'
  <2>1. IsMarket(market)' /\ DepositorsClaim(given.market) \in Int
    BY <1>3, <1>8, ClaimBounds DEF IsMarket
  <2>2. vault >= DepositorsClaim(given.market)
    BY <1>3 DEF VaultCovers
  <2>. QED  BY <1>3, <1>4, <2>1, <2>2
<1>. QED
  BY <1>4, <1>5, <1>9, <1>10, CoveredIsDust

LEMMA DonationIsDust ==
  ASSUME SynthInv, vault \in Int, NEW amount \in Donations, DepositIntoVault(amount)
  PROVE  vault' \in Int /\ DustStep
<1>0. amount \in Nat /\ IsMarket(market)
  BY SynthMarketsAssumption DEF SynthInv
<1>1. SynthInv'
  BY DonationStep
<1>2. PICK raised : /\ market' = [market EXCEPT !.interest["Deposit"] = raised]
                    /\ VaultCovers(market', vault + amount) /\ vault' = vault + amount
  BY DEF DepositIntoVault
<1>3. vault' \in Int /\ IsMarket(market)' /\ IsMarket(market')
  BY <1>0, <1>1, <1>2 DEF SynthInv, IsMarket
<1>4. market'.interest["Borrow"] = market.interest["Borrow"] /\ market.interest["Borrow"] \in Nat
  <2>1. market.interest \in [Sides -> Nat \ {0}] /\ DOMAIN market = Fields
    BY <1>0 DEF IsMarket
  <2>2. market'.interest = [market.interest EXCEPT !["Deposit"] = raised]
    BY <1>2, <2>1 DEF Fields
  <2>. QED  BY <2>1, <2>2
<1>5. market'.interest["Borrow"] - market.interest["Borrow"] \in Nat
  BY <1>4
<1>6. DepositorsClaim(market') <= vault'
  <2>1. DepositorsClaim(market') \in Int
    BY <1>3, ClaimBounds
  <2>. QED  BY <1>2, <2>1 DEF VaultCovers
<1>. QED
  BY <1>0, <1>3, <1>5, <1>6, CoveredIsDust

LEMMA StepIsDust == SynthInv /\ vault \in Int /\ [Next]_vars => vault' \in Int /\ (DustStep \/ UNCHANGED vars)
<1>. SUFFICES ASSUME SynthInv, vault \in Int, [Next]_vars PROVE vault' \in Int /\ (DustStep \/ UNCHANGED vars)
  OBVIOUS
<1>0. SynthInv' /\ IsMarket(market) /\ IsMarket(market)'
  BY StepKeepsSynthInv DEF SynthInv
<1>1. ASSUME NEW u \in Users, NEW amount \in Amounts, NEW rate \in Rates, NEW reduceOnly \in BOOLEAN,
             DepositCollateral(u, amount, reduceOnly, rate)
      PROVE  vault' \in Int /\ DustStep
  BY <1>1, DepositIsDust
<1>2. ASSUME NEW u \in Users, NEW amount \in Amounts, NEW rate \in Rates, NEW reduceOnly \in BOOLEAN,
             NEW fee \in Fees, WithdrawCollateral(u, amount, reduceOnly, fee, rate)
      PROVE  vault' \in Int /\ DustStep
  BY <1>2, WithdrawIsDust
<1>3. ASSUME NEW u \in Users, NEW amount \in Amounts, NEW rate \in Rates, NEW to \in Users,
             TransferCollateral(u, to, amount, rate)
      PROVE  vault' \in Int /\ DustStep
  BY <1>3, TransferIsDust
<1>4. ASSUME NEW amount \in Donations, DepositIntoVault(amount)
      PROVE  vault' \in Int /\ DustStep
  BY <1>4, DonationIsDust
<1>5. ASSUME NEW state \in MarketStates, SetMarketState(state[1], state[2])
      PROVE  vault' \in Int /\ DustStep
  <2>1. vault' = vault /\ market'.total = market.total /\ market'.interest = market.interest
    BY <1>0, <1>5 DEF SetMarketState, IsMarket, Fields
  <2>. QED  BY <1>0, <2>1, SameIsDust
<1>6. CASE Tick
  <2>1. vault' = vault /\ market'.total = market.total /\ market'.interest = market.interest
    BY <1>6 DEF Tick
  <2>. QED  BY <1>0, <2>1, SameIsDust
<1>7. CASE UNCHANGED vars
  BY <1>7 DEF vars
<1>. QED
  BY <1>1, <1>2, <1>3, <1>4, <1>5, <1>6, <1>7 DEF Next

\* No call leaves the vault short of more than rounding explains: less than a token for each of
\* the two totals, a unit of the debt that is repaid, and the interest on one token, whatever
\* the users, the amounts, the rates, the fees, the precisions and the vault are.
THEOREM ShortageIsDustAlways == Spec => ShortageIsDust
<1>1. Init => SynthInv /\ vault \in Int
  BY InitSynthInv DEF Init
<1>2. SynthInv /\ vault \in Int /\ [Next]_vars => (SynthInv /\ vault \in Int)'
  BY StepKeepsSynthInv, StepIsDust
<1>3. SynthInv /\ vault \in Int /\ [Next]_vars
        => [PRECISION * (Shortage' - Shortage) <= 2 * (PRECISION - 1) + market'.interest["Borrow"] + InterestOnOne]_vars
  BY StepIsDust DEF DustStep
<1>. QED
  BY <1>1, <1>2, <1>3, PTL DEF Spec, ShortageIsDust

HIDE DEF Sides

-----------------------------------------------------------------------------
(* The registry of markets *)

IsOpening(o) == o = [f \in {"initial", "maintenance", "fee", "ifFee"} |-> o[f]]
IsSynthMarket(m) ==
    /\ m = [f \in {"status", "paused", "users", "expiry", "margin"} |-> m[f]]
    /\ IsOpening(m.margin)
    /\ m.margin.maintenance * FEE_TO_MARGIN > m.margin.fee /\ m.margin.initial > m.margin.maintenance

\* The inductive invariant: the accounts are records, and their numbers are those counted.
MarketsInv ==
    /\ numberOfMarkets \in Nat /\ numberOfIndexMarkets \in Nat
    /\ synthMarkets = [i \in 0 .. numberOfMarkets - 1 |-> synthMarkets[i]]
    /\ \A i \in DOMAIN synthMarkets : IsSynthMarket(synthMarkets[i])
    /\ indexMarkets = [i \in DOMAIN indexMarkets |-> indexMarkets[i]]
    /\ IsFiniteSet(DOMAIN indexMarkets)
    /\ Cardinality(DOMAIN indexMarkets) = numberOfIndexMarkets

\* An instance has operators of its own for the size of a set.
LEMMA SameCardinality ==
  ASSUME NEW S
  PROVE  MarketsOf!Cardinality(S) = Cardinality(S) /\ UsersOf!Cardinality(S) = Cardinality(S)
BY DEF MarketsOf!Cardinality, UsersOf!Cardinality, Cardinality

LEMMA InitMarkets == MarketsOf!RegistryInit => MarketsInv
<1>1. 0 .. 0 - 1 = {}
  OBVIOUS
<1>. QED
  BY <1>1, FS_EmptySet DEF MarketsOf!RegistryInit, MarketsInv

\* A handler that replaces the settings of one market by sound ones
LEMMA SetMarketKeeps ==
  ASSUME MarketsInv, NEW i \in DOMAIN synthMarkets, NEW m, IsSynthMarket(m), MarketsOf!SetMarket(i, m)
  PROVE  MarketsInv'
<1>1. /\ synthMarkets' = [synthMarkets EXCEPT ![i] = m]
      /\ UNCHANGED <<indexMarkets, numberOfMarkets, numberOfIndexMarkets>>
  BY DEF MarketsOf!SetMarket
<1>2. /\ DOMAIN synthMarkets' = DOMAIN synthMarkets
      /\ \A j \in DOMAIN synthMarkets : synthMarkets'[j] = IF j = i THEN m ELSE synthMarkets[j]
      /\ synthMarkets' = [j \in DOMAIN synthMarkets |-> synthMarkets'[j]]
  BY <1>1 DEF MarketsInv
<1>. QED
  BY <1>1, <1>2 DEF MarketsInv

LEMMA NextMarkets == MarketsInv /\ [MarketsOf!RegistryNext]_registryVars => MarketsInv'
<1>. SUFFICES ASSUME MarketsInv, [MarketsOf!RegistryNext]_registryVars PROVE MarketsInv'
  OBVIOUS
<1>0. /\ numberOfMarkets \in Nat /\ numberOfIndexMarkets \in Nat
      /\ DOMAIN synthMarkets = 0 .. numberOfMarkets - 1
      /\ \A i \in DOMAIN synthMarkets : IsSynthMarket(synthMarkets[i])
  BY DEF MarketsInv
<1>1. ASSUME NEW active \in BOOLEAN, NEW o \in Openings, MarketsOf!InitializeSynthMarket(active, o)
      PROVE  MarketsInv'
  <2>. DEFINE n == numberOfMarkets
              m == [status |-> MarketsOf!FirstStatus(active), paused |-> {}, users |-> 0, expiry |-> 0, margin |-> o]
  <2>1. IsSynthMarket(m)
    BY <1>1, NormalAssumption DEF MarketsOf!InitializeSynthMarket, MarketsOf!ValidMargin, IsSynthMarket, IsOpening
  <2>. HIDE DEF m
  <2>2. /\ synthMarkets' = [i \in DOMAIN synthMarkets \cup {n} |-> IF i = n THEN m ELSE synthMarkets[i]]
        /\ numberOfMarkets' = n + 1
        /\ UNCHANGED <<indexMarkets, numberOfIndexMarkets>>
    BY <1>1 DEF MarketsOf!InitializeSynthMarket, MarketsOf!Added, m
  <2>3. DOMAIN synthMarkets \cup {n} = 0 .. (n + 1) - 1
    BY <1>0
  <2>. QED  BY <1>0, <2>1, <2>2, <2>3 DEF MarketsInv
<1>2. ASSUME NEW i \in DOMAIN synthMarkets, MarketsOf!DeleteInitializedMarket(i)
      PROVE  MarketsInv'
  <2>1. /\ i = numberOfMarkets - 1
        /\ synthMarkets' = [j \in DOMAIN synthMarkets \ {i} |-> synthMarkets[j]]
        /\ numberOfMarkets' = numberOfMarkets - 1
        /\ UNCHANGED <<indexMarkets, numberOfIndexMarkets>>
    BY <1>2 DEF MarketsOf!DeleteInitializedMarket, MarketsOf!Removed
  <2>2. numberOfMarkets - 1 \in Nat /\ DOMAIN synthMarkets \ {i} = 0 .. (numberOfMarkets - 1) - 1
    BY <1>0, <2>1
  <2>. QED  BY <1>0, <2>1, <2>2 DEF MarketsInv
<1>3. ASSUME NEW i \in DOMAIN synthMarkets, NEW m, MarketsOf!SetMarket(i, m), IsSynthMarket(m)
      PROVE  MarketsInv'
  BY <1>3, SetMarketKeeps
<1>4. ASSUME NEW i \in DOMAIN synthMarkets, NEW status, NEW paused, NEW users_, NEW expiry
      PROVE  LET old == synthMarkets[i]
             IN  /\ IsSynthMarket([old EXCEPT !.status = status])
                 /\ IsSynthMarket([old EXCEPT !.status = status, !.expiry = expiry])
                 /\ IsSynthMarket([old EXCEPT !.status = status, !.expiry = expiry, !.paused = paused])
                 /\ IsSynthMarket([old EXCEPT !.paused = paused])
                 /\ IsSynthMarket([old EXCEPT !.users = users_])
  BY <1>0 DEF IsSynthMarket
<1>5. ASSUME NEW i \in DOMAIN synthMarkets, NEW initial, NEW maintenance,
             MarketsOf!UpdateMarginRatio(i, initial, maintenance)
      PROVE  MarketsInv'
  <2>. DEFINE m == [synthMarkets[i] EXCEPT !.margin.initial = initial, !.margin.maintenance = maintenance]
  <2>0. /\ m = [synthMarkets[i] EXCEPT !.margin = m.margin]
        /\ m.margin = [synthMarkets[i].margin EXCEPT !.initial = initial, !.maintenance = maintenance]
    BY <1>0 DEF IsSynthMarket
  <2>1. IsSynthMarket(m)
    <3>1. /\ maintenance * FEE_TO_MARGIN > synthMarkets[i].margin.fee /\ initial > maintenance
      BY <1>5 DEF MarketsOf!UpdateMarginRatio, MarketsOf!ValidMargin
    <3>. HIDE DEF m
    <3>2. m.margin.initial = initial /\ m.margin.maintenance = maintenance
          /\ m.margin.fee = synthMarkets[i].margin.fee /\ IsOpening(m.margin)
      BY <1>0, <2>0 DEF IsSynthMarket, IsOpening
    <3>. QED  BY <1>0, <2>0, <3>1, <3>2 DEF IsSynthMarket
  <2>2. MarketsOf!SetMarket(i, m)
    BY <1>5 DEF MarketsOf!UpdateMarginRatio
  <2>. QED  BY <1>3, <2>1, <2>2
<1>6. ASSUME NEW i \in DOMAIN synthMarkets, NEW fee, NEW ifFee, MarketsOf!UpdateLiquidationFee(i, fee, ifFee)
      PROVE  MarketsInv'
  <2>. DEFINE m == [synthMarkets[i] EXCEPT !.margin.fee = fee, !.margin.ifFee = ifFee]
  <2>0. /\ m = [synthMarkets[i] EXCEPT !.margin = m.margin]
        /\ m.margin = [synthMarkets[i].margin EXCEPT !.fee = fee, !.ifFee = ifFee]
    BY <1>0 DEF IsSynthMarket
  <2>1. IsSynthMarket(m)
    <3>1. /\ synthMarkets[i].margin.maintenance * FEE_TO_MARGIN > fee
          /\ synthMarkets[i].margin.initial > synthMarkets[i].margin.maintenance
      BY <1>6 DEF MarketsOf!UpdateLiquidationFee, MarketsOf!ValidMargin
    <3>. HIDE DEF m
    <3>2. /\ m.margin.initial = synthMarkets[i].margin.initial
          /\ m.margin.maintenance = synthMarkets[i].margin.maintenance
          /\ m.margin.fee = fee /\ IsOpening(m.margin)
      BY <1>0, <2>0 DEF IsSynthMarket, IsOpening
    <3>. QED  BY <1>0, <2>0, <3>1, <3>2 DEF IsSynthMarket
  <2>2. MarketsOf!SetMarket(i, m)
    BY <1>6 DEF MarketsOf!UpdateLiquidationFee
  <2>. QED  BY <1>3, <2>1, <2>2
<1>7. ASSUME NEW active \in BOOLEAN, MarketsOf!InitializeIndexMarket(active)
      PROVE  MarketsInv'
  <2>. DEFINE m == [status |-> MarketsOf!FirstStatus(active), expiry |-> 0]  n == numberOfMarkets
  <2>1. /\ n \notin DOMAIN indexMarkets
        /\ indexMarkets' = [i \in DOMAIN indexMarkets \cup {n} |-> IF i = n THEN m ELSE indexMarkets[i]]
        /\ numberOfIndexMarkets' = numberOfIndexMarkets + 1
        /\ UNCHANGED <<synthMarkets, numberOfMarkets>>
    BY <1>7 DEF MarketsOf!InitializeIndexMarket, MarketsOf!Added
  <2>. HIDE DEF m
  <2>2. /\ IsFiniteSet(DOMAIN indexMarkets \cup {n})
        /\ Cardinality(DOMAIN indexMarkets \cup {n}) = numberOfIndexMarkets + 1
    BY <2>1, FS_AddElement DEF MarketsInv
  <2>. QED  BY <1>0, <2>1, <2>2 DEF MarketsInv
<1>8. ASSUME NEW i \in DOMAIN indexMarkets, MarketsOf!DeleteInitializedIndexMarket(i)
      PROVE  MarketsInv'
  <2>1. /\ i = numberOfIndexMarkets - 1
        /\ indexMarkets' = [j \in DOMAIN indexMarkets \ {i} |-> indexMarkets[j]]
        /\ numberOfIndexMarkets' = numberOfIndexMarkets - 1
        /\ UNCHANGED <<synthMarkets, numberOfMarkets>>
    BY <1>8 DEF MarketsOf!DeleteInitializedIndexMarket, MarketsOf!Removed
  <2>2. /\ IsFiniteSet(DOMAIN indexMarkets \ {i})
        /\ Cardinality(DOMAIN indexMarkets \ {i}) = numberOfIndexMarkets - 1
        /\ Cardinality(DOMAIN indexMarkets \ {i}) \in Nat
    BY FS_RemoveElement, FS_CardinalityType DEF MarketsInv
  <2>. QED  BY <1>0, <2>1, <2>2 DEF MarketsInv
<1>9. ASSUME NEW i \in DOMAIN indexMarkets, NEW e, MarketsOf!UpdateIndexMarketExpiry(i, e)
      PROVE  MarketsInv'
  <2>1. /\ indexMarkets' = [indexMarkets EXCEPT ![i] = [indexMarkets[i] EXCEPT !.status = "ReduceOnly", !.expiry = e]]
        /\ UNCHANGED <<synthMarkets, numberOfMarkets, numberOfIndexMarkets>>
    BY <1>9 DEF MarketsOf!UpdateIndexMarketExpiry, MarketsOf!SetIndexMarket
  <2>2. DOMAIN indexMarkets' = DOMAIN indexMarkets /\ indexMarkets' = [j \in DOMAIN indexMarkets |-> indexMarkets'[j]]
    BY <2>1 DEF MarketsInv
  <2>. QED  BY <2>1, <2>2 DEF MarketsInv
<1>10. CASE UNCHANGED registryVars \/ MarketsOf!Tick
  BY <1>10 DEF registryVars, MarketsOf!Tick, MarketsInv
<1>11. ASSUME NEW i \in DOMAIN synthMarkets,
              \/ \E s \in MarketsOf!MarketStatuses : MarketsOf!UpdateStatus(i, s)
              \/ \E e \in Expiries : MarketsOf!UpdateExpiry(i, e) \/ MarketsOf!InitializeShutdown(i, e)
              \/ \E p \in Pauses : MarketsOf!UpdatePausedOperations(i, p)
              \/ \E n \in {0, 1} : MarketsOf!UpdateNumberOfUsers(i, n)
              \/ \E r, s \in Ratios : MarketsOf!UpdateMarginRatio(i, r, s)
              \/ \E f \in FeePairs : MarketsOf!UpdateLiquidationFee(i, f[1], f[2])
       PROVE  MarketsInv'
  BY <1>3, <1>4, <1>5, <1>6, <1>11
     DEF MarketsOf!UpdateStatus, MarketsOf!UpdateExpiry, MarketsOf!InitializeShutdown,
         MarketsOf!UpdatePausedOperations, MarketsOf!UpdateNumberOfUsers
<1>. QED
  BY <1>1, <1>2, <1>7, <1>8, <1>9, <1>10, <1>11 DEF MarketsOf!RegistryNext, registryVars

LEMMA MarketsConsistent == MarketsInv => MarketsOf!RegistryConsistent
<1>. SUFFICES ASSUME MarketsInv PROVE MarketsOf!RegistryConsistent
  OBVIOUS
<1>1. MarketsOf!MarketsDense /\ MarketsOf!IndexMarketsCounted
  <2>1. DOMAIN synthMarkets = 0 .. numberOfMarkets - 1
    BY DEF MarketsInv
  <2>2. Cardinality(DOMAIN indexMarkets) = numberOfIndexMarkets
    BY DEF MarketsInv
  <2>. QED  BY <2>1, <2>2, SameCardinality DEF MarketsOf!MarketsDense, MarketsOf!IndexMarketsCounted
<1>2. MarketsOf!MarginsSound
  BY DEF MarketsInv, IsSynthMarket, MarketsOf!MarginsSound
<1>. QED
  BY <1>1, <1>2 DEF MarketsOf!RegistryConsistent

-----------------------------------------------------------------------------
(* The registry of users *)

SubAccounts(owned, a) == {u \in owned : u[1] = a}

\* The statistics of an authority a are a record that fits the accounts there are: the number
\* of its own, numbers not given yet, and the account of its referrer.
StatsFit(stats, owned, a) ==
    LET s == stats[a]
    IN  /\ s = [f \in {"number", "created", "isReferrer", "referrer"} |-> s[f]]
        /\ s.created \in Nat
        /\ s.number = Cardinality(SubAccounts(owned, a))
        /\ s.referrer # NoReferrer =>
              /\ s.created > 0
              /\ s.referrer \in DOMAIN stats /\ stats[s.referrer].isReferrer
              /\ <<s.referrer, 0>> \in owned

\* An account is that of an authority, and has a number that the authority has given.
OwnedFit(stats, owned) ==
    /\ IsFiniteSet(owned)
    /\ \A u \in owned : /\ u = <<u[1], u[2]>> /\ u[1] \in DOMAIN stats
                        /\ u[2] \in Nat /\ u[2] < stats[u[1]].created

NoCircle(stats) ==
    \A C \in SUBSET DOMAIN stats :
        (\A a \in C : stats[a].referrer # NoReferrer /\ stats[a].referrer \in C) => C = {}

RegisteredFit(stats, owned) ==
    /\ stats = [a \in DOMAIN stats |-> stats[a]] /\ IsFiniteSet(DOMAIN stats)
    /\ \A a \in DOMAIN stats : StatsFit(stats, owned, a)
    /\ OwnedFit(stats, owned)
    /\ NoCircle(stats)

\* The inductive invariant
UsersInv ==
    /\ RegisteredFit(userStats, DOMAIN users)
    /\ users = [u \in DOMAIN users |-> users[u]]
    /\ \A u \in DOMAIN users : users[u] = [f \in {"busy", "excess"} |-> users[u][f]]
    /\ userState = [f \in {"authorities", "subAccounts", "max", "maxFee"} |-> userState[f]]
    /\ userState.authorities = Cardinality(DOMAIN userStats)
    /\ userState.subAccounts = Cardinality(DOMAIN users)

LEMMA InitUsers == UsersOf!UserInit => UsersInv
<1>. SUFFICES ASSUME UsersOf!UserInit PROVE UsersInv
  OBVIOUS
<1>1. /\ userStats = [a \in {} |-> 0] /\ users = [u \in {} |-> 0]
      /\ userState = [authorities |-> 0, subAccounts |-> 0, max |-> 0, maxFee |-> 0]
  BY DEF UsersOf!UserInit
<1>2. DOMAIN userStats = {} /\ DOMAIN users = {}
  BY <1>1
<1>3. IsFiniteSet({}) /\ Cardinality({}) = 0
  BY FS_EmptySet
<1>. QED
  BY <1>1, <1>2, <1>3 DEF UsersInv, RegisteredFit, OwnedFit, NoCircle

\* A new authority has no account and no referrer.
LEMMA AuthorityRegistered ==
  ASSUME NEW stats, NEW owned, RegisteredFit(stats, owned), NEW a, a \notin DOMAIN stats,
         NEW new, new = [x \in DOMAIN stats \cup {a} |->
             IF x = a THEN [number |-> 0, created |-> 0, isReferrer |-> FALSE, referrer |-> NoReferrer]
             ELSE stats[x]]
  PROVE  /\ RegisteredFit(new, owned)
         /\ Cardinality(DOMAIN new) = Cardinality(DOMAIN stats) + 1
<1>1. /\ DOMAIN new = DOMAIN stats \cup {a} /\ \A x \in DOMAIN stats : new[x] = stats[x]
      /\ new[a] = [number |-> 0, created |-> 0, isReferrer |-> FALSE, referrer |-> NoReferrer]
  OBVIOUS
<1>2. /\ IsFiniteSet(DOMAIN new) /\ Cardinality(DOMAIN new) = Cardinality(DOMAIN stats) + 1
  BY <1>1, FS_AddElement DEF RegisteredFit
<1>3. SubAccounts(owned, a) = {} /\ Cardinality({}) = 0
  BY FS_EmptySet DEF RegisteredFit, OwnedFit, SubAccounts
<1>4. StatsFit(new, owned, a)
  BY <1>1, <1>3 DEF StatsFit
<1>5. ASSUME NEW x \in DOMAIN stats PROVE StatsFit(new, owned, x)
  BY <1>1 DEF RegisteredFit, StatsFit
<1>6. OwnedFit(new, owned)
  BY <1>1 DEF RegisteredFit, OwnedFit
<1>7. ASSUME NEW C \in SUBSET DOMAIN new,
             \A x \in C : new[x].referrer # NoReferrer /\ new[x].referrer \in C
      PROVE  C = {}
  <2>1. a \notin C
    BY <1>1, <1>7
  <2>. QED  BY <1>1, <1>7, <2>1 DEF RegisteredFit, NoCircle
<1>8. new = [x \in DOMAIN new |-> new[x]] /\ \A x \in DOMAIN new : StatsFit(new, owned, x)
  BY <1>1, <1>4, <1>5
<1>9. NoCircle(new)
  BY <1>7 DEF NoCircle
<1>. QED
  BY <1>2, <1>6, <1>8, <1>9 DEF RegisteredFit

\* The next sub account of an authority; the first one may name a referrer.
StatsFields == {"number", "created", "isReferrer", "referrer"}
WithAccount(stats, a, r, refers) ==
    [x \in DOMAIN stats |->
        [f \in StatsFields |->
            CASE f = "number"     -> IF x = a THEN stats[x].number + 1 ELSE stats[x].number
              [] f = "created"    -> IF x = a THEN stats[x].created + 1 ELSE stats[x].created
              [] f = "referrer"   -> IF x = a /\ refers THEN r ELSE stats[x].referrer
              [] f = "isReferrer" -> IF x = r /\ refers THEN TRUE ELSE stats[x].isReferrer]]

LEMMA AccountRegistered ==
  ASSUME NEW stats, NEW owned, RegisteredFit(stats, owned), NEW a \in DOMAIN stats,
         NEW r \in DOMAIN stats \cup {NoReferrer}, NEW new,
         NEW refers \in BOOLEAN,
         refers => stats[a].created = 0 /\ r # NoReferrer /\ r # a /\ <<r, 0>> \in owned,
         new = WithAccount(stats, a, r, refers)
  PROVE  LET id == stats[a].created
         IN  /\ <<a, id>> \notin owned
             /\ RegisteredFit(new, owned \cup {<<a, id>>})
             /\ Cardinality(owned \cup {<<a, id>>}) = Cardinality(owned) + 1
<1>. DEFINE id == stats[a].created  u == <<a, id>>  all == owned \cup {u}
<1>1. /\ id \in Nat /\ u[1] = a /\ u[2] = id
      /\ \A v \in owned : /\ v = <<v[1], v[2]>> /\ v[1] \in DOMAIN stats
                          /\ v[2] \in Nat /\ v[2] < stats[v[1]].created
      /\ IsFiniteSet(owned)
  BY DEF RegisteredFit, OwnedFit, StatsFit
<1>2. u \notin owned
  BY <1>1
<1>3. IsFiniteSet(all) /\ Cardinality(all) = Cardinality(owned) + 1
  BY <1>1, <1>2, FS_AddElement
<1>4. /\ DOMAIN new = DOMAIN stats
      /\ \A x \in DOMAIN new : new[x] = [f \in {"number", "created", "isReferrer", "referrer"} |-> new[x][f]]
      /\ new[a].number = stats[a].number + 1 /\ new[a].created = stats[a].created + 1
      /\ \A x \in DOMAIN new : x # a => new[x].number = stats[x].number /\ new[x].created = stats[x].created
      /\ \A x \in DOMAIN new : new[x].referrer = (IF x = a /\ refers THEN r ELSE stats[x].referrer)
      /\ \A x \in DOMAIN new : new[x].isReferrer = (IF x = r /\ refers THEN TRUE ELSE stats[x].isReferrer)
  BY DEF WithAccount, StatsFields
<1>. HIDE DEF id, u, all
<1>5. ASSUME NEW x \in DOMAIN stats
      PROVE  /\ SubAccounts(all, x) = IF x = a THEN SubAccounts(owned, x) \cup {u} ELSE SubAccounts(owned, x)
             /\ IsFiniteSet(SubAccounts(owned, x)) /\ u \notin SubAccounts(owned, x)
  <2>1. SubAccounts(owned, x) \subseteq owned
    BY DEF SubAccounts
  <2>2. IsFiniteSet(SubAccounts(owned, x))
    BY <1>1, <2>1, FS_Subset
  <2>. QED  BY <1>1, <1>2, <2>2 DEF SubAccounts, all
<1>6. ASSUME NEW x \in DOMAIN stats PROVE StatsFit(new, all, x)
  <2>1. StatsFit(stats, owned, x)
    BY DEF RegisteredFit
  <2>2. new[x].number = Cardinality(SubAccounts(all, x))
    <3>1. CASE x = a
      BY <1>4, <1>5, <2>1, <3>1, FS_AddElement DEF StatsFit
    <3>2. CASE x # a
      <4>1. stats[x].number = Cardinality(SubAccounts(owned, x)) /\ Cardinality(SubAccounts(owned, x)) \in Nat
        BY <1>5, <2>1, FS_CardinalityType DEF StatsFit
      <4>. QED  BY <1>4, <1>5, <3>2, <4>1
    <3>. QED  BY <3>1, <3>2
  <2>3. new[x].created \in Nat /\ new[x].created >= stats[x].created /\ (x = a => new[x].created > 0)
    BY <1>4, <2>1 DEF StatsFit
  <2>4. owned \subseteq all
    BY DEF all
  <2>5. new[x].referrer # NoReferrer =>
           /\ new[x].created > 0 /\ new[x].referrer \in DOMAIN stats
           /\ new[new[x].referrer].isReferrer /\ <<new[x].referrer, 0>> \in all
    <3>1. CASE x = a /\ refers
      BY <1>4, <2>3, <2>4, <3>1
    <3>2. CASE ~(x = a /\ refers)
      <4>1. new[x].referrer = stats[x].referrer
        BY <1>4, <3>2
      <4>2. stats[x].referrer # NoReferrer =>
               /\ stats[x].created > 0 /\ stats[x].created \in Nat /\ stats[x].referrer \in DOMAIN stats
               /\ stats[stats[x].referrer].isReferrer /\ <<stats[x].referrer, 0>> \in owned
        BY <2>1 DEF StatsFit
      <4>3. ASSUME NEW y \in DOMAIN stats, stats[y].isReferrer PROVE new[y].isReferrer
        <5>1. CASE y = r /\ refers
          BY <1>4, <5>1
        <5>2. CASE ~(y = r /\ refers)
          BY <1>4, <4>3, <5>2
        <5>. QED  BY <5>1, <5>2
      <4>. QED  BY <1>4, <2>3, <2>4, <4>1, <4>2, <4>3
    <3>. QED  BY <3>1, <3>2
  <2>. QED  BY <1>4, <2>2, <2>3, <2>5 DEF StatsFit
<1>7. OwnedFit(new, all)
  <2>1. ASSUME NEW v \in all
        PROVE  /\ v = <<v[1], v[2]>> /\ v[1] \in DOMAIN new
               /\ v[2] \in Nat /\ v[2] < new[v[1]].created
    <3>1. CASE v = u
      BY <1>1, <1>4, <3>1 DEF u, id
    <3>2. CASE v \in owned
      <4>1. stats[v[1]].created \in Nat
        BY <1>1, <3>2 DEF RegisteredFit, StatsFit
      <4>. QED  BY <1>1, <1>4, <3>2, <4>1
    <3>. QED  BY <3>1, <3>2 DEF all
  <2>. QED  BY <1>3, <2>1 DEF OwnedFit
<1>8. ASSUME NEW C \in SUBSET DOMAIN new,
             \A x \in C : new[x].referrer # NoReferrer /\ new[x].referrer \in C
      PROVE  C = {}
  <2>1. CASE refers /\ a \in C
    <3>. DEFINE D == C \ {a}
    <3>1. id = 0 /\ r # a /\ r \in C /\ C \subseteq DOMAIN stats
      BY <1>4, <1>8, <2>1 DEF id
    <3>2. ASSUME NEW x \in D PROVE stats[x].referrer # NoReferrer /\ stats[x].referrer \in D
      <4>1. stats[x].referrer # NoReferrer /\ stats[x].referrer \in C
        BY <1>4, <1>8, <3>1
      <4>2. <<stats[x].referrer, 0>> \in owned
        BY <3>1, <4>1 DEF RegisteredFit, StatsFit
      <4>3. <<a, 0>> \notin owned
        BY <1>2, <3>1 DEF u
      <4>. QED  BY <4>1, <4>2, <4>3
    <3>3. D = {}
      BY <3>1, <3>2 DEF RegisteredFit, NoCircle
    <3>. QED  BY <3>1, <3>3
  <2>2. CASE ~(refers /\ a \in C)
    <3>1. C \in SUBSET DOMAIN stats /\ \A x \in C : stats[x].referrer # NoReferrer /\ stats[x].referrer \in C
      BY <1>4, <1>8, <2>2
    <3>. QED  BY <3>1 DEF RegisteredFit, NoCircle
  <2>. QED  BY <2>1, <2>2
<1>9. RegisteredFit(new, all)
  <2>1. new = [x \in DOMAIN new |-> new[x]]
    BY DEF WithAccount
  <2>2. IsFiniteSet(DOMAIN new)
    BY <1>4 DEF RegisteredFit
  <2>3. NoCircle(new)
    BY <1>8 DEF NoCircle
  <2>4. \A x \in DOMAIN new : StatsFit(new, all, x)
    BY <1>4, <1>6
  <2>. QED  BY <1>7, <2>1, <2>2, <2>3, <2>4 DEF RegisteredFit
<1>. QED
  BY <1>2, <1>3, <1>9 DEF u, id, all

\* An account that is deleted is not the first one of a referrer.
LEMMA AccountDeleted ==
  ASSUME NEW stats, NEW owned, RegisteredFit(stats, owned), NEW u \in owned,
         ~(stats[u[1]].isReferrer /\ u[2] = 0),
         NEW new, new = [stats EXCEPT ![u[1]].number = @ - 1]
  PROVE  /\ RegisteredFit(new, owned \ {u})
         /\ Cardinality(owned \ {u}) = Cardinality(owned) - 1
<1>. DEFINE a == u[1]  rest == owned \ {u}
<1>1. /\ a \in DOMAIN stats /\ stats[a] = [f \in {"number", "created", "isReferrer", "referrer"} |-> stats[a][f]]
      /\ \A v \in owned : /\ v = <<v[1], v[2]>> /\ v[1] \in DOMAIN stats
                          /\ v[2] \in Nat /\ v[2] < stats[v[1]].created
      /\ IsFiniteSet(owned)
  BY DEF RegisteredFit, OwnedFit, StatsFit
<1>2. IsFiniteSet(rest) /\ Cardinality(rest) = Cardinality(owned) - 1
  BY <1>1, FS_RemoveElement
<1>3. new = [stats EXCEPT ![a] = [stats[a] EXCEPT !.number = @ - 1]]
  OBVIOUS
<1>4. /\ DOMAIN new = DOMAIN stats
      /\ new = [x \in DOMAIN new |-> new[x]]
      /\ \A x \in DOMAIN stats :
            /\ x # a => new[x] = stats[x]
            /\ new[a] = [stats[a] EXCEPT !.number = @ - 1]
  BY <1>1, <1>3 DEF RegisteredFit
<1>. HIDE DEF a, rest
<1>9. /\ new[a].created = stats[a].created /\ new[a].referrer = stats[a].referrer
      /\ new[a].isReferrer = stats[a].isReferrer /\ new[a].number = stats[a].number - 1
      /\ new[a] = [f \in {"number", "created", "isReferrer", "referrer"} |-> new[a][f]]
  <2>1. new[a] = [stats[a] EXCEPT !.number = @ - 1]
    BY <1>1, <1>4
  <2>2. stats[a] = [f \in {"number", "created", "isReferrer", "referrer"} |-> stats[a][f]]
    BY <1>1
  <2>. DEFINE s == stats[a]  n == new[a]
  <2>3. n = [s EXCEPT !.number = @ - 1] /\ s = [f \in {"number", "created", "isReferrer", "referrer"} |-> s[f]]
    BY <2>1, <2>2
  <2>. HIDE DEF s, n
  <2>4. /\ n.created = s.created /\ n.referrer = s.referrer /\ n.isReferrer = s.isReferrer
        /\ n.number = s.number - 1
        /\ n = [f \in {"number", "created", "isReferrer", "referrer"} |-> n[f]]
    BY <2>3
  <2>. QED  BY <2>4 DEF s, n
<1>5. /\ \A x \in DOMAIN stats : /\ new[x].created = stats[x].created /\ new[x].referrer = stats[x].referrer
                                 /\ new[x].isReferrer = stats[x].isReferrer
      /\ new[a].number = stats[a].number - 1
      /\ new[a] = [f \in {"number", "created", "isReferrer", "referrer"} |-> new[a][f]]
  BY <1>4, <1>9
<1>6. ASSUME NEW x \in DOMAIN stats PROVE StatsFit(new, rest, x)
  <2>1. StatsFit(stats, owned, x)
    BY DEF RegisteredFit
  <2>2. IsFiniteSet(SubAccounts(owned, x))
    <3>1. SubAccounts(owned, x) \subseteq owned
      BY DEF SubAccounts
    <3>. QED  BY <1>1, <3>1, FS_Subset
  <2>3. new[x].number = Cardinality(SubAccounts(rest, x))
    <3>1. CASE x = a
      <4>1. u \in SubAccounts(owned, x) /\ SubAccounts(rest, x) = SubAccounts(owned, x) \ {u}
        BY <3>1 DEF SubAccounts, rest, a
      <4>. DEFINE old == SubAccounts(owned, x)  left == SubAccounts(rest, x)
      <4>2. u \in old /\ left = old \ {u} /\ IsFiniteSet(old)
        BY <2>2, <4>1
      <4>3. new[x].number = stats[x].number - 1 /\ stats[x].number = Cardinality(old)
        BY <1>5, <2>1, <3>1 DEF StatsFit
      <4>. HIDE DEF old, left
      <4>4. Cardinality(left) = Cardinality(old) - 1
        BY <4>2, FS_RemoveElement
      <4>5. new[x].number = Cardinality(left)
        BY <4>3, <4>4
      <4>. QED  BY <4>5 DEF left
    <3>2. CASE x # a
      <4>1. SubAccounts(rest, x) = SubAccounts(owned, x)
        BY <3>2 DEF SubAccounts, rest, a
      <4>. QED  BY <1>4, <2>1, <3>2, <4>1 DEF StatsFit
    <3>. QED  BY <3>1, <3>2
  <2>4. new[x].referrer # NoReferrer => <<new[x].referrer, 0>> \in rest
    <3>1. stats[x].referrer # NoReferrer =>
             stats[stats[x].referrer].isReferrer /\ <<stats[x].referrer, 0>> \in owned
      BY <2>1 DEF StatsFit
    <3>2. stats[x].referrer # NoReferrer => <<stats[x].referrer, 0>> # u
      BY <3>1
    <3>. QED  BY <1>5, <3>1, <3>2 DEF rest
  <2>5. new[x] = [f \in {"number", "created", "isReferrer", "referrer"} |-> new[x][f]]
    BY <1>4, <1>5, <2>1 DEF StatsFit
  <2>6. /\ new[x].created \in Nat
        /\ new[x].referrer # NoReferrer =>
              /\ new[x].created > 0
              /\ new[x].referrer \in DOMAIN new /\ new[new[x].referrer].isReferrer
    BY <1>4, <1>5, <2>1 DEF StatsFit
  <2>. QED  BY <2>3, <2>4, <2>5, <2>6 DEF StatsFit
<1>7. OwnedFit(new, rest)
  BY <1>1, <1>2, <1>4, <1>5 DEF OwnedFit, rest
<1>8. NoCircle(new)
  BY <1>4, <1>5 DEF RegisteredFit, NoCircle
<1>. QED
  BY <1>2, <1>4, <1>6, <1>7, <1>8 DEF RegisteredFit, rest

LEMMA NextUsers == UsersInv /\ [UsersOf!UserNext]_userVars => UsersInv'
<1>. SUFFICES ASSUME UsersInv, [UsersOf!UserNext]_userVars PROVE UsersInv'
  OBVIOUS
<1>0. RegisteredFit(userStats, DOMAIN users)
  BY DEF UsersInv
<1>1. ASSUME NEW a \in Authorities, UsersOf!InitializeUserStats(a)
      PROVE  UsersInv'
  <2>1. /\ a \notin DOMAIN userStats
        /\ userStats' = [x \in DOMAIN userStats \cup {a} |->
              IF x = a THEN [number |-> 0, created |-> 0, isReferrer |-> FALSE, referrer |-> NoReferrer]
              ELSE userStats[x]]
        /\ userState' = [userState EXCEPT !.authorities = @ + 1]
        /\ users' = users
    BY <1>1 DEF UsersOf!InitializeUserStats
  <2>2. /\ RegisteredFit(userStats', DOMAIN users')
        /\ Cardinality(DOMAIN userStats') = Cardinality(DOMAIN userStats) + 1
    BY <1>0, <2>1, AuthorityRegistered
  <2>3. /\ userState' = [f \in {"authorities", "subAccounts", "max", "maxFee"} |-> userState'[f]]
        /\ userState'.authorities = userState.authorities + 1
        /\ userState'.subAccounts = userState.subAccounts
    BY <2>1 DEF UsersInv
  <2>. QED  BY <2>1, <2>2, <2>3 DEF UsersInv
<1>2. ASSUME NEW a \in DOMAIN userStats, NEW r \in DOMAIN userStats \cup {NoReferrer},
             UsersOf!InitializeUser(a, r)
      PROVE  UsersInv'
  <2>. DEFINE id == userStats[a].created  u == <<a, id>>
              refers == ~(userStats[a].created > 0 \/ r = NoReferrer)
              m == [busy |-> FALSE, excess |-> UsersOf!InitUserFee(userState.subAccounts + 1)]
  <2>1. /\ id = 0 => r = NoReferrer \/ (r # a /\ <<r, 0>> \in DOMAIN users)
        /\ userStats' = UsersOf!Referred(a, r)
        /\ users' = [v \in DOMAIN users \cup {u} |-> IF v = u THEN m ELSE users[v]]
        /\ userState' = [userState EXCEPT !.subAccounts = @ + 1]
    BY <1>2 DEF UsersOf!InitializeUser
  <2>. HIDE DEF m
  <2>2. /\ id \in Nat /\ refers \in BOOLEAN
        /\ refers => userStats[a].created = 0 /\ r # NoReferrer /\ r # a /\ <<r, 0>> \in DOMAIN users
    <3>1. id \in Nat
      BY <1>0 DEF RegisteredFit, StatsFit
    <3>. QED  BY <2>1, <3>1
  <2>3. userStats' = WithAccount(userStats, a, r, refers)
    <3>. DEFINE old == userStats
                counted == [old EXCEPT ![a] = [old[a] EXCEPT !.number = @ + 1, !.created = @ + 1]]
                named == [counted EXCEPT ![a] = [counted[a] EXCEPT !.referrer = r]]
                marked == [named EXCEPT ![r] = [named[r] EXCEPT !.isReferrer = TRUE]]
                new == WithAccount(old, a, r, refers)
    <3>1. userStats' = IF refers THEN marked ELSE counted
      <4>1. counted = [old EXCEPT ![a].number = @ + 1, ![a].created = @ + 1]
        BY <1>0 DEF RegisteredFit, StatsFit
      <4>2. marked = [counted EXCEPT ![a].referrer = r, ![r].isReferrer = TRUE]
        OBVIOUS
      <4>. QED  BY <2>1, <4>1, <4>2 DEF UsersOf!Referred
    <3>2. /\ old = [x \in DOMAIN old |-> old[x]]
          /\ \A x \in DOMAIN old : old[x] = [f \in StatsFields |-> old[x][f]]
      BY <1>0 DEF RegisteredFit, StatsFit, StatsFields
    <3>3. /\ new = [x \in DOMAIN old |-> new[x]]
          /\ \A x \in DOMAIN old : new[x] = [f \in StatsFields |-> new[x][f]]
          /\ \A x \in DOMAIN old :
                /\ x = a => new[x].number = old[x].number + 1 /\ new[x].created = old[x].created + 1
                /\ x # a => new[x].number = old[x].number /\ new[x].created = old[x].created
                /\ x = a /\ refers => new[x].referrer = r
                /\ ~(x = a /\ refers) => new[x].referrer = old[x].referrer
                /\ x = r /\ refers => new[x].isReferrer = TRUE
                /\ ~(x = r /\ refers) => new[x].isReferrer = old[x].isReferrer
      BY DEF WithAccount, StatsFields
    <3>. DEFINE set == userStats'
    <3>4. /\ DOMAIN set = DOMAIN old /\ set = [x \in DOMAIN set |-> set[x]]
          /\ \A x \in DOMAIN old : x # a /\ ~(x = r /\ refers) => set[x] = old[x]
      BY <2>2, <3>1, <3>2
    <3>5. ~refers => set[a] = [old[a] EXCEPT !.number = @ + 1, !.created = @ + 1]
      BY <3>1, <3>2
    <3>6. refers => /\ r \in DOMAIN old /\ r # a
                    /\ set[a] = [[old[a] EXCEPT !.number = @ + 1, !.created = @ + 1] EXCEPT !.referrer = r]
                    /\ set[r] = [old[r] EXCEPT !.isReferrer = TRUE]
      BY <2>2, <3>1, <3>2
    <3>. HIDE DEF set, old, new, refers
    <3>7. ASSUME NEW x \in DOMAIN old PROVE set[x] = new[x]
      <4>1. old[x] = [f \in StatsFields |-> old[x][f]] /\ new[x] = [f \in StatsFields |-> new[x][f]]
        BY <3>2, <3>3
      <4>2. /\ set[x] = [f \in StatsFields |-> set[x][f]]
            /\ \A f \in StatsFields : set[x][f] = new[x][f]
        <5>0. /\ x = a => new[x].number = old[x].number + 1 /\ new[x].created = old[x].created + 1
              /\ x # a => new[x].number = old[x].number /\ new[x].created = old[x].created
              /\ x = a /\ refers => new[x].referrer = r
              /\ ~(x = a /\ refers) => new[x].referrer = old[x].referrer
              /\ x = r /\ refers => new[x].isReferrer = TRUE
              /\ ~(x = r /\ refers) => new[x].isReferrer = old[x].isReferrer
          BY <3>3
        <5>1. CASE x # a /\ ~(x = r /\ refers)
          <6>1. set[x] = old[x]
            BY <3>4, <5>1
          <6>2. /\ new[x].number = old[x].number /\ new[x].created = old[x].created
                /\ new[x].referrer = old[x].referrer /\ new[x].isReferrer = old[x].isReferrer
            BY <5>0, <5>1
          <6>. QED  BY <4>1, <6>1, <6>2 DEF StatsFields
        <5>2. CASE x = a /\ ~refers
          <6>1. set[x] = [old[x] EXCEPT !.number = @ + 1, !.created = @ + 1]
            BY <3>5, <5>2
          <6>2. /\ new[x].number = old[x].number + 1 /\ new[x].created = old[x].created + 1
                /\ new[x].referrer = old[x].referrer /\ new[x].isReferrer = old[x].isReferrer
            BY <5>0, <5>2
          <6>. QED  BY <4>1, <6>1, <6>2 DEF StatsFields
        <5>3. CASE x = a /\ refers
          <6>1. set[x] = [[old[x] EXCEPT !.number = @ + 1, !.created = @ + 1] EXCEPT !.referrer = r]
            BY <3>6, <5>3
          <6>2. /\ new[x].number = old[x].number + 1 /\ new[x].created = old[x].created + 1
                /\ new[x].referrer = r /\ new[x].isReferrer = old[x].isReferrer
            BY <3>6, <5>0, <5>3
          <6>. QED  BY <4>1, <6>1, <6>2 DEF StatsFields
        <5>4. CASE x = r /\ refers
          <6>1. set[x] = [old[x] EXCEPT !.isReferrer = TRUE] /\ x # a
            BY <3>6, <5>4
          <6>2. /\ new[x].number = old[x].number /\ new[x].created = old[x].created
                /\ new[x].referrer = old[x].referrer /\ new[x].isReferrer = TRUE
            BY <5>0, <5>4, <6>1
          <6>. DEFINE was == old[x]  is == set[x]  wanted == new[x]
          <6>3. /\ was = [f \in StatsFields |-> was[f]] /\ is = [was EXCEPT !.isReferrer = TRUE]
                /\ wanted.number = was.number /\ wanted.created = was.created
                /\ wanted.referrer = was.referrer /\ wanted.isReferrer = TRUE
            BY <4>1, <6>1, <6>2
          <6>. HIDE DEF was, is, wanted
          <6>4. /\ is = [f \in StatsFields |-> is[f]]
                /\ \A f \in StatsFields : is[f] = wanted[f]
            BY <6>3 DEF StatsFields
          <6>. QED  BY <6>4 DEF is, wanted
        <5>. QED  BY <5>1, <5>2, <5>3, <5>4
      <4>. QED  BY <4>1, <4>2
    <3>8. set = new
      BY <3>3, <3>4, <3>7
    <3>. QED  BY <3>8 DEF set, new, old
  <2>4. /\ RegisteredFit(userStats', DOMAIN users \cup {u})
        /\ Cardinality(DOMAIN users \cup {u}) = Cardinality(DOMAIN users) + 1
    <3>. HIDE DEF refers
    <3>. QED  BY <1>0, <2>2, <2>3, AccountRegistered
  <2>. HIDE DEF u
  <2>5. /\ userState' = [f \in {"authorities", "subAccounts", "max", "maxFee"} |-> userState'[f]]
        /\ userState'.authorities = userState.authorities
        /\ userState'.subAccounts = userState.subAccounts + 1
    BY <2>1 DEF UsersInv
  <2>6. DOMAIN userStats' = DOMAIN userStats /\ DOMAIN users' = DOMAIN users \cup {u}
    BY <2>1, <2>3 DEF WithAccount
  <2>7. \A v \in DOMAIN users' : users'[v] = [f \in {"busy", "excess"} |-> users'[v][f]]
    BY <2>1 DEF UsersInv, m
  <2>8. users' = [v \in DOMAIN users' |-> users'[v]]
    BY <2>1
  <2>. QED  BY <2>4, <2>5, <2>6, <2>7, <2>8 DEF UsersInv
<1>3. ASSUME NEW u \in DOMAIN users, UsersOf!DeleteUser(u)
      PROVE  UsersInv'
  <2>1. /\ ~(userStats[u[1]].isReferrer /\ u[2] = 0)
        /\ users' = [x \in DOMAIN users \ {u} |-> users[x]]
        /\ userStats' = [userStats EXCEPT ![u[1]].number = @ - 1]
        /\ userState' = [userState EXCEPT !.subAccounts = @ - 1]
    BY <1>3 DEF UsersOf!DeleteUser
  <2>2. /\ RegisteredFit(userStats', DOMAIN users \ {u})
        /\ Cardinality(DOMAIN users \ {u}) = Cardinality(DOMAIN users) - 1
    BY <1>0, <2>1, AccountDeleted
  <2>3. /\ userState' = [f \in {"authorities", "subAccounts", "max", "maxFee"} |-> userState'[f]]
        /\ userState'.authorities = userState.authorities
        /\ userState'.subAccounts = userState.subAccounts - 1
    BY <2>1 DEF UsersInv
  <2>4. /\ DOMAIN users' = DOMAIN users \ {u} /\ DOMAIN userStats' = DOMAIN userStats
        /\ users' = [v \in DOMAIN users' |-> users'[v]]
        /\ \A v \in DOMAIN users' : users'[v] = users[v]
    BY <2>1
  <2>. QED  BY <2>2, <2>3, <2>4 DEF UsersInv
<1>4. ASSUME NEW u \in DOMAIN users, UsersOf!ReclaimRent(u) \/ UsersOf!Trade(u)
      PROVE  UsersInv'
  <2>1. /\ \/ users' = [users EXCEPT ![u] = [users[u] EXCEPT !.excess = 0]]
           \/ users' = [users EXCEPT ![u] = [users[u] EXCEPT !.busy = ~@]]
        /\ UNCHANGED <<userStats, userState>>
    BY <1>4 DEF UsersOf!ReclaimRent, UsersOf!Trade
  <2>2. /\ DOMAIN users' = DOMAIN users /\ users' = [v \in DOMAIN users |-> users'[v]]
        /\ \A v \in DOMAIN users : users'[v] = [f \in {"busy", "excess"} |-> users'[v][f]]
    BY <2>1 DEF UsersInv
  <2>. QED  BY <2>1, <2>2 DEF UsersInv
<1>5. ASSUME NEW m, UsersOf!UpdateMaxNumberOfSubAccounts(m) \/ UsersOf!UpdateMaxInitializeUserFee(m)
      PROVE  UsersInv'
  <2>1. /\ userState' = [userState EXCEPT !.max = m] \/ userState' = [userState EXCEPT !.maxFee = m]
        /\ UNCHANGED <<userStats, users>>
    BY <1>5 DEF UsersOf!UpdateMaxNumberOfSubAccounts, UsersOf!UpdateMaxInitializeUserFee
  <2>2. /\ userState' = [f \in {"authorities", "subAccounts", "max", "maxFee"} |-> userState'[f]]
        /\ userState'.authorities = userState.authorities
        /\ userState'.subAccounts = userState.subAccounts
    BY <2>1 DEF UsersInv
  <2>. QED  BY <2>1, <2>2 DEF UsersInv
<1>6. CASE UNCHANGED userVars
  BY <1>6 DEF userVars, UsersInv
<1>. QED
  BY <1>1, <1>2, <1>3, <1>4, <1>5, <1>6 DEF UsersOf!UserNext

LEMMA UsersFit == UsersInv => UsersOf!UsersConsistent
<1>. SUFFICES ASSUME UsersInv PROVE UsersOf!UsersConsistent
  OBVIOUS
<1>1. ASSUME NEW a PROVE UsersOf!SubAccountsOf(a) = SubAccounts(DOMAIN users, a)
  BY DEF UsersOf!SubAccountsOf, SubAccounts
<1>2. UsersOf!UsersCounted
  <2>1. /\ userState.authorities = Cardinality(DOMAIN userStats)
        /\ userState.subAccounts = Cardinality(DOMAIN users)
        /\ \A u \in DOMAIN users : u[1] \in DOMAIN userStats /\ u[2] < userStats[u[1]].created
        /\ \A a \in DOMAIN userStats : userStats[a].number = Cardinality(SubAccounts(DOMAIN users, a))
    BY DEF UsersInv, RegisteredFit, StatsFit, OwnedFit
  <2>2. ASSUME NEW a \in DOMAIN userStats, NEW u \in SubAccounts(DOMAIN users, a)
        PROVE  u[2] < userStats[a].created
    BY <2>1 DEF SubAccounts
  <2>. QED  BY <1>1, <2>1, <2>2, SameCardinality DEF UsersOf!UsersCounted
<1>3. UsersOf!ReferrersStay
  <2>1. ASSUME NEW a \in UsersOf!Referees PROVE <<UsersOf!Referrer(a), 0>> \in DOMAIN users
    BY <2>1 DEF UsersOf!Referees, UsersOf!Referrer, UsersInv, RegisteredFit, StatsFit
  <2>2. ASSUME NEW circle \in (SUBSET UsersOf!Referees) \ {{}}
        PROVE  \E a \in circle : UsersOf!Referrer(a) \notin circle
    <3>1. /\ circle \in SUBSET DOMAIN userStats /\ circle # {}
          /\ \A a \in circle : userStats[a].referrer # NoReferrer
      BY DEF UsersOf!Referees, UsersOf!Referrer
    <3>. QED  BY <3>1 DEF UsersOf!Referrer, UsersInv, RegisteredFit, NoCircle
  <2>. QED  BY <2>1, <2>2 DEF UsersOf!ReferrersStay
<1>. QED
  BY <1>2, <1>3 DEF UsersOf!UsersConsistent

-----------------------------------------------------------------------------
(* The oracle *)

\* Prices are fine enough if the band of the market's tier around an average, of which it is
\* a part, is at least three units wide: six units at least, and 63 where the tier allows a twentieth.
\* A price of one dollar has a million.
Fine(p, t) == p \in Int /\ p >= 3 * t.clamp + 3
FinePrices ==
    \A t \in SyntheticTiers :
        /\ \A m \in Messages, s \in Sources :
              /\ Fine(Oracle!Snapped(Oracle!Scaled(m.price, s), Oracle!Scaled(m.confidence, s), s), t)
              /\ Fine(Oracle!Scaled(m.average, s), t)
        /\ \A p \in Marks : Fine(p, t)

FeedInv ==
    /\ feed = [message |-> feed.message, postedSlot |-> feed.postedSlot]
    /\ feed.message \in delivered /\ delivered \subseteq Messages
    /\ \A m \in delivered : m.time <= feed.message.time

LEMMA InitFeed == Oracle!OracleInit => FeedInv
BY NormalAssumption DEF Oracle!OracleInit, FeedInv

LEMMA NextFeed == FeedInv /\ [Oracle!OracleNext]_oracleVars => FeedInv'
<1>. SUFFICES ASSUME FeedInv, [Oracle!OracleNext]_oracleVars PROVE FeedInv'
  OBVIOUS
<1>1. ASSUME NEW m \in Messages, Oracle!PostUpdate(m) PROVE FeedInv'
  <2>1. /\ delivered' = delivered \cup {m}
        /\ feed' = IF m.time > feed.message.time THEN [message |-> m, postedSlot |-> oracleTime] ELSE feed
    BY <1>1 DEF Oracle!PostUpdate
  <2>2. \A x \in Messages : x.time \in Int
    BY NormalAssumption
  <2>3. CASE m.time > feed.message.time
    BY <2>1, <2>2, <2>3 DEF FeedInv
  <2>4. CASE ~(m.time > feed.message.time)
    BY <2>1, <2>2, <2>4 DEF FeedInv
  <2>. QED  BY <2>3, <2>4
<1>2. CASE UNCHANGED <<feed, delivered>>
  BY <1>2 DEF FeedInv
<1>. QED
  BY <1>1, <1>2 DEF Oracle!OracleNext, Oracle!UpdateMarket, Oracle!UpdateMarketAndCheckValidity,
     Oracle!UpdateAmmOracleTwap, Oracle!ResetAmmOracleTwap, Oracle!Tick, oracleVars

LEMMA FeedNewest == FeedInv => Oracle!FeedIsNewest
BY DEF FeedInv, Oracle!FeedIsNewest

LEMMA VerdictsOrdered == Oracle!SeverityOrdered
BY DEF Oracle!SeverityOrdered, Oracle!Milder, Oracle!Validities, Oracle!NormalActions,
       Oracle!IsOracleValidForAction

-----------------------------------------------------------------------------
(* Averages *)

\* The prices that were seen reach from low to high, and averages are among them up to the bias.
Seen(low, high) == low \in Int /\ high \in Int /\ low >= 6
IsPrice(p, low, high) == p \in Int /\ low <= p /\ p <= high
IsAverage(p, low, high) == p \in Int /\ low - 3 <= p /\ p <= high + 1

LEMMA ProductMonotone ==
  ASSUME NEW x \in Int, NEW y \in Int, NEW w \in Nat, x <= y
  PROVE  x * w <= y * w /\ x * w \in Int /\ y * w \in Int
OBVIOUS

LEMMA AverageBounded ==
  ASSUME NEW w1 \in Nat, NEW w2 \in Nat \ {0}, NEW low, NEW high, Seen(low, high),
         NEW n, IsPrice(n, low, high), NEW o, IsAverage(o, low, high)
  PROVE  IsAverage(Oracle!WeightedAverage(n, o, w1, w2), low, high)
<1>. DEFINE x == n * w1  y == o * w2  w == w1 + w2
            bias == IF w2 <= 1 THEN 0 ELSE IF y < x THEN -1 ELSE IF y > x THEN 1 ELSE 0
            average == (x + y) \div w
<1>0. /\ low \in Int /\ high \in Int /\ low >= 6 /\ n \in Int /\ low <= n /\ n <= high
      /\ o \in Int /\ low - 3 <= o /\ o <= high + 1
  BY DEF Seen, IsPrice, IsAverage
<1>1. CASE w1 = 0
  BY <1>1 DEF Oracle!WeightedAverage
<1>2. CASE w1 # 0
  <2>0. /\ x \in Int /\ y \in Int /\ w \in Nat /\ w = w1 + w2 /\ w > w2
    BY <1>0, <1>2
  <2>1. /\ low * w1 <= x /\ x <= high * w1
        /\ (low - 3) * w2 <= y /\ y <= (high + 1) * w2
        /\ low * w1 \in Nat /\ low * w2 \in Nat /\ 6 * w2 <= low * w2 /\ high * w1 \in Int /\ high * w2 \in Int
    BY <1>0, ProductMonotone
  <2>. HIDE DEF x, y
  <2>. DEFINE l1 == low * w1  l2 == low * w2  h1 == high * w1  h2 == high * w2
  <2>2. /\ (low - 3) * w2 = l2 - 3 * w2 /\ (high + 1) * w2 = h2 + w2
        /\ (high + 1) * w = h1 + h2 + w1 + w2 /\ (low - 3) * w = l1 + l2 - 3 * w
        /\ (low - 2) * w = l1 + l2 - 2 * w
    BY <1>0
  <2>3. /\ l1 <= x /\ x <= h1 /\ l2 - 3 * w2 <= y /\ y <= h2 + w2 /\ 6 * w2 <= l2
        /\ l1 \in Nat /\ l2 \in Nat /\ h1 \in Int /\ h2 \in Int
    BY <2>1, <2>2
  <2>. HIDE DEF l1, l2, h1, h2, w
  <2>4. x + y < (high + 1) * w /\ (low - 3) * w <= x + y
    BY <1>0, <1>2, <2>0, <2>2, <2>3
  <2>5. ASSUME y < x PROVE (low - 2) * w <= x + y
    <3>1. CASE w2 <= 2 * w1
      BY <1>0, <2>0, <2>2, <2>3, <3>1
    <3>2. CASE w2 > 2 * w1
      <4>1. 2 * l1 <= l2
        BY <1>0, <3>2, ProductMonotone DEF l1, l2
      <4>2. x + y > 2 * l2 - 6 * w2
        BY <2>0, <2>3, <2>5
      <4>. QED  BY <1>0, <2>0, <2>2, <2>3, <3>2, <4>1, <4>2
    <3>. QED  BY <3>1, <3>2
  <2>6. /\ average \in Int /\ average <= high /\ low - 3 <= average
        /\ y < x => low - 2 <= average
        /\ x + y >= 0
    <3>1. ASSUME NEW k \in Int, k * w <= x + y PROVE k <= (x + y) \div w
      BY <2>0, <3>1
    <3>2. ASSUME NEW k \in Int, x + y < (k + 1) * w PROVE (x + y) \div w <= k
      BY <2>0, <3>2
    <3>3. (x + y) \div w \in Int /\ x + y >= 0
      BY <2>0, <2>3
    <3>. QED  BY <1>0, <2>4, <2>5, <3>1, <3>2, <3>3
  <2>7. Oracle!WeightedAverage(n, o, w1, w2) = IF average = 0 /\ bias < 0 THEN 0 ELSE average + bias
    BY <1>2, <2>6 DEF Oracle!WeightedAverage, Oracle!Quotient, x, y, w
  <2>8. bias \in {-1, 0, 1} /\ (bias = -1 => y < x)
    OBVIOUS
  <2>. HIDE DEF average, bias
  <2>. QED  BY <1>0, <2>6, <2>7, <2>8 DEF IsAverage
<1>. QED
  BY <1>1, <1>2

\* The inductive invariant, of feeds whose prices are fine
AveragesInv ==
    /\ source \in Sources /\ mark \in Marks /\ tier \in SyntheticTiers
    /\ oracleTime \in Int
    /\ history = [f \in {"price", "confidence", "delay", "ts", "twap", "twap5min"} |-> history[f]]
    /\ history.ts \in Int
    /\ seen.low \in Int /\ seen.high \in Int
    /\ seen.low <= seen.high /\ seen.low >= 3 * tier.clamp + 3
    /\ IsAverage(history.twap, seen.low, seen.high) /\ IsAverage(history.twap5min, seen.low, seen.high)

LEMMA PricesAreFine ==
  ASSUME FinePrices, feed.message \in Messages, source \in Sources, tier \in SyntheticTiers,
         NEW data \in Oracle!OraclePrices
  PROVE  Fine(data.price, tier)
BY DEF FinePrices, Oracle!OraclePrices

\* Widened adds a price p to those that were seen.
LEMMA WidenedFits ==
  ASSUME AveragesInv, NEW p, Fine(p, tier), seen' = Oracle!Widened(p), tier' = tier
  PROVE  /\ seen'.low \in Int /\ seen'.high \in Int /\ seen'.low <= seen'.high
         /\ seen'.low >= 3 * tier.clamp + 3 /\ tier.clamp \in Nat \ {0}
         /\ seen'.low <= seen.low /\ seen.high <= seen'.high
         /\ seen'.low <= p /\ p <= seen'.high
<1>1. seen'.low = Oracle!Min2(seen.low, p) /\ seen'.high = Oracle!Max2(seen.high, p)
  BY DEF Oracle!Widened
<1>2. /\ seen.low \in Int /\ seen.high \in Int /\ seen.low <= seen.high
      /\ seen.low >= 3 * tier.clamp + 3 /\ p \in Int /\ p >= 3 * tier.clamp + 3
      /\ tier.clamp \in Nat \ {0}
  BY NormalAssumption DEF AveragesInv, Fine
<1>. QED
  BY <1>1, <1>2 DEF Oracle!Min2, Oracle!Max2

\* A new price is clamped to a band around the average, which is wide enough to reach those seen.
LEMMA SanitizedSeen ==
  ASSUME NEW twap, NEW clamp \in Nat \ {0}, NEW p, NEW low, NEW high, Seen(low, high),
         low >= 3 * clamp + 3, IsAverage(twap, low, high), IsPrice(p, low, high)
  PROVE  /\ twap # 0
         /\ IsPrice(Oracle!Max2(twap - (Oracle!AbsOf(twap) \div clamp),
                                Oracle!Min2(p, twap + (Oracle!AbsOf(twap) \div clamp))), low, high)
<1>. DEFINE band == Oracle!AbsOf(twap) \div clamp
<1>0. /\ low \in Int /\ high \in Int /\ twap \in Int /\ low - 3 <= twap /\ twap <= high + 1
      /\ p \in Int /\ low <= p /\ p <= high
  BY DEF Seen, IsAverage, IsPrice
<1>1. Oracle!AbsOf(twap) = twap /\ twap >= 3 * clamp
  BY <1>0 DEF Oracle!AbsOf, Oracle!Max2
<1>2. band \in Int /\ band >= 3
  BY <1>0, <1>1
<1>3. IsPrice(Oracle!Max2(twap - band, Oracle!Min2(p, twap + band)), low, high)
  <2>. HIDE DEF band
  <2>. QED  BY <1>0, <1>2 DEF Oracle!Max2, Oracle!Min2, IsPrice
<1>. QED
  BY <1>0, <1>1, <1>3

LEMMA NewTwapSeen ==
  ASSUME NEW ts \in Int, oracleTime \in Int, NEW period \in Nat, NEW low, NEW high, Seen(low, high),
         NEW p, IsPrice(p, low, high), NEW last, IsAverage(last, low, high)
  PROVE  IsAverage(Oracle!NewTwap(p, last, ts, period), low, high)
<1>. DEFINE since == Oracle!Max2(0, oracleTime - ts)  rest == Oracle!Max2(1, period - since)
<1>1. since \in Nat /\ rest \in Nat \ {0}
  BY DEF Oracle!Max2
<1>2. Oracle!NewTwap(p, last, ts, period) = Oracle!WeightedAverage(p, last, since, rest)
  BY DEF Oracle!NewTwap
<1>. HIDE DEF since, rest
<1>. QED
  BY <1>1, <1>2, AverageBounded

\* Every update of the market records a price of the feed.
LEMMA RecordKeeps ==
  ASSUME AveragesInv, NEW data, Fine(data.price, tier),
         history' = Oracle!Recorded(data), seen' = Oracle!Widened(data.price),
         UNCHANGED <<source, tier, mark, oracleTime>>
  PROVE  AveragesInv'
<1>. DEFINE p == data.price  low == seen'.low  high == seen'.high  clean == Oracle!Sanitized(p)
<1>1. /\ low \in Int /\ high \in Int /\ low <= high /\ low >= 3 * tier.clamp + 3
      /\ tier.clamp \in Nat \ {0} /\ low <= seen.low /\ seen.high <= high /\ low <= p /\ p <= high
  BY WidenedFits
<1>2. /\ seen.low \in Int /\ seen.high \in Int /\ p \in Int /\ history.ts \in Int /\ oracleTime \in Int
      /\ IsAverage(history.twap, seen.low, seen.high) /\ IsAverage(history.twap5min, seen.low, seen.high)
  BY DEF AveragesInv, Fine
<1>. HIDE DEF low, high
<1>3. /\ Seen(low, high) /\ IsPrice(p, low, high)
      /\ IsAverage(history.twap, low, high) /\ IsAverage(history.twap5min, low, high)
  BY <1>1, <1>2 DEF Seen, IsPrice, IsAverage
<1>4. IsPrice(clean, low, high)
  <2>1. /\ history.twap # 0
        /\ IsPrice(Oracle!Max2(history.twap - (Oracle!AbsOf(history.twap) \div tier.clamp),
                    Oracle!Min2(p, history.twap + (Oracle!AbsOf(history.twap) \div tier.clamp))), low, high)
    BY <1>1, <1>3, SanitizedSeen
  <2>. QED  BY <2>1 DEF Oracle!Sanitized
<1>5. /\ history' = [f \in {"price", "confidence", "delay", "ts", "twap", "twap5min"} |-> history'[f]]
      /\ history'.ts = oracleTime
      /\ history'.twap = Oracle!NewTwap(clean, history.twap, history.ts, ONE_HOUR)
      /\ history'.twap5min = Oracle!NewTwap(clean, history.twap5min, history.ts, FIVE_MINUTE)
  BY DEF Oracle!Recorded
<1>. HIDE DEF clean, p
<1>6. IsAverage(history'.twap, low, high) /\ IsAverage(history'.twap5min, low, high)
  <2>1. ONE_HOUR \in Nat /\ FIVE_MINUTE \in Nat
    BY NormalAssumption
  <2>2. /\ IsAverage(Oracle!NewTwap(clean, history.twap, history.ts, ONE_HOUR), low, high)
        /\ IsAverage(Oracle!NewTwap(clean, history.twap5min, history.ts, FIVE_MINUTE), low, high)
    BY <1>2, <1>3, <1>4, <2>1, NewTwapSeen
  <2>. QED  BY <1>5, <2>2
<1>. QED
  BY <1>1, <1>2, <1>5, <1>6 DEF AveragesInv, low, high

\* The average is replaced by a price p, which counts as one that was seen.
LEMMA ReplacedKeeps ==
  ASSUME AveragesInv, NEW p, Fine(p, tier), NEW ts \in Int,
         history' = [history EXCEPT !.twap = p, !.ts = ts], seen' = Oracle!Widened(p),
         UNCHANGED <<source, tier, mark, oracleTime>>
  PROVE  AveragesInv'
<1>1. /\ seen'.low \in Int /\ seen'.high \in Int /\ seen'.low <= seen'.high
      /\ seen'.low >= 3 * tier.clamp + 3 /\ seen'.low <= seen.low /\ seen.high <= seen'.high
      /\ seen'.low <= p /\ p <= seen'.high
  BY WidenedFits
<1>2. /\ history' = [f \in {"price", "confidence", "delay", "ts", "twap", "twap5min"} |-> history'[f]]
      /\ history'.ts = ts /\ history'.twap = p /\ history'.twap5min = history.twap5min
  BY DEF AveragesInv
<1>3. IsAverage(history.twap, seen.low, seen.high)' /\ IsAverage(history.twap5min, seen.low, seen.high)'
  BY <1>1, <1>2 DEF AveragesInv, IsAverage, Fine
<1>. QED
  BY <1>1, <1>2, <1>3 DEF AveragesInv

LEMMA InitAverages ==
  ASSUME FinePrices, Oracle!OracleInit
  PROVE  AveragesInv
<1>1. PICK data \in Oracle!OraclePrices :
          /\ history = [price |-> data.price, confidence |-> data.confidence, delay |-> data.delay,
                        ts |-> 0, twap |-> data.price, twap5min |-> data.price]
          /\ seen = [low |-> data.price, high |-> data.price]
  BY DEF Oracle!OracleInit
<1>2. feed.message \in Messages /\ source \in Sources /\ mark \in Marks /\ tier \in SyntheticTiers /\ oracleTime = 0
  BY NormalAssumption DEF Oracle!OracleInit
<1>3. Fine(data.price, tier)
  BY <1>2, PricesAreFine
<1>. QED
  BY <1>1, <1>2, <1>3 DEF AveragesInv, IsAverage, Fine

LEMMA NextAverages ==
  ASSUME FinePrices, FeedInv, AveragesInv, [Oracle!OracleNext]_oracleVars
  PROVE  AveragesInv'
<1>0. /\ feed.message \in Messages /\ source \in Sources /\ mark \in Marks /\ tier \in SyntheticTiers
      /\ oracleTime \in Int
  BY DEF FeedInv, AveragesInv
<1>1. ASSUME NEW data \in Oracle!OraclePrices, history' = Oracle!Recorded(data),
             seen' = Oracle!Widened(data.price), UNCHANGED <<source, tier, mark, oracleTime>>
      PROVE  AveragesInv'
  BY <1>0, <1>1, PricesAreFine, RecordKeeps
<1>2. CASE Oracle!UpdateMarket
  BY <1>1, <1>2 DEF Oracle!UpdateMarket
<1>3. ASSUME NEW action \in Oracle!NormalActions, Oracle!UpdateMarketAndCheckValidity(action) PROVE AveragesInv'
  <2>1. \E data \in Oracle!OraclePrices : history' = Oracle!Recorded(data) /\ seen' = Oracle!Widened(data.price)
    BY <1>3 DEF Oracle!UpdateMarketAndCheckValidity
  <2>. QED  BY <1>1, <1>3, <2>1 DEF Oracle!UpdateMarketAndCheckValidity
<1>4. CASE Oracle!UpdateAmmOracleTwap
  <2>1. PICK p : /\ p = mark \/ p = Oracle!Scaled(feed.message.average, source)
                 /\ history' = [history EXCEPT !.twap = p, !.ts = oracleTime]
    BY <1>4 DEF Oracle!UpdateAmmOracleTwap
  <2>2. history'.twap = p
    BY <2>1 DEF AveragesInv
  <2>3. seen' = Oracle!Widened(p) /\ UNCHANGED <<source, tier, mark, oracleTime>>
    BY <1>4, <2>2 DEF Oracle!UpdateAmmOracleTwap
  <2>4. Fine(p, tier)
    BY <1>0, <2>1 DEF FinePrices
  <2>. QED  BY <1>0, <2>1, <2>3, <2>4, ReplacedKeeps
<1>5. ASSUME NEW ts \in 0 .. MAX_NOW, Oracle!ResetAmmOracleTwap(ts) PROVE AveragesInv'
  <2>1. Fine(mark, tier)
    BY <1>0 DEF FinePrices
  <2>. QED
    <3>1. /\ history' = [history EXCEPT !.twap = mark, !.ts = ts] /\ seen' = Oracle!Widened(mark)
          /\ UNCHANGED <<source, tier, mark, oracleTime>> /\ ts \in Int
      BY <1>5 DEF Oracle!ResetAmmOracleTwap
    <3>. QED  BY <1>0, <2>1, <3>1, ReplacedKeeps
<1>6. CASE UNCHANGED <<history, seen, source, tier, mark>> /\ (oracleTime' = oracleTime \/ oracleTime' = oracleTime + 1)
  BY <1>0, <1>6 DEF AveragesInv, IsAverage
<1>. QED
  BY <1>2, <1>3, <1>4, <1>5, <1>6 DEF Oracle!OracleNext, Oracle!PostUpdate, Oracle!Tick, oracleVars

LEMMA AveragesFit == AveragesInv => Oracle!AveragesInRange
BY DEF AveragesInv, IsAverage, Oracle!AveragesInRange

-----------------------------------------------------------------------------
(* Liquidations *)

\* An instance has an operator of its own for sums, too.
LEMMA SameSum == ASSUME NEW f PROVE Liquidation!SumFunction(f) = SumFunction(f)
BY DEF Liquidation!SumFunction, Liquidation!SumFunctionOnSet, Liquidation!FoldFunctionOnSet,
       Liquidation!MapThenFoldSet, SumFunction, SumFunctionOnSet, FoldFunctionOnSet, MapThenFoldSet

AccountFields ==
    {"base", "quote", "status", "marginFreed", "lastActiveSlot", "nextLiquidationId", "socializedLoss"}
IsAccount(a) ==
    /\ a = [f \in AccountFields |-> a[f]]
    /\ a.base \in Int /\ a.quote \in Int /\ a.marginFreed \in Int
    /\ a.lastActiveSlot \in Int /\ a.nextLiquidationId \in Int
\* A bankrupt account owes quote and holds no position.
Resolvable(a) == Liquidation!IsBankrupt(a) => a.base = 0 /\ a.quote < 0

\* What the accounts acc and the wallets w hold.
Holdings(acc, w) ==
    /\ acc = [u \in Accounts |-> acc[u]] /\ \A u \in Accounts : IsAccount(acc[u])
    /\ w = [u \in Accounts |-> w[u]] /\ \A u \in Accounts : w[u] \in Int
BaseSum(acc) == SumFunction([u \in Accounts |-> acc[u].base])
WorthSum(acc, w) == SumFunction([u \in Accounts |-> acc[u].quote + w[u]])

\* The insurance fund pays before the fee pool does, and the fee pool before the social loss.
InsuranceFit(i) ==
    /\ i = [f \in {"vault", "settled", "feePool", "liquidationFees", "socialLoss"} |-> i[f]]
    /\ i.vault \in Int /\ i.settled \in Int /\ i.feePool \in Int
    /\ i.liquidationFees \in Int /\ i.socialLoss \in Int
    /\ i.vault + i.settled = InsuranceVault /\ i.vault >= 1 /\ i.settled <= MaxInsurance
    /\ i.feePool >= 0
    /\ i.feePool < FeePool => i.vault = 1 \/ i.settled = MaxInsurance
    /\ i.socialLoss > 0 => i.feePool = 0
Paid(i) == i.settled + (FeePool - i.feePool) + i.socialLoss

\* The inductive invariant
LiquidationInv ==
    /\ Holdings(accounts, wallets) /\ \A u \in Accounts : Resolvable(accounts[u])
    /\ price \in Nat /\ slot \in Int
    /\ InsuranceFit(insurance)
    /\ BaseSum(accounts) \in Int /\ WorthSum(accounts, wallets) \in Int
    /\ BaseSum(accounts) = SumFunction([u \in Accounts |-> Opening[u].base])
    /\ WorthSum(accounts, wallets) + insurance.liquidationFees
          = SumFunction([u \in Accounts |-> Opening[u].quote + Opening[u].wallet]) + Paid(insurance)

LEMMA LiquidationsFit == LiquidationInv => BankruptcySound
<1>. SUFFICES ASSUME LiquidationInv PROVE BankruptcySound
  OBVIOUS
<1>1. Liquidation!BadDebtIsPaidOnce
  <2>1. /\ Liquidation!SumFunction([u \in Accounts |-> accounts[u].base]) = BaseSum(accounts)
        /\ Liquidation!SumFunction([u \in Accounts |-> Liquidation!Worth(accounts[u], wallets[u])])
             = WorthSum(accounts, wallets)
    BY SameSum DEF BaseSum, WorthSum, Liquidation!Worth
  <2>2. Liquidation!PoolsPaid = Paid(insurance)
    BY DEF Liquidation!PoolsPaid, Paid
  <2>3. /\ insurance.vault + insurance.settled = InsuranceVault /\ insurance.vault >= 1
        /\ insurance.settled <= MaxInsurance
        /\ insurance.feePool < FeePool => insurance.vault = 1 \/ insurance.settled = MaxInsurance
        /\ insurance.socialLoss > 0 => insurance.feePool = 0
    BY DEF LiquidationInv, InsuranceFit
  <2>. QED  BY <2>1, <2>2, <2>3, SameSum DEF LiquidationInv, Liquidation!BadDebtIsPaidOnce
<1>2. Liquidation!BankruptcyIsResolvable
  BY DEF LiquidationInv, Resolvable, Liquidation!BankruptcyIsResolvable
<1>. QED
  BY <1>1, <1>2 DEF BankruptcySound, Liquidation!BankruptcySound

\* One account, and what its owner has beside it, is put in the place of the old one.
Put(acc, u, x) == [acc EXCEPT ![u] = x]

LEMMA PutHoldings ==
  ASSUME NEW acc, NEW w, Holdings(acc, w), NEW u \in Accounts, NEW x, IsAccount(x), NEW k \in Int
  PROVE  /\ Holdings(Put(acc, u, x), Put(w, u, k))
         /\ BaseSum(acc) \in Int /\ WorthSum(acc, w) \in Int
         /\ BaseSum(Put(acc, u, x)) = BaseSum(acc) - acc[u].base + x.base
         /\ WorthSum(Put(acc, u, x), Put(w, u, k))
               = WorthSum(acc, w) - (acc[u].quote + w[u]) + (x.quote + k)
<1>. DEFINE new == Put(acc, u, x)  v == Put(w, u, k)
<1>1. /\ DOMAIN acc = Accounts /\ DOMAIN w = Accounts
      /\ \A y \in Accounts : IsAccount(acc[y]) /\ w[y] \in Int
  BY DEF Holdings
<1>2. /\ new = [y \in Accounts |-> new[y]] /\ v = [y \in Accounts |-> v[y]]
      /\ new[u] = x /\ v[u] = k
      /\ \A y \in Accounts : y # u => new[y] = acc[y] /\ v[y] = w[y]
  BY <1>1 DEF Put
<1>. HIDE DEF new, v
<1>3. Holdings(new, v)
  BY <1>1, <1>2 DEF Holdings
<1>4. \A y \in Accounts : /\ acc[y].base \in Int /\ acc[y].quote \in Int /\ w[y] \in Int
                          /\ new[y].base \in Int /\ new[y].quote \in Int /\ v[y] \in Int
  BY <1>3 DEF Holdings, IsAccount
<1>. DEFINE f == [y \in Accounts |-> acc[y].base]  g == [y \in Accounts |-> new[y].base]
            h == [y \in Accounts |-> acc[y].quote + w[y]]  j == [y \in Accounts |-> new[y].quote + v[y]]
<1>5. SumFunction(f) \in Int /\ SumFunction(g) = SumFunction(f) - f[u] + g[u]
  <2>1. /\ DOMAIN f = Accounts /\ DOMAIN g = Accounts
        /\ \A y \in Accounts : y # u => g[y] = f[y]
        /\ \A y \in Accounts : f[y] \in Int /\ g[y] \in Int
    BY <1>2, <1>4
  <2>. HIDE DEF f, g
  <2>. QED  BY <2>1, NormalAssumption, SumUpdated
<1>6. SumFunction(h) \in Int /\ SumFunction(j) = SumFunction(h) - h[u] + j[u]
  <2>1. /\ DOMAIN h = Accounts /\ DOMAIN j = Accounts
        /\ \A y \in Accounts : y # u => j[y] = h[y]
        /\ \A y \in Accounts : h[y] \in Int /\ j[y] \in Int
    BY <1>2, <1>4
  <2>. HIDE DEF h, j
  <2>. QED  BY <2>1, NormalAssumption, SumUpdated
<1>7. f[u] = acc[u].base /\ g[u] = x.base /\ h[u] = acc[u].quote + w[u] /\ j[u] = x.quote + k
  BY <1>2
<1>8. BaseSum(acc) = SumFunction(f) /\ BaseSum(new) = SumFunction(g)
      /\ WorthSum(acc, w) = SumFunction(h) /\ WorthSum(new, v) = SumFunction(j)
  BY DEF BaseSum, WorthSum
<1>. HIDE DEF f, g, h, j
<1>. QED
  BY <1>3, <1>5, <1>6, <1>7, <1>8 DEF new, v

\* What the changes of an account's status leave alone
SameMoney(a, b) == b.base = a.base /\ b.quote = a.quote

LEMMA EnteredEffect ==
  ASSUME NEW a, IsAccount(a), slot \in Int, NEW b, b = Liquidation!EnteredLiquidation(a)
  PROVE  /\ IsAccount(b) /\ SameMoney(a, b) /\ Liquidation!IsBeingLiquidated(b)
         /\ Liquidation!IsBankrupt(b) <=> Liquidation!IsBankrupt(a)
         /\ Liquidation!IsBeingLiquidated(a) => b = a
         /\ ~Liquidation!IsBeingLiquidated(a) =>
               b.nextLiquidationId = a.nextLiquidationId + 1 /\ b.marginFreed = 0
<1>1. CASE Liquidation!IsBeingLiquidated(a)
  BY <1>1 DEF Liquidation!EnteredLiquidation, SameMoney
<1>2. CASE ~Liquidation!IsBeingLiquidated(a)
  <2>1. b = [a EXCEPT !.status = @ \cup {"BeingLiquidated"}, !.marginFreed = 0,
                      !.lastActiveSlot = slot, !.nextLiquidationId = @ + 1]
    BY <1>2 DEF Liquidation!EnteredLiquidation
  <2>2. /\ b = [f \in AccountFields |-> b[f]] /\ b.base = a.base /\ b.quote = a.quote
        /\ b.marginFreed = 0 /\ b.lastActiveSlot = slot /\ b.nextLiquidationId = a.nextLiquidationId + 1
        /\ b.status = a.status \cup {"BeingLiquidated"}
    BY <2>1 DEF IsAccount, AccountFields
  <2>. QED  BY <1>2, <2>2 DEF IsAccount, SameMoney, Liquidation!IsBankrupt, Liquidation!IsBeingLiquidated
<1>. QED
  BY <1>1, <1>2

LEMMA ExitedEffect ==
  ASSUME NEW a, IsAccount(a), NEW b, b = Liquidation!ExitedLiquidation(a)
  PROVE  /\ IsAccount(b) /\ SameMoney(a, b)
         /\ ~Liquidation!IsBankrupt(b) /\ ~Liquidation!IsBeingLiquidated(b) /\ b.marginFreed = 0
<1>1. /\ b = [f \in AccountFields |-> b[f]] /\ b.base = a.base /\ b.quote = a.quote
      /\ b.marginFreed = 0 /\ b.lastActiveSlot = a.lastActiveSlot
      /\ b.nextLiquidationId = a.nextLiquidationId
      /\ b.status = a.status \ {"BeingLiquidated", "Bankrupt"}
  BY DEF Liquidation!ExitedLiquidation, IsAccount, AccountFields
<1>. QED
  BY <1>1 DEF IsAccount, SameMoney, Liquidation!IsBankrupt, Liquidation!IsBeingLiquidated

LEMMA ActiveEffect ==
  ASSUME NEW a, IsAccount(a), slot \in Int, NEW b, b = Liquidation!Active(a)
  PROVE  /\ IsAccount(b) /\ SameMoney(a, b)
         /\ Liquidation!IsBankrupt(b) <=> Liquidation!IsBankrupt(a)
         /\ Liquidation!IsBeingLiquidated(b) <=> Liquidation!IsBeingLiquidated(a)
         /\ Liquidation!IsBeingLiquidated(a) => b = a
         /\ b.marginFreed = a.marginFreed
<1>1. CASE Liquidation!IsBeingLiquidated(a)
  BY <1>1 DEF Liquidation!Active, SameMoney
<1>2. CASE ~Liquidation!IsBeingLiquidated(a)
  <2>1. b = [a EXCEPT !.lastActiveSlot = slot]
    BY <1>2 DEF Liquidation!Active
  <2>2. /\ b = [f \in AccountFields |-> b[f]] /\ b.base = a.base /\ b.quote = a.quote
        /\ b.marginFreed = a.marginFreed /\ b.lastActiveSlot = slot
        /\ b.nextLiquidationId = a.nextLiquidationId /\ b.status = a.status
    BY <2>1 DEF IsAccount, AccountFields
  <2>. QED  BY <1>2, <2>2 DEF IsAccount, SameMoney, Liquidation!IsBankrupt, Liquidation!IsBeingLiquidated
<1>. QED
  BY <1>1, <1>2

LEMMA BankruptcyEffect ==
  ASSUME NEW a, IsAccount(a), NEW b, b = Liquidation!EnteredBankruptcy(a)
  PROVE  /\ IsAccount(b) /\ SameMoney(a, b) /\ Liquidation!IsBankrupt(b)
         /\ b.lastActiveSlot = a.lastActiveSlot /\ b.marginFreed = a.marginFreed
         /\ b.nextLiquidationId = a.nextLiquidationId
<1>1. /\ b = [f \in AccountFields |-> b[f]] /\ b.base = a.base /\ b.quote = a.quote
      /\ b.marginFreed = a.marginFreed /\ b.lastActiveSlot = a.lastActiveSlot
      /\ b.nextLiquidationId = a.nextLiquidationId
      /\ b.status = (a.status \ {"BeingLiquidated"}) \cup {"Bankrupt"}
  BY DEF Liquidation!EnteredBankruptcy, IsAccount, AccountFields
<1>. QED
  BY <1>1 DEF IsAccount, SameMoney, Liquidation!IsBankrupt

\* An account a whose quote changes by an amount
LEMMA QuoteEffect ==
  ASSUME NEW a, IsAccount(a), NEW amount \in Int, NEW b, b = [a EXCEPT !.quote = a.quote + amount]
  PROVE  /\ IsAccount(b) /\ b.base = a.base /\ b.quote = a.quote + amount
         /\ Liquidation!IsBankrupt(b) <=> Liquidation!IsBankrupt(a)
         /\ Liquidation!IsBeingLiquidated(b) <=> Liquidation!IsBeingLiquidated(a)
         /\ b.lastActiveSlot = a.lastActiveSlot /\ b.marginFreed = a.marginFreed
         /\ b.nextLiquidationId = a.nextLiquidationId
<1>1. /\ b = [f \in AccountFields |-> b[f]] /\ b.base = a.base /\ b.quote = a.quote + amount
      /\ b.marginFreed = a.marginFreed /\ b.lastActiveSlot = a.lastActiveSlot
      /\ b.nextLiquidationId = a.nextLiquidationId /\ b.status = a.status
  BY DEF IsAccount, AccountFields
<1>. QED
  BY <1>1 DEF IsAccount, Liquidation!IsBankrupt, Liquidation!IsBeingLiquidated

\* The clock of a liquidation, of an account that was a and is b
Clocked(a, b) ==
    /\ Liquidation!IsBeingLiquidated(a) /\ Liquidation!IsBeingLiquidated(b) =>
          /\ b.lastActiveSlot = a.lastActiveSlot
          /\ b.marginFreed >= a.marginFreed
          /\ b.nextLiquidationId = a.nextLiquidationId
    /\ ~Liquidation!IsBeingLiquidated(a) /\ Liquidation!IsBeingLiquidated(b) /\ ~Liquidation!IsBankrupt(b)
          => b.nextLiquidationId > a.nextLiquidationId

\* An account that may follow a, whose base and quote change as given
Follows(a, b, base, quote) ==
    /\ IsAccount(b) /\ Resolvable(b) /\ Clocked(a, b)
    /\ base \in Int /\ b.base = a.base + base
    /\ quote \in Int /\ b.quote = a.quote + quote

LEMMA PaidIn ==
  ASSUME NEW a, IsAccount(a), ~Liquidation!IsBankrupt(a), slot \in Int, NEW amount \in Int,
         NEW seen_, \/ seen_ = [a EXCEPT !.quote = a.quote + amount]
                   \/ seen_ = Liquidation!ExitedLiquidation([a EXCEPT !.quote = a.quote + amount])
  PROVE  Follows(a, Liquidation!Active(seen_), 0, amount)
<1>. DEFINE paid == [a EXCEPT !.quote = a.quote + amount]  b == Liquidation!Active(seen_)
<1>1. /\ IsAccount(paid) /\ paid.base = a.base /\ paid.quote = a.quote + amount
      /\ ~Liquidation!IsBankrupt(paid)
      /\ Liquidation!IsBeingLiquidated(paid) <=> Liquidation!IsBeingLiquidated(a)
      /\ paid.lastActiveSlot = a.lastActiveSlot /\ paid.marginFreed = a.marginFreed
      /\ paid.nextLiquidationId = a.nextLiquidationId
  BY QuoteEffect
<1>2. seen_ = paid \/ seen_ = Liquidation!ExitedLiquidation(paid)
  OBVIOUS
<1>. HIDE DEF paid
<1>3. /\ IsAccount(seen_) /\ SameMoney(paid, seen_) /\ ~Liquidation!IsBankrupt(seen_)
      /\ seen_ = paid \/ ~Liquidation!IsBeingLiquidated(seen_)
  BY <1>1, <1>2, ExitedEffect DEF SameMoney
<1>4. /\ IsAccount(b) /\ SameMoney(seen_, b) /\ ~Liquidation!IsBankrupt(b)
      /\ Liquidation!IsBeingLiquidated(b) <=> Liquidation!IsBeingLiquidated(seen_)
      /\ Liquidation!IsBeingLiquidated(seen_) => b = seen_
  BY <1>3, ActiveEffect
<1>. HIDE DEF b
<1>5. Clocked(a, b)
  BY <1>1, <1>3, <1>4 DEF Clocked, IsAccount
<1>. QED
  BY <1>1, <1>3, <1>4, <1>5 DEF Follows, Resolvable, SameMoney, IsAccount, b

\* The clocks of all liquidations
ClockStep == \A u \in Accounts : Clocked(accounts[u], accounts'[u])

LEMMA ClockedSame == ASSUME NEW a, IsAccount(a) PROVE Clocked(a, a)
BY DEF IsAccount, Clocked

LEMMA OneFollows ==
  ASSUME LiquidationInv, NEW u \in Accounts, NEW x, NEW quote \in Int,
         Follows(accounts[u], x, 0, quote), NEW k \in Int,
         accounts' = Put(accounts, u, x), wallets' = Put(wallets, u, k)
  PROVE  /\ Holdings(accounts', wallets') /\ \A v \in Accounts : Resolvable(accounts'[v])
         /\ ClockStep
         /\ BaseSum(accounts') = BaseSum(accounts)
         /\ WorthSum(accounts', wallets') = WorthSum(accounts, wallets) + quote + k - wallets[u]
<1>1. /\ Holdings(accounts, wallets) /\ \A v \in Accounts : IsAccount(accounts[v]) /\ Resolvable(accounts[v])
      /\ IsAccount(accounts[u]) /\ IsAccount(x) /\ Resolvable(x) /\ wallets[u] \in Int
      /\ x.base = accounts[u].base + 0 /\ x.quote = accounts[u].quote + quote
      /\ Clocked(accounts[u], x)
  BY DEF LiquidationInv, Holdings, Follows
<1>2. /\ Holdings(accounts', wallets')
      /\ BaseSum(accounts) \in Int /\ WorthSum(accounts, wallets) \in Int
      /\ BaseSum(accounts') = BaseSum(accounts) - accounts[u].base + x.base
      /\ WorthSum(accounts', wallets')
            = WorthSum(accounts, wallets) - (accounts[u].quote + wallets[u]) + (x.quote + k)
  BY <1>1, PutHoldings
<1>3. accounts'[u] = x /\ \A v \in Accounts : v # u => accounts'[v] = accounts[v]
  BY <1>1 DEF Holdings, Put
<1>4. ClockStep
  BY <1>1, <1>3, ClockedSame DEF ClockStep
<1>5. \A v \in Accounts : Resolvable(accounts'[v])
  BY <1>1, <1>3
<1>6. /\ accounts[u].base \in Int /\ accounts[u].quote \in Int /\ x.base \in Int /\ x.quote \in Int
  BY <1>1 DEF IsAccount
<1>. QED
  BY <1>1, <1>2, <1>4, <1>5, <1>6

\* What two accounts together receive
Moved(base, base2, quote, quote2) ==
    /\ BaseSum(accounts') = BaseSum(accounts) + base + base2
    /\ WorthSum(accounts', wallets') = WorthSum(accounts, wallets) + quote + quote2

LEMMA TwoFollow ==
  ASSUME LiquidationInv, NEW u \in Accounts, NEW v \in Accounts, u # v,
         NEW x, NEW base, NEW quote, Follows(accounts[u], x, base, quote),
         NEW y, NEW base2, NEW quote2, Follows(accounts[v], y, base2, quote2),
         accounts' = Put(Put(accounts, u, x), v, y), wallets' = wallets
  PROVE  /\ Holdings(accounts', wallets') /\ \A z \in Accounts : Resolvable(accounts'[z])
         /\ ClockStep /\ Moved(base, base2, quote, quote2)
<1>. DEFINE mid == Put(accounts, u, x)
<1>1. /\ Holdings(accounts, wallets) /\ \A z \in Accounts : IsAccount(accounts[z]) /\ Resolvable(accounts[z])
      /\ IsAccount(x) /\ Resolvable(x) /\ IsAccount(y) /\ Resolvable(y)
      /\ x.base = accounts[u].base + base /\ x.quote = accounts[u].quote + quote
      /\ y.base = accounts[v].base + base2 /\ y.quote = accounts[v].quote + quote2
      /\ Clocked(accounts[u], x) /\ Clocked(accounts[v], y)
      /\ base \in Int /\ quote \in Int /\ base2 \in Int /\ quote2 \in Int
      /\ wallets = [z \in Accounts |-> wallets[z]] /\ \A z \in Accounts : wallets[z] \in Int
  BY DEF LiquidationInv, Holdings, Follows
<1>2. Put(wallets, u, wallets[u]) = wallets /\ Put(wallets, v, wallets[v]) = wallets
  BY <1>1 DEF Put
<1>3. /\ Holdings(mid, wallets)
      /\ BaseSum(accounts) \in Int /\ WorthSum(accounts, wallets) \in Int
      /\ BaseSum(mid) = BaseSum(accounts) - accounts[u].base + x.base
      /\ WorthSum(mid, wallets)
            = WorthSum(accounts, wallets) - (accounts[u].quote + wallets[u]) + (x.quote + wallets[u])
  <2>1. wallets[u] \in Int
    BY <1>1
  <2>. HIDE DEF mid
  <2>2. mid = Put(accounts, u, x)
    BY DEF mid
  <2>3. Holdings(accounts, wallets) /\ IsAccount(x) /\ Put(wallets, u, wallets[u]) = wallets
    BY <1>1, <1>2
  <2>. QED  BY <2>1, <2>2, <2>3, PutHoldings
<1>4. mid[v] = accounts[v] /\ accounts' = Put(mid, v, y)
  BY <1>1 DEF Put, Holdings
<1>6. accounts'[u] = x /\ accounts'[v] = y /\ \A z \in Accounts \ {u, v} : accounts'[z] = accounts[z]
  BY <1>1 DEF Holdings, Put
<1>. HIDE DEF mid
<1>5. /\ Holdings(accounts', wallets)
      /\ BaseSum(mid) \in Int /\ WorthSum(mid, wallets) \in Int
      /\ BaseSum(accounts') = BaseSum(mid) - accounts[v].base + y.base
      /\ WorthSum(accounts', wallets)
            = WorthSum(mid, wallets) - (accounts[v].quote + wallets[v]) + (y.quote + wallets[v])
  <2>1. wallets[v] \in Int
    BY <1>1
  <2>. DEFINE new == Put(mid, v, y)
  <2>2. /\ Holdings(new, wallets)
        /\ BaseSum(mid) \in Int /\ WorthSum(mid, wallets) \in Int
        /\ BaseSum(new) = BaseSum(mid) - mid[v].base + y.base
        /\ WorthSum(new, wallets) = WorthSum(mid, wallets) - (mid[v].quote + wallets[v]) + (y.quote + wallets[v])
    <3>. HIDE DEF new
    <3>1. new = Put(mid, v, y)
      BY DEF new
    <3>2. Holdings(mid, wallets) /\ IsAccount(y) /\ Put(wallets, v, wallets[v]) = wallets
      BY <1>1, <1>2, <1>3
    <3>. QED  BY <2>1, <3>1, <3>2, PutHoldings
  <2>. QED  BY <1>4, <2>2
<1>7. ClockStep
  BY <1>1, <1>6, ClockedSame DEF ClockStep
<1>8. \A z \in Accounts : Resolvable(accounts'[z])
  BY <1>1, <1>6
<1>9. /\ accounts[u].base \in Int /\ accounts[u].quote \in Int /\ accounts[v].base \in Int
      /\ accounts[v].quote \in Int /\ wallets[u] \in Int /\ wallets[v] \in Int
  BY <1>1 DEF IsAccount
<1>10. BaseSum(accounts') = BaseSum(accounts) + base + base2
  BY <1>1, <1>3, <1>5, <1>9
<1>11. WorthSum(accounts', wallets) = WorthSum(accounts, wallets) + quote + quote2
  BY <1>1, <1>3, <1>5, <1>9
<1>. QED
  BY <1>5, <1>7, <1>8, <1>10, <1>11 DEF Moved

\* An action that leaves prices, clock and funds alone, and moves worth between accounts and wallets
LEMMA FundsKept ==
  ASSUME LiquidationInv, Holdings(accounts', wallets'), \A v \in Accounts : Resolvable(accounts'[v]),
         BaseSum(accounts') = BaseSum(accounts),
         WorthSum(accounts', wallets') = WorthSum(accounts, wallets),
         UNCHANGED <<price, slot, insurance>>
  PROVE  LiquidationInv'
BY DEF LiquidationInv

LEMMA PaymentKeeps ==
  ASSUME LiquidationInv, NEW u \in Accounts, NEW x, NEW quote \in Int, Follows(accounts[u], x, 0, quote),
         accounts' = Put(accounts, u, x), wallets' = Put(wallets, u, wallets[u] - quote),
         UNCHANGED <<price, slot, insurance>>
  PROVE  LiquidationInv' /\ ClockStep
<1>. DEFINE k == wallets[u] - quote
<1>1. /\ k \in Int /\ wallets[u] \in Int
      /\ BaseSum(accounts) \in Int /\ WorthSum(accounts, wallets) \in Int
  BY DEF LiquidationInv, Holdings
<1>2. wallets[u] = k + quote
  BY <1>1
<1>3. wallets' = Put(wallets, u, k)
  OBVIOUS
<1>. HIDE DEF k
<1>4. /\ Holdings(accounts', wallets') /\ \A v \in Accounts : Resolvable(accounts'[v])
      /\ ClockStep
      /\ BaseSum(accounts') = BaseSum(accounts)
      /\ WorthSum(accounts', wallets') = WorthSum(accounts, wallets) + quote + k - wallets[u]
  BY <1>1, <1>3, OneFollows
<1>. QED
  BY <1>1, <1>2, <1>4, FundsKept

LEMMA DepositKeeps ==
  ASSUME LiquidationInv, NEW u \in Accounts, NEW amount \in Payments, Liquidation!Deposit(u, amount)
  PROVE  LiquidationInv' /\ ClockStep
<1>. DEFINE a == accounts[u]  paid == [a EXCEPT !.quote = @ + amount]
            seen_ == IF Liquidation!IsBeingLiquidated(paid)
                         /\ Liquidation!CanExitLiquidation(Liquidation!LiquidationMargin(paid))
                     THEN Liquidation!ExitedLiquidation(paid) ELSE paid
            x == Liquidation!Active(seen_)
<1>1. /\ ~Liquidation!IsBankrupt(a) /\ accounts' = Put(accounts, u, x)
      /\ wallets' = Put(wallets, u, wallets[u] - amount) /\ UNCHANGED <<price, slot, insurance>>
  BY DEF Liquidation!Deposit, Put
<1>2. IsAccount(a) /\ slot \in Int /\ amount \in Int
  BY NormalAssumption DEF LiquidationInv, Holdings
<1>3. seen_ = paid \/ seen_ = Liquidation!ExitedLiquidation(paid)
  OBVIOUS
<1>. HIDE DEF seen_
<1>4. Follows(a, x, 0, amount)
  BY <1>1, <1>2, <1>3, PaidIn
<1>. HIDE DEF x
<1>. QED
  BY <1>1, <1>2, <1>4, PaymentKeeps

\* Whoever pays out is not being liquidated any more, unless bankrupt.
LEMMA PaidOutFollows ==
  ASSUME NEW a, IsAccount(a), ~Liquidation!IsBankrupt(a), slot \in Int, NEW amount \in Int,
         NEW left, left = [a EXCEPT !.quote = a.quote - amount]
  PROVE  Follows(a, Liquidation!PaidOut(left), 0, -amount)
<1>. DEFINE n == -amount  paid == [a EXCEPT !.quote = a.quote + n]
            seen_ == IF Liquidation!IsBeingLiquidated(paid) THEN Liquidation!ExitedLiquidation(paid) ELSE paid
<1>1. n \in Int /\ left = paid
  BY DEF IsAccount
<1>2. Liquidation!PaidOut(left) = Liquidation!Active(seen_)
  BY <1>1 DEF Liquidation!PaidOut
<1>3. seen_ = paid \/ seen_ = Liquidation!ExitedLiquidation(paid)
  OBVIOUS
<1>. HIDE DEF n, seen_
<1>4. Follows(a, Liquidation!Active(seen_), 0, n)
  BY <1>1, <1>3, PaidIn
<1>. QED
  BY <1>2, <1>4 DEF n

LEMMA WithdrawKeeps ==
  ASSUME LiquidationInv, NEW u \in Accounts, NEW amount \in Payments, Liquidation!Withdraw(u, amount)
  PROVE  LiquidationInv' /\ ClockStep
<1>. DEFINE a == accounts[u]  left == [a EXCEPT !.quote = @ - amount]  x == Liquidation!PaidOut(left)
            n == -amount
<1>1. /\ ~Liquidation!IsBankrupt(a) /\ accounts' = Put(accounts, u, x)
      /\ wallets' = Put(wallets, u, wallets[u] + amount) /\ UNCHANGED <<price, slot, insurance>>
  BY DEF Liquidation!Withdraw, Put
<1>2. IsAccount(a) /\ slot \in Int /\ amount \in Int /\ wallets[u] \in Int
  BY NormalAssumption DEF LiquidationInv, Holdings
<1>3. Follows(a, x, 0, -amount)
  BY <1>1, <1>2, PaidOutFollows
<1>4. n \in Int /\ wallets[u] + amount = wallets[u] - n
  BY <1>2
<1>5. Follows(a, x, 0, n) /\ wallets' = Put(wallets, u, wallets[u] - n)
  BY <1>1, <1>3, <1>4
<1>. HIDE DEF x, n
<1>. QED
  BY <1>1, <1>4, <1>5, PaymentKeeps

LEMMA TransferKeeps ==
  ASSUME LiquidationInv, NEW u \in Accounts, NEW v \in Accounts, NEW amount \in Payments,
         Liquidation!Transfer(u, v, amount)
  PROVE  LiquidationInv' /\ ClockStep
<1>. DEFINE a == accounts[u]  left == [a EXCEPT !.quote = @ - amount]  x == Liquidation!PaidOut(left)
            b == accounts[v]  paid == [b EXCEPT !.quote = b.quote + amount]  y == Liquidation!Active(paid)
            n == -amount
<1>1. /\ u # v /\ ~Liquidation!IsBankrupt(a) /\ ~Liquidation!IsBankrupt(b)
      /\ accounts' = Put(Put(accounts, u, x), v, y)
      /\ wallets' = wallets /\ UNCHANGED <<price, slot, insurance>>
  BY DEF Liquidation!Transfer, Put
<1>2. IsAccount(a) /\ IsAccount(b) /\ slot \in Int /\ amount \in Int
      /\ BaseSum(accounts) \in Int /\ WorthSum(accounts, wallets) \in Int
  BY NormalAssumption DEF LiquidationInv, Holdings
<1>3. Follows(a, x, 0, -amount)
  BY <1>1, <1>2, PaidOutFollows
<1>4. Follows(b, y, 0, amount)
  BY <1>1, <1>2, PaidIn
<1>5. n \in Int /\ n + amount = 0
  BY <1>2
<1>. DEFINE none == 0
<1>6. Follows(accounts[u], x, none, n) /\ Follows(accounts[v], y, none, amount)
  BY <1>3, <1>4
<1>7. none = 0
  OBVIOUS
<1>. HIDE DEF x, y, n, none
<1>8. /\ Holdings(accounts', wallets') /\ \A z \in Accounts : Resolvable(accounts'[z])
      /\ ClockStep /\ Moved(none, none, n, amount)
  <2>1. /\ u # v /\ n \in Int /\ amount \in Int /\ wallets' = wallets
        /\ accounts' = Put(Put(accounts, u, x), v, y)
    BY <1>1, <1>2, <1>5
  <2>. QED  BY <1>6, <2>1, TwoFollow
<1>9. /\ BaseSum(accounts') = BaseSum(accounts)
      /\ WorthSum(accounts', wallets') = WorthSum(accounts, wallets)
  BY <1>2, <1>5, <1>7, <1>8 DEF Moved
<1>. QED
  BY <1>1, <1>8, <1>9, FundsKept

\* A change of status alone
LEMMA StatusKeeps ==
  ASSUME LiquidationInv, NEW u \in Accounts, NEW x, Follows(accounts[u], x, 0, 0),
         accounts' = [accounts EXCEPT ![u] = x], UNCHANGED <<wallets, price, slot, insurance>>
  PROVE  LiquidationInv' /\ ClockStep
<1>. DEFINE none == 0
<1>1. none \in Int /\ wallets[u] \in Int /\ wallets = [v \in Accounts |-> wallets[v]]
  BY DEF LiquidationInv, Holdings
<1>2. accounts' = Put(accounts, u, x) /\ wallets' = Put(wallets, u, wallets[u] - none)
  BY <1>1 DEF Put
<1>3. Follows(accounts[u], x, 0, none)
  OBVIOUS
<1>. HIDE DEF none
<1>. QED
  BY <1>1, <1>2, <1>3, PaymentKeeps

LEMMA ExitFollows ==
  ASSUME NEW a, IsAccount(a)
  PROVE  Follows(a, Liquidation!ExitedLiquidation(a), 0, 0)
BY ExitedEffect DEF Follows, Clocked, Resolvable, SameMoney, IsAccount

LEMMA EnterFollows ==
  ASSUME NEW a, IsAccount(a), Resolvable(a), slot \in Int
  PROVE  Follows(a, Liquidation!EnteredLiquidation(a), 0, 0)
BY EnteredEffect DEF Follows, Clocked, Resolvable, SameMoney, IsAccount

-----------------------------------------------------------------------------
(* The amounts of a liquidation are whole. *)

LEMMA MarginTyped ==
  ASSUME NEW a, IsAccount(a), price \in Nat, NEW m, m = Liquidation!LiquidationMargin(a)
  PROVE  Liquidation!MarginShortage(m) \in Nat
<1>. DEFINE size == Liquidation!Magnitude(a.base)  l == size * price
            r == (l * MaintenanceRatio) \div MARGIN_PRECISION  e == (l * Buffer) \div MARGIN_PRECISION
<1>1. a.base \in Int /\ a.quote \in Int /\ MaintenanceRatio \in Nat /\ Buffer \in Nat
      /\ MARGIN_PRECISION \in Nat \ {0}
  BY NormalAssumption DEF IsAccount
<1>2. size \in Nat
  BY <1>1 DEF Liquidation!Magnitude, Liquidation!Most
<1>3. a.base * price \in Int /\ l \in Nat
  <2>. HIDE DEF size
  <2>. QED  BY <1>1, <1>2
<1>4. r \in Int /\ e \in Int
  <2>. HIDE DEF l
  <2>1. l * MaintenanceRatio \in Int /\ l * Buffer \in Int
    BY <1>1, <1>3
  <2>. QED  BY <1>1, <2>1
<1>5. m.totalCollateral = a.quote + a.base * price /\ m.plusBuffer = r + e
  BY DEF Liquidation!LiquidationMargin, Liquidation!MarginCalculation
<1>. HIDE DEF r, e
<1>6. m.totalCollateral \in Int /\ m.plusBuffer \in Int
  BY <1>1, <1>3, <1>4, <1>5
<1>. QED
  BY <1>6 DEF Liquidation!MarginShortage, Liquidation!Magnitude, Liquidation!Most

LEMMA StandardizedTyped ==
  ASSUME NEW n \in Int, NEW step \in Nat \ {0}
  PROVE  Liquidation!Standardized(n, step) \in Int /\ Liquidation!StandardizedUp(n, step) \in Int
BY DEF Liquidation!Standardized, Liquidation!StandardizedUp

LEMMA FeeRatioTyped == ASSUME NEW r \in Nat PROVE Liquidation!FeeRatio(r) \in Nat
<1>1. /\ LIQUIDATION_FEE_PRECISION \in Nat /\ MARGIN_PRECISION \in Nat \ {0}
  BY NormalAssumption
<1>2. LIQUIDATION_FEE_PRECISION \div MARGIN_PRECISION \in Nat
  BY <1>1
<1>. QED
  BY <1>2 DEF Liquidation!FeeRatio

LEMMA NaturalQuotient == ASSUME NEW a \in Nat, NEW d \in Nat \ {0} PROVE a \div d \in Nat
OBVIOUS

\* The fee of the insurance fund leaves some of the margin beyond the liquidator's fee.
LEMMA IfFeeTyped ==
  ASSUME NEW shortage \in Nat, NEW size \in Nat, NEW ratio \in Nat, price \in Nat,
         NEW fee, fee = Liquidation!VaultIfFee(shortage, size, ratio, LiquidatorFee, price, MaxIfFee)
  PROVE  /\ fee \in Nat
         /\ Liquidation!FeeRatio(ratio) > LiquidatorFee => fee < Liquidation!FeeRatio(ratio) - LiquidatorFee
<1>. DEFINE rest == Liquidation!FeeRatio(ratio) - LiquidatorFee
            q == ((shortage * LIQUIDATION_FEE_PRECISION) \div size) \div price
            left == Liquidation!Most(0, Liquidation!FeeRatio(ratio) - LiquidatorFee - q)
<1>0. /\ Liquidation!FeeRatio(ratio) \in Nat /\ LiquidatorFee \in Nat /\ MaxIfFee \in Nat
      /\ LIQUIDATION_FEE_PRECISION \in Nat
  BY FeeRatioTyped, NormalAssumption
<1>1. CASE price = 0 \/ Liquidation!FeeRatio(ratio) <= LiquidatorFee \/ size = 0
  BY <1>0, <1>1 DEF Liquidation!VaultIfFee
<1>2. CASE ~(price = 0 \/ Liquidation!FeeRatio(ratio) <= LiquidatorFee \/ size = 0)
  <2>1. fee = Liquidation!Least(MaxIfFee, (left * 19) \div 20)
    BY <1>2 DEF Liquidation!VaultIfFee
  <2>2. q \in Nat
    <3>1. shortage * LIQUIDATION_FEE_PRECISION \in Nat
      BY <1>0
    <3>2. (shortage * LIQUIDATION_FEE_PRECISION) \div size \in Nat
      BY <1>2, <3>1, NaturalQuotient
    <3>. QED  BY <1>2, <3>2, NaturalQuotient
  <2>. HIDE DEF q
  <2>3. rest \in Nat \ {0} /\ left \in Nat /\ left <= rest
    BY <1>0, <1>2, <2>2 DEF Liquidation!Most
  <2>. HIDE DEF rest, left
  <2>4. (left * 19) \div 20 \in Nat /\ (left * 19) \div 20 < rest
    BY <2>3
  <2>5. fee \in Nat /\ fee <= (left * 19) \div 20
    <3>. DEFINE z == (left * 19) \div 20
    <3>1. z \in Nat /\ fee = Liquidation!Least(MaxIfFee, z)
      BY <2>1, <2>4
    <3>. HIDE DEF z
    <3>2. fee \in Nat /\ fee <= z
      BY <1>0, <3>1 DEF Liquidation!Least
    <3>. QED  BY <3>2 DEF z
  <2>6. fee < rest
    BY <2>3, <2>4, <2>5
  <2>. QED  BY <2>5, <2>6 DEF rest
<1>. QED
  BY <1>1, <1>2

LEMMA ToCoverTyped ==
  ASSUME NEW shortage \in Nat, NEW size \in Nat, NEW ratio \in Nat, price \in Nat,
         NEW fee, fee = Liquidation!VaultIfFee(shortage, size, ratio, LiquidatorFee, price, MaxIfFee)
  PROVE  Liquidation!BaseToCoverShortage(shortage, ratio, LiquidatorFee, fee, price) \in Int
<1>. DEFINE rest == Liquidation!FeeRatio(ratio) - LiquidatorFee - fee
<1>0. /\ Liquidation!FeeRatio(ratio) \in Nat /\ LiquidatorFee \in Nat /\ LIQUIDATION_FEE_PRECISION \in Nat
  BY FeeRatioTyped, NormalAssumption
<1>1. CASE price = 0 \/ Liquidation!FeeRatio(ratio) <= LiquidatorFee
  BY <1>1 DEF Liquidation!BaseToCoverShortage, Liquidation!U64_MAX
<1>2. CASE ~(price = 0 \/ Liquidation!FeeRatio(ratio) <= LiquidatorFee)
  <2>1. fee \in Nat /\ fee < Liquidation!FeeRatio(ratio) - LiquidatorFee
    BY <1>0, <1>2, IfFeeTyped
  <2>2. rest \in Nat \ {0} /\ price \in Nat \ {0}
    BY <1>0, <1>2, <2>1
  <2>3. Liquidation!BaseToCoverShortage(shortage, ratio, LiquidatorFee, fee, price)
          = (shortage * LIQUIDATION_FEE_PRECISION) \div (price * rest)
    BY <1>2 DEF Liquidation!BaseToCoverShortage
  <2>. HIDE DEF rest
  <2>4. price * rest \in Nat \ {0} /\ shortage * LIQUIDATION_FEE_PRECISION \in Nat
    BY <1>0, <2>2
  <2>5. (shortage * LIQUIDATION_FEE_PRECISION) \div (price * rest) \in Nat
    BY <2>4, NaturalQuotient
  <2>. QED  BY <2>3, <2>5
<1>. QED
  BY <1>1, <1>2

LEMMA MaxPctTyped ==
  ASSUME NEW a, IsAccount(a), NEW shortage \in Nat, slot \in Int
  PROVE  Liquidation!MaxPctToLiquidate(a, shortage, slot, InitialPct, Duration) \in Int
<1>0. /\ a.lastActiveSlot \in Int /\ a.marginFreed \in Int /\ LIQUIDATION_PCT_PRECISION \in Nat \ {0}
      /\ FIFTY \in Nat \ {0} /\ InitialPct \in Nat /\ Duration \in Nat
  BY NormalAssumption DEF IsAccount
<1>1. CASE shortage < FIFTY
  BY <1>0, <1>1 DEF Liquidation!MaxPctToLiquidate
<1>2. CASE ~(shortage < FIFTY)
  <2>. DEFINE s == (slot - a.lastActiveSlot) * LIQUIDATION_PCT_PRECISION
              elapsed == IF Duration = 0 THEN LIQUIDATION_PCT_PRECISION ELSE s \div Duration
              freeable == Liquidation!Least(elapsed + InitialPct, LIQUIDATION_PCT_PRECISION)
              p == (shortage + a.marginFreed) * freeable
              most == p \div LIQUIDATION_PCT_PRECISION
              f == Liquidation!Most(0, most - a.marginFreed) * LIQUIDATION_PCT_PRECISION
  <2>1. s \in Int
    BY <1>0
  <2>2. elapsed \in Int
    <3>. HIDE DEF s
    <3>. QED  BY <1>0, <2>1
  <2>3. freeable \in Int
    <3>. HIDE DEF elapsed
    <3>. QED  BY <1>0, <2>2 DEF Liquidation!Least
  <2>4. p \in Int
    <3>. HIDE DEF freeable
    <3>. QED  BY <1>0, <2>3
  <2>5. most \in Int
    <3>. HIDE DEF p
    <3>. QED  BY <1>0, <2>4
  <2>6. f \in Int
    <3>. HIDE DEF most
    <3>1. Liquidation!Most(0, most - a.marginFreed) \in Int
      BY <1>0, <2>5 DEF Liquidation!Most
    <3>. QED  BY <1>0, <3>1
  <2>7. Liquidation!MaxPctToLiquidate(a, shortage, slot, InitialPct, Duration) = f \div shortage
    BY <1>2 DEF Liquidation!MaxPctToLiquidate
  <2>8. shortage \in Nat \ {0}
    BY <1>0, <1>2
  <2>. HIDE DEF f
  <2>. QED  BY <2>6, <2>7, <2>8
<1>. QED
  BY <1>1, <1>2

LEMMA TransferTyped ==
  ASSUME NEW size \in Int, NEW most \in Int, NEW allowed \in Int, price \in Nat, NEW step \in Nat \ {0}
  PROVE  Liquidation!BaseToTransfer(size, most, allowed, price, step) \in Int
<1>. DEFINE whole == IF size * price > FIFTY THEN 0 ELSE size
            n == Liquidation!Least(Liquidation!Least(size, most), Liquidation!Most(allowed, whole))
<1>1. whole \in Int
  OBVIOUS
<1>2. n \in Int
  <2>. HIDE DEF whole
  <2>. QED  BY <1>1 DEF Liquidation!Least, Liquidation!Most
<1>. HIDE DEF n
<1>3. Liquidation!BaseToTransfer(size, most, allowed, price, step) = Liquidation!StandardizedUp(n, step)
  BY DEF Liquidation!BaseToTransfer, n
<1>. QED
  BY <1>2, <1>3, StandardizedTyped

LEMMA FeeTyped ==
  ASSUME NEW amount \in Int, NEW fee \in Int, price \in Nat
  PROVE  Liquidation!FeeOf(amount, fee) \in Int
<1>1. amount * price * fee \in Int /\ LIQUIDATION_FEE_PRECISION \in Nat \ {0}
  <2>1. amount * price \in Int
    OBVIOUS
  <2>. QED  BY <2>1, NormalAssumption
<1>. QED
  BY <1>1 DEF Liquidation!FeeOf

-----------------------------------------------------------------------------
(* The calls that liquidate *)

\* How a liquidation leaves the account that it takes from
LEMMA LiquidatedFollows ==
  ASSUME NEW a, IsAccount(a), ~Liquidation!IsBankrupt(a), slot \in Int, price \in Nat,
         NEW entered, entered = Liquidation!EnteredLiquidation(a),
         NEW left, IsAccount(left), left.status = entered.status, left.marginFreed = entered.marginFreed,
         left.lastActiveSlot = entered.lastActiveSlot, left.nextLiquidationId = entered.nextLiquidationId,
         NEW base \in Int, left.base = a.base + base, NEW quote \in Int, left.quote = a.quote + quote,
         NEW shortage \in Nat, NEW covered \in BOOLEAN
  PROVE  Follows(a, Liquidation!Liquidated(entered, left, shortage, covered), base, quote)
<1>. DEFINE freed == Liquidation!Most(0, shortage - Liquidation!MarginShortage(Liquidation!LiquidationMargin(left)))
            told == [left EXCEPT !.marginFreed = @ + freed]
            x == Liquidation!Liquidated(entered, left, shortage, covered)
<1>1. freed \in Nat
  <2>1. Liquidation!MarginShortage(Liquidation!LiquidationMargin(left)) \in Nat
    BY MarginTyped
  <2>. QED  BY <2>1 DEF Liquidation!Most
<1>. HIDE DEF freed
<1>2. /\ IsAccount(entered) /\ ~Liquidation!IsBankrupt(entered) /\ Liquidation!IsBeingLiquidated(entered)
      /\ Liquidation!IsBeingLiquidated(a) => entered = a
      /\ ~Liquidation!IsBeingLiquidated(a) => entered.nextLiquidationId = a.nextLiquidationId + 1
  BY EnteredEffect
<1>3. /\ IsAccount(told) /\ told.base = left.base /\ told.quote = left.quote
      /\ told.status = entered.status /\ told.marginFreed >= entered.marginFreed
      /\ told.lastActiveSlot = entered.lastActiveSlot /\ told.nextLiquidationId = entered.nextLiquidationId
  <2>1. /\ told = [f \in AccountFields |-> told[f]] /\ told.base = left.base /\ told.quote = left.quote
        /\ told.marginFreed = left.marginFreed + freed /\ told.lastActiveSlot = left.lastActiveSlot
        /\ told.nextLiquidationId = left.nextLiquidationId /\ told.status = left.status
    BY DEF IsAccount, AccountFields
  <2>. HIDE DEF told
  <2>. QED  BY <1>1, <2>1 DEF IsAccount
<1>4. /\ covered => x = Liquidation!ExitedLiquidation(told)
      /\ ~covered /\ Liquidation!IsUserBankrupt(told) => x = Liquidation!EnteredBankruptcy(told)
      /\ ~covered /\ ~Liquidation!IsUserBankrupt(told) => x = told
  BY DEF Liquidation!Liquidated, freed
<1>. HIDE DEF told, x
<1>5. CASE covered
  <2>1. IsAccount(x) /\ SameMoney(told, x) /\ ~Liquidation!IsBankrupt(x) /\ ~Liquidation!IsBeingLiquidated(x)
    BY <1>3, <1>4, <1>5, ExitedEffect
  <2>. QED  BY <1>3, <2>1 DEF Follows, Resolvable, Clocked, SameMoney, x
<1>6. CASE ~covered /\ Liquidation!IsUserBankrupt(told)
  <2>1. /\ IsAccount(x) /\ SameMoney(told, x) /\ Liquidation!IsBankrupt(x)
        /\ x.lastActiveSlot = told.lastActiveSlot /\ x.marginFreed = told.marginFreed
        /\ x.nextLiquidationId = told.nextLiquidationId
    BY <1>3, <1>4, <1>6, BankruptcyEffect
  <2>2. x.base = 0 /\ x.quote < 0
    BY <1>6, <2>1 DEF Liquidation!IsUserBankrupt, SameMoney
  <2>3. Clocked(a, x)
    BY <1>2, <1>3, <2>1 DEF Clocked
  <2>. QED  BY <1>3, <2>1, <2>2, <2>3 DEF Follows, Resolvable, SameMoney, x
<1>7. CASE ~covered /\ ~Liquidation!IsUserBankrupt(told)
  <2>1. x = told /\ ~Liquidation!IsBankrupt(told)
    BY <1>2, <1>3, <1>4, <1>7 DEF Liquidation!IsBankrupt
  <2>2. Clocked(a, x)
    BY <1>2, <1>3, <2>1 DEF Clocked, IsAccount
  <2>. QED  BY <1>3, <2>1, <2>2 DEF Follows, Resolvable, x
<1>. QED
  BY <1>5, <1>6, <1>7

LEMMA AcquiredFollows ==
  ASSUME NEW b, IsAccount(b), ~Liquidation!IsBankrupt(b), price \in Nat,
         NEW side \in Int, NEW amount \in Int, NEW fee \in Int
  PROVE  Follows(b, Liquidation!Acquired(b, side, amount, fee), side * amount, fee - side * amount * price)
<1>. DEFINE g == side * amount  m == side * amount * price  y == Liquidation!Acquired(b, side, amount, fee)
<1>1. g \in Int /\ m \in Int
  <2>1. g \in Int
    OBVIOUS
  <2>2. m = g * price
    OBVIOUS
  <2>. HIDE DEF g, m
  <2>. QED  BY <2>1, <2>2
<1>2. y = [b EXCEPT !.base = b.base + g, !.quote = b.quote - m + fee]
  BY DEF Liquidation!Acquired, IsAccount, AccountFields
<1>. HIDE DEF g, m, y
<1>3. /\ y = [f \in AccountFields |-> y[f]] /\ y.base = b.base + g /\ y.quote = b.quote - m + fee
      /\ y.marginFreed = b.marginFreed /\ y.lastActiveSlot = b.lastActiveSlot
      /\ y.nextLiquidationId = b.nextLiquidationId /\ y.status = b.status
  BY <1>2 DEF IsAccount, AccountFields
<1>4. /\ IsAccount(y) /\ ~Liquidation!IsBankrupt(y)
      /\ Liquidation!IsBeingLiquidated(y) <=> Liquidation!IsBeingLiquidated(b)
  <2>1. IsAccount(y)
    <3>1. /\ b.base \in Int /\ b.quote \in Int /\ b.marginFreed \in Int /\ b.lastActiveSlot \in Int
          /\ b.nextLiquidationId \in Int
      BY DEF IsAccount
    <3>2. b.base + g \in Int /\ b.quote - m + fee \in Int
      BY <1>1, <3>1
    <3>. QED  BY <1>3, <3>1, <3>2 DEF IsAccount
  <2>. QED  BY <1>3, <2>1 DEF Liquidation!IsBankrupt, Liquidation!IsBeingLiquidated
<1>5. Clocked(b, y)
  BY <1>3, <1>4 DEF Clocked, IsAccount
<1>6. fee - m \in Int /\ y.quote = b.quote + (fee - m)
  BY <1>1, <1>3 DEF IsAccount
<1>7. Follows(b, y, g, fee - m)
  BY <1>1, <1>3, <1>4, <1>5, <1>6 DEF Follows, Resolvable
<1>. QED
  BY <1>7 DEF g, m, y

LEMMA LiquidateKeeps ==
  ASSUME LiquidationInv, NEW u \in Accounts, NEW v \in Accounts, NEW max \in LiquidatorMaxima,
         Liquidation!LiquidateVault(u, v, max)
  PROVE  LiquidationInv' /\ ClockStep
<1>. DEFINE a == accounts[u]  b == accounts[v]
            entered  == Liquidation!EnteredLiquidation(a)
            size     == Liquidation!Magnitude(entered.base)
            shortage == Liquidation!MarginShortage(Liquidation!LiquidationMargin(entered))
            ratio    == MaintenanceRatio + Buffer
            ifFee    == Liquidation!VaultIfFee(shortage, size, ratio, LiquidatorFee, price, MaxIfFee)
            toCover  == Liquidation!StandardizedUp(
                            Liquidation!BaseToCoverShortage(shortage, ratio, LiquidatorFee, ifFee, price), OrderStep)
            pct      == Liquidation!MaxPctToLiquidate(entered, shortage, slot, InitialPct, Duration)
            allowed  == (toCover * pct) \div LIQUIDATION_PCT_PRECISION
            amount   == Liquidation!BaseToTransfer(size, Liquidation!Standardized(max, OrderStep), allowed, price, OrderStep)
            side     == IF entered.base > 0 THEN 1 ELSE -1
            f1       == Liquidation!FeeOf(amount, LiquidatorFee)
            f2       == Liquidation!FeeOf(amount, ifFee)
            left     == Liquidation!TakenOver(entered, amount, f1 + f2)
            taker    == Liquidation!Acquired(b, side, amount, f1)
            x        == Liquidation!Liquidated(entered, left, shortage, amount >= toCover)
<1>1. /\ u # v /\ ~Liquidation!IsBankrupt(a) /\ ~Liquidation!IsBankrupt(b)
      /\ UNCHANGED <<wallets, price, slot>>
      /\ allowed = 0 => accounts' = [accounts EXCEPT ![u] = entered] /\ UNCHANGED insurance
      /\ allowed # 0 => /\ accounts' = [accounts EXCEPT ![u] = x, ![v] = taker]
                        /\ insurance' = [insurance EXCEPT !.liquidationFees = @ + f2]
  BY DEF Liquidation!LiquidateVault, Liquidation!MayLiquidate
<1>2. /\ IsAccount(a) /\ IsAccount(b) /\ Resolvable(a) /\ price \in Nat /\ slot \in Int
      /\ BaseSum(accounts) \in Int /\ WorthSum(accounts, wallets) \in Int /\ InsuranceFit(insurance)
  BY DEF LiquidationInv, Holdings
<1>3. IsAccount(entered) /\ SameMoney(a, entered)
  BY <1>2, EnteredEffect
<1>. HIDE DEF entered
<1>4. /\ shortage \in Nat /\ ratio \in Nat /\ size \in Nat /\ side \in Int
  <2>1. MaintenanceRatio \in Nat /\ Buffer \in Nat /\ entered.base \in Int
    BY <1>3, NormalAssumption DEF IsAccount
  <2>. QED  BY <1>2, <1>3, <2>1, MarginTyped DEF Liquidation!Magnitude, Liquidation!Most
<1>. HIDE DEF shortage, ratio, size, side
<1>5. /\ ifFee \in Nat /\ Liquidation!BaseToCoverShortage(shortage, ratio, LiquidatorFee, ifFee, price) \in Int
  BY <1>2, <1>4, IfFeeTyped, ToCoverTyped
<1>. HIDE DEF ifFee
<1>6. OrderStep \in Nat \ {0} /\ LIQUIDATION_PCT_PRECISION \in Nat \ {0} /\ LiquidatorFee \in Int /\ max \in Int
  BY NormalAssumption
<1>7. toCover \in Int /\ pct \in Int
  BY <1>2, <1>3, <1>4, <1>5, <1>6, StandardizedTyped, MaxPctTyped
<1>. HIDE DEF toCover, pct
<1>8. allowed \in Int
  <2>1. toCover * pct \in Int
    BY <1>7
  <2>. QED  BY <1>6, <2>1
<1>. HIDE DEF allowed
<1>9. amount \in Int
  <2>1. Liquidation!Standardized(max, OrderStep) \in Int /\ size \in Int
    BY <1>4, <1>6, StandardizedTyped
  <2>. QED  BY <1>2, <1>6, <1>8, <2>1, TransferTyped
<1>. HIDE DEF amount
<1>10. f1 \in Int /\ f2 \in Int
  <2>1. ifFee \in Int
    BY <1>5
  <2>. QED  BY <1>2, <1>6, <1>9, <2>1, FeeTyped
<1>. HIDE DEF f1, f2
<1>11. CASE allowed = 0
  <2>1. Follows(a, entered, 0, 0)
    BY <1>2, EnterFollows DEF entered
  <2>. HIDE DEF a
  <2>2. accounts' = [accounts EXCEPT ![u] = entered] /\ UNCHANGED <<wallets, price, slot, insurance>>
    BY <1>1, <1>11
  <2>. QED  BY <2>1, <2>2, StatusKeeps DEF a
<1>12. CASE allowed # 0
  <2>. DEFINE g == side * amount  m == side * amount * price  n == -g
              q == m - (f1 + f2)  r == f1 - m
  <2>1. g \in Int /\ m \in Int /\ n \in Int /\ q \in Int /\ r \in Int
    <3>1. g \in Int
      BY <1>4, <1>9
    <3>2. m = g * price
      OBVIOUS
    <3>. HIDE DEF g
    <3>3. m \in Int
      BY <1>2, <3>1, <3>2
    <3>. HIDE DEF m
    <3>. QED  BY <1>10, <3>1, <3>3
  <2>2. left = [entered EXCEPT !.base = entered.base - g, !.quote = entered.quote + m - (f1 + f2)]
    BY <1>3 DEF Liquidation!TakenOver, IsAccount, AccountFields, side
  <2>3. Follows(b, taker, g, r)
    BY <1>1, <1>2, <1>4, <1>9, <1>10, AcquiredFollows
  <2>. HIDE DEF g, m, left, taker
  <2>4. /\ left = [f \in AccountFields |-> left[f]]
        /\ left.base = entered.base - g /\ left.quote = entered.quote + m - (f1 + f2)
        /\ left.marginFreed = entered.marginFreed /\ left.lastActiveSlot = entered.lastActiveSlot
        /\ left.nextLiquidationId = entered.nextLiquidationId /\ left.status = entered.status
    BY <1>3, <2>2 DEF IsAccount, AccountFields
  <2>5. IsAccount(left) /\ left.base = a.base + n /\ left.quote = a.quote + q
    <3>1. /\ entered.base \in Int /\ entered.quote \in Int /\ entered.marginFreed \in Int
          /\ entered.lastActiveSlot \in Int /\ entered.nextLiquidationId \in Int
          /\ entered.base = a.base /\ entered.quote = a.quote
      BY <1>3 DEF IsAccount, SameMoney
    <3>2. left.base \in Int /\ left.quote \in Int /\ left.base = a.base + n /\ left.quote = a.quote + q
      BY <1>10, <2>1, <2>4, <3>1
    <3>. QED  BY <2>4, <3>1, <3>2 DEF IsAccount
  <2>6. Follows(a, x, n, q)
    <3>. HIDE DEF n, q, a
    <3>1. entered = Liquidation!EnteredLiquidation(a)
      BY DEF entered
    <3>2. (amount >= toCover) \in BOOLEAN
      OBVIOUS
    <3>. QED  BY <1>1, <1>2, <1>4, <2>1, <2>4, <2>5, <3>1, <3>2, LiquidatedFollows
  <2>7. /\ n + g = 0 /\ q + r = -f2
    BY <1>10, <2>1
  <2>8. /\ accounts' = Put(Put(accounts, u, x), v, taker) /\ wallets' = wallets
        /\ insurance' = [insurance EXCEPT !.liquidationFees = @ + f2]
    BY <1>1, <1>12 DEF Put
  <2>. HIDE DEF n, q, r, x
  <2>9. /\ Holdings(accounts', wallets') /\ \A z \in Accounts : Resolvable(accounts'[z])
        /\ ClockStep /\ Moved(n, g, q, r)
    BY <1>1, <2>3, <2>6, <2>8, TwoFollow
  <2>10. /\ BaseSum(accounts') = BaseSum(accounts)
         /\ WorthSum(accounts', wallets') = WorthSum(accounts, wallets) - f2
    BY <1>2, <1>10, <2>1, <2>7, <2>9 DEF Moved
  <2>11. /\ insurance' = [f \in {"vault", "settled", "feePool", "liquidationFees", "socialLoss"} |-> insurance'[f]]
         /\ insurance'.vault = insurance.vault /\ insurance'.settled = insurance.settled
         /\ insurance'.feePool = insurance.feePool /\ insurance'.socialLoss = insurance.socialLoss
         /\ insurance'.liquidationFees = insurance.liquidationFees + f2
    BY <1>2, <2>8 DEF InsuranceFit
  <2>12. InsuranceFit(insurance') /\ Paid(insurance') = Paid(insurance) /\ insurance.liquidationFees \in Int
    BY <1>2, <1>10, <2>11 DEF InsuranceFit, Paid
  <2>. QED  BY <1>1, <1>2, <1>10, <2>9, <2>10, <2>11, <2>12 DEF LiquidationInv
<1>. QED
  BY <1>11, <1>12

\* Who pays for a loss: the fund what it may, then the fee pool, then everybody.
LEMMA LossPaid ==
  ASSUME InsuranceFit(insurance), NEW loss \in Nat, NEW claim, claim = MaxInsurance - insurance.settled,
         claim >= 0, NEW insured,
         insured = Liquidation!Least(Liquidation!Least(loss, Liquidation!Most(0, insurance.vault - 1)), claim),
         NEW fromFees, fromFees = Liquidation!Least(loss - insured, insurance.feePool),
         insurance' = [insurance EXCEPT !.vault = @ - insured, !.settled = @ + insured,
                                        !.feePool = @ - fromFees, !.socialLoss = @ + loss - insured - fromFees]
  PROVE  /\ InsuranceFit(insurance') /\ Paid(insurance') = Paid(insurance) + loss
         /\ insurance'.liquidationFees = insurance.liquidationFees
<1>. DEFINE i == insurance  j == insurance'
<1>1. /\ i.vault \in Int /\ i.settled \in Int /\ i.feePool \in Int /\ i.liquidationFees \in Int
      /\ i.socialLoss \in Int /\ i.vault >= 1 /\ i.settled <= MaxInsurance /\ i.feePool >= 0
      /\ i.vault + i.settled = InsuranceVault
      /\ i.feePool < FeePool => i.vault = 1 \/ i.settled = MaxInsurance
      /\ i.socialLoss > 0 => i.feePool = 0
      /\ MaxInsurance \in Nat /\ FeePool \in Nat
  BY NormalAssumption DEF InsuranceFit
<1>2. /\ j = [f \in {"vault", "settled", "feePool", "liquidationFees", "socialLoss"} |-> j[f]]
      /\ j.vault = i.vault - insured /\ j.settled = i.settled + insured
      /\ j.feePool = i.feePool - fromFees /\ j.socialLoss = i.socialLoss + loss - insured - fromFees
      /\ j.liquidationFees = i.liquidationFees
  BY DEF InsuranceFit
<1>. HIDE DEF i, j
<1>3. /\ insured \in Nat /\ insured <= i.vault - 1 /\ insured <= claim /\ insured <= loss
      /\ insured = loss \/ insured = i.vault - 1 \/ insured = claim
  BY <1>1 DEF Liquidation!Least, Liquidation!Most, i
<1>4. /\ fromFees \in Nat /\ fromFees <= i.feePool /\ fromFees <= loss - insured
      /\ fromFees = i.feePool \/ fromFees = loss - insured
  BY <1>1, <1>3 DEF Liquidation!Least, i
<1>5. claim = MaxInsurance - i.settled
  BY DEF i
<1>6. /\ j.vault \in Int /\ j.settled \in Int /\ j.feePool \in Int /\ j.liquidationFees \in Int
      /\ j.socialLoss \in Int /\ j.vault >= 1 /\ j.settled <= MaxInsurance /\ j.feePool >= 0
      /\ j.vault + j.settled = InsuranceVault
  BY <1>1, <1>2, <1>3, <1>4, <1>5
<1>7. ASSUME j.feePool < FeePool PROVE j.vault = 1 \/ j.settled = MaxInsurance
  <2>1. CASE fromFees = 0
    <3>1. i.feePool < FeePool
      BY <1>1, <1>2, <1>7, <2>1
    <3>. QED  BY <1>1, <1>2, <1>3, <1>5, <3>1
  <2>2. CASE fromFees # 0
    <3>1. insured = i.vault - 1 \/ insured = claim
      BY <1>3, <1>4, <2>2
    <3>. QED  BY <1>1, <1>2, <1>3, <1>5, <3>1
  <2>. QED  BY <2>1, <2>2
<1>8. j.socialLoss > 0 => j.feePool = 0
  BY <1>1, <1>2, <1>3, <1>4, <1>5
<1>9. j.settled + (FeePool - j.feePool) + j.socialLoss
        = i.settled + (FeePool - i.feePool) + i.socialLoss + loss
  BY <1>1, <1>2, <1>3, <1>4, <1>6
<1>. QED
  BY <1>2, <1>6, <1>7, <1>8, <1>9 DEF InsuranceFit, Paid, i, j

LEMMA OpenedSum ==
  /\ SumFunction([u \in Accounts |-> Opening[u].base]) \in Int
  /\ SumFunction([u \in Accounts |-> Opening[u].quote + Opening[u].wallet]) \in Int
<1>. DEFINE f == [u \in Accounts |-> Opening[u].base]  g == [u \in Accounts |-> Opening[u].quote + Opening[u].wallet]
<1>1. /\ DOMAIN f = Accounts /\ DOMAIN g = Accounts /\ IsFiniteSet(Accounts)
      /\ \A u \in Accounts : f[u] \in Int /\ g[u] \in Int
  BY NormalAssumption
<1>2. SumFunction(f) \in Int /\ SumFunction(g) \in Int
  <2>. HIDE DEF f, g
  <2>. QED  BY <1>1, SumWithout DEF SumFunction
<1>. QED
  BY <1>2

LEMMA ResolveKeeps ==
  ASSUME LiquidationInv, NEW u \in Accounts, NEW v \in Accounts, Liquidation!ResolveBankruptcy(u, v)
  PROVE  LiquidationInv' /\ ClockStep
<1>. DEFINE a == accounts[u]
            account == IF Liquidation!IsUserBankrupt(a) THEN Liquidation!EnteredBankruptcy(a) ELSE a
            loss    == -account.quote
            claim   == MaxInsurance - insurance.settled
            insured == Liquidation!Least(Liquidation!Least(loss, Liquidation!Most(0, insurance.vault - 1)), claim)
            fromFees == Liquidation!Least(loss - insured, insurance.feePool)
            cleared == [account EXCEPT !.quote = 0, !.socializedLoss = @ + loss]
            x == IF Liquidation!IsUserBankrupt(cleared) THEN cleared ELSE Liquidation!ExitedLiquidation(cleared)
<1>1. /\ Liquidation!IsBankrupt(account) /\ loss > 0 /\ claim >= 0
      /\ accounts' = [accounts EXCEPT ![u] = x]
      /\ insurance' = [insurance EXCEPT !.vault = @ - insured, !.settled = @ + insured,
                                        !.feePool = @ - fromFees, !.socialLoss = @ + loss - insured - fromFees]
      /\ UNCHANGED <<wallets, price, slot>>
  BY DEF Liquidation!ResolveBankruptcy
<1>2. /\ IsAccount(a) /\ Resolvable(a) /\ wallets = [z \in Accounts |-> wallets[z]] /\ wallets[u] \in Int
      /\ BaseSum(accounts) \in Int /\ WorthSum(accounts, wallets) \in Int
      /\ InsuranceFit(insurance)
  BY DEF LiquidationInv, Holdings
<1>3. IsAccount(account) /\ SameMoney(a, account)
  <2>1. CASE Liquidation!IsUserBankrupt(a)
    BY <1>2, <2>1, BankruptcyEffect
  <2>2. CASE ~Liquidation!IsUserBankrupt(a)
    BY <1>2, <2>2 DEF SameMoney
  <2>. QED  BY <2>1, <2>2
<1>. HIDE DEF account
<1>4. loss \in Nat /\ account.quote + loss = 0
  BY <1>1, <1>3 DEF IsAccount
<1>5. /\ InsuranceFit(insurance') /\ Paid(insurance') = Paid(insurance) + loss
      /\ insurance'.liquidationFees = insurance.liquidationFees
  <2>. HIDE DEF loss
  <2>. QED  BY <1>1, <1>2, <1>4, LossPaid
<1>6. /\ cleared = [f \in AccountFields |-> cleared[f]] /\ cleared.quote = 0 /\ cleared.base = account.base
      /\ cleared.marginFreed = account.marginFreed /\ cleared.lastActiveSlot = account.lastActiveSlot
      /\ cleared.nextLiquidationId = account.nextLiquidationId
  BY <1>3 DEF IsAccount, AccountFields
<1>7. IsAccount(cleared) /\ ~Liquidation!IsUserBankrupt(cleared)
  <2>. HIDE DEF cleared
  <2>. QED  BY <1>3, <1>6 DEF IsAccount, Liquidation!IsUserBankrupt
<1>8. Follows(a, x, 0, loss)
  <2>. HIDE DEF cleared
  <2>1. /\ IsAccount(x) /\ SameMoney(cleared, x) /\ ~Liquidation!IsBankrupt(x)
        /\ ~Liquidation!IsBeingLiquidated(x)
    BY <1>7, ExitedEffect
  <2>. HIDE DEF x, loss
  <2>2. a.base \in Int /\ x.base = a.base + 0 /\ x.quote = a.quote + loss
    BY <1>2, <1>3, <1>4, <1>6, <2>1 DEF SameMoney, IsAccount
  <2>. QED  BY <1>4, <2>1, <2>2 DEF Follows, Resolvable, Clocked
<1>9. accounts' = Put(accounts, u, x) /\ wallets' = Put(wallets, u, wallets[u])
  BY <1>1, <1>2 DEF Put
<1>. HIDE DEF x, loss
<1>10. /\ Holdings(accounts', wallets') /\ \A z \in Accounts : Resolvable(accounts'[z])
       /\ ClockStep
       /\ BaseSum(accounts') = BaseSum(accounts)
       /\ WorthSum(accounts', wallets') = WorthSum(accounts, wallets) + loss + wallets[u] - wallets[u]
  BY <1>2, <1>4, <1>8, <1>9, OneFollows
<1>11. WorthSum(accounts', wallets') = WorthSum(accounts, wallets) + loss
  BY <1>2, <1>4, <1>10
<1>12. Paid(insurance) \in Int /\ insurance.liquidationFees \in Int
  <2>1. InsuranceFit(insurance)
    BY <1>2
  <2>. QED  BY ONLY <2>1, NormalAssumption DEF InsuranceFit, Paid
<1>13. price \in Nat /\ slot \in Int /\ price' = price /\ slot' = slot
  BY <1>1 DEF LiquidationInv
<1>14. /\ BaseSum(accounts) = SumFunction([z \in Accounts |-> Opening[z].base])
       /\ WorthSum(accounts, wallets) + insurance.liquidationFees
             = SumFunction([z \in Accounts |-> Opening[z].quote + Opening[z].wallet]) + Paid(insurance)
  BY DEF LiquidationInv
<1>. DEFINE opened == SumFunction([z \in Accounts |-> Opening[z].quote + Opening[z].wallet])
<1>15. WorthSum(accounts', wallets') + insurance'.liquidationFees = opened + Paid(insurance')
  <2>1. opened \in Int
    BY OpenedSum
  <2>2. WorthSum(accounts, wallets) + insurance.liquidationFees = opened + Paid(insurance)
    BY <1>14
  <2>. HIDE DEF opened
  <2>. QED  BY <1>2, <1>4, <1>5, <1>11, <1>12, <2>1, <2>2
<1>16. BaseSum(accounts') \in Int /\ WorthSum(accounts', wallets') \in Int
  BY <1>2, <1>4, <1>10, <1>11
<1>. QED
  BY <1>5, <1>10, <1>13, <1>14, <1>15, <1>16 DEF LiquidationInv

LEMMA InitLiquidations == Liquidation!LiquidationInit => LiquidationInv
<1>. SUFFICES ASSUME Liquidation!LiquidationInit PROVE LiquidationInv
  OBVIOUS
<1>1. /\ accounts = [u \in Accounts |-> Liquidation!OpenedAccount(u)]
      /\ wallets = [u \in Accounts |-> Opening[u].wallet]
      /\ price \in Prices /\ slot = 0
      /\ insurance = [vault |-> InsuranceVault, settled |-> 0, feePool |-> FeePool,
                      liquidationFees |-> 0, socialLoss |-> 0]
  BY DEF Liquidation!LiquidationInit
<1>2. /\ \A u \in Accounts : Opening[u].base \in Int /\ Opening[u].quote \in Int /\ Opening[u].wallet \in Int
      /\ IsFiniteSet(Accounts) /\ price \in Nat
      /\ InsuranceVault \in Nat \ {0} /\ MaxInsurance \in Nat /\ FeePool \in Nat
  BY <1>1, NormalAssumption
<1>3. ASSUME NEW u \in Accounts
      PROVE  /\ IsAccount(accounts[u]) /\ Resolvable(accounts[u])
             /\ accounts[u].base = Opening[u].base /\ accounts[u].quote = Opening[u].quote
  <2>1. accounts[u] = [base |-> Opening[u].base, quote |-> Opening[u].quote, status |-> {}, marginFreed |-> 0,
                       lastActiveSlot |-> 0, nextLiquidationId |-> 0, socializedLoss |-> 0]
    BY <1>1 DEF Liquidation!OpenedAccount
  <2>2. /\ accounts[u] = [f \in AccountFields |-> accounts[u][f]]
        /\ accounts[u].base = Opening[u].base /\ accounts[u].quote = Opening[u].quote
        /\ accounts[u].status = {} /\ accounts[u].marginFreed = 0
        /\ accounts[u].lastActiveSlot = 0 /\ accounts[u].nextLiquidationId = 0
    BY <2>1 DEF AccountFields
  <2>. QED  BY <1>2, <2>2 DEF IsAccount, Resolvable, Liquidation!IsBankrupt
<1>4. Holdings(accounts, wallets)
  BY <1>1, <1>2, <1>3 DEF Holdings
<1>5. InsuranceFit(insurance) /\ Paid(insurance) = 0 /\ insurance.liquidationFees = 0
  BY <1>1, <1>2 DEF InsuranceFit, Paid
<1>. DEFINE f == [u \in Accounts |-> accounts[u].base]  f0 == [u \in Accounts |-> Opening[u].base]
            g == [u \in Accounts |-> accounts[u].quote + wallets[u]]
            g0 == [u \in Accounts |-> Opening[u].quote + Opening[u].wallet]
<1>6. f = f0 /\ g = g0
  <2>1. \A u \in Accounts : wallets[u] = Opening[u].wallet
    BY <1>1
  <2>. QED  BY <1>3, <2>1
<1>7. SumFunction(f0) \in Int /\ SumFunction(g0) \in Int
  BY OpenedSum
<1>8. BaseSum(accounts) = SumFunction(f0) /\ WorthSum(accounts, wallets) = SumFunction(g0)
  BY <1>6 DEF BaseSum, WorthSum
<1>9. slot \in Int
  BY <1>1
<1>. QED
  BY <1>2, <1>3, <1>4, <1>5, <1>7, <1>8, <1>9 DEF LiquidationInv

LEMMA NextLiquidations ==
  ASSUME LiquidationInv, [Liquidation!LiquidationNext]_liquidationVars
  PROVE  LiquidationInv' /\ ClockStep
<1>0. \A u \in Accounts : IsAccount(accounts[u]) /\ Resolvable(accounts[u])
  BY DEF LiquidationInv, Holdings
<1>1. ASSUME UNCHANGED <<accounts, wallets, insurance>>, price' \in Nat, slot' \in Int
      PROVE  LiquidationInv' /\ ClockStep
  BY <1>0, <1>1, ClockedSame DEF LiquidationInv, ClockStep
<1>2. ASSUME NEW u \in Accounts, NEW v \in Accounts, Liquidation!EndLiquidation(u, v)
      PROVE  LiquidationInv' /\ ClockStep
  <2>. DEFINE x == Liquidation!ExitedLiquidation(accounts[u])
  <2>1. accounts' = [accounts EXCEPT ![u] = x] /\ UNCHANGED <<wallets, price, slot, insurance>>
    BY <1>2 DEF Liquidation!EndLiquidation
  <2>2. Follows(accounts[u], x, 0, 0)
    BY <1>0, ExitFollows
  <2>. HIDE DEF x
  <2>. QED  BY <2>1, <2>2, StatusKeeps
<1>3. ASSUME NEW u \in Accounts, Liquidation!SetStatusToBeingLiquidated(u)
      PROVE  LiquidationInv' /\ ClockStep
  <2>. DEFINE x == Liquidation!EnteredLiquidation(accounts[u])
  <2>1. accounts' = [accounts EXCEPT ![u] = x] /\ UNCHANGED <<wallets, price, slot, insurance>>
    BY <1>3 DEF Liquidation!SetStatusToBeingLiquidated
  <2>2. slot \in Int
    BY DEF LiquidationInv
  <2>3. Follows(accounts[u], x, 0, 0)
    BY <1>0, <2>2, EnterFollows
  <2>. HIDE DEF x
  <2>. QED  BY <2>1, <2>3, StatusKeeps
<1>4. ASSUME \/ UNCHANGED liquidationVars \/ Liquidation!NextSlot
             \/ \E p \in Prices : Liquidation!SetPrice(p)
      PROVE  LiquidationInv' /\ ClockStep
  <2>1. price \in Nat /\ slot \in Int /\ Prices \subseteq Nat
    BY NormalAssumption DEF LiquidationInv
  <2>2. UNCHANGED <<accounts, wallets, insurance>> /\ price' \in Nat /\ slot' \in Int
    BY <1>4, <2>1 DEF liquidationVars, Liquidation!NextSlot, Liquidation!SetPrice
  <2>. QED  BY <1>1, <2>2
<1>. QED
  BY <1>2, <1>3, <1>4, DepositKeeps, WithdrawKeeps, TransferKeeps, LiquidateKeeps, ResolveKeeps
     DEF Liquidation!LiquidationNext

-----------------------------------------------------------------------------
(* How liquidations end, and how fast they go *)

\* LIQUIDATION_FEE_PRECISION is a multiple of MARGIN_PRECISION, whose quotient takes a ratio of a
\* margin to the precision of a fee.
FeesPerMargin == LIQUIDATION_FEE_PRECISION \div MARGIN_PRECISION

LEMMA FeesPerMarginFacts ==
  /\ FeesPerMargin \in Nat \ {0}
  /\ LIQUIDATION_FEE_PRECISION = FeesPerMargin * MARGIN_PRECISION
<1>1. /\ LIQUIDATION_FEE_PRECISION \in Nat \ {0} /\ MARGIN_PRECISION \in Nat \ {0}
      /\ LIQUIDATION_FEE_PRECISION % MARGIN_PRECISION = 0
  BY NormalAssumption, LiquidationAssumption
<1>2. LIQUIDATION_FEE_PRECISION = FeesPerMargin * MARGIN_PRECISION /\ FeesPerMargin \in Nat
  BY <1>1 DEF FeesPerMargin
<1>. QED
  BY <1>1, <1>2

\* A part of a liability, as a fee of it: a quotient takes less than the precision of a fee.
LEMMA RequirementBounds ==
  ASSUME NEW l \in Nat, NEW ratio \in Nat, NEW r, r = (l * ratio) \div MARGIN_PRECISION
  PROVE  /\ r \in Nat /\ Liquidation!FeeRatio(ratio) \in Nat
         /\ LIQUIDATION_FEE_PRECISION * r <= l * Liquidation!FeeRatio(ratio)
         /\ LIQUIDATION_FEE_PRECISION * r > l * Liquidation!FeeRatio(ratio) - LIQUIDATION_FEE_PRECISION
<1>. DEFINE q == FeesPerMargin  n == l * ratio
<1>1. q \in Nat \ {0} /\ LIQUIDATION_FEE_PRECISION = q * MARGIN_PRECISION
      /\ Liquidation!FeeRatio(ratio) = ratio * q
  BY FeesPerMarginFacts DEF Liquidation!FeeRatio, FeesPerMargin
<1>2. n \in Nat /\ MARGIN_PRECISION \in Nat \ {0}
  BY NormalAssumption
<1>3. l * (ratio * q) = n * q
  BY <1>1
<1>. HIDE DEF q, n
<1>4. r = n \div MARGIN_PRECISION
  BY DEF n
<1>5. r \in Nat /\ MARGIN_PRECISION * r <= n /\ n < MARGIN_PRECISION * r + MARGIN_PRECISION
  BY <1>2, <1>4
<1>. DEFINE m == MARGIN_PRECISION * r
<1>6. m \in Nat /\ m <= n /\ n < m + MARGIN_PRECISION
  BY <1>2, <1>5
<1>7. LIQUIDATION_FEE_PRECISION * r = q * m
  BY <1>1, <1>2, <1>5
<1>. HIDE DEF m
<1>8. q * m <= n * q /\ n * q < q * m + q * MARGIN_PRECISION
  BY <1>1, <1>2, <1>6
<1>9. ratio * q \in Nat /\ n * q \in Nat /\ q * m \in Nat /\ q * MARGIN_PRECISION \in Nat
  BY <1>1, <1>2, <1>6
<1>. QED
  BY <1>1, <1>3, <1>5, <1>7, <1>8, <1>9

\* A fee is at most its share of what the amount is worth, and less than one unit below it.
LEMMA FeeBounds ==
  ASSUME NEW amount \in Nat, NEW fee \in Nat, price \in Nat, NEW f, f = Liquidation!FeeOf(amount, fee)
  PROVE  /\ f \in Nat /\ amount * price \in Nat /\ (amount * price) * fee \in Nat
         /\ LIQUIDATION_FEE_PRECISION * f <= (amount * price) * fee
         /\ LIQUIDATION_FEE_PRECISION * f > (amount * price) * fee - LIQUIDATION_FEE_PRECISION
<1>. DEFINE w == amount * price  n == w * fee
<1>1. w \in Nat
  OBVIOUS
<1>2. f = n \div LIQUIDATION_FEE_PRECISION
  BY DEF Liquidation!FeeOf
<1>. HIDE DEF w
<1>3. n \in Nat /\ LIQUIDATION_FEE_PRECISION \in Nat \ {0}
  BY <1>1, NormalAssumption
<1>4. w * fee = n
  OBVIOUS
<1>. HIDE DEF n
<1>5. f \in Nat /\ LIQUIDATION_FEE_PRECISION * f <= n /\ LIQUIDATION_FEE_PRECISION * f > n - LIQUIDATION_FEE_PRECISION
  BY <1>2, <1>3
<1>. QED
  BY <1>1, <1>3, <1>4, <1>5 DEF w

-----------------------------------------------------------------------------
(* Whole steps *)

\* Two multiples of a step that are less than a step apart are in order.
LEMMA SameMultiple ==
  ASSUME NEW step \in Nat \ {0}, NEW x \in Int, NEW y \in Int, x % step = 0, y % step = 0, x < y + step
  PROVE  x <= y
<1>. DEFINE i == x \div step  j == y \div step
<1>1. i \in Int /\ j \in Int /\ x = step * i /\ y = step * j
  BY DEF i, j
<1>. HIDE DEF i, j
<1>2. step * i < step * (j + 1)
  BY <1>1
<1>3. i < j + 1
  BY <1>1, <1>2
<1>4. i <= j
  BY <1>1, <1>3
<1>5. step * i <= step * j
  BY <1>1, <1>4
<1>. QED
  BY <1>1, <1>5

LEMMA MultipleRest == ASSUME NEW step \in Nat \ {0}, NEW k \in Int PROVE (step * k) % step = 0
<1>. DEFINE n == step * k  d == n \div step  r == n % step  e == k - d
<1>1. n \in Int
  OBVIOUS
<1>2. d \in Int /\ r \in 0..(step - 1) /\ n = step * d + r
  <2>. HIDE DEF n
  <2>. QED  BY <1>1
<1>3. e \in Int /\ k = d + e
  BY <1>2
<1>4. step * k = step * d + step * e
  <2>. HIDE DEF d, e
  <2>. QED  BY <1>2, <1>3
<1>5. step * e = r
  <2>. DEFINE p == step * d  q == step * e
  <2>1. p \in Int /\ q \in Int
    <3>. HIDE DEF d, e
    <3>. QED  BY <1>2, <1>3
  <2>2. n = p + r /\ n = p + q
    BY <1>2, <1>4
  <2>. HIDE DEF n, r, p, q
  <2>3. q = r
    BY <1>2, <2>1, <2>2
  <2>. QED  BY <2>3 DEF q
<1>. HIDE DEF d, e, r, n
<1>6. e = 0
  <2>1. CASE e >= 1
    <3>1. step * e >= step
      BY <1>3, <2>1
    <3>. QED  BY <1>2, <1>5, <3>1
  <2>2. CASE e <= -1
    <3>1. step * e <= -step
      BY <1>3, <2>2
    <3>. QED  BY <1>2, <1>5, <3>1
  <2>. QED  BY <1>3, <2>1, <2>2
<1>7. r = 0
  BY <1>5, <1>6
<1>. QED
  BY <1>7 DEF r, n

\* Rounding an amount up to whole steps adds less than a step.
LEMMA StandardizedUpBounds ==
  ASSUME NEW n \in Int, NEW step \in Nat \ {0}, NEW x, x = Liquidation!StandardizedUp(n, step)
  PROVE  x \in Int /\ n <= x /\ x <= n + step - 1 /\ x % step = 0
<1>. DEFINE m == n + step - 1
<1>1. m \in Int /\ x = m - (m % step)
  BY DEF Liquidation!StandardizedUp, Liquidation!Standardized
<1>. HIDE DEF m
<1>2. m % step \in 0..(step - 1) /\ m = step * (m \div step) + (m % step) /\ m \div step \in Int
  BY <1>1
<1>3. x = step * (m \div step)
  BY <1>1, <1>2
<1>4. x % step = 0
  <2>. DEFINE k == m \div step
  <2>1. k \in Int /\ x = step * k
    BY <1>2, <1>3
  <2>. HIDE DEF k
  <2>. QED  BY <2>1, MultipleRest
<1>. QED
  BY <1>1, <1>2, <1>4 DEF m

\* What changes hands are whole steps of the position, and no more than what is allowed and a step.
LEMMA TransferBounds ==
  ASSUME NEW size \in Nat, NEW most \in Int, NEW allowed \in Int, price \in Nat, OrderStep \in Nat \ {0},
         size % OrderStep = 0, most >= 0,
         NEW amount, amount = Liquidation!BaseToTransfer(size, most, allowed, price, OrderStep)
  PROVE  /\ amount \in Nat /\ amount <= size /\ amount % OrderStep = 0
         /\ size * price > FIFTY /\ allowed >= 0 => amount <= allowed + OrderStep - 1
<1>. DEFINE whole == IF size * price > FIFTY THEN 0 ELSE size
            n == Liquidation!Least(Liquidation!Least(size, most), Liquidation!Most(allowed, whole))
<1>1. whole \in Nat /\ (size * price > FIFTY => whole = 0)
  OBVIOUS
<1>2. n \in Nat /\ n <= size /\ (size * price > FIFTY /\ allowed >= 0 => n <= allowed)
  <2>. HIDE DEF whole
  <2>. QED  BY <1>1 DEF Liquidation!Least, Liquidation!Most
<1>. HIDE DEF n
<1>3. amount = Liquidation!StandardizedUp(n, OrderStep)
  BY DEF Liquidation!BaseToTransfer, n
<1>4. amount \in Int /\ n <= amount /\ amount <= n + OrderStep - 1 /\ amount % OrderStep = 0
  BY <1>2, <1>3, StandardizedUpBounds
<1>5. amount <= size
  BY <1>2, <1>4, SameMultiple
<1>. QED
  BY <1>2, <1>4, <1>5

\* An account with the liability l that meets its requirement by less than the shortage s gives w of
\* its liability away, for fees of k; d is the part of a liability that is required, e its buffer.
LEMMA CoveredArithmetic ==
  ASSUME NEW F \in Nat \ {0}, NEW l \in Nat, NEW w \in Nat, w <= l, NEW d \in Nat, NEW e \in Nat, NEW k \in Nat,
         NEW x \in Nat, NEW b \in Nat, NEW plus \in Int, NEW total \in Int, NEW fees \in Int, NEW req \in Int,
         F * plus > l * (d + e) - 2 * F, (plus - total) * F < (b + 1) * x, w * (d + e - k) >= b * x,
         F * fees <= w * k, F * req <= (l - w) * d
  PROVE  F * (req - (total - fees)) < 2 * F + x
<1>. DEFINE ld == l * d  le == l * e  wd == w * d  we == w * e  wk == w * k  bx == b * x
            fp == F * plus  ft == F * total  ff == F * fees  fr == F * req
<1>1. /\ ld \in Int /\ le \in Int /\ wd \in Int /\ we \in Int /\ wk \in Int /\ bx \in Int
      /\ fp \in Int /\ ft \in Int /\ ff \in Int /\ fr \in Int
  OBVIOUS
<1>2. l * (d + e) = ld + le
  OBVIOUS
<1>3. (plus - total) * F = fp - ft /\ (b + 1) * x = bx + x
  OBVIOUS
<1>4. w * (d + e - k) = wd + we - wk
  OBVIOUS
<1>5. (l - w) * d = ld - wd
  OBVIOUS
<1>6. F * (req - (total - fees)) = fr - ft + ff
  OBVIOUS
<1>7. we <= le
  OBVIOUS
<1>8. fp > ld + le - 2 * F /\ fp - ft < bx + x /\ wd + we - wk >= bx /\ ff <= wk /\ fr <= ld - wd
  BY <1>2, <1>3, <1>4, <1>5
<1>. HIDE DEF ld, le, wd, we, wk, bx, fp, ft, ff, fr
<1>9. fr - ft + ff < 2 * F + x
  BY <1>1, <1>7, <1>8
<1>. QED
  BY <1>6, <1>9

\* What is freed by giving w of the liability away for fees, before and after rounding
LEMMA FreedArithmetic ==
  ASSUME NEW F \in Nat \ {0}, NEW l \in Nat, NEW w \in Nat, NEW r \in Nat, NEW k \in Nat,
         NEW plus \in Int, NEW plus2 \in Int, NEW fees \in Int, NEW freed \in Int,
         F * plus <= l * r, F * plus2 > (l - w) * r - 2 * F, F * fees > w * k - 2 * F,
         freed <= plus - plus2 - fees
  PROVE  F * freed < w * (r - k) + 4 * F
<1>. DEFINE lr == l * r  wr == w * r  wk == w * k
            fp == F * plus  fq == F * plus2  ff == F * fees  fr == F * freed  g == plus - plus2 - fees
<1>1. /\ lr \in Int /\ wr \in Int /\ wk \in Int /\ fp \in Int /\ fq \in Int /\ ff \in Int /\ fr \in Int
      /\ g \in Int
  OBVIOUS
<1>2. (l - w) * r = lr - wr
  OBVIOUS
<1>3. w * (r - k) = wr - wk
  OBVIOUS
<1>4. F * g = fp - fq - ff
  OBVIOUS
<1>5. fr <= F * g
  <2>. HIDE DEF g
  <2>. QED  BY <1>1 DEF g
<1>6. fp <= lr /\ fq > lr - wr - 2 * F /\ ff > wk - 2 * F
  BY <1>2
<1>. HIDE DEF lr, wr, wk, fp, fq, ff, fr, g
<1>7. fr < wr - wk + 4 * F
  BY <1>1, <1>4, <1>5, <1>6
<1>. QED
  BY <1>3, <1>7 DEF fr

\* How much may be given away: the part pct of the amount that covers s, where the part is that of s
\* that may be freed now, and both amounts are rounded up to steps of t + 1 units.
LEMMA AllowedArithmetic ==
  ASSUME NEW F \in Nat \ {0}, NEW P \in Nat \ {0}, NEW x \in Nat, NEW t \in Nat, NEW s \in Nat,
         NEW b \in Nat, NEW cover \in Int, NEW pct \in Nat, NEW allowed \in Int, NEW due \in Nat, NEW a \in Int,
         a <= allowed + t, P * allowed <= cover * pct, cover <= b + t, b * x <= s * F,
         pct <= P, pct * s <= due * P
  PROVE  a * x <= due * F + 2 * (t * x)
<1>. DEFINE tx == t * x  bx == b * x  sf == s * F  ax == allowed * x  df == due * F
            cp == cover * pct  cx == cover * x
<1>1. /\ tx \in Nat /\ bx \in Nat /\ sf \in Nat /\ ax \in Int /\ df \in Nat /\ cx \in Int /\ cp \in Int
  OBVIOUS
<1>2. a * x <= ax + tx
  <2>1. a * x <= (allowed + t) * x
    OBVIOUS
  <2>. QED  BY <2>1
<1>3. cx <= sf + tx
  <2>1. cx <= (b + t) * x
    OBVIOUS
  <2>2. (b + t) * x = bx + tx
    OBVIOUS
  <2>. HIDE DEF cx
  <2>. QED  BY <1>1, <2>1, <2>2
<1>4. P * ax <= pct * cx
  <2>1. (P * allowed) * x <= cp * x
    <3>. HIDE DEF cp
    <3>1. P * allowed <= cp
      BY DEF cp
    <3>. DEFINE pa == P * allowed
    <3>2. pa \in Int /\ pa <= cp
      BY <3>1
    <3>. HIDE DEF pa
    <3>3. pa * x <= cp * x
      BY <1>1, <3>2
    <3>. QED  BY <3>3 DEF pa
  <2>2. (P * allowed) * x = P * ax /\ cp * x = pct * cx
    OBVIOUS
  <2>. QED  BY <2>1, <2>2
<1>5. pct * cx <= pct * sf + pct * tx
  <2>. HIDE DEF cx, sf, tx
  <2>1. pct * cx <= pct * (sf + tx)
    BY <1>1, <1>3
  <2>2. pct * (sf + tx) = pct * sf + pct * tx
    BY <1>1
  <2>. QED  BY <2>1, <2>2
<1>6. pct * sf <= P * df
  <2>. DEFINE ps == pct * s  dp == due * P
  <2>1. ps \in Int /\ dp \in Int /\ ps <= dp /\ pct * sf = ps * F /\ P * df = dp * F
    OBVIOUS
  <2>. HIDE DEF ps, dp, sf, df
  <2>2. ps * F <= dp * F
    BY <2>1
  <2>. QED  BY <2>1, <2>2
<1>7. pct * tx <= P * tx
  <2>. HIDE DEF tx
  <2>. QED  BY <1>1
<1>8. P * ax <= P * (df + tx)
  <2>. HIDE DEF cx, sf, tx, ax, df
  <2>. DEFINE p1 == P * ax  p2 == pct * cx  p3 == pct * sf  p4 == pct * tx  p5 == P * df  p6 == P * tx
  <2>1. p1 \in Int /\ p2 \in Int /\ p3 \in Int /\ p4 \in Int /\ p5 \in Int /\ p6 \in Int
    BY <1>1
  <2>2. p1 <= p2 /\ p2 <= p3 + p4 /\ p3 <= p5 /\ p4 <= p6
    BY <1>4, <1>5, <1>6, <1>7
  <2>3. P * (df + tx) = p5 + p6
    BY <1>1
  <2>. HIDE DEF p1, p2, p3, p4, p5, p6
  <2>4. p1 <= p5 + p6
    BY <2>1, <2>2
  <2>. QED  BY <2>3, <2>4 DEF p1
<1>9. ax <= df + tx
  <2>. HIDE DEF ax, df, tx
  <2>. DEFINE y == df + tx
  <2>1. y \in Int /\ P * ax <= P * y
    BY <1>1, <1>8
  <2>. HIDE DEF y
  <2>2. ax <= y
    BY <1>1, <2>1
  <2>. QED  BY <2>2 DEF y
<1>. HIDE DEF ax, df
<1>. QED
  BY <1>1, <1>2, <1>9 DEF df, tx

\* A number below a sum of units and a rest, in units
LEMMA InUnits ==
  ASSUME NEW F \in Nat \ {0}, NEW n \in Int, NEW c \in Int, NEW x \in Int, F * n < c * F + x
  PROVE  n <= c + (x \div F)
<1>. DEFINE q == x \div F  z == n - c
<1>1. q \in Int /\ z \in Int /\ F * q <= x /\ x < F * q + F
  BY DEF q
<1>2. F * z < x
  <2>1. F * n \in Int /\ c * F \in Int /\ F * z = F * n - c * F
    OBVIOUS
  <2>. QED  BY <2>1
<1>. HIDE DEF q, z
<1>3. F * z < F * (q + 1)
  <2>1. F * (q + 1) = F * q + F /\ F * z \in Int /\ F * q \in Int
    BY <1>1
  <2>. QED  BY <1>1, <1>2, <2>1
<1>4. z < q + 1
  BY <1>1, <1>3
<1>5. z <= q
  BY <1>1, <1>4
<1>. QED
  BY <1>1, <1>5 DEF q, z

\* What the position of an account is worth, long or short
LiabilityOf(a) == Liquidation!Magnitude(a.base) * price
\* The parts of a liability that are required, as fees of it
Maintained == Liquidation!FeeRatio(MaintenanceRatio)
Buffered == Liquidation!FeeRatio(Buffer)
\* What a unit of the liability frees beside the liquidator's fee
Spare == Liquidation!FeeRatio(MaintenanceRatio + Buffer) - LiquidatorFee

LEMMA RatioFacts ==
  /\ Maintained \in Nat /\ Buffered \in Nat /\ Liquidation!FeeRatio(MaintenanceRatio + Buffer) = Maintained + Buffered
  /\ LiquidatorFee \in Nat /\ LiquidatorFee < Maintained /\ Spare \in Nat \ {0}
<1>. DEFINE q == LIQUIDATION_FEE_PRECISION \div MARGIN_PRECISION
<1>1. q \in Nat
  BY FeesPerMarginFacts DEF FeesPerMargin
<1>2. /\ MaintenanceRatio \in Nat /\ Buffer \in Nat /\ LiquidatorFee \in Nat
      /\ LiquidatorFee < MaintenanceRatio * q
  BY NormalAssumption, LiquidationAssumption
<1>3. /\ Maintained = MaintenanceRatio * q /\ Buffered = Buffer * q
      /\ Liquidation!FeeRatio(MaintenanceRatio + Buffer) = (MaintenanceRatio + Buffer) * q
  BY DEF Maintained, Buffered, Liquidation!FeeRatio
<1>. HIDE DEF q
<1>4. (MaintenanceRatio + Buffer) * q = MaintenanceRatio * q + Buffer * q
      /\ MaintenanceRatio * q \in Nat /\ Buffer * q \in Nat
  BY <1>1, <1>2
<1>. QED
  BY <1>2, <1>3, <1>4 DEF Spare

\* The margin of an account; its two quotients take less than two units.
MarginFit(a, m) ==
    /\ m.totalCollateral = a.quote + a.base * price /\ m.totalCollateral \in Int
    /\ m.requirement \in Nat /\ m.plusBuffer \in Nat /\ m.requirement <= m.plusBuffer
    /\ LiabilityOf(a) \in Nat
    /\ LIQUIDATION_FEE_PRECISION * m.requirement <= LiabilityOf(a) * Maintained
    /\ LIQUIDATION_FEE_PRECISION * m.plusBuffer <= LiabilityOf(a) * (Maintained + Buffered)
    /\ LIQUIDATION_FEE_PRECISION * m.plusBuffer
          > LiabilityOf(a) * (Maintained + Buffered) - 2 * LIQUIDATION_FEE_PRECISION

LEMMA MarginBounds ==
  ASSUME NEW a, IsAccount(a), price \in Nat, NEW m, m = Liquidation!LiquidationMargin(a)
  PROVE  MarginFit(a, m)
<1>. DEFINE l == LiabilityOf(a)  r == (l * MaintenanceRatio) \div MARGIN_PRECISION
            e == (l * Buffer) \div MARGIN_PRECISION
<1>1. a.base \in Int /\ a.quote \in Int /\ MaintenanceRatio \in Nat /\ Buffer \in Nat
      /\ LIQUIDATION_FEE_PRECISION \in Nat \ {0}
  BY NormalAssumption DEF IsAccount
<1>2. l \in Nat
  <2>. DEFINE size == Liquidation!Magnitude(a.base)
  <2>1. size \in Nat
    BY <1>1 DEF Liquidation!Magnitude, Liquidation!Most
  <2>. HIDE DEF size
  <2>2. size * price \in Nat
    BY <2>1
  <2>. QED  BY <2>2 DEF LiabilityOf, size
<1>3. m.requirement = r /\ m.plusBuffer = r + e /\ m.totalCollateral = a.quote + a.base * price
  BY DEF Liquidation!LiquidationMargin, Liquidation!MarginCalculation, LiabilityOf
<1>4. m.totalCollateral \in Int
  BY <1>1, <1>3
<1>. DEFINE F == LIQUIDATION_FEE_PRECISION
<1>5. /\ r \in Nat /\ F * r <= l * Maintained /\ F * r > l * Maintained - F
  <2>. HIDE DEF l
  <2>. QED  BY <1>1, <1>2, RequirementBounds DEF Maintained
<1>6. /\ e \in Nat /\ F * e <= l * Buffered /\ F * e > l * Buffered - F
  <2>. HIDE DEF l
  <2>. QED  BY <1>1, <1>2, RequirementBounds DEF Buffered
<1>. HIDE DEF l, r, e
<1>7. F * (r + e) = F * r + F * e /\ l * (Maintained + Buffered) = l * Maintained + l * Buffered
      /\ F * r \in Int /\ F * e \in Int /\ l * Maintained \in Int /\ l * Buffered \in Int
  BY <1>1, <1>2, <1>5, <1>6, RatioFacts
<1>8. F * (r + e) <= l * (Maintained + Buffered) /\ F * (r + e) > l * (Maintained + Buffered) - 2 * F
  BY <1>1, <1>5, <1>6, <1>7
<1>9. r <= r + e /\ r + e \in Nat
  BY <1>5, <1>6
<1>. QED
  BY <1>2, <1>3, <1>4, <1>5, <1>8, <1>9 DEF MarginFit, l

\* The margin of an account is a matter of its quote and base alone.
LEMMA SameMargin ==
  ASSUME NEW a, NEW b, SameMoney(a, b)
  PROVE  Liquidation!LiquidationMargin(b) = Liquidation!LiquidationMargin(a)
BY DEF SameMoney, Liquidation!LiquidationMargin, Liquidation!MarginCalculation

\* What units of the position free of the margin, with its product and quotient named
LEMMA MarginOfTyped ==
  ASSUME NEW units \in Nat, price \in Nat
  PROVE  Liquidation!MarginOf(units) \in Nat
         /\ Liquidation!MarginOf(units) = (units * price * Spare) \div LIQUIDATION_FEE_PRECISION
<1>. DEFINE n == units * price * Spare
<1>1. n \in Nat
  <2>1. units * price \in Nat
    OBVIOUS
  <2>. QED  BY <2>1, RatioFacts, ProductNatural
<1>2. Liquidation!MarginOf(units) = n \div LIQUIDATION_FEE_PRECISION
  BY DEF Liquidation!MarginOf, Spare
<1>. HIDE DEF n
<1>. QED
  BY <1>1, <1>2, NaturalQuotient, NormalAssumption DEF n

-----------------------------------------------------------------------------
(* Steps of an account, which was a and is b *)

\* Positions are whole steps, and what an account has freed is of its liquidation.
Orderly(a) ==
    /\ a.base % OrderStep = 0 /\ a.marginFreed >= 0
    /\ ~Liquidation!IsBeingLiquidated(a) => a.marginFreed = 0

\* An account that leaves its liquidation meets its margin requirement, up to rounding.
EndedWell(a, b) ==
    Liquidation!IsBeingLiquidated(a) /\ ~Liquidation!IsBeingLiquidated(b)
       => Liquidation!MeetsMarginRequirement(
              Liquidation!LiquidationMargin([b EXCEPT !.quote = @ + Liquidation!Rounding]))

\* What a step frees of the margin is what is due for the time passed, up to a step of the position.
Gradual(a, b) ==
    LET before   == Liquidation!EnteredLiquidation(a)
        shortage == Liquidation!MarginShortage(Liquidation!LiquidationMargin(before))
    IN  /\ b.marginFreed > before.marginFreed
        /\ shortage >= FIFTY /\ Liquidation!Magnitude(before.base) * price > FIFTY
        => b.marginFreed <= Liquidation!Most(before.marginFreed, Liquidation!FreedableAt(before, shortage))
                               + Liquidation!StepWorth

\* What every step keeps of every account
Proper(a, b) == Orderly(b) /\ EndedWell(a, b) /\ Gradual(a, b)

LEMMA RoundingTyped == ASSUME price \in Nat PROVE Liquidation!Rounding \in Nat
<1>. DEFINE one == 1
<1>1. one \in Nat
  OBVIOUS
<1>. HIDE DEF one
<1>2. Liquidation!MarginOf(one) \in Nat
  BY <1>1, MarginOfTyped
<1>. QED
  BY <1>2 DEF Liquidation!Rounding, one

\* An account that meets its requirement but for n units of quote ends well if rounding may take these.
LEMMA RoundedMeets ==
  ASSUME NEW b, IsAccount(b), price \in Nat, NEW m, m = Liquidation!LiquidationMargin(b),
         NEW n \in Int, m.requirement <= m.totalCollateral + n, n <= Liquidation!Rounding
  PROVE  Liquidation!MeetsMarginRequirement(
              Liquidation!LiquidationMargin([b EXCEPT !.quote = @ + Liquidation!Rounding]))
<1>. DEFINE k == Liquidation!Rounding  c == [b EXCEPT !.quote = @ + k]  o == Liquidation!LiquidationMargin(c)
<1>1. k \in Nat
  BY RoundingTyped
<1>. HIDE DEF k
<1>2. c.base = b.base /\ c.quote = b.quote + k
  BY DEF IsAccount, AccountFields
<1>. HIDE DEF c
<1>3. o.requirement = m.requirement /\ o.totalCollateral = b.quote + k + b.base * price
      /\ m.totalCollateral = b.quote + b.base * price
  BY <1>2 DEF Liquidation!LiquidationMargin, Liquidation!MarginCalculation
<1>4. /\ m.requirement \in Int /\ m.totalCollateral \in Int /\ b.quote \in Int /\ b.base * price \in Int
  <2>1. MarginFit(b, m) /\ b.quote \in Int /\ b.base \in Int
    BY MarginBounds DEF IsAccount
  <2>. QED  BY <2>1 DEF MarginFit
<1>5. o.totalCollateral = m.totalCollateral + k
  <2>. DEFINE w == b.base * price
  <2>. HIDE DEF w
  <2>1. o.totalCollateral = b.quote + k + w /\ m.totalCollateral = b.quote + w /\ w \in Int
    BY <1>3, <1>4 DEF w
  <2>. QED  BY <1>1, <1>4, <2>1
<1>. HIDE DEF o
<1>6. o.requirement <= o.totalCollateral
  BY <1>1, <1>3, <1>4, <1>5 DEF k
<1>. QED
  BY <1>6 DEF Liquidation!MeetsMarginRequirement, o, c, k

\* A step that leaves position and status alone
LEMMA RestProper ==
  ASSUME NEW a, IsAccount(a), Orderly(a), NEW b, IsAccount(b), b.base = a.base, b.marginFreed = a.marginFreed,
         Liquidation!IsBeingLiquidated(b) <=> Liquidation!IsBeingLiquidated(a), slot \in Int
  PROVE  Proper(a, b)
<1>. DEFINE before == Liquidation!EnteredLiquidation(a)
<1>1. /\ Liquidation!IsBeingLiquidated(a) => before = a
      /\ ~Liquidation!IsBeingLiquidated(a) => before.marginFreed = 0
  BY EnteredEffect
<1>2. b.marginFreed = before.marginFreed
  BY <1>1 DEF Orderly
<1>3. ~(b.marginFreed > before.marginFreed)
  BY <1>2 DEF IsAccount
<1>. HIDE DEF before
<1>. QED
  BY <1>3 DEF Proper, Orderly, EndedWell, Gradual, before

\* A step that begins a liquidation
LEMMA EnteredProper ==
  ASSUME NEW a, IsAccount(a), Orderly(a), slot \in Int
  PROVE  Proper(a, Liquidation!EnteredLiquidation(a))
<1>. DEFINE b == Liquidation!EnteredLiquidation(a)
<1>1. /\ IsAccount(b) /\ b.base = a.base /\ Liquidation!IsBeingLiquidated(b)
      /\ b = a \/ b.marginFreed = 0
  BY EnteredEffect DEF SameMoney
<1>2. ~(b.marginFreed > b.marginFreed)
  BY <1>1 DEF IsAccount
<1>3. Orderly(b) /\ EndedWell(a, b)
  <2>. HIDE DEF b
  <2>. QED  BY <1>1 DEF Orderly, EndedWell
<1>4. Gradual(a, b)
  BY <1>2 DEF Gradual
<1>. QED
  BY <1>3, <1>4 DEF Proper

\* A step that ends a liquidation
LEMMA ExitedProper ==
  ASSUME NEW a, IsAccount(a), Orderly(a), NEW b, IsAccount(b), b.base % OrderStep = 0, b.marginFreed = 0,
         ~Liquidation!IsBeingLiquidated(b), slot \in Int, price \in Nat,
         NEW n \in Int, n <= Liquidation!Rounding,
         NEW m, m = Liquidation!LiquidationMargin(b), m.requirement <= m.totalCollateral + n
  PROVE  Proper(a, b)
<1>1. EndedWell(a, b)
  BY RoundedMeets DEF EndedWell
<1>2. Gradual(a, b)
  <2>. DEFINE before == Liquidation!EnteredLiquidation(a)
  <2>1. IsAccount(before) /\ (before = a \/ before.marginFreed = 0)
    BY EnteredEffect
  <2>2. before.marginFreed >= 0 /\ before.marginFreed \in Int
    BY <2>1 DEF Orderly, IsAccount
  <2>3. ~(b.marginFreed > before.marginFreed)
    BY <2>2
  <2>. HIDE DEF before
  <2>. QED  BY <2>3 DEF Gradual, before
<1>. QED
  BY <1>1, <1>2 DEF Proper, Orderly

\* The account meets its margin requirement at the present price.
Meets(a) == Liquidation!MeetsMarginRequirement(Liquidation!LiquidationMargin(a))

\* Whoever may leave its liquidation meets the requirement: that with the buffer is no less.
LEMMA ExitMeets ==
  ASSUME NEW a, IsAccount(a), price \in Nat, Liquidation!CanExitLiquidation(Liquidation!LiquidationMargin(a))
  PROVE  Meets(a)
<1>. DEFINE m == Liquidation!LiquidationMargin(a)
<1>1. MarginFit(a, m)
  BY MarginBounds
<1>2. m.totalCollateral >= m.plusBuffer
  BY DEF Liquidation!CanExitLiquidation
<1>. HIDE DEF m
<1>3. m.totalCollateral >= m.requirement
  BY <1>1, <1>2 DEF MarginFit
<1>. QED
  BY <1>3 DEF Meets, Liquidation!MeetsMarginRequirement, m

LEMMA QuotientMonotone ==
  ASSUME NEW x \in Nat, NEW y \in Nat, x <= y, NEW d \in Nat \ {0}
  PROVE  x \div d <= y \div d
OBVIOUS

\* Whoever meets the margin that opening a position takes meets the one that keeping it takes.
LEMMA InitialMeets ==
  ASSUME NEW a, IsAccount(a), price \in Nat, Liquidation!MeetsInitialMargin(a)
  PROVE  Meets(a)
<1>. DEFINE m == Liquidation!LiquidationMargin(a)  o == Liquidation!MarginCalculation(a, price, InitialRatio, 0)
            l == LiabilityOf(a)  x == l * MaintenanceRatio  y == l * InitialRatio
<1>1. /\ MaintenanceRatio \in Nat /\ InitialRatio \in Nat /\ MaintenanceRatio < InitialRatio
      /\ MARGIN_PRECISION \in Nat \ {0} /\ l \in Nat /\ MarginFit(a, m)
  BY NormalAssumption, LiquidationAssumption, MarginBounds DEF MarginFit
<1>2. x \in Nat /\ y \in Nat /\ x <= y
  <2>. HIDE DEF l
  <2>. QED  BY <1>1
<1>3. /\ m.requirement = x \div MARGIN_PRECISION /\ o.requirement = y \div MARGIN_PRECISION
      /\ o.totalCollateral = m.totalCollateral
  BY DEF Liquidation!LiquidationMargin, Liquidation!MarginCalculation, LiabilityOf
<1>. HIDE DEF x, y
<1>4. m.requirement <= o.requirement
  BY <1>1, <1>2, <1>3, QuotientMonotone
<1>5. o.totalCollateral >= o.requirement
  BY DEF Liquidation!MeetsInitialMargin, Liquidation!MeetsMarginRequirement
<1>6. o.requirement \in Int /\ m.requirement \in Int /\ m.totalCollateral \in Int
  BY <1>1, <1>2, <1>3, NaturalQuotient DEF MarginFit
<1>. HIDE DEF m, o
<1>7. m.totalCollateral >= m.requirement
  BY <1>3, <1>4, <1>5, <1>6
<1>. QED
  BY <1>7 DEF Meets, Liquidation!MeetsMarginRequirement, m

\* A step that ends the liquidation of an account that meets its requirement
LEMMA MeetingExitProper ==
  ASSUME NEW a, IsAccount(a), Orderly(a), NEW b, IsAccount(b), b.base % OrderStep = 0, b.marginFreed = 0,
         ~Liquidation!IsBeingLiquidated(b), slot \in Int, price \in Nat, Meets(b)
  PROVE  Proper(a, b)
<1>. DEFINE n == 0  m == Liquidation!LiquidationMargin(b)
<1>1. n \in Nat /\ n <= Liquidation!Rounding
  BY RoundingTyped
<1>2. MarginFit(b, m) /\ m.totalCollateral >= m.requirement
  BY MarginBounds DEF Meets, Liquidation!MeetsMarginRequirement
<1>. HIDE DEF m
<1>3. m.requirement <= m.totalCollateral + n
  BY <1>2 DEF MarginFit
<1>. HIDE DEF n
<1>4. m = Liquidation!LiquidationMargin(b)
  BY DEF m
<1>. QED
  BY <1>1, <1>3, <1>4, ExitedProper

\* A liquidation ends properly where the account meets the requirement as it leaves.
LEMMA ExitProper ==
  ASSUME NEW a, IsAccount(a), Orderly(a), slot \in Int, price \in Nat,
         NEW paid, IsAccount(paid), paid.base = a.base, Meets(paid)
  PROVE  /\ Proper(a, Liquidation!ExitedLiquidation(paid))
         /\ Proper(a, Liquidation!Active(Liquidation!ExitedLiquidation(paid)))
<1>. DEFINE x == Liquidation!ExitedLiquidation(paid)  b == Liquidation!Active(x)
<1>1. IsAccount(x) /\ SameMoney(paid, x) /\ x.marginFreed = 0 /\ ~Liquidation!IsBeingLiquidated(x)
  BY ExitedEffect
<1>. HIDE DEF x
<1>2. IsAccount(b) /\ SameMoney(x, b) /\ b.marginFreed = 0 /\ ~Liquidation!IsBeingLiquidated(b)
  BY <1>1, ActiveEffect
<1>. HIDE DEF b
<1>3. Meets(x) /\ Meets(b) /\ x.base % OrderStep = 0 /\ b.base % OrderStep = 0
  <2>1. Meets(x) /\ x.base = a.base
    BY <1>1, SameMargin DEF Meets, SameMoney
  <2>2. Meets(b) /\ b.base = a.base
    BY <1>2, <2>1, SameMargin DEF Meets, SameMoney
  <2>. QED  BY <2>1, <2>2 DEF Orderly
<1>. QED
  BY <1>1, <1>2, <1>3, MeetingExitProper DEF x, b

\* What an account pays or is paid, whether it ends its liquidation or not
LEMMA PaidProper ==
  ASSUME NEW a, IsAccount(a), Orderly(a), slot \in Int, price \in Nat, NEW amount \in Int,
         NEW paid, paid = [a EXCEPT !.quote = a.quote + amount],
         NEW seen_, \/ seen_ = paid
                    \/ seen_ = Liquidation!ExitedLiquidation(paid) /\ Meets(paid)
  PROVE  Proper(a, Liquidation!Active(seen_))
<1>1. /\ IsAccount(paid) /\ paid.base = a.base /\ paid.marginFreed = a.marginFreed
      /\ Liquidation!IsBeingLiquidated(paid) <=> Liquidation!IsBeingLiquidated(a)
  BY QuoteEffect
<1>2. CASE seen_ = paid
  <2>. DEFINE b == Liquidation!Active(paid)
  <2>1. /\ IsAccount(b) /\ b.base = a.base /\ b.marginFreed = a.marginFreed
        /\ Liquidation!IsBeingLiquidated(b) <=> Liquidation!IsBeingLiquidated(a)
    <3>1. /\ IsAccount(b) /\ SameMoney(paid, b) /\ b.marginFreed = paid.marginFreed
          /\ Liquidation!IsBeingLiquidated(b) <=> Liquidation!IsBeingLiquidated(paid)
      <4>. HIDE DEF b
      <4>1. b = Liquidation!Active(paid)
        BY DEF b
      <4>. QED  BY <1>1, <4>1, ActiveEffect
    <3>. HIDE DEF b
    <3>. QED  BY <1>1, <3>1 DEF SameMoney
  <2>. HIDE DEF b
  <2>2. Proper(a, b)
    BY <2>1, RestProper
  <2>. QED  BY <1>2, <2>2 DEF b
<1>3. CASE seen_ = Liquidation!ExitedLiquidation(paid) /\ Meets(paid)
  BY <1>1, <1>3, ExitProper
<1>. QED
  BY <1>2, <1>3

\* The invariant and the step of all accounts
ProperStep == \A u \in Accounts : Proper(accounts[u], accounts'[u])
OrderlyInv == \A u \in Accounts : Orderly(accounts[u])

LEMMA AccountsTyped ==
  ASSUME LiquidationInv
  PROVE  /\ \A u \in Accounts : IsAccount(accounts[u]) /\ Resolvable(accounts[u])
         /\ accounts = [u \in Accounts |-> accounts[u]] /\ slot \in Int /\ price \in Nat
BY DEF LiquidationInv, Holdings

\* A call that changes one account, or two of them
LEMMA OneProper ==
  ASSUME LiquidationInv, OrderlyInv, NEW u \in Accounts, NEW x, Proper(accounts[u], x),
         accounts' = [accounts EXCEPT ![u] = x]
  PROVE  ProperStep
<1>1. accounts'[u] = x /\ \A v \in Accounts : v # u => accounts'[v] = accounts[v]
  BY AccountsTyped
<1>2. \A v \in Accounts : Proper(accounts[v], accounts[v])
  BY AccountsTyped, RestProper DEF OrderlyInv
<1>. QED
  BY <1>1, <1>2 DEF ProperStep

LEMMA TwoProper ==
  ASSUME LiquidationInv, OrderlyInv, NEW u \in Accounts, NEW v \in Accounts, u # v,
         NEW x, Proper(accounts[u], x), NEW y, Proper(accounts[v], y),
         accounts' = [accounts EXCEPT ![u] = x, ![v] = y]
  PROVE  ProperStep
<1>1. /\ accounts'[u] = x /\ accounts'[v] = y
      /\ \A z \in Accounts : z # u /\ z # v => accounts'[z] = accounts[z]
  BY AccountsTyped
<1>2. \A z \in Accounts : Proper(accounts[z], accounts[z])
  BY AccountsTyped, RestProper DEF OrderlyInv
<1>. QED
  BY <1>1, <1>2 DEF ProperStep

\* The calls, one by one
LEMMA DepositProper ==
  ASSUME LiquidationInv, OrderlyInv, NEW u \in Accounts, NEW amount \in Payments, Liquidation!Deposit(u, amount)
  PROVE  ProperStep
<1>. DEFINE a == accounts[u]  paid == [a EXCEPT !.quote = a.quote + amount]
            exits == Liquidation!IsBeingLiquidated(paid)
                         /\ Liquidation!CanExitLiquidation(Liquidation!LiquidationMargin(paid))
            seen_ == IF exits THEN Liquidation!ExitedLiquidation(paid) ELSE paid
            x == Liquidation!Active(seen_)
<1>1. accounts' = [accounts EXCEPT ![u] = x]
  BY DEF Liquidation!Deposit
<1>2. IsAccount(a) /\ Orderly(a) /\ slot \in Int /\ price \in Nat /\ amount \in Int
  BY NormalAssumption, AccountsTyped DEF OrderlyInv
<1>3. IsAccount(paid)
  BY <1>2, QuoteEffect
<1>4. paid = [a EXCEPT !.quote = a.quote + amount]
  OBVIOUS
<1>. HIDE DEF paid
<1>5. seen_ = paid \/ (seen_ = Liquidation!ExitedLiquidation(paid) /\ Meets(paid))
  <2>1. exits => Meets(paid)
    BY <1>2, <1>3, ExitMeets
  <2>. HIDE DEF exits
  <2>. QED  BY <2>1
<1>. HIDE DEF seen_
<1>6. Proper(a, x)
  BY <1>2, <1>4, <1>5, PaidProper
<1>. HIDE DEF x
<1>. QED
  BY <1>1, <1>6, OneProper

\* Whoever pays out and still meets the initial margin is left properly.
LEMMA PaidOutProper ==
  ASSUME NEW a, IsAccount(a), Orderly(a), slot \in Int, price \in Nat, NEW amount \in Int,
         NEW left, left = [a EXCEPT !.quote = a.quote - amount], Liquidation!MeetsInitialMargin(left)
  PROVE  Proper(a, Liquidation!PaidOut(left))
<1>. DEFINE n == -amount  paid == [a EXCEPT !.quote = a.quote + n]
            seen_ == IF Liquidation!IsBeingLiquidated(left) THEN Liquidation!ExitedLiquidation(left) ELSE left
<1>1. n \in Int /\ left = paid
  BY DEF IsAccount
<1>. HIDE DEF n
<1>2. IsAccount(left)
  BY <1>1, QuoteEffect
<1>3. seen_ = left \/ (seen_ = Liquidation!ExitedLiquidation(left) /\ Meets(left))
  BY <1>2, InitialMeets
<1>4. Liquidation!PaidOut(left) = Liquidation!Active(seen_)
  BY DEF Liquidation!PaidOut
<1>. HIDE DEF seen_
<1>5. Proper(a, Liquidation!Active(seen_))
  BY <1>1, <1>3, PaidProper
<1>. QED
  BY <1>4, <1>5

LEMMA WithdrawProper ==
  ASSUME LiquidationInv, OrderlyInv, NEW u \in Accounts, NEW amount \in Payments, Liquidation!Withdraw(u, amount)
  PROVE  ProperStep
<1>. DEFINE a == accounts[u]  left == [a EXCEPT !.quote = a.quote - amount]  x == Liquidation!PaidOut(left)
<1>1. accounts' = [accounts EXCEPT ![u] = x] /\ Liquidation!MeetsInitialMargin(left)
  BY DEF Liquidation!Withdraw
<1>2. IsAccount(a) /\ Orderly(a) /\ slot \in Int /\ price \in Nat /\ amount \in Int
  BY NormalAssumption, AccountsTyped DEF OrderlyInv
<1>3. Proper(a, x)
  BY <1>1, <1>2, PaidOutProper
<1>. HIDE DEF x
<1>. QED
  BY <1>1, <1>3, OneProper

LEMMA TransferProper ==
  ASSUME LiquidationInv, OrderlyInv, NEW u \in Accounts, NEW v \in Accounts, NEW amount \in Payments,
         Liquidation!Transfer(u, v, amount)
  PROVE  ProperStep
<1>. DEFINE a == accounts[u]  left == [a EXCEPT !.quote = a.quote - amount]  x == Liquidation!PaidOut(left)
            b == accounts[v]  paid == [b EXCEPT !.quote = b.quote + amount]  y == Liquidation!Active(paid)
<1>1. /\ u # v /\ accounts' = [accounts EXCEPT ![u] = x, ![v] = y] /\ Liquidation!MeetsInitialMargin(left)
  BY DEF Liquidation!Transfer
<1>2. /\ IsAccount(a) /\ Orderly(a) /\ IsAccount(b) /\ Orderly(b)
      /\ slot \in Int /\ price \in Nat /\ amount \in Int
  BY NormalAssumption, AccountsTyped DEF OrderlyInv
<1>3. Proper(a, x)
  BY <1>1, <1>2, PaidOutProper
<1>4. Proper(b, y)
  BY <1>2, PaidProper
<1>. HIDE DEF x, y
<1>. QED
  BY <1>1, <1>3, <1>4, TwoProper

LEMMA EndProper ==
  ASSUME LiquidationInv, OrderlyInv, NEW u \in Accounts, NEW v \in Accounts, Liquidation!EndLiquidation(u, v)
  PROVE  ProperStep
<1>. DEFINE a == accounts[u]  x == Liquidation!ExitedLiquidation(a)
<1>1. /\ accounts' = [accounts EXCEPT ![u] = x]
      /\ Liquidation!CanExitLiquidation(Liquidation!LiquidationMargin(a))
  BY DEF Liquidation!EndLiquidation
<1>2. IsAccount(a) /\ Orderly(a) /\ slot \in Int /\ price \in Nat
  BY AccountsTyped DEF OrderlyInv
<1>3. Meets(a)
  BY <1>1, <1>2, ExitMeets
<1>4. Proper(a, x)
  BY <1>2, <1>3, ExitProper
<1>. HIDE DEF x
<1>. QED
  BY <1>1, <1>4, OneProper

LEMMA SetStatusProper ==
  ASSUME LiquidationInv, OrderlyInv, NEW u \in Accounts, Liquidation!SetStatusToBeingLiquidated(u)
  PROVE  ProperStep
<1>. DEFINE x == Liquidation!EnteredLiquidation(accounts[u])
<1>1. accounts' = [accounts EXCEPT ![u] = x]
  BY DEF Liquidation!SetStatusToBeingLiquidated
<1>2. Proper(accounts[u], x)
  BY AccountsTyped, EnteredProper DEF OrderlyInv
<1>. HIDE DEF x
<1>. QED
  BY <1>1, <1>2, OneProper

\* An account without a position and without debt needs no margin.
LEMMA EmptyMeets ==
  ASSUME NEW a, IsAccount(a), a.base = 0, a.quote = 0, price \in Nat
  PROVE  Meets(a)
<1>. DEFINE m == Liquidation!LiquidationMargin(a)
<1>1. Liquidation!Magnitude(0) = 0 /\ 0 * price = 0 /\ 0 * MaintenanceRatio = 0
  <2>1. MaintenanceRatio \in Nat
    BY NormalAssumption
  <2>2. Liquidation!Magnitude(0) = 0
    BY DEF Liquidation!Magnitude, Liquidation!Most
  <2>. QED  BY <2>1, <2>2
<1>2. 0 \div MARGIN_PRECISION = 0
  BY NormalAssumption
<1>3. m.requirement = 0 /\ m.totalCollateral = 0
  BY <1>1, <1>2 DEF Liquidation!LiquidationMargin, Liquidation!MarginCalculation
<1>. QED
  BY <1>3 DEF Meets, Liquidation!MeetsMarginRequirement

LEMMA ResolveProper ==
  ASSUME LiquidationInv, OrderlyInv, NEW u \in Accounts, NEW v \in Accounts, Liquidation!ResolveBankruptcy(u, v)
  PROVE  ProperStep
<1>. DEFINE a == accounts[u]
            account == IF Liquidation!IsUserBankrupt(a) THEN Liquidation!EnteredBankruptcy(a) ELSE a
            loss    == -account.quote
            cleared == [account EXCEPT !.quote = 0, !.socializedLoss = @ + loss]
            x == IF Liquidation!IsUserBankrupt(cleared) THEN cleared ELSE Liquidation!ExitedLiquidation(cleared)
<1>1. Liquidation!IsBankrupt(account) /\ accounts' = [accounts EXCEPT ![u] = x]
  BY DEF Liquidation!ResolveBankruptcy
<1>2. IsAccount(a) /\ Orderly(a) /\ Resolvable(a) /\ slot \in Int /\ price \in Nat
  BY AccountsTyped DEF OrderlyInv
<1>3. IsAccount(account) /\ SameMoney(a, account) /\ account.base = 0
  <2>1. CASE Liquidation!IsUserBankrupt(a)
    BY <1>2, <2>1, BankruptcyEffect DEF SameMoney, Liquidation!IsUserBankrupt
  <2>2. CASE ~Liquidation!IsUserBankrupt(a)
    BY <1>1, <1>2, <2>2 DEF SameMoney, Resolvable
  <2>. QED  BY <2>1, <2>2
<1>. HIDE DEF account
<1>4. /\ cleared = [f \in AccountFields |-> cleared[f]] /\ cleared.quote = 0 /\ cleared.base = 0
      /\ cleared.marginFreed = account.marginFreed /\ cleared.lastActiveSlot = account.lastActiveSlot
      /\ cleared.nextLiquidationId = account.nextLiquidationId
  BY <1>3 DEF IsAccount, AccountFields
<1>. HIDE DEF cleared
<1>5. IsAccount(cleared) /\ ~Liquidation!IsUserBankrupt(cleared) /\ cleared.base = a.base
  BY <1>3, <1>4 DEF IsAccount, Liquidation!IsUserBankrupt, SameMoney
<1>6. Meets(cleared)
  BY <1>2, <1>4, <1>5, EmptyMeets
<1>7. Proper(a, x)
  BY <1>2, <1>5, <1>6, ExitProper
<1>. HIDE DEF x
<1>. QED
  BY <1>1, <1>7, OneProper

\* Sums and differences of multiples of a step are multiples of it.
LEMMA MultiplesAdd ==
  ASSUME NEW step \in Nat \ {0}, NEW x \in Int, NEW y \in Int, x % step = 0, y % step = 0
  PROVE  (x + y) % step = 0 /\ (x - y) % step = 0
<1>. DEFINE i == x \div step  j == y \div step
<1>1. i \in Int /\ j \in Int /\ x = step * i /\ y = step * j
  BY DEF i, j
<1>. HIDE DEF i, j
<1>2. x + y = step * (i + j) /\ x - y = step * (i - j) /\ i + j \in Int /\ i - j \in Int
  BY <1>1
<1>. DEFINE k == i + j  n == i - j
<1>3. k \in Int /\ n \in Int /\ x + y = step * k /\ x - y = step * n
  BY <1>2
<1>. HIDE DEF k, n
<1>. QED
  BY <1>3, MultipleRest

\* The part of the amount to cover that may be taken over is that of the shortage which is due.
LEMMA PctBounds ==
  ASSUME NEW a, IsAccount(a), a.marginFreed >= 0, NEW s \in Nat, s >= FIFTY, slot \in Int,
         NEW pct, pct = Liquidation!MaxPctToLiquidate(a, s, slot, InitialPct, Duration)
  PROVE  \E due \in Nat :
            /\ pct \in Nat /\ pct <= LIQUIDATION_PCT_PRECISION /\ pct * s <= due * LIQUIDATION_PCT_PRECISION
            /\ Liquidation!Most(a.marginFreed, Liquidation!FreedableAt(a, s)) = a.marginFreed + due
<1>. DEFINE P == LIQUIDATION_PCT_PRECISION  f == a.marginFreed
            since == (slot - a.lastActiveSlot) * P
            elapsed == IF Duration = 0 THEN P ELSE since \div Duration
            freeable == Liquidation!Least(elapsed + InitialPct, P)
            all == s + f
            n == all * freeable
            most == n \div P
            due == Liquidation!Most(0, most - f)
<1>1. /\ P \in Nat \ {0} /\ f \in Nat /\ a.lastActiveSlot \in Int /\ FIFTY \in Nat \ {0}
      /\ InitialPct \in Nat /\ Duration \in Nat /\ s \in Nat \ {0} /\ ~(s < FIFTY)
  BY NormalAssumption DEF IsAccount
<1>2. pct = (due * P) \div s
  BY <1>1 DEF Liquidation!MaxPctToLiquidate
<1>3. Liquidation!FreedableAt(a, s) = most
  BY DEF Liquidation!FreedableAt
<1>. HIDE DEF P
<1>4. since \in Int
  BY <1>1
<1>. HIDE DEF since
<1>5. elapsed \in Int
  BY <1>1, <1>4
<1>. HIDE DEF elapsed
<1>6. freeable \in Int /\ freeable <= P
  BY <1>1, <1>5 DEF Liquidation!Least
<1>. HIDE DEF freeable
<1>7. all \in Nat /\ all = s + f
  BY <1>1
<1>. HIDE DEF all, f
<1>8. n \in Int /\ n <= all * P
  BY <1>1, <1>6, <1>7
<1>. HIDE DEF n
<1>9. most \in Int /\ most <= all
  <2>1. most \in Int /\ P * most <= n
    BY <1>1, <1>8
  <2>. HIDE DEF most
  <2>2. P * most <= P * all
    BY <1>1, <1>7, <1>8, <2>1
  <2>. QED  BY <1>1, <1>7, <2>1, <2>2
<1>. HIDE DEF most
<1>10. due \in Nat /\ due <= s /\ Liquidation!Most(f, most) = f + due
  BY <1>1, <1>7, <1>9 DEF Liquidation!Most
<1>. HIDE DEF due
<1>. DEFINE dp == due * P
<1>11. dp \in Nat /\ dp <= s * P
  BY <1>1, <1>10
<1>12. pct = dp \div s
  BY <1>2
<1>. HIDE DEF dp
<1>13. pct \in Nat /\ pct * s <= dp
  BY <1>1, <1>11, <1>12
<1>14. pct <= P
  <2>1. pct * s <= P * s
    BY <1>1, <1>11, <1>13
  <2>. QED  BY <1>1, <1>13, <2>1
<1>. QED
  BY <1>3, <1>10, <1>13, <1>14 DEF dp, P, f

\* How much covers a shortage: a unit of base frees its price times the spare margin that fees leave.
LEMMA CoverBounds ==
  ASSUME NEW s \in Nat, NEW size \in Nat, price \in Nat \ {0}, NEW ratio, ratio = MaintenanceRatio + Buffer,
         NEW fee, fee = Liquidation!VaultIfFee(s, size, ratio, LiquidatorFee, price, MaxIfFee),
         NEW b, b = Liquidation!BaseToCoverShortage(s, ratio, LiquidatorFee, fee, price),
         NEW spare, spare = Liquidation!FeeRatio(ratio) - LiquidatorFee - fee
  PROVE  /\ fee \in Nat /\ spare \in Nat \ {0} /\ spare <= Spare /\ b \in Nat
         /\ spare = Maintained + Buffered - (LiquidatorFee + fee)
         /\ price * spare \in Nat
         /\ b * (price * spare) <= s * LIQUIDATION_FEE_PRECISION
         /\ s * LIQUIDATION_FEE_PRECISION < (b + 1) * (price * spare)
<1>1. /\ Liquidation!FeeRatio(ratio) = Maintained + Buffered /\ Maintained \in Nat /\ Buffered \in Nat
      /\ LiquidatorFee \in Nat /\ LiquidatorFee < Maintained /\ Spare = Maintained + Buffered - LiquidatorFee
      /\ ratio \in Nat /\ LIQUIDATION_FEE_PRECISION \in Nat
  <2>1. ratio \in Nat /\ LIQUIDATION_FEE_PRECISION \in Nat
    BY NormalAssumption
  <2>2. Liquidation!FeeRatio(ratio) = Maintained + Buffered
    BY RatioFacts
  <2>. QED  BY <2>1, <2>2, RatioFacts DEF Spare
<1>2. Liquidation!FeeRatio(ratio) > LiquidatorFee
  BY <1>1
<1>3. fee \in Nat /\ fee < Liquidation!FeeRatio(ratio) - LiquidatorFee
  BY <1>1, <1>2, IfFeeTyped
<1>4. spare \in Nat \ {0} /\ spare <= Spare /\ spare = Maintained + Buffered - (LiquidatorFee + fee)
  BY <1>1, <1>3
<1>. DEFINE x == price * spare  n == s * LIQUIDATION_FEE_PRECISION
<1>5. x \in Nat \ {0} /\ n \in Nat
  BY <1>1, <1>4
<1>6. b = n \div x
  BY <1>1, <1>2 DEF Liquidation!BaseToCoverShortage
<1>. HIDE DEF x, n
<1>7. b \in Nat /\ b * x <= n /\ n < b * x + x
  BY <1>5, <1>6, QuotientBounds
<1>8. (b + 1) * x = b * x + x
  BY <1>5, <1>7
<1>. QED
  BY <1>3, <1>4, <1>5, <1>7, <1>8 DEF x, n

\* Taking an amount of the position over takes its worth off the liability, and the fees off the collateral.
LEMMA TakenEffect ==
  ASSUME NEW a, IsAccount(a), a.base % OrderStep = 0, price \in Nat,
         NEW amount \in Nat, amount <= Liquidation!Magnitude(a.base), amount % OrderStep = 0,
         NEW fees \in Int, NEW left, left = Liquidation!TakenOver(a, amount, fees)
  PROVE  /\ IsAccount(left) /\ left.base % OrderStep = 0 /\ left.status = a.status
         /\ left.marginFreed = a.marginFreed
         /\ LiabilityOf(left) = LiabilityOf(a) - amount * price
         /\ left.quote + left.base * price = a.quote + a.base * price - fees
<1>. DEFINE side == IF a.base > 0 THEN 1 ELSE -1  g == side * amount  m == side * amount * price
            w == amount * price
<1>0. a.base \in Int /\ a.quote \in Int /\ OrderStep \in Nat \ {0}
  BY NormalAssumption DEF IsAccount
<1>1. \/ a.base > 0 /\ g = amount /\ m = w
      \/ a.base <= 0 /\ g = -amount /\ m = -w
  BY <1>0
<1>2. w \in Nat /\ m = g * price
  OBVIOUS
<1>3. left = [a EXCEPT !.base = a.base - g, !.quote = a.quote + m - fees]
  BY DEF Liquidation!TakenOver, IsAccount, AccountFields
<1>. HIDE DEF side, g, m, w
<1>4. g \in Int /\ m \in Int
  BY <1>1, <1>2
<1>5. /\ left = [f \in AccountFields |-> left[f]] /\ left.base = a.base - g /\ left.quote = a.quote + m - fees
      /\ left.marginFreed = a.marginFreed /\ left.lastActiveSlot = a.lastActiveSlot
      /\ left.nextLiquidationId = a.nextLiquidationId /\ left.status = a.status
  BY <1>3 DEF IsAccount, AccountFields
<1>6. IsAccount(left)
  <2>1. left.base \in Int /\ left.quote \in Int
    BY <1>0, <1>4, <1>5
  <2>. QED  BY <1>5, <2>1 DEF IsAccount
<1>7. left.base % OrderStep = 0
  <2>1. (a.base - amount) % OrderStep = 0 /\ (a.base + amount) % OrderStep = 0
    BY <1>0, MultiplesAdd
  <2>2. left.base = a.base - amount \/ left.base = a.base + amount
    BY <1>0, <1>1, <1>5
  <2>. QED  BY <2>1, <2>2
<1>8. Liquidation!Magnitude(left.base) = Liquidation!Magnitude(a.base) - amount
  BY <1>0, <1>1, <1>5 DEF Liquidation!Magnitude, Liquidation!Most
<1>. DEFINE size == Liquidation!Magnitude(a.base)
<1>9. (size - amount) * price = size * price - w
  <2>1. size \in Int
    BY <1>0 DEF Liquidation!Magnitude, Liquidation!Most
  <2>. HIDE DEF size
  <2>. QED  BY <2>1 DEF w
<1>10. left.quote + left.base * price = a.quote + a.base * price - fees
  <2>. DEFINE ab == a.base * price  gp == g * price
  <2>1. (a.base - g) * price = ab - gp /\ ab \in Int /\ gp \in Int
    BY <1>0, <1>4
  <2>. HIDE DEF ab, gp
  <2>2. left.base * price = ab - gp /\ m = gp
    BY <1>2, <1>5, <2>1 DEF gp
  <2>3. a.quote + m - fees + (ab - gp) = a.quote + ab - fees
    BY <1>0, <2>1, <2>2
  <2>. QED  BY <1>5, <2>2, <2>3 DEF ab
<1>. QED
  BY <1>5, <1>6, <1>7, <1>8, <1>9, <1>10 DEF LiabilityOf, w, size

\* A fee precision of a fee, as the fees of an amount are both rounded down
LEMMA FeesBounds ==
  ASSUME NEW amount \in Nat, NEW fee \in Nat, price \in Nat,
         NEW fees, fees = Liquidation!FeeOf(amount, LiquidatorFee) + Liquidation!FeeOf(amount, fee)
  PROVE  /\ fees \in Nat
         /\ LIQUIDATION_FEE_PRECISION * fees <= (amount * price) * (LiquidatorFee + fee)
         /\ LIQUIDATION_FEE_PRECISION * fees
               > (amount * price) * (LiquidatorFee + fee) - 2 * LIQUIDATION_FEE_PRECISION
<1>. DEFINE F == LIQUIDATION_FEE_PRECISION  w == amount * price  k == LiquidatorFee
            f == Liquidation!FeeOf(amount, k)  g == Liquidation!FeeOf(amount, fee)
<1>1. F \in Nat \ {0} /\ k \in Nat
  BY NormalAssumption
<1>2. f \in Nat /\ w \in Nat /\ F * f <= w * k /\ F * f > w * k - F
  <2>. HIDE DEF k, f
  <2>1. f = Liquidation!FeeOf(amount, k)
    BY DEF f
  <2>. QED  BY <1>1, <2>1, FeeBounds
<1>3. g \in Nat /\ F * g <= w * fee /\ F * g > w * fee - F
  BY FeeBounds
<1>. HIDE DEF F, w, k, f, g
<1>4. w * (k + fee) = w * k + w * fee /\ F * (f + g) = F * f + F * g
      /\ w * k \in Int /\ w * fee \in Int /\ F * f \in Int /\ F * g \in Int
  BY <1>1, <1>2, <1>3
<1>5. F * (f + g) <= w * (k + fee) /\ F * (f + g) > w * (k + fee) - 2 * F /\ f + g \in Nat
  BY <1>1, <1>2, <1>3, <1>4
<1>. QED
  BY <1>5 DEF F, w, k, f, g

\* As much as covers the shortage leaves an account that lacks rounding only.
LEMMA CoveredShort ==
  ASSUME price \in Nat \ {0}, NEW a, NEW m, MarginFit(a, m), NEW left, NEW n, MarginFit(left, n),
         NEW s \in Nat, s = m.plusBuffer - m.totalCollateral,
         NEW size \in Nat, NEW fee, fee = Liquidation!VaultIfFee(s, size, MaintenanceRatio + Buffer,
                                                                 LiquidatorFee, price, MaxIfFee),
         NEW amount \in Nat,
         amount >= Liquidation!BaseToCoverShortage(s, MaintenanceRatio + Buffer, LiquidatorFee, fee, price),
         NEW fees, fees = Liquidation!FeeOf(amount, LiquidatorFee) + Liquidation!FeeOf(amount, fee),
         LiabilityOf(left) = LiabilityOf(a) - amount * price,
         n.totalCollateral = m.totalCollateral - fees
  PROVE  n.requirement - n.totalCollateral <= Liquidation!Rounding
<1>. DEFINE F == LIQUIDATION_FEE_PRECISION  ratio == MaintenanceRatio + Buffer
            b == Liquidation!BaseToCoverShortage(s, ratio, LiquidatorFee, fee, price)
            spare == Liquidation!FeeRatio(ratio) - LiquidatorFee - fee
            x == price * spare  k == LiquidatorFee + fee  w == amount * price
            l == LiabilityOf(a)  d == Maintained  e == Buffered
            plus == m.plusBuffer  total == m.totalCollateral  req == n.requirement  short == req - (total - fees)
<1>1. /\ fee \in Nat /\ spare \in Nat \ {0} /\ spare <= Spare /\ b \in Nat /\ spare = d + e - k
      /\ x \in Nat /\ b * x <= s * F /\ s * F < (b + 1) * x
  <2>. DEFINE r == ratio
  <2>1. r = MaintenanceRatio + Buffer
    OBVIOUS
  <2>. HIDE DEF r
  <2>2. /\ fee = Liquidation!VaultIfFee(s, size, r, LiquidatorFee, price, MaxIfFee)
        /\ b = Liquidation!BaseToCoverShortage(s, r, LiquidatorFee, fee, price)
        /\ spare = Liquidation!FeeRatio(r) - LiquidatorFee - fee
    BY <2>1
  <2>. HIDE DEF b, spare
  <2>. QED  BY <2>1, <2>2, CoverBounds
<1>2. F \in Nat \ {0} /\ d \in Nat /\ e \in Nat /\ k \in Nat /\ Spare \in Nat
  BY <1>1, RatioFacts, NormalAssumption
<1>3. fees \in Nat /\ F * fees <= w * k
  BY <1>1, FeesBounds
<1>4. /\ l \in Nat /\ plus \in Int /\ total \in Int /\ req \in Int /\ w \in Nat
      /\ F * plus > l * (d + e) - 2 * F
      /\ l - w \in Nat /\ F * req <= (l - w) * d
  <2>1. LiabilityOf(left) = l - w
    OBVIOUS
  <2>. HIDE DEF l, w
  <2>2. l \in Nat /\ LiabilityOf(left) \in Nat
    BY DEF MarginFit, l
  <2>3. w \in Nat
    BY DEF w
  <2>4. F * plus > l * (d + e) - 2 * F
    BY DEF MarginFit, l
  <2>5. F * req <= LiabilityOf(left) * d
    BY DEF MarginFit
  <2>. QED  BY <2>1, <2>2, <2>3, <2>4, <2>5 DEF MarginFit
<1>5. w <= l
  BY <1>4
<1>6. (plus - total) * F < (b + 1) * x /\ amount >= b
  BY <1>1
<1>7. w * (d + e - k) >= b * x
  <2>1. w * spare = amount * x
    <3>. HIDE DEF spare
    <3>1. (amount * price) * spare = amount * (price * spare)
      BY <1>1
    <3>. QED  BY <3>1
  <2>. HIDE DEF x, b, w, spare
  <2>2. amount * x >= b * x
    BY <1>1, <1>6
  <2>. QED  BY <1>1, <2>1, <2>2
<1>8. F * short < 2 * F + x
  <2>. HIDE DEF F, ratio, b, spare, x, k, w, l, d, e, plus, total, req
  <2>. QED  BY <1>1, <1>2, <1>3, <1>4, <1>5, <1>6, <1>7, CoveredArithmetic
<1>9. short \in Int
  BY <1>3, <1>4
<1>10. x <= price * Spare
  <2>. HIDE DEF spare
  <2>. QED  BY <1>1, <1>2
<1>. DEFINE y == price * Spare  two == 2  one == 1
<1>11. y \in Nat
  BY <1>2
<1>12. F * short < two * F + y
  <2>. HIDE DEF y, x, short, F
  <2>1. F * short \in Int
    BY <1>2, <1>9
  <2>2. x <= y
    BY <1>10 DEF y
  <2>. QED  BY <1>1, <1>2, <1>8, <1>11, <2>1, <2>2
<1>13. short <= two + (y \div F)
  <2>1. two \in Int
    OBVIOUS
  <2>. HIDE DEF y, x, short, F, two
  <2>. QED  BY <1>2, <1>9, <1>11, <1>12, <2>1, InUnits
<1>14. Liquidation!MarginOf(one) = y \div F
  <2>1. one \in Nat
    OBVIOUS
  <2>2. one * price * Spare = y
    BY <1>2
  <2>. HIDE DEF one, y
  <2>. QED  BY <2>1, <2>2, MarginOfTyped
<1>15. short <= Liquidation!Rounding
  <2>. HIDE DEF short, y, F
  <2>. QED  BY <1>13, <1>14 DEF Liquidation!Rounding
<1>. QED
  BY <1>15

\* What a call frees is what is due by now, up to rounding.
LEMMA FreedDue ==
  ASSUME price \in Nat \ {0}, NEW a, NEW m, MarginFit(a, m), NEW left, NEW n, MarginFit(left, n),
         NEW s \in Nat, s = m.plusBuffer - m.totalCollateral,
         NEW size \in Nat, NEW fee, fee = Liquidation!VaultIfFee(s, size, MaintenanceRatio + Buffer,
                                                                 LiquidatorFee, price, MaxIfFee),
         NEW cover, cover = Liquidation!StandardizedUp(
             Liquidation!BaseToCoverShortage(s, MaintenanceRatio + Buffer, LiquidatorFee, fee, price), OrderStep),
         NEW pct \in Nat, pct <= LIQUIDATION_PCT_PRECISION,
         NEW due \in Nat, pct * s <= due * LIQUIDATION_PCT_PRECISION,
         NEW amount \in Nat, amount <= ((cover * pct) \div LIQUIDATION_PCT_PRECISION) + OrderStep - 1,
         NEW fees, fees = Liquidation!FeeOf(amount, LiquidatorFee) + Liquidation!FeeOf(amount, fee),
         LiabilityOf(left) = LiabilityOf(a) - amount * price,
         n.totalCollateral = m.totalCollateral - fees,
         NEW freed \in Int, freed <= s - (n.plusBuffer - n.totalCollateral)
  PROVE  freed <= due + Liquidation!StepWorth
<1>. DEFINE F == LIQUIDATION_FEE_PRECISION  P == LIQUIDATION_PCT_PRECISION  ratio == MaintenanceRatio + Buffer
            b == Liquidation!BaseToCoverShortage(s, ratio, LiquidatorFee, fee, price)
            spare == Liquidation!FeeRatio(ratio) - LiquidatorFee - fee
            x == price * spare  k == LiquidatorFee + fee  w == amount * price
            l == LiabilityOf(a)  d == Maintained  e == Buffered  r == d + e
            plus == m.plusBuffer  plus2 == n.plusBuffer  allowed == (cover * pct) \div P  t == OrderStep - 1
<1>1. /\ fee \in Nat /\ spare \in Nat \ {0} /\ spare <= Spare /\ b \in Nat /\ spare = d + e - k
      /\ x \in Nat /\ b * x <= s * F
  <2>. DEFINE q == ratio
  <2>1. q = MaintenanceRatio + Buffer
    OBVIOUS
  <2>. HIDE DEF q
  <2>2. /\ fee = Liquidation!VaultIfFee(s, size, q, LiquidatorFee, price, MaxIfFee)
        /\ b = Liquidation!BaseToCoverShortage(s, q, LiquidatorFee, fee, price)
        /\ spare = Liquidation!FeeRatio(q) - LiquidatorFee - fee
    BY <2>1
  <2>. HIDE DEF b, spare
  <2>. QED  BY <2>1, <2>2, CoverBounds
<1>2. /\ F \in Nat \ {0} /\ d \in Nat /\ e \in Nat /\ k \in Nat /\ Spare \in Nat /\ P \in Nat \ {0}
      /\ OrderStep \in Nat \ {0} /\ t \in Nat /\ r \in Nat
  <2>1. F \in Nat \ {0} /\ P \in Nat \ {0} /\ OrderStep \in Nat \ {0} /\ LiquidatorFee \in Nat
    BY NormalAssumption
  <2>2. d \in Nat /\ e \in Nat /\ Spare \in Nat
    BY RatioFacts
  <2>3. t \in Nat
    BY <2>1
  <2>4. k \in Nat
    BY <1>1, <2>1
  <2>5. r \in Nat
    BY <2>2
  <2>. QED  BY <2>1, <2>2, <2>3, <2>4, <2>5
<1>3. fees \in Nat /\ F * fees > w * k - 2 * F
  BY <1>1, FeesBounds
<1>4. /\ l \in Nat /\ plus \in Int /\ plus2 \in Int /\ w \in Nat
      /\ F * plus <= l * r /\ F * plus2 > (l - w) * r - 2 * F
  <2>1. LiabilityOf(left) = l - w
    OBVIOUS
  <2>. HIDE DEF l, w
  <2>2. l \in Nat /\ w \in Nat
    BY DEF MarginFit, l, w
  <2>3. F * plus <= l * r
    BY DEF MarginFit, l
  <2>4. F * plus2 > LiabilityOf(left) * r - 2 * F
    BY DEF MarginFit
  <2>. QED  BY <2>1, <2>2, <2>3, <2>4 DEF MarginFit
<1>5. freed <= plus - plus2 - fees
  <2>1. m.totalCollateral \in Int /\ n.totalCollateral \in Int
    BY DEF MarginFit
  <2>. QED  BY <1>3, <1>4, <2>1
<1>6. F * freed < w * (r - k) + 4 * F
  <2>. HIDE DEF F, k, w, l, r, plus, plus2
  <2>. QED  BY <1>2, <1>3, <1>4, <1>5, FreedArithmetic
<1>7. cover \in Int /\ cover <= b + t
  <2>1. cover = Liquidation!StandardizedUp(b, OrderStep)
    OBVIOUS
  <2>. HIDE DEF b
  <2>2. cover \in Int /\ cover <= b + OrderStep - 1
    BY <1>1, <1>2, <2>1, StandardizedUpBounds
  <2>. QED  BY <1>1, <1>2, <2>2
<1>8. allowed \in Int /\ P * allowed <= cover * pct /\ amount <= allowed + t
  <2>. DEFINE n1 == cover * pct
  <2>1. n1 \in Int
    BY <1>7
  <2>2. allowed = n1 \div P
    OBVIOUS
  <2>3. amount <= allowed + t
    <3>1. allowed \in Int
      <4>. HIDE DEF n1
      <4>. QED  BY <1>2, <2>1, <2>2
    <3>2. amount <= allowed + OrderStep - 1
      OBVIOUS
    <3>. HIDE DEF allowed
    <3>. QED  BY <1>2, <3>1, <3>2
  <2>4. allowed \in Int /\ P * allowed <= n1
    <3>. HIDE DEF n1, allowed
    <3>. QED  BY <1>2, <2>1, <2>2
  <2>. QED  BY <2>3, <2>4
<1>9. amount * x <= due * F + 2 * (t * x)
  <2>1. pct <= P /\ pct * s <= due * P
    OBVIOUS
  <2>. HIDE DEF F, P, b, x, t, allowed
  <2>. QED  BY <1>1, <1>2, <1>7, <1>8, <2>1, AllowedArithmetic
<1>10. w * (r - k) = amount * x
  <2>1. w * spare = amount * x
    <3>. HIDE DEF spare
    <3>1. (amount * price) * spare = amount * (price * spare)
      BY <1>1
    <3>. QED  BY <3>1
  <2>2. spare = r - k
    <3>. HIDE DEF spare, k, d, e
    <3>1. spare = d + e - k /\ r = d + e
      BY <1>1
    <3>. HIDE DEF r
    <3>. QED  BY <1>2, <3>1
  <2>. HIDE DEF spare, w, x, r, k
  <2>. QED  BY <2>1, <2>2
<1>. DEFINE y == 2 * t * price * Spare  c == due + 4  units == 2 * t
<1>11. 2 * (t * x) <= y /\ y \in Nat
  <2>. HIDE DEF spare, t
  <2>. DEFINE tp == t * price
  <2>1. tp \in Nat
    BY <1>2
  <2>2. t * x = tp * spare /\ 2 * t * price * Spare = 2 * (tp * Spare)
    BY <1>1, <1>2
  <2>. HIDE DEF tp, x
  <2>3. tp * spare <= tp * Spare /\ tp * spare \in Nat /\ tp * Spare \in Nat
    BY <1>1, <1>2, <2>1
  <2>. QED  BY <2>2, <2>3
<1>12. F * freed < c * F + y
  <2>. DEFINE ff == F * freed  ax == amount * x  df == due * F  tx == 2 * (t * x)
  <2>1. ff \in Int /\ ax \in Int /\ df \in Int /\ tx \in Int
    <3>. HIDE DEF F, x, t
    <3>. QED  BY <1>1, <1>2
  <2>2. c * F = df + 4 * F
    <3>. HIDE DEF F
    <3>. QED  BY <1>2
  <2>3. ff < ax + 4 * F /\ ax <= df + tx /\ tx <= y
    BY <1>6, <1>9, <1>10, <1>11
  <2>. HIDE DEF ff, ax, df, tx, c, F, y
  <2>4. ff < c * F + y
    BY <1>2, <1>11, <2>1, <2>2, <2>3
  <2>. QED  BY <2>4 DEF ff
<1>13. freed <= c + (y \div F)
  <2>1. c \in Int
    OBVIOUS
  <2>. HIDE DEF c, F, y
  <2>. QED  BY <1>2, <1>11, <1>12, <2>1, InUnits
<1>14. Liquidation!StepWorth = 4 + (y \div F)
  <2>1. units \in Nat /\ units = 2 * (OrderStep - 1)
    BY <1>2
  <2>2. units * price * Spare = y
    OBVIOUS
  <2>. HIDE DEF units, y
  <2>3. Liquidation!MarginOf(units) = y \div F
    BY <2>1, <2>2, MarginOfTyped
  <2>. QED  BY <2>1, <2>3 DEF Liquidation!StepWorth
<1>15. y \div F \in Int
  <2>. HIDE DEF y, F
  <2>. QED  BY <1>2, <1>11
<1>. HIDE DEF y, F
<1>. QED
  BY <1>13, <1>14, <1>15

\* The shortage of an account that may be liquidated is what it lacks, never cut off at zero.
LEMMA RealShortage ==
  ASSUME NEW a, IsAccount(a), price \in Nat, Liquidation!IsLiquidatable(a),
         NEW m, m = Liquidation!LiquidationMargin(a)
  PROVE  /\ Liquidation!MarginShortage(m) = m.plusBuffer - m.totalCollateral
         /\ Liquidation!MarginShortage(m) \in Nat
<1>1. MarginFit(a, m)
  BY MarginBounds
<1>2. \/ ~(m.totalCollateral >= m.plusBuffer)
      \/ ~(m.totalCollateral >= m.requirement)
  BY DEF Liquidation!IsLiquidatable, Liquidation!CanExitLiquidation, Liquidation!MeetsMarginRequirement
<1>3. m.totalCollateral \in Int /\ m.plusBuffer \in Int /\ m.totalCollateral < m.plusBuffer
  BY <1>1, <1>2 DEF MarginFit
<1>. QED
  BY <1>3 DEF Liquidation!MarginShortage, Liquidation!Magnitude, Liquidation!Most

\* Collateral is what it is worth: two accounts whose worth differs by fees have margins that do.
LEMMA SameCollateral ==
  ASSUME NEW a, IsAccount(a), price \in Int, NEW m, MarginFit(a, m), NEW left, NEW n, MarginFit(left, n),
         NEW fees \in Int, left.quote + left.base * price = a.quote + a.base * price - fees
  PROVE  n.totalCollateral = m.totalCollateral - fees
<1>. DEFINE held == a.base * price  q == a.quote
<1>1. /\ n.totalCollateral = left.quote + left.base * price
      /\ m.totalCollateral = a.quote + held
  BY DEF MarginFit
<1>2. left.quote + left.base * price = a.quote + held - fees
  OBVIOUS
<1>3. held \in Int /\ q \in Int
  BY DEF IsAccount
<1>. HIDE DEF held
<1>4. q + held - fees = (q + held) - fees
  BY <1>3
<1>. QED
  BY <1>1, <1>2, <1>4

\* A call that takes a part of the position over
LEMMA LiquidatedProper ==
  ASSUME NEW a, IsAccount(a), Orderly(a), slot \in Int, price \in Nat \ {0}, Liquidation!IsLiquidatable(a),
         NEW entered, entered = Liquidation!EnteredLiquidation(a),
         NEW size, size = Liquidation!Magnitude(entered.base),
         NEW s, s = Liquidation!MarginShortage(Liquidation!LiquidationMargin(entered)),
         NEW fee, fee = Liquidation!VaultIfFee(s, size, MaintenanceRatio + Buffer, LiquidatorFee, price, MaxIfFee),
         NEW cover, cover = Liquidation!StandardizedUp(
             Liquidation!BaseToCoverShortage(s, MaintenanceRatio + Buffer, LiquidatorFee, fee, price), OrderStep),
         NEW pct, pct = Liquidation!MaxPctToLiquidate(entered, s, slot, InitialPct, Duration),
         NEW most \in Nat,
         NEW amount, amount = Liquidation!BaseToTransfer(
             size, most, (cover * pct) \div LIQUIDATION_PCT_PRECISION, price, OrderStep),
         NEW fees, fees = Liquidation!FeeOf(amount, LiquidatorFee) + Liquidation!FeeOf(amount, fee)
  PROVE  /\ amount \in Nat /\ amount % OrderStep = 0
         /\ Proper(a, Liquidation!Liquidated(entered, Liquidation!TakenOver(entered, amount, fees),
                                             s, amount >= cover))
<1>. DEFINE m == Liquidation!LiquidationMargin(entered)
            b == Liquidation!BaseToCoverShortage(s, MaintenanceRatio + Buffer, LiquidatorFee, fee, price)
            allowed == (cover * pct) \div LIQUIDATION_PCT_PRECISION
            left == Liquidation!TakenOver(entered, amount, fees)
            n == Liquidation!LiquidationMargin(left)
            freed == Liquidation!Most(0, s - Liquidation!MarginShortage(n))
            told == [left EXCEPT !.marginFreed = @ + freed]
            x == Liquidation!Liquidated(entered, left, s, amount >= cover)
<1>1. /\ IsAccount(entered) /\ SameMoney(a, entered) /\ Liquidation!IsBeingLiquidated(entered)
      /\ entered = a \/ entered.marginFreed = 0
  BY EnteredEffect
<1>2. entered.base % OrderStep = 0 /\ entered.marginFreed >= 0 /\ entered.marginFreed \in Int
  BY <1>1 DEF Orderly, SameMoney, IsAccount
<1>3. m = Liquidation!LiquidationMargin(a)
  BY <1>1, SameMargin
<1>4. MarginFit(entered, m) /\ s = m.plusBuffer - m.totalCollateral /\ s \in Nat
  <2>1. MarginFit(entered, m)
    BY <1>1, MarginBounds
  <2>2. s = Liquidation!MarginShortage(m)
    OBVIOUS
  <2>. HIDE DEF m
  <2>. QED  BY <1>3, <2>1, <2>2, RealShortage
<1>5. size \in Nat /\ size % OrderStep = 0 /\ OrderStep \in Nat \ {0}
      /\ LIQUIDATION_PCT_PRECISION \in Nat \ {0} /\ FIFTY \in Nat \ {0}
  <2>1. OrderStep \in Nat \ {0} /\ LIQUIDATION_PCT_PRECISION \in Nat \ {0} /\ FIFTY \in Nat \ {0}
    BY NormalAssumption
  <2>2. entered.base \in Int
    BY <1>1 DEF IsAccount
  <2>. DEFINE zero == 0  e == entered.base
  <2>3. zero \in Int /\ zero % OrderStep = 0 /\ e \in Int /\ e % OrderStep = 0
    BY <1>2, <2>1, <2>2
  <2>. HIDE DEF zero, e
  <2>4. (zero - e) % OrderStep = 0
    BY <2>1, <2>3, MultiplesAdd
  <2>5. size \in Nat /\ (size = entered.base \/ size = zero - e)
    BY <2>2 DEF Liquidation!Magnitude, Liquidation!Most, zero, e
  <2>. QED  BY <1>2, <2>1, <2>4, <2>5
<1>6. fee \in Nat /\ b \in Nat
  <2>. DEFINE r == MaintenanceRatio + Buffer
  <2>1. r = MaintenanceRatio + Buffer
    OBVIOUS
  <2>. HIDE DEF r
  <2>2. /\ fee = Liquidation!VaultIfFee(s, size, r, LiquidatorFee, price, MaxIfFee)
        /\ b = Liquidation!BaseToCoverShortage(s, r, LiquidatorFee, fee, price)
    BY <2>1
  <2>. HIDE DEF b
  <2>. QED  BY <1>4, <1>5, <2>1, <2>2, CoverBounds
<1>7. cover \in Int /\ b <= cover
  <2>1. cover = Liquidation!StandardizedUp(b, OrderStep)
    OBVIOUS
  <2>. HIDE DEF b
  <2>. QED  BY <1>5, <1>6, <2>1, StandardizedUpBounds
<1>8. pct \in Int
  BY <1>1, <1>4, MaxPctTyped
<1>. HIDE DEF m, b
<1>. DEFINE cp == cover * pct
<1>9. cp \in Int /\ allowed = cp \div LIQUIDATION_PCT_PRECISION
  BY <1>7, <1>8
<1>10. allowed \in Int
  <2>. HIDE DEF cp
  <2>. QED  BY <1>5, <1>9
<1>11. /\ amount \in Nat /\ amount <= size /\ amount % OrderStep = 0
       /\ size * price > FIFTY /\ allowed >= 0 => amount <= allowed + OrderStep - 1
  <2>1. amount = Liquidation!BaseToTransfer(size, most, allowed, price, OrderStep)
    OBVIOUS
  <2>. HIDE DEF allowed
  <2>2. most \in Int /\ most >= 0 /\ price \in Nat
    OBVIOUS
  <2>. QED  BY ONLY <1>5, <1>10, <2>1, <2>2, TransferBounds
<1>12. fees \in Nat
  BY <1>6, <1>11, FeesBounds
<1>13. /\ IsAccount(left) /\ left.base % OrderStep = 0 /\ left.status = entered.status
       /\ left.marginFreed = entered.marginFreed
       /\ LiabilityOf(left) = LiabilityOf(entered) - amount * price
       /\ left.quote + left.base * price = entered.quote + entered.base * price - fees
  BY <1>1, <1>2, <1>11, <1>12, TakenEffect
<1>. HIDE DEF left
<1>14. MarginFit(left, n)
  BY <1>13, MarginBounds
<1>15. n.totalCollateral = m.totalCollateral - fees
  <2>. HIDE DEF n
  <2>1. price \in Int /\ fees \in Int
    BY <1>12
  <2>. QED  BY ONLY <1>1, <1>4, <1>13, <1>14, <2>1, SameCollateral
<1>16. freed \in Nat /\ (freed > 0 => freed <= s - (n.plusBuffer - n.totalCollateral))
  <2>1. n.plusBuffer \in Int /\ n.totalCollateral \in Int
    BY <1>14 DEF MarginFit
  <2>. HIDE DEF n
  <2>2. /\ Liquidation!MarginShortage(n) \in Nat
        /\ Liquidation!MarginShortage(n) >= n.plusBuffer - n.totalCollateral
    BY <2>1 DEF Liquidation!MarginShortage, Liquidation!Magnitude, Liquidation!Most
  <2>. QED  BY <1>4, <2>1, <2>2 DEF Liquidation!Most
<1>17. /\ amount >= cover => x = Liquidation!ExitedLiquidation(told)
       /\ ~(amount >= cover) /\ Liquidation!IsUserBankrupt(told) => x = Liquidation!EnteredBankruptcy(told)
       /\ ~(amount >= cover) /\ ~Liquidation!IsUserBankrupt(told) => x = told
  BY DEF Liquidation!Liquidated
<1>. HIDE DEF freed
<1>18. /\ IsAccount(told) /\ told.base = left.base /\ told.quote = left.quote
       /\ told.status = entered.status /\ told.marginFreed = entered.marginFreed + freed
  <2>1. /\ told = [f \in AccountFields |-> told[f]] /\ told.base = left.base /\ told.quote = left.quote
        /\ told.marginFreed = left.marginFreed + freed /\ told.lastActiveSlot = left.lastActiveSlot
        /\ told.nextLiquidationId = left.nextLiquidationId /\ told.status = left.status
    BY <1>13 DEF IsAccount, AccountFields
  <2>. HIDE DEF told
  <2>2. told.marginFreed \in Int
    BY <1>2, <1>13, <1>16, <2>1
  <2>. QED  BY <1>13, <2>1, <2>2 DEF IsAccount
<1>. HIDE DEF told, x
<1>19. CASE amount >= cover
  <2>1. /\ IsAccount(x) /\ SameMoney(told, x) /\ x.marginFreed = 0 /\ ~Liquidation!IsBeingLiquidated(x)
    BY <1>17, <1>18, <1>19, ExitedEffect
  <2>2. SameMoney(left, x)
    BY <1>18, <2>1 DEF SameMoney
  <2>3. n = Liquidation!LiquidationMargin(x)
    BY <2>2, SameMargin
  <2>4. x.base % OrderStep = 0
    BY <1>13, <2>2 DEF SameMoney
  <2>. DEFINE short == n.requirement - n.totalCollateral
  <2>5. amount >= b
    BY <1>6, <1>7, <1>11, <1>19
  <2>. HIDE DEF n
  <2>6. short <= Liquidation!Rounding
    <3>1. /\ price \in Nat \ {0}
          /\ fee = Liquidation!VaultIfFee(s, size, MaintenanceRatio + Buffer, LiquidatorFee, price, MaxIfFee)
          /\ fees = Liquidation!FeeOf(amount, LiquidatorFee) + Liquidation!FeeOf(amount, fee)
      OBVIOUS
    <3>2. amount >= Liquidation!BaseToCoverShortage(s, MaintenanceRatio + Buffer, LiquidatorFee, fee, price)
      BY <2>5 DEF b
    <3>. QED  BY ONLY <1>4, <1>5, <1>11, <1>13, <1>14, <1>15, <3>1, <3>2, CoveredShort
  <2>7. short \in Int /\ n.requirement <= n.totalCollateral + short
    BY <1>14 DEF MarginFit
  <2>. HIDE DEF short
  <2>8. price \in Nat
    OBVIOUS
  <2>9. IsAccount(a) /\ Orderly(a) /\ slot \in Int
    OBVIOUS
  <2>10. Proper(a, x)
    BY ONLY <2>1, <2>3, <2>4, <2>6, <2>7, <2>8, <2>9, ExitedProper
  <2>. QED  BY <1>11, <2>10 DEF x, left
<1>20. CASE ~(amount >= cover)
  <2>1. /\ IsAccount(x) /\ x.base = told.base /\ x.marginFreed = told.marginFreed
        /\ Liquidation!IsBeingLiquidated(x)
    <3>1. CASE Liquidation!IsUserBankrupt(told)
      BY <1>17, <1>18, <1>20, <3>1, BankruptcyEffect
         DEF SameMoney, Liquidation!IsBankrupt, Liquidation!IsBeingLiquidated
    <3>2. CASE ~Liquidation!IsUserBankrupt(told)
      BY <1>1, <1>17, <1>18, <1>20, <3>2 DEF Liquidation!IsBeingLiquidated
    <3>. QED  BY <3>1, <3>2
  <2>2. Orderly(x)
    BY <1>2, <1>13, <1>16, <1>18, <2>1 DEF Orderly
  <2>3. EndedWell(a, x)
    BY <2>1 DEF EndedWell
  <2>4. ASSUME x.marginFreed > entered.marginFreed, s >= FIFTY, size * price > FIFTY
        PROVE  x.marginFreed <= Liquidation!Most(entered.marginFreed, Liquidation!FreedableAt(entered, s))
                                   + Liquidation!StepWorth
    <3>1. PICK due \in Nat :
            /\ pct \in Nat /\ pct <= LIQUIDATION_PCT_PRECISION /\ pct * s <= due * LIQUIDATION_PCT_PRECISION
            /\ Liquidation!Most(entered.marginFreed, Liquidation!FreedableAt(entered, s))
                  = entered.marginFreed + due
      BY <1>1, <1>2, <1>4, <2>4, PctBounds
    <3>2. allowed >= 0
      <4>1. cp \in Nat
        BY <1>6, <1>7, <3>1
      <4>. HIDE DEF cp
      <4>. QED  BY <1>5, <1>9, <4>1
    <3>3. amount <= allowed + OrderStep - 1
      BY <1>11, <2>4, <3>2
    <3>4. freed \in Int /\ freed <= s - (n.plusBuffer - n.totalCollateral)
      BY <1>2, <1>16, <1>18, <2>1, <2>4
    <3>. HIDE DEF n
    <3>5. freed <= due + Liquidation!StepWorth
      <4>1. /\ price \in Nat \ {0} /\ due \in Nat
            /\ fee = Liquidation!VaultIfFee(s, size, MaintenanceRatio + Buffer, LiquidatorFee, price, MaxIfFee)
            /\ cover = Liquidation!StandardizedUp(
                 Liquidation!BaseToCoverShortage(s, MaintenanceRatio + Buffer, LiquidatorFee, fee, price), OrderStep)
            /\ fees = Liquidation!FeeOf(amount, LiquidatorFee) + Liquidation!FeeOf(amount, fee)
        OBVIOUS
      <4>. QED  BY ONLY <1>4, <1>5, <1>11, <1>13, <1>14, <1>15, <3>1, <3>3, <3>4, <4>1, FreedDue
    <3>6. Liquidation!StepWorth \in Int
      <4>. DEFINE units == 2 * (OrderStep - 1)
      <4>1. units \in Nat
        BY <1>5
      <4>. HIDE DEF units
      <4>2. Liquidation!MarginOf(units) \in Nat
        BY <4>1, MarginOfTyped
      <4>. QED  BY <4>2 DEF Liquidation!StepWorth, units
    <3>. DEFINE worth == Liquidation!StepWorth
    <3>. HIDE DEF worth
    <3>7. entered.marginFreed + freed <= (entered.marginFreed + due) + worth
      BY <1>2, <3>4, <3>5, <3>6 DEF worth
    <3>. QED  BY <1>18, <2>1, <3>1, <3>7 DEF worth
  <2>5. Gradual(a, x)
    BY <2>4 DEF Gradual
  <2>. QED  BY <1>11, <2>2, <2>3, <2>5 DEF Proper, x, left
<1>. QED
  BY <1>19, <1>20

\* Whoever takes a part of a position over keeps its own liquidation, if any, as it is.
LEMMA AcquiredProper ==
  ASSUME NEW a, IsAccount(a), Orderly(a), price \in Nat, slot \in Int, NEW side \in {1, -1},
         NEW amount \in Nat, amount % OrderStep = 0, NEW fee \in Int
  PROVE  Proper(a, Liquidation!Acquired(a, side, amount, fee))
<1>. DEFINE g == side * amount  m == side * amount * price  y == Liquidation!Acquired(a, side, amount, fee)
<1>0. a.base \in Int /\ a.quote \in Int /\ OrderStep \in Nat \ {0}
  BY NormalAssumption DEF IsAccount
<1>1. g \in Int /\ m \in Int
  <2>1. g \in Int
    OBVIOUS
  <2>2. m = g * price
    OBVIOUS
  <2>. HIDE DEF g, m
  <2>. QED  BY <2>1, <2>2
<1>2. y = [a EXCEPT !.base = a.base + g, !.quote = a.quote - m + fee]
  BY DEF Liquidation!Acquired, IsAccount, AccountFields
<1>3. a.base + g = a.base + amount \/ a.base + g = a.base - amount
  BY <1>0
<1>. HIDE DEF g, m, y
<1>4. /\ y = [f \in AccountFields |-> y[f]] /\ y.base = a.base + g /\ y.quote = a.quote - m + fee
      /\ y.marginFreed = a.marginFreed /\ y.lastActiveSlot = a.lastActiveSlot
      /\ y.nextLiquidationId = a.nextLiquidationId /\ y.status = a.status
  BY <1>2 DEF IsAccount, AccountFields
<1>5. IsAccount(y) /\ (Liquidation!IsBeingLiquidated(y) <=> Liquidation!IsBeingLiquidated(a))
  <2>1. y.base \in Int /\ y.quote \in Int
    BY <1>0, <1>1, <1>4
  <2>. QED  BY <1>4, <2>1 DEF IsAccount, Liquidation!IsBeingLiquidated
<1>6. y.base % OrderStep = 0
  <2>1. (a.base + amount) % OrderStep = 0 /\ (a.base - amount) % OrderStep = 0
    BY <1>0, MultiplesAdd DEF Orderly
  <2>. QED  BY <1>3, <1>4, <2>1
<1>7. EndedWell(a, y)
  BY <1>5 DEF EndedWell
<1>8. Gradual(a, y)
  <2>1. Gradual(a, a)
    BY RestProper DEF Proper
  <2>. DEFINE before == Liquidation!EnteredLiquidation(a)
  <2>2. ~(a.marginFreed > before.marginFreed)
    <3>1. /\ Liquidation!IsBeingLiquidated(a) => before = a
          /\ ~Liquidation!IsBeingLiquidated(a) => before.marginFreed = 0
      BY EnteredEffect
    <3>2. before.marginFreed = a.marginFreed /\ a.marginFreed \in Int
      BY <3>1 DEF Orderly, IsAccount
    <3>. QED  BY <3>2
  <2>3. ~(y.marginFreed > before.marginFreed)
    BY <1>4, <2>2
  <2>. HIDE DEF before
  <2>. QED  BY <2>3 DEF Gradual, before
<1>. QED
  BY <1>4, <1>5, <1>6, <1>7, <1>8 DEF Proper, Orderly, y

\* An amount rounded down to whole steps is an amount.
LEMMA StandardizedDown ==
  ASSUME NEW n \in Nat, NEW step \in Nat \ {0}
  PROVE  Liquidation!Standardized(n, step) \in Nat
BY DEF Liquidation!Standardized

\* A whole call of liquidate_vault, for the account liquidated and its liquidator
LEMMA LiquidateProper ==
  ASSUME LiquidationInv, OrderlyInv, price # 0, NEW u \in Accounts, NEW v \in Accounts, NEW max \in LiquidatorMaxima,
         Liquidation!LiquidateVault(u, v, max)
  PROVE  ProperStep
<1>. DEFINE a == accounts[u]  c == accounts[v]
            entered  == Liquidation!EnteredLiquidation(a)
            size     == Liquidation!Magnitude(entered.base)
            shortage == Liquidation!MarginShortage(Liquidation!LiquidationMargin(entered))
            ifFee    == Liquidation!VaultIfFee(shortage, size, MaintenanceRatio + Buffer, LiquidatorFee, price, MaxIfFee)
            toCover  == Liquidation!StandardizedUp(
                Liquidation!BaseToCoverShortage(shortage, MaintenanceRatio + Buffer, LiquidatorFee, ifFee, price), OrderStep)
            pct      == Liquidation!MaxPctToLiquidate(entered, shortage, slot, InitialPct, Duration)
            allowed  == (toCover * pct) \div LIQUIDATION_PCT_PRECISION
            most     == Liquidation!Standardized(max, OrderStep)
            amount   == Liquidation!BaseToTransfer(size, most, allowed, price, OrderStep)
            side     == IF entered.base > 0 THEN 1 ELSE -1
            f1       == Liquidation!FeeOf(amount, LiquidatorFee)
            f2       == Liquidation!FeeOf(amount, ifFee)
            fees     == f1 + f2
            left     == Liquidation!TakenOver(entered, amount, fees)
            taker    == Liquidation!Acquired(c, side, amount, f1)
            x        == Liquidation!Liquidated(entered, left, shortage, amount >= toCover)
<1>1. /\ u # v /\ Liquidation!IsLiquidatable(a)
      /\ allowed = 0 => accounts' = [accounts EXCEPT ![u] = entered]
      /\ allowed # 0 => accounts' = [accounts EXCEPT ![u] = x, ![v] = taker]
  BY DEF Liquidation!LiquidateVault, Liquidation!MayLiquidate
<1>2. /\ IsAccount(a) /\ IsAccount(c) /\ Orderly(a) /\ Orderly(c) /\ slot \in Int /\ price \in Nat \ {0}
      /\ max \in Nat /\ OrderStep \in Nat \ {0} /\ LiquidatorFee \in Nat
  BY AccountsTyped, NormalAssumption DEF OrderlyInv
<1>. HIDE DEF a, c
<1>3. Proper(a, entered)
  BY <1>2, EnteredProper
<1>4. most \in Nat
  BY <1>2, StandardizedDown
<1>5. amount \in Nat /\ amount % OrderStep = 0 /\ Proper(a, x)
  <2>1. entered = Liquidation!EnteredLiquidation(a)
    OBVIOUS
  <2>. HIDE DEF entered
  <2>2. /\ size = Liquidation!Magnitude(entered.base)
        /\ shortage = Liquidation!MarginShortage(Liquidation!LiquidationMargin(entered))
    OBVIOUS
  <2>. HIDE DEF size, shortage
  <2>3. ifFee = Liquidation!VaultIfFee(shortage, size, MaintenanceRatio + Buffer, LiquidatorFee, price, MaxIfFee)
    OBVIOUS
  <2>. HIDE DEF ifFee
  <2>4. /\ toCover = Liquidation!StandardizedUp(
              Liquidation!BaseToCoverShortage(shortage, MaintenanceRatio + Buffer, LiquidatorFee, ifFee, price), OrderStep)
        /\ pct = Liquidation!MaxPctToLiquidate(entered, shortage, slot, InitialPct, Duration)
    OBVIOUS
  <2>. HIDE DEF toCover, pct, most
  <2>5. amount = Liquidation!BaseToTransfer(size, most, (toCover * pct) \div LIQUIDATION_PCT_PRECISION, price, OrderStep)
    OBVIOUS
  <2>. HIDE DEF amount
  <2>6. fees = Liquidation!FeeOf(amount, LiquidatorFee) + Liquidation!FeeOf(amount, ifFee)
    OBVIOUS
  <2>. HIDE DEF fees
  <2>. QED  BY <1>1, <1>2, <1>4, <2>1, <2>2, <2>3, <2>4, <2>5, <2>6, LiquidatedProper
<1>6. Proper(c, taker)
  <2>1. side \in {1, -1}
    OBVIOUS
  <2>. HIDE DEF amount, side
  <2>2. f1 \in Int
    BY <1>2, <1>5, FeeBounds
  <2>. HIDE DEF f1
  <2>. QED  BY <1>2, <1>5, <2>1, <2>2, AcquiredProper
<1>. HIDE DEF allowed, entered, x, taker
<1>7. CASE allowed = 0
  BY <1>1, <1>3, <1>7, OneProper DEF a
<1>8. CASE allowed # 0
  BY <1>1, <1>5, <1>6, <1>8, TwoProper DEF a, c
<1>. QED
  BY <1>7, <1>8

-----------------------------------------------------------------------------

\* The inductive invariant of the pace and the end of liquidations
PaceInv == LiquidationInv /\ OrderlyInv /\ price # 0

\* Accounts open with whole steps and no liquidation.
LEMMA InitPace == Liquidation!LiquidationInit => PaceInv
<1>. SUFFICES ASSUME Liquidation!LiquidationInit PROVE PaceInv
  OBVIOUS
<1>1. accounts = [u \in Accounts |-> Liquidation!OpenedAccount(u)] /\ price \in Prices
  BY DEF Liquidation!LiquidationInit
<1>2. \A u \in Accounts : accounts[u].base = Opening[u].base /\ accounts[u].marginFreed = 0
  BY <1>1 DEF Liquidation!OpenedAccount
<1>3. OrderlyInv
  BY <1>2, LiquidationAssumption DEF OrderlyInv, Orderly
<1>4. price # 0
  BY <1>1, LiquidationAssumption
<1>. QED
  BY <1>3, <1>4, InitLiquidations DEF PaceInv

\* Every call keeps the invariant, and is a proper step of every account.
LEMMA NextPace ==
  ASSUME PaceInv, [Liquidation!LiquidationNext]_liquidationVars
  PROVE  PaceInv' /\ ProperStep /\ ClockStep
<1>1. LiquidationInv /\ OrderlyInv /\ price # 0 /\ LiquidationInv' /\ ClockStep
  BY NextLiquidations DEF PaceInv
<1>2. \A u \in Accounts : Proper(accounts[u], accounts[u])
  BY <1>1, AccountsTyped, RestProper DEF OrderlyInv
<1>3. ASSUME UNCHANGED accounts PROVE ProperStep
  <2>1. \A u \in Accounts : accounts'[u] = accounts[u]
    BY <1>3
  <2>. QED  BY <1>2, <2>1 DEF ProperStep
<1>4. ASSUME \/ UNCHANGED liquidationVars \/ Liquidation!NextSlot \/ \E p \in Prices : Liquidation!SetPrice(p)
      PROVE  ProperStep
  <2>1. UNCHANGED accounts
    BY <1>4 DEF liquidationVars, Liquidation!NextSlot, Liquidation!SetPrice
  <2>. QED  BY <1>3, <2>1
<1>5. ProperStep
  BY <1>1, <1>4, DepositProper, WithdrawProper, TransferProper, EndProper, SetStatusProper, LiquidateProper,
     ResolveProper DEF Liquidation!LiquidationNext
<1>6. price' # 0
  <2>1. ASSUME NEW u \in Accounts, NEW v \in Accounts, NEW amount,
               \/ Liquidation!Deposit(u, amount) \/ Liquidation!Withdraw(u, amount)
               \/ Liquidation!Transfer(u, v, amount) \/ Liquidation!EndLiquidation(u, v)
               \/ Liquidation!SetStatusToBeingLiquidated(u)
        PROVE  price' = price
    BY <2>1 DEF Liquidation!Deposit, Liquidation!Withdraw, Liquidation!Transfer, Liquidation!EndLiquidation,
                Liquidation!SetStatusToBeingLiquidated
  <2>2. ASSUME NEW u \in Accounts, NEW v \in Accounts, Liquidation!ResolveBankruptcy(u, v)
        PROVE  price' = price
    BY <2>2 DEF Liquidation!ResolveBankruptcy
  <2>3. ASSUME NEW u \in Accounts, NEW v \in Accounts, NEW max \in LiquidatorMaxima,
               Liquidation!LiquidateVault(u, v, max)
        PROVE  price' = price
    BY <2>3 DEF Liquidation!LiquidateVault
  <2>4. price' = price \/ price' \in Prices
    BY <2>1, <2>2, <2>3 DEF Liquidation!LiquidationNext, liquidationVars, Liquidation!NextSlot, Liquidation!SetPrice
  <2>. QED  BY <1>1, <2>4, LiquidationAssumption
<1>7. OrderlyInv'
  BY <1>5 DEF ProperStep, Proper, OrderlyInv
<1>. QED
  BY <1>1, <1>5, <1>6, <1>7 DEF PaceInv

-----------------------------------------------------------------------------
(* The program *)

\* A step of the program is one of a machine, and the others rest.
LEMMA EachPart ==
  ASSUME [NormalNext]_normalVars
  PROVE  /\ [Oracle!OracleNext]_oracleVars
         /\ [MarketsOf!RegistryNext]_registryVars
         /\ [UsersOf!UserNext]_userVars
         /\ [Liquidation!LiquidationNext]_liquidationVars
BY DEF NormalNext, normalVars, liquidationVars, oracleVars, registryVars, userVars

\* Whatever handlers of administrators, keepers and users do in whatever order, markets, accounts
\* and referrals stay numbered, counted and configured soundly (state_admin, synth_market and user
\* handlers), for any settings the handlers may be called with.
THEOREM RegistriesConsistentAlways == NormalSpec => []RegistriesConsistent
<1>. DEFINE Inv == MarketsInv /\ UsersInv
<1>1. NormalInit => Inv
  BY InitMarkets, InitUsers DEF NormalInit
<1>2. Inv /\ [NormalNext]_normalVars => Inv'
  BY EachPart, NextMarkets, NextUsers
<1>3. Inv => RegistriesConsistent
  BY MarketsConsistent, UsersFit DEF RegistriesConsistent
<1>. QED
  BY <1>1, <1>2, <1>3, PTL DEF NormalSpec

\* Whatever the order in which keepers post messages, and however often, the feed account holds
\* the newest of those that were posted (post_update handlers).
THEOREM FeedIsNewestAlways == NormalSpec => []Oracle!FeedIsNewest
<1>1. NormalInit => FeedInv
  BY InitFeed DEF NormalInit
<1>2. FeedInv /\ [NormalNext]_normalVars => FeedInv'
  BY EachPart, NextFeed
<1>3. FeedInv => Oracle!FeedIsNewest
  BY FeedNewest
<1>. QED
  BY <1>1, <1>2, <1>3, PTL DEF NormalSpec

\* Where prices are fine enough for the band around an average to be at least three units wide,
\* the averages of a market stay among the prices that were seen, up to the bias of an update: no
\* sequence of updates accumulates the bias (calculate_weighted_average, sanitize_new_price).
THEOREM OraclesSoundAlways ==
  ASSUME FinePrices
  PROVE  NormalSpec => []OraclesSound
<1>. DEFINE Inv == FeedInv /\ AveragesInv
<1>1. NormalInit => Inv
  BY InitFeed, InitAverages DEF NormalInit
<1>2. Inv /\ [NormalNext]_normalVars => Inv'
  BY EachPart, NextFeed, NextAverages
<1>3. Inv => OraclesSound
  BY FeedNewest, AveragesFit, VerdictsOrdered DEF OraclesSound, Oracle!OraclesSound
<1>. QED
  BY <1>1, <1>2, <1>3, PTL DEF NormalSpec

\* Whatever owners, liquidators, keepers and prices do, positions only change hands, bad debt is paid
\* once, by those it is due from and in their order, and bankruptcy is no trap (liquidate_vault,
\* resolve_vault_bankruptcy, deposits, withdrawals and transfers).
THEOREM BankruptcySoundAlways == NormalSpec => []BankruptcySound
<1>1. NormalInit => LiquidationInv
  BY InitLiquidations DEF NormalInit
<1>2. LiquidationInv /\ [NormalNext]_normalVars => LiquidationInv'
  BY EachPart, NextLiquidations
<1>3. LiquidationInv => BankruptcySound
  BY LiquidationsFit
<1>. QED
  BY <1>1, <1>2, <1>3, PTL DEF NormalSpec

\* A liquidation that goes on keeps its clock and its number and forgets nothing that it freed, and no
\* number is used for two liquidations (enter_liquidation, update_last_active_slot).
THEOREM LiquidationKeepsItsClockAlways == NormalSpec => Liquidation!LiquidationKeepsItsClock
<1>1. NormalInit => LiquidationInv
  BY InitLiquidations DEF NormalInit
<1>2. LiquidationInv /\ [NormalNext]_normalVars => LiquidationInv' /\ ClockStep
  BY EachPart, NextLiquidations
<1>3. ClockStep => [\A u \in Accounts :
         /\ Liquidation!IsBeingLiquidated(accounts[u]) /\ Liquidation!IsBeingLiquidated(accounts'[u]) =>
               /\ accounts'[u].lastActiveSlot = accounts[u].lastActiveSlot
               /\ accounts'[u].marginFreed >= accounts[u].marginFreed
               /\ accounts'[u].nextLiquidationId = accounts[u].nextLiquidationId
         /\ ~Liquidation!IsBeingLiquidated(accounts[u]) /\ Liquidation!IsBeingLiquidated(accounts'[u])
               /\ ~Liquidation!IsBankrupt(accounts'[u]) =>
               accounts'[u].nextLiquidationId > accounts[u].nextLiquidationId]_(Liquidation!liquidationVars)
  BY DEF ClockStep, Clocked
<1>. QED
  BY <1>1, <1>2, <1>3, PTL DEF NormalSpec, Liquidation!LiquidationKeepsItsClock

\* However a liquidation ends, by a deposit, a withdrawal, a recovered price, a cleared debt or because
\* as much was taken over as "covers" the shortage, it leaves an account that meets its margin
\* requirement, up to rounding: for any ratios, fees and prices a market may have (can_exit_liquidation,
\* calculate_base_asset_amount_to_cover_margin_shortage).
THEOREM EndsHealthyAlways == NormalSpec => EndsHealthy
<1>1. NormalInit => PaceInv
  BY InitPace DEF NormalInit
<1>2. PaceInv /\ [NormalNext]_normalVars => PaceInv' /\ ProperStep
  BY EachPart, NextPace
<1>3. ProperStep => [\A u \in Accounts :
         Liquidation!IsBeingLiquidated(accounts[u]) /\ ~Liquidation!IsBeingLiquidated(accounts'[u])
            => Liquidation!MeetsMarginRequirement(Liquidation!LiquidationMargin(
                   [accounts'[u] EXCEPT !.quote = @ + Liquidation!Rounding]))]_(Liquidation!liquidationVars)
  BY DEF ProperStep, Proper, EndedWell
<1>. QED
  BY <1>1, <1>2, <1>3, PTL DEF NormalSpec, EndsHealthy, Liquidation!EndsHealthy

\* A liquidation that goes on keeps its clock and frees no more margin, in however many calls, than is
\* due for the time since it began, up to rounding (calculate_max_pct_to_liquidate).
THEOREM LiquidationIsPacedAlways == NormalSpec => LiquidationIsPaced
<1>1. NormalInit => PaceInv
  BY InitPace DEF NormalInit
<1>2. PaceInv /\ [NormalNext]_normalVars => PaceInv' /\ ProperStep
  BY EachPart, NextPace
<1>3. ProperStep => [\A u \in Accounts :
         LET before   == Liquidation!EnteredLiquidation(accounts[u])
             shortage == Liquidation!MarginShortage(Liquidation!LiquidationMargin(before))
         IN  /\ accounts'[u].marginFreed > before.marginFreed
             /\ shortage >= FIFTY /\ Liquidation!Magnitude(before.base) * price > FIFTY
             => accounts'[u].marginFreed
                   <= Liquidation!Most(before.marginFreed, Liquidation!FreedableAt(before, shortage))
                         + Liquidation!StepWorth]_(Liquidation!liquidationVars)
  BY DEF ProperStep, Proper, Gradual
<1>4. NormalSpec => Liquidation!LiquidationIsGradual
  BY <1>1, <1>2, <1>3, PTL DEF NormalSpec, Liquidation!LiquidationIsGradual
<1>. QED
  BY <1>4, LiquidationKeepsItsClockAlways, PTL DEF LiquidationIsPaced
=============================================================================
