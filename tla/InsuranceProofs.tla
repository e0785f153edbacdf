---------------------------- MODULE InsuranceProofs ----------------------------
(***************************************************************************)
(* The insurance fund, for any stakers, amounts, periods and number of     *)
(* rebases: the shares of the stakers are backed by the users' shares, a   *)
(* request by its stake, nobody dilutes the others, and cancelling a       *)
(* request is neutral.                                                     *)
(***************************************************************************)
EXTENDS InsuranceFund, OperatorLemmas

(* Powers of ten *)

IsPower(h, n) == \A k \in 0..n : h[k] = IF k = 0 THEN 1 ELSE 10 * h[k - 1]

LEMMA PowersExist == \A n \in Nat : \E h : IsPower(h, n)
<1>. DEFINE Good == {n \in Nat : \E h : IsPower(h, n)}
<1>1. 0 \in Good
  <2>1. IsPower([k \in {0} |-> 1], 0)
    BY DEF IsPower
  <2>. QED  BY <2>1
<1>2. ASSUME NEW n \in Nat, n \in Good PROVE n + 1 \in Good
  <2>1. PICK h : IsPower(h, n)
    BY <1>2
  <2>. DEFINE g == [k \in 0..(n + 1) |-> IF k = n + 1 THEN 10 * h[n] ELSE h[k]]
  <2>2. IsPower(g, n + 1)
    BY <2>1 DEF IsPower
  <2>. QED  BY <2>2
<1>. HIDE DEF Good
<1>3. Nat \subseteq Good
  BY <1>1, <1>2, NatInductionBySet
<1>. QED
  BY <1>3 DEF Good

LEMMA PowersAgree ==
  ASSUME NEW n \in Nat, NEW g, NEW h, IsPower(g, n), IsPower(h, n + 1)
  PROVE  g[n] = h[n]
<1>. DEFINE Good == {k \in Nat : k <= n => g[k] = h[k]}
<1>1. 0 \in Good
  BY DEF IsPower
<1>2. ASSUME NEW k \in Nat, k \in Good PROVE k + 1 \in Good
  BY <1>2 DEF IsPower
<1>. HIDE DEF Good
<1>3. Nat \subseteq Good
  BY <1>1, <1>2, NatInductionBySet
<1>. QED
  BY <1>3 DEF Good

LEMMA PowerStep == Power10[0] = 1 /\ \A n \in Nat : Power10[n + 1] = 10 * Power10[n]
<1>. DEFINE H(n) == CHOOSE h : IsPower(h, n)
            p == [n \in Nat |-> H(n)[n]]
            Is(q) == q = [e \in Nat |-> IF e = 0 THEN 1 ELSE 10 * q[e - 1]]
<1>1. \A n \in Nat : IsPower(H(n), n)
  BY PowersExist
<1>2. p[0] = 1
  BY <1>1 DEF IsPower
<1>3. ASSUME NEW n \in Nat PROVE p[n + 1] = 10 * p[n]
  <2>1. IsPower(H(n), n) /\ IsPower(H(n + 1), n + 1)
    BY <1>1
  <2>. HIDE DEF H
  <2>2. H(n)[n] = H(n + 1)[n]
    BY <2>1, PowersAgree
  <2>3. H(n + 1)[n + 1] = 10 * H(n + 1)[n]
    BY <2>1 DEF IsPower
  <2>. QED  BY <2>2, <2>3
<1>4. \A e \in Nat : p[e] = IF e = 0 THEN 1 ELSE 10 * p[e - 1]
  <2>1. \A e \in Nat : e # 0 => e - 1 \in Nat /\ (e - 1) + 1 = e
    OBVIOUS
  <2>. HIDE DEF p
  <2>. QED  BY <1>2, <1>3, <2>1
<1>5. p = [e \in Nat |-> p[e]]
  OBVIOUS
<1>6. Is(p)
  <2>. HIDE DEF p
  <2>. QED  BY <1>4, <1>5
<1>7. Is(Power10)
  <2>. HIDE DEF p
  <2>1. \E q : Is(q)
    BY <1>6
  <2>. QED  BY <2>1 DEF Power10
<1>. QED
  BY <1>7

LEMMA PowerPositive == \A n \in Nat : Power10[n] \in Nat \ {0} /\ n < Power10[n]
<1>. DEFINE Good == {n \in Nat : Power10[n] \in Nat \ {0} /\ n < Power10[n]}
<1>1. 0 \in Good
  BY PowerStep
<1>2. ASSUME NEW n \in Nat, n \in Good PROVE n + 1 \in Good
  <2>1. Power10[n + 1] = 10 * Power10[n]
    BY PowerStep
  <2>. QED  BY <1>2, <2>1
<1>. HIDE DEF Good
<1>3. Nat \subseteq Good
  BY <1>1, <1>2, NatInductionBySet
<1>. QED
  BY <1>3 DEF Good

LEMMA PowerOfSum ==
  ASSUME NEW m \in Nat, NEW n \in Nat
  PROVE  Power10[m + n] = Power10[m] * Power10[n]
<1>. DEFINE Good == {k \in Nat : Power10[m + k] = Power10[m] * Power10[k]}
<1>0. Power10[m] \in Nat
  BY PowerPositive
<1>1. 0 \in Good
  BY <1>0, PowerStep
<1>2. ASSUME NEW k \in Nat, k \in Good PROVE k + 1 \in Good
  <2>1. Power10[m + (k + 1)] = 10 * Power10[m + k] /\ Power10[k + 1] = 10 * Power10[k]
    <3>1. m + k \in Nat /\ m + (k + 1) = (m + k) + 1
      OBVIOUS
    <3>. QED  BY <3>1, PowerStep
  <2>2. Power10[k] \in Nat /\ Power10[m + k] = Power10[m] * Power10[k]
    BY <1>2, PowerPositive
  <2>3. 10 * (Power10[m] * Power10[k]) = Power10[m] * (10 * Power10[k])
    BY <1>0, <2>2
  <2>. QED  BY <2>1, <2>2, <2>3
<1>. HIDE DEF Good
<1>3. Nat \subseteq Good
  BY <1>1, <1>2, NatInductionBySet
<1>. QED
  BY <1>3 DEF Good

\* log10_iter finds the power of ten that n lies above.
LEMMA LogarithmFound ==
  ASSUME NEW n \in Nat \ {0}
  PROVE  Log10(n) \in Nat /\ Power10[Log10(n)] <= n
<1>. DEFINE Above == {e \in Nat : n < Power10[e]}
            Good == {e \in Nat : Power10[e] <= n}
<1>1. \E e \in 0..n : Power10[e] <= n /\ n < Power10[e + 1]
  <2>1. SUFFICES ASSUME \A e \in 0..n : Power10[e] <= n => ~ (n < Power10[e + 1])
                 PROVE  FALSE
    OBVIOUS
  <2>2. 0 \in Good
    BY PowerStep
  <2>3. ASSUME NEW e \in Nat, e \in Good PROVE e + 1 \in Good
    <3>1. e < Power10[e] /\ Power10[e] \in Nat /\ Power10[e + 1] \in Nat /\ Power10[e] <= n
      BY <2>3, PowerPositive
    <3>2. e \in 0..n
      BY <3>1
    <3>3. ~ (n < Power10[e + 1])
      BY <2>1, <3>1, <3>2
    <3>. QED  BY <3>1, <3>3
  <2>. HIDE DEF Good
  <2>4. n \in Good
    BY <2>2, <2>3, NatInductionBySet
  <2>5. Power10[n] <= n /\ Power10[n] \in Nat /\ n < Power10[n]
    BY <2>4, PowerPositive DEF Good
  <2>. QED  BY <2>5
<1>. QED
  BY <1>1 DEF Log10

-----------------------------------------------------------------------------
(* Quotients, which all round down *)

LEMMA QuotientType == ASSUME NEW m \in Nat, NEW d \in Nat \ {0} PROVE m \div d \in Nat
OBVIOUS

LEMMA QuotientBounds ==
  ASSUME NEW m \in Nat, NEW d \in Nat \ {0}
  PROVE  (m \div d) * d <= m /\ m < (m \div d) * d + d /\ m \div d <= m
<1>1. d * (m \div d) <= m /\ m < d * (m \div d) + d
  OBVIOUS
<1>2. m \div d \in Nat
  OBVIOUS
<1>3. m \div d <= d * (m \div d)
  BY <1>2
<1>. QED
  BY <1>1, <1>2, <1>3

LEMMA QuotientMonotone ==
  ASSUME NEW m \in Nat, NEW n \in Nat, m <= n, NEW d \in Nat \ {0}
  PROVE  m \div d <= n \div d
OBVIOUS

LEMMA QuotientOfQuotient ==
  ASSUME NEW m \in Nat, NEW d \in Nat \ {0}, NEW e \in Nat \ {0}
  PROVE  (m \div d) \div e = m \div (d * e)
OBVIOUS

LEMMA QuotientsAdd ==
  ASSUME NEW m \in Nat, NEW n \in Nat, NEW d \in Nat \ {0}
  PROVE  (m \div d) + (n \div d) <= (m + n) \div d
OBVIOUS

\* Rounding down every term loses at least as much as rounding down the sum.
LEMMA SumOfQuotients ==
  ASSUME NEW f, NEW g, NEW d \in Nat \ {0}, IsFiniteSet(DOMAIN f), DOMAIN g = DOMAIN f,
         \A x \in DOMAIN f : f[x] \in Nat /\ g[x] = f[x] \div d
  PROVE  SumFunction(g) \in Nat /\ SumFunction(f) \in Nat
         /\ SumFunction(g) <= SumFunction(f) \div d
<1>. DEFINE A(s) == SumFunctionOnSet(f, s)
            B(s) == SumFunctionOnSet(g, s)
            Good == {s \in SUBSET DOMAIN f : A(s) \in Nat /\ B(s) \in Nat /\ B(s) <= A(s) \div d}
<1>1. {} \in Good
  BY SumOfNone
<1>2. ASSUME NEW T \in SUBSET DOMAIN f, NEW x \in DOMAIN f \ T, T \in Good
      PROVE  T \cup {x} \in Good
  <2>. DEFINE U == T \cup {x}
  <2>1. IsFiniteSet(U) /\ U \ {x} = T /\ x \in U /\ U \in SUBSET DOMAIN f
    BY FS_Subset, FS_AddElement
  <2>2. \A y \in DOMAIN f : g[y] \in Nat
    BY QuotientType
  <2>. HIDE DEF U
  <2>3. A(U) = f[x] + A(T) /\ B(U) = g[x] + B(T)
    BY <2>1, <2>2, SumWithout
  <2>4. /\ A(T) \in Nat /\ B(T) \in Nat /\ B(T) <= A(T) \div d
        /\ f[x] \in Nat /\ g[x] \in Nat /\ g[x] = f[x] \div d
    BY <1>2, <2>2
  <2>5. A(U) \in Nat /\ B(U) \in Nat /\ B(U) <= A(U) \div d
    <3>. HIDE DEF A, B
    <3>1. (f[x] \div d) + (A(T) \div d) <= (f[x] + A(T)) \div d
      BY <2>4, QuotientsAdd
    <3>2. A(T) \div d \in Nat /\ (f[x] + A(T)) \div d \in Nat
      BY <2>4, QuotientType
    <3>3. g[x] + B(T) <= (f[x] \div d) + (A(T) \div d)
      BY <2>4, <3>2
    <3>. QED  BY <2>3, <2>4, <3>1, <3>2, <3>3
  <2>. QED
    <3>. HIDE DEF A, B
    <3>. QED  BY <2>1, <2>5 DEF U
<1>3. DOMAIN f \in Good
  <2>. HIDE DEF Good
  <2>. QED  BY <1>1, <1>2, SubsetInductionBySet
<1>. QED
  BY <1>3 DEF SumFunction

-----------------------------------------------------------------------------
(* The inductive invariant *)

FundType == [totalShares : Nat, userShares : Nat, base : Nat, lastSettled : Nat,
             unstakingPeriod : Nat]
StakeType == [shares : Nat, base : Nat, requestShares : Nat, requestValue : Nat,
              requestTs : Nat]

\* What a stake's shares come to at a base it has yet to follow.
Portion(stake, base) == stake.shares \div Power10[base - stake.base]
Portions(accounts, base) == SumFunction([o \in DOMAIN accounts |-> Portion(accounts[o], base)])

StakesAt(accounts, base) ==
    /\ IsFiniteSet(DOMAIN accounts)
    /\ \A o \in DOMAIN accounts : accounts[o] \in StakeType /\ accounts[o].base <= base

Backed(accounts, f) ==
    /\ f \in FundType
    /\ StakesAt(accounts, f.base)
    /\ Portions(accounts, f.base) <= f.userShares
    /\ f.userShares <= f.totalShares

\* No stake is ahead of the fund, and what all of them come to at its base is backed.
FundInv ==
    /\ now \in Nat /\ vault \in Nat
    /\ Backed(stakes, fund)
    /\ RequestsCovered

LEMMA PortionType ==
  ASSUME NEW stake \in StakeType, NEW base \in Nat, stake.base <= base
  PROVE  Power10[base - stake.base] \in Nat \ {0} /\ Portion(stake, base) \in Nat
<1>1. base - stake.base \in Nat /\ stake.shares \in Nat
  BY DEF StakeType
<1>2. Power10[base - stake.base] \in Nat \ {0}
  BY <1>1, PowerPositive
<1>. QED
  BY <1>1, <1>2, QuotientType DEF Portion

LEMMA PortionsType ==
  ASSUME NEW accounts, NEW base \in Nat, StakesAt(accounts, base)
  PROVE  Portions(accounts, base) \in Nat
<1>. DEFINE p == [o \in DOMAIN accounts |-> Portion(accounts[o], base)]
<1>1. IsFiniteSet(DOMAIN p) /\ \A o \in DOMAIN p : p[o] \in Nat
  BY PortionType DEF StakesAt
<1>2. SumFunction(p) \in Nat
  <2>. HIDE DEF p
  <2>. QED  BY <1>1, SumNatural
<1>. QED
  BY <1>2 DEF Portions

LEMMA BackedIsSharesBacked ==
  ASSUME Backed(stakes, fund)
  PROVE  SharesBacked
<1>1. ASSUME NEW o \in DOMAIN stakes PROVE AtBase(o).shares = Portion(stakes[o], fund.base)
  <2>1. stakes[o] \in StakeType
    BY DEF Backed, StakesAt
  <2>. QED  BY <2>1 DEF AtBase, RebasedStake, Portion, StakeType
<1>2. [o \in DOMAIN stakes |-> AtBase(o).shares]
          = [o \in DOMAIN stakes |-> Portion(stakes[o], fund.base)]
  BY <1>1
<1>. QED
  BY <1>2 DEF Backed, Portions, SharesBacked

-----------------------------------------------------------------------------
(* The rebase *)

LEMMA ExponentSmall ==
  ASSUME NEW total \in Nat, NEW balance \in Nat \ {0}
  PROVE  /\ RebaseExponent(total, balance) \in Nat
         /\ total > 0 => Power10[RebaseExponent(total, balance)] <= total
<1>. DEFINE full == (total \div 10) \div balance
<1>1. full \in Nat /\ full <= total
  BY QuotientType, QuotientBounds
<1>2. CASE full = 0
  <2>1. RebaseExponent(total, balance) = 0
    BY <1>2 DEF RebaseExponent
  <2>. QED  BY <2>1, PowerStep
<1>3. CASE full # 0
  <2>1. RebaseExponent(total, balance) = Log10(full)
    BY <1>3 DEF RebaseExponent
  <2>2. Log10(full) \in Nat /\ Power10[Log10(full)] <= full
    <3>. HIDE DEF full
    <3>. QED  BY <1>1, <1>3, LogarithmFound
  <2>3. Power10[Log10(full)] \in Nat
    BY <2>2, PowerPositive
  <2>. HIDE DEF full
  <2>. QED  BY <1>1, <2>1, <2>2, <2>3
<1>. QED
  BY <1>2, <1>3

\* g is f after a rebase by ten to the power e: the shares divided and, as there were
\* some, some left.
Divided(f, g, e) ==
    /\ e \in Nat /\ g \in FundType
    /\ g.base = f.base + e
    /\ g.userShares = f.userShares \div Power10[e]
    /\ g.userShares <= g.totalShares
    /\ f.totalShares > 0 =>
          g.totalShares > 0 /\ g.totalShares * Power10[e] <= f.totalShares

LEMMA RebaseDivides ==
  ASSUME NEW f \in FundType, f.userShares <= f.totalShares, NEW balance \in Nat
  PROVE  \E e \in Nat : Divided(f, RebasedFund(f, balance), e)
<1>. DEFINE e == IF balance # 0 /\ balance < f.totalShares
                 THEN RebaseExponent(f.totalShares, balance) ELSE 0
            p == Power10[e]
            total == f.totalShares \div p
            left == IF balance # 0 /\ total = 0 THEN balance ELSE total
            g == [f EXCEPT !.totalShares = left, !.userShares = @ \div p, !.base = @ + e]
<1>0. RebasedFund(f, balance) = g
  BY DEF RebasedFund
<1>1. f.totalShares \in Nat /\ f.userShares \in Nat /\ f.base \in Nat
  BY DEF FundType
<1>2. e \in Nat /\ (f.totalShares > 0 => p <= f.totalShares)
  <2>1. CASE balance # 0 /\ balance < f.totalShares
    <3>1. /\ RebaseExponent(f.totalShares, balance) \in Nat
          /\ f.totalShares > 0 =>
                Power10[RebaseExponent(f.totalShares, balance)] <= f.totalShares
      BY <1>1, <2>1, ExponentSmall
    <3>. QED  BY <2>1, <3>1
  <2>2. CASE ~ (balance # 0 /\ balance < f.totalShares)
    <3>1. e = 0 /\ p = 1
      BY <2>2, PowerStep
    <3>. QED  BY <1>1, <3>1
  <2>. QED  BY <2>1, <2>2
<1>3. p \in Nat \ {0}
  <2>. HIDE DEF e
  <2>. QED  BY <1>2, PowerPositive
<1>. HIDE DEF e, p
<1>4. /\ total \in Nat /\ f.userShares \div p \in Nat
      /\ f.userShares \div p <= total
      /\ total * p <= f.totalShares /\ f.totalShares < total * p + p
  BY <1>1, <1>3, QuotientType, QuotientBounds, QuotientMonotone
<1>. HIDE DEF total
<1>5. f.totalShares > 0 => total > 0
  BY <1>1, <1>2, <1>3, <1>4
<1>6. left \in Nat /\ f.userShares \div p <= left /\ (f.totalShares > 0 => left = total)
  BY <1>4, <1>5
<1>. HIDE DEF left
<1>7. /\ g \in FundType /\ g.base = f.base + e /\ g.userShares = f.userShares \div p
      /\ g.totalShares = left
  <2>1. f.base + e \in Nat
    BY <1>1, <1>2
  <2>. QED  BY <1>4, <1>6, <2>1 DEF FundType
<1>8. Divided(f, g, e)
  <2>. HIDE DEF g
  <2>. QED  BY <1>2, <1>4, <1>5, <1>6, <1>7 DEF Divided, p
<1>. QED
  BY <1>0, <1>2, <1>8

LEMMA RebaseKeepsPortions ==
  ASSUME NEW accounts, NEW base \in Nat, StakesAt(accounts, base), NEW e \in Nat
  PROVE  /\ StakesAt(accounts, base + e)
         /\ Portions(accounts, base + e) \in Nat
         /\ Portions(accounts, base + e) <= Portions(accounts, base) \div Power10[e]
<1>. DEFINE p == [o \in DOMAIN accounts |-> Portion(accounts[o], base)]
            q == [o \in DOMAIN accounts |-> Portion(accounts[o], base + e)]
            d == Power10[e]
<1>0. d \in Nat \ {0}
  BY PowerPositive
<1>1. StakesAt(accounts, base + e)
  BY DEF StakesAt, StakeType
<1>2. ASSUME NEW o \in DOMAIN accounts PROVE p[o] \in Nat /\ q[o] = p[o] \div d
  <2>1. accounts[o] \in StakeType /\ accounts[o].base <= base /\ accounts[o].base \in Nat
        /\ accounts[o].shares \in Nat
    BY DEF StakesAt, StakeType
  <2>. DEFINE gap == base - accounts[o].base
  <2>2. gap \in Nat /\ (base + e) - accounts[o].base = gap + e
    BY <2>1
  <2>3. Power10[gap + e] = Power10[gap] * d /\ Power10[gap] \in Nat \ {0}
    BY <2>2, PowerOfSum, PowerPositive
  <2>4. (accounts[o].shares \div Power10[gap]) \div d = accounts[o].shares \div (Power10[gap] * d)
    <3>. HIDE DEF gap, d
    <3>. QED  BY <1>0, <2>1, <2>3, QuotientOfQuotient
  <2>5. p[o] = accounts[o].shares \div Power10[gap]
    BY DEF Portion
  <2>6. q[o] = accounts[o].shares \div Power10[gap + e]
    BY <2>2 DEF Portion
  <2>. QED  BY <2>1, <2>3, <2>4, <2>5, <2>6, QuotientType
<1>3. IsFiniteSet(DOMAIN p) /\ DOMAIN q = DOMAIN p
  BY DEF StakesAt
<1>4. SumFunction(q) \in Nat /\ SumFunction(q) <= SumFunction(p) \div d
  <2>1. \A o \in DOMAIN p : p[o] \in Nat /\ q[o] = p[o] \div d
    BY <1>2
  <2>. HIDE DEF p, q, d
  <2>. QED  BY <1>0, <1>3, <2>1, SumOfQuotients
<1>. QED
  BY <1>1, <1>4 DEF Portions

LEMMA RebaseKeepsBacked ==
  ASSUME NEW accounts, NEW f, Backed(accounts, f), NEW g, NEW e, Divided(f, g, e)
  PROVE  Backed(accounts, g)
<1>1. /\ f \in FundType /\ f.base \in Nat /\ f.userShares \in Nat /\ e \in Nat
      /\ StakesAt(accounts, f.base) /\ Portions(accounts, f.base) <= f.userShares
  BY DEF Backed, Divided, FundType
<1>2. Portions(accounts, f.base) \in Nat /\ Power10[e] \in Nat \ {0}
  BY <1>1, PortionsType, PowerPositive
<1>3. Portions(accounts, f.base) \div Power10[e] <= f.userShares \div Power10[e]
  BY <1>1, <1>2, QuotientMonotone
<1>4. /\ StakesAt(accounts, f.base + e) /\ Portions(accounts, f.base + e) \in Nat
      /\ Portions(accounts, f.base + e) <= Portions(accounts, f.base) \div Power10[e]
  BY <1>1, RebaseKeepsPortions
<1>5. Portions(accounts, f.base) \div Power10[e] \in Nat /\ f.userShares \div Power10[e] \in Nat
  BY <1>1, <1>2, QuotientType
<1>6. Portions(accounts, f.base + e) <= f.userShares \div Power10[e]
  BY <1>3, <1>4, <1>5
<1>7. /\ g \in FundType /\ g.base = f.base + e /\ g.userShares = f.userShares \div Power10[e]
      /\ g.userShares <= g.totalShares
  BY DEF Divided
<1>. QED
  BY <1>4, <1>6, <1>7 DEF Backed

-----------------------------------------------------------------------------
(* What happens to one stake *)

\* A stake that has caught up gains or loses as many shares as the users' shares.
LEMMA StakeReplaced ==
  ASSUME NEW accounts, NEW g, Backed(accounts, g), NEW o \in DOMAIN accounts,
         NEW stake \in StakeType, stake.base = g.base, NEW delta \in Int,
         stake.shares = Portion(accounts[o], g.base) + delta,
         NEW h \in FundType, h.base = g.base, h.userShares = g.userShares + delta,
         h.userShares <= h.totalShares
  PROVE  Backed([accounts EXCEPT ![o] = stake], h)
<1>. DEFINE after == [accounts EXCEPT ![o] = stake]
            p == [q \in DOMAIN accounts |-> Portion(accounts[q], g.base)]
            r == [q \in DOMAIN accounts |-> Portion(after[q], g.base)]
<1>1. g.base \in Nat /\ g.userShares \in Nat /\ StakesAt(accounts, g.base)
      /\ Portions(accounts, g.base) <= g.userShares
  BY DEF Backed, FundType
<1>2. DOMAIN after = DOMAIN accounts /\ after[o] = stake
      /\ \A q \in DOMAIN accounts : q # o => after[q] = accounts[q]
  OBVIOUS
<1>3. StakesAt(after, g.base)
  <2>. HIDE DEF after
  <2>. QED  BY <1>1, <1>2 DEF StakesAt
<1>4. /\ IsFiniteSet(DOMAIN p) /\ DOMAIN r = DOMAIN p /\ o \in DOMAIN p
      /\ \A q \in DOMAIN p : q # o => r[q] = p[q]
  BY <1>1, <1>2 DEF StakesAt
<1>5. \A q \in DOMAIN p : p[q] \in Int /\ r[q] \in Int
  <2>. HIDE DEF after
  <2>. QED  BY <1>1, <1>2, <1>3, PortionType DEF StakesAt
<1>6. p[o] = Portion(accounts[o], g.base)
  OBVIOUS
<1>7. r[o] = p[o] + delta
  <2>1. stake.shares \in Nat /\ stake.base \in Nat
    BY DEF StakeType
  <2>2. Portion(stake, g.base) = stake.shares
    BY <2>1, PowerStep DEF Portion
  <2>. QED  BY <1>2, <2>2
<1>8. SumFunction(p) \in Int /\ SumFunction(r) = SumFunction(p) - p[o] + r[o]
  <2>. HIDE DEF p, r
  <2>. QED  BY <1>4, <1>5, SumUpdated
<1>9. Portions(after, g.base) = SumFunction(r)
  <2>1. [q \in DOMAIN after |-> Portion(after[q], g.base)] = r
    BY <1>2
  <2>. QED  BY <2>1 DEF Portions
<1>10. Portions(after, g.base) <= g.userShares + delta
  <2>1. SumFunction(p) <= g.userShares
    BY <1>1 DEF Portions
  <2>2. p[o] \in Int /\ r[o] \in Int
    BY <1>4, <1>5
  <2>. HIDE DEF p, r, after
  <2>. QED  BY <1>1, <1>7, <1>8, <1>9, <2>1, <2>2
<1>. HIDE DEF after
<1>11. Backed(after, h)
  BY <1>3, <1>10 DEF Backed
<1>. QED
  BY <1>11 DEF after

\* A new stake holds nothing.
LEMMA StakeAdded ==
  ASSUME NEW accounts, NEW f, Backed(accounts, f), NEW o, o \notin DOMAIN accounts
  PROVE  Backed([q \in DOMAIN accounts \cup {o} |-> IF q = o THEN NewStake ELSE accounts[q]], f)
<1>. DEFINE after == [q \in DOMAIN accounts \cup {o} |->
                         IF q = o THEN NewStake ELSE accounts[q]]
            p == [q \in DOMAIN accounts |-> Portion(accounts[q], f.base)]
            r == [q \in DOMAIN after |-> Portion(after[q], f.base)]
<1>1. f.base \in Nat /\ f.userShares \in Nat /\ StakesAt(accounts, f.base)
      /\ Portions(accounts, f.base) <= f.userShares
  BY DEF Backed, FundType
<1>2. DOMAIN after = DOMAIN accounts \cup {o} /\ after[o] = NewStake
      /\ \A q \in DOMAIN accounts : after[q] = accounts[q]
  OBVIOUS
<1>3. NewStake \in StakeType /\ NewStake.base <= f.base
  BY <1>1 DEF NewStake, StakeType
<1>4. StakesAt(after, f.base)
  <2>1. IsFiniteSet(DOMAIN after)
    BY <1>1, FS_AddElement DEF StakesAt
  <2>. HIDE DEF after
  <2>. QED  BY <1>1, <1>2, <1>3, <2>1 DEF StakesAt
<1>. HIDE DEF after
<1>5. IsFiniteSet(DOMAIN p) /\ o \notin DOMAIN p /\ DOMAIN r = DOMAIN p \cup {o}
      /\ \A q \in DOMAIN p : r[q] = p[q]
  BY <1>1, <1>2 DEF StakesAt
<1>6. \A q \in DOMAIN r : r[q] \in Int
  BY <1>1, <1>4, PortionType DEF StakesAt
<1>7. r[o] = 0
  <2>1. Power10[f.base - NewStake.base] \in Nat \ {0}
    BY <1>1, <1>3, PortionType
  <2>2. Portion(NewStake, f.base) = 0
    BY <2>1 DEF Portion, NewStake
  <2>. QED  BY <1>2, <2>2
<1>8. SumFunction(p) \in Int /\ SumFunction(r) = SumFunction(p) + r[o]
  <2>. HIDE DEF p, r
  <2>. QED  BY <1>5, <1>6, SumExtended
<1>9. Portions(after, f.base) <= f.userShares
  BY <1>1, <1>7, <1>8 DEF Portions
<1>10. Backed(after, f)
  BY <1>4, <1>9 DEF Backed
<1>. QED
  BY <1>10 DEF after

\* A stake that follows the fund.
LEMMA StakeFollows ==
  ASSUME NEW stake \in StakeType, NEW f \in FundType, stake.base <= f.base
  PROVE  /\ RebasedStake(stake, f) \in StakeType
         /\ RebasedStake(stake, f).base = f.base
         /\ RebasedStake(stake, f).shares = Portion(stake, f.base)
         /\ RebasedStake(stake, f).requestValue = stake.requestValue
         /\ stake.requestShares = 0 => RebasedStake(stake, f).requestShares = 0
         /\ stake.requestShares <= stake.shares =>
                RebasedStake(stake, f).requestShares <= RebasedStake(stake, f).shares
<1>. DEFINE d == Power10[f.base - stake.base]
<1>1. d \in Nat \ {0} /\ Portion(stake, f.base) \in Nat /\ f.base \in Nat
  BY PortionType DEF FundType
<1>2. stake.shares \in Nat /\ stake.requestShares \in Nat /\ stake.requestValue \in Nat
      /\ stake.requestTs \in Nat
  BY DEF StakeType
<1>3. RebasedStake(stake, f) = [stake EXCEPT !.shares = Portion(stake, f.base),
                                             !.requestShares = @ \div d, !.base = f.base]
  BY DEF RebasedStake, Portion
<1>4. Portion(stake, f.base) = stake.shares \div d
  BY DEF Portion
<1>. HIDE DEF d
<1>5. stake.requestShares \div d \in Nat
      /\ (stake.requestShares <= stake.shares => stake.requestShares \div d <= stake.shares \div d)
      /\ 0 \div d = 0
  BY <1>1, <1>2, QuotientType, QuotientMonotone
<1>. QED
  BY <1>1, <1>2, <1>3, <1>4, <1>5 DEF StakeType

-----------------------------------------------------------------------------
(* What shares are worth *)

\* Shares bought are worth at most what they cost.
LEMMA SharesBought ==
  ASSUME NEW amount \in Nat, NEW total \in Nat, NEW balance \in Nat
  PROVE  /\ VaultAmountToIfShares(amount, total, balance) \in Nat
         /\ balance > 0 =>
              /\ VaultAmountToIfShares(amount, total, balance) * balance <= amount * total
              /\ amount * total <
                    VaultAmountToIfShares(amount, total, balance) * balance + balance
<1>1. amount * total \in Nat
  OBVIOUS
<1>2. CASE balance > 0
  <2>1. VaultAmountToIfShares(amount, total, balance) = (amount * total) \div balance
    BY <1>2 DEF VaultAmountToIfShares, Proportion
  <2>. DEFINE cost == amount * total
  <2>2. cost \div balance \in Nat /\ (cost \div balance) * balance <= cost
        /\ cost < (cost \div balance) * balance + balance
    <3>. HIDE DEF cost
    <3>. QED  BY <1>1, <1>2, QuotientType, QuotientBounds DEF cost
  <2>. QED  BY <2>1, <2>2
<1>3. CASE balance = 0
  BY <1>3 DEF VaultAmountToIfShares
<1>. QED
  BY <1>2, <1>3

\* Shares sold bring at most what they are worth, and some of the vault.
LEMMA SharesSold ==
  ASSUME NEW n \in Nat, NEW total \in Nat, NEW balance \in Nat
  PROVE  /\ IfSharesToVaultAmount(n, total, balance) \in Nat
         /\ total > 0 =>
              /\ IfSharesToVaultAmount(n, total, balance) * total <= balance * n
              /\ balance * n < IfSharesToVaultAmount(n, total, balance) * total + total
<1>1. balance * n \in Nat
  OBVIOUS
<1>2. CASE total > 0
  <2>1. IfSharesToVaultAmount(n, total, balance) = (balance * n) \div total
    BY <1>2 DEF IfSharesToVaultAmount, Proportion
  <2>. DEFINE worth == balance * n
  <2>2. worth \div total \in Nat /\ (worth \div total) * total <= worth
        /\ worth < (worth \div total) * total + total
    <3>. HIDE DEF worth
    <3>. QED  BY <1>1, <1>2, QuotientType, QuotientBounds DEF worth
  <2>. QED  BY <2>1, <2>2
<1>3. CASE total = 0
  BY <1>3 DEF IfSharesToVaultAmount
<1>. QED
  BY <1>2, <1>3

\* What no step may do to those who hold shares already.
Undiluted ==
    \/ fund.totalShares = 0
    \/ UNCHANGED <<fund, stakes>>
    \/ vault' * fund.totalShares >= vault * fund'.totalShares * Power10[fund'.base - fund.base]

\* It is enough to compare with the fund as it is after the rebase.
LEMMA UndilutedSinceRebase ==
  ASSUME vault \in Nat, vault' \in Nat, fund \in FundType, NEW f, NEW e, Divided(fund, f, e),
         NEW total \in Int, fund'.totalShares = total, fund'.base = f.base,
         fund.totalShares > 0 => vault * total <= vault' * f.totalShares
  PROVE  Undiluted
<1>1. CASE fund.totalShares = 0
  BY <1>1 DEF Undiluted
<1>2. CASE fund.totalShares # 0
  <2>. DEFINE w == vault'  t == fund.totalShares  s == f.totalShares  p == Power10[e]
  <2>1. t \in Nat /\ t > 0 /\ s \in Nat /\ e \in Nat /\ fund.base \in Nat /\ w \in Nat
        /\ f.base = fund.base + e /\ s * p <= t
    BY <1>2 DEF Divided, FundType
  <2>2. p \in Nat
    BY <2>1, PowerPositive
  <2>3. vault * total <= w * s
    BY <2>1
  <2>4. fund'.base - fund.base = e
    BY <2>1
  <2>. HIDE DEF w, t, s, p
  <2>5. (vault * total) * p <= (w * s) * p
    BY <2>1, <2>2, <2>3
  <2>6. (w * s) * p = w * (s * p) /\ w * (s * p) <= w * t
    BY <2>1, <2>2
  <2>7. (vault * total) * p <= w * t
    <3>1. (vault * total) * p \in Int /\ (w * s) * p \in Int /\ w * t \in Int
      BY <2>1, <2>2
    <3>. QED  BY <2>5, <2>6, <3>1
  <2>8. w * t >= vault * total * p
    BY <2>7, <2>1, <2>2
  <2>. QED  BY <2>4, <2>8 DEF Undiluted, w, t, p
<1>. QED
  BY <1>1, <1>2

-----------------------------------------------------------------------------
(* The steps *)

LEMMA FundRebased ==
  ASSUME FundInv
  PROVE  \E e \in Nat : /\ Divided(fund, RebasedFund(fund, vault), e)
                        /\ Backed(stakes, RebasedFund(fund, vault))
<1>1. fund \in FundType /\ fund.userShares <= fund.totalShares /\ vault \in Nat
      /\ Backed(stakes, fund)
  BY DEF FundInv, Backed
<1>2. PICK e \in Nat : Divided(fund, RebasedFund(fund, vault), e)
  BY <1>1, RebaseDivides
<1>3. Backed(stakes, RebasedFund(fund, vault))
  BY <1>1, <1>2, RebaseKeepsBacked
<1>. QED
  BY <1>2, <1>3

LEMMA FundChanged ==
  ASSUME NEW f \in FundType, f.userShares <= f.totalShares, NEW delta \in Int,
         0 <= f.userShares + delta
  PROVE  LET h == [f EXCEPT !.totalShares = @ + delta, !.userShares = @ + delta]
         IN  /\ h \in FundType /\ h.base = f.base /\ h.userShares = f.userShares + delta
             /\ h.totalShares = f.totalShares + delta /\ h.userShares <= h.totalShares
<1>. DEFINE total == f.totalShares + delta  users == f.userShares + delta
            h == [f EXCEPT !.totalShares = total, !.userShares = users]
<1>1. total \in Nat /\ users \in Nat /\ users <= total
  BY DEF FundType
<1>. HIDE DEF total, users
<1>2. h \in FundType /\ h.base = f.base /\ h.userShares = users /\ h.totalShares = total
  BY <1>1 DEF FundType
<1>3. h = [f EXCEPT !.totalShares = @ + delta, !.userShares = @ + delta]
  BY DEF total, users, FundType
<1>. QED
  BY <1>1, <1>2, <1>3 DEF total, users

\* A staker's step: the fund and the stake are rebased, then the stake gains or loses
\* delta shares together with the fund.
LEMMA StakerStep ==
  ASSUME FundInv, NEW e \in Nat, NEW f, Divided(fund, f, e),
         Backed(stakes, f), NEW o \in DOMAIN stakes, NEW delta \in Int,
         NEW stake \in StakeType, stake.base = f.base,
         stake.shares = Portion(stakes[o], f.base) + delta, stake.requestShares <= stake.shares,
         0 <= f.userShares + delta,
         fund' = [f EXCEPT !.totalShares = @ + delta, !.userShares = @ + delta],
         stakes' = [stakes EXCEPT ![o] = stake], vault' \in Nat, now' \in Nat,
         fund.totalShares > 0 =>
             vault * (f.totalShares + delta) <= vault' * f.totalShares
  PROVE  FundInv' /\ Undiluted
<1>1. f \in FundType /\ f.userShares <= f.totalShares
  BY DEF Backed
<1>. DEFINE h == [f EXCEPT !.totalShares = @ + delta, !.userShares = @ + delta]
<1>2. /\ h \in FundType /\ h.base = f.base /\ h.userShares = f.userShares + delta
      /\ h.totalShares = f.totalShares + delta /\ h.userShares <= h.totalShares
  BY <1>1, FundChanged
<1>3. fund' = h
  OBVIOUS
<1>. HIDE DEF h
<1>4. Backed([stakes EXCEPT ![o] = stake], h)
  BY <1>2, StakeReplaced
<1>5. Backed(stakes, fund)'
  BY <1>3, <1>4
<1>6. RequestsCovered'
  BY DEF FundInv, RequestsCovered
<1>7. Undiluted
  <2>1. f.totalShares + delta \in Int /\ fund'.totalShares = f.totalShares + delta
        /\ fund'.base = f.base
    BY <1>1, <1>2, <1>3 DEF FundType
  <2>2. vault \in Nat /\ fund \in FundType
    BY DEF FundInv, Backed
  <2>. QED  BY <2>1, <2>2, UndilutedSinceRebase
<1>. QED
  BY <1>5, <1>6, <1>7 DEF FundInv

LEMMA AddStakeStep ==
  ASSUME FundInv, NEW o \in Owners, NEW amount \in StakeAmounts, AddStake(o, amount)
  PROVE  FundInv' /\ Undiluted
<1>. DEFINE f == RebasedFund(fund, vault)
            stake == RebasedStake(stakes[o], f)
            n == VaultAmountToIfShares(amount, f.totalShares, vault)
            after == [stake EXCEPT !.shares = @ + n]
<1>1. PICK e \in Nat : Divided(fund, f, e) /\ Backed(stakes, f)
  BY FundRebased
<1>2. /\ o \in DOMAIN stakes /\ stakes[o].requestShares = 0 /\ CanBuyShares(fund, vault)
      /\ vault' = vault + amount /\ now' = now
      /\ fund' = [f EXCEPT !.totalShares = @ + n, !.userShares = @ + n]
      /\ stakes' = [stakes EXCEPT ![o] = after]
  BY DEF AddStake
<1>3. vault \in Nat /\ now \in Nat /\ amount \in Nat /\ fund.totalShares \in Nat
      /\ f \in FundType /\ f.totalShares \in Nat /\ f.userShares \in Nat
      /\ stakes[o] \in StakeType /\ stakes[o].base <= f.base
  BY <1>1, <1>2, InsuranceFundAssumption DEF FundInv, Backed, StakesAt, FundType
<1>4. /\ n \in Nat
      /\ vault > 0 => n * vault <= amount * f.totalShares
  <2>. HIDE DEF f
  <2>. QED  BY <1>3, SharesBought
<1>5. /\ stake \in StakeType /\ stake.base = f.base /\ stake.requestShares = 0
      /\ stake.shares = Portion(stakes[o], f.base)
  <2>. HIDE DEF f
  <2>. QED  BY <1>2, <1>3, StakeFollows
<1>6. /\ after \in StakeType /\ after.base = f.base /\ after.requestShares <= after.shares
      /\ after.shares = Portion(stakes[o], f.base) + n
  <2>. HIDE DEF f, stake, n
  <2>. QED  BY <1>4, <1>5 DEF StakeType
<1>7. fund.totalShares > 0 => vault * (f.totalShares + n) <= vault' * f.totalShares
  <2>1. fund.totalShares > 0 => vault > 0
    BY <1>2, <1>3 DEF CanBuyShares
  <2>. DEFINE t == f.totalShares
  <2>2. /\ vault * (t + n) = vault * t + n * vault
        /\ (vault + amount) * t = vault * t + amount * t
    <3>. HIDE DEF f, n, t
    <3>. QED  BY <1>3, <1>4 DEF t
  <2>3. vault * t \in Int /\ n * vault \in Int /\ amount * t \in Int
    <3>. HIDE DEF f, n, t
    <3>. QED  BY <1>3, <1>4 DEF t
  <2>. HIDE DEF f, n
  <2>. QED  BY <1>2, <1>4, <2>1, <2>2, <2>3
<1>8. vault' \in Nat /\ now' \in Nat /\ n \in Int /\ 0 <= f.userShares + n
  <2>. HIDE DEF f, n
  <2>. QED  BY <1>2, <1>3, <1>4
<1>. HIDE DEF f, stake, n, after
<1>. QED
  BY <1>1, <1>2, <1>6, <1>7, <1>8, StakerStep

LEMMA RequestRecorded ==
  ASSUME NEW stake \in StakeType, NEW worth \in Nat, NEW ts \in Nat
  PROVE  LET asked == [stake EXCEPT !.requestValue = worth, !.requestTs = ts]
         IN  /\ asked \in StakeType /\ asked.base = stake.base /\ asked.shares = stake.shares
             /\ asked.requestShares = stake.requestShares
BY DEF StakeType

LEMMA RequestRemoveStep ==
  ASSUME FundInv, NEW o \in Owners, NEW amount \in RequestAmounts, RequestRemove(o, amount)
  PROVE  FundInv' /\ Undiluted
<1>. DEFINE f == RebasedFund(fund, vault)
            n == VaultAmountToIfShares(amount, fund.totalShares, vault)
            asked == [stakes[o] EXCEPT !.requestShares = n]
            stake == RebasedStake(asked, f)
            value == IfSharesToVaultAmount(stake.requestShares, f.totalShares, vault)
            kept == IF value < vault THEN value ELSE IF vault = 0 THEN 0 ELSE vault - 1
            after == [stake EXCEPT !.requestValue = kept, !.requestTs = now]
            none == 0
<1>1. PICK e \in Nat : Divided(fund, f, e) /\ Backed(stakes, f)
  BY FundRebased
<1>2. /\ o \in DOMAIN stakes /\ stakes[o].shares >= n
      /\ vault' = vault /\ now' = now /\ fund' = f
      /\ stakes' = [stakes EXCEPT ![o] = after]
  BY DEF RequestRemove
<1>3. vault \in Nat /\ now \in Nat /\ amount \in Nat /\ fund.totalShares \in Nat
      /\ f \in FundType /\ f.totalShares \in Nat /\ f.userShares \in Nat
      /\ stakes[o] \in StakeType /\ stakes[o].base <= f.base
  BY <1>1, <1>2, InsuranceFundAssumption DEF FundInv, Backed, StakesAt, FundType
<1>4. n \in Nat
  BY <1>3, SharesBought
<1>5. /\ asked \in StakeType /\ asked.base = stakes[o].base /\ asked.shares = stakes[o].shares
      /\ asked.requestShares <= asked.shares
  <2>. HIDE DEF f, n
  <2>. QED  BY <1>2, <1>3, <1>4 DEF StakeType
<1>6. /\ stake \in StakeType /\ stake.base = f.base /\ stake.requestShares <= stake.shares
      /\ stake.shares = Portion(asked, f.base)
  <2>. HIDE DEF f, asked
  <2>. QED  BY <1>3, <1>5, StakeFollows
<1>7. Portion(asked, f.base) = Portion(stakes[o], f.base)
  BY <1>5 DEF Portion
<1>8. kept \in Nat
  <2>1. stake.requestShares \in Nat
    BY <1>6 DEF StakeType
  <2>2. value \in Nat
    <3>. HIDE DEF f, stake
    <3>. QED  BY <1>3, <2>1, SharesSold
  <2>. HIDE DEF value
  <2>. QED  BY <1>3, <2>2
<1>9. /\ after \in StakeType /\ after.base = f.base /\ after.requestShares <= after.shares
      /\ after.shares = Portion(stakes[o], f.base) + 0
  <2>1. Portion(stakes[o], f.base) \in Nat
    BY <1>6, <1>7 DEF StakeType
  <2>. HIDE DEF f, stake, kept, asked
  <2>2. /\ after \in StakeType /\ after.base = stake.base /\ after.shares = stake.shares
        /\ after.requestShares = stake.requestShares
    BY <1>3, <1>6, <1>8, RequestRecorded, ZenonT(40)
  <2>. HIDE DEF after
  <2>. QED  BY <1>6, <1>7, <2>1, <2>2
<1>10. /\ fund' = [f EXCEPT !.totalShares = @ + 0, !.userShares = @ + 0]
       /\ vault * (f.totalShares + 0) <= vault' * f.totalShares
       /\ 0 <= f.userShares + 0 /\ vault' \in Nat /\ now' \in Nat
  <2>1. /\ f.totalShares + 0 = f.totalShares /\ f.userShares + 0 = f.userShares
    BY <1>3
  <2>2. f = [f EXCEPT !.totalShares = f.totalShares, !.userShares = f.userShares]
    <3>. HIDE DEF f
    <3>. QED  BY <1>3 DEF FundType
  <2>3. fund' = [f EXCEPT !.totalShares = @ + 0, !.userShares = @ + 0]
    BY <1>2, <2>1, <2>2
  <2>. HIDE DEF f
  <2>4. vault * f.totalShares \in Int
    BY <1>3
  <2>. QED  BY <1>2, <1>3, <2>1, <2>3, <2>4
<1>11. none \in Int /\ after.shares = Portion(stakes[o], f.base) + none
       /\ fund' = [f EXCEPT !.totalShares = @ + none, !.userShares = @ + none]
       /\ vault * (f.totalShares + none) <= vault' * f.totalShares
       /\ 0 <= f.userShares + none
  BY <1>9, <1>10
<1>. HIDE DEF f, stake, n, after, asked, none
<1>. QED
  BY <1>1, <1>2, <1>9, <1>10, <1>11, StakerStep

\* A stake whose request is gone, with the shares lost by then.
LEMMA StakeWithoutRequest ==
  ASSUME NEW stake \in StakeType, NEW lost \in Nat, lost <= stake.shares, now \in Nat
  PROVE  /\ WithoutRequest(stake, lost) \in StakeType
         /\ WithoutRequest(stake, lost).base = stake.base
         /\ WithoutRequest(stake, lost).shares = stake.shares + (0 - lost)
         /\ WithoutRequest(stake, lost).requestShares <= WithoutRequest(stake, lost).shares
<1>. DEFINE left == stake.shares - lost
            gone == [stake EXCEPT !.shares = left, !.requestShares = 0, !.requestValue = 0,
                                  !.requestTs = now]
<1>1. left \in Nat /\ left = stake.shares + (0 - lost)
  BY DEF StakeType
<1>2. WithoutRequest(stake, lost) = gone
  BY DEF WithoutRequest, StakeType
<1>. HIDE DEF left
<1>3. /\ gone \in StakeType /\ gone.base = stake.base /\ gone.shares = left
      /\ gone.requestShares = 0
  BY <1>1 DEF StakeType
<1>. HIDE DEF gone
<1>. QED
  BY <1>1, <1>2, <1>3

\* A staker's step that takes lost shares away and pays for them.
SharesTaken(o, f, lost) ==
    /\ fund' = [f EXCEPT !.totalShares = @ - lost, !.userShares = @ - lost]
    /\ stakes' = [stakes EXCEPT ![o] = WithoutRequest(RebasedStake(stakes[o], f), lost)]
    /\ vault' \in Nat /\ now' \in Nat
    /\ fund.totalShares > 0 => vault * (f.totalShares - lost) <= vault' * f.totalShares

LEMMA SharesLost ==
  ASSUME FundInv, NEW o \in DOMAIN stakes, NEW e \in Nat, NEW f,
         Divided(fund, f, e), Backed(stakes, f),
         NEW lost \in Nat, lost <= RebasedStake(stakes[o], f).shares, lost <= f.userShares,
         SharesTaken(o, f, lost)
  PROVE  FundInv' /\ Undiluted
<1>. DEFINE stake == RebasedStake(stakes[o], f)
            after == WithoutRequest(stake, lost)
            delta == 0 - lost
<1>1. f \in FundType /\ f.totalShares \in Nat /\ f.userShares \in Nat /\ now \in Nat
      /\ stakes[o] \in StakeType /\ stakes[o].base <= f.base
  BY DEF Backed, StakesAt, FundType, FundInv
<1>2. stake \in StakeType /\ stake.base = f.base /\ stake.shares = Portion(stakes[o], f.base)
  BY <1>1, StakeFollows
<1>3. /\ after \in StakeType /\ after.base = f.base /\ after.requestShares <= after.shares
      /\ after.shares = Portion(stakes[o], f.base) + delta
  <2>. HIDE DEF stake
  <2>. QED  BY <1>1, <1>2, StakeWithoutRequest DEF stake
<1>4. delta \in Int /\ 0 <= f.userShares + delta /\ f.totalShares - lost = f.totalShares + delta
      /\ f.userShares - lost = f.userShares + delta
  BY <1>1
<1>5. fund' = [f EXCEPT !.totalShares = @ + delta, !.userShares = @ + delta]
  <2>1. [f EXCEPT !.totalShares = @ - lost, !.userShares = @ - lost]
            = [f EXCEPT !.totalShares = @ + delta, !.userShares = @ + delta]
    <3>. HIDE DEF delta
    <3>. QED  BY <1>4 DEF FundType
  <2>. QED  BY <2>1 DEF SharesTaken
<1>6. stakes' = [stakes EXCEPT ![o] = after] /\ vault' \in Nat /\ now' \in Nat
  BY DEF SharesTaken
<1>7. fund.totalShares > 0 => vault * (f.totalShares + delta) <= vault' * f.totalShares
  BY <1>4 DEF SharesTaken
<1>. HIDE DEF stake, after, delta
<1>. QED
  BY <1>3, <1>4, <1>5, <1>6, <1>7, StakerStep

LEMMA RemoveStakeStep ==
  ASSUME FundInv, NEW o \in Owners, RemoveStake(o)
  PROVE  FundInv' /\ Undiluted
<1>. DEFINE f == RebasedFund(fund, vault)
            stake == RebasedStake(stakes[o], f)
            n == stake.requestShares
            amount == IfSharesToVaultAmount(n, f.totalShares, vault)
            paid == IF amount < stake.requestValue THEN amount ELSE stake.requestValue
<1>1. PICK e \in Nat : Divided(fund, f, e) /\ Backed(stakes, f)
  BY FundRebased
<1>2. /\ o \in DOMAIN stakes /\ n <= stake.shares /\ n <= f.userShares
      /\ vault - paid > 0 /\ vault' = vault - paid /\ now' = now
      /\ fund' = [f EXCEPT !.totalShares = @ - n, !.userShares = @ - n]
      /\ stakes' = [stakes EXCEPT ![o] = WithoutRequest(stake, n)]
  BY DEF RemoveStake, MustRemain
<1>3. vault \in Nat /\ now \in Nat /\ fund.totalShares \in Nat
      /\ f \in FundType /\ f.totalShares \in Nat /\ f.userShares \in Nat
      /\ stakes[o] \in StakeType /\ stakes[o].base <= f.base
  BY <1>1, <1>2 DEF FundInv, Backed, StakesAt, FundType
<1>4. n \in Nat /\ stake.requestValue \in Nat
  <2>1. stake \in StakeType
    <3>. HIDE DEF f
    <3>. QED  BY <1>3, StakeFollows
  <2>. HIDE DEF stake
  <2>. QED  BY <2>1 DEF StakeType
<1>5. amount \in Nat /\ (f.totalShares > 0 => amount * f.totalShares <= vault * n)
  <2>. HIDE DEF f, stake, n
  <2>. QED  BY <1>3, <1>4, SharesSold
<1>6. paid \in Nat /\ paid <= amount
  <2>. HIDE DEF amount, stake
  <2>. QED  BY <1>4, <1>5
<1>7. fund.totalShares > 0 => vault * (f.totalShares - n) <= vault' * f.totalShares
  <2>1. fund.totalShares > 0 => f.totalShares > 0
    BY <1>1 DEF Divided
  <2>. DEFINE t == f.totalShares
  <2>2. /\ vault * (t - n) = vault * t - vault * n
        /\ (vault - paid) * t = vault * t - paid * t /\ paid * t <= amount * t
    <3>. HIDE DEF f, n, t, paid, amount
    <3>. QED  BY <1>3, <1>4, <1>5, <1>6 DEF t
  <2>3. vault * t \in Int /\ vault * n \in Int /\ paid * t \in Int /\ amount * t \in Int
    <3>. HIDE DEF f, n, t, paid, amount
    <3>. QED  BY <1>3, <1>4, <1>5, <1>6 DEF t
  <2>. HIDE DEF f, n, paid, amount
  <2>. QED  BY <1>2, <1>5, <2>1, <2>2, <2>3
<1>8. vault' \in Nat /\ now' \in Nat
  <2>. HIDE DEF paid
  <2>. QED  BY <1>2, <1>3, <1>6
<1>9. /\ n <= RebasedStake(stakes[o], f).shares
      /\ stakes' = [stakes EXCEPT ![o] = WithoutRequest(RebasedStake(stakes[o], f), n)]
  BY <1>2
<1>. HIDE DEF f, stake, n, paid
<1>10. SharesTaken(o, f, n)
  BY <1>2, <1>7, <1>8, <1>9 DEF SharesTaken
<1>. QED
  BY <1>1, <1>2, <1>4, <1>9, <1>10, SharesLost

-----------------------------------------------------------------------------
(* Cancelling a request *)

\* Of n shares, kept shares of balance tokens and total shares that are left are worth
\* value to within a share.
WorthWithinAShare(n, kept, value, total, balance) ==
    /\ kept * balance < (value + 1) * total
    /\ \/ kept = n
       \/ (kept + 1) * balance >= value * total

\* The arithmetic: kept shares are bought back for value from the others.
LEMMA BoughtBack ==
  ASSUME NEW n \in Nat, NEW kept \in Nat, NEW value \in Nat, NEW others \in Nat \ {0},
         NEW balance \in Nat, value < balance,
         kept * (balance - value) <= value * others,
         value * others < kept * (balance - value) + (balance - value)
  PROVE  WorthWithinAShare(n, kept, value, others + kept, balance)
<1>. DEFINE a == kept * balance  b == kept * value  c == value * others
<1>1. a \in Int /\ b \in Int /\ c \in Int
  OBVIOUS
<1>2. kept * (balance - value) = a - b
  OBVIOUS
<1>3. value * (others + kept) = c + b /\ (value + 1) * (others + kept) = c + b + others + kept
      /\ (kept + 1) * balance = a + balance
  OBVIOUS
<1>4. a - b <= c /\ c < a - b + (balance - value)
  BY <1>2
<1>5. kept * balance = a
  OBVIOUS
<1>. HIDE DEF a, b, c
<1>. QED
  BY <1>1, <1>3, <1>4, <1>5 DEF WorthWithinAShare

LEMMA KeptOnCancel ==
  ASSUME NEW n \in Nat, NEW value \in Nat, NEW total \in Nat, NEW balance \in Nat, n <= total,
         IfSharesToVaultAmount(n, total, balance) > value
  PROVE  LET kept == VaultAmountToIfShares(value, total - n, balance - value)
         IN  /\ kept \in Nat
             /\ total - n > 0 =>
                   WorthWithinAShare(n, kept, value, (total - n) + kept, balance)
<1>. DEFINE worth == IfSharesToVaultAmount(n, total, balance)
            others == total - n
            left == balance - value
            kept == VaultAmountToIfShares(value, others, left)
<1>1. worth \in Nat /\ total > 0 /\ worth * total <= balance * n
  <2>1. total > 0
    BY DEF IfSharesToVaultAmount
  <2>. QED  BY <2>1, SharesSold
<1>2. others \in Nat
  OBVIOUS
<1>3. value < balance
  <2>. HIDE DEF worth
  <2>1. value < worth
    BY DEF worth
  <2>2. balance * n <= balance * total
    OBVIOUS
  <2>3. worth * total <= balance * total
    <3>1. worth * total \in Int /\ balance * n \in Int /\ balance * total \in Int
      BY <1>1
    <3>. QED  BY <1>1, <2>2, <3>1
  <2>4. worth <= balance
    BY <1>1, <2>3
  <2>. QED  BY <1>1, <2>1, <2>4
<1>4. left \in Nat /\ left > 0
  BY <1>3
<1>5. /\ kept \in Nat /\ kept * left <= value * others
      /\ value * others < kept * left + left
  <2>. HIDE DEF others, left
  <2>. QED  BY <1>2, <1>4, SharesBought
<1>6. others > 0 => WorthWithinAShare(n, kept, value, others + kept, balance)
  <2>. HIDE DEF others, kept
  <2>1. ASSUME others > 0
        PROVE  others \in Nat \ {0} /\ WorthWithinAShare(n, kept, value, others + kept, balance)
    <3>1. others \in Nat \ {0}
      BY <1>2, <2>1
    <3>2. /\ kept * (balance - value) <= value * others
          /\ value * others < kept * (balance - value) + (balance - value)
      BY <1>5
    <3>. HIDE DEF left
    <3>. QED  BY <1>3, <1>5, <3>1, <3>2, BoughtBack
  <2>. QED  BY <2>1
<1>. QED
  BY <1>5, <1>6

LEMMA LostOnCancel ==
  ASSUME NEW stake \in StakeType, NEW f \in FundType, NEW balance \in Nat,
         stake.requestShares <= f.totalShares
  PROVE  LET lost == IfSharesLost(stake, f, balance)
         IN  /\ lost \in Int
             /\ f.totalShares - stake.requestShares > 0 =>
                   WorthWithinAShare(stake.requestShares, stake.requestShares - lost,
                       stake.requestValue, f.totalShares - lost, balance)
<1>. DEFINE n == stake.requestShares  value == stake.requestValue  total == f.totalShares
            lost == IfSharesLost(stake, f, balance)
            kept == VaultAmountToIfShares(value, total - n, balance - value)
<1>1. n \in Nat /\ value \in Nat /\ total \in Nat /\ n <= total
  BY DEF StakeType, FundType
<1>2. lost = IF IfSharesToVaultAmount(n, total, balance) > value THEN n - kept ELSE 0
  BY DEF IfSharesLost
<1>. HIDE DEF n, value, total, lost
<1>3. CASE IfSharesToVaultAmount(n, total, balance) > value
  <2>1. /\ kept \in Nat
        /\ total - n > 0 => WorthWithinAShare(n, kept, value, (total - n) + kept, balance)
    BY <1>1, <1>3, KeptOnCancel
  <2>2. lost = n - kept
    BY <1>2, <1>3
  <2>. HIDE DEF kept
  <2>3. lost \in Int /\ n - lost = kept /\ (total - n) + kept = total - lost
    BY <1>1, <2>1, <2>2
  <2>4. total - n > 0 => WorthWithinAShare(n, n - lost, value, total - lost, balance)
    BY <2>1, <2>3
  <2>5. lost \in Int
    BY <2>3
  <2>. QED  BY <2>4, <2>5 DEF n, value, total, lost
<1>4. CASE ~ (IfSharesToVaultAmount(n, total, balance) > value)
  <2>1. lost = 0
    BY <1>2, <1>4
  <2>. DEFINE worth == IfSharesToVaultAmount(n, total, balance)
  <2>2. worth \in Nat /\ (total > 0 => balance * n < worth * total + total)
    BY <1>1, SharesSold
  <2>3. worth <= value
    <3>. HIDE DEF worth
    <3>. QED  BY <1>1, <1>4, <2>2 DEF worth
  <2>4. ASSUME total - n > 0 PROVE n * balance < (value + 1) * total
    <3>1. total > 0
      BY <1>1, <2>4
    <3>. HIDE DEF worth
    <3>2. worth * total <= value * total
      BY <1>1, <2>2, <2>3
    <3>3. n * balance = balance * n /\ (value + 1) * total = value * total + total
      BY <1>1
    <3>4. n * balance \in Int /\ worth * total \in Int /\ value * total \in Int
      BY <1>1, <2>2
    <3>. QED  BY <1>1, <2>2, <3>1, <3>2, <3>3, <3>4
  <2>5. n - lost = n /\ total - lost = total
    BY <1>1, <2>1
  <2>6. total - n > 0 => WorthWithinAShare(n, n - lost, value, total - lost, balance)
    BY <2>4, <2>5 DEF WorthWithinAShare
  <2>. QED  BY <2>1, <2>6 DEF n, value, total, lost
<1>. QED
  BY <1>3, <1>4

\* What a cancellation does to the one who cancels.
Neutral ==
    \A o \in DOMAIN stakes :
        LET before == RebasedStake(stakes[o], fund')
            kept == stakes'[o].shares - (before.shares - before.requestShares)
            others == RebasedFund(fund, vault).totalShares - before.requestShares
        IN  CancelRequest(o) /\ others > 0 =>
            /\ kept * vault < (before.requestValue + 1) * fund'.totalShares
            /\ \/ kept = before.requestShares
               \/ (kept + 1) * vault >= before.requestValue * fund'.totalShares

LEMMA CancelFacts ==
  ASSUME FundInv, NEW o, CancelRequest(o)
  PROVE  LET f == RebasedFund(fund, vault)
             stake == RebasedStake(stakes[o], f)
             lost == IfSharesLost(stake, f, vault)
         IN  /\ o \in DOMAIN stakes /\ lost \in Nat
             /\ f \in FundType /\ stake \in StakeType
             /\ lost <= stake.shares /\ lost <= f.userShares /\ stake.requestShares <= f.totalShares
             /\ fund' = [f EXCEPT !.totalShares = @ - lost, !.userShares = @ - lost]
             /\ stakes' = [stakes EXCEPT ![o] = WithoutRequest(stake, lost)]
             /\ vault' = vault /\ now' = now
<1>. DEFINE f == RebasedFund(fund, vault)
            stake == RebasedStake(stakes[o], f)
            lost == IfSharesLost(stake, f, vault)
<1>1. PICK e \in Nat : Divided(fund, f, e) /\ Backed(stakes, f)
  BY FundRebased
<1>2. /\ o \in DOMAIN stakes /\ stake.requestShares <= f.totalShares
      /\ 0 <= lost /\ lost <= stake.shares /\ lost <= f.userShares
      /\ fund' = [f EXCEPT !.totalShares = @ - lost, !.userShares = @ - lost]
      /\ stakes' = [stakes EXCEPT ![o] = WithoutRequest(stake, lost)]
      /\ vault' = vault /\ now' = now
  BY DEF CancelRequest
<1>3. vault \in Nat /\ f \in FundType /\ stakes[o] \in StakeType /\ stakes[o].base <= f.base
  BY <1>1, <1>2 DEF FundInv, Backed, StakesAt
<1>4. stake \in StakeType
  <2>. HIDE DEF f
  <2>. QED  BY <1>3, StakeFollows
<1>5. lost \in Int
  <2>. HIDE DEF f, stake
  <2>. QED  BY <1>2, <1>3, <1>4, LostOnCancel
<1>6. lost \in Nat
  <2>. HIDE DEF lost
  <2>. QED  BY <1>2, <1>5
<1>. HIDE DEF f, stake, lost
<1>. QED
  BY <1>2, <1>3, <1>4, <1>6 DEF f, stake, lost

LEMMA CancelRequestStep ==
  ASSUME FundInv, NEW o \in Owners, CancelRequest(o)
  PROVE  FundInv' /\ Undiluted
<1>. DEFINE f == RebasedFund(fund, vault)
            stake == RebasedStake(stakes[o], f)
            lost == IfSharesLost(stake, f, vault)
<1>1. PICK e \in Nat : Divided(fund, f, e) /\ Backed(stakes, f)
  BY FundRebased
<1>2. /\ o \in DOMAIN stakes /\ lost \in Nat /\ f \in FundType
      /\ lost <= stake.shares /\ lost <= f.userShares
      /\ fund' = [f EXCEPT !.totalShares = @ - lost, !.userShares = @ - lost]
      /\ stakes' = [stakes EXCEPT ![o] = WithoutRequest(stake, lost)]
      /\ vault' = vault /\ now' = now
  BY CancelFacts
<1>. HIDE DEF f, lost
<1>3. vault \in Nat /\ now \in Nat /\ f.totalShares \in Nat
  BY <1>2 DEF FundInv, FundType
<1>4. vault * (f.totalShares - lost) <= vault * f.totalShares
  BY <1>2, <1>3
<1>5. SharesTaken(o, f, lost)
  BY <1>2, <1>3, <1>4 DEF SharesTaken
<1>. QED
  BY <1>1, <1>2, <1>5, SharesLost

LEMMA CancelStepIsNeutral ==
  ASSUME FundInv
  PROVE  Neutral
<1>. SUFFICES ASSUME NEW o \in DOMAIN stakes, CancelRequest(o)
              PROVE  LET before == RebasedStake(stakes[o], fund')
                         kept == stakes'[o].shares - (before.shares - before.requestShares)
                         others == RebasedFund(fund, vault).totalShares - before.requestShares
                     IN  others > 0 =>
                         WorthWithinAShare(before.requestShares, kept, before.requestValue,
                                           fund'.totalShares, vault)
  BY DEF Neutral, WorthWithinAShare
<1>. DEFINE f == RebasedFund(fund, vault)
            stake == RebasedStake(stakes[o], f)
            lost == IfSharesLost(stake, f, vault)
<1>1. /\ lost \in Nat /\ f \in FundType /\ stake \in StakeType
      /\ stake.requestShares <= f.totalShares
      /\ fund' = [f EXCEPT !.totalShares = @ - lost, !.userShares = @ - lost]
      /\ stakes' = [stakes EXCEPT ![o] = WithoutRequest(stake, lost)]
  BY CancelFacts
<1>2. vault \in Nat
  BY DEF FundInv
<1>3. f.totalShares - stake.requestShares > 0 =>
        WorthWithinAShare(stake.requestShares, stake.requestShares - lost,
                          stake.requestValue, f.totalShares - lost, vault)
  <2>. HIDE DEF f, stake
  <2>. QED  BY <1>1, <1>2, LostOnCancel DEF lost
<1>4. fund'.base = f.base /\ fund'.totalShares = f.totalShares - lost
  <2>. HIDE DEF f, stake, lost
  <2>. QED  BY <1>1 DEF FundType
<1>5. RebasedStake(stakes[o], fund') = stake
  <2>. HIDE DEF f
  <2>. QED  BY <1>4 DEF RebasedStake, stake
<1>6. stakes'[o].shares = stake.shares - lost
  <2>. HIDE DEF f, stake, lost
  <2>. QED  BY <1>1 DEF WithoutRequest, StakeType
<1>7. (stake.shares - lost) - (stake.shares - stake.requestShares) = stake.requestShares - lost
  <2>1. stake.shares \in Nat /\ stake.requestShares \in Nat
    BY <1>1 DEF StakeType
  <2>. HIDE DEF stake, lost
  <2>. QED  BY <1>1, <2>1
<1>. HIDE DEF stake, lost
<1>. QED
  BY <1>3, <1>4, <1>5, <1>6, <1>7 DEF f

-----------------------------------------------------------------------------
(* The protocol's steps, and the theorems *)

LEMMA InitializeStakeStep ==
  ASSUME FundInv, NEW o \in Owners, InitializeStake(o)
  PROVE  FundInv' /\ Undiluted
<1>1. /\ o \notin DOMAIN stakes /\ now' = now /\ vault' = vault /\ fund' = fund
      /\ stakes' = [q \in DOMAIN stakes \cup {o} |-> IF q = o THEN NewStake ELSE stakes[q]]
  BY DEF InitializeStake
<1>2. Backed(stakes, fund)'
  <2>1. Backed(stakes, fund)
    BY DEF FundInv
  <2>. QED  BY <1>1, <2>1, StakeAdded
<1>3. RequestsCovered'
  BY <1>1 DEF FundInv, RequestsCovered, NewStake
<1>4. Undiluted
  <2>1. vault \in Nat /\ fund.totalShares \in Nat /\ fund.base - fund.base = 0
    BY DEF FundInv, Backed, FundType
  <2>2. fund' = fund /\ vault' = vault
    BY <1>1
  <2>. QED  BY <2>1, <2>2, PowerStep DEF Undiluted
<1>. QED
  BY <1>1, <1>2, <1>3, <1>4 DEF FundInv

LEMMA PayInsuranceStep ==
  ASSUME FundInv, NEW need \in Payments, PayInsurance(need)
  PROVE  FundInv' /\ Undiluted
<1>1. need \in Nat /\ vault \in Nat
  BY InsuranceFundAssumption DEF FundInv
<1>2. vault' \in Nat /\ now' = now /\ fund' = fund /\ stakes' = stakes
  BY <1>1 DEF PayInsurance, Payment
<1>3. Backed(stakes, fund)' /\ RequestsCovered'
  BY <1>2 DEF FundInv, RequestsCovered
<1>. QED
  BY <1>2, <1>3 DEF FundInv, Undiluted

\* Other fields of the fund do not matter to its backing.
LEMMA SameShares ==
  ASSUME NEW accounts, NEW f, Backed(accounts, f), NEW g \in FundType, g.base = f.base,
         g.userShares = f.userShares, g.totalShares >= f.totalShares
  PROVE  Backed(accounts, g)
BY DEF Backed, FundType

LEMMA SettleRevenueStep ==
  ASSUME FundInv, NEW amount \in Revenues, SettleRevenue(amount)
  PROVE  FundInv' /\ Undiluted
<1>. DEFINE part == (amount * (TotalFactor - UserFactor)) \div TotalFactor
            n == VaultAmountToIfShares(part, fund.totalShares, vault)
            t == fund.totalShares
            total == IF UserFactor < TotalFactor THEN t + n ELSE t
            after == [fund EXCEPT !.lastSettled = now, !.totalShares = total]
<1>1. /\ UserFactor < TotalFactor => CanBuyShares(fund, vault)
      /\ vault' = vault + amount /\ fund' = after /\ now' = now /\ stakes' = stakes
  <2>1. fund' = [fund EXCEPT !.lastSettled = now,
                             !.totalShares = IF UserFactor < TotalFactor THEN @ + n ELSE @]
    BY DEF SettleRevenue
  <2>. HIDE DEF n
  <2>2. fund' = after
    BY <2>1 DEF FundInv, Backed, FundType
  <2>. QED  BY <2>2 DEF SettleRevenue
<1>2. vault \in Nat /\ now \in Nat /\ amount \in Nat /\ fund \in FundType /\ t \in Nat
      /\ Backed(stakes, fund)
  BY InsuranceFundAssumption DEF FundInv, Backed, FundType
<1>3. part \in Nat /\ part <= amount
  <2>. DEFINE gross == amount * (TotalFactor - UserFactor)
  <2>1. TotalFactor \in Nat \ {0} /\ TotalFactor - UserFactor \in Nat
        /\ TotalFactor - UserFactor <= TotalFactor
    BY InsuranceFundAssumption
  <2>2. gross \in Nat /\ gross <= amount * TotalFactor
    <3>. HIDE DEF InsuranceFundAssumption
    <3>. QED  BY <1>2, <2>1
  <2>. HIDE DEF gross
  <2>3. gross \div TotalFactor \in Nat /\ (gross \div TotalFactor) * TotalFactor <= gross
    BY <2>1, <2>2, QuotientType, QuotientBounds
  <2>. DEFINE q == gross \div TotalFactor
  <2>4. q * TotalFactor <= amount * TotalFactor /\ q \in Nat
    <3>1. q * TotalFactor \in Int /\ amount * TotalFactor \in Int
      BY <1>2, <2>1, <2>3
    <3>. QED  BY <2>2, <2>3, <3>1
  <2>5. q <= amount
    <3>. HIDE DEF q
    <3>. QED  BY <1>2, <2>1, <2>4
  <2>. QED  BY <2>4, <2>5 DEF gross
<1>. HIDE DEF part
<1>4. n \in Nat /\ (vault > 0 => n * vault <= part * t)
  <2>. HIDE DEF t
  <2>. QED  BY <1>2, <1>3, SharesBought DEF t
<1>. HIDE DEF n
<1>5. total \in Nat /\ total >= t
  BY <1>2, <1>4
<1>6. (t > 0) => vault * total <= (vault + amount) * t
  <2>1. CASE UserFactor < TotalFactor /\ t > 0
    <3>1. vault > 0 /\ total = t + n
      BY <1>1, <1>2, <2>1 DEF CanBuyShares
    <3>. HIDE DEF t, total
    <3>2. part * t <= amount * t /\ vault * (t + n) = vault * t + n * vault
          /\ (vault + amount) * t = vault * t + amount * t
      BY <1>2, <1>3, <1>4
    <3>3. part * t \in Int /\ amount * t \in Int /\ vault * t \in Int /\ n * vault \in Int
      BY <1>2, <1>3, <1>4
    <3>. QED  BY <1>4, <3>1, <3>2, <3>3
  <2>2. CASE ~ (UserFactor < TotalFactor)
    <3>1. total = t
      BY <2>2
    <3>. HIDE DEF t, total
    <3>2. (vault + amount) * t = vault * t + amount * t /\ amount * t \in Nat /\ vault * t \in Int
      BY <1>2
    <3>. QED  BY <3>1, <3>2
  <2>. QED  BY <2>1, <2>2
<1>7. /\ after \in FundType /\ after.base = fund.base /\ after.userShares = fund.userShares
      /\ after.totalShares = total
  <2>. HIDE DEF total
  <2>. QED  BY <1>2, <1>5 DEF FundType
<1>. HIDE DEF after
<1>8. Backed(stakes, after)
  BY <1>2, <1>5, <1>7, SameShares
<1>9. Backed(stakes, fund)' /\ RequestsCovered'
  BY <1>1, <1>8 DEF FundInv, RequestsCovered
<1>10. Undiluted
  <2>1. fund.base \in Nat /\ fund.base - fund.base = 0 /\ Power10[0] = 1
    BY <1>2, PowerStep DEF FundType
  <2>. DEFINE w == vault + amount
  <2>2. t > 0 => w * t >= vault * total * 1
    <3>. HIDE DEF t, total
    <3>. QED  BY <1>2, <1>5, <1>6
  <2>3. vault' = w /\ fund'.totalShares = total /\ fund'.base = fund.base
    BY <1>1, <1>7
  <2>. HIDE DEF total, w
  <2>. QED  BY <1>2, <2>1, <2>2, <2>3 DEF Undiluted
<1>11. vault' \in Nat /\ now' \in Nat
  BY <1>1, <1>2
<1>. QED
  BY <1>9, <1>10, <1>11 DEF FundInv

LEMMA SetUnstakingPeriodStep ==
  ASSUME FundInv, NEW period \in UnstakingPeriods, SetUnstakingPeriod(period)
  PROVE  FundInv' /\ Undiluted
<1>. DEFINE after == [fund EXCEPT !.unstakingPeriod = period]
<1>1. vault' = vault /\ now' = now /\ stakes' = stakes /\ fund' = after
  BY DEF SetUnstakingPeriod
<1>2. period \in Nat /\ fund \in FundType /\ Backed(stakes, fund) /\ vault \in Nat
      /\ now \in Nat
  BY InsuranceFundAssumption DEF FundInv, Backed
<1>3. /\ after \in FundType /\ after.base = fund.base /\ after.userShares = fund.userShares
      /\ after.totalShares = fund.totalShares /\ fund.totalShares \in Nat /\ fund.base \in Nat
  BY <1>2 DEF FundType
<1>. HIDE DEF after
<1>4. after.totalShares >= fund.totalShares
  BY <1>3
<1>5. Backed(stakes, after)
  BY <1>2, <1>3, <1>4, SameShares
<1>6. Backed(stakes, fund)' /\ RequestsCovered'
  BY <1>1, <1>5 DEF FundInv, RequestsCovered
<1>7. Undiluted
  <2>1. fund'.base - fund.base = 0 /\ fund'.totalShares = fund.totalShares
    BY <1>1, <1>3
  <2>. QED  BY <1>1, <1>2, <1>3, <2>1, PowerStep DEF Undiluted
<1>. QED
  BY <1>1, <1>2, <1>6, <1>7 DEF FundInv

LEMMA StepKeepsFundInv ==
  ASSUME FundInv, [Next]_vars
  PROVE  FundInv' /\ [Undiluted]_vars
<1>1. CASE UNCHANGED vars
  BY <1>1 DEF FundInv, RequestsCovered, vars
<1>2. CASE Tick
  <2>1. now' \in Nat /\ vault' = vault /\ fund' = fund /\ stakes' = stakes
    BY <1>2 DEF Tick, FundInv
  <2>. QED  BY <2>1 DEF FundInv, RequestsCovered, Undiluted
<1>3. CASE \E o \in Owners : InitializeStake(o)
  BY <1>3, InitializeStakeStep
<1>4. CASE \E o \in Owners, amount \in StakeAmounts : AddStake(o, amount)
  BY <1>4, AddStakeStep
<1>5. CASE \E o \in Owners, amount \in RequestAmounts : RequestRemove(o, amount)
  BY <1>5, RequestRemoveStep
<1>6. CASE \E o \in Owners : CancelRequest(o)
  BY <1>6, CancelRequestStep
<1>7. CASE \E o \in Owners : RemoveStake(o)
  BY <1>7, RemoveStakeStep
<1>8. CASE \E need \in Payments : PayInsurance(need)
  BY <1>8, PayInsuranceStep
<1>9. CASE \E amount \in Revenues : SettleRevenue(amount)
  BY <1>9, SettleRevenueStep
<1>10. CASE \E period \in UnstakingPeriods : SetUnstakingPeriod(period)
  BY <1>10, SetUnstakingPeriodStep
<1>. QED
  BY <1>1, <1>2, <1>3, <1>4, <1>5, <1>6, <1>7, <1>8, <1>9, <1>10 DEF Next

LEMMA InitFundInv ==
  ASSUME Init
  PROVE  FundInv
<1>1. now = 0 /\ vault = 0 /\ DOMAIN stakes = {}
      /\ fund \in FundType /\ fund.base = 0 /\ fund.userShares = 0 /\ fund.totalShares = 0
  <2>1. now = 0 /\ vault = 0 /\ DOMAIN stakes = {}
    BY DEF Init
  <2>2. /\ fund \in [totalShares : {0}, userShares : {0}, base : {0}, lastSettled : {0},
                     unstakingPeriod : UnstakingPeriods]
        /\ UnstakingPeriods \subseteq Nat
    BY InsuranceFundAssumption DEF Init
  <2>3. PICK period \in Nat :
            fund = [totalShares |-> 0, userShares |-> 0, base |-> 0, lastSettled |-> 0,
                    unstakingPeriod |-> period]
    <3>1. fund.unstakingPeriod \in Nat
      BY ONLY <2>2
    <3>2. fund = [totalShares |-> 0, userShares |-> 0, base |-> 0, lastSettled |-> 0,
                  unstakingPeriod |-> fund.unstakingPeriod]
      BY ONLY <2>2
    <3>. QED  BY ONLY <3>1, <3>2
  <2>4. fund \in FundType /\ fund.base = 0 /\ fund.userShares = 0 /\ fund.totalShares = 0
    BY ONLY <2>3, period \in Nat DEF FundType
  <2>. QED  BY <2>1, <2>4
<1>2. StakesAt(stakes, fund.base)
  BY <1>1, FS_EmptySet DEF StakesAt
<1>3. Portions(stakes, fund.base) = 0
  <2>. DEFINE p == [o \in DOMAIN stakes |-> Portion(stakes[o], fund.base)]
  <2>1. DOMAIN p = {}
    BY <1>1
  <2>2. SumFunction(p) = 0
    <3>. HIDE DEF p
    <3>. QED  BY <2>1, SumOfNone DEF SumFunction
  <2>. QED  BY <2>2 DEF Portions
<1>4. Backed(stakes, fund)
  BY <1>1, <1>2, <1>3 DEF Backed
<1>. QED
  BY <1>1, <1>4 DEF FundInv, RequestsCovered

LEMMA FundInvAlways == Spec => []FundInv
<1>1. Init => FundInv
  BY InitFundInv
<1>2. FundInv /\ [Next]_vars => FundInv'
  BY StepKeepsFundInv
<1>. QED
  BY <1>1, <1>2, PTL DEF Spec

\* The stakes never hold more than the users' shares, nor these more than all the shares,
\* however many stakers come and go and however often apply_rebase_to_insurance_fund
\* divides the shares before each stake follows: no subtraction in
\* remove_insurance_fund_stake or cancel_request fails for want of shares.
THEOREM SharesBackedAlways == Spec => []SharesBacked
<1>1. FundInv => SharesBacked
  BY BackedIsSharesBacked DEF FundInv
<1>. QED
  BY <1>1, FundInvAlways, PTL

\* A pending request never exceeds its stake, through any number of rebases.
THEOREM RequestsCoveredAlways == Spec => []RequestsCovered
<1>1. FundInv => RequestsCovered
  BY DEF FundInv
<1>. QED
  BY <1>1, FundInvAlways, PTL

\* No staker's or protocol's step lowers the value of the others' shares, the rebase and
\* all roundings included.
THEOREM NoDilutionAlways == Spec => NoDilution
<1>1. FundInv /\ [Next]_vars => [Undiluted]_vars
  BY StepKeepsFundInv
<1>2. Spec => [][Undiluted]_vars
  BY <1>1, FundInvAlways, PTL DEF Spec
<1>3. NoDilution <=> [][Undiluted]_vars
  BY PTL DEF NoDilution, Undiluted
<1>. QED
  BY <1>2, <1>3

\* Whoever cancels a request while others hold shares keeps shares worth the request's
\* value to within one share, or all that were requested if they have lost value.
THEOREM CancelIsNeutralAlways == Spec => CancelIsNeutral
<1>1. FundInv /\ [Next]_vars => [Neutral]_vars
  BY CancelStepIsNeutral
<1>2. Spec => [][Neutral]_vars
  BY <1>1, FundInvAlways, PTL DEF Spec
<1>3. CancelIsNeutral <=> [][Neutral]_vars
  BY PTL DEF CancelIsNeutral, Neutral
<1>. QED
  BY <1>2, <1>3
=============================================================================
