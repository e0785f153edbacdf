----------------------------- MODULE SynthBalances -----------------------------
(***************************************************************************)
(* Interest-bearing balances of a synth market.  A balance is kept scaled:  *)
(* times the cumulative interest of its side (deposits or borrows), divided *)
(* by the precision, it is an amount of tokens.                            *)
(*                                                                         *)
(* The operators work on a market, a record of the fields of SynthMarket    *)
(* they touch, and on a balance [type, scaled].                            *)
(***************************************************************************)
EXTENDS Integers, FiniteSetsExt

CONSTANTS
    PRECISION,               \* 10^(19 - decimals): scaled balance times interest per token
    INTEREST_ONE,            \* SPOT_CUMULATIVE_INTEREST_PRECISION
    UTILIZATION_PRECISION,   \* SPOT_UTILIZATION_PRECISION
    RATE_PRECISION,          \* SPOT_RATE_PRECISION times ONE_YEAR
    IF_FACTOR_PRECISION,
    TWAP_WINDOW              \* SPOT_MARKET_TOKEN_TWAP_WINDOW, in ticks of the clock

ASSUME SynthBalancesAssumption ==
    /\ {PRECISION, INTEREST_ONE, UTILIZATION_PRECISION, RATE_PRECISION, IF_FACTOR_PRECISION, TWAP_WINDOW}
          \subseteq Nat \ {0}
    /\ UTILIZATION_PRECISION >= 2

Sides == {"Deposit", "Borrow"}

Larger(a, b) == IF a >= b THEN a ELSE b
Smaller(a, b) == IF a <= b THEN a ELSE b
Minus(a, b) == Larger(0, a - b)                        \* saturating_sub
CeilDiv(a, b) == (a + b - 1) \div b                    \* safe_div_ceil
\* Rust divides towards zero.
Quot(a, b) == IF a >= 0 THEN a \div b ELSE -((-a) \div b)

-----------------------------------------------------------------------------
(* Scaled balances and token amounts *)

\* get_spot_balance: a balance that is rounded up grows by one even when the division is exact.
SpotBalance(market, side, tokens, roundUp) ==
    LET scaled == (tokens * PRECISION) \div market.interest[side]
    IN  IF roundUp /\ scaled # 0 THEN scaled + 1 ELSE scaled

\* get_token_amount: claims round down and debts up.
TokenAmount(market, side, scaled) ==
    IF side = "Deposit" THEN (scaled * market.interest[side]) \div PRECISION
    ELSE CeilDiv(scaled * market.interest[side], PRECISION)

TokensOf(market, balance) == TokenAmount(market, balance.type, balance.scaled)
Deposits(market) == TokenAmount(market, "Deposit", market.total["Deposit"])
Borrows(market) == TokenAmount(market, "Borrow", market.total["Borrow"])

(* An update has a set of outcomes: none if the code returns an error.     *)

\* increase_spot_balance and decrease_spot_balance with the balance of the position
Increased(market, balance, side, delta) ==
    [market |-> [market EXCEPT !.total[side] = @ + delta],
     balance |-> [balance EXCEPT !.type = side, !.scaled = @ + delta]]
Decreased(market, balance, delta) ==
    [market |-> [market EXCEPT !.total[balance.type] = @ - delta],
     balance |-> [balance EXCEPT !.scaled = @ - delta]]

\* How much of a balance on the other side an update of so many tokens consumes:
\* tokens, and the scaled balance they are taken for.
Reduction(market, balance, tokens, leaving) ==
    LET current == TokensOf(market, balance)
    IN  CASE current = 0      -> [tokens |-> 0, scaled |-> 0]
          [] current > tokens -> [tokens |-> tokens,
                                  scaled |-> SpotBalance(market, balance.type, tokens,
                                                         leaving \/ balance.type = "Borrow")]
          [] OTHER            -> [tokens |-> current, scaled |-> balance.scaled]

\* A mistake: the tokens that repay a debt are deposited as well.
TakenAndAdded(market, balance, side, tokens, taken) ==
    LET reduced == Decreased(market, balance, taken.scaled)
    IN  IF tokens = taken.tokens THEN reduced
        ELSE Increased(reduced.market, reduced.balance, side,
                       SpotBalance(market, side, tokens, side = "Borrow"))

\* Take from a balance on the other side and let what is left over change the side.
TakenFrom(market, balance, side, tokens, taken) ==
    LET reduced == Decreased(market, balance, taken.scaled)
        left    == tokens - taken.tokens
    IN  IF left = 0 THEN reduced
        ELSE Increased(reduced.market, reduced.balance, side,
                       SpotBalance(market, side, left, side = "Borrow"))

\* update_spot_balances.  Tokens that leave must not have been lent out.
UpdateBalances(market, balance, side, tokens, leaving) ==
    LET added == Increased(market, balance, side, SpotBalance(market, side, tokens, side = "Borrow"))
        Affordable(taken) == taken.scaled <= Smaller(balance.scaled, market.total[balance.type])
        outcomes ==
            IF balance.type = side THEN {added}
            ELSE {TakenFrom(market, balance, side, tokens, taken) :
                     taken \in {t \in {Reduction(market, balance, tokens, leaving)} : Affordable(t)}}
    IN  {r \in outcomes : leaving /\ side = "Borrow" => Deposits(r.market) >= Borrows(r.market)}

-----------------------------------------------------------------------------
(* Averages *)

\* calculate_weighted_average, with its shortcuts and its bias of one
WeightedAverage(data1, data2, weight1, weight2) ==
    LET first  == data1 * weight1
        second == data2 * weight2
        bias   == CASE weight2 <= 1     -> 0
                    [] second < first   -> -1
                    [] second > first   -> 1
                    [] OTHER            -> 0
        twap   == Quot(first + second, weight1 + weight2)
    IN  CASE weight1 = 0            -> data2
          [] weight2 = 0            -> data1
          [] twap = 0 /\ bias < 0   -> 0
          [] OTHER                  -> twap + bias

\* calculate_utilization
Utilization(deposits, borrows) ==
    CASE deposits # 0                   -> (borrows * UTILIZATION_PRECISION) \div deposits
      [] deposits = 0 /\ borrows = 0    -> 0
      [] OTHER                          -> UTILIZATION_PRECISION

\* update_synth_market_twap_stats, the averages of the balances
TwapsUpdated(market, now) ==
    LET sinceLast == Larger(0, now - market.lastTwap)
        fromStart == Larger(1, TWAP_WINDOW - sinceLast)
        Average(value, twap) == WeightedAverage(value, twap, sinceLast, fromStart)
    IN  [market EXCEPT
            !.twap["Deposit"] = Average(Deposits(market), @),
            !.twap["Borrow"]  = Average(Borrows(market), @),
            !.utilization     = Average(Utilization(Deposits(market), Borrows(market)), @),
            !.lastTwap        = now]

-----------------------------------------------------------------------------
(* Interest *)

\* calculate_accumulated_interest, with the part of it that is commented out; rate is
\* the borrow rate times the time that has passed.
AccumulatedInterest(market, rate, now) ==
    LET utilization == Utilization(Deposits(market), Borrows(market))
        depositRate == (rate * utilization) \div UTILIZATION_PRECISION
    IN  IF now <= market.lastInterest \/ utilization = 0
        THEN [Deposit |-> 0, Borrow |-> 0]
        ELSE [Deposit |-> (market.interest["Deposit"] * depositRate) \div RATE_PRECISION,
              Borrow  |-> (market.interest["Borrow"] * rate) \div RATE_PRECISION + 1]

\* A mistake: the pool's new balance is not written back.
RevenuePoolForgotten(market, side, tokens) ==
    {result.market : result \in UpdateBalances(market, market.revenuePool, side, tokens, FALSE)}

\* update_revenue_pool_balances
RevenuePoolUpdated(market, side, tokens) ==
    {[result.market EXCEPT !.revenuePool = result.balance] :
        result \in UpdateBalances(market, market.revenuePool, side, tokens, FALSE)}

\* The lenders' interest raises both cumulative interests; the stakers' part becomes
\* balance of the revenue pool, computed after the raise.
InterestPaid(market, accumulated, factor, now) ==
    LET stakers == (accumulated["Deposit"] * factor) \div IF_FACTOR_PRECISION
        lenders == accumulated["Deposit"] - stakers
        raised  == [market EXCEPT !.interest["Deposit"] = @ + lenders,
                                  !.interest["Borrow"] = @ + accumulated["Borrow"],
                                  !.lastInterest = now]
    IN  IF accumulated["Deposit"] = 0 \/ accumulated["Borrow"] <= 1 \/ lenders = 0 THEN {market}
        ELSE RevenuePoolUpdated(raised, "Deposit", (market.total["Deposit"] * stakers) \div PRECISION)

\* update_synth_market_cumulative_interest
CumulativeInterestUpdated(market, rate, factor, now) ==
    {TwapsUpdated(m, now) :
        m \in IF "UpdateCumulativeInterest" \in market.paused THEN {market}
              ELSE InterestPaid(market, AccumulatedInterest(market, rate, now), factor, now)}

-----------------------------------------------------------------------------
(* Withdrawal limits *)

\* calculate_min_deposit_token_amount
MinDepositForTwap(market) ==
    LET twap == market.twap["Deposit"]
    IN  twap - Larger(twap \div 4, Smaller(market.guard, twap))

\* calculate_max_borrow_token_amount
MaxBorrowForTwap(market) ==
    LET lesser == Smaller(Deposits(market), market.twap["Deposit"])
        friction == Smaller(Larger(lesser \div 6, market.twap["Borrow"] + lesser \div 10),
                            lesser - lesser \div 5)
    IN  Smaller(Larger(market.guard, friction), market.maxBorrows)

\* calculate_token_utilization_limits
MaxWithdrawUtilization(market) ==
    Larger(market.optimalUtilization,
           market.utilization + Minus(UTILIZATION_PRECISION, market.utilization) \div 2)
MinDepositForUtilization(market) ==
    Smaller((Borrows(market) * UTILIZATION_PRECISION) \div MaxWithdrawUtilization(market),
            Minus(Deposits(market), market.guard))
MaxBorrowForUtilization(market) ==
    Larger((MaxWithdrawUtilization(market) * Deposits(market)) \div UTILIZATION_PRECISION, market.guard)

MinDeposit(market) == Larger(MinDepositForTwap(market), MinDepositForUtilization(market))
MaxBorrow(market) == Smaller(MaxBorrowForTwap(market), MaxBorrowForUtilization(market))

\* A mistake: what the user takes is not counted.
IsExemptAfterwards(market, balance, net, tokens) ==
    /\ net >= 0 /\ balance.cumulative >= 0 /\ balance.type = "Deposit"
    /\ TokensOf(market, balance) < market.guard \div 10

\* check_user_exception_to_withdraw_limits: small holders who have not taken more than
\* they brought may take their principal.
IsExempt(market, balance, net, tokens) ==
    /\ net >= 0 /\ balance.cumulative >= 0 /\ balance.type = "Deposit"
    /\ TokensOf(market, balance) + tokens < market.guard \div 10

\* check_withdraw_limits, after the tokens have been taken off the balances
WithinWithdrawLimits(market, balance, net, tokens) ==
    \/ /\ Deposits(market) >= MinDeposit(market)
       /\ balance.type = "Borrow" => Borrows(market) <= MaxBorrow(market)
    \/ IsExempt(market, balance, net, tokens)

\* validate_spot_balances: what depositors may claim once the borrowers have paid
DepositorsClaim(market) == Deposits(market) - Borrows(market)
RevenueIsDeposited(market) == TokensOf(market, market.revenuePool) <= Deposits(market)
=============================================================================
