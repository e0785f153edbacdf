------------------------------ MODULE SynthMarkets ------------------------------
(***************************************************************************)
(* One synth market, its vault of tokens, and the positions that users      *)
(* build by depositing, withdrawing (and so borrowing), transferring and    *)
(* donating collateral.                                                    *)
(*                                                                         *)
(* Prices are 1.  Users are neither bankrupt nor being liquidated (Liquida-  *)
(* tions has that part of them).  Whether a withdrawal meets the margin requirement and     *)
(* whether it pays the withdraw fee is decided outside of the code that     *)
(* exists, so both outcomes are possible.                                  *)
(***************************************************************************)
EXTENDS SynthBalances

CONSTANTS
    Users,
    Amounts,          \* the tokens that one call names
    Donations,        \* and those that an administrator adds to the vault
    Rates,            \* borrow rates over the time since the last update
    Fees,             \* withdraw fees, zero for a user who does not qualify
    Guard,            \* withdraw_guard_threshold
    MaxBorrows,       \* max_token_borrows
    OptimalUtilization,
    TotalFactor,      \* the insurance fund's part of the interest
    MarketStates,     \* the status and the paused operations an administrator sets
    MAX_TIME,         \* bound: the clock
    MAX_CALLS,        \* bound: the calls of one run
    MAX_INTEREST,     \* bound: the cumulative interest
    MAX_VAULT         \* bound: the tokens in the vault

ASSUME SynthMarketsAssumption ==
    /\ IsFiniteSet(Users)
    /\ Amounts \cup Donations \cup Rates \cup Fees \cup {Guard, OptimalUtilization} \subseteq Nat
    /\ TotalFactor \in 0..IF_FACTOR_PRECISION

VARIABLES market, positions, netDeposits, vault, now, calls
vars == <<market, positions, netDeposits, vault, now, calls>>

NoPosition == [type |-> "Deposit", scaled |-> 0, cumulative |-> 0]

Init ==
    /\ market = [status |-> "Active", paused |-> {},
                 total |-> [s \in Sides |-> 0], interest |-> [s \in Sides |-> INTEREST_ONE],
                 revenuePool |-> [type |-> "Deposit", scaled |-> 0],
                 twap |-> [s \in Sides |-> 0], utilization |-> 0, lastTwap |-> 0, lastInterest |-> 0,
                 guard |-> Guard, maxBorrows |-> MaxBorrows, optimalUtilization |-> OptimalUtilization]
    /\ positions = [u \in Users |-> NoPosition]
    /\ netDeposits = [u \in Users |-> 0]
    /\ vault = 0 /\ now = 0 /\ calls = 0

\* What the calls find after the interest has been brought up to date.
Refreshed(rate) ==
    {m \in CumulativeInterestUpdated(market, rate, TotalFactor, now) :
        /\ \A s \in Sides : m.interest[s] <= MAX_INTEREST
        /\ now <= market.lastInterest \/ "UpdateCumulativeInterest" \in market.paused => rate = 0}

Counted == calls < MAX_CALLS /\ calls' = calls + 1

IsReduceOnly(m) == m.status = "ReduceOnly"

\* update_spot_balances_and_cumulative_deposits
PositionUpdated(m, position, side, tokens, leaving, cumulativeDelta) ==
    {[result EXCEPT !.balance.cumulative = IF side = "Deposit" THEN @ + cumulativeDelta ELSE @ - cumulativeDelta] :
        result \in UpdateBalances(m, position, side, tokens, leaving)}

\* update_spot_balances_and_cumulative_deposits_with_limits
CanLeave(result, net, tokens) ==
    /\ WithinWithdrawLimits(result.market, result.balance, net, tokens)
    /\ result.market.status \in {"Active", "ReduceOnly", "Settlement"}
    /\ "Withdraw" \notin result.market.paused

\* validate_spot_market_vault_amount
VaultCovers(m, tokens) == RevenueIsDeposited(m) /\ tokens >= DepositorsClaim(m)

-----------------------------------------------------------------------------
(* Calls *)

\* handle_deposit_collateral: a borrower repays first.  In a market that is being wound
\* down a deposit only repays.
DepositCollateral(u, amount, reduceOnly, rate) ==
    /\ Counted /\ market.status \notin {"Initialized", "Delisted"}
    /\ \E m \in Refreshed(rate) :
       LET before == positions[u]
           tokens == IF (IsReduceOnly(m) \/ reduceOnly) /\ before.type = "Borrow"
                     THEN Smaller(TokensOf(m, before), amount) ELSE amount
       IN  \E result \in PositionUpdated(m, before, "Deposit", tokens, FALSE, tokens) :
              /\ TokensOf(result.market, result.balance) = 0 => result.balance.scaled = 0
              /\ result.balance.type = "Deposit" /\ result.balance.scaled > 0 => m.status = "Active"
              /\ vault + tokens <= MAX_VAULT
              /\ market' = result.market
              /\ positions' = [positions EXCEPT ![u] = result.balance]
              /\ netDeposits' = [netDeposits EXCEPT ![u] = @ + tokens]
              /\ vault' = vault + tokens
    /\ UNCHANGED now

\* charge_withdraw_fee: the revenue pool's gain is debited to the user, whose cumulative
\* deposits do not show it.
FeeCharged(m, position, fee) ==
    IF fee = 0 THEN {[market |-> m, balance |-> position]}
    ELSE UNION {PositionUpdated(paid, position, "Borrow", fee, FALSE, 0) :
                   paid \in RevenuePoolUpdated(m, "Deposit", fee)}

\* handle_withdraw_collateral and handle_withdraw_from_schedule_vault, which differ in the
\* margin check only.
WithdrawCollateral(u, amount, reduceOnly, fee, rate) ==
    /\ Counted
    /\ \E m \in Refreshed(rate) :
       LET before  == positions[u]
           reduces == reduceOnly \/ IsReduceOnly(m)
           tokens  == (IF reduces THEN Smaller(amount, TokensOf(m, before)) ELSE amount) - fee
           net     == netDeposits[u] - tokens
       IN  /\ reduces => before.type = "Deposit"
           /\ tokens >= 0
           /\ \E charged \in FeeCharged(m, before, fee) :
              \E result \in PositionUpdated(charged.market, charged.balance, "Borrow", tokens, TRUE, tokens) :
                 /\ CanLeave(result, net, tokens)
                 /\ tokens <= vault /\ VaultCovers(result.market, vault - tokens)
                 /\ market' = result.market
                 /\ positions' = [positions EXCEPT ![u] = result.balance]
           /\ netDeposits' = [netDeposits EXCEPT ![u] = net]
           /\ vault' = vault - tokens
    /\ UNCHANGED now

\* handle_transfer_collateral between two accounts: the first half is limited as if the
\* tokens left.
TransferCollateral(from, to, amount, rate) ==
    /\ Counted /\ from # to
    /\ \E m \in Refreshed(rate) :
       \E taken \in PositionUpdated(m, positions[from], "Borrow", amount, TRUE, amount) :
          /\ CanLeave(taken, netDeposits[from] - amount, amount)
          /\ \E given \in PositionUpdated(taken.market, positions[to], "Deposit", amount, FALSE, amount) :
             /\ TokensOf(given.market, given.balance) = 0 => given.balance.scaled = 0
             /\ VaultCovers(given.market, vault)
             /\ market' = given.market
             /\ positions' = [positions EXCEPT ![from] = taken.balance, ![to] = given.balance]
    /\ netDeposits' = [netDeposits EXCEPT ![from] = @ - amount, ![to] = @ + amount]
    /\ UNCHANGED <<vault, now>>

\* handle_deposit_into_schedule_vault: an administrator's tokens become interest of all depositors.
DepositIntoVault(amount) ==
    /\ Counted /\ market.status # "Delisted" /\ "Deposit" \notin market.paused
    /\ market.total["Deposit"] > 0
    /\ LET raised == (((Deposits(market) + amount) * INTEREST_ONE) \div market.total["Deposit"])
                        * (PRECISION \div INTEREST_ONE)
           m      == [market EXCEPT !.interest["Deposit"] = raised]
       IN  /\ raised > market.interest["Deposit"] /\ raised <= MAX_INTEREST
           /\ vault + amount <= MAX_VAULT /\ VaultCovers(m, vault + amount)
           /\ market' = m
    /\ vault' = vault + amount
    /\ UNCHANGED <<positions, netDeposits, now>>

\* The administrator's update_synth_market_status and update_synth_market_paused_operations
SetMarketState(status, paused) ==
    /\ Counted /\ <<status, paused>> # <<market.status, market.paused>>
    /\ market' = [market EXCEPT !.status = status, !.paused = paused]
    /\ UNCHANGED <<positions, netDeposits, vault, now>>

Tick == now < MAX_TIME /\ now' = now + 1 /\ UNCHANGED <<market, positions, netDeposits, vault, calls>>

Next ==
    \/ \E u \in Users, amount \in Amounts, rate \in Rates :
          \/ \E reduceOnly \in BOOLEAN : DepositCollateral(u, amount, reduceOnly, rate)
          \/ \E reduceOnly \in BOOLEAN, fee \in Fees : WithdrawCollateral(u, amount, reduceOnly, fee, rate)
          \/ \E to \in Users : TransferCollateral(u, to, amount, rate)
    \/ \E amount \in Donations : DepositIntoVault(amount)
    \/ \E state \in MarketStates : SetMarketState(state[1], state[2])
    \/ Tick

Spec == Init /\ [][Next]_vars

-----------------------------------------------------------------------------
(* Properties *)

Total(side, balances) == SumFunction([u \in Users |-> IF balances[u].type = side THEN balances[u].scaled ELSE 0])

\* "The sum of the scaled balances ... across users", with those of the revenue pool: what the
\* totals, from which all amounts and limits are computed, are documented to be.
TotalsAreSums ==
    /\ market.total["Borrow"] = Total("Borrow", positions)
    /\ market.total["Deposit"] = Total("Deposit", positions) + market.revenuePool.scaled

\* What update_spot_balances keeps, whichever way rounding went: no scaled balance is made or
\* lost, and no lender is promised more than the total.  A deposit worth less than a token
\* stays in the total of the deposits when its owner borrows, and becomes part of the debt.
BalancesAddUp ==
    /\ market.total["Deposit"] + market.total["Borrow"]
          = Total("Deposit", positions) + market.revenuePool.scaled + Total("Borrow", positions)
    /\ Total("Deposit", positions) + market.revenuePool.scaled <= market.total["Deposit"]
    /\ market.revenuePool.type = "Deposit"

\* "The amount in the vault should be equal to or greater than deposits - borrows": rounding
\* takes from it, in a call, less than a token for each of the two totals, a unit of the debt
\* that is repaid, and the interest on one token, by which the utilization may be too high.
Shortage == Larger(0, DepositorsClaim(market) - vault)
InterestOnOne ==
    LET before == market.interest["Borrow"]
    IN  CeilDiv(PRECISION * (market'.interest["Borrow"] - before) * (Deposits(market) + Borrows(market)),
                before * Larger(1, Deposits(market)))
ShortageIsDust ==
    [][PRECISION * (Shortage' - Shortage)
          <= 2 * (PRECISION - 1) + market'.interest["Borrow"] + InterestOnOne]_vars

\* Withdrawals leave the deposits that the average of the last day demands.  The users who are
\* exempt can take no more than the exemption below that, each up to a unit of scaled balance
\* more, and the bias of the average adds one.
FloorHolds ==
    Deposits(market) + Cardinality(Users) * (market.guard \div 10 + CeilDiv(market.interest["Deposit"], PRECISION)) + 1
        >= MinDepositForTwap(market)
=============================================================================
