----------------------------- MODULE InsuranceFund -----------------------------
(***************************************************************************)
(* The insurance fund: stakers hold shares of a vault that revenue fills   *)
(* and bankruptcies drain.  When the vault falls far behind the number of  *)
(* shares, the fund divides all shares by a power of ten; a stake follows  *)
(* when its owner next acts.  To leave, a staker requests a withdrawal,    *)
(* whose value is fixed then, and waits.                                   *)
(***************************************************************************)
EXTENDS Integers, Functions

CONSTANTS
    Owners,           \* authorities of stakes
    StakeAmounts,     \* amounts staked
    RequestAmounts,   \* amounts asked for in a request
    Payments,         \* what a bankruptcy or a deficit may need of the fund
    Revenues,         \* what the revenue pool may yield in a settlement
    UnstakingPeriods, \* seconds from request to withdrawal
    SettlePeriod,     \* seconds between settlements of revenue
    TotalFactor, UserFactor, \* the stakers' part of the revenue
    MAX_VAULT,        \* bound: the tokens there are
    MAX_BASE,         \* bound: how often shares are divided by ten
    MAX_TIME          \* bound: the last instant of the clock

ASSUME InsuranceFundAssumption ==
    /\ StakeAmounts \subseteq Nat \ {0} /\ RequestAmounts \subseteq Nat
    /\ Payments \subseteq Nat \ {0} /\ Revenues \subseteq Nat \ {0}
    /\ UnstakingPeriods \subseteq Nat /\ UnstakingPeriods # {} /\ SettlePeriod \in Nat \ {0}
    /\ UserFactor \in Nat /\ TotalFactor \in Nat \ {0} /\ UserFactor <= TotalFactor

VARIABLES
    now,     \* the clock
    vault,   \* balance of the insurance fund vault
    fund,    \* the InsuranceFund account
    stakes   \* InsuranceFundStake accounts

vars == <<now, vault, fund, stakes>>

-----------------------------------------------------------------------------
(* Shares and their value *)

\* get_proportion_u128, whose branches all round down
ProportionUp(value, numerator, denominator) ==
    (value * numerator + denominator - 1) \div denominator
Proportion(value, numerator, denominator) == (value * numerator) \div denominator

\* vault_amount_to_if_shares, which fails for an empty vault that has shares
CanBuyShares(f, balance) == balance = 0 => f.totalShares = 0
VaultAmountToIfShares(amount, totalShares, balance) ==
    IF balance > 0 THEN Proportion(amount, totalShares, balance) ELSE amount

IfSharesToVaultAmount(n, totalShares, balance) ==
    IF totalShares > 0 THEN Proportion(balance, n, totalShares) ELSE 0

\* 10_u128.pow and log10_iter
Power10[e \in Nat] == IF e = 0 THEN 1 ELSE 10 * Power10[e - 1]
Log10(n) == CHOOSE e \in 0..n : Power10[e] <= n /\ n < Power10[e + 1]

\* calculate_rebase_info
RebaseExponent(totalShares, balance) ==
    LET full == (totalShares \div 10) \div balance IN IF full = 0 THEN 0 ELSE Log10(full)

\* apply_rebase_to_insurance_fund
RebasedFund(f, balance) ==
    LET expo == IF balance # 0 /\ balance < f.totalShares
                THEN RebaseExponent(f.totalShares, balance) ELSE 0
        total == f.totalShares \div Power10[expo]
    IN  [f EXCEPT !.totalShares = IF balance # 0 /\ total = 0 THEN balance ELSE total,
                  !.userShares = @ \div Power10[expo],
                  !.base = @ + expo]

\* apply_rebase_to_insurance_fund_stake.  The value of a request is not rebased.
RebasedSharesOnly(stake, f) ==
    [stake EXCEPT !.shares = @ \div Power10[f.base - stake.base], !.base = f.base]
RebasedStake(stake, f) ==
    LET divisor == Power10[f.base - stake.base]
    IN  [stake EXCEPT !.shares = @ \div divisor,
                      !.requestShares = @ \div divisor,
                      !.base = f.base]

-----------------------------------------------------------------------------
(* Stakers *)

NewStake == [shares |-> 0, base |-> 0, requestShares |-> 0, requestValue |-> 0, requestTs |-> 0]

InitializeStake(o) ==
    /\ o \notin DOMAIN stakes
    /\ stakes' = [q \in DOMAIN stakes \cup {o} |-> IF q = o THEN NewStake ELSE stakes[q]]
    /\ UNCHANGED <<now, vault, fund>>

AddStake(o, amount) ==
    LET f == RebasedFund(fund, vault)
        stake == RebasedStake(stakes[o], f)
        n == VaultAmountToIfShares(amount, f.totalShares, vault)
    IN  /\ o \in DOMAIN stakes /\ f.base <= MAX_BASE
        /\ stakes[o].requestShares = 0 /\ stakes[o].requestValue = 0
        /\ CanBuyShares(fund, vault)
        /\ vault' = vault + amount /\ vault' <= MAX_VAULT
        /\ fund' = [f EXCEPT !.totalShares = @ + n, !.userShares = @ + n]
        /\ stakes' = [stakes EXCEPT ![o] = [stake EXCEPT !.shares = @ + n]]
        /\ UNCHANGED now

\* The handler computes the shares before the fund and the stake are rebased, and
\* only for a stake that is at the fund's base already.
RequestRemove(o, amount) ==
    LET n == VaultAmountToIfShares(amount, fund.totalShares, vault)
        f == RebasedFund(fund, vault)
        stake == RebasedStake([stakes[o] EXCEPT !.requestShares = n], f)
        value == IfSharesToVaultAmount(stake.requestShares, f.totalShares, vault)
    IN  /\ o \in DOMAIN stakes /\ f.base <= MAX_BASE
        /\ stakes[o].requestShares = 0
        /\ CanBuyShares(fund, vault) /\ n > 0
        /\ stakes[o].base = fund.base /\ stakes[o].shares >= n
        /\ fund' = f
        /\ stakes' = [stakes EXCEPT ![o] =
               [stake EXCEPT !.requestValue = IF value < vault THEN value
                                              ELSE IF vault = 0 THEN 0 ELSE vault - 1,
                             !.requestTs = now]]
        /\ UNCHANGED <<now, vault>>

\* calculate_if_shares_lost: what the requested shares have gained since the request
IfSharesLostUnpriced(stake, f, balance) ==
    IF IfSharesToVaultAmount(stake.requestShares, f.totalShares, balance) > stake.requestValue
    THEN stake.requestShares - VaultAmountToIfShares(stake.requestValue, f.totalShares, balance)
    ELSE 0
IfSharesLost(stake, f, balance) ==
    IF IfSharesToVaultAmount(stake.requestShares, f.totalShares, balance) > stake.requestValue
    THEN stake.requestShares - VaultAmountToIfShares(stake.requestValue,
             f.totalShares - stake.requestShares, balance - stake.requestValue)
    ELSE 0

RequestCleared(stake, lost) ==
    [stake EXCEPT !.requestShares = 0, !.requestValue = 0, !.requestTs = now]
WithoutRequest(stake, lost) ==
    [stake EXCEPT !.shares = @ - lost, !.requestShares = 0, !.requestValue = 0, !.requestTs = now]

CancelRequest(o) ==
    LET f == RebasedFund(fund, vault)
        stake == RebasedStake(stakes[o], f)
        lost == IfSharesLost(stake, f, vault)
    IN  /\ o \in DOMAIN stakes /\ f.base <= MAX_BASE
        /\ stakes[o].requestShares # 0 /\ stake.requestShares # 0
        /\ stake.requestShares <= f.totalShares
        /\ 0 <= lost /\ lost <= stake.shares /\ lost <= f.userShares
        /\ fund' = [f EXCEPT !.totalShares = @ - lost, !.userShares = @ - lost]
        /\ stakes' = [stakes EXCEPT ![o] = WithoutRequest(stake, lost)]
        /\ UNCHANGED <<now, vault>>

\* The vault must keep a token.
MustRemain(balance) == balance > 0
RemoveStake(o) ==
    LET f == RebasedFund(fund, vault)
        stake == RebasedStake(stakes[o], f)
        n == stake.requestShares
        amount == IfSharesToVaultAmount(n, f.totalShares, vault)
        paid == IF amount < stake.requestValue THEN amount ELSE stake.requestValue
    IN  /\ o \in DOMAIN stakes /\ f.base <= MAX_BASE
        /\ now - stakes[o].requestTs >= fund.unstakingPeriod
        /\ 0 < n /\ n <= stake.shares /\ n <= f.userShares
        /\ MustRemain(vault - paid)
        /\ vault' = vault - paid
        /\ fund' = [f EXCEPT !.totalShares = @ - n, !.userShares = @ - n]
        /\ stakes' = [stakes EXCEPT ![o] = WithoutRequest(stake, n)]
        /\ UNCHANGED now

-----------------------------------------------------------------------------
(* The protocol *)

\* resolve_vault_bankruptcy and resolve_perp_pnl_deficit take all but one token.
Payment(need) == IF need < vault - 1 THEN need ELSE vault - 1
PayInsurance(need) ==
    /\ vault > 0 /\ Payment(need) > 0
    /\ vault' = vault - Payment(need)
    /\ UNCHANGED <<now, fund, stakes>>

\* on_the_hour_update: a settlement late in its period skips the next one.
SettleWait(last) ==
    LET late == last % SettlePeriod
    IN  IF SettlePeriod = 1 \/ late = 0 THEN SettlePeriod
        ELSE IF late > SettlePeriod \div 3 THEN 2 * SettlePeriod - late ELSE SettlePeriod - late

\* The protocol's part of the revenue buys shares that no stake holds.
SettleRevenue(amount) ==
    LET part == (amount * (TotalFactor - UserFactor)) \div TotalFactor
        n == VaultAmountToIfShares(part, fund.totalShares, vault)
    IN  /\ now - fund.lastSettled >= SettleWait(fund.lastSettled)
        /\ UserFactor < TotalFactor => CanBuyShares(fund, vault)
        /\ vault' = vault + amount /\ vault' <= MAX_VAULT
        /\ fund' = [fund EXCEPT !.lastSettled = now,
                                !.totalShares = IF UserFactor < TotalFactor THEN @ + n ELSE @]
        /\ UNCHANGED <<now, stakes>>

SetUnstakingPeriod(period) ==
    /\ fund' = [fund EXCEPT !.unstakingPeriod = period]
    /\ UNCHANGED <<now, vault, stakes>>

Tick ==
    /\ now < MAX_TIME
    /\ now' = now + 1
    /\ UNCHANGED <<vault, fund, stakes>>

Init ==
    /\ now = 0
    /\ vault = 0
    /\ fund \in [totalShares : {0}, userShares : {0}, base : {0}, lastSettled : {0},
                 unstakingPeriod : UnstakingPeriods]
    /\ stakes = [o \in {} |-> NewStake]

Next ==
    \/ Tick
    \/ \E o \in Owners : InitializeStake(o)
    \/ \E o \in Owners, amount \in StakeAmounts : AddStake(o, amount)
    \/ \E o \in Owners, amount \in RequestAmounts : RequestRemove(o, amount)
    \/ \E o \in Owners : CancelRequest(o)
    \/ \E o \in Owners : RemoveStake(o)
    \/ \E need \in Payments : PayInsurance(need)
    \/ \E amount \in Revenues : SettleRevenue(amount)
    \/ \E period \in UnstakingPeriods : SetUnstakingPeriod(period)

Spec == Init /\ [][Next]_vars

-----------------------------------------------------------------------------

\* A stake as it will be once it is at the fund's base.
AtBase(o) == RebasedStake(stakes[o], fund)

\* However often the fund was rebased and whenever each stake follows, the stakes
\* hold no more than the users' shares, and these no more than there are: the
\* subtractions when stakers leave never fail.
SharesBacked ==
    /\ SumFunction([o \in DOMAIN stakes |-> AtBase(o).shares]) <= fund.userShares
    /\ fund.userShares <= fund.totalShares

\* A request is covered by its stake's shares, through any rebase.
RequestsCovered ==
    \A o \in DOMAIN stakes : stakes[o].requestShares <= stakes[o].shares

\* Nobody's share loses value because somebody else stakes, requests, cancels,
\* leaves, or the protocol takes its part: only payments of insurance, which leave
\* the accounts alone, lower it.  The value is compared across a rebase.
NoDilution ==
    [][\/ fund.totalShares = 0
       \/ UNCHANGED <<fund, stakes>>
       \/ vault' * fund.totalShares >= vault * fund'.totalShares * Power10[fund'.base - fund.base]]_vars

\* Cancelling a request is neutral while others hold shares: what is kept of the
\* requested shares is worth the value frozen in the request to within one share,
\* or is all of them if they are worth less by now.
CancelIsNeutral ==
    [][\A o \in DOMAIN stakes :
           LET before == RebasedStake(stakes[o], fund')
               kept == stakes'[o].shares - (before.shares - before.requestShares)
               others == RebasedFund(fund, vault).totalShares - before.requestShares
           IN  CancelRequest(o) /\ others > 0 =>
               /\ kept * vault < (before.requestValue + 1) * fund'.totalShares
               /\ \/ kept = before.requestShares
                  \/ (kept + 1) * vault >= before.requestValue * fund'.totalShares]_vars
=============================================================================
