----------------------------- MODULE Liquidations -----------------------------
(***************************************************************************)
(* Accounts that fall below their margin requirement: a liquidator takes    *)
(* over their position bit by bit, and bad debt that remains is paid by the *)
(* insurance fund, then the fee pool, then by everybody.                    *)
(*                                                                         *)
(* Deposits, withdrawals and transfers are here with what they do to the    *)
(* quote and the liquidation status of an account (SynthMarkets has their   *)
(* effect on the market).  The margin calculation and is_user_bankrupt,     *)
(* which the code calls and does not define, are those of one position.     *)
(* Orders, limit prices, paused operations and the guard rails of the      *)
(* oracle, which only refuse calls, are left out.                           *)
(***************************************************************************)
EXTENDS Margin, FiniteSets, Functions

CONSTANTS
    Users, Opening,          \* the accounts and the positions they have opened
    Prices, Payments,        \* of the oracle; of deposits, withdrawals and transfers
    LiquidatorMaxima,        \* the base amounts that liquidators ask for
    MaintenanceRatio, InitialRatio, Buffer, LiquidatorFee, MaxIfFee, OrderStep,
    InitialPct, Duration,    \* initial_pct_to_liquidate and liquidation_duration
    InsuranceVault, MaxInsurance, FeePool,
    MAX_SLOT, MAX_LIQUIDATIONS   \* bounds: the clock and the liquidations of an account

VARIABLES accounts, wallets, price, slot, insurance
liquidationVars == <<accounts, wallets, price, slot, insurance>>

OpenedAccount(u) ==
    [base |-> Opening[u].base, quote |-> Opening[u].quote, status |-> {}, marginFreed |-> 0,
     lastActiveSlot |-> 0, nextLiquidationId |-> 0, socializedLoss |-> 0]

LiquidationInit ==
    /\ accounts = [u \in Users |-> OpenedAccount(u)]
    /\ wallets = [u \in Users |-> Opening[u].wallet]
    /\ price \in Prices /\ slot = 0
    /\ insurance = [vault |-> InsuranceVault, settled |-> 0, feePool |-> FeePool,
                    liquidationFees |-> 0, socialLoss |-> 0]

-----------------------------------------------------------------------------
(* The liquidation status of an account *)

IsBankrupt(account) == "Bankrupt" \in account.status
IsBeingLiquidated(account) == account.status \cap {"BeingLiquidated", "Bankrupt"} # {}

EnteredLiquidation(account) ==
    IF IsBeingLiquidated(account) THEN account
    ELSE [account EXCEPT !.status = @ \cup {"BeingLiquidated"}, !.marginFreed = 0,
                         !.lastActiveSlot = slot, !.nextLiquidationId = @ + 1]

\* A mistake: a bankrupt account stays so.
ExitedUnlessBankrupt(account) ==
    [account EXCEPT !.status = @ \ {"BeingLiquidated"}, !.marginFreed = 0]

ExitedLiquidation(account) ==
    [account EXCEPT !.status = @ \ {"BeingLiquidated", "Bankrupt"}, !.marginFreed = 0]

EnteredBankruptcy(account) ==
    [account EXCEPT !.status = (@ \ {"BeingLiquidated"}) \cup {"Bankrupt"}]

Active(account) == IF IsBeingLiquidated(account) THEN account ELSE [account EXCEPT !.lastActiveSlot = slot]

IsUserBankrupt(account) == account.base = 0 /\ account.quote < 0

LiquidationMargin(account) == MarginCalculation(account, price, MaintenanceRatio, Buffer)
MeetsInitialMargin(account) == MeetsMarginRequirement(MarginCalculation(account, price, InitialRatio, 0))

MayStartLiquidation(account) ==
    IsBeingLiquidated(account) \/ account.nextLiquidationId < MAX_LIQUIDATIONS

-----------------------------------------------------------------------------
(* Calls on one's own account *)

\* handle_deposit_collateral may end a liquidation.
Deposit(u, amount) ==
    LET paid == [accounts[u] EXCEPT !.quote = @ + amount]
        seen == IF IsBeingLiquidated(paid) /\ CanExitLiquidation(LiquidationMargin(paid))
                THEN ExitedLiquidation(paid) ELSE paid
    IN  /\ ~IsBankrupt(accounts[u]) /\ amount <= wallets[u]
        /\ accounts' = [accounts EXCEPT ![u] = Active(seen)]
        /\ wallets' = [wallets EXCEPT ![u] = @ - amount]
        /\ UNCHANGED <<price, slot, insurance>>

\* Whoever still meets the initial margin after paying out is not being liquidated any more.
PaidOut(account) == Active(IF IsBeingLiquidated(account) THEN ExitedLiquidation(account) ELSE account)

Withdraw(u, amount) ==
    LET left == [accounts[u] EXCEPT !.quote = @ - amount]
    IN  /\ ~IsBankrupt(accounts[u]) /\ MeetsInitialMargin(left)
        /\ accounts' = [accounts EXCEPT ![u] = PaidOut(left)]
        /\ wallets' = [wallets EXCEPT ![u] = @ + amount]
        /\ UNCHANGED <<price, slot, insurance>>

\* The receiver's status stays what it was, however healthy the transfer makes him.
Transfer(from, to, amount) ==
    LET left == [accounts[from] EXCEPT !.quote = @ - amount]
    IN  /\ from # to /\ ~IsBankrupt(accounts[from]) /\ ~IsBankrupt(accounts[to])
        /\ MeetsInitialMargin(left)
        /\ accounts' = [accounts EXCEPT ![from] = PaidOut(left),
                                        ![to] = Active([accounts[to] EXCEPT !.quote = @ + amount])]
        /\ UNCHANGED <<wallets, price, slot, insurance>>

-----------------------------------------------------------------------------
(* Liquidation *)

MayLiquidate(u, liquidator) ==
    /\ u # liquidator
    /\ ~IsBankrupt(accounts[u]) /\ ~IsBankrupt(accounts[liquidator])

\* liquidate_vault finds that the account has recovered.
EndLiquidation(u, liquidator) ==
    /\ MayLiquidate(u, liquidator)
    /\ IsBeingLiquidated(accounts[u]) /\ CanExitLiquidation(LiquidationMargin(accounts[u]))
    /\ accounts' = [accounts EXCEPT ![u] = ExitedLiquidation(@)]
    /\ UNCHANGED <<wallets, price, slot, insurance>>

IsLiquidatable(account) ==
    LET margin == LiquidationMargin(account)
    IN  IF IsBeingLiquidated(account) THEN ~CanExitLiquidation(margin) ELSE ~MeetsMarginRequirement(margin)

\* An amount of the position changes hands at the oracle's price; both fees are the account's.
TakenOver(account, amount, fees) ==
    LET side == IF account.base > 0 THEN 1 ELSE -1
    IN  [account EXCEPT !.base = @ - side * amount, !.quote = @ + side * amount * price - fees]

Acquired(account, side, amount, fee) ==
    [account EXCEPT !.base = @ + side * amount, !.quote = @ - side * amount * price + fee]

FeeOf(amount, fee) == (amount * price * fee) \div LIQUIDATION_FEE_PRECISION

\* How the liquidated account is left, after as much as covers the shortage or not.
Liquidated(before, after, shortage, covered) ==
    LET freed == Most(0, shortage - MarginShortage(LiquidationMargin(after)))
        told  == [after EXCEPT !.marginFreed = @ + freed]
    IN  IF covered THEN ExitedLiquidation(told)
        ELSE IF IsUserBankrupt(told) THEN EnteredBankruptcy(told) ELSE told

LiquidateVault(u, liquidator, liquidatorMax) ==
    /\ MayLiquidate(u, liquidator) /\ IsLiquidatable(accounts[u]) /\ MayStartLiquidation(accounts[u])
    /\ accounts[u].base # 0 /\ Standardized(liquidatorMax, OrderStep) # 0
    /\ \E entered \in {EnteredLiquidation(accounts[u])} :
       LET size     == Magnitude(entered.base)
           shortage == MarginShortage(LiquidationMargin(entered))
           ratio    == MaintenanceRatio + Buffer
           ifFee    == VaultIfFee(shortage, size, ratio, LiquidatorFee, price, MaxIfFee)
           toCover  == StandardizedUp(BaseToCoverShortage(shortage, ratio, LiquidatorFee, ifFee, price), OrderStep)
           allowed  == (toCover * MaxPctToLiquidate(entered, shortage, slot, InitialPct, Duration))
                          \div LIQUIDATION_PCT_PRECISION
           amount   == BaseToTransfer(size, Standardized(liquidatorMax, OrderStep), allowed, price, OrderStep)
           side     == IF entered.base > 0 THEN 1 ELSE -1
           left     == TakenOver(entered, amount, FeeOf(amount, LiquidatorFee) + FeeOf(amount, ifFee))
           taker    == Acquired(accounts[liquidator], side, amount, FeeOf(amount, LiquidatorFee))
       IN  IF allowed = 0
           THEN accounts' = [accounts EXCEPT ![u] = entered] /\ UNCHANGED insurance
           ELSE /\ MeetsInitialMargin(taker)
                /\ accounts' = [accounts EXCEPT ![u] = Liquidated(entered, left, shortage, amount >= toCover),
                                                ![liquidator] = taker]
                /\ insurance' = [insurance EXCEPT !.liquidationFees = @ + FeeOf(amount, ifFee)]
    /\ UNCHANGED <<wallets, price, slot>>

\* set_vault_status_to_being_liquidated: a keeper starts the clock without taking anything.
SetStatusToBeingLiquidated(u) ==
    /\ ~IsBeingLiquidated(accounts[u]) /\ MayStartLiquidation(accounts[u])
    /\ ~MeetsMarginRequirement(LiquidationMargin(accounts[u]))
    /\ accounts' = [accounts EXCEPT ![u] = EnteredLiquidation(@)]
    /\ UNCHANGED <<wallets, price, slot, insurance>>

\* resolve_vault_bankruptcy: one token stays in the insurance vault.
ResolveBankruptcy(u, liquidator) ==
    LET account == IF IsUserBankrupt(accounts[u]) THEN EnteredBankruptcy(accounts[u]) ELSE accounts[u]
        loss    == -account.quote
        claim   == MaxInsurance - insurance.settled
        insured == Least(Least(loss, Most(0, insurance.vault - 1)), claim)
        fromFees == Least(loss - insured, insurance.feePool)
        cleared == [account EXCEPT !.quote = 0, !.socializedLoss = @ + loss]
    IN  /\ u # liquidator
        /\ IsBankrupt(account) /\ ~IsBeingLiquidated(accounts[liquidator])
        /\ loss > 0 /\ claim >= 0
        /\ accounts' = [accounts EXCEPT ![u] = IF IsUserBankrupt(cleared) THEN cleared ELSE ExitedLiquidation(cleared)]
        /\ insurance' = [insurance EXCEPT !.vault = @ - insured, !.settled = @ + insured,
                                          !.feePool = @ - fromFees, !.socialLoss = @ + loss - insured - fromFees]
        /\ UNCHANGED <<wallets, price, slot>>

-----------------------------------------------------------------------------
(* Surroundings *)

SetPrice(p) == p # price /\ price' = p /\ UNCHANGED <<accounts, wallets, slot, insurance>>
NextSlot == slot < MAX_SLOT /\ slot' = slot + 1 /\ UNCHANGED <<accounts, wallets, price, insurance>>

LiquidationNext ==
    \/ \E u \in Users, amount \in Payments :
          Deposit(u, amount) \/ Withdraw(u, amount) \/ \E to \in Users : Transfer(u, to, amount)
    \/ \E u, l \in Users :
          \/ EndLiquidation(u, l) \/ ResolveBankruptcy(u, l)
          \/ \E most \in LiquidatorMaxima : LiquidateVault(u, l, most)
    \/ \E u \in Users : SetStatusToBeingLiquidated(u)
    \/ \E p \in Prices : SetPrice(p)
    \/ NextSlot

-----------------------------------------------------------------------------
(* Properties *)

\* While a liquidation goes on, whatever the account or others do, its clock stands, what it
\* freed is not forgotten and it keeps its number; no number is used for two liquidations
\* (update_last_active_slot, enter_liquidation).
LiquidationKeepsItsClock ==
    [][\A u \in Users :
         /\ IsBeingLiquidated(accounts[u]) /\ IsBeingLiquidated(accounts'[u]) =>
               /\ accounts'[u].lastActiveSlot = accounts[u].lastActiveSlot
               /\ accounts'[u].marginFreed >= accounts[u].marginFreed
               /\ accounts'[u].nextLiquidationId = accounts[u].nextLiquidationId
         /\ ~IsBeingLiquidated(accounts[u]) /\ IsBeingLiquidated(accounts'[u])
               /\ ~IsBankrupt(accounts'[u]) =>
               accounts'[u].nextLiquidationId > accounts[u].nextLiquidationId]_liquidationVars

\* The margin that a number of base units frees, at the most
MarginOf(units) ==
    (units * price * (FeeRatio(MaintenanceRatio + Buffer) - LiquidatorFee)) \div LIQUIDATION_FEE_PRECISION

\* What rounding takes in one liquidation: two quotients of the requirement, and the last unit
\* of base, which the amount that covers the shortage is rounded down by.
Rounding == 2 + MarginOf(1)

\* A liquidation that ends leaves an account that meets its margin requirement, whether it
\* ends by a deposit, a withdrawal, a recovered price, a cleared debt or because as much was
\* taken over as "covers" the shortage.
EndsHealthy ==
    [][\A u \in Users :
         IsBeingLiquidated(accounts[u]) /\ ~IsBeingLiquidated(accounts'[u])
            => MeetsMarginRequirement(LiquidationMargin([accounts'[u] EXCEPT !.quote = @ + Rounding]))]_liquidationVars

\* Margin is freed over time: what a liquidation has freed is, up to rounding, no more than its
\* share of the shortage for the time since it began, unless the shortage or the position is
\* tiny (calculate_max_pct_to_liquidate).  The amounts that cover the shortage and that are taken
\* over are both rounded up to whole steps, and four quotients are rounded.
FreedableAt(account, shortage) ==
    LET elapsed == IF Duration = 0 THEN LIQUIDATION_PCT_PRECISION
                   ELSE ((slot - account.lastActiveSlot) * LIQUIDATION_PCT_PRECISION) \div Duration
    IN  ((shortage + account.marginFreed) * Least(elapsed + InitialPct, LIQUIDATION_PCT_PRECISION))
           \div LIQUIDATION_PCT_PRECISION
StepWorth == 4 + MarginOf(2 * (OrderStep - 1))
LiquidationIsGradual ==
    [][\A u \in Users :
         LET before   == EnteredLiquidation(accounts[u])
             shortage == MarginShortage(LiquidationMargin(before))
         IN  /\ accounts'[u].marginFreed > before.marginFreed
             /\ shortage >= FIFTY /\ Magnitude(before.base) * price > FIFTY
             => accounts'[u].marginFreed <= Most(before.marginFreed, FreedableAt(before, shortage)) + StepWorth]_liquidationVars

\* Positions only change hands and bad debt is paid once: what the accounts, their owners and
\* the fee takers hold changes only by what the insurance fund, the fee pool and the social
\* loss have paid, in this order, and the fund keeps its last token.
PoolsPaid == insurance.settled + (FeePool - insurance.feePool) + insurance.socialLoss
Worth(account, wallet) == account.quote + wallet
BadDebtIsPaidOnce ==
    /\ SumFunction([u \in Users |-> accounts[u].base]) = SumFunction([u \in Users |-> Opening[u].base])
    /\ SumFunction([u \in Users |-> Worth(accounts[u], wallets[u])]) + insurance.liquidationFees
          = SumFunction([u \in Users |-> Opening[u].quote + Opening[u].wallet]) + PoolsPaid
    /\ insurance.vault + insurance.settled = InsuranceVault /\ insurance.vault >= 1
    /\ insurance.settled <= MaxInsurance
    /\ insurance.feePool < FeePool => insurance.vault = 1 \/ insurance.settled = MaxInsurance
    /\ insurance.socialLoss > 0 => insurance.feePool = 0

\* Bankruptcy is no trap: a bankrupt account owes quote and holds no position, so that its debt
\* can be resolved, and it stays so until then.
BankruptcyIsResolvable ==
    \A u \in Users : IsBankrupt(accounts[u]) => accounts[u].base = 0 /\ accounts[u].quote < 0

\* Bad debt is paid once and by those it is due from, and bankruptcy is no trap.
BankruptcySound == BadDebtIsPaidOnce /\ BankruptcyIsResolvable
=============================================================================
