---------------------------- MODULE MCInsuranceFund ----------------------------
(***************************************************************************)
(* An instance of the insurance fund for TLC: two stakers, and payments    *)
(* that leave so little that shares are divided by ten.                    *)
(***************************************************************************)
EXTENDS InsuranceFund, TLC

CONSTANTS a, b

MCOwners == {a, b}
MCStakeAmounts == {100}
MCRequestAmounts == {30, 100}
MCPayments == {90, 300}
MCRevenues == {7}
MCUnstakingPeriods == {1}

Symmetric == Permutations(MCOwners)
=============================================================================
