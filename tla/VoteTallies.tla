------------------------------ MODULE VoteTallies ------------------------------
(***************************************************************************)
(* One Yes/No vote with every maximum weight, threshold and tipping of a   *)
(* small range, in which weight is cast one unit after the other.          *)
(***************************************************************************)
EXTENDS VoteResolution

CONSTANTS MAX_WEIGHT,   \* bound: the largest maximum voter weight
          Thresholds    \* the vote thresholds, in percent

ASSUME VoteTalliesAssumption == MAX_WEIGHT \in Nat /\ Thresholds \subseteq 1..100

VARIABLES max, pct, tipping, yes, deny
vars == <<max, pct, tipping, yes, deny>>

thr == MinVoteThresholdWeight(pct, max)

Init == /\ max \in 0..MAX_WEIGHT /\ pct \in Thresholds /\ tipping \in VoteTippings
        /\ yes = 0 /\ deny = 0

CastYes  == yes + deny < max /\ yes' = yes + 1 /\ UNCHANGED <<max, pct, tipping, deny>>
CastDeny == yes + deny < max /\ deny' = deny + 1 /\ UNCHANGED <<max, pct, tipping, yes>>

Next == CastYes \/ CastDeny
Spec == Init /\ [][Next]_vars

-----------------------------------------------------------------------------

\* Of a weighted vote over three options, spread in any way, nothing is gained
\* (VoteChoice::get_choice_weight).
SpreadKeepsWeight ==
    \A a, b \in Thresholds :
        a + b <= 100 => SpreadVoteKeepsWeight(<<a, b, 100 - a - b>>, max)

\* A tally is decided exactly: its threshold is the least sufficient weight
\* (get_min_vote_threshold_weight), whatever tips it is what finalizing it would resolve
\* to (try_get_tipped_electorate_vote_state against resolve_final_vote_state), a strict
\* tip stands for every way the weight that is left may be cast, and no voter gains
\* weight by spreading it.
TallyDecidedExactly ==
    /\ ThresholdIsLeastSufficient(pct, max)
    /\ TipAgreesWithResolution(yes, deny, max, thr, tipping)
    /\ TipIsIrreversible(yes, deny, max, thr, tipping)
    /\ SpreadKeepsWeight
===============================================================================
