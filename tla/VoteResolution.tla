---------------------------- MODULE VoteResolution ----------------------------
(***************************************************************************)
(* The arithmetic that decides a vote: how a ballot is weighed, when a     *)
(* vote may be tipped before its time is up and how it is resolved at the  *)
(* end (state/proposal.rs and state/vote_record.rs of the governance       *)
(* program).  Everything here is a pure operator over one proposal's       *)
(* tally:                                                                  *)
(*   weights  the vote weight of every option, a sequence                  *)
(*   hasDeny  whether the proposal has a deny option (executable) or not   *)
(*            (a survey)                                                   *)
(*   deny     the weight of the Deny votes, 0 when hasDeny is FALSE        *)
(*   max      the maximum voter weight                                     *)
(*   thr      the minimum weight an option needs                           *)
(***************************************************************************)
EXTENDS Integers, Sequences, Functions

VoteTypes   == {"SingleChoice", "FullWeight", "Weighted"}
VoteTippings == {"Strict", "Early", "Disabled"}

\* VoteThreshold::Disabled; VoteThreshold::YesVotePercentage(p) is p \in 1..100.
ThresholdDisabled == 0

-----------------------------------------------------------------------------
(* Ballots and votes *)

\* A multi choice proposal has at least two options (and allows them all).
ValidOptions(voteType, n) ==
    /\ n \in 1..10
    /\ voteType # "SingleChoice" => n # 1

\* The choices of an Approve vote: a percentage of the voter's weight per option.
ValidChoices(voteType, n, choices) ==
    LET chosen == {o \in DOMAIN choices : choices[o] > 0}
    IN  /\ Len(choices) = n
        /\ CASE voteType = "SingleChoice" ->
                    \E o \in chosen : chosen = {o} /\ choices[o] = 100
             [] voteType = "FullWeight" ->
                    chosen # {} /\ \A o \in chosen : choices[o] = 100
             [] voteType = "Weighted" ->
                    SumFunction(choices) = 100

\* The weight an option gets from a voter who gives it pct percent: rounded
\* down, so that the parts may add up to less than the voter's weight.
ChoiceWeight(pct, voterWeight) ==
    IF pct = 100 THEN voterWeight ELSE (voterWeight * pct) \div 100

-----------------------------------------------------------------------------
(* Thresholds *)

SaturatingSub(a, b) == IF a >= b THEN a - b ELSE 0

\* The percentage of the maximum weight, rounded up.
MinVoteThresholdWeightRoundedDown(pct, max) == (pct * max) \div 100
MinVoteThresholdWeight(pct, max) ==
    LET numerator == pct * max
        quotient  == numerator \div 100
    IN  IF quotient * 100 < numerator THEN quotient + 1 ELSE quotient

-----------------------------------------------------------------------------
(* Resolution of a vote whose time is up *)

Passes(weight, deny, thr) == weight >= thr /\ weight > deny

PassingOptions(weights, deny, thr) ==
    {o \in DOMAIN weights : Passes(weights[o], deny, thr)}

BestOptions(weights, deny, thr) ==
    LET passing == PassingOptions(weights, deny, thr)
    IN  {o \in passing : \A q \in passing : weights[q] <= weights[o]}

\* The options with OptionVoteResult::Succeeded.  A single choice proposal has
\* no winner when the best weight is shared.
WinningOptionsOnTie(voteType, weights, deny, thr) ==
    IF voteType = "SingleChoice" THEN BestOptions(weights, deny, thr)
                                 ELSE PassingOptions(weights, deny, thr)
WinningOptions(voteType, weights, deny, thr) ==
    IF voteType = "SingleChoice"
    THEN {o \in BestOptions(weights, deny, thr) : BestOptions(weights, deny, thr) = {o}}
    ELSE PassingOptions(weights, deny, thr)

\* A survey is over once its vote ends, whatever its options got.
FinalVoteState(voteType, weights, hasDeny, deny, thr) ==
    IF ~hasDeny THEN "Completed"
    ELSE IF WinningOptions(voteType, weights, deny, thr) = {} THEN "Defeated"
    ELSE "Succeeded"

-----------------------------------------------------------------------------
(* Tipping: the vote ends as soon as its outcome is settled *)

\* Only a Yes/No vote tips: one option, single choice, with the deny option.
IsTippable(voteType, weights, hasDeny) ==
    voteType = "SingleChoice" /\ hasDeny /\ Len(weights) = 1

YesTipsIgnoringRest(yes, deny, max, thr, tipping) ==
    tipping # "Disabled" /\ yes >= thr /\ yes > deny
YesTipsBelowThreshold(yes, deny, max, thr, tipping) ==
    CASE tipping = "Strict"   -> yes > SaturatingSub(max, yes)
      [] tipping = "Early"    -> yes > deny
      [] tipping = "Disabled" -> FALSE
YesTips(yes, deny, max, thr, tipping) ==
    /\ yes >= thr
    /\ CASE tipping = "Strict"   -> yes > SaturatingSub(max, yes)
         [] tipping = "Early"    -> yes > deny
         [] tipping = "Disabled" -> FALSE

DenyTips(deny, max, thr, tipping) ==
    /\ tipping # "Disabled"
    /\ \/ deny > SaturatingSub(max, thr)
       \/ deny >= SaturatingSub(max, deny)

\* The state an Electorate vote tips to, "Voting" when it does not.
TippedElectorateState(voteType, weights, hasDeny, deny, max, thr, tipping) ==
    IF ~IsTippable(voteType, weights, hasDeny)         THEN "Voting"
    ELSE IF YesTips(weights[1], deny, max, thr, tipping) THEN "Succeeded"
    ELSE IF DenyTips(deny, max, thr, tipping)            THEN "Defeated"
    ELSE "Voting"

\* The state a Veto vote tips to: vetoing does not depend on the tipping.
TippedVetoState(veto, thr) == IF veto >= thr THEN "Vetoed" ELSE "Voting"

-----------------------------------------------------------------------------
(* Properties of the arithmetic: predicates over one Yes/No tally *)

\* MinVoteThresholdWeight is the least weight that is pct percent of max.
ThresholdIsLeastSufficient(pct, max) ==
    LET thr == MinVoteThresholdWeight(pct, max)
    IN  /\ 100 * thr >= pct * max
        /\ \A w \in 0..max : 100 * w >= pct * max => w >= thr

\* A vote that tips gets the state that resolving the very same tally gives, as
\* long as the maximum weight is not less than the votes that have been cast.
TipAgreesWithResolution(yes, deny, max, thr, tipping) ==
    LET tipped == TippedElectorateState("SingleChoice", <<yes>>, TRUE, deny, max, thr, tipping)
    IN  yes + deny <= max /\ tipped # "Voting" =>
            tipped = FinalVoteState("SingleChoice", <<yes>>, TRUE, deny, thr)

\* No distribution of the weight not cast yet changes the outcome of a tip,
\* except of the Yes of an early tip, which may still be outvoted.
TipIsIrreversible(yes, deny, max, thr, tipping) ==
    LET tipped == TippedElectorateState("SingleChoice", <<yes>>, TRUE, deny, max, thr, tipping)
    IN  tipped # "Voting" /\ (tipped = "Succeeded" => tipping = "Strict") =>
            \A y \in yes..max, d \in deny..max :
                y + d <= max =>
                    tipped = FinalVoteState("SingleChoice", <<y>>, TRUE, d, thr)

\* Spreading a vote over the options never gains weight, and loses less than a
\* unit per option to rounding.
SpreadVoteKeepsWeight(choices, weight) ==
    LET spread == SumFunction([o \in DOMAIN choices |-> ChoiceWeight(choices[o], weight)])
    IN  SumFunction(choices) = 100 => spread <= weight /\ weight < spread + Len(choices)
=============================================================================
