------------------------------ MODULE MCExecution ------------------------------
(***************************************************************************)
(* A small instance of Execution: a config with a hold-up time and one     *)
(* without; transactions that call nothing here, set the longer hold-up    *)
(* time, or execute the first transaction of the first option.             *)
(***************************************************************************)
EXTENDS MCGovernance, Execution

QuickConfig  == [BaseConfig EXCEPT !.coolOffTime = 0, !.holdUpTime = 0]
HoldUpConfig == [QuickConfig EXCEPT !.holdUpTime = 1]
ExecutionConfigs == {QuickConfig, HoldUpConfig}

PlainCall     == [configs |-> {}, executes |-> {}]
SetHoldUpCall == [configs |-> {HoldUpConfig}, executes |-> {}]
NestedCall    == [configs |-> {}, executes |-> {<<1, 0>>}]
SomeCalls     == {PlainCall, SetHoldUpCall, NestedCall}

\* A Yes/No vote, one on two options of which several may win, and a survey.
ExecutionBallots ==
    {[voteType |-> "SingleChoice", options |-> 1, hasDeny |-> TRUE],
     [voteType |-> "FullWeight", options |-> 2, hasDeny |-> TRUE],
     [voteType |-> "SingleChoice", options |-> 1, hasDeny |-> FALSE]}
=============================================================================
