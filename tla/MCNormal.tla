------------------------------- MODULE MCNormal -------------------------------
(***************************************************************************)
(* The instances of NormalProgram.                                         *)
(***************************************************************************)
EXTENDS NormalProgram, TLC

UserSymmetry == Permutations(Users)
ActiveOrClosing == {<<"Active", {}>>, <<"ReduceOnly", {"Withdraw"}>>}

CONSTANTS u1, u2
LongAndShort == (u1 :> [base |-> 40, quote |-> -680, wallet |-> 20])
             @@ (u2 :> [base |-> -10, quote |-> 400, wallet |-> 0])

Message(t, p, c, a) == [time |-> t, price |-> p, confidence |-> c, average |-> a]
OpeningMessage == Message(0, 1000, 10, 1000)
RisingFallingNegative ==
    {OpeningMessage, Message(1, 1600, 40, 1200), Message(2, 700, 10, 900), Message(3, -300, 10, 500)}
Rails == [slotsBeforeStale |-> 1, confidenceMaxSize |-> 2, tooVolatileRatio |-> 1]
TwoTiers == {[confidence |-> 1, clamp |-> 10], [confidence |-> 10, clamp |-> 2]}

OneOpening == {[initial |-> 4, maintenance |-> 2, fee |-> 1, ifFee |-> 0]}
LowHighExcessive == {<<1, 0>>, <<3, 0>>, <<3, 37>>}
NoPause == {{}}
=============================================================================
