--------------------------- MODULE ProposalLifecycle ---------------------------
(***************************************************************************)
(* What a proposal promises, without votes, counters, clocks or accounts:  *)
(* it is drafted, signed and voted on, it is decided once, and what was    *)
(* decided is what is executed.  The module Execution implements it.       *)
(***************************************************************************)
EXTENDS Integers

CONSTANT Proposals

VARIABLES
    phase,   \* per proposal, its state
    plan,    \* the transactions it has
    due,     \* the transactions its vote has approved
    done     \* the transactions that have been executed

lifecycle == <<phase, plan, due, done>>

Undecided == {"Draft", "SigningOff", "Voting"}
Rejected  == {"Defeated", "Vetoed"}

Init ==
    /\ phase = [p \in Proposals |-> "None"]
    /\ plan = [p \in Proposals |-> {}]
    /\ due = [p \in Proposals |-> {}]
    /\ done = [p \in Proposals |-> {}]

Moves(p, from, to) == phase[p] \in from /\ phase' = [phase EXCEPT ![p] = to]

Create(p) == Moves(p, {"None"}, "Draft") /\ UNCHANGED <<plan, due, done>>

\* Transactions come and go in a draft only: whoever signs it off or votes on it
\* knows them all.
Edit(p) ==
    /\ phase[p] = "Draft"
    /\ plan' = [plan EXCEPT ![p] = plan'[p]]
    /\ UNCHANGED <<phase, due, done>>

SignOff(p) ==
    /\ Moves(p, {"Draft", "SigningOff"}, "SigningOff") \/ Moves(p, {"Draft", "SigningOff"}, "Voting")
    /\ UNCHANGED <<plan, due, done>>

Cancel(p) == Moves(p, Undecided, "Cancelled") /\ UNCHANGED <<plan, due, done>>

\* The vote approves some of the transactions, or rejects the proposal.
Approve(p) ==
    /\ Moves(p, {"Voting"}, "Succeeded")
    /\ due'[p] \subseteq plan[p]
    /\ due' = [due EXCEPT ![p] = due'[p]]
    /\ UNCHANGED <<plan, done>>

Reject(p) ==
    /\ \E to \in Rejected : Moves(p, {"Voting"}, to)
    /\ UNCHANGED <<plan, due, done>>

\* A survey, which has no transactions, is over with its vote, and a proposal
\* without transactions when its owner says so.
Conclude(p) ==
    /\ plan[p] = {}
    /\ Moves(p, {"Voting", "Succeeded"}, "Completed")
    /\ UNCHANGED <<plan, due, done>>

\* Approved transactions are executed that have not been before.  When the
\* proposal is completed there are none left.
Execute(p) ==
    /\ done' = [done EXCEPT ![p] = done'[p]]
    /\ done[p] \subseteq done'[p] /\ done'[p] # done[p]
    /\ done'[p] \subseteq due[p]
    /\ \/ Moves(p, {"Succeeded", "Executing"}, "Executing")
       \/ Moves(p, {"Succeeded", "Executing"}, "Completed") /\ done'[p] = due[p]
    /\ UNCHANGED <<plan, due>>

Next ==
    \E p \in Proposals :
        \/ Create(p) \/ Edit(p) \/ SignOff(p) \/ Cancel(p)
        \/ Approve(p) \/ Reject(p) \/ Conclude(p) \/ Execute(p)

Spec == Init /\ [][Next]_lifecycle
=============================================================================
