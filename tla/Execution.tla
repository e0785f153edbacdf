------------------------------- MODULE Execution -------------------------------
(***************************************************************************)
(* The transactions of proposals: the owner of a draft inserts and removes *)
(* them, and once the proposal has succeeded anybody executes them, each   *)
(* with the governance as signer.  An instruction of a transaction may     *)
(* call the governance program again: to set the governance's config,      *)
(* which only the governance can do, or to execute another transaction of  *)
(* the very proposal whose account the outer call has read already and     *)
(* writes when the inner one has returned.                                 *)
(***************************************************************************)
EXTENDS Governance

CONSTANTS
    Calls,            \* the calls into this program a transaction may make
    MAX_TRANSACTIONS  \* bound: the transaction indexes of an option

VARIABLES
    transactions,     \* ProposalTransaction accounts, by proposal, option and index
    execution,        \* executing_at and the options' transaction counters of a proposal
    effects           \* history: how often the instructions of a transaction have run

transactionVars == <<transactions, execution, effects>>
allVars == <<vars, transactionVars>>

\* A transaction has one instruction that calls the program, if any: it sets a
\* config or executes the transaction <<option, index>>.
ASSUME CallsAssumption ==
    /\ \A c \in Calls :
           /\ c.configs \subseteq Configs /\ \A t \in c.executes : t \in Nat \X Nat
           /\ \A x, y \in c.configs \cup c.executes : x = y
    /\ MAX_TRANSACTIONS \in Nat

OptionIndexes == UNION {1..b.options : b \in Ballots}
Keys == Proposals \X OptionIndexes \X (0..(MAX_TRANSACTIONS - 1))

TransactionsOf(p) == {k \in DOMAIN transactions : k[1] = p}
TransactionsOfOption(p, o) == {k \in TransactionsOf(p) : k[2] = o}
Executed(S) == {k \in S : transactions[k].executedAt # NotSet}

NewExecution(prop) ==
    [executingAt |-> NotSet,
     options |-> [o \in DOMAIN prop.weights |-> [count |-> 0, nextIndex |-> 0, executed |-> 0]]]

-----------------------------------------------------------------------------
(* Inserting and removing *)

\* assert_can_edit_instructions
CanEdit(p) == proposal[p].state = "Draft" /\ proposal[p].hasDeny

\* The next index, or one that a removed transaction has left.
Inserted(counters, i) ==
    [counters EXCEPT !.count = @ + 1, !.nextIndex = IF i = @ THEN @ + 1 ELSE @]

InsertTransaction(p, o, i, calls) ==
    LET key == <<p, o, i>>
    IN  /\ p \in DOMAIN proposal /\ key \notin DOMAIN transactions
        /\ CanEdit(p)
        /\ o \in DOMAIN proposal[p].weights
        /\ i <= execution[p].options[o].nextIndex
        /\ execution' = [execution EXCEPT ![p].options[o] = Inserted(@, i)]
        /\ transactions' = Created(transactions, key, [calls |-> calls, executedAt |-> NotSet])
        /\ effects' = Created(effects, key, 0)
        /\ UNCHANGED vars

\* The index of a removed transaction is never given back.
RemovedFromLast(counters) == [counters EXCEPT !.count = @ - 1, !.nextIndex = @ - 1]
Removed(counters) == [counters EXCEPT !.count = @ - 1]

RemoveTransaction(k) ==
    /\ k \in DOMAIN transactions
    /\ CanEdit(k[1])
    /\ execution' = [execution EXCEPT ![k[1]].options[k[2]] = Removed(@)]
    /\ transactions' = [j \in DOMAIN transactions \ {k} |-> transactions[j]]
    /\ effects' = [j \in DOMAIN effects \ {k} |-> effects[j]]
    /\ UNCHANGED vars

-----------------------------------------------------------------------------
(* Executing *)

\* assert_can_execute_transaction
CanExecuteAgain(k) ==
    LET prop == proposal[k[1]]
    IN  /\ prop.state \in {"Succeeded", "Executing"}
        /\ k[2] \in prop.winners
        /\ prop.votingCompletedAt + config.holdUpTime < now
CanExecuteBeforeHoldUp(k) ==
    LET prop == proposal[k[1]]
    IN  /\ prop.state \in {"Succeeded", "Executing"}
        /\ k[2] \in prop.winners
        /\ transactions[k].executedAt = NotSet
CanExecuteDefeated(k) ==
    LET prop == proposal[k[1]]
    IN  /\ prop.state \in {"Succeeded", "Executing"}
        /\ prop.votingCompletedAt + config.holdUpTime < now
        /\ transactions[k].executedAt = NotSet
CanExecute(k) ==
    LET prop == proposal[k[1]]
    IN  /\ prop.state \in {"Succeeded", "Executing"}
        /\ k[2] \in prop.winners
        /\ prop.votingCompletedAt + config.holdUpTime < now
        /\ transactions[k].executedAt = NotSet

\* The transactions of the same proposal that the instructions of k execute.  One
\* that would call k again never returns, and none calls a third one here.
Callees(k) == {<<k[1], c[1], c[2]>> : c \in transactions[k].calls.executes}
CanCall(k, c) ==
    /\ c \in DOMAIN transactions /\ c # k
    /\ transactions[c].calls.executes = {}
    /\ CanExecute(c)

\* All transactions of the winning options have been executed, going by counters.
EveryOptionExecuted(counters, winners) ==
    \A o \in DOMAIN counters : counters[o].executed = counters[o].count
AllExecuted(counters, winners) ==
    \A o \in winners : counters[o].executed = counters[o].count

\* The account of the proposal is written last, from what was read first: what
\* an inner call has counted in the meantime is overwritten.
ExecuteTransaction(k) ==
    LET p        == k[1]
        ran      == {k} \cup Callees(k)
        counters == [execution[p].options EXCEPT ![k[2]].executed = @ + 1]
        all      == AllExecuted(counters, proposal[p].winners)
        configs  == UNION {transactions[j].calls.configs : j \in ran}
    IN  /\ k \in DOMAIN transactions
        /\ CanExecute(k) /\ \A c \in Callees(k) : CanCall(k, c)
        /\ transactions' = [j \in DOMAIN transactions |->
               IF j \in ran THEN [transactions[j] EXCEPT !.executedAt = now] ELSE transactions[j]]
        /\ effects' = [j \in DOMAIN effects |-> IF j \in ran THEN effects[j] + 1 ELSE effects[j]]
        /\ execution' = [execution EXCEPT
               ![p].options = counters,
               ![p].executingAt = IF proposal[p].state = "Succeeded" THEN now ELSE @]
        /\ proposal' = [proposal EXCEPT
               ![p].state = IF all THEN "Completed" ELSE "Executing",
               ![p].closed = @ \/ all]
        /\ config' \in IF configs = {} THEN {config} ELSE configs
        /\ UNCHANGED <<now, realmVars, requiredSignatories, activeProposals, tokenVars, tor,
                       voteRecords, proposalDeposit>>

\* The owner closes a proposal that has nothing to execute on chain.
CompleteProposal(p) ==
    /\ p \in DOMAIN proposal /\ proposal[p].state = "Succeeded"
    /\ \A o \in DOMAIN proposal[p].weights : execution[p].options[o].count = 0
    /\ proposal' = [proposal EXCEPT ![p].state = "Completed", ![p].closed = TRUE]
    /\ UNCHANGED <<now, realmVars, govVars, tokenVars, tor, voteRecords, proposalDeposit,
                   transactionVars>>

-----------------------------------------------------------------------------
(* The specification *)

ExecutionInit ==
    /\ Init
    /\ transactions = NoAccounts
    /\ execution = NoAccounts
    /\ effects = NoAccounts

\* A handler of Governance.  The config is set by executing a proposal only, so
\* SetGovernanceConfig does not happen by itself.  CreateProposal leaves the
\* counters at zero.
GovernanceStep ==
    /\ Next
    /\ UNCHANGED <<config, transactions, effects>>
    /\ execution' = [p \in DOMAIN proposal' |->
           IF p \in DOMAIN execution THEN execution[p] ELSE NewExecution(proposal'[p])]

TransactionStep ==
    \/ \E p \in DOMAIN proposal :
           \E o \in DOMAIN proposal[p].weights, i \in 0..(MAX_TRANSACTIONS - 1), calls \in Calls :
               InsertTransaction(p, o, i, calls)
    \/ \E k \in DOMAIN transactions : RemoveTransaction(k) \/ ExecuteTransaction(k)
    \/ \E p \in Proposals : CompleteProposal(p)

ExecutionNext == GovernanceStep \/ TransactionStep

ExecutionSpec == ExecutionInit /\ [][ExecutionNext]_allVars

\* Anybody may execute a transaction, and a vote is finalized as in FairSpec.
FairExecutionSpec ==
    /\ ExecutionSpec
    /\ WF_allVars(Tick /\ GovernanceStep)
    /\ \A p \in Proposals : WF_allVars(FinalizeVote(p) /\ GovernanceStep)
    /\ \A k \in Keys : WF_allVars(ExecuteTransaction(k))

-----------------------------------------------------------------------------
(* Properties *)

\* The instructions of a transaction run once if it is marked executed and never
\* otherwise, also when one transaction is executed by another.
EachRunsOnce ==
    \A k \in DOMAIN transactions :
        effects[k] = IF transactions[k].executedAt = NotSet THEN 0 ELSE 1

CallsTransactions(p) == \E k \in TransactionsOf(p) : transactions[k].calls.executes # {}

\* The counters of an option are the numbers of its transactions and of those
\* executed, through insertions into the holes that removals leave.  An execution inside an
\* execution is not counted, so that no counter ever runs ahead.
TransactionsCounted ==
    \A p \in DOMAIN proposal : \A o \in DOMAIN proposal[p].weights :
        LET counters == execution[p].options[o]
            existing == TransactionsOfOption(p, o)
        IN  /\ counters.count = Cardinality(existing)
            /\ \A k \in existing : k[3] < counters.nextIndex
            /\ counters.executed <= Cardinality(Executed(existing))
            /\ ~CallsTransactions(p) => counters.executed = Cardinality(Executed(existing))

\* The dates of a proposal are in order although five handlers set them, and
\* FinalizeVote sets one of the past: the vote starts, ends and, after a hold-up
\* time, its transactions are executed.
TimelineOrdered ==
    \A p \in DOMAIN proposal :
        LET prop == proposal[p]
            at   == execution[p].executingAt
        IN  /\ prop.votingCompletedAt # NotSet =>
                   prop.votingAt # NotSet /\ prop.votingAt <= prop.votingCompletedAt
            /\ at # NotSet => prop.votingCompletedAt # NotSet /\ prop.votingCompletedAt < at
            /\ \A k \in Executed(TransactionsOf(p)) :
                   at # NotSet /\ at <= transactions[k].executedAt

\* A proposal is drafted, voted on, decided and executed as ProposalLifecycle says.
PassedStates == {"Succeeded", "Executing", "Completed"}
Phase == [p \in Proposals |-> IF p \in DOMAIN proposal THEN proposal[p].state ELSE "None"]
Plan == [p \in Proposals |-> TransactionsOf(p)]
Due == [p \in Proposals |->
           {k \in TransactionsOf(p) :
               proposal[p].state \in PassedStates /\ k[2] \in proposal[p].winners}]
Done == [p \in Proposals |-> Executed(TransactionsOf(p))]

Lifecycle == INSTANCE ProposalLifecycle WITH phase <- Phase, plan <- Plan, due <- Due, done <- Done

LifecycleRefined == Lifecycle!Spec

\* What a vote has approved is executed in the end, whatever hold-up times are
\* configured by the transactions themselves, if none executes another one.
HasApprovedTransactions(p) ==
    /\ p \in DOMAIN proposal /\ proposal[p].state \in {"Succeeded", "Executing"}
    /\ ~CallsTransactions(p)
    /\ \E k \in TransactionsOf(p) : k[2] \in proposal[p].winners
ExecutionEnds ==
    \A p \in Proposals :
        HasApprovedTransactions(p) ~> (p \in DOMAIN proposal /\ proposal[p].state = "Completed")
=============================================================================
