----------------------------- MODULE UserRegistry -----------------------------
(***************************************************************************)
(* The accounts of users: an authority's statistics, its numbered sub       *)
(* accounts, who referred whom, and the limit on the number of accounts     *)
(* with the fee that rises as it comes near.                                *)
(*                                                                         *)
(* Names, delegates and margin settings of an account are left out.  The    *)
(* age of an authority's statistics is counted from the time of its last    *)
(* volumes, which nothing in the code sets: it is never below thirteen days.*)
(***************************************************************************)
EXTENDS Integers, FiniteSets, FiniteSetsExt

CONSTANTS
    Authorities, NoReferrer,
    Maxima, MaxFees,         \* max_number_of_sub_accounts, and the fee at full utilization
    PERCENTAGE_PRECISION,
    PayerLamports,           \* what those who pay for accounts have
    MAX_CREATED              \* bound: the sub accounts an authority creates

VARIABLES userStats, users, userState
userVars == <<userStats, users, userState>>

UserInit ==
    /\ userStats = [a \in {} |-> 0] /\ users = [u \in {} |-> 0]
    /\ userState = [authorities |-> 0, subAccounts |-> 0, max |-> 0, maxFee |-> 0]

\* State::max_number_of_sub_accounts
MaxNumberOfSubAccounts == IF userState.max <= 5 THEN userState.max ELSE userState.max * 100

WithinMaximum(n) == MaxNumberOfSubAccounts = 0 \/ n <= MaxNumberOfSubAccounts

\* State::get_init_user_fee, with n sub accounts
InitUserFee(n) ==
    LET target      == (8 * PERCENTAGE_PRECISION) \div 10
        utilization == (n * PERCENTAGE_PRECISION)
                          \div (IF MaxNumberOfSubAccounts = 0 THEN 1 ELSE MaxNumberOfSubAccounts)
    IN  IF utilization <= target THEN 0
        ELSE (userState.maxFee * (utilization - target)) \div (PERCENTAGE_PRECISION - target)

-----------------------------------------------------------------------------
(* Handlers *)

InitializeUserStats(a) ==
    /\ a \notin DOMAIN userStats
    /\ WithinMaximum(userState.authorities + 1)
    /\ userStats' = [x \in DOMAIN userStats \cup {a} |->
          IF x = a THEN [number |-> 0, created |-> 0, isReferrer |-> FALSE, referrer |-> NoReferrer]
          ELSE userStats[x]]
    /\ userState' = [userState EXCEPT !.authorities = @ + 1]
    /\ UNCHANGED users

\* A referrer counts for the first sub account only, and is looked at for that one only.
Referred(a, referrer) ==
    LET counted == [userStats EXCEPT ![a].number = @ + 1, ![a].created = @ + 1]
    IN  IF userStats[a].created > 0 \/ referrer = NoReferrer THEN counted
        ELSE [counted EXCEPT ![a].referrer = referrer, ![referrer].isReferrer = TRUE]

InitializeUser(a, referrer) ==
    LET id  == userStats[a].created
        fee == InitUserFee(userState.subAccounts + 1)
    IN  /\ id < MAX_CREATED
        /\ <<a, id>> \notin DOMAIN users
        /\ id = 0 => referrer = NoReferrer \/ (referrer # a /\ <<referrer, 0>> \in DOMAIN users)
        /\ WithinMaximum(userState.subAccounts + 1)
        /\ fee <= PayerLamports
        /\ userStats' = Referred(a, referrer)
        /\ users' = [u \in DOMAIN users \cup {<<a, id>>} |->
                        IF u = <<a, id>> THEN [busy |-> FALSE, excess |-> fee] ELSE users[u]]
        /\ userState' = [userState EXCEPT !.subAccounts = @ + 1]

\* An account is busy while it has a position, an order or a liquidation.
DeleteUser(u) ==
    /\ ~(userStats[u[1]].isReferrer /\ u[2] = 0)
    /\ ~users[u].busy
    /\ users' = [x \in DOMAIN users \ {u} |-> users[x]]
    /\ userStats' = [userStats EXCEPT ![u[1]].number = @ - 1]
    /\ userState' = [userState EXCEPT !.subAccounts = @ - 1]

ReclaimRent(u) ==
    /\ users[u].excess > 0
    /\ users' = [users EXCEPT ![u].excess = 0]
    /\ UNCHANGED <<userStats, userState>>

UpdateMaxNumberOfSubAccounts(max) ==
    userState' = [userState EXCEPT !.max = max] /\ UNCHANGED <<userStats, users>>

UpdateMaxInitializeUserFee(fee) ==
    userState' = [userState EXCEPT !.maxFee = fee] /\ UNCHANGED <<userStats, users>>

\* Trading and liquidation make an account busy and free it again.
Trade(u) == users' = [users EXCEPT ![u].busy = ~@] /\ UNCHANGED <<userStats, userState>>

UserNext ==
    \/ \E a \in Authorities : InitializeUserStats(a)
    \/ \E a \in DOMAIN userStats, r \in DOMAIN userStats \cup {NoReferrer} : InitializeUser(a, r)
    \/ \E u \in DOMAIN users : DeleteUser(u) \/ ReclaimRent(u) \/ Trade(u)
    \/ \E m \in Maxima : UpdateMaxNumberOfSubAccounts(m)
    \/ \E f \in MaxFees : UpdateMaxInitializeUserFee(f)

-----------------------------------------------------------------------------
(* Properties *)

SubAccountsOf(a) == {u \in DOMAIN users : u[1] = a}

\* The counters agree with the accounts there are, and the next number is one that no account
\* of the authority has, whichever were deleted.
UsersCounted ==
    /\ userState.authorities = Cardinality(DOMAIN userStats)
    /\ userState.subAccounts = Cardinality(DOMAIN users)
    /\ \A u \in DOMAIN users : u[1] \in DOMAIN userStats
    /\ \A a \in DOMAIN userStats :
          /\ userStats[a].number = Cardinality(SubAccountsOf(a))
          /\ \A u \in SubAccountsOf(a) : u[2] < userStats[a].created

\* "Sub account 0 can not be deleted if user is a referrer": whoever was referred finds the
\* account of his referrer, and chains of referrers end.
Referrer(a) == userStats[a].referrer
Referees == {a \in DOMAIN userStats : Referrer(a) # NoReferrer}
ReferrersStay ==
    /\ \A a \in Referees : <<Referrer(a), 0>> \in DOMAIN users
    /\ \A circle \in (SUBSET Referees) \ {{}} : \E a \in circle : Referrer(a) \notin circle

\* Accounts, counters and referrals fit together.
UsersConsistent == UsersCounted /\ ReferrersStay
=============================================================================
