-------------------------------- MODULE Realms --------------------------------
(***************************************************************************)
(* Realms, the authority over each, the governances in them and the         *)
(* treasuries of those: who may create and hand over what.                  *)
(*                                                                         *)
(* A governance signs as its address when a proposal of its own executes;   *)
(* here it may at any time, once its account exists.  The mints and the     *)
(* voting settings of a realm are in Governance, plugins of voter weight    *)
(* are left out.                                                            *)
(***************************************************************************)
EXTENDS Integers, FiniteSets

CONSTANTS
    Names, Seeds,          \* of realms, and of the governances of a realm
    Keys, Member,          \* wallets, and the one whose tokens are deposited in every realm
    NoKey, NeverEnough,       \* u64::MAX as the weight to create a governance
    MinWeights, MAX_DEPOSIT,
    RecordKeys             \* the records there may be, by realm and mint

VARIABLES
    realms, governances, treasuries, records,
    lastSigner,            \* history: who signed the last step,
    unchecked              \* and the realms whose authority may not exist
realmVars == <<realms, governances, treasuries, records, lastSigner, unchecked>>

\* Address of a governance, which an authority may be set to before the account exists.
Address == Names \X Seeds
Signers == Keys \cup governances

RealmInit ==
    /\ realms = [r \in {} |-> 0] /\ governances = {} /\ treasuries = {}
    /\ records = [r \in {} |-> 0] /\ lastSigner = NoKey /\ unchecked = {}

\* The payer is anybody; the authority need not sign.
CreateRealm(r, authority, minWeight) ==
    /\ r \notin DOMAIN realms
    /\ realms' = [n \in DOMAIN realms \cup {r} |-> IF n # r THEN realms[n] ELSE
          [authority |-> authority, min_community_weight_to_create_governance |-> minWeight]]
    /\ unchecked' = IF authority \in Address THEN unchecked \cup {r} ELSE unchecked
    /\ UNCHANGED <<governances, treasuries, records>>

\* get_realm_data_for_authority: NoKey is nobody's.
IsAuthority(r, signer) == r \in DOMAIN realms /\ realms[r].authority # NoKey /\ realms[r].authority = signer

SetRealmAuthority(r, signer, action, new) ==
    /\ IsAuthority(r, signer)
    /\ \/ action = "SetChecked" /\ new \in governances /\ new[1] = r
       \/ action = "SetUnchecked" /\ new # NoKey
       \/ action = "Remove" /\ new = NoKey
    /\ realms' = [realms EXCEPT ![r].authority = new]
    /\ unchecked' = IF action = "SetUnchecked" THEN unchecked \cup {r} ELSE unchecked
    /\ UNCHANGED <<governances, treasuries, records>>

\* Records are kept by realm and mint.  The weight is the deposit.
Deposit(key, amount) ==
    /\ key[1] \in DOMAIN realms
    /\ records' = [k \in DOMAIN records \cup {key} |->
          IF k # key THEN records[k]
          ELSE [weight |-> amount, delegate |-> IF key \in DOMAIN records THEN records[key].delegate ELSE NoKey]]
    /\ UNCHANGED <<realms, governances, treasuries, unchecked>>

OwnerOrDelegate(record, signer) == signer = Member \/ (record.delegate # NoKey /\ signer = record.delegate)

SetGovernanceDelegate(key, signer, new) ==
    /\ key \in DOMAIN records /\ OwnerOrDelegate(records[key], signer)
    /\ records' = [records EXCEPT ![key].delegate = new]
    /\ UNCHANGED <<realms, governances, treasuries, unchecked>>

MinWeightToCreateGovernance(key) ==
    IF key[2] = "community" THEN realms[key[1]].min_community_weight_to_create_governance ELSE 1

CanCreateGovernance(r, key, signer) ==
    \/ IsAuthority(r, signer)
    \/ /\ key \in DOMAIN records /\ key[1] = r /\ OwnerOrDelegate(records[key], signer)
       /\ MinWeightToCreateGovernance(key) # NeverEnough
       /\ records[key].weight >= MinWeightToCreateGovernance(key)

CreateGovernance(r, seed, key, signer) ==
    /\ r \in DOMAIN realms /\ <<r, seed>> \notin governances
    /\ CanCreateGovernance(r, key, signer)
    /\ governances' = governances \cup {<<r, seed>>}
    /\ UNCHANGED <<realms, treasuries, records, unchecked>>

\* Anybody may pay for the treasury of a governance.
CreateNativeTreasury(g) ==
    /\ g \in governances \ treasuries
    /\ treasuries' = treasuries \cup {g}
    /\ UNCHANGED <<realms, governances, records, unchecked>>

\* What anybody may do, and what takes the signature of somebody with a say.
OpenStep ==
    \/ \E r \in Names, a \in Keys \cup Address, w \in MinWeights : CreateRealm(r, a, w)
    \/ \E key \in RecordKeys, amount \in 0..MAX_DEPOSIT : Deposit(key, amount)
    \/ \E g \in governances : CreateNativeTreasury(g)

SignedStep(signer) ==
    \/ \E r \in Names, action \in {"SetChecked", "SetUnchecked", "Remove"}, new \in Keys \cup Address \cup {NoKey} :
          SetRealmAuthority(r, signer, action, new)
    \/ \E r \in Names, seed \in Seeds, key \in RecordKeys : CreateGovernance(r, seed, key, signer)
    \/ \E key \in RecordKeys, new \in Keys \cup {NoKey} : SetGovernanceDelegate(key, signer, new)

RealmNext ==
    \/ OpenStep /\ lastSigner' = NoKey
    \/ \E signer \in Signers : SignedStep(signer) /\ lastSigner' = signer

-----------------------------------------------------------------------------
(* Properties *)

\* The authority over a realm changes only by its own signature and is given up for good;
\* nothing else about a realm changes, and governances and treasuries stay.
PassedOn ==
    /\ governances \subseteq governances' /\ treasuries \subseteq treasuries'
    /\ \A r \in DOMAIN realms :
          realms'[r] # realms[r] =>
             /\ realms[r].authority \in Signers /\ lastSigner' = realms[r].authority
             /\ realms'[r] = [realms[r] EXCEPT !.authority = realms'[r].authority]
AuthorityIsPassedOn == [][PassedOn]_realmVars

\* However often the authority over a realm is handed on with the check, it is nobody, a
\* wallet or a governance of this realm that exists: only the unchecked ways strand it
\* with an account that nobody can sign for, or with another realm's governance.
CheckedAuthorityActs ==
    \A r \in DOMAIN realms \ unchecked :
        \/ realms[r].authority \in Keys \cup {NoKey}
        \/ realms[r].authority \in governances /\ realms[r].authority[1] = r

\* Authority over realms (process_set_realm_authority, get_realm_data_for_authority).
RealmsSound == []CheckedAuthorityActs /\ AuthorityIsPassedOn
=============================================================================
