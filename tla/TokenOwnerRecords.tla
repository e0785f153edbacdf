--------------------------- MODULE TokenOwnerRecords ---------------------------
(***************************************************************************)
(* The token owner records of a realm: deposits of governing tokens,       *)
(* their withdrawal and revocation, and the locks external authorities put *)
(* on a record.                                                            *)
(***************************************************************************)
EXTENDS GovernanceState

NewTokenOwnerRecord(amount) ==
    [deposit |-> amount, unrelinquished |-> 0, outstanding |-> 0, locks |-> {}]

\* Tokens of a mint that nobody has deposited.
Undeposited(mint) == supply[mint] - holding[mint]

-----------------------------------------------------------------------------
(* The SPL token program, outside of the governance program *)

MintTokens(mint, amount) ==
    /\ supply[mint] + amount <= MaxSupply[mint]
    /\ supply' = [supply EXCEPT ![mint] = @ + amount]
    /\ UNCHANGED <<now, realmVars, govVars, holding, tor, proposalVars>>

BurnTokens(mint, amount) ==
    /\ amount <= Undeposited(mint)
    /\ supply' = [supply EXCEPT ![mint] = @ - amount]
    /\ UNCHANGED <<now, realmVars, govVars, holding, tor, proposalVars>>

-----------------------------------------------------------------------------
(* Records and deposits *)

\* Anybody may create an empty record for any token owner.
CreateTokenOwnerRecord(m) ==
    /\ IsGoverningMint(MintOf[m])
    /\ m \notin DOMAIN tor
    /\ tor' = Created(tor, m, NewTokenOwnerRecord(0))
    /\ UNCHANGED <<now, realmVars, govVars, tokenVars, proposalVars>>

\* The source is a token account or, for a mint authority, the mint itself.
DepositGoverningTokens(m, amount, minted) ==
    LET mint == MintOf[m]
    IN  /\ IsGoverningMint(mint)
        /\ realm.tokenType[mint] # "Dormant"
        /\ IF minted THEN supply[mint] + amount <= MaxSupply[mint]
                     ELSE amount <= Undeposited(mint)
        /\ supply' = IF minted THEN [supply EXCEPT ![mint] = @ + amount] ELSE supply
        /\ holding' = [holding EXCEPT ![mint] = @ + amount]
        /\ tor' = IF m \in DOMAIN tor
                  THEN [tor EXCEPT ![m].deposit = @ + amount]
                  ELSE Created(tor, m, NewTokenOwnerRecord(amount))
        /\ UNCHANGED <<now, realmVars, govVars, proposalVars>>

IsExpired(lock) == lock.expiry # NoExpiry /\ now > lock.expiry

\* assert_can_withdraw_governing_tokens
CanWithdrawLocked(m) == tor[m].unrelinquished = 0 /\ tor[m].outstanding = 0
CanWithdraw(m) ==
    /\ tor[m].unrelinquished = 0
    /\ tor[m].outstanding = 0
    /\ \A lock \in tor[m].locks : IsExpired(lock)

\* The owner takes the whole deposit out.
WithdrawGoverningTokens(m) ==
    LET mint == MintOf[m]
    IN  /\ m \in DOMAIN tor
        /\ IsGoverningMint(mint)
        /\ realm.tokenType[mint] # "Membership"
        /\ CanWithdraw(m)
        /\ tor[m].deposit <= holding[mint]
        /\ holding' = [holding EXCEPT ![mint] = @ - tor[m].deposit]
        /\ tor' = [tor EXCEPT ![m].deposit = 0]
        /\ UNCHANGED <<now, realmVars, govVars, supply, proposalVars>>

\* A member, or the authority of a membership mint, burns deposited tokens:
\* votes and proposals of the record do not hold this back.
RevokeGoverningTokens(m, amount) ==
    LET mint == MintOf[m]
    IN  /\ m \in DOMAIN tor
        /\ IsGoverningMint(mint)
        /\ realm.tokenType[mint] = "Membership"
        /\ amount <= tor[m].deposit /\ amount <= holding[mint]
        /\ tor' = [tor EXCEPT ![m].deposit = @ - amount]
        /\ supply' = [supply EXCEPT ![mint] = @ - amount]
        /\ holding' = [holding EXCEPT ![mint] = @ - amount]
        /\ UNCHANGED <<now, realmVars, govVars, proposalVars>>

-----------------------------------------------------------------------------
(* Locks *)

UnexpiredLocks(m) == {lock \in tor[m].locks : ~IsExpired(lock)}
SameLockOfAnyAuthority(lock, authority, id) == lock.id = id
SameLock(lock, authority, id) == lock.authority = authority /\ lock.id = id

\* An authority adds its lock id, or replaces it; expired locks are trimmed.
SetTokenOwnerRecordLock(m, authority, id, expiry) ==
    LET new == [authority |-> authority, id |-> id, expiry |-> expiry]
    IN  /\ m \in DOMAIN tor
        /\ IsGoverningMint(MintOf[m])
        /\ ~IsExpired(new)
        /\ authority \in lockAuthorities[MintOf[m]]
        /\ tor' = [tor EXCEPT ![m].locks =
                      {lock \in UnexpiredLocks(m) : ~SameLock(lock, authority, id)} \cup {new}]
        /\ UNCHANGED <<now, realmVars, govVars, tokenVars, proposalVars>>

\* Locks of an authority are removed by id: the authority has to sign as long
\* as it is configured.  Without ids the call only trims the expired locks.
RelinquishTokenOwnerRecordLocks(m, authority, ids, signed) ==
    /\ m \in DOMAIN tor
    /\ ids # {} =>
        /\ IsGoverningMint(MintOf[m])
        /\ authority \in lockAuthorities[MintOf[m]] => signed
    /\ \A id \in ids : \E lock \in tor[m].locks : SameLock(lock, authority, id)
    /\ tor' = [tor EXCEPT ![m].locks =
                  {lock \in UnexpiredLocks(m) :
                       ~\E id \in ids : SameLock(lock, authority, id)}]
    /\ UNCHANGED <<now, realmVars, govVars, tokenVars, proposalVars>>
=============================================================================
