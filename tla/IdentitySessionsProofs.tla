----------------------- MODULE IdentitySessionsProofs -----------------------
(***************************************************************************)
(* Proofs about IdentitySessions, for any accounts, sessions, codes, keys  *)
(* and roles and any number of calls under way.                            *)
(***************************************************************************)
EXTENDS IdentitySessions, TLAPS

-----------------------------------------------------------------------------
(* The inductive invariant.  Versions only grow, so that a session, and a  *)
(* login that is about to make one, can only fall behind its account.      *)

\* A session that is not there has no token.
ChainHasSession == \A s \in Sessions : session[s] = NoSession => chain[s] = <<>>

\* An account that is not there yet is as new as it will be.
UnusedAccountIsNew ==
    \A u \in Users : account[u].status = "NONE" =>
        account[u].auth = 1 /\ account[u].role = 1 /\ ~account[u].credential

\* Nobody has versions an account does not have yet.
NotAhead(record) ==
    /\ record.auth <= account[record.user].auth
    /\ record.role <= account[record.user].role

VersionsBehind ==
    /\ \A s \in Sessions : session[s] # NoSession => NotAhead(session[s])
    /\ \A c \in Flows : At(c, "LOGIN", "SESSION") => NotAhead(flow[c])

IdentityInv ==
    /\ IdentityTypeOK
    /\ ChainHasSession
    /\ UnusedAccountIsNew
    /\ VersionsBehind
    /\ ChainIsOneLine
    /\ RevokedSessionHasNoToken

-----------------------------------------------------------------------------
(* What a step does to the accounts.                                       *)

\* An account keeps its status and versions, comes into being, or gets higher
\* versions; it becomes active under a higher one only.
Moves(old, new) ==
    \/ /\ new.status = old.status /\ new.credential = old.credential
       /\ new.auth = old.auth /\ new.role = old.role
    \/ old.status = "NONE" /\ new = NewAccount
    \/ /\ old.status # "NONE" /\ new.status # "NONE"
       /\ old.auth <= new.auth /\ old.role <= new.role
       /\ new.status = "ACTIVE" => old.status = "ACTIVE" \/ old.auth < new.auth

\* One account that moves, while the others stay, is typed as before.
LEMMA OneAccountMoves ==
    ASSUME IdentityTypeOK, NEW u \in Users, NEW a \in Accounts, Moves(account[u], a),
           account' = [account EXCEPT ![u] = a]
    PROVE  /\ account' \in [Users -> Accounts]
           /\ \A x \in Users : Moves(account[x], account'[x])
<1>1. account \in [Users -> Accounts]
  BY DEF IdentityTypeOK
<1>2. account' \in [Users -> Accounts]
  BY <1>1
<1>3. ASSUME NEW x \in Users PROVE Moves(account[x], account'[x])
  <2>1. CASE x = u
    BY <1>1, <2>1
  <2>2. CASE x # u
    BY <1>1, <2>2 DEF Moves
  <2> QED BY <2>1, <2>2
<1> QED BY <1>2, <1>3

\* An account under way to another state, field by field.
LEMMA AccountTyped ==
    ASSUME IdentityTypeOK, NEW u \in Users
    PROVE  /\ account[u] \in Accounts
           /\ account[u].auth \in 1 .. MaxAuth /\ account[u].role \in Nat \ {0}
           /\ account[u].failed \in 0 .. LockThreshold - 1
BY DEF IdentityTypeOK, Accounts

\* The call names a user.
LEMMA CallUser ==
    ASSUME IdentityTypeOK, NEW c \in Flows, ~Idle(c), flow[c].op \in {"LOGIN", "CHANGE"}
    PROVE  flow[c].user \in Users
BY DEF IdentityTypeOK, FlowRecords, Idle

\* A new account is one.
LEMMA NewAccountTyped == NewAccount \in Accounts
BY IdentityAssumption DEF NewAccount, Accounts, AccountStatuses

\* An activation moves the auth_version of its account.
LEMMA ActivateMoves ==
    ASSUME IdentityTypeOK, NEW x \in Codes, Activate(x)
    PROVE  /\ account' \in [Users -> Accounts]
           /\ \A v \in Users : Moves(account[v], account'[v])
<1> DEFINE u == code[x].user
           a == [account[u] EXCEPT !.status = "ACTIVE", !.credential = TRUE, !.auth = @ + 1]
<1>1. u \in Users
  BY DEF Activate, Redeemable, IdentityTypeOK, ActionTokens
<1>2. account[u] \in Accounts /\ account[u].auth < MaxAuth /\ account[u].status = "PENDING_ACTIVATION"
  BY <1>1, AccountTyped DEF Activate
<1>3. a \in Accounts
  <2>1. account[u].auth + 1 \in 1 .. MaxAuth
    BY <1>1, <1>2, AccountTyped, IdentityAssumption
  <2>2. "ACTIVE" \in AccountStatuses
    BY DEF AccountStatuses
  <2> HIDE DEF u
  <2> QED BY <1>2, <2>1, <2>2 DEF Accounts
<1>4. Moves(account[u], a)
  BY <1>1, <1>2, AccountTyped, IdentityAssumption DEF Accounts, AccountStatuses, Moves
<1>5. account' = [account EXCEPT ![u] = a]
  BY <1>1, <1>2 DEF Activate, IdentityTypeOK, Accounts
<1> QED BY <1>1, <1>3, <1>4, <1>5, OneAccountMoves

\* A provisioned account starts with the first versions.
LEMMA ProvisionMoves ==
    ASSUME IdentityTypeOK, NEW u \in Users, NEW x \in Codes, Provision(u, x)
    PROVE  /\ account' \in [Users -> Accounts]
           /\ \A v \in Users : Moves(account[v], account'[v])
<1>1. Moves(account[u], NewAccount) /\ account' = [account EXCEPT ![u] = NewAccount]
  BY DEF Provision, Moves
<1> QED BY <1>1, NewAccountTyped, OneAccountMoves

\* A replaced password moves the auth_version of its account.
LEMMA ReplaceMoves ==
    ASSUME IdentityTypeOK, NEW c \in Flows, NEW u \in Users, ReplacePassword(c, u),
           account[u].status # "NONE"
    PROVE  /\ account' \in [Users -> Accounts]
           /\ \A v \in Users : Moves(account[v], account'[v])
           /\ account'[u].auth > account[u].auth
<1> DEFINE a == [account[u] EXCEPT !.auth = @ + 1]
<1>1. account[u] \in Accounts /\ account[u].auth + 1 \in 1 .. MaxAuth
  BY AccountTyped, IdentityAssumption DEF ReplacePassword
<1>2. a \in Accounts
  BY <1>1 DEF Accounts
<1>3. Moves(account[u], a) /\ a.auth > account[u].auth
  BY <1>1 DEF Accounts, Moves
<1>4. account' = [account EXCEPT ![u] = a] /\ account'[u] = a
  BY DEF ReplacePassword, Replaced, IdentityTypeOK
<1> HIDE DEF a
<1> QED BY <1>2, <1>3, <1>4, OneAccountMoves

\* A role fact moves the role version of its account.
LEMMA RoleMoves ==
    ASSUME IdentityTypeOK, NEW c \in Flows, NEW u \in Users, NEW k \in ActionKeys, NEW r \in Roles,
           NEW grants \in BOOLEAN, RoleAction(c, u, k, r, grants)
    PROVE  /\ account' \in [Users -> Accounts]
           /\ \A v \in Users : Moves(account[v], account'[v])
           /\ account'[u].role > account[u].role
<1> DEFINE a == [account[u] EXCEPT !.role = @ + 1]
<1>1. account[u] \in Accounts /\ account[u].role + 1 \in Nat \ {0}
  BY AccountTyped
<1>2. a \in Accounts
  BY <1>1 DEF Accounts
<1>3. Moves(account[u], a) /\ a.role > account[u].role
  BY <1>1 DEF Accounts, Moves, RoleAction
<1>4. account' = [account EXCEPT ![u] = a] /\ account'[u] = a
  BY DEF RoleAction, IdentityTypeOK
<1> HIDE DEF a
<1> QED BY <1>2, <1>3, <1>4, OneAccountMoves

\* A new status moves the auth_version of its account.
LEMMA StatusMoves ==
    ASSUME IdentityTypeOK, NEW c \in Flows, NEW u \in Users, NEW k \in ActionKeys,
           NEW enable \in BOOLEAN, StatusAction(c, u, k, enable)
    PROVE  /\ account' \in [Users -> Accounts]
           /\ \A v \in Users : Moves(account[v], account'[v])
           /\ account'[u].auth > account[u].auth
<1> DEFINE status == IF enable THEN "ACTIVE" ELSE "DISABLED"
           a == [account[u] EXCEPT !.status = status, !.auth = @ + 1]
<1>1. account[u] \in Accounts /\ account[u].auth + 1 \in 1 .. MaxAuth
  BY AccountTyped, IdentityAssumption DEF StatusAction
<1>2. status \in AccountStatuses /\ status # "NONE"
  BY DEF AccountStatuses
<1>3. account' = [account EXCEPT ![u] = a] /\ account'[u] = a
  BY DEF StatusAction, WithStatus, IdentityTypeOK
<1>4. a \in Accounts
  <2> HIDE DEF status
  <2> QED BY <1>1, <1>2 DEF Accounts
<1>5. Moves(account[u], a) /\ a.auth > account[u].auth
  <2> HIDE DEF status
  <2> QED BY <1>1, <1>2 DEF Accounts, Moves, StatusAction
<1> HIDE DEF a
<1> QED BY <1>3, <1>4, <1>5, OneAccountMoves

\* A lock that is over moves no version.
LEMMA UnlockMoves ==
    ASSUME IdentityTypeOK, NEW u \in Users, Unlock(u)
    PROVE  /\ account' \in [Users -> Accounts]
           /\ \A v \in Users : Moves(account[v], account'[v])
<1> DEFINE a == [account[u] EXCEPT !.locked = FALSE]
<1>1. account[u] \in Accounts
  BY AccountTyped
<1>2. a \in Accounts /\ Moves(account[u], a)
  BY <1>1 DEF Accounts, Moves
<1>3. account' = [account EXCEPT ![u] = a]
  BY DEF Unlock, IdentityTypeOK
<1> HIDE DEF a
<1> QED BY <1>2, <1>3, OneAccountMoves

\* A failed login moves no version.
LEMMA LoginFailureMoves ==
    ASSUME IdentityTypeOK, NEW c \in Flows, LoginFailure(c)
    PROVE  /\ account' \in [Users -> Accounts]
           /\ \A v \in Users : Moves(account[v], account'[v])
<1> DEFINE u == flow[c].user
           failed == IF Locks(u) THEN 0 ELSE account[u].failed + 1
           a == [account[u] EXCEPT !.failed = failed, !.locked = Locks(u)]
<1>1. u \in Users
  BY CallUser DEF LoginFailure, At, Idle
<1>2. account[u] \in Accounts /\ account[u].failed \in 0 .. LockThreshold - 1
  BY <1>1, AccountTyped
<1>3. failed \in 0 .. LockThreshold - 1 /\ Locks(u) \in BOOLEAN
  BY <1>2, IdentityAssumption DEF Locks
<1>4. account' = [account EXCEPT ![u] = a]
  BY <1>1 DEF LoginFailure, IdentityTypeOK
<1>5. a \in Accounts /\ Moves(account[u], a)
  <2> HIDE DEF failed, u
  <2> QED BY <1>2, <1>3 DEF Accounts, Moves
<1> HIDE DEF a
<1> QED BY <1>1, <1>4, <1>5, OneAccountMoves

\* A completed login moves no version.
LEMMA LoginCompleteMoves ==
    ASSUME IdentityTypeOK, NEW c \in Flows, LoginComplete(c)
    PROVE  /\ account' \in [Users -> Accounts]
           /\ \A v \in Users : Moves(account[v], account'[v])
<1> DEFINE u == flow[c].user
           a == [account[u] EXCEPT !.failed = 0, !.locked = FALSE]
<1>1. u \in Users
  BY CallUser DEF LoginComplete, At, Idle
<1>2. account[u] \in Accounts
  BY <1>1, AccountTyped
<1>3. a \in Accounts /\ Moves(account[u], a)
  <2>1. 0 \in 0 .. LockThreshold - 1
    BY IdentityAssumption
  <2> HIDE DEF u
  <2> QED BY <1>2, <2>1 DEF Accounts, Moves
<1>4. CASE account[u].status = "ACTIVE"
  <2>1. account' = [account EXCEPT ![u] = a]
    BY <1>1, <1>4 DEF LoginComplete, IdentityTypeOK
  <2> HIDE DEF a
  <2> QED BY <1>1, <1>3, <2>1, OneAccountMoves
<1>5. CASE account[u].status # "ACTIVE"
  BY <1>5 DEF LoginComplete, Moves, IdentityTypeOK
<1> QED BY <1>4, <1>5

\* The accounts after any step.
LEMMA AccountMoves ==
    ASSUME IdentityInv, [IdentityNext]_identityVars
    PROVE  /\ account' \in [Users -> Accounts]
           /\ \A v \in Users : Moves(account[v], account'[v])
<1> USE DEF IdentityInv
<1>1. CASE account' = account
  BY <1>1 DEF Moves, IdentityTypeOK
<1>2. ASSUME NEW u \in Users, NEW x \in Codes, Provision(u, x) \/ IssueCode(u, x)
      PROVE  /\ account' \in [Users -> Accounts]
             /\ \A v \in Users : Moves(account[v], account'[v])
  BY <1>1, <1>2, ProvisionMoves DEF IssueCode
<1>3. ASSUME NEW x \in Codes, Activate(x) \/ ExpireCode(x)
      PROVE  /\ account' \in [Users -> Accounts]
             /\ \A v \in Users : Moves(account[v], account'[v])
  BY <1>1, <1>3, ActivateMoves DEF ExpireCode
<1>4. ASSUME NEW c \in Flows, NEW u \in Users, ReplacePassword(c, u)
      PROVE  /\ account' \in [Users -> Accounts]
             /\ \A v \in Users : Moves(account[v], account'[v])
  BY <1>4, ReplaceMoves DEF ReplacePassword, UnusedAccountIsNew
<1>5. ASSUME NEW c \in Flows, ChangeStep(c)
      PROVE  /\ account' \in [Users -> Accounts]
             /\ \A v \in Users : Moves(account[v], account'[v])
  <2>1. CASE \E x \in Codes : ResetPassword(c, x)
    BY <1>4, <2>1 DEF ResetPassword, Redeemable, IdentityTypeOK, ActionTokens
  <2>2. CASE \E u \in Users : ChangePassword(c, u)
    BY <1>4, <2>2 DEF ChangePassword
  <2>3. CASE \E u \in Users, k \in ActionKeys, enable \in BOOLEAN : StatusAction(c, u, k, enable)
    BY <2>3, StatusMoves
  <2>4. CASE \E u \in Users, k \in ActionKeys, r \in Roles, grants \in BOOLEAN :
               RoleAction(c, u, k, r, grants)
    BY <2>4, RoleMoves
  <2>5. CASE RevokeUserSessions(c)
    BY <1>1, <2>5 DEF RevokeUserSessions, accountVars
  <2> QED BY <1>5, <2>1, <2>2, <2>3, <2>4, <2>5 DEF ChangeStep
<1>6. ASSUME NEW c \in Flows, LoginStep(c)
      PROVE  /\ account' \in [Users -> Accounts]
             /\ \A v \in Users : Moves(account[v], account'[v])
  BY <1>1, <1>6, LoginFailureMoves, LoginCompleteMoves
     DEF LoginStep, LoginRead, LoginVerify, LoginSession, accountVars
<1>7. ASSUME NEW c \in Flows, RefreshStep(c) \/ FailCall(c)
      PROVE  account' = account
  BY <1>7 DEF RefreshStep, RefreshRead, RefreshSession, RefreshAccount, RefreshRotate,
              RefreshRevoke, FailCall, accountVars
<1>8. ASSUME NEW s \in Sessions, Logout(s) \/ ExpireSession(s)
      PROVE  account' = account
  BY <1>8 DEF Logout, ExpireSession, accountVars
<1>9. CASE UNCHANGED identityVars
  BY <1>1, <1>9 DEF identityVars, accountVars
<1> QED BY <1>1, <1>2, <1>3, UnlockMoves, <1>5, <1>6, <1>7, <1>8, <1>9 DEF IdentityNext, AccountStep

-----------------------------------------------------------------------------
(* What a step does to a session and its tokens.                           *)

Stays(s) == session'[s] = session[s] /\ chain'[s] = chain[s]

IsRevoked(s) ==
    /\ session[s] # NoSession
    /\ session'[s] = [session[s] EXCEPT !.revoked = TRUE]
    /\ chain'[s] = RevokedChain(s)

IsOver(s) ==
    /\ session[s] # NoSession /\ ~session[s].revoked
    /\ session'[s] = [session[s] EXCEPT !.expired = TRUE]
    /\ chain'[s] = chain[s]

IsRotated(s, i) ==
    /\ i \in 1 .. Len(chain[s])
    /\ StillLive(s, i)
    /\ Len(chain[s]) < MaxChain
    /\ session'[s] = session[s]
    /\ chain'[s] = Append([chain[s] EXCEPT ![i].consumed = TRUE], Token(i))

IsCreated(s, c) ==
    /\ session[s] = NoSession
    /\ At(c, "LOGIN", "SESSION")
    /\ session'[s] = [user |-> flow[c].user, auth |-> flow[c].auth, role |-> flow[c].role,
                      revoked |-> FALSE, expired |-> FALSE]
    /\ chain'[s] = <<Token(0)>>

OneSessionStep(s) ==
    \/ Stays(s) \/ IsRevoked(s) \/ IsOver(s)
    \/ \E i \in 1 .. Len(chain[s]) : IsRotated(s, i)
    \/ \E c \in Flows : IsCreated(s, c)

\* Revoke ends the sessions it is given, and leaves the others.
LEMMA RevokeStep ==
    ASSUME IdentityInv, NEW S, Revoke(S), NEW s \in Sessions
    PROVE  Stays(s) \/ IsRevoked(s)
<1>1. CASE s \in S /\ session[s] # NoSession
  BY <1>1 DEF Revoke, IsRevoked
<1>2. CASE s \notin S
  BY <1>2 DEF Revoke, Stays
<1>3. CASE s \in S /\ session[s] = NoSession
  <2>1. chain[s] = <<>>
    BY <1>3 DEF IdentityInv, ChainHasSession
  <2>2. RevokedChain(s) = <<>>
    BY <2>1 DEF RevokedChain
  <2> QED BY <1>3, <2>1, <2>2 DEF Revoke, Stays
<1> QED BY <1>1, <1>2, <1>3

\* A refresh under way names a session and one of its tokens.
LEMMA RefreshCall ==
    ASSUME IdentityTypeOK, NEW c \in Flows, NEW at, At(c, "REFRESH", at)
    PROVE  /\ flow[c].session \in Sessions
           /\ flow[c].token \in 1 .. Len(chain[flow[c].session])
<1>1. flow[c] \in FlowRecords /\ flow[c].op = "REFRESH" /\ ~Idle(c)
  BY DEF IdentityTypeOK, At, Idle
<1>2. flow[c].session \in Sessions /\ flow[c].token \in 1 .. MaxChain
  BY <1>1 DEF FlowRecords
<1>3. Len(chain[flow[c].session]) \in Nat
  BY <1>2 DEF IdentityTypeOK
<1> QED BY <1>1, <1>2, <1>3, IdentityAssumption DEF IdentityTypeOK

\* A rotation keeps the tokens of every session one line.
LEMMA RotateStep ==
    ASSUME IdentityTypeOK, NEW c \in Flows, RefreshRotate(c), NEW s \in Sessions
    PROVE  Stays(s) \/ \E i \in 1 .. Len(chain[s]) : IsRotated(s, i)
<1> DEFINE t == flow[c].session
           i == flow[c].token
<1>1. t \in Sessions /\ i \in 1 .. Len(chain[t])
  BY RefreshCall DEF RefreshRotate
<1>2. CASE UNCHANGED chain
  BY <1>2 DEF RefreshRotate, Stays
<1>3. CASE StillLive(t, i) /\ Len(chain[t]) < MaxChain /\ Rotate(t, i)
  <2>1. session' = session
    BY DEF RefreshRotate
  <2>2. chain' = [chain EXCEPT ![t] = Append([chain[t] EXCEPT ![i].consumed = TRUE], Token(i))]
    BY <1>3 DEF Rotate
  <2>3. CASE s # t
    BY <2>1, <2>2, <2>3 DEF Stays, IdentityTypeOK
  <2>4. CASE s = t
    <3>1. chain'[t] = Append([chain[t] EXCEPT ![i].consumed = TRUE], Token(i))
      BY <1>1, <2>2 DEF IdentityTypeOK
    <3>2. IsRotated(t, i)
      BY <1>1, <1>3, <2>1, <3>1 DEF IsRotated
    <3> QED BY <1>1, <2>4, <3>2
  <2> QED BY <2>3, <2>4
<1> QED BY <1>2, <1>3 DEF RefreshRotate

\* A new session starts a line of its own.
LEMMA LoginSessionStep ==
    ASSUME IdentityTypeOK, NEW c \in Flows, NEW t \in Sessions, LoginSession(c, t), NEW s \in Sessions
    PROVE  Stays(s) \/ IsCreated(s, c)
BY DEF LoginSession, IdentityTypeOK, Stays, IsCreated

\* A session after any step.
LEMMA SessionStep ==
    ASSUME IdentityInv, [IdentityNext]_identityVars, NEW s \in Sessions
    PROVE  OneSessionStep(s)
<1>1. CASE UNCHANGED sessionVars
  BY <1>1 DEF sessionVars, OneSessionStep, Stays
<1>2. CASE AccountStep
  BY <1>1, <1>2 DEF AccountStep, Provision, IssueCode, Activate, ExpireCode, Unlock
<1>3. ASSUME NEW c \in Flows, ChangeStep(c)
      PROVE  OneSessionStep(s)
  <2>1. CASE RevokeUserSessions(c)
    BY <2>1, RevokeStep DEF RevokeUserSessions, OneSessionStep
  <2>2. CASE ~RevokeUserSessions(c)
    BY <1>1, <1>3, <2>2
       DEF ChangeStep, ResetPassword, ChangePassword, ReplacePassword, StatusAction, RoleAction
  <2> QED BY <2>1, <2>2
<1>4. ASSUME NEW c \in Flows, LoginStep(c)
      PROVE  OneSessionStep(s)
  <2>1. CASE \E t \in Sessions : LoginSession(c, t)
    BY <2>1, LoginSessionStep DEF IdentityInv, OneSessionStep
  <2>2. CASE ~\E t \in Sessions : LoginSession(c, t)
    BY <1>1, <1>4, <2>2 DEF LoginStep, LoginRead, LoginFailure, LoginVerify, LoginComplete
  <2> QED BY <2>1, <2>2
<1>5. ASSUME NEW c \in Flows, RefreshStep(c)
      PROVE  OneSessionStep(s)
  <2>1. CASE RefreshRotate(c)
    BY <2>1, RotateStep DEF IdentityInv, OneSessionStep
  <2>2. CASE RefreshRevoke(c)
    BY <2>2, RevokeStep DEF RefreshRevoke, OneSessionStep
  <2>3. CASE ~RefreshRotate(c) /\ ~RefreshRevoke(c)
    BY <1>1, <1>5, <2>3 DEF RefreshStep, RefreshRead, RefreshSession, RefreshAccount
  <2> QED BY <2>1, <2>2, <2>3
<1>6. ASSUME NEW t \in Sessions, Logout(t)
      PROVE  OneSessionStep(s)
  BY <1>6, RevokeStep DEF Logout, OneSessionStep
<1>7. ASSUME NEW t \in Sessions, ExpireSession(t)
      PROVE  OneSessionStep(s)
  BY <1>7 DEF ExpireSession, OneSessionStep, IsOver, Stays, IdentityInv, IdentityTypeOK
<1>8. CASE \E c \in Flows : FailCall(c)
  BY <1>1, <1>8 DEF FailCall
<1>9. CASE UNCHANGED identityVars
  BY <1>1, <1>9 DEF identityVars, sessionVars
<1> QED BY <1>2, <1>3, <1>4, <1>5, <1>6, <1>7, <1>8, <1>9 DEF IdentityNext

\* Every step leaves both tables a row for each session.
LEMMA SessionTables ==
    ASSUME IdentityInv, [IdentityNext]_identityVars
    PROVE  /\ session' = [s \in Sessions |-> session'[s]]
           /\ chain' = [s \in Sessions |-> chain'[s]]
<1> DEFINE P == /\ session' = [s \in Sessions |-> session'[s]]
                /\ chain' = [s \in Sessions |-> chain'[s]]
<1>0. /\ session = [s \in Sessions |-> session[s]]
      /\ chain = [s \in Sessions |-> chain[s]]
  BY DEF IdentityInv, IdentityTypeOK
<1>1. CASE UNCHANGED sessionVars
  BY <1>0, <1>1 DEF sessionVars
<1>2. ASSUME NEW S, Revoke(S) PROVE P
  BY <1>2 DEF Revoke
<1>3. CASE AccountStep
  BY <1>1, <1>3 DEF AccountStep, Provision, IssueCode, Activate, ExpireCode, Unlock
<1>4. ASSUME NEW c \in Flows, ChangeStep(c) \/ FailCall(c)
      PROVE  P
  BY <1>1, <1>2, <1>4 DEF ChangeStep, ResetPassword, ChangePassword, ReplacePassword,
                          StatusAction, RoleAction, RevokeUserSessions, FailCall
<1>5. ASSUME NEW c \in Flows, LoginStep(c)
      PROVE  P
  BY <1>0, <1>1, <1>5 DEF LoginStep, LoginRead, LoginFailure, LoginVerify, LoginComplete, LoginSession
<1>6. ASSUME NEW c \in Flows, RefreshStep(c)
      PROVE  P
  BY <1>0, <1>1, <1>2, <1>6 DEF RefreshStep, RefreshRead, RefreshSession, RefreshAccount,
                                RefreshRotate, Rotate, RefreshRevoke
<1>7. ASSUME NEW s \in Sessions, Logout(s) \/ ExpireSession(s)
      PROVE  P
  BY <1>0, <1>2, <1>7 DEF Logout, ExpireSession
<1>8. CASE UNCHANGED identityVars
  BY <1>1, <1>8 DEF identityVars, sessionVars
<1> QED BY <1>3, <1>4, <1>5, <1>6, <1>7, <1>8 DEF IdentityNext

\* The versions of an account never go back.
LEMMA VersionsGrow ==
    ASSUME IdentityInv, [IdentityNext]_identityVars, NEW u \in Users
    PROVE  /\ account[u].auth <= account'[u].auth
           /\ account[u].role <= account'[u].role
<1>1. Moves(account[u], account'[u])
  BY AccountMoves
<1>2. account[u].auth \in Nat /\ account[u].role \in Nat
  BY AccountTyped, IdentityAssumption DEF IdentityInv
<1>3. account[u].status = "NONE" => account[u].auth = 1 /\ account[u].role = 1
  BY DEF IdentityInv, UnusedAccountIsNew
<1> QED BY <1>1, <1>2, <1>3 DEF Moves, NewAccount

\* Nobody who is behind gets ahead.
LEMMA StaysBehind ==
    ASSUME IdentityInv, [IdentityNext]_identityVars, NEW user \in Users, NEW auth \in Nat,
           NEW role \in Nat, auth <= account[user].auth, role <= account[user].role
    PROVE  auth <= account'[user].auth /\ role <= account'[user].role
<1>1. /\ account[user].auth <= account'[user].auth
      /\ account[user].role <= account'[user].role
  BY VersionsGrow
<1>2. account[user].auth \in Nat /\ account[user].role \in Nat
  BY AccountTyped, IdentityAssumption DEF IdentityInv
<1>3. account'[user].auth \in Nat /\ account'[user].role \in Nat
  BY AccountMoves, IdentityAssumption DEF Accounts
<1> QED BY <1>1, <1>2, <1>3

-----------------------------------------------------------------------------
(* A session stays typed, and its tokens stay one line.                    *)

\* The parts of the invariant about one session.
Line(tokens) ==
    \A i \in 1 .. Len(tokens) :
        tokens[i].parent = i - 1 /\ (tokens[i].consumed <=> i < Len(tokens))

SessionOK(s) ==
    /\ session[s] \in AccountSessions \cup {NoSession}
    /\ chain[s] \in Seq(Tokens)
    /\ session[s] = NoSession => chain[s] = <<>>
    /\ Line(chain[s])
    /\ (session[s] # NoSession /\ session[s].revoked) =>
         \A i \in 1 .. Len(chain[s]) : chain[s][i].revoked

\* The invariant, session by session.
LEMMA SessionsOK == IdentityInv => \A s \in Sessions : SessionOK(s)
BY DEF IdentityInv, IdentityTypeOK, ChainHasSession, ChainIsOneLine, RevokedSessionHasNoToken,
       SessionOK, Line

\* A revoked session is a line without a live token.
LEMMA RevokedChainOK ==
    ASSUME NEW s \in Sessions, chain[s] \in Seq(Tokens), Line(chain[s])
    PROVE  /\ RevokedChain(s) \in Seq(Tokens)
           /\ Len(RevokedChain(s)) = Len(chain[s])
           /\ Line(RevokedChain(s))
           /\ \A i \in 1 .. Len(chain[s]) : RevokedChain(s)[i].revoked
<1> DEFINE r == RevokedChain(s)
           n == Len(chain[s])
<1>1. n \in Nat /\ \A i \in 1 .. n : chain[s][i] \in Tokens
  OBVIOUS
<1>2. \A i \in 1 .. n : /\ r[i] = [chain[s][i] EXCEPT !.revoked = TRUE]
  BY DEF RevokedChain
<1>3. \A i \in 1 .. n : /\ r[i] \in Tokens
                        /\ r[i].parent = chain[s][i].parent
                        /\ r[i].consumed = chain[s][i].consumed
                        /\ r[i].revoked
  BY <1>1, <1>2 DEF Tokens
<1>4. r \in [1 .. n -> Tokens]
  BY <1>3 DEF RevokedChain
<1>5. r \in Seq(Tokens) /\ Len(r) = n
  BY <1>1, <1>4
<1>6. Line(r)
  BY <1>3, <1>5 DEF Line
<1> QED BY <1>3, <1>5, <1>6

\* A consumed token and its successor keep the line.
LEMMA RotatedOK ==
    ASSUME NEW tokens \in Seq(Tokens), Line(tokens), NEW i \in 1 .. Len(tokens),
           ~tokens[i].consumed, Len(tokens) < MaxChain,
           NEW next, next = Append([tokens EXCEPT ![i].consumed = TRUE], Token(i))
    PROVE  /\ next \in Seq(Tokens)
           /\ Len(next) = Len(tokens) + 1
           /\ Line(next)
<1> DEFINE n == Len(tokens)
           t == [tokens[i] EXCEPT !.consumed = TRUE]
           old == [tokens EXCEPT ![i] = t]
<1>1. n \in Nat /\ i = n
  BY DEF Line
<1>2. t \in Tokens /\ t.parent = tokens[i].parent /\ t.consumed
  <2>1. tokens[i] \in Tokens
    OBVIOUS
  <2> QED BY <2>1 DEF Tokens
<1>3. old \in Seq(Tokens) /\ Len(old) = n
  BY <1>2
<1>4. Token(i) \in Tokens /\ Token(i).parent = i /\ ~Token(i).consumed
  BY <1>1, IdentityAssumption DEF Token, Tokens
<1>5. next = Append(old, Token(i))
  BY DEF Line
<1>6. next \in Seq(Tokens) /\ Len(next) = n + 1
  BY <1>3, <1>4, <1>5
<1>7. \A j \in 1 .. n : next[j] = IF j = i THEN t ELSE tokens[j]
  BY <1>3, <1>5
<1>8. next[n + 1] = Token(i)
  BY <1>3, <1>5
<1>9. ASSUME NEW j \in 1 .. n + 1
      PROVE  next[j].parent = j - 1 /\ (next[j].consumed <=> j < n + 1)
  <2>1. CASE j = n + 1
    BY <1>1, <1>4, <1>8, <2>1
  <2>2. CASE j = n
    <3>1. next[j] = t
      BY <1>1, <1>7, <2>2
    <3> QED BY <1>1, <1>2, <2>2, <3>1 DEF Line
  <2>3. CASE j < n
    <3>1. j \in 1 .. n /\ next[j] = tokens[j]
      BY <1>1, <1>7, <2>3
    <3> QED BY <1>1, <2>3, <3>1 DEF Line
  <2> QED BY <1>1, <2>1, <2>2, <2>3
<1> QED BY <1>6, <1>9 DEF Line

\* The login that makes a session names an account and versions it has had.
LEMMA LoginCall ==
    ASSUME IdentityTypeOK, NEW c \in Flows, At(c, "LOGIN", "SESSION")
    PROVE  /\ flow[c].user \in Users
           /\ flow[c].auth \in 1 .. MaxAuth /\ flow[c].role \in Nat \ {0}
BY DEF IdentityTypeOK, At, FlowRecords

\* Every step keeps every session as the invariant wants it.
LEMMA SessionOKStep ==
    ASSUME IdentityInv, [IdentityNext]_identityVars, NEW s \in Sessions
    PROVE  SessionOK(s)' /\ Len(chain[s]) <= Len(chain'[s])
<1>1. SessionOK(s) /\ OneSessionStep(s)
  BY SessionsOK, SessionStep
<1>2. chain[s] \in Seq(Tokens) /\ Len(chain[s]) \in Nat
  BY <1>1 DEF SessionOK
<1>3. CASE Stays(s)
  BY <1>1, <1>2, <1>3 DEF SessionOK, Stays
<1>4. CASE IsRevoked(s)
  <2>1. session'[s] \in AccountSessions
    BY <1>1, <1>4 DEF IsRevoked, SessionOK, AccountSessions
  <2>2. session'[s] # NoSession
    BY <2>1, NoSessionAssumption
  <2>3. /\ chain'[s] \in Seq(Tokens) /\ Len(chain'[s]) = Len(chain[s])
        /\ Line(chain'[s])
        /\ \A i \in 1 .. Len(chain'[s]) : chain'[s][i].revoked
    BY <1>1, <1>4, RevokedChainOK DEF IsRevoked, SessionOK
  <2> QED BY <1>2, <2>1, <2>2, <2>3 DEF SessionOK
<1>5. CASE IsOver(s)
  <2>1. session'[s] \in AccountSessions /\ session'[s].revoked = session[s].revoked
    BY <1>1, <1>5 DEF IsOver, SessionOK, AccountSessions
  <2>2. session'[s] # NoSession
    BY <2>1, NoSessionAssumption
  <2> QED BY <1>1, <1>2, <1>5, <2>1, <2>2 DEF IsOver, SessionOK
<1>6. ASSUME NEW i \in 1 .. Len(chain[s]), IsRotated(s, i)
      PROVE  SessionOK(s)' /\ Len(chain[s]) <= Len(chain'[s])
  <2>1. /\ chain'[s] \in Seq(Tokens)
        /\ Len(chain'[s]) = Len(chain[s]) + 1
        /\ Line(chain'[s])
    BY <1>1, <1>6, RotatedOK DEF IsRotated, SessionOK, StillLive
  <2>2. session'[s] = session[s]
    BY <1>6 DEF IsRotated
  <2>3. session[s] # NoSession
    BY <1>1, <1>2 DEF SessionOK
  <2>4. ~session[s].revoked
    BY <1>1, <1>6, <2>3 DEF SessionOK, IsRotated, StillLive
  <2> QED BY <1>1, <1>2, <2>1, <2>2, <2>3, <2>4 DEF SessionOK
<1>7. ASSUME NEW c \in Flows, IsCreated(s, c)
      PROVE  SessionOK(s)' /\ Len(chain[s]) <= Len(chain'[s])
  <2>1. session'[s] \in AccountSessions /\ ~session'[s].revoked
    BY <1>7, LoginCall DEF IsCreated, AccountSessions, IdentityInv
  <2>2. session'[s] # NoSession
    BY <2>1, NoSessionAssumption
  <2>3. Token(0) \in Tokens /\ Token(0).parent = 0 /\ ~Token(0).consumed
    BY IdentityAssumption DEF Token, Tokens
  <2>4. chain'[s] = <<Token(0)>> /\ Len(chain[s]) = 0
    BY <1>1, <1>7 DEF IsCreated, SessionOK
  <2>5. chain'[s] \in Seq(Tokens) /\ Len(chain'[s]) = 1 /\ Line(chain'[s])
    BY <2>3, <2>4 DEF Line
  <2> QED BY <2>1, <2>2, <2>4, <2>5 DEF SessionOK
<1> QED BY <1>1, <1>3, <1>4, <1>5, <1>6, <1>7 DEF OneSessionStep

\* A session does not get ahead of its account.
LEMMA SessionBehindStep ==
    ASSUME IdentityInv, [IdentityNext]_identityVars, NEW s \in Sessions, session'[s] # NoSession
    PROVE  NotAhead(session[s])'
<1>1. OneSessionStep(s)
  BY SessionStep
<1>2. CASE session[s] # NoSession
  <2>1. session[s] \in AccountSessions /\ NotAhead(session[s])
    BY <1>2, SessionsOK DEF IdentityInv, SessionOK, VersionsBehind
  <2>2. /\ session'[s].user = session[s].user
        /\ session'[s].auth = session[s].auth
        /\ session'[s].role = session[s].role
    BY <1>1, <1>2, <2>1
       DEF OneSessionStep, Stays, IsRevoked, IsOver, IsRotated, IsCreated, AccountSessions
  <2> QED BY <2>1, <2>2, StaysBehind, IdentityAssumption DEF NotAhead, AccountSessions
<1>3. CASE session[s] = NoSession
  <2>1. PICK c \in Flows : IsCreated(s, c)
    BY <1>1, <1>3 DEF OneSessionStep, Stays, IsRevoked, IsOver, IsRotated
  <2>2. NotAhead(flow[c]) /\ At(c, "LOGIN", "SESSION")
    BY <2>1 DEF IsCreated, IdentityInv, VersionsBehind
  <2>3. flow[c].user \in Users /\ flow[c].auth \in Nat /\ flow[c].role \in Nat
    BY <2>2, LoginCall, IdentityAssumption DEF IdentityInv
  <2> QED BY <2>1, <2>2, <2>3, StaysBehind DEF NotAhead, IsCreated
<1> QED BY <1>2, <1>3

-----------------------------------------------------------------------------
(* The calls under way.                                                    *)

\* The parts of the invariant about one call.
CallOK(k) ==
    /\ k \in FlowRecords
    /\ k.op = "REFRESH" => k.token <= Len(chain[k.session])
    /\ (k.op = "LOGIN" /\ k.at = "SESSION") => NotAhead(k)

CallsOK == flow \in [Flows -> FlowRecords \cup {NoFlow}] /\ \A c \in Flows : ~Idle(c) => CallOK(flow[c])

\* The invariant, call by call.
LEMMA CallsOKNow == IdentityInv => CallsOK
BY DEF IdentityInv, IdentityTypeOK, VersionsBehind, CallsOK, CallOK, At, Idle

\* A call that is left alone stays what it is.
LEMMA CallKept ==
    ASSUME IdentityInv, [IdentityNext]_identityVars, NEW k, CallOK(k)
    PROVE  CallOK(k)'
<1>1. k \in FlowRecords
  BY DEF CallOK
<1>2. ASSUME k.op = "REFRESH" PROVE k.token <= Len(chain'[k.session])
  <2>1. k.session \in Sessions /\ k.token \in Nat
    BY <1>1, <1>2, IdentityAssumption DEF FlowRecords
  <2>2. Len(chain[k.session]) \in Nat /\ Len(chain'[k.session]) \in Nat
    BY <2>1, SessionsOK, SessionOKStep DEF SessionOK
  <2> QED BY <1>2, <2>1, <2>2, SessionOKStep DEF CallOK
<1>3. ASSUME k.op = "LOGIN", k.at = "SESSION" PROVE NotAhead(k)'
  <2>1. k.user \in Users /\ k.auth \in Nat /\ k.role \in Nat
    BY <1>1, <1>3, IdentityAssumption DEF FlowRecords
  <2> QED BY <1>3, <2>1, StaysBehind DEF CallOK, NotAhead
<1> QED BY <1>1, <1>2, <1>3 DEF CallOK

\* One call that goes on, while the others are left alone.
LEMMA OneCallMoves ==
    ASSUME IdentityInv, [IdentityNext]_identityVars, NEW c \in Flows,
           NEW k, flow' = [flow EXCEPT ![c] = k],
           k = NoFlow \/ CallOK(k)'
    PROVE  CallsOK'
<1>1. CallsOK
  BY CallsOKNow
<1>2. k \in FlowRecords \cup {NoFlow}
  BY DEF CallOK
<1>3. flow' \in [Flows -> FlowRecords \cup {NoFlow}]
  BY <1>1, <1>2 DEF CallsOK
<1>4. ASSUME NEW d \in Flows, flow'[d] # NoFlow PROVE CallOK(flow[d])'
  <2>1. CASE d = c
    BY <1>1, <1>4, <2>1 DEF CallsOK
  <2>2. CASE d # c
    <3>1. flow'[d] = flow[d]
      BY <1>1, <2>2 DEF CallsOK
    <3>2. CallOK(flow[d])
      BY <1>1, <1>4, <3>1 DEF CallsOK, Idle
    <3>3. CallOK(flow[d])'
      BY <3>1, <3>2, CallKept DEF CallOK, NotAhead
    <3> QED BY <3>3
  <2> QED BY <2>1, <2>2
<1> QED BY <1>3, <1>4 DEF CallsOK, Idle

\* A step without a call leaves what calls hold true.
LEMMA NoCallMoves ==
    ASSUME IdentityInv, [IdentityNext]_identityVars, UNCHANGED flow
    PROVE  CallsOK'
<1>1. CallsOK
  BY CallsOKNow
<1>2. ASSUME NEW d \in Flows, flow[d] # NoFlow PROVE CallOK(flow[d])'
  <2>1. CallOK(flow[d])
    BY <1>1, <1>2 DEF CallsOK, Idle
  <2> QED BY <2>1, CallKept DEF CallOK, NotAhead
<1> QED BY <1>1, <1>2 DEF CallsOK, Idle

\* A call that returns holds nothing any more.
LEMMA ReturnMoves ==
    ASSUME IdentityInv, [IdentityNext]_identityVars, NEW c \in Flows, CallReturns(c)
    PROVE  CallsOK'
BY OneCallMoves DEF CallReturns

\* The second transaction of a change revokes what there is.
LEMMA ThenRevokeMoves ==
    ASSUME IdentityInv, [IdentityNext]_identityVars, NEW c \in Flows, NEW u \in Users, ThenRevoke(c, u)
    PROVE  CallsOK'
<1>1. PICK k : k = [op |-> "CHANGE", at |-> "REVOKE", user |-> u]
  OBVIOUS
<1>2. CallOK(k)'
  BY <1>1 DEF CallOK, FlowRecords
<1> QED BY <1>1, <1>2, OneCallMoves DEF ThenRevoke

\* A refresh goes on with what it has read.
LEMMA RefreshMoves ==
    ASSUME IdentityInv, [IdentityNext]_identityVars, NEW c \in Flows, NEW from, At(c, "REFRESH", from),
           NEW at \in {"SESSION", "ACCOUNT", "ROTATE", "REVOKE"}, Goto(c, at)
    PROVE  CallsOK'
<1>1. PICK k : k = [flow[c] EXCEPT !.at = at]
  OBVIOUS
<1>2. PICK old : old = flow[c]
  OBVIOUS
<1>3. CallOK(old) /\ old.op = "REFRESH"
  BY <1>2, CallsOKNow DEF At, CallsOK, Idle
<1>4. CallOK(old)'
  BY <1>3, CallKept
<1>5. old \in [op : {"REFRESH"}, at : {"SESSION", "ACCOUNT", "ROTATE", "REVOKE"},
               session : Sessions, token : 1 .. MaxChain, consumed : BOOLEAN,
               revoked : BOOLEAN, over : BOOLEAN]
  BY <1>3 DEF CallOK, FlowRecords
<1>6. k = [old EXCEPT !.at = at]
  BY <1>1, <1>2
<1>7. k \in FlowRecords /\ k.op = "REFRESH" /\ k.token = old.token /\ k.session = old.session
  BY <1>5, <1>6 DEF FlowRecords
<1>8. CallOK(k)'
  BY <1>3, <1>4, <1>7 DEF CallOK
<1> QED BY <1>1, <1>8, OneCallMoves DEF Goto

\* A refresh holds what it has read.
LEMMA RefreshReadMoves ==
    ASSUME IdentityInv, [IdentityNext]_identityVars, NEW c \in Flows, NEW s \in Sessions,
           NEW i \in 1 .. MaxChain, RefreshRead(c, s, i)
    PROVE  CallsOK'
<1>1. PICK k : k = [op |-> "REFRESH", at |-> "SESSION", session |-> s, token |-> i,
                    consumed |-> chain[s][i].consumed, revoked |-> chain[s][i].revoked,
                    over |-> session[s].expired]
  OBVIOUS
<1>2. i \in 1 .. Len(chain[s]) /\ chain[s] \in Seq(Tokens) /\ session[s] \in AccountSessions \cup {NoSession}
  BY SessionsOK DEF RefreshRead, SessionOK
<1>3. session[s] \in AccountSessions
  BY <1>2, SessionsOK DEF SessionOK
<1>4. chain[s][i] \in Tokens
  BY <1>2
<1>5. k \in FlowRecords
  BY <1>1, <1>3, <1>4 DEF FlowRecords, Tokens, AccountSessions
<1>6. CallOK(k)
  BY <1>1, <1>2, <1>5 DEF CallOK
<1>7. CallOK(k)'
  BY <1>6, CallKept
<1> QED BY <1>1, <1>7, OneCallMoves DEF RefreshRead

\* A login holds the account it has checked.
LEMMA LoginMoves ==
    ASSUME IdentityInv, [IdentityNext]_identityVars, NEW c \in Flows, LoginStep(c)
    PROVE  CallsOK'
<1>1. ASSUME NEW u \in Users, LoginRead(c, u) PROVE CallsOK'
  <2>1. PICK k : k = [op |-> "LOGIN", at |-> "VERIFY", user |-> u, auth |-> 0, role |-> 0]
    OBVIOUS
  <2>2. CallOK(k)'
    BY <2>1 DEF CallOK, FlowRecords
  <2> QED BY <1>1, <2>1, <2>2, OneCallMoves DEF LoginRead
<1>2. CASE LoginFailure(c)
  BY <1>2, ReturnMoves DEF LoginFailure
<1>3. CASE LoginVerify(c)
  <2>1. PICK k : k = [flow[c] EXCEPT !.at = "COMPLETE"]
    OBVIOUS
  <2>2. flow[c] \in [op : {"LOGIN"}, at : {"VERIFY", "COMPLETE"}, user : Users, auth : {0}, role : {0}]
    BY <1>3, CallsOKNow DEF CallsOK, CallOK, LoginVerify, At, Idle, FlowRecords
  <2>3. k \in [op : {"LOGIN"}, at : {"VERIFY", "COMPLETE"}, user : Users, auth : {0}, role : {0}]
        /\ k.op = "LOGIN" /\ k.at = "COMPLETE"
    BY <2>1, <2>2
  <2>4. CallOK(k)'
    BY <2>3 DEF CallOK, FlowRecords
  <2> QED BY <1>3, <2>1, <2>4, OneCallMoves DEF LoginVerify, Goto
<1>4. CASE LoginComplete(c)
  <2> DEFINE u == flow[c].user
  <2>1. PICK k : k = [flow[c] EXCEPT !.at = "SESSION", !.auth = account[u].auth, !.role = account[u].role]
    OBVIOUS
  <2>2. flow[c] \in [op : {"LOGIN"}, at : {"VERIFY", "COMPLETE"}, user : Users, auth : {0}, role : {0}]
    BY <1>4, CallsOKNow DEF CallsOK, CallOK, LoginComplete, At, Idle, FlowRecords
  <2>3. u \in Users /\ account[u].auth \in 1 .. MaxAuth /\ account[u].role \in Nat \ {0}
    BY <2>2, AccountTyped DEF IdentityInv
  <2>4. /\ k \in [op : {"LOGIN"}, at : {"SESSION"}, user : Users, auth : 1 .. MaxAuth, role : Nat \ {0}]
        /\ k.user = u /\ k.auth = account[u].auth /\ k.role = account[u].role
        /\ k.op = "LOGIN"
    BY <2>1, <2>2, <2>3
  <2>5. CallOK(k)
    BY <2>3, <2>4, IdentityAssumption DEF CallOK, FlowRecords, NotAhead
  <2>6. CallOK(k)'
    BY <2>5, CallKept
  <2>7. flow' = [flow EXCEPT ![c] = k]
    BY <1>4, <2>1, CallsOKNow DEF LoginComplete, CallsOK
  <2> QED BY <2>6, <2>7, OneCallMoves
<1>5. CASE \E s \in Sessions : LoginSession(c, s)
  BY <1>5, ReturnMoves DEF LoginSession
<1> QED BY <1>1, <1>2, <1>3, <1>4, <1>5 DEF LoginStep

\* Every step keeps what calls hold.
LEMMA CallsStep ==
    ASSUME IdentityInv, [IdentityNext]_identityVars
    PROVE  CallsOK'
<1>1. CASE AccountStep
  BY <1>1, NoCallMoves DEF AccountStep, Provision, IssueCode, Activate, ExpireCode, Unlock
<1>2. ASSUME NEW c \in Flows, ChangeStep(c) PROVE CallsOK'
  <2>1. ASSUME NEW x \in Codes, ResetPassword(c, x) PROVE CallsOK'
    <3>1. code[x].user \in Users /\ ThenRevoke(c, code[x].user)
      BY <2>1 DEF ResetPassword, ReplacePassword, Redeemable, IdentityInv, IdentityTypeOK, ActionTokens
    <3> QED BY <3>1, ThenRevokeMoves
  <2>2. ASSUME NEW u \in Users, ThenRevoke(c, u) PROVE CallsOK'
    BY <2>2, ThenRevokeMoves
  <2>3. CASE RevokeUserSessions(c)
    BY <2>3, ReturnMoves DEF RevokeUserSessions
  <2> QED BY <1>2, <2>1, <2>2, <2>3
          DEF ChangeStep, ChangePassword, ReplacePassword, StatusAction, RoleAction
<1>3. ASSUME NEW c \in Flows, RefreshStep(c) PROVE CallsOK'
  <2>1. CASE RefreshSession(c)
    BY <2>1, ReturnMoves, RefreshMoves DEF RefreshSession
  <2>2. CASE RefreshAccount(c)
    BY <2>2, RefreshMoves DEF RefreshAccount
  <2>3. CASE RefreshRotate(c)
    BY <2>3, ReturnMoves, RefreshMoves DEF RefreshRotate
  <2>4. CASE RefreshRevoke(c)
    BY <2>4, ReturnMoves DEF RefreshRevoke
  <2> QED BY <1>3, <2>1, <2>2, <2>3, <2>4, RefreshReadMoves DEF RefreshStep
<1>4. CASE \E c \in Flows : FailCall(c)
  BY <1>4, ReturnMoves DEF FailCall
<1>5. CASE \E s \in Sessions : Logout(s) \/ ExpireSession(s)
  BY <1>5, NoCallMoves DEF Logout, ExpireSession
<1>6. CASE UNCHANGED identityVars
  BY <1>6, NoCallMoves DEF identityVars
<1> QED BY <1>1, <1>2, LoginMoves, <1>3, <1>4, <1>5, <1>6 DEF IdentityNext

-----------------------------------------------------------------------------
(* The invariant.                                                          *)

\* No account, no session, no call.
LEMMA IdentityInvInit == IdentityInit => IdentityInv
<1> SUFFICES ASSUME IdentityInit PROVE IdentityInv
  OBVIOUS
<1>1. [NewAccount EXCEPT !.status = "NONE"] \in Accounts
  BY NewAccountTyped DEF Accounts, AccountStatuses
<1>2. account \in [Users -> Accounts]
  BY <1>1 DEF IdentityInit
<1>3. IdentityTypeOK
  BY <1>2 DEF IdentityInit, IdentityTypeOK, Idle
<1>4. UnusedAccountIsNew
  BY DEF IdentityInit, UnusedAccountIsNew, NewAccount
<1>5. ChainIsOneLine /\ ChainHasSession
  BY DEF IdentityInit, ChainIsOneLine, ChainHasSession
<1>6. VersionsBehind /\ RevokedSessionHasNoToken
  BY DEF IdentityInit, VersionsBehind, RevokedSessionHasNoToken, At
<1> QED BY <1>3, <1>4, <1>5, <1>6 DEF IdentityInv

\* Roles, keys and codes.
LEMMA RestTyped ==
    ASSUME IdentityInv, [IdentityNext]_identityVars
    PROVE  /\ roles' \in [Users -> SUBSET Roles]
           /\ applied' \subseteq ActionKeys
           /\ code' \in [Codes -> ActionTokens \cup {NoCode}]
<1> USE DEF IdentityInv, IdentityTypeOK
<1> DEFINE C == code' \in [Codes -> ActionTokens \cup {NoCode}]
<1>a. ASSUME NEW x \in Codes, NEW u \in Users,
             NEW purpose \in {"ACTIVATE_ACCOUNT", "RESET_PASSWORD"}, FreshCode(x, u, purpose)
      PROVE  C
  BY <1>a DEF FreshCode, ActionTokens
<1>b. ASSUME NEW x \in Codes, Consume(x) PROVE C
  BY <1>b DEF Consume
<1>1. CASE AccountStep
  <2>1. ASSUME NEW u \in Users, NEW x \in Codes, Provision(u, x)
        PROVE  C /\ roles' \in [Users -> SUBSET Roles] /\ applied' = applied
    BY <1>a, <2>1, IdentityAssumption DEF Provision
  <2>2. ASSUME NEW u \in Users, NEW x \in Codes, IssueCode(u, x)
        PROVE  C /\ UNCHANGED <<roles, applied>>
    BY <1>a, <2>2 DEF IssueCode
  <2>3. ASSUME NEW x \in Codes, Activate(x) \/ ExpireCode(x)
        PROVE  C /\ UNCHANGED <<roles, applied>>
    BY <1>b, <2>3 DEF Activate, ExpireCode
  <2>4. ASSUME NEW u \in Users, Unlock(u) PROVE UNCHANGED <<roles, applied, code>>
    BY <2>4 DEF Unlock
  <2> QED BY <1>1, <2>1, <2>2, <2>3, <2>4 DEF AccountStep
<1>2. ASSUME NEW c \in Flows, ChangeStep(c)
      PROVE  /\ roles' \in [Users -> SUBSET Roles]
             /\ applied' \subseteq ActionKeys
             /\ C
  <2>1. ASSUME NEW x \in Codes, ResetPassword(c, x)
        PROVE  C /\ UNCHANGED <<roles, applied>>
    BY <1>b, <2>1 DEF ResetPassword, ReplacePassword
  <2>2. ASSUME NEW u \in Users, ChangePassword(c, u) PROVE UNCHANGED <<roles, applied, code>>
    BY <2>2 DEF ChangePassword, ReplacePassword
  <2>3. ASSUME NEW u \in Users, NEW k \in ActionKeys, NEW enable \in BOOLEAN, StatusAction(c, u, k, enable)
        PROVE  applied' \subseteq ActionKeys /\ UNCHANGED <<roles, code>>
    BY <2>3 DEF StatusAction
  <2>4. ASSUME NEW u \in Users, NEW k \in ActionKeys, NEW r \in Roles, NEW grants \in BOOLEAN,
               RoleAction(c, u, k, r, grants)
        PROVE  applied' \subseteq ActionKeys /\ roles' \in [Users -> SUBSET Roles] /\ UNCHANGED code
    BY <2>4 DEF RoleAction
  <2>5. CASE RevokeUserSessions(c)
    BY <2>5 DEF RevokeUserSessions, accountVars
  <2> QED BY <1>2, <2>1, <2>2, <2>3, <2>4, <2>5 DEF ChangeStep
<1>3. ASSUME NEW c \in Flows, LoginStep(c) \/ RefreshStep(c) \/ FailCall(c)
      PROVE  UNCHANGED <<roles, applied, code>>
  BY <1>3 DEF LoginStep, LoginRead, LoginFailure, LoginVerify, LoginComplete, LoginSession,
              RefreshStep, RefreshRead, RefreshSession, RefreshAccount, RefreshRotate,
              RefreshRevoke, FailCall, accountVars
<1>4. ASSUME NEW s \in Sessions, Logout(s) \/ ExpireSession(s)
      PROVE  UNCHANGED <<roles, applied, code>>
  BY <1>4 DEF Logout, ExpireSession, accountVars
<1>5. CASE UNCHANGED identityVars
  BY <1>5 DEF identityVars, accountVars
<1> QED BY <1>1, <1>2, <1>3, <1>4, <1>5 DEF IdentityNext

\* Every step keeps the parts together.
LEMMA IdentityInvStep == IdentityInv /\ [IdentityNext]_identityVars => IdentityInv'
<1> SUFFICES ASSUME IdentityInv, [IdentityNext]_identityVars PROVE IdentityInv'
  OBVIOUS
<1>1. \A s \in Sessions : SessionOK(s)'
  BY SessionOKStep
<1>2. /\ session' \in [Sessions -> AccountSessions \cup {NoSession}]
      /\ chain' \in [Sessions -> Seq(Tokens)]
  BY <1>1, SessionTables DEF SessionOK
<1>3. CallsOK'
  BY CallsStep
<1>4. IdentityTypeOK'
  BY <1>2, <1>3, AccountMoves, RestTyped DEF IdentityTypeOK, CallsOK, CallOK, Idle
<1>5. ChainHasSession' /\ RevokedSessionHasNoToken'
  BY <1>1 DEF SessionOK, ChainHasSession, RevokedSessionHasNoToken
<1>6. ChainIsOneLine'
  BY <1>1 DEF SessionOK, Line, ChainIsOneLine
<1>7. UnusedAccountIsNew'
  BY AccountMoves DEF Moves, NewAccount, IdentityInv, UnusedAccountIsNew
<1>8. VersionsBehind'
  BY <1>3, SessionBehindStep DEF VersionsBehind, CallsOK, CallOK, At, Idle
<1> QED BY <1>4, <1>5, <1>6, <1>7, <1>8 DEF IdentityInv

\* The inductive invariant holds in every reachable state.
THEOREM IdentityInvariant == IdentitySpec => []IdentityInv
BY IdentityInvInit, IdentityInvStep, PTL DEF IdentitySpec

-----------------------------------------------------------------------------
(* What it says.                                                           *)

\* Every variable has its type, whatever calls race.
THEOREM IdentityTypes == IdentitySpec => []IdentityTypeOK
<1>1. IdentityInv => IdentityTypeOK
  BY DEF IdentityInv
<1> QED BY <1>1, IdentityInvariant, PTL

\* However many refreshes race with one token, at most one replaces it.
THEOREM TokensAreOneLine == IdentitySpec => []ChainIsOneLine
<1>1. IdentityInv => ChainIsOneLine
  BY DEF IdentityInv
<1> QED BY <1>1, IdentityInvariant, PTL

\* A revocation leaves no token of its session good, and none comes later.
THEOREM RevocationIsComplete == IdentitySpec => []RevokedSessionHasNoToken
<1>1. IdentityInv => RevokedSessionHasNoToken
  BY DEF IdentityInv
<1> QED BY <1>1, IdentityInvariant, PTL

\* What is not usable has a reason that stays: it is revoked, over, or its
\* account has left its versions behind or is not active, and then becomes
\* active under another version only.
LEMMA EndedStep ==
    ASSUME IdentityInv, [IdentityNext]_identityVars, NEW s \in Sessions,
           session[s] # NoSession, ~Usable(s)
    PROVE  ~Usable(s)'
<1>1. session[s] \in AccountSessions /\ NotAhead(session[s])
  BY SessionsOK DEF SessionOK, IdentityInv, VersionsBehind
<1> DEFINE u == session[s].user
<1>2. u \in Users /\ session[s].auth \in Nat /\ session[s].role \in Nat
  BY <1>1, IdentityAssumption DEF AccountSessions
<1>3. /\ session'[s].user = u
      /\ session'[s].auth = session[s].auth
      /\ session'[s].role = session[s].role
      /\ session[s].revoked => session'[s].revoked
      /\ session[s].expired => session'[s].expired
  BY <1>1, SessionStep
     DEF OneSessionStep, Stays, IsRevoked, IsOver, IsRotated, IsCreated, AccountSessions
<1>4. Moves(account[u], account'[u])
  BY <1>2, AccountMoves
<1>5. /\ account[u].auth \in Nat /\ account[u].role \in Nat
      /\ account'[u].auth \in Nat /\ account'[u].role \in Nat
  BY <1>2, AccountTyped, AccountMoves, IdentityAssumption DEF Accounts, IdentityInv
<1>6. account[u].auth <= account'[u].auth /\ account[u].role <= account'[u].role
  BY <1>2, VersionsGrow
<1>7. session[s].auth <= account[u].auth /\ session[s].role <= account[u].role
  BY <1>1 DEF NotAhead
<1>8. CASE session[s].revoked \/ session[s].expired
  BY <1>3, <1>8 DEF Usable
<1>9. CASE account[u].auth # session[s].auth \/ account[u].role # session[s].role
  <2>1. account'[u].auth # session[s].auth \/ account'[u].role # session[s].role
    BY <1>2, <1>5, <1>6, <1>7, <1>9
  <2> QED BY <1>3, <2>1 DEF Usable
<1>10. CASE account[u].status # "ACTIVE"
  <2>1. account'[u].status = "ACTIVE" => account'[u].auth # session[s].auth
    BY <1>2, <1>4, <1>5, <1>7, <1>10 DEF Moves, NewAccount
  <2> QED BY <1>3, <2>1 DEF Usable
<1> QED BY <1>8, <1>9, <1>10 DEF Usable

\* A session that has ended stays ended.
THEOREM EndIsFinal == IdentitySpec => EndedSessionStaysEnded
<1>1. IdentityInv /\ [IdentityNext]_identityVars =>
        [\A s \in Sessions : (session[s] # NoSession /\ ~Usable(s)) => ~Usable(s)']_identityVars
  BY EndedStep
<1> QED BY <1>1, IdentityInvariant, PTL DEF IdentitySpec, EndedSessionStaysEnded

\* Who has just changed an account had no call before, and gave the account
\* another version.
Changes(c) ==
    /\ flow'[c].user \in Users
    /\ LET u == flow'[c].user
       IN  account'[u].auth > account[u].auth \/ account'[u].role > account[u].role

\* A call that comes to its revocation has moved a version of the account.
LEMMA ChangeStepMoves ==
    ASSUME IdentityInv, [IdentityNext]_identityVars, NEW c \in Flows,
           Idle(c), At(c, "CHANGE", "REVOKE")', NEW d \in Flows, ChangeStep(d)
    PROVE  Changes(c)
<1> USE DEF IdentityInv
<1>0. flow \in [Flows -> FlowRecords \cup {NoFlow}]
  BY DEF IdentityTypeOK
<1>1. ASSUME NEW u \in Users, ThenRevoke(d, u) PROVE flow'[c].user = u
  BY <1>0, <1>1 DEF ThenRevoke, At, Idle
<1>2. ASSUME NEW u \in Users, ReplacePassword(d, u) PROVE Changes(c)
  <2>1. account'[u].auth > account[u].auth
    BY <1>2, ReplaceMoves DEF ReplacePassword, UnusedAccountIsNew
  <2> QED BY <1>1, <1>2, <2>1 DEF ReplacePassword, Changes
<1>3. ASSUME NEW x \in Codes, ResetPassword(d, x) PROVE Changes(c)
  BY <1>2, <1>3 DEF ResetPassword, Redeemable, IdentityTypeOK, ActionTokens
<1>4. ASSUME NEW u \in Users, ChangePassword(d, u) PROVE Changes(c)
  BY <1>2, <1>4 DEF ChangePassword
<1>5. ASSUME NEW u \in Users, NEW k \in ActionKeys, NEW enable \in BOOLEAN, StatusAction(d, u, k, enable)
      PROVE  Changes(c)
  <2>1. account'[u].auth > account[u].auth /\ ThenRevoke(d, u)
    BY <1>5, StatusMoves DEF StatusAction
  <2> QED BY <1>1, <2>1 DEF Changes
<1>6. ASSUME NEW u \in Users, NEW k \in ActionKeys, NEW r \in Roles, NEW grants \in BOOLEAN,
             RoleAction(d, u, k, r, grants)
      PROVE  Changes(c)
  <2>1. account'[u].role > account[u].role /\ ThenRevoke(d, u)
    BY <1>6, RoleMoves DEF RoleAction
  <2> QED BY <1>1, <2>1 DEF Changes
<1>7. CASE RevokeUserSessions(d)
  BY <1>0, <1>7 DEF RevokeUserSessions, CallReturns, At, Idle
<1> QED BY <1>3, <1>4, <1>5, <1>6, <1>7 DEF ChangeStep

\* Only a change of an account brings a call to its revocation.
LEMMA OnlyChangesChange ==
    ASSUME IdentityInv, [IdentityNext]_identityVars, NEW c \in Flows,
           Idle(c), At(c, "CHANGE", "REVOKE")'
    PROVE  \E d \in Flows : ChangeStep(d)
<1>0. flow \in [Flows -> FlowRecords \cup {NoFlow}]
  BY DEF IdentityInv, IdentityTypeOK
<1>1. CASE UNCHANGED flow
  BY <1>1 DEF At, Idle
<1>2. CASE AccountStep
  BY <1>1, <1>2 DEF AccountStep, Provision, IssueCode, Activate, ExpireCode, Unlock
<1>3. ASSUME NEW d \in Flows, LoginStep(d) PROVE FALSE
  <2>1. CASE \E u \in Users : LoginRead(d, u)
    BY <1>0, <2>1 DEF LoginRead, At, Idle
  <2>2. CASE ~\E u \in Users : LoginRead(d, u)
    <3>1. d # c /\ flow'[c] = flow[c]
      BY <1>0, <1>3, <2>2
         DEF LoginStep, LoginFailure, LoginVerify, LoginComplete, LoginSession, CallReturns, Goto, At, Idle
    <3> QED BY <3>1 DEF At, Idle
  <2> QED BY <2>1, <2>2
<1>4. ASSUME NEW d \in Flows, RefreshStep(d) PROVE FALSE
  <2>1. CASE \E s \in Sessions, i \in 1 .. MaxChain : RefreshRead(d, s, i)
    BY <1>0, <2>1 DEF RefreshRead, At, Idle
  <2>2. CASE RefreshSession(d) \/ RefreshAccount(d) \/ RefreshRotate(d) \/ RefreshRevoke(d)
    <3>1. d # c /\ flow'[c] = flow[c]
      BY <1>0, <2>2
         DEF RefreshSession, RefreshAccount, RefreshRotate, RefreshRevoke, CallReturns, Goto, At, Idle
    <3> QED BY <3>1 DEF At, Idle
  <2> QED BY <1>4, <2>1, <2>2 DEF RefreshStep
<1>5. ASSUME NEW d \in Flows, FailCall(d) PROVE FALSE
  BY <1>0, <1>5 DEF FailCall, CallReturns, At, Idle
<1>6. ASSUME NEW s \in Sessions, Logout(s) \/ ExpireSession(s) PROVE FALSE
  BY <1>1, <1>6 DEF Logout, ExpireSession, At, Idle
<1>7. CASE UNCHANGED identityVars
  BY <1>1, <1>7 DEF identityVars, At, Idle
<1> QED BY <1>2, <1>3, <1>4, <1>5, <1>6, <1>7 DEF IdentityNext, AccountStep

\* The sessions of an account that has another version now are not usable.
LEMMA ChangeEnds ==
    ASSUME IdentityInv, [IdentityNext]_identityVars, NEW c \in Flows, NEW s \in Sessions,
           Idle(c), At(c, "CHANGE", "REVOKE")', s \in SessionsOf(flow'[c].user)
    PROVE  ~Usable(s)'
<1> DEFINE u == flow'[c].user
<1>1. Changes(c)
  BY OnlyChangesChange, ChangeStepMoves
<1>2. session[s] \in AccountSessions /\ session[s].user = u /\ NotAhead(session[s])
  BY SessionsOK DEF SessionsOf, SessionOK, IdentityInv, VersionsBehind
<1>3. /\ session'[s].user = u
      /\ session'[s].auth = session[s].auth
      /\ session'[s].role = session[s].role
  BY <1>2, SessionStep DEF SessionsOf, OneSessionStep, Stays, IsRevoked, IsOver, IsRotated, IsCreated, AccountSessions
<1>4. /\ account[u].auth \in Nat /\ account[u].role \in Nat
      /\ account'[u].auth \in Nat /\ account'[u].role \in Nat
      /\ session[s].auth \in Nat /\ session[s].role \in Nat
  BY <1>1, <1>2, AccountTyped, AccountMoves, IdentityAssumption DEF Changes, Accounts, AccountSessions, IdentityInv
<1>5. account'[u].auth # session'[s].auth \/ account'[u].role # session'[s].role
  BY <1>1, <1>2, <1>3, <1>4 DEF Changes, NotAhead
<1> QED BY <1>3, <1>5 DEF Usable

\* A change of an account ends its sessions with its own commit.
THEOREM ChangesEndSessions == IdentitySpec => ChangeEndsSessions
<1>1. IdentityInv /\ [IdentityNext]_identityVars =>
        [\A c \in Flows, s \in Sessions :
           (Idle(c) /\ At(c, "CHANGE", "REVOKE")' /\ s \in SessionsOf(flow'[c].user))
              => ~Usable(s)']_identityVars
  BY ChangeEnds
<1> QED BY <1>1, IdentityInvariant, PTL DEF IdentitySpec, ChangeEndsSessions
=============================================================================
