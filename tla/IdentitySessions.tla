-------------------------- MODULE IdentitySessions --------------------------
(***************************************************************************)
(* Local accounts, their login sessions and the chains of refresh tokens   *)
(* (identity/application.py over identity/adapters/mysql.py).              *)
(*                                                                         *)
(* A repository method is one transaction or one read and therefore one    *)
(* action; a service call is a sequence of them, and other calls come in   *)
(* between.  A call may end after any of its steps: the process dies, the  *)
(* database fails, or its transaction is a deadlock's victim.  Security    *)
(* events are written and never read, and are left out, except that a      *)
(* status event is the idempotency record of its action.                   *)
(***************************************************************************)
EXTENDS Integers, Sequences

CONSTANTS
    Users,          \* human accounts
    Sessions,       \* session_uuid values
    Codes,          \* action tokens: activation and reset codes
    ActionKeys,     \* idempotency keys, one for each role or status action asked for
    Roles,          \* roles an interactive account may have
    Flows,          \* service calls under way at the same time
    LockThreshold,  \* lock_threshold
    MaxAuth,        \* bound: auth_version
    MaxChain,       \* bound: refresh tokens of one session
    NoSession, NoCode, NoFlow

ASSUME IdentityAssumption ==
    /\ LockThreshold \in Nat \ {0}
    /\ MaxAuth \in Nat \ {0}
    /\ MaxChain \in Nat \ {0}
    /\ "user" \in Roles

VARIABLES
    account,    \* iam_user_account, with its password credential
    roles,      \* iam_effective_user_role_v
    applied,    \* the keys of role facts and status events
    code,       \* iam_action_token, as long as it may still be redeemed
    session,    \* iam_auth_session
    chain,      \* the refresh tokens of a session in the order they were issued
    flow        \* what a service call under way has read so far

accountVars == <<account, roles, applied, code>>
sessionVars == <<session, chain>>
identityVars == <<accountVars, sessionVars, flow>>

AccountStatuses == {"NONE", "PENDING_ACTIVATION", "ACTIVE", "DISABLED"}

NewAccount == [status |-> "PENDING_ACTIVATION", auth |-> 1, role |-> 1,
               credential |-> FALSE, failed |-> 0, locked |-> FALSE]

IdentityInit ==
    /\ account = [u \in Users |-> [NewAccount EXCEPT !.status = "NONE"]]
    /\ roles = [u \in Users |-> {}]
    /\ applied = {}
    /\ code = [x \in Codes |-> NoCode]
    /\ session = [s \in Sessions |-> NoSession]
    /\ chain = [s \in Sessions |-> <<>>]
    /\ flow = [c \in Flows |-> NoFlow]

-----------------------------------------------------------------------------
(* Sessions and tokens.                                                    *)

\* validate_principal: the account is active and still has the versions the
\* session was issued for, and the session is neither revoked nor over.
Usable(s) ==
    /\ session[s] # NoSession
    /\ ~session[s].revoked /\ ~session[s].expired
    /\ LET u == session[s].user
       IN  /\ account[u].status = "ACTIVE"
           /\ account[u].auth = session[s].auth
           /\ account[u].role = session[s].role

Token(parent) == [parent |-> parent, consumed |-> FALSE, revoked |-> FALSE]

RevokedChain(s) == [i \in 1 .. Len(chain[s]) |-> [chain[s][i] EXCEPT !.revoked = TRUE]]

\* _revoke_session and revoke_user_sessions: the sessions of S, and every
\* token that belongs to one of them.
Revoke(S) ==
    /\ session' = [s \in Sessions |->
                     IF s \in S /\ session[s] # NoSession
                     THEN [session[s] EXCEPT !.revoked = TRUE] ELSE session[s]]
    /\ chain' = [s \in Sessions |-> IF s \in S THEN RevokedChain(s) ELSE chain[s]]

SessionsOf(u) == {s \in Sessions : session[s] # NoSession /\ session[s].user = u}

-----------------------------------------------------------------------------
(* Calls.                                                                  *)

Idle(c) == flow[c] = NoFlow

At(c, op, at) == flow[c] # NoFlow /\ flow[c].op = op /\ flow[c].at = at

Goto(c, at) == flow' = [flow EXCEPT ![c].at = at]

CallReturns(c) == flow' = [flow EXCEPT ![c] = NoFlow]

\* The call raises, or its process dies, between two of its transactions.
FailCall(c) ==
    /\ ~Idle(c)
    /\ CallReturns(c)
    /\ UNCHANGED <<accountVars, sessionVars>>

-----------------------------------------------------------------------------
(* Accounts and codes.                                                     *)

FreshCode(x, u, purpose) ==
    /\ code[x] = NoCode
    /\ code' = [code EXCEPT ![x] =
                  [user |-> u, purpose |-> purpose]]

\* provision_reader; a repetition answers with the account there is.
Provision(u, x) ==
    /\ account[u].status = "NONE"
    /\ account' = [account EXCEPT ![u] = NewAccount]
    /\ roles' = [roles EXCEPT ![u] = {"user"}]
    /\ FreshCode(x, u, "ACTIVATE_ACCOUNT")
    /\ UNCHANGED <<applied, sessionVars, flow>>

\* issue_activation_code and issue_password_reset_code.  The account's status
\* was read in an earlier transaction, so it may be any by now.
IssueCode(u, x) ==
    /\ account[u].status # "NONE"
    /\ \E purpose \in {"ACTIVATE_ACCOUNT", "RESET_PASSWORD"} : FreshCode(x, u, purpose)
    /\ UNCHANGED <<account, roles, applied, sessionVars, flow>>

Redeemable(x, purpose) ==
    code[x] # NoCode /\ code[x].purpose = purpose

\* consumed_at is set.
Consume(x) == code' = [code EXCEPT ![x] = NoCode]

\* set_password_and_activate.
Activate(x) ==
    /\ Redeemable(x, "ACTIVATE_ACCOUNT")
    /\ LET u == code[x].user
       IN  /\ account[u].status = "PENDING_ACTIVATION"
           /\ account[u].auth < MaxAuth
           /\ account' = [account EXCEPT ![u].status = "ACTIVE", ![u].credential = TRUE,
                                         ![u].auth = @ + 1]
    /\ Consume(x)
    /\ UNCHANGED <<roles, applied, sessionVars, flow>>

\* Mutant: a password is replaced under the same auth_version.
ReplacedQuietly(u) == account[u]

Replaced(u) == [account[u] EXCEPT !.auth = @ + 1]

\* What changes an account goes on with revoke_user_sessions, in a
\* transaction of its own.
ThenRevoke(c, u) == flow' = [flow EXCEPT ![c] = [op |-> "CHANGE", at |-> "REVOKE", user |-> u]]

\* replace_password, for reset_password with a code and for change_password
\* without one.
ReplacePassword(c, u) ==
    /\ account[u].credential
    /\ account[u].auth < MaxAuth
    /\ account' = [account EXCEPT ![u] = Replaced(u)]
    /\ ThenRevoke(c, u)
    /\ UNCHANGED <<roles, applied, sessionVars>>

ResetPassword(c, x) ==
    /\ Idle(c)
    /\ Redeemable(x, "RESET_PASSWORD")
    /\ Consume(x)
    /\ ReplacePassword(c, code[x].user)

ChangePassword(c, u) ==
    /\ Idle(c)
    /\ ReplacePassword(c, u)
    /\ UNCHANGED code

\* append_role_fact.  A key that was used before is answered or refused, and
\* its call neither appends nor revokes anything.
RoleAction(c, u, k, r, grants) ==
    /\ Idle(c)
    /\ account[u].status # "NONE"
    /\ k \notin applied
    /\ applied' = applied \cup {k}
    /\ roles' = [roles EXCEPT ![u] = IF grants THEN @ \cup {r} ELSE @ \ {r}]
    /\ account' = [account EXCEPT ![u].role = @ + 1]
    /\ ThenRevoke(c, u)
    /\ UNCHANGED <<code, sessionVars>>

\* Mutant: only DISABLE changes the auth_version.
EnabledQuietly(u, enable) ==
    IF enable THEN [account[u] EXCEPT !.status = "ACTIVE"]
    ELSE [account[u] EXCEPT !.status = "DISABLED", !.auth = @ + 1]

WithStatus(u, enable) ==
    [account[u] EXCEPT !.status = IF enable THEN "ACTIVE" ELSE "DISABLED", !.auth = @ + 1]

\* set_account_status.
StatusAction(c, u, k, enable) ==
    /\ Idle(c)
    /\ account[u].status # "NONE"
    /\ k \notin applied
    /\ enable => account[u].status # "PENDING_ACTIVATION"
    /\ account[u].auth < MaxAuth
    /\ account' = [account EXCEPT ![u] = WithStatus(u, enable)]
    /\ applied' = applied \cup {k}
    /\ ThenRevoke(c, u)
    /\ UNCHANGED <<roles, code, sessionVars>>

RevokeUserSessions(c) ==
    /\ At(c, "CHANGE", "REVOKE")
    /\ Revoke(SessionsOf(flow[c].user))
    /\ CallReturns(c)
    /\ UNCHANGED accountVars

-----------------------------------------------------------------------------
(* login.                                                                  *)

\* The account is read, and its credential, which never goes away again.
LoginRead(c, u) ==
    /\ Idle(c)
    /\ account[u].status = "ACTIVE" /\ account[u].credential /\ ~account[u].locked
    /\ flow' = [flow EXCEPT ![c] = [op |-> "LOGIN", at |-> "VERIFY", user |-> u,
                                    auth |-> 0, role |-> 0]]
    /\ UNCHANGED <<accountVars, sessionVars>>

Locks(u) == account[u].failed + 1 >= LockThreshold

\* The password does not fit: update_login_failure.
LoginFailure(c) ==
    /\ At(c, "LOGIN", "VERIFY")
    /\ LET u == flow[c].user
       IN  account' = [account EXCEPT ![u].failed = IF Locks(u) THEN 0 ELSE @ + 1,
                                      ![u].locked = Locks(u)]
    /\ CallReturns(c)
    /\ UNCHANGED <<roles, applied, code, sessionVars>>

\* It fits, and the account has a role to log in with.
LoginVerify(c) ==
    /\ At(c, "LOGIN", "VERIFY")
    /\ roles[flow[c].user] # {}
    /\ Goto(c, "COMPLETE")
    /\ UNCHANGED <<accountVars, sessionVars>>

\* complete_login: an account that is no longer active is left alone and
\* answered all the same.
LoginComplete(c) ==
    /\ At(c, "LOGIN", "COMPLETE")
    /\ LET u == flow[c].user
       IN  /\ account' = IF account[u].status = "ACTIVE"
                         THEN [account EXCEPT ![u].failed = 0, ![u].locked = FALSE] ELSE account
           /\ flow' = [flow EXCEPT ![c].at = "SESSION", ![c].auth = account[u].auth,
                                   ![c].role = account[u].role]
    /\ UNCHANGED <<roles, applied, code, sessionVars>>

\* create_session, with its first refresh token.
LoginSession(c, s) ==
    /\ At(c, "LOGIN", "SESSION")
    /\ session[s] = NoSession
    /\ session' = [session EXCEPT ![s] =
                     [user |-> flow[c].user, auth |-> flow[c].auth, role |-> flow[c].role,
                      revoked |-> FALSE, expired |-> FALSE]]
    /\ chain' = [chain EXCEPT ![s] = <<Token(0)>>]
    /\ CallReturns(c)
    /\ UNCHANGED accountVars

-----------------------------------------------------------------------------
(* refresh and logout.                                                     *)

\* find_refresh.  The call compares every expiry with the time it began at.
RefreshRead(c, s, i) ==
    /\ Idle(c)
    /\ i \in 1 .. Len(chain[s])
    /\ flow' = [flow EXCEPT ![c] =
                  [op |-> "REFRESH", at |-> "SESSION", session |-> s, token |-> i,
                   consumed |-> chain[s][i].consumed, revoked |-> chain[s][i].revoked,
                   over |-> session[s].expired]]
    /\ UNCHANGED <<accountVars, sessionVars>>

\* get_session: a consumed token ends the session, and a dead one the call.
RefreshSession(c) ==
    /\ At(c, "REFRESH", "SESSION")
    /\ \/ flow[c].consumed /\ Goto(c, "REVOKE")
       \/ /\ ~flow[c].consumed
          /\ IF flow[c].revoked \/ flow[c].over \/ session[flow[c].session].revoked
             THEN CallReturns(c) ELSE Goto(c, "ACCOUNT")
    /\ UNCHANGED <<accountVars, sessionVars>>

\* get_account: a session of an earlier version is ended.
RefreshAccount(c) ==
    /\ At(c, "REFRESH", "ACCOUNT")
    /\ LET issued == session[flow[c].session]
           u == issued.user
       IN  IF /\ account[u].status = "ACTIVE"
              /\ account[u].auth = issued.auth
              /\ account[u].role = issued.role
           THEN Goto(c, "ROTATE") ELSE Goto(c, "REVOKE")
    /\ UNCHANGED <<accountVars, sessionVars>>

\* Mutants: the row is not locked and looked at again, or only its consumption.
WasLive(s, i) == TRUE
NotConsumed(s, i) == ~chain[s][i].consumed

\* rotate_refresh looks at the token FOR UPDATE.
StillLive(s, i) == ~chain[s][i].consumed /\ ~chain[s][i].revoked

\* Consume the token and issue its replacement.
Rotate(s, i) ==
    chain' = [chain EXCEPT ![s] = Append([@ EXCEPT ![i].consumed = TRUE], Token(i))]

RefreshRotate(c) ==
    /\ At(c, "REFRESH", "ROTATE")
    /\ LET s == flow[c].session
           i == flow[c].token
       IN  \/ StillLive(s, i) /\ Len(chain[s]) < MaxChain /\ Rotate(s, i) /\ CallReturns(c)
           \/ ~StillLive(s, i) /\ Goto(c, "REVOKE") /\ UNCHANGED chain
    /\ UNCHANGED <<accountVars, session>>

\* revoke_session, for TOKEN_REUSE or ACCOUNT_VERSION_CHANGED.
RefreshRevoke(c) ==
    /\ At(c, "REFRESH", "REVOKE")
    /\ Revoke({flow[c].session})
    /\ CallReturns(c)
    /\ UNCHANGED accountVars

\* logout, of a principal that was validated earlier.
Logout(s) ==
    /\ session[s] # NoSession
    /\ Revoke({s})
    /\ UNCHANGED <<accountVars, flow>>

-----------------------------------------------------------------------------
(* Time.                                                                   *)

\* absolute_expires_at passes; the tokens of the session have the same expiry.
\* (Of a revoked session it makes no difference any more.)
ExpireSession(s) ==
    /\ session[s] # NoSession /\ ~session[s].revoked
    /\ session' = [session EXCEPT ![s].expired = TRUE]
    /\ UNCHANGED <<accountVars, chain, flow>>

\* expires_at of a code passes.
ExpireCode(x) ==
    /\ code[x] # NoCode
    /\ Consume(x)
    /\ UNCHANGED <<account, roles, applied, sessionVars, flow>>

\* locked_until passes.
Unlock(u) ==
    /\ account[u].locked
    /\ account' = [account EXCEPT ![u].locked = FALSE]
    /\ UNCHANGED <<roles, applied, code, sessionVars, flow>>

AccountStep ==
    \/ \E u \in Users, x \in Codes : Provision(u, x) \/ IssueCode(u, x)
    \/ \E x \in Codes : Activate(x) \/ ExpireCode(x)
    \/ \E u \in Users : Unlock(u)

ChangeStep(c) ==
    \/ \E x \in Codes : ResetPassword(c, x)
    \/ \E u \in Users :
         \/ ChangePassword(c, u)
         \/ \E k \in ActionKeys, enable \in BOOLEAN : StatusAction(c, u, k, enable)
         \/ \E k \in ActionKeys, r \in Roles, grants \in BOOLEAN : RoleAction(c, u, k, r, grants)
    \/ RevokeUserSessions(c)

LoginStep(c) ==
    \/ \E u \in Users : LoginRead(c, u)
    \/ LoginFailure(c) \/ LoginVerify(c) \/ LoginComplete(c)
    \/ \E s \in Sessions : LoginSession(c, s)

RefreshStep(c) ==
    \/ \E s \in Sessions, i \in 1 .. MaxChain : RefreshRead(c, s, i)
    \/ RefreshSession(c) \/ RefreshAccount(c) \/ RefreshRotate(c) \/ RefreshRevoke(c)

IdentityNext ==
    \/ AccountStep
    \/ \E c \in Flows : ChangeStep(c) \/ LoginStep(c) \/ RefreshStep(c) \/ FailCall(c)
    \/ \E s \in Sessions : Logout(s) \/ ExpireSession(s)

IdentitySpec == IdentityInit /\ [][IdentityNext]_identityVars

-----------------------------------------------------------------------------
(* Safety.                                                                 *)

Accounts ==
    [status : AccountStatuses, auth : 1 .. MaxAuth, role : Nat \ {0}, credential : BOOLEAN,
     failed : 0 .. LockThreshold - 1, locked : BOOLEAN]

AccountSessions ==
    [user : Users, auth : 1 .. MaxAuth, role : Nat \ {0}, revoked : BOOLEAN, expired : BOOLEAN]

Tokens == [parent : 0 .. MaxChain, consumed : BOOLEAN, revoked : BOOLEAN]

ActionTokens == [user : Users, purpose : {"ACTIVATE_ACCOUNT", "RESET_PASSWORD"}]

ASSUME NoSessionAssumption == NoSession \notin AccountSessions

FlowRecords ==
    [op : {"LOGIN"}, at : {"VERIFY", "COMPLETE"}, user : Users, auth : {0}, role : {0}]
    \cup [op : {"LOGIN"}, at : {"SESSION"}, user : Users, auth : 1 .. MaxAuth,
          role : Nat \ {0}]
    \cup [op : {"CHANGE"}, at : {"REVOKE"}, user : Users]
    \cup [op : {"REFRESH"}, at : {"SESSION", "ACCOUNT", "ROTATE", "REVOKE"},
          session : Sessions, token : 1 .. MaxChain, consumed : BOOLEAN,
          revoked : BOOLEAN, over : BOOLEAN]

\* Every variable has its type; a refresh under way holds a token there is.
IdentityTypeOK ==
    /\ account \in [Users -> Accounts]
    /\ roles \in [Users -> SUBSET Roles]
    /\ applied \subseteq ActionKeys
    /\ code \in [Codes -> ActionTokens \cup {NoCode}]
    /\ session \in [Sessions -> AccountSessions \cup {NoSession}]
    /\ chain \in [Sessions -> Seq(Tokens)]
    /\ flow \in [Flows -> FlowRecords \cup {NoFlow}]
    /\ \A c \in Flows : (~Idle(c) /\ flow[c].op = "REFRESH") =>
         flow[c].token <= Len(chain[flow[c].session])

\* The refresh tokens of a session are one line: each replaces the one before
\* it, and all but the last are consumed.  Two refreshes with one token must
\* not both issue a replacement (rotate_refresh under its row lock).
ChainIsOneLine ==
    \A s \in Sessions : \A i \in 1 .. Len(chain[s]) :
        /\ chain[s][i].parent = i - 1
        /\ chain[s][i].consumed <=> i < Len(chain[s])

\* No token of a revoked session is good any more, although a rotation that
\* began before the revocation may commit after it (revoke_session,
\* revoke_user_sessions, rotate_refresh).
RevokedSessionHasNoToken ==
    \A s \in Sessions : (session[s] # NoSession /\ session[s].revoked) =>
        \A i \in 1 .. Len(chain[s]) : chain[s][i].revoked

\* A session that stopped being usable never is again, whatever order the
\* changes of an account, their revocations, logins and refreshes commit in,
\* and whichever of them are cut short: nothing gives an account back the
\* versions a session was issued for (validate_principal, set_account_status,
\* append_role_fact, replace_password).
EndedSessionStaysEnded ==
    [][\A s \in Sessions : (session[s] # NoSession /\ ~Usable(s)) => ~Usable(s)']_identityVars

\* A change of an account's password, roles or status leaves none of its
\* sessions usable from the moment it commits, before any of them is revoked
\* and also when the revocation never comes.
ChangeEndsSessions ==
    [][\A c \in Flows, s \in Sessions :
         (Idle(c) /\ At(c, "CHANGE", "REVOKE")' /\ s \in SessionsOf(flow'[c].user))
            => ~Usable(s)']_identityVars
=============================================================================
