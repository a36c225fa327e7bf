------------------------------ MODULE Accounts ------------------------------
(***************************************************************************)
(* Users, sessions and the tokens that stand for them (backend/auth.go,    *)
(* the auth and user handlers of backend/handlers.go, the users and        *)
(* sessions tables of backend/db.go).                                      *)
(*                                                                         *)
(* As in IssueStore an action is one SQL statement or transaction with the *)
(* local code around it, every request runs concurrently with every other, *)
(* and a request refused before its first write is an action that is not   *)
(* enabled or returns to "idle".                                           *)
(*                                                                         *)
(* The clients are as free as they can be: any token that was ever handed  *)
(* out, and not forgotten, may be presented at any time, by several        *)
(* requests at once.  Lost, late and repeated answers are among the cases. *)
(***************************************************************************)
EXTENDS Integers

CONSTANTS
    Handlers,     \* requests in flight at a time
    Users,        \* ids of the users table
    FirstUser,    \* the user EnsureInitialAdmin creates
    Sessions,     \* ids (and session_tokens) of the sessions table
    Emails,
    Passwords,
    Roles,        \* the roles in play
    Secrets,      \* the random part of refresh tokens
    Ops,          \* the endpoints and events in play
    MaxKey,       \* bound: restarts with a new random secret key
    Free, Gone    \* an id not used yet, and the id of a deleted row

ASSUME AccountsAssumption ==
    /\ FirstUser \in Users
    /\ Free \notin Users /\ Gone \notin Users /\ Free # Gone
    /\ Emails # {} /\ Passwords # {}
    /\ {"user", "sysadmin"} \subseteq Roles /\ Roles \subseteq {"user", "admin", "sysadmin"}
    /\ MaxKey \in Nat

VARIABLES
    user,      \* users:    one row per id
    session,   \* sessions: one row per id; user Free / Gone = no row
    key,       \* the secret key of the running process
    tokens,    \* refresh tokens in the hands of clients
    access,    \* unexpired access tokens in the hands of clients
    req        \* the requests in flight

vars == <<user, session, key, tokens, access, req>>

\* roleRank
Rank(role) == CASE role = "user" -> 0 [] role = "admin" -> 1 [] role = "sysadmin" -> 2

\* A row of users; the name and the times are left out.
Rows == [state : {"free", "live", "gone"}, email : Emails, pwd : Passwords,
         role : Roles, active : BOOLEAN]

NoUser == [state |-> "free", email |-> CHOOSE e \in Emails : TRUE,
           pwd |-> CHOOSE p \in Passwords : TRUE, role |-> "user", active |-> FALSE]

NoSecret == "none"

\* A row of sessions.  token_hash is the MAC of a secret under a key.
SessionRows == [user : Users \cup {Free, Gone}, secret : Secrets \cup {NoSecret},
                key : 0 .. MaxKey, expired : BOOLEAN]

NoSession == [user |-> Free, secret |-> NoSecret, key |-> 0, expired |-> FALSE]

RefreshTokens == [sess : Sessions, secret : Secrets]
Claims == [user : Users, email : Emails, role : Roles]

\* by: the email claim of an administrator's token.  new: the row as read, or to be
\* written.  revoke: whether the sessions of uid are to be revoked after the write.
Requests == [op : {"none", "login", "refresh", "logout", "put", "self", "delete"},
             pc : {"idle", "createSession", "getUser", "rotate", "deleteSession",
                   "verify", "updateUser", "deleteUser", "revoke"},
             uid : Users, by : Emails, new : Rows, revoke : BOOLEAN,
             sess : Sessions \cup {Free}, secret : Secrets \cup {NoSecret}]

Idle == [op |-> "none", pc |-> "idle", uid |-> FirstUser,
         by |-> CHOOSE e \in Emails : TRUE, new |-> NoUser, revoke |-> FALSE,
         sess |-> Free, secret |-> NoSecret]

TypeOK ==
    /\ user \in [Users -> Rows]
    /\ session \in [Sessions -> SessionRows]
    /\ key \in 0 .. MaxKey
    /\ tokens \subseteq RefreshTokens
    /\ access \subseteq Claims
    /\ req \in [Handlers -> Requests]

-----------------------------------------------------------------------------
Exists(u) == user[u].state = "live"
HasEmail(u, e) == Exists(u) /\ user[u].email = e

\* UNIQUE on users.email
EmailTaken(u, e) == \E v \in Users \ {u} : HasEmail(v, e)

IsActiveSysAdmin(row) == row.state = "live" /\ row.role = "sysadmin" /\ row.active

\* Mutant: the count is not part of the condition's scope: nobody is ever the last.
NeverLast(u) == FALSE

\* lastActiveSysAdminCond: an active sysadmin, and COUNT(*) of those is 1.
LastActiveSysAdmin(u) ==
    /\ IsActiveSysAdmin(user[u])
    /\ \A v \in Users \ {u} : ~IsActiveSysAdmin(user[v])

\* Mutant: deactivation is forgotten.
RemovesRole(row) == row.role # "sysadmin"

\* UpdateUser: removesSysAdmin
RemovesSysAdmin(row) == row.role # "sysadmin" \/ ~row.active

HasSession(s) == session[s].user \in Users

\* Mutant: a key without AUTOINCREMENT, which SQLite may hand out again.
ReusedSession(s) == session[s].user \notin Users

\* sessions.id INTEGER PRIMARY KEY AUTOINCREMENT
NewSession(s) == session[s].user = Free

\* Mutant: the row is written whether it is there or not.
AlwaysUpdated(s) == TRUE

\* checkRowsAffected, for UPDATE sessions ... WHERE id = ?
SessionUpdated(s) == HasSession(s)

\* Mutant: sessions without ON DELETE CASCADE.
NoCascade(us) == session

\* The sessions table without the sessions of us, or without ss.
WithoutSessionsOf(us) ==
    [s \in Sessions |-> IF session[s].user \in us THEN [NoSession EXCEPT !.user = Gone]
                                                  ELSE session[s]]
WithoutSessions(ss) ==
    [s \in Sessions |-> IF s \in ss /\ HasSession(s) THEN [NoSession EXCEPT !.user = Gone]
                                                     ELSE session[s]]

\* ON DELETE CASCADE of sessions.user_id
Cascade(us) == WithoutSessionsOf(us)

\* Mutant: a user is marked as deleted in a way the other statements do not know.
MarkedDeleted == [NoUser EXCEPT !.state = "deleted"]

\* A row of users that was deleted.
DeletedUser == [NoUser EXCEPT !.state = "gone"]

\* 256 random bits: nobody has seen them before.
Unused(x) ==
    /\ \A s \in Sessions : session[s].secret # x
    /\ \A t \in tokens : t.secret # x
    /\ \A h \in Handlers : req[h].secret # x

At(h, step) == req[h].pc = step
May(h, op) == At(h, "idle") /\ op \in Ops
Goto(h, step) == req' = [req EXCEPT ![h].pc = step]
Finish(h) == req' = [req EXCEPT ![h] = Idle]
Start(h, r) == req' = [req EXCEPT ![h] = r]

\* SetAuthCookies: both tokens reach the client.  GenerateAccessToken signs the row
\* as it was read.
HandOut(s, x, u, row) ==
    /\ tokens' = tokens \cup {[sess |-> s, secret |-> x]}
    /\ access' = access \cup {[user |-> u, email |-> row.email, role |-> row.role]}

-----------------------------------------------------------------------------
(* Login, refresh, logout.                                                 *)

\* HandleLogin: the row is read by email; it must be active and the password match.
Login(h, u) ==
    /\ May(h, "login")
    /\ Exists(u) /\ user[u].active
    /\ Start(h, [Idle EXCEPT !.op = "login", !.pc = "createSession",
                             !.uid = u, !.new = user[u]])
    /\ UNCHANGED <<user, session, key, tokens, access>>

\* CreateUserSession: INSERT INTO sessions; its foreign key wants the user to exist.
CreateSession(h) ==
    LET u == req[h].uid IN
    /\ At(h, "createSession")
    /\ IF Exists(u)
       THEN \E s \in Sessions, x \in Secrets :
              /\ NewSession(s) /\ Unused(x)
              /\ session' = [session EXCEPT ![s] =
                   [user |-> u, secret |-> x, key |-> key, expired |-> FALSE]]
              /\ HandOut(s, x, u, req[h].new)
       ELSE UNCHANGED <<session, tokens, access>>
    /\ Finish(h)
    /\ UNCHANGED <<user, key>>

\* RefreshSession, GetSessionByToken: an expired session is deleted, a secret that is
\* not the one stored (or is stored under another key) revokes all the user's sessions.
Refresh(h, t) ==
    LET row == session[t.sess] IN
    /\ May(h, "refresh")
    /\ HasSession(t.sess)
    /\ Start(h, [Idle EXCEPT
           !.op = "refresh", !.uid = row.user, !.sess = t.sess, !.secret = t.secret,
           !.pc = IF row.expired THEN "deleteSession"
                  ELSE IF <<row.secret, row.key>> # <<t.secret, key>> THEN "revoke"
                  ELSE "getUser"])
    /\ UNCHANGED <<user, session, key, tokens, access>>

\* Mutant: an inactive user is as good as an active one.
MayRefreshAlways(row) == row.state = "live"

\* RefreshSession: user == nil || !user.Active
MayRefresh(row) == row.state = "live" /\ row.active

\* RefreshSession, GetUserByID.
GetUser(h) ==
    LET row == user[req[h].uid] IN
    /\ At(h, "getUser")
    /\ req' = [req EXCEPT ![h].pc = IF MayRefresh(row) THEN "rotate" ELSE "deleteSession",
                          ![h].new = row]
    /\ UNCHANGED <<user, session, key, tokens, access>>

\* RefreshSession, UpdateSession: UPDATE ... WHERE id = ?, whatever hash it has by now.
Rotate(h) ==
    LET s == req[h].sess IN
    /\ At(h, "rotate")
    /\ IF SessionUpdated(s)
       THEN \E x \in Secrets :
              /\ Unused(x)
              /\ session' = [session EXCEPT ![s].secret = x, ![s].key = key,
                                            ![s].expired = FALSE]
              /\ HandOut(s, x, req[h].uid, req[h].new)
       ELSE UNCHANGED <<session, tokens, access>>
    /\ Finish(h)
    /\ UNCHANGED <<user, key>>

\* HandleLogout, revokeSessionFromCookie: the secret is not looked at.
Logout(h, t) ==
    /\ May(h, "logout")
    /\ HasSession(t.sess)
    /\ Start(h, [Idle EXCEPT !.op = "logout", !.pc = "deleteSession", !.sess = t.sess])
    /\ UNCHANGED <<user, session, key, tokens, access>>

\* DeleteSession
DeleteSession(h) ==
    /\ At(h, "deleteSession")
    /\ session' = WithoutSessions({req[h].sess})
    /\ Finish(h)
    /\ UNCHANGED <<user, key, tokens, access>>

\* RevokeUserSessions: DELETE FROM sessions WHERE user_id = ?
RevokeUserSessions(h) ==
    /\ At(h, "revoke")
    /\ session' = WithoutSessionsOf({req[h].uid})
    /\ Finish(h)
    /\ UNCHANGED <<user, key, tokens, access>>

-----------------------------------------------------------------------------
(* Users.                                                                  *)

IsSysAdmin(t) == t.role = "sysadmin"

\* handleCreateUser
CreateUser(t, u, row) ==
    /\ "create" \in Ops /\ IsSysAdmin(t)
    /\ user[u].state = "free"
    /\ ~EmailTaken(u, row.email)
    /\ user' = [user EXCEPT ![u] = row]
    /\ UNCHANGED <<session, key, tokens, access, req>>

\* validateAndPrepareUserUpdate, for the row read and the row asked for: which
\* changes end the sessions, and which ask for the administrator's password.
RevokesSessions(old, new, newPassword) ==
    ~new.active \/ newPassword \/ old.role # new.role \/ old.email # new.email
NeedsAdminPassword(old, new, newPassword) ==
    \/ newPassword \/ old.email # new.email
    \/ Rank(new.role) > Rank(old.role) \/ old.active # new.active

\* handleUpdateUser: the row is read, the body laid over it.
UpdateUser(h, t, u, email, role, active, pwd, newPassword) ==
    LET old == user[u]
        new == [old EXCEPT !.email = email, !.role = role, !.active = active,
                           !.pwd = IF newPassword THEN pwd ELSE @]
    IN
    /\ May(h, "put") /\ IsSysAdmin(t)
    /\ Exists(u)
    /\ Start(h, [Idle EXCEPT
           !.op = "put", !.uid = u, !.by = t.email, !.new = new,
           !.revoke = RevokesSessions(old, new, newPassword),
           !.pc = IF NeedsAdminPassword(old, new, newPassword) THEN "verify" ELSE "updateUser"])
    /\ UNCHANGED <<user, session, key, tokens, access>>

\* handleUpdateSelf: the row read is the row to write, role and active included.
UpdateSelf(h, t, pwd, newPassword) ==
    LET u == t.user IN
    /\ May(h, "self")
    /\ Exists(u)
    /\ Start(h, [Idle EXCEPT
           !.op = "self", !.pc = "updateUser", !.uid = u, !.revoke = newPassword,
           !.new = [user[u] EXCEPT !.pwd = IF newPassword THEN pwd ELSE @]])
    /\ UNCHANGED <<user, session, key, tokens, access>>

\* handleDeleteUser: nobody deletes himself.
DeleteUser(h, t, u) ==
    /\ May(h, "delete") /\ IsSysAdmin(t)
    /\ u # t.user
    /\ Start(h, [Idle EXCEPT !.op = "delete", !.pc = "verify", !.uid = u, !.by = t.email])
    /\ UNCHANGED <<user, session, key, tokens, access>>

\* verifyAdminPassword: whoever has the email of the claim now, whatever his role.
\* That the password is wrong is the failure of the statement (Abort).
VerifyAdmin(h) ==
    /\ At(h, "verify")
    /\ IF \E v \in Users : HasEmail(v, req[h].by)
       THEN Goto(h, IF req[h].op = "put" THEN "updateUser" ELSE "deleteUser")
       ELSE Finish(h)
    /\ UNCHANGED <<user, session, key, tokens, access>>

\* UpdateUser: UPDATE users SET <every column> WHERE id = ? AND NOT (...).
UpdateUserRow(h) ==
    LET u == req[h].uid
        new == req[h].new
    IN
    /\ At(h, "updateUser")
    /\ IF /\ Exists(u)
          /\ ~EmailTaken(u, new.email)
          /\ ~(RemovesSysAdmin(new) /\ LastActiveSysAdmin(u))
       THEN /\ user' = [user EXCEPT ![u] = new]
            /\ IF req[h].revoke THEN Goto(h, "revoke") ELSE Finish(h)
       ELSE Finish(h) /\ UNCHANGED user
    /\ UNCHANGED <<session, key, tokens, access>>

\* DeleteUser, the transaction; what it does to issues is IssueStore's DeleteUser.
DeleteUserRow(h) ==
    LET u == req[h].uid IN
    /\ At(h, "deleteUser")
    /\ IF Exists(u) /\ ~LastActiveSysAdmin(u)
       THEN /\ user' = [user EXCEPT ![u] = DeletedUser]
            /\ session' = Cascade({u})
       ELSE UNCHANGED <<user, session>>
    /\ Finish(h)
    /\ UNCHANGED <<key, tokens, access>>

-----------------------------------------------------------------------------
(* Failures and time.                                                      *)

\* A statement fails: the answer is an error, or, at RevokeUserSessions after an
\* update, a line in the log.
Abort(h) ==
    /\ "abort" \in Ops
    /\ req[h].pc # "idle"
    /\ Finish(h)
    /\ UNCHANGED <<user, session, key, tokens, access>>

\* The process ends, with the requests in flight, and starts again: StartServer,
\* bootstrapDatabase.  Without WF_SECRET_KEY the new process has a new key, and the
\* access tokens signed with the old one are void.
Restart(newKey) ==
    /\ "restart" \in Ops
    /\ newKey => key < MaxKey
    /\ key' = IF newKey THEN key + 1 ELSE key
    /\ access' = IF newKey THEN {} ELSE access
    /\ session' = WithoutSessions({s \in Sessions : session[s].expired})
    /\ req' = [h \in Handlers |-> Idle]
    /\ UNCHANGED <<user, tokens>>

\* refreshTokenDuration passes.
ExpireSession(s) ==
    /\ "expire" \in Ops
    /\ HasSession(s)
    /\ session' = [session EXCEPT ![s].expired = TRUE]
    /\ UNCHANGED <<user, key, tokens, access, req>>

\* accessTokenDuration passes.
ExpireAccess(t) ==
    /\ t \in access
    /\ access' = access \ {t}
    /\ UNCHANGED <<user, session, key, tokens, req>>

\* A client drops a refresh token: a cookie is replaced or cleared.
Forget(t) ==
    /\ t \in tokens
    /\ tokens' = tokens \ {t}
    /\ UNCHANGED <<user, session, key, access, req>>

-----------------------------------------------------------------------------
\* createTables and EnsureInitialAdmin on an empty database.
Init ==
    /\ \E e \in Emails, p \in Passwords :
         user = [u \in Users |->
                   IF u = FirstUser
                   THEN [state |-> "live", email |-> e, pwd |-> p,
                         role |-> "sysadmin", active |-> TRUE]
                   ELSE NoUser]
    /\ session = [s \in Sessions |-> NoSession]
    /\ key = 0
    /\ tokens = {}
    /\ access = {}
    /\ req = [h \in Handlers |-> Idle]

NewRows == {row \in Rows : row.state = "live"}

Arrive(h) ==
    \/ \E u \in Users : Login(h, u)
    \/ \E t \in tokens : Refresh(h, t) \/ Logout(h, t)
    \/ \E t \in access :
         \/ \E u \in Users :
              \/ \E e \in Emails, r \in Roles, a \in BOOLEAN, p \in Passwords, n \in BOOLEAN :
                   UpdateUser(h, t, u, e, r, a, p, n)
              \/ DeleteUser(h, t, u)
         \/ \E p \in Passwords, n \in BOOLEAN : UpdateSelf(h, t, p, n)

Proceed(h) ==
    \/ CreateSession(h) \/ GetUser(h) \/ Rotate(h) \/ DeleteSession(h)
    \/ RevokeUserSessions(h) \/ VerifyAdmin(h) \/ UpdateUserRow(h) \/ DeleteUserRow(h)

Next ==
    \/ \E h \in Handlers : Arrive(h) \/ Proceed(h) \/ Abort(h)
    \/ \E t \in access, u \in Users, row \in NewRows : CreateUser(t, u, row)
    \/ \E t \in access : ExpireAccess(t)
    \/ \E t \in tokens : Forget(t)
    \/ \E s \in Sessions : ExpireSession(s)
    \/ \E newKey \in BOOLEAN : Restart(newKey)

Spec == Init /\ [][Next]_vars

\* Time passes: every access token ends.  Nothing else needs to happen.
TimePasses == \A t \in Claims : WF_vars(ExpireAccess(t))

-----------------------------------------------------------------------------
(* Properties.                                                             *)

ActiveSysAdmins == {u \in Users : IsActiveSysAdmin(user[u])}

\* There is always an active system administrator.  Two administrators who demote,
\* deactivate or delete each other at the same time, and a user who saves his own
\* profile from a row read earlier, must not get past lastActiveSysAdminCond.
SysAdminRemains == ActiveSysAdmins # {}

Abstract == INSTANCE SysAdmins WITH admins <- ActiveSysAdmins

\* The users table implements SysAdmins: each write grants or withdraws the rights
\* of one user at most, and never those of the last.
ImplementsSysAdmins == Abstract!Spec

\* A session belongs to a user who exists: a login that read the user before he was
\* deleted must not leave a session behind (foreign key), and a deletion takes his
\* sessions along (ON DELETE CASCADE).
SessionHasUser == \A s \in Sessions : HasSession(s) => Exists(session[s].user)

\* Why both are inductive: what a request in flight is about to write is the row of a
\* user, and the statements that name a session name one.
RequestOK(r) ==
    /\ r.op = "put" /\ r.pc = "verify" => r.new.state = "live"
    /\ r.pc = "updateUser" => r.new.state = "live"
    /\ r.pc = "verify" => r.op \in {"put", "delete"}
    /\ r.pc \in {"getUser", "rotate"} => r.sess \in Sessions

AccountsInductive ==
    /\ TypeOK
    /\ SysAdminRemains
    /\ SessionHasUser
    /\ \A h \in Handlers : RequestOK(req[h])

\* A session that ended stays ended: a refresh in flight does not bring it back.
StayEnded == \A s \in Sessions : session[s].user = Gone => session'[s].user = Gone
RevokedStaysRevoked == [][StayEnded]_vars

\* Who is handed an access token has, at that moment, a session in the table that
\* the refresh token handed out with it opens.  A refresh overtaken by a logout, a
\* revocation or the deletion of the user gets nothing.
TokensComeWithSession ==
    [][\A t \in access' \ access :
         \E s \in Sessions :
           /\ session'[s].user = t.user
           /\ session'[s].key = key'
           /\ [sess |-> s, secret |-> session'[s].secret] \in tokens']_vars

\* docs/usage-guide.md:250 and the comment of handleUpdateUser: a user who is
\* deactivated is signed out once his access tokens expire, even if revoking his
\* sessions failed or the process was killed before it, because no refresh renews
\* the tokens of an inactive user.
DeactivatedIsSignedOut ==
    \A u \in Users :
      <>[](~user[u].active) => <>[](\A t \in access : t.user # u)

=============================================================================
