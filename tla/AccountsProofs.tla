--------------------------- MODULE AccountsProofs ---------------------------
(***************************************************************************)
(* For every number of users, sessions and requests in flight: the tables  *)
(* keep their types, an active system administrator remains, sessions      *)
(* belong to users who exist, ended sessions stay ended, and the users     *)
(* table implements SysAdmins.                                             *)
(***************************************************************************)
EXTENDS Accounts, TLAPS

LEMMA NoUserTyped == NoUser \in Rows
<1>1. (CHOOSE e \in Emails : TRUE) \in Emails
  BY AccountsAssumption
<1>2. (CHOOSE p \in Passwords : TRUE) \in Passwords
  BY AccountsAssumption
<1>3. "user" \in Roles
  BY AccountsAssumption
<1> QED
  BY <1>1, <1>2, <1>3 DEF NoUser, Rows

LEMMA NoSessionTyped == NoSession \in SessionRows
<1>1. (CHOOSE p \in Passwords : TRUE) \in Passwords
  BY AccountsAssumption
<1>2. 0 \in 0 .. MaxKey
  BY AccountsAssumption
<1> QED
  BY <1>1, <1>2 DEF NoSession, SessionRows

LEMMA EndedTyped ==
    /\ [NoSession EXCEPT !.user = Gone] \in SessionRows
    /\ [NoSession EXCEPT !.user = Gone].user = Gone
BY NoSessionTyped DEF SessionRows, NoSession

LEMMA IdleTyped == Idle \in Requests /\ RequestOK(Idle)
<1>1. (CHOOSE e \in Emails : TRUE) \in Emails
  BY AccountsAssumption
<1>2. Idle \in Requests
  BY <1>1, NoUserTyped, AccountsAssumption DEF Idle, Requests
<1> QED
  BY <1>2 DEF Idle, RequestOK

LEMMA DeletedTyped ==
    /\ DeletedUser \in Rows
    /\ DeletedUser.state = "gone"
BY NoUserTyped DEF Rows, NoUser, DeletedUser

-----------------------------------------------------------------------------
(* What a step may do to the parts of the state.                           *)

\* A step of one request, which leaves that request well formed.
RequestStep(h, r) == /\ req' = [req EXCEPT ![h] = r]
                     /\ r \in Requests /\ RequestOK(r)

LEMMA RequestsStay ==
    ASSUME AccountsInductive, NEW h \in Handlers, NEW r, RequestStep(h, r)
    PROVE  req' \in [Handlers -> Requests] /\ \A g \in Handlers : RequestOK(req'[g])
BY DEF AccountsInductive, TypeOK, RequestStep

LEMMA FinishStep ==
    ASSUME NEW h \in Handlers, Finish(h)
    PROVE  RequestStep(h, Idle)
BY IdleTyped DEF Finish, RequestStep

\* The sessions table only loses rows.
SessionsShrink ==
    /\ session' \in [Sessions -> SessionRows]
    /\ \A s \in Sessions : session'[s].user \in {session[s].user, Gone}

LEMMA WithoutShrinks ==
    ASSUME AccountsInductive, NEW ss,
           session' = WithoutSessions(ss) \/ session' = WithoutSessionsOf(ss)
    PROVE  SessionsShrink
<1> DEFINE e == [NoSession EXCEPT !.user = Gone]
<1>1. e \in SessionRows /\ e.user = Gone
  BY EndedTyped
<1> HIDE DEF e
<1>2. session \in [Sessions -> SessionRows]
  BY DEF AccountsInductive, TypeOK
<1>3. CASE session' = WithoutSessions(ss)
  BY <1>1, <1>2, <1>3 DEF WithoutSessions, SessionsShrink, e
<1>4. CASE session' = WithoutSessionsOf(ss)
  BY <1>1, <1>2, <1>4 DEF WithoutSessionsOf, SessionsShrink, e
<1> QED
  BY <1>3, <1>4

\* A row of users written over row old leaves it in the table, and leaves an active
\* sysadmin.
UserWrite(u, new) ==
    /\ new \in Rows /\ new.state = "live"
    /\ user' = [user EXCEPT ![u] = new]
    /\ RemovesSysAdmin(new) => ~LastActiveSysAdmin(u)

LEMMA UserWriteKeeps ==
    ASSUME AccountsInductive, NEW u \in Users, NEW new, UserWrite(u, new)
    PROVE  /\ user' \in [Users -> Rows]
           /\ \A v \in Users : Exists(v) => Exists(v)'
           /\ SysAdminRemains'
           /\ [Abstract!Next]_ActiveSysAdmins
<1>1. user \in [Users -> Rows]
  BY DEF AccountsInductive, TypeOK
<1>2. /\ user' \in [Users -> Rows]
      /\ user'[u] = new
      /\ \A v \in Users \ {u} : user'[v] = user[v]
  BY <1>1 DEF UserWrite
<1>3. \A v \in Users : Exists(v) => Exists(v)'
  BY <1>2 DEF UserWrite, Exists
<1>4. CASE RemovesSysAdmin(new)
  <2>1. u \notin ActiveSysAdmins'
    BY <1>2, <1>4 DEF ActiveSysAdmins, IsActiveSysAdmin, RemovesSysAdmin
  <2>2. \A v \in Users \ {u} : v \in ActiveSysAdmins' <=> v \in ActiveSysAdmins
    BY <1>2 DEF ActiveSysAdmins, IsActiveSysAdmin
  <2>3. ActiveSysAdmins' = ActiveSysAdmins \ {u}
    BY <2>1, <2>2 DEF ActiveSysAdmins
  <2>4. \E v \in ActiveSysAdmins : v # u
    <3>1. ~LastActiveSysAdmin(u)
      BY <1>4 DEF UserWrite
    <3>2. CASE u \in ActiveSysAdmins
      BY <3>1, <3>2 DEF LastActiveSysAdmin, ActiveSysAdmins
    <3>3. CASE u \notin ActiveSysAdmins
      BY <3>3 DEF AccountsInductive, SysAdminRemains
    <3> QED
      BY <3>2, <3>3
  <2>5. SysAdminRemains'
    BY <2>3, <2>4 DEF SysAdminRemains
  <2> QED
    BY <1>2, <1>3, <2>3, <2>4, <2>5 DEF Abstract!Next, Abstract!Withdraw
<1>5. CASE ~RemovesSysAdmin(new)
  <2>1. u \in ActiveSysAdmins'
    BY <1>2, <1>5 DEF ActiveSysAdmins, IsActiveSysAdmin, RemovesSysAdmin, UserWrite
  <2>2. \A v \in Users \ {u} : v \in ActiveSysAdmins' <=> v \in ActiveSysAdmins
    BY <1>2 DEF ActiveSysAdmins, IsActiveSysAdmin
  <2>3. ActiveSysAdmins' = ActiveSysAdmins \cup {u}
    BY <2>1, <2>2 DEF ActiveSysAdmins
  <2> QED
    BY <1>2, <1>3, <2>1, <2>3 DEF Abstract!Next, Abstract!Grant, SysAdminRemains
<1> QED
  BY <1>4, <1>5

\* What every step does: IndStep is what has to be shown for each action.
IndStep == AccountsInductive' /\ [Abstract!Next]_ActiveSysAdmins /\ StayEnded

LEMMA UsersKeep ==
    ASSUME UNCHANGED user
    PROVE  /\ SysAdminRemains' = SysAdminRemains
           /\ UNCHANGED ActiveSysAdmins
           /\ \A v \in Users : Exists(v)' = Exists(v)
BY DEF SysAdminRemains, ActiveSysAdmins, IsActiveSysAdmin, Exists

\* The three parts of a step: to the sessions ...
SessionsFine ==
    /\ session' \in [Sessions -> SessionRows]
    /\ StayEnded
    /\ SessionHasUser'

LEMMA ShrinkFine ==
    ASSUME AccountsInductive, SessionsShrink, \A v \in Users : Exists(v) => Exists(v)'
    PROVE  SessionsFine
<1>1. StayEnded
  BY DEF SessionsShrink, StayEnded
<1>2. ASSUME NEW s \in Sessions, session'[s].user \in Users
      PROVE  user'[session'[s].user].state = "live"
  <2>1. session'[s].user = session[s].user
    BY <1>2, AccountsAssumption DEF SessionsShrink
  <2>2. Exists(session[s].user)
    BY <1>2, <2>1 DEF AccountsInductive, SessionHasUser, HasSession
  <2> QED
    BY <1>2, <2>1, <2>2 DEF Exists
<1>3. SessionHasUser'
  BY <1>2 DEF SessionHasUser, HasSession, Exists
<1> QED
  BY <1>1, <1>3 DEF SessionsFine, SessionsShrink

LEMMA SameShrinks ==
    ASSUME AccountsInductive, UNCHANGED session
    PROVE  SessionsShrink
BY DEF AccountsInductive, TypeOK, SessionsShrink

\* ... to the users ...
UsersFine ==
    /\ user' \in [Users -> Rows]
    /\ SysAdminRemains'
    /\ [Abstract!Next]_ActiveSysAdmins

LEMMA SameUsersFine ==
    ASSUME AccountsInductive, UNCHANGED user
    PROVE  UsersFine
BY UsersKeep DEF AccountsInductive, TypeOK, UsersFine

\* ... and to the rest.
RestFine ==
    /\ key' \in 0 .. MaxKey
    /\ tokens' \subseteq RefreshTokens
    /\ access' \subseteq Claims

LEMMA SameRestFine ==
    ASSUME AccountsInductive, UNCHANGED <<key, tokens, access>>
    PROVE  RestFine
BY DEF AccountsInductive, TypeOK, RestFine

LEMMA Together ==
    ASSUME SessionsFine, UsersFine, RestFine,
           req' \in [Handlers -> Requests], \A g \in Handlers : RequestOK(req'[g])
    PROVE  IndStep
<1>1. TypeOK'
  BY DEF SessionsFine, UsersFine, RestFine, TypeOK
<1>2. (\A h \in Handlers : RequestOK(req[h]))'
  BY DEF RequestOK
<1> QED
  BY <1>1, <1>2 DEF SessionsFine, UsersFine, IndStep, AccountsInductive

\* A request that only reads.
LEMMA ReadStep ==
    ASSUME AccountsInductive, NEW h \in Handlers, NEW r, RequestStep(h, r),
           UNCHANGED <<user, session, key, tokens, access>>
    PROVE  IndStep
BY RequestsStay, SameShrinks, ShrinkFine, SameUsersFine, SameRestFine, UsersKeep, Together

\* A request that ends sessions.
LEMMA EndStep ==
    ASSUME AccountsInductive, NEW h \in Handlers, NEW r, RequestStep(h, r),
           SessionsShrink, UNCHANGED <<user, key, tokens, access>>
    PROVE  IndStep
BY RequestsStay, ShrinkFine, SameUsersFine, SameRestFine, UsersKeep, Together

-----------------------------------------------------------------------------
(* One lemma per action.                                                   *)

LEMMA LoginStep ==
    ASSUME AccountsInductive, NEW h \in Handlers, NEW u \in Users, Login(h, u)
    PROVE  IndStep
<1> DEFINE r == [Idle EXCEPT !.op = "login", !.pc = "createSession",
                             !.uid = u, !.new = user[u]]
<1>1. user[u] \in Rows
  BY DEF AccountsInductive, TypeOK
<1>2. r \in Requests /\ r.pc = "createSession"
  BY <1>1, IdleTyped DEF Requests, Idle
<1>3. req' = [req EXCEPT ![h] = r] /\ UNCHANGED <<user, session, key, tokens, access>>
  BY DEF Login, Start
<1> HIDE DEF r
<1>4. RequestStep(h, r)
  BY <1>2, <1>3 DEF RequestStep, RequestOK
<1> QED
  BY <1>3, <1>4, ReadStep

LEMMA RefreshStep ==
    ASSUME AccountsInductive, NEW h \in Handlers, NEW t \in tokens, Refresh(h, t)
    PROVE  IndStep
<1> DEFINE row == session[t.sess]
           pc == IF row.expired THEN "deleteSession"
                 ELSE IF <<row.secret, row.key>> # <<t.secret, key>> THEN "revoke"
                 ELSE "getUser"
           r == [Idle EXCEPT
                   !.op = "refresh", !.uid = row.user, !.sess = t.sess, !.secret = t.secret,
                   !.pc = pc]
<1>1. t.sess \in Sessions /\ t.secret \in Secrets /\ row.user \in Users
  BY DEF AccountsInductive, TypeOK, RefreshTokens, Refresh, HasSession
<1>2. pc \in {"deleteSession", "revoke", "getUser"}
  OBVIOUS
<1>3. req' = [req EXCEPT ![h] = r] /\ UNCHANGED <<user, session, key, tokens, access>>
  BY DEF Refresh, Start
<1> HIDE DEF row, pc
<1>4. r \in Requests /\ r.pc = pc /\ r.sess = t.sess
  BY <1>1, <1>2, IdleTyped DEF Requests, Idle
<1> HIDE DEF r
<1>5. RequestStep(h, r)
  BY <1>1, <1>2, <1>3, <1>4 DEF RequestStep, RequestOK
<1> QED
  BY <1>3, <1>5, ReadStep

LEMMA LogoutStep ==
    ASSUME AccountsInductive, NEW h \in Handlers, NEW t \in tokens, Logout(h, t)
    PROVE  IndStep
<1> DEFINE r == [Idle EXCEPT !.op = "logout", !.pc = "deleteSession", !.sess = t.sess]
<1>1. t.sess \in Sessions
  BY DEF AccountsInductive, TypeOK, RefreshTokens
<1>2. r \in Requests /\ r.pc = "deleteSession"
  BY <1>1, IdleTyped DEF Requests, Idle
<1>3. req' = [req EXCEPT ![h] = r] /\ UNCHANGED <<user, session, key, tokens, access>>
  BY DEF Logout, Start
<1> HIDE DEF r
<1>4. RequestStep(h, r)
  BY <1>2, <1>3 DEF RequestStep, RequestOK
<1> QED
  BY <1>3, <1>4, ReadStep

LEMMA GetUserStep ==
    ASSUME AccountsInductive, NEW h \in Handlers, GetUser(h)
    PROVE  IndStep
<1> DEFINE row == user[req[h].uid]
           pc == IF MayRefresh(row) THEN "rotate" ELSE "deleteSession"
           r == [req[h] EXCEPT !.pc = pc, !.new = row]
<1>1. req[h] \in Requests /\ req[h].sess \in Sessions /\ req[h].uid \in Users
  BY DEF AccountsInductive, TypeOK, RequestOK, GetUser, At, Requests
<1>2. row \in Rows /\ pc \in {"rotate", "deleteSession"}
  BY <1>1 DEF AccountsInductive, TypeOK
<1>3. req' = [req EXCEPT ![h] = r] /\ UNCHANGED <<user, session, key, tokens, access>>
  BY DEF GetUser, AccountsInductive, TypeOK
<1> HIDE DEF row, pc
<1>4. r \in Requests /\ r.pc = pc /\ r.sess = req[h].sess
  BY <1>1, <1>2 DEF Requests
<1> HIDE DEF r
<1>5. RequestStep(h, r)
  BY <1>1, <1>2, <1>3, <1>4 DEF RequestStep, RequestOK
<1> QED
  BY <1>3, <1>5, ReadStep

\* CreateSession and Rotate hand out tokens of a row of the right type.
LEMMA HandOutFine ==
    ASSUME AccountsInductive, NEW s \in Sessions, NEW x \in Secrets, NEW u \in Users,
           NEW row \in Rows, HandOut(s, x, u, row), UNCHANGED key
    PROVE  RestFine
<1>1. [sess |-> s, secret |-> x] \in RefreshTokens
  BY DEF RefreshTokens
<1>2. [user |-> u, email |-> row.email, role |-> row.role] \in Claims
  BY DEF Claims, Rows
<1> QED
  BY <1>1, <1>2 DEF HandOut, RestFine, AccountsInductive, TypeOK

LEMMA CreateSessionStep ==
    ASSUME AccountsInductive, NEW h \in Handlers, CreateSession(h)
    PROVE  IndStep
<1>1. RequestStep(h, Idle) /\ UNCHANGED <<user, key>>
  BY FinishStep DEF CreateSession
<1>2. CASE ~Exists(req[h].uid)
  BY <1>1, <1>2, ReadStep DEF CreateSession
<1>3. CASE Exists(req[h].uid)
  <2> DEFINE u == req[h].uid
  <2>1. u \in Users /\ req[h].new \in Rows
    BY DEF AccountsInductive, TypeOK, Requests, Rows
  <2> DEFINE new(x) == [user |-> u, secret |-> x, key |-> key, expired |-> FALSE]
  <2>2. PICK s \in Sessions, x \in Secrets :
          /\ session[s].user = Free
          /\ session' = [session EXCEPT ![s] = new(x)]
          /\ HandOut(s, x, u, req[h].new)
    BY <1>3 DEF CreateSession, NewSession
  <2>3. RestFine
    BY <1>1, <2>1, <2>2, HandOutFine
  <2>4. new(x) \in SessionRows /\ new(x).user = u
    BY <2>1 DEF SessionRows, AccountsInductive, TypeOK
  <2> HIDE DEF new
  <2>5. session' \in [Sessions -> SessionRows] /\ session'[s].user = u
    BY <2>2, <2>4 DEF AccountsInductive, TypeOK
  <2>6. \A q \in Sessions \ {s} : session'[q] = session[q]
    BY <2>2 DEF AccountsInductive, TypeOK
  <2>7. StayEnded
    BY <2>2, <2>6, AccountsAssumption DEF StayEnded
  <2>8. SessionHasUser'
    BY <1>1, <1>3, <2>5, <2>6 DEF SessionHasUser, HasSession, Exists, AccountsInductive
  <2> QED
    BY <1>1, <2>3, <2>5, <2>7, <2>8, RequestsStay, SameUsersFine, Together DEF SessionsFine
<1> QED
  BY <1>2, <1>3

LEMMA RotateStep ==
    ASSUME AccountsInductive, NEW h \in Handlers, Rotate(h)
    PROVE  IndStep
<1> DEFINE s == req[h].sess
<1>1. RequestStep(h, Idle) /\ UNCHANGED <<user, key>>
  BY FinishStep DEF Rotate
<1>2. s \in Sessions /\ req[h].uid \in Users /\ req[h].new \in Rows
  BY DEF AccountsInductive, TypeOK, RequestOK, Rotate, At, Requests
<1>3. CASE ~SessionUpdated(s)
  BY <1>1, <1>3, ReadStep DEF Rotate
<1>4. CASE SessionUpdated(s)
  <2>1. PICK x \in Secrets :
          /\ session' = [session EXCEPT ![s].secret = x, ![s].key = key, ![s].expired = FALSE]
          /\ HandOut(s, x, req[h].uid, req[h].new)
    BY <1>4 DEF Rotate
  <2>2. RestFine
    BY <1>1, <1>2, <2>1, HandOutFine
  <2> DEFINE new == [session[s] EXCEPT !.secret = x, !.key = key, !.expired = FALSE]
  <2>3. session[s] \in SessionRows /\ session \in [Sessions -> SessionRows] /\ key \in 0 .. MaxKey
    BY <1>2 DEF AccountsInductive, TypeOK
  <2>4. new \in SessionRows /\ new.user = session[s].user
    BY <2>3 DEF SessionRows
  <2>5. session' = [session EXCEPT ![s] = new]
    BY <2>1, <2>3
  <2> HIDE DEF new
  <2>6. SessionsShrink
    BY <1>2, <2>3, <2>4, <2>5 DEF SessionsShrink
  <2> QED
    BY <1>1, <2>2, <2>6, ShrinkFine, UsersKeep, RequestsStay, SameUsersFine, Together
<1> QED
  BY <1>3, <1>4

LEMMA EndingSteps ==
    ASSUME AccountsInductive, NEW h \in Handlers, DeleteSession(h) \/ RevokeUserSessions(h)
    PROVE  IndStep
<1>1. RequestStep(h, Idle) /\ UNCHANGED <<user, key, tokens, access>>
  BY FinishStep DEF DeleteSession, RevokeUserSessions
<1>2. SessionsShrink
  BY WithoutShrinks DEF DeleteSession, RevokeUserSessions
<1> QED
  BY <1>1, <1>2, EndStep

LEMMA UpdateUserStep ==
    ASSUME AccountsInductive, NEW h \in Handlers, NEW t \in access, NEW u \in Users,
           NEW e \in Emails, NEW ro \in Roles, NEW a \in BOOLEAN, NEW p \in Passwords,
           NEW n \in BOOLEAN, UpdateUser(h, t, u, e, ro, a, p, n)
    PROVE  IndStep
<1> DEFINE old == user[u]
           new == [old EXCEPT !.email = e, !.role = ro, !.active = a,
                              !.pwd = IF n THEN p ELSE old.pwd]
           rev == RevokesSessions(old, new, n)
           pc == IF NeedsAdminPassword(old, new, n) THEN "verify" ELSE "updateUser"
           r == [Idle EXCEPT !.op = "put", !.uid = u, !.by = t.email, !.new = new,
                             !.revoke = rev, !.pc = pc]
<1>1. old \in Rows /\ old.state = "live" /\ t.email \in Emails
  BY DEF AccountsInductive, TypeOK, UpdateUser, Exists, Claims
<1>2. new \in Rows /\ new.state = "live"
  BY <1>1 DEF Rows
<1>3. rev \in BOOLEAN /\ pc \in {"verify", "updateUser"}
  BY <1>1 DEF RevokesSessions, Rows
<1>4. req' = [req EXCEPT ![h] = r] /\ UNCHANGED <<user, session, key, tokens, access>>
  BY DEF UpdateUser, Start
<1> HIDE DEF new, rev, pc
<1>5. r \in Requests /\ r.pc = pc /\ r.op = "put" /\ r.new = new
  BY <1>1, <1>2, <1>3, IdleTyped DEF Requests, Idle
<1> HIDE DEF r
<1>6. RequestStep(h, r)
  BY <1>2, <1>3, <1>4, <1>5 DEF RequestStep, RequestOK
<1> QED
  BY <1>4, <1>6, ReadStep

LEMMA UpdateSelfStep ==
    ASSUME AccountsInductive, NEW h \in Handlers, NEW t \in access,
           NEW p \in Passwords, NEW n \in BOOLEAN, UpdateSelf(h, t, p, n)
    PROVE  IndStep
<1> DEFINE u == t.user
           new == [user[u] EXCEPT !.pwd = IF n THEN p ELSE user[u].pwd]
           r == [Idle EXCEPT !.op = "self", !.pc = "updateUser", !.uid = u, !.revoke = n,
                             !.new = new]
<1>1. u \in Users
  BY DEF AccountsInductive, TypeOK, Claims
<1>2. user[u] \in Rows /\ user[u].state = "live"
  BY <1>1 DEF AccountsInductive, TypeOK, UpdateSelf, Exists
<1>3. new \in Rows /\ new.state = "live"
  BY <1>2 DEF Rows
<1>4. req' = [req EXCEPT ![h] = r] /\ UNCHANGED <<user, session, key, tokens, access>>
  BY DEF UpdateSelf, Start
<1> HIDE DEF new
<1>5. r \in Requests /\ r.pc = "updateUser" /\ r.new = new
  BY <1>1, <1>3, IdleTyped DEF Requests, Idle
<1> HIDE DEF r
<1>6. RequestStep(h, r)
  BY <1>3, <1>4, <1>5 DEF RequestStep, RequestOK
<1> QED
  BY <1>4, <1>6, ReadStep

LEMMA DeleteUserStep ==
    ASSUME AccountsInductive, NEW h \in Handlers, NEW t \in access, NEW u \in Users,
           DeleteUser(h, t, u)
    PROVE  IndStep
<1> DEFINE r == [Idle EXCEPT !.op = "delete", !.pc = "verify", !.uid = u, !.by = t.email]
<1>1. t.email \in Emails
  BY DEF AccountsInductive, TypeOK, Claims
<1>2. r \in Requests /\ r.pc = "verify" /\ r.op = "delete"
  BY <1>1, IdleTyped DEF Requests, Idle
<1>3. req' = [req EXCEPT ![h] = r] /\ UNCHANGED <<user, session, key, tokens, access>>
  BY DEF DeleteUser, Start
<1> HIDE DEF r
<1>4. RequestStep(h, r)
  BY <1>2, <1>3 DEF RequestStep, RequestOK
<1> QED
  BY <1>3, <1>4, ReadStep

\* The next statement of a request, with nothing else changed in it.
LEMMA GotoStep ==
    ASSUME AccountsInductive, NEW h \in Handlers, NEW step, Goto(h, step),
           step \in {"deleteUser", "revoke"} \/ (step = "updateUser" /\ req[h].new.state = "live")
    PROVE  \E r : RequestStep(h, r)
<1> DEFINE r == [req[h] EXCEPT !.pc = step]
<1>1. req[h] \in Requests
  BY DEF AccountsInductive, TypeOK
<1>2. r \in Requests /\ r.pc = step /\ r.new = req[h].new
  BY <1>1 DEF Requests
<1>3. req' = [req EXCEPT ![h] = r]
  BY DEF Goto, AccountsInductive, TypeOK
<1> HIDE DEF r
<1> QED
  BY <1>2, <1>3 DEF RequestStep, RequestOK

LEMMA VerifyAdminStep ==
    ASSUME AccountsInductive, NEW h \in Handlers, VerifyAdmin(h)
    PROVE  IndStep
<1>1. UNCHANGED <<user, session, key, tokens, access>>
  BY DEF VerifyAdmin
<1>2. req[h].op \in {"put", "delete"} /\ (req[h].op = "put" => req[h].new.state = "live")
  BY DEF AccountsInductive, RequestOK, VerifyAdmin, At
<1>3. \E r : RequestStep(h, r)
  BY <1>2, FinishStep, GotoStep DEF VerifyAdmin
<1> QED
  BY <1>1, <1>3, ReadStep

LEMMA UpdateUserRowStep ==
    ASSUME AccountsInductive, NEW h \in Handlers, UpdateUserRow(h)
    PROVE  IndStep
<1> DEFINE u == req[h].uid
           new == req[h].new
<1>1. UNCHANGED <<session, key, tokens, access>>
  BY DEF UpdateUserRow
<1>2. u \in Users /\ new \in Rows /\ new.state = "live"
  BY DEF AccountsInductive, TypeOK, RequestOK, UpdateUserRow, At, Requests
<1>3. \E r : RequestStep(h, r)
  BY FinishStep, GotoStep DEF UpdateUserRow
<1>4. CASE UNCHANGED user
  BY <1>1, <1>3, <1>4, ReadStep
<1>5. CASE ~UNCHANGED user
  <2>1. UserWrite(u, new)
    BY <1>2, <1>5 DEF UpdateUserRow, UserWrite
  <2>2. UsersFine /\ \A v \in Users : Exists(v) => Exists(v)'
    BY <1>2, <2>1, UserWriteKeeps DEF UsersFine
  <2> QED
    BY <1>1, <1>3, <2>2, SameShrinks, ShrinkFine, SameRestFine, RequestsStay, Together
<1> QED
  BY <1>4, <1>5

LEMMA DeleteUserRowStep ==
    ASSUME AccountsInductive, NEW h \in Handlers, DeleteUserRow(h)
    PROVE  IndStep
<1> DEFINE u == req[h].uid
<1>1. RequestStep(h, Idle) /\ UNCHANGED <<key, tokens, access>>
  BY FinishStep DEF DeleteUserRow
<1>2. u \in Users /\ user \in [Users -> Rows]
  BY DEF AccountsInductive, TypeOK, Requests
<1>3. CASE ~(Exists(u) /\ ~LastActiveSysAdmin(u))
  BY <1>1, <1>3, ReadStep DEF DeleteUserRow
<1>4. CASE Exists(u) /\ ~LastActiveSysAdmin(u)
  <2>1. user' = [user EXCEPT ![u] = DeletedUser] /\ session' = WithoutSessionsOf({u})
    BY <1>4 DEF DeleteUserRow, Cascade
  <2>2. DeletedUser \in Rows /\ DeletedUser.state = "gone"
    BY DeletedTyped
  <2>3. /\ user' \in [Users -> Rows]
        /\ user'[u] = DeletedUser
        /\ \A v \in Users \ {u} : user'[v] = user[v]
    BY <1>2, <2>1, <2>2
  <2>4. u \notin ActiveSysAdmins'
    BY <2>2, <2>3 DEF ActiveSysAdmins, IsActiveSysAdmin
  <2>5. \A v \in Users \ {u} : v \in ActiveSysAdmins' <=> v \in ActiveSysAdmins
    BY <2>3 DEF ActiveSysAdmins, IsActiveSysAdmin
  <2>6. ActiveSysAdmins' = ActiveSysAdmins \ {u}
    BY <2>4, <2>5 DEF ActiveSysAdmins
  <2>7. \E v \in ActiveSysAdmins : v # u
    <3>1. CASE u \in ActiveSysAdmins
      BY <1>4, <3>1 DEF LastActiveSysAdmin, ActiveSysAdmins
    <3>2. CASE u \notin ActiveSysAdmins
      BY <3>2 DEF AccountsInductive, SysAdminRemains
    <3> QED
      BY <3>1, <3>2
  <2>8. UsersFine
    BY <1>2, <2>3, <2>6, <2>7 DEF UsersFine, SysAdminRemains, Abstract!Next, Abstract!Withdraw
  <2>9. SessionsShrink
    BY <2>1, WithoutShrinks
  <2>10. \A s \in Sessions : session'[s].user # u
    BY <1>2, <2>1, EndedTyped, AccountsAssumption DEF WithoutSessionsOf
  <2>11. SessionHasUser'
    <3> SUFFICES ASSUME NEW s \in Sessions, session'[s].user \in Users
                 PROVE  user'[session'[s].user].state = "live"
      BY DEF SessionHasUser, HasSession, Exists
    <3>1. session'[s].user = session[s].user /\ session[s].user # u
      BY <2>9, <2>10, AccountsAssumption DEF SessionsShrink
    <3>2. Exists(session[s].user)
      BY <3>1 DEF AccountsInductive, SessionHasUser, HasSession
    <3> QED
      BY <2>3, <3>1, <3>2 DEF Exists
  <2>12. SessionsFine
    BY <2>9, <2>11 DEF SessionsFine, SessionsShrink, StayEnded
  <2> QED
    BY <1>1, <2>8, <2>12, SameRestFine, RequestsStay, Together
<1> QED
  BY <1>3, <1>4

LEMMA CreateUserStep ==
    ASSUME AccountsInductive, NEW t \in access, NEW u \in Users, NEW row \in NewRows,
           CreateUser(t, u, row)
    PROVE  IndStep
<1>1. UNCHANGED <<session, key, tokens, access, req>>
  BY DEF CreateUser
<1>2. UserWrite(u, row)
  BY DEF CreateUser, UserWrite, NewRows, LastActiveSysAdmin, IsActiveSysAdmin
<1>3. UsersFine /\ \A v \in Users : Exists(v) => Exists(v)'
  BY <1>2, UserWriteKeeps DEF UsersFine
<1>4. req' \in [Handlers -> Requests] /\ \A g \in Handlers : RequestOK(req'[g])
  BY <1>1 DEF AccountsInductive, TypeOK
<1> QED
  BY <1>1, <1>3, <1>4, SameShrinks, ShrinkFine, SameRestFine, Together

LEMMA RestartStep ==
    ASSUME AccountsInductive, NEW newKey \in BOOLEAN, Restart(newKey)
    PROVE  IndStep
<1>1. UNCHANGED <<user, tokens>> /\ access' \subseteq access
  BY DEF Restart
<1>2. key' \in 0 .. MaxKey
  BY AccountsAssumption DEF Restart, AccountsInductive, TypeOK
<1>3. SessionsShrink
  BY WithoutShrinks DEF Restart
<1>4. req' \in [Handlers -> Requests] /\ \A g \in Handlers : RequestOK(req'[g])
  BY IdleTyped DEF Restart
<1>5. RestFine
  BY <1>1, <1>2 DEF RestFine, AccountsInductive, TypeOK
<1> QED
  BY <1>1, <1>3, <1>4, <1>5, ShrinkFine, SameUsersFine, UsersKeep, Together

LEMMA TimeSteps ==
    ASSUME AccountsInductive,
           \/ \E s \in Sessions : ExpireSession(s)
           \/ \E t \in access : ExpireAccess(t)
           \/ \E t \in tokens : Forget(t)
    PROVE  IndStep
<1>1. UNCHANGED <<user, key, req>>
  BY DEF ExpireSession, ExpireAccess, Forget
<1>2. tokens' \subseteq tokens /\ access' \subseteq access
  BY DEF ExpireSession, ExpireAccess, Forget
<1>3. SessionsShrink
  <2>1. CASE UNCHANGED session
    BY <2>1, SameShrinks
  <2>2. ASSUME NEW s \in Sessions, ExpireSession(s) PROVE SessionsShrink
    <3>1. session \in [Sessions -> SessionRows] /\ session[s] \in SessionRows
      BY DEF AccountsInductive, TypeOK
    <3> DEFINE new == [session[s] EXCEPT !.expired = TRUE]
    <3>2. new \in SessionRows /\ new.user = session[s].user
      BY <3>1 DEF SessionRows
    <3>3. session' = [session EXCEPT ![s] = new]
      BY <2>2, <3>1 DEF ExpireSession
    <3> HIDE DEF new
    <3> QED
      BY <3>1, <3>2, <3>3 DEF SessionsShrink
  <2> QED
    BY <2>1, <2>2 DEF ExpireAccess, Forget
<1>4. req' \in [Handlers -> Requests] /\ \A g \in Handlers : RequestOK(req'[g])
  BY <1>1 DEF AccountsInductive, TypeOK
<1>5. RestFine
  BY <1>1, <1>2 DEF RestFine, AccountsInductive, TypeOK
<1> QED
  BY <1>1, <1>3, <1>4, <1>5, ShrinkFine, SameUsersFine, UsersKeep, Together

LEMMA AbortStep ==
    ASSUME AccountsInductive, NEW h \in Handlers, Abort(h)
    PROVE  IndStep
BY FinishStep, ReadStep DEF Abort

-----------------------------------------------------------------------------
LEMMA InitFine == Init => AccountsInductive /\ Abstract!Init
<1> SUFFICES ASSUME Init PROVE AccountsInductive /\ Abstract!Init
  OBVIOUS
<1>1. PICK e \in Emails, p \in Passwords :
        user = [u \in Users |->
                  IF u = FirstUser
                  THEN [state |-> "live", email |-> e, pwd |-> p,
                        role |-> "sysadmin", active |-> TRUE]
                  ELSE NoUser]
  BY DEF Init
<1> DEFINE first == [state |-> "live", email |-> e, pwd |-> p, role |-> "sysadmin", active |-> TRUE]
<1>2. first \in Rows /\ IsActiveSysAdmin(first)
  BY AccountsAssumption DEF Rows, IsActiveSysAdmin
<1> HIDE DEF first
<1>3. user \in [Users -> Rows] /\ user[FirstUser] = first
  BY <1>1, <1>2, NoUserTyped, AccountsAssumption DEF first
<1>4. session \in [Sessions -> SessionRows] /\ \A s \in Sessions : session[s].user = Free
  BY NoSessionTyped DEF Init, NoSession
<1>5. key \in 0 .. MaxKey /\ tokens \subseteq RefreshTokens /\ access \subseteq Claims
  BY AccountsAssumption DEF Init
<1>6. req \in [Handlers -> Requests] /\ \A h \in Handlers : RequestOK(req[h])
  BY IdleTyped DEF Init
<1>7. FirstUser \in ActiveSysAdmins
  BY <1>2, <1>3, AccountsAssumption DEF ActiveSysAdmins
<1>8. TypeOK
  BY <1>3, <1>4, <1>5, <1>6 DEF TypeOK
<1>9. SessionHasUser
  BY <1>4, AccountsAssumption DEF SessionHasUser, HasSession
<1>10. SysAdminRemains /\ Abstract!Init
  BY <1>7 DEF SysAdminRemains, ActiveSysAdmins, Abstract!Init
<1> QED
  BY <1>6, <1>8, <1>9, <1>10 DEF AccountsInductive

LEMMA NextFine == ASSUME AccountsInductive, [Next]_vars PROVE IndStep
<1>1. CASE UNCHANGED vars
  <2>1. UNCHANGED <<user, session, key, tokens, access, req>>
    BY <1>1 DEF vars
  <2>2. req' \in [Handlers -> Requests] /\ \A g \in Handlers : RequestOK(req'[g])
    BY <2>1 DEF AccountsInductive, TypeOK
  <2> QED
    BY <2>1, <2>2, SameShrinks, ShrinkFine, SameUsersFine, SameRestFine, UsersKeep, Together
<1>2. ASSUME NEW h \in Handlers, Arrive(h) PROVE IndStep
  BY <1>2, LoginStep, RefreshStep, LogoutStep, UpdateUserStep, UpdateSelfStep, DeleteUserStep
  DEF Arrive
<1>3. ASSUME NEW h \in Handlers, Proceed(h) PROVE IndStep
  BY <1>3, CreateSessionStep, GetUserStep, RotateStep, EndingSteps, VerifyAdminStep,
     UpdateUserRowStep, DeleteUserRowStep
  DEF Proceed
<1> QED
  BY <1>1, <1>2, <1>3, AbortStep, CreateUserStep, RestartStep, TimeSteps DEF Next

\* The tables, the tokens and the requests in flight keep their types, whatever
\* the number of users, sessions and requests.
THEOREM AccountsTyped == Spec => []TypeOK
<1>1. Init => AccountsInductive
  BY InitFine
<1>2. AccountsInductive /\ [Next]_vars => AccountsInductive'
  BY NextFine DEF IndStep
<1>3. AccountsInductive => TypeOK
  BY DEF AccountsInductive
<1> QED
  BY <1>1, <1>2, <1>3, PTL DEF Spec

\* No interleaving of demotions, deactivations, deletions and saved profiles takes
\* the last active system administrator away (lastActiveSysAdminCond).
THEOREM SysAdminAlwaysRemains == Spec => []SysAdminRemains
<1>1. Init => AccountsInductive
  BY InitFine
<1>2. AccountsInductive /\ [Next]_vars => AccountsInductive'
  BY NextFine DEF IndStep
<1>3. AccountsInductive => SysAdminRemains
  BY DEF AccountsInductive
<1> QED
  BY <1>1, <1>2, <1>3, PTL DEF Spec

\* A session never belongs to a user who does not exist, even if the login read the
\* user before he was deleted.
THEOREM SessionsAlwaysHaveUsers == Spec => []SessionHasUser
<1>1. Init => AccountsInductive
  BY InitFine
<1>2. AccountsInductive /\ [Next]_vars => AccountsInductive'
  BY NextFine DEF IndStep
<1>3. AccountsInductive => SessionHasUser
  BY DEF AccountsInductive
<1> QED
  BY <1>1, <1>2, <1>3, PTL DEF Spec

\* A session that was revoked, logged out or expired does not come back: UpdateSession
\* of a refresh in flight changes no row (RefreshSession).
THEOREM RevokedSessionsStayRevoked == Spec => RevokedStaysRevoked
<1>1. Init => AccountsInductive
  BY InitFine
<1>2. AccountsInductive /\ [Next]_vars => AccountsInductive'
  BY NextFine DEF IndStep
<1>3. AccountsInductive /\ [Next]_vars => [StayEnded]_vars
  BY NextFine DEF IndStep
<1> QED
  BY <1>1, <1>2, <1>3, PTL DEF Spec, RevokedStaysRevoked

\* The users table implements SysAdmins: rights are granted and withdrawn one user
\* at a time and never withdrawn from the last.
THEOREM AccountsImplementSysAdmins == Spec => ImplementsSysAdmins
<1>1. Init => AccountsInductive /\ Abstract!Init
  BY InitFine
<1>2. AccountsInductive /\ [Next]_vars => AccountsInductive'
  BY NextFine DEF IndStep
<1>3. AccountsInductive /\ [Next]_vars => [Abstract!Next]_ActiveSysAdmins
  BY NextFine DEF IndStep
<1> QED
  BY <1>1, <1>2, <1>3, PTL DEF Spec, ImplementsSysAdmins, Abstract!Spec

-----------------------------------------------------------------------------
(* Whose tokens a refresh hands out.                                       *)

\* The session a refresh has looked up is still the one of its user, or has ended.
RefreshKnows(r) ==
    r.pc \in {"getUser", "rotate"} => session[r.sess].user \in {r.uid, Gone}
RefreshesKnow == \A h \in Handlers : RefreshKnows(req[h])

\* A row of the sessions table never goes from one user to another.
SessionsMove ==
    \A s \in Sessions : session[s].user # Free => session'[s].user \in {session[s].user, Gone}

\* A request that is only read changes none of the tables.
LEMMA OthersRead ==
    ASSUME NEW h \in Handlers,
           Arrive(h) \/ GetUser(h) \/ VerifyAdmin(h) \/ UpdateUserRow(h) \/ Abort(h)
    PROVE  UNCHANGED session /\ UNCHANGED access
<1>1. ASSUME NEW u, Login(h, u)
      PROVE  UNCHANGED session /\ UNCHANGED access
  BY <1>1 DEF Login
<1>2. ASSUME NEW t, Refresh(h, t)
      PROVE  UNCHANGED session /\ UNCHANGED access
  BY <1>2 DEF Refresh
<1>3. ASSUME NEW t, Logout(h, t)
      PROVE  UNCHANGED session /\ UNCHANGED access
  BY <1>3 DEF Logout
<1>4. ASSUME NEW t, NEW u, NEW e, NEW r, NEW a, NEW p, NEW n, UpdateUser(h, t, u, e, r, a, p, n)
      PROVE  UNCHANGED session /\ UNCHANGED access
  BY <1>4 DEF UpdateUser
<1>5. ASSUME NEW t, NEW u, DeleteUser(h, t, u)
      PROVE  UNCHANGED session /\ UNCHANGED access
  BY <1>5 DEF DeleteUser
<1>6. ASSUME NEW t, NEW p, NEW n, UpdateSelf(h, t, p, n)
      PROVE  UNCHANGED session /\ UNCHANGED access
  BY <1>6 DEF UpdateSelf
<1>7. CASE GetUser(h)
  BY <1>7 DEF GetUser
<1>8. CASE VerifyAdmin(h)
  BY <1>8 DEF VerifyAdmin
<1>9. CASE UpdateUserRow(h)
  BY <1>9 DEF UpdateUserRow
<1>10. CASE Abort(h)
  BY <1>10 DEF Abort
<1> QED
  BY <1>1, <1>2, <1>3, <1>4, <1>5, <1>6, <1>7, <1>8, <1>9, <1>10 DEF Arrive

LEMMA SessionsNeverChangeHands ==
    ASSUME AccountsInductive, [Next]_vars
    PROVE  SessionsMove
<1>1. session \in [Sessions -> SessionRows]
  BY DEF AccountsInductive, TypeOK
<1>2. CASE UNCHANGED session
  BY <1>2 DEF SessionsMove
<1>3. CASE SessionsShrink
  BY <1>3 DEF SessionsMove, SessionsShrink
<1>4. ASSUME NEW h \in Handlers, CreateSession(h)
      PROVE  SessionsMove
  <2>1. CASE Exists(req[h].uid)
    <3>1. PICK s \in Sessions, x \in Secrets :
            /\ session[s].user = Free
            /\ session' = [session EXCEPT ![s] =
                 [user |-> req[h].uid, secret |-> x, key |-> key, expired |-> FALSE]]
      BY <1>4, <2>1 DEF CreateSession, NewSession
    <3> QED
      BY <1>1, <3>1 DEF SessionsMove
  <2> QED
    BY <1>2, <1>4, <2>1 DEF CreateSession
<1>5. ASSUME NEW h \in Handlers, Rotate(h)
      PROVE  SessionsMove
  <2> DEFINE s == req[h].sess
  <2>1. CASE SessionUpdated(s)
    <3>1. PICK x \in Secrets :
            session' = [session EXCEPT ![s].secret = x, ![s].key = key, ![s].expired = FALSE]
      BY <1>5, <2>1 DEF Rotate
    <3>2. \A q \in Sessions : session'[q].user = session[q].user
      BY <1>1, <3>1 DEF SessionRows
    <3> QED
      BY <3>2 DEF SessionsMove
  <2> QED
    BY <1>2, <1>5, <2>1 DEF Rotate
<1>6. ASSUME NEW h \in Handlers, DeleteSession(h) \/ RevokeUserSessions(h) \/ DeleteUserRow(h)
      PROVE  SessionsMove
  BY <1>2, <1>3, <1>6, WithoutShrinks DEF DeleteSession, RevokeUserSessions, DeleteUserRow, Cascade
<1>7. ASSUME NEW newKey, Restart(newKey)
      PROVE  SessionsMove
  BY <1>3, <1>7, WithoutShrinks DEF Restart
<1>8. ASSUME NEW s \in Sessions, ExpireSession(s)
      PROVE  SessionsMove
  <2>1. \A q \in Sessions : session'[q].user = session[q].user
    BY <1>1, <1>8 DEF ExpireSession, SessionRows
  <2> QED
    BY <2>1 DEF SessionsMove
<1>9. ASSUME NEW h \in Handlers,
             \/ Arrive(h) \/ GetUser(h) \/ VerifyAdmin(h) \/ UpdateUserRow(h) \/ Abort(h)
      PROVE  UNCHANGED session
  BY <1>9, OthersRead
<1> QED
  BY <1>2, <1>4, <1>5, <1>6, <1>7, <1>8, <1>9
  DEF Next, Proceed, CreateUser, ExpireAccess, Forget, vars

\* Nor does the user of a refresh in flight change.
LEMMA RefreshesKeepKnowing ==
    ASSUME AccountsInductive, RefreshesKnow, [Next]_vars
    PROVE  RefreshesKnow'
<1>1. req \in [Handlers -> Requests] /\ SessionsMove
  BY SessionsNeverChangeHands DEF AccountsInductive, TypeOK
<1>2. ASSUME NEW g \in Handlers, req'[g] = req[g]
      PROVE  RefreshKnows(req[g])'
  <2>1. CASE req[g].pc \in {"getUser", "rotate"}
    <3>1. /\ session[req[g].sess].user \in {req[g].uid, Gone}
          /\ req[g].sess \in Sessions /\ req[g].uid \in Users
      BY <1>1, <2>1 DEF RefreshesKnow, RefreshKnows, AccountsInductive, RequestOK, Requests
    <3>2. session'[req[g].sess].user \in {req[g].uid, Gone}
      BY <1>1, <3>1, AccountsAssumption DEF SessionsMove
    <3> QED
      BY <1>2, <3>2 DEF RefreshKnows
  <2> QED
    BY <1>2, <2>1 DEF RefreshKnows
<1>3. ASSUME NEW g \in Handlers, req'[g].pc \notin {"getUser", "rotate"}
      PROVE  RefreshKnows(req[g])'
  BY <1>3 DEF RefreshKnows
<1>4. Idle.pc = "idle"
  BY DEF Idle
<1>5. ASSUME NEW h \in Handlers, NEW r, req' = [req EXCEPT ![h] = r],
             r.pc \in {"getUser", "rotate"} => session'[r.sess].user \in {r.uid, Gone}
      PROVE  RefreshesKnow'
  <2>1. req'[h] = r /\ \A g \in Handlers \ {h} : req'[g] = req[g]
    BY <1>1, <1>5
  <2>2. RefreshKnows(req[h])'
    BY <1>5, <2>1 DEF RefreshKnows
  <2> QED
    BY <1>2, <2>1, <2>2 DEF RefreshesKnow
<1>6. ASSUME NEW h \in Handlers, Finish(h)
      PROVE  RefreshesKnow'
  BY <1>4, <1>5, <1>6 DEF Finish
<1>7. ASSUME NEW h \in Handlers, NEW t \in tokens, Refresh(h, t)
      PROVE  RefreshesKnow'
  <2> DEFINE row == session[t.sess]
             pc == IF row.expired THEN "deleteSession"
                   ELSE IF <<row.secret, row.key>> # <<t.secret, key>> THEN "revoke"
                   ELSE "getUser"
             r == [Idle EXCEPT !.op = "refresh", !.uid = row.user, !.sess = t.sess,
                               !.secret = t.secret, !.pc = pc]
  <2>1. req' = [req EXCEPT ![h] = r] /\ UNCHANGED session
    BY <1>7 DEF Refresh, Start
  <2> HIDE DEF pc
  <2>2. r.uid = row.user /\ r.sess = t.sess
    BY DEF Idle
  <2> HIDE DEF r
  <2>3. session'[r.sess].user \in {r.uid, Gone}
    BY <2>1, <2>2
  <2> QED
    BY <1>5, <2>1, <2>3
<1>8. ASSUME NEW h \in Handlers, GetUser(h)
      PROVE  RefreshesKnow'
  <2> DEFINE row == user[req[h].uid]
             pc == IF MayRefresh(row) THEN "rotate" ELSE "deleteSession"
             r == [req[h] EXCEPT !.pc = pc, !.new = row]
  <2>1. req' = [req EXCEPT ![h] = r] /\ UNCHANGED session /\ req[h].pc = "getUser"
    BY <1>1, <1>8 DEF GetUser, At
  <2> HIDE DEF row, pc
  <2>2. r.uid = req[h].uid /\ r.sess = req[h].sess
    BY <1>1 DEF Requests
  <2> HIDE DEF r
  <2>3. session'[r.sess].user \in {r.uid, Gone}
    BY <2>1, <2>2 DEF RefreshesKnow, RefreshKnows
  <2> QED
    BY <1>5, <2>1, <2>3
<1>9. ASSUME NEW h \in Handlers, NEW step, step \notin {"getUser", "rotate"}, Goto(h, step)
      PROVE  RefreshesKnow'
  <2> DEFINE r == [req[h] EXCEPT !.pc = step]
  <2>1. req' = [req EXCEPT ![h] = r] /\ r.pc = step
    BY <1>1, <1>9 DEF Goto, Requests
  <2> HIDE DEF r
  <2> QED
    BY <1>5, <1>9, <2>1
<1>10. ASSUME NEW h \in Handlers, Arrive(h), ~\E t \in tokens : Refresh(h, t)
       PROVE  RefreshesKnow'
  <2>1. ASSUME NEW u \in Users, Login(h, u)
        PROVE  RefreshesKnow'
    <3> DEFINE r == [Idle EXCEPT !.op = "login", !.pc = "createSession", !.uid = u, !.new = user[u]]
    <3>1. req' = [req EXCEPT ![h] = r] /\ r.pc = "createSession"
      BY <2>1 DEF Login, Start, Idle
    <3> HIDE DEF r
    <3> QED
      BY <1>5, <3>1
  <2>2. ASSUME NEW t \in tokens, Logout(h, t)
        PROVE  RefreshesKnow'
    <3> DEFINE r == [Idle EXCEPT !.op = "logout", !.pc = "deleteSession", !.sess = t.sess]
    <3>1. req' = [req EXCEPT ![h] = r] /\ r.pc = "deleteSession"
      BY <2>2 DEF Logout, Start, Idle
    <3> HIDE DEF r
    <3> QED
      BY <1>5, <3>1
  <2>3. ASSUME NEW t, NEW u, NEW e, NEW ro, NEW a, NEW p, NEW n, UpdateUser(h, t, u, e, ro, a, p, n)
        PROVE  RefreshesKnow'
    <3> DEFINE old == user[u]
               new == [old EXCEPT !.email = e, !.role = ro, !.active = a,
                                  !.pwd = IF n THEN p ELSE old.pwd]
               pc == IF NeedsAdminPassword(old, new, n) THEN "verify" ELSE "updateUser"
               r == [Idle EXCEPT !.op = "put", !.uid = u, !.by = t.email, !.new = new,
                                 !.revoke = RevokesSessions(old, new, n), !.pc = pc]
    <3>1. req' = [req EXCEPT ![h] = r]
      BY <2>3 DEF UpdateUser, Start
    <3>2. pc \notin {"getUser", "rotate"}
      OBVIOUS
    <3> HIDE DEF new, pc
    <3>3. r.pc = pc
      BY DEF Idle
    <3> HIDE DEF r
    <3> QED
      BY <1>5, <3>1, <3>2, <3>3
  <2>4. ASSUME NEW t, NEW u, DeleteUser(h, t, u)
        PROVE  RefreshesKnow'
    <3> DEFINE r == [Idle EXCEPT !.op = "delete", !.pc = "verify", !.uid = u, !.by = t.email]
    <3>1. req' = [req EXCEPT ![h] = r] /\ r.pc = "verify"
      BY <2>4 DEF DeleteUser, Start, Idle
    <3> HIDE DEF r
    <3> QED
      BY <1>5, <3>1
  <2>5. ASSUME NEW t, NEW p, NEW n, UpdateSelf(h, t, p, n)
        PROVE  RefreshesKnow'
    <3> DEFINE u == t.user
               new == [user[u] EXCEPT !.pwd = IF n THEN p ELSE user[u].pwd]
               r == [Idle EXCEPT !.op = "self", !.pc = "updateUser", !.uid = u, !.revoke = n,
                                 !.new = new]
    <3>1. req' = [req EXCEPT ![h] = r]
      BY <2>5 DEF UpdateSelf, Start
    <3> HIDE DEF new
    <3>2. r.pc = "updateUser"
      BY DEF Idle
    <3> HIDE DEF r
    <3> QED
      BY <1>5, <3>1, <3>2
  <2> QED
    BY <1>10, <2>1, <2>2, <2>3, <2>4, <2>5 DEF Arrive
<1>11. ASSUME NEW h \in Handlers, Proceed(h) \/ Abort(h)
       PROVE  RefreshesKnow'
  <2>1. CASE VerifyAdmin(h)
    BY <1>6, <1>9, <2>1 DEF VerifyAdmin
  <2>2. CASE UpdateUserRow(h)
    BY <1>6, <1>9, <2>2 DEF UpdateUserRow
  <2> QED
    BY <1>6, <1>8, <1>11, <2>1, <2>2
    DEF Proceed, CreateSession, Rotate, DeleteSession, RevokeUserSessions, DeleteUserRow, Abort
<1>12. ASSUME NEW newKey, Restart(newKey)
       PROVE  RefreshesKnow'
  BY <1>4, <1>12 DEF Restart, RefreshesKnow, RefreshKnows
<1>13. CASE UNCHANGED req
  BY <1>2, <1>13 DEF RefreshesKnow
<1> QED
  BY <1>7, <1>10, <1>11, <1>12, <1>13 DEF Next, CreateUser, ExpireAccess, Forget, ExpireSession, vars

TokensHaveSession ==
    \A t \in access' \ access :
        \E s \in Sessions :
            /\ session'[s].user = t.user
            /\ session'[s].key = key'
            /\ [sess |-> s, secret |-> session'[s].secret] \in tokens'

LEMMA HandedOut ==
    ASSUME NEW s \in Sessions, NEW x, NEW u, NEW row, HandOut(s, x, u, row),
           session'[s].user = u, session'[s].key = key', session'[s].secret = x
    PROVE  TokensHaveSession
BY DEF HandOut, TokensHaveSession

LEMMA TokensStep ==
    ASSUME AccountsInductive, RefreshesKnow, [Next]_vars
    PROVE  TokensHaveSession
<1>1. session \in [Sessions -> SessionRows]
  BY DEF AccountsInductive, TypeOK
<1>2. CASE access' \subseteq access
  BY <1>2 DEF TokensHaveSession
<1>3. ASSUME NEW h \in Handlers, CreateSession(h)
      PROVE  TokensHaveSession
  <2>1. CASE Exists(req[h].uid)
    <3> DEFINE row(x) == [user |-> req[h].uid, secret |-> x, key |-> key, expired |-> FALSE]
    <3>1. PICK s \in Sessions, x \in Secrets :
            session' = [session EXCEPT ![s] = row(x)] /\ HandOut(s, x, req[h].uid, req[h].new)
      BY <1>3, <2>1 DEF CreateSession
    <3>2. session'[s] = row(x) /\ UNCHANGED key
      BY <1>1, <1>3, <3>1 DEF CreateSession
    <3> QED
      BY <3>1, <3>2, HandedOut
  <2> QED
    BY <1>2, <1>3, <2>1 DEF CreateSession
<1>4. ASSUME NEW h \in Handlers, Rotate(h)
      PROVE  TokensHaveSession
  <2> DEFINE s == req[h].sess
  <2>1. s \in Sessions /\ session[s].user \in {req[h].uid, Gone}
    BY <1>4 DEF Rotate, At, RefreshesKnow, RefreshKnows, AccountsInductive, RequestOK
  <2>2. CASE SessionUpdated(s)
    <3>1. PICK x \in Secrets :
            /\ session' = [session EXCEPT ![s].secret = x, ![s].key = key, ![s].expired = FALSE]
            /\ HandOut(s, x, req[h].uid, req[h].new)
      BY <1>4, <2>2 DEF Rotate
    <3>2. session[s].user = req[h].uid
      BY <2>1, <2>2, AccountsAssumption DEF SessionUpdated, HasSession
    <3>3. session'[s].user = req[h].uid /\ session'[s].secret = x /\ session'[s].key = key
      BY <1>1, <2>1, <3>1, <3>2 DEF SessionRows
    <3>4. UNCHANGED key
      BY <1>4 DEF Rotate
    <3> HIDE DEF s
    <3> QED
      BY <2>1, <3>1, <3>3, <3>4, HandedOut
  <2> QED
    BY <1>2, <1>4, <2>2 DEF Rotate
<1>5. ASSUME NEW h \in Handlers,
             \/ Arrive(h) \/ GetUser(h) \/ VerifyAdmin(h) \/ UpdateUserRow(h) \/ DeleteUserRow(h)
             \/ DeleteSession(h) \/ RevokeUserSessions(h) \/ Abort(h)
      PROVE  UNCHANGED access
  BY <1>5, OthersRead DEF DeleteUserRow, DeleteSession, RevokeUserSessions
<1> QED
  BY <1>2, <1>3, <1>4, <1>5
  DEF Next, Proceed, CreateUser, ExpireAccess, ExpireSession, Forget, Restart, vars

\* Who is handed an access token has a session, which the refresh token that comes with it
\* opens: no refresh overtaken by a logout, a revocation or a deletion hands anything out
\* (RefreshSession, UpdateSession, CreateUserSession).
THEOREM TokensAlwaysComeWithSession == Spec => TokensComeWithSession
<1>1. Init => AccountsInductive /\ RefreshesKnow
  <2>1. Idle.pc = "idle"
    BY DEF Idle
  <2>2. Init => RefreshesKnow
    BY <2>1 DEF Init, RefreshesKnow, RefreshKnows
  <2> QED
    BY <2>2, InitFine
<1>2. AccountsInductive /\ RefreshesKnow /\ [Next]_vars => AccountsInductive' /\ RefreshesKnow'
  BY NextFine, RefreshesKeepKnowing DEF IndStep
<1>3. AccountsInductive /\ RefreshesKnow /\ [Next]_vars => [TokensHaveSession]_vars
  BY TokensStep
<1> QED
  BY <1>1, <1>2, <1>3, PTL DEF Spec, TokensComeWithSession, TokensHaveSession
=============================================================================
