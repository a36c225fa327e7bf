---------------------------- MODULE MCAccounts ----------------------------
(* Accounts for TLC.                                                       *)
EXTENDS Accounts

\* What the requests of a behaviour do: "admins" work on the users table, or users log in
\* and out, and refresh, while one of them is deactivated or deleted ("sessions").
VARIABLE work
mcVars == <<vars, work>>

Requested == [admins   |-> {"put", "self", "delete"},
              sessions |-> {"login", "refresh", "logout", "delete"}]

ClaimsOf(u, row) == [user |-> u, email |-> row.email, role |-> row.role]

EmailOf == CHOOSE e \in [Users -> Emails] : \A u, v \in Users : u # v => e[u] # e[v]

LiveUser(u, role) ==
    [state |-> "live", email |-> EmailOf[u], role |-> role,
     pwd |-> CHOOSE p \in Passwords : TRUE, active |-> TRUE]

\* A database in use: every user has an unexpired access token; FirstUser is a sysadmin,
\* the role of the others varies, or they are yet to be created.
InUse ==
    /\ \E r \in [Users -> Roles], there \in BOOLEAN :
         /\ r[FirstUser] = "sysadmin"
         /\ user = [u \in Users |-> IF u = FirstUser \/ there THEN LiveUser(u, r[u]) ELSE NoUser]
    /\ session = [s \in Sessions |-> NoSession]
    /\ key = 0
    /\ tokens = {}
    /\ access = {ClaimsOf(u, user[u]) : u \in {v \in Users : Exists(v)}}
    /\ req = [h \in Handlers |-> Idle]

AnyOf(S) == CHOOSE x \in S : TRUE

\* FirstUser is about to deactivate the other user (UpdateUser, VerifyAdmin are behind),
\* who logged in before and is free to do so again until the row is written.  It does not
\* matter which session, secret and handler these are.
Deactivating ==
    LET s == AnyOf(Sessions)
        x == AnyOf(Secrets)
    IN  \E u \in Users \ {FirstUser} :
      /\ user = [v \in Users |-> LiveUser(v, IF v = FirstUser THEN "sysadmin" ELSE "user")]
      /\ session = [[r \in Sessions |-> NoSession] EXCEPT
                       ![s].user = u, ![s].secret = x]
      /\ key = 0
      /\ tokens = {[sess |-> s, secret |-> x]}
      /\ access = {ClaimsOf(v, user[v]) : v \in Users}
      /\ req = [[g \in Handlers |-> Idle] EXCEPT
                   ![AnyOf(Handlers)] = [Idle EXCEPT !.op = "put", !.pc = "updateUser", !.uid = u,
                             !.by = EmailOf[FirstUser], !.revoke = TRUE,
                             !.new = [user[u] EXCEPT !.active = FALSE]]]

MCInit == \/ work = "admins" /\ InUse
          \/ work = "sessions" /\ Deactivating

\* A step of the workload.  While administrators work, the process keeps its key.
InWork ==
    /\ \A h \in Handlers : req[h].op # req'[h].op => req'[h].op \in Requested[work] \cup {"none"}
    /\ work = "admins" =>
         /\ key' = key
         /\ \A h \in Handlers : req[h].op = "none" /\ req'[h].op = "put" /\ req'[h].uid # FirstUser
              => req'[h].new.email = user[req'[h].uid].email

MCSpec == MCInit /\ [][Next /\ UNCHANGED work /\ InWork]_mcVars /\ TimePasses
=============================================================================
