------------------------ MODULE SessionClientProofs ------------------------
(***************************************************************************)
(* For every number of tabs, requests, expiries and failures: no write is  *)
(* executed twice, no request is forgotten by the renewal it waits for,    *)
(* and the server sees no refresh token twice unless an answer was lost or *)
(* two tabs renewed at once.                                               *)
(***************************************************************************)
EXTENDS SessionClient, RateLimits, FiniteSetTheorems, TLAPS

LEMMA BoundsAreNumbers ==
    /\ MaxSessions \in Nat /\ MaxSessions >= 1
    /\ MaxSecrets \in Nat /\ MaxSecrets >= 1
    /\ MaxExpiries \in Nat
    /\ MaxFailures \in Nat
<1>1. Cardinality(Requests) \in Nat
  BY Bounds, FS_CardinalityType
<1> QED
  BY <1>1, Bounds

-----------------------------------------------------------------------------
(* The requests. *)

\* A failed attempt at a read may have been executed: what a later attempt has spare.
Spare(row) == IF row.read /\ row.try # "first" THEN 1 ELSE 0

\* How often a request has run follows from where it stands.
RunsBounded(row) ==
    /\ row.pc = "idle" => row.runs = 0
    /\ row.pc \in {"sent", "denied", "waiting"} => row.runs <= Spare(row)
    /\ row.pc \in {"answered", "done"} => row.runs >= 1
    /\ row.runs <= 1 + Spare(row)

RowOK(row) == row \in RequestRows /\ RunsBounded(row)
RowsOK == req \in [Requests -> RequestRows] /\ \A r \in Requests : RowOK(req[r])

\* One request takes a step.
LEMMA RowStep ==
    ASSUME RowsOK, NEW r \in Requests, NEW row, RowOK(row), req' = [req EXCEPT ![r] = row]
    PROVE  RowsOK'
BY DEF RowsOK, RowOK

\* The rows that replace a row: sent once more, given up, and without its credentials.
LEMMA SentAgainOK ==
    ASSUME NEW row, RowOK(row), NEW try \in {"retry", "replay"}, NEW cred \in BOOLEAN,
           row.pc = "waiting" \/ MayRetry(row), row.pc # "idle"
    PROVE  RowOK([row EXCEPT !.pc = "sent", !.try = try, !.cred = cred])
<1> DEFINE new == [row EXCEPT !.pc = "sent", !.try = try, !.cred = cred]
<1>1. new \in RequestRows
  BY DEF RowOK, RequestRows
<1>2. new.pc = "sent" /\ new.try = try /\ new.read = row.read /\ new.runs = row.runs
  BY DEF RowOK, RequestRows
<1>3. row.runs \in 0..2
  BY DEF RowOK, RequestRows
<1> HIDE DEF new
<1>4. RunsBounded(new)
  BY <1>2, <1>3 DEF RowOK, RunsBounded, Spare, MayRetry
<1> QED
  BY <1>1, <1>4 DEF RowOK, new

LEMMA GivenUpOK ==
    ASSUME NEW row, RowOK(row)
    PROVE  RowOK([row EXCEPT !.pc = "failed"])
<1> DEFINE new == [row EXCEPT !.pc = "failed"]
<1>1. new \in RequestRows
  BY DEF RowOK, RequestRows
<1>2. new.pc = "failed" /\ new.try = row.try /\ new.read = row.read /\ new.runs = row.runs
  BY DEF RowOK, RequestRows
<1> HIDE DEF new
<1>3. RunsBounded(new)
  BY <1>2 DEF RowOK, RunsBounded, Spare
<1> QED
  BY <1>1, <1>3 DEF RowOK, new

LEMMA ExpiredOK ==
    ASSUME NEW row, RowOK(row)
    PROVE  RowOK([row EXCEPT !.cred = FALSE])
<1> DEFINE new == [row EXCEPT !.cred = FALSE]
<1>1. new \in RequestRows
  BY DEF RowOK, RequestRows
<1>2. new.pc = row.pc /\ new.try = row.try /\ new.read = row.read /\ new.runs = row.runs
  BY DEF RowOK, RequestRows
<1> HIDE DEF new
<1>3. RunsBounded(new)
  BY <1>2 DEF RowOK, RunsBounded, Spare
<1> QED
  BY <1>1, <1>3 DEF RowOK, new

LEMMA ReplayedOK ==
    ASSUME RowsOK, NEW t, NEW ok \in BOOLEAN, req' = Replayed(t, ok)
    PROVE  RowsOK'
<1>1. ASSUME NEW q \in Requests
      PROVE  RowOK(req'[q])
  <2>1. CASE q \in Waiting(t)
    <3>1. RowOK(req[q]) /\ req[q].pc = "waiting"
      BY <2>1 DEF RowsOK, Waiting
    <3>2. RowOK([req[q] EXCEPT !.pc = "sent", !.try = "replay", !.cred = ok])
      BY <3>1, SentAgainOK
    <3> QED
      BY <2>1, <3>2 DEF Replayed
  <2>2. CASE q \notin Waiting(t)
    BY <2>2 DEF Replayed, RowsOK
  <2> QED
    BY <2>1, <2>2
<1>2. req' \in [Requests -> RequestRows]
  BY <1>1 DEF Replayed, RowOK
<1> QED
  BY <1>1, <1>2 DEF RowsOK

LEMMA AbandonedOK ==
    ASSUME RowsOK, NEW S, req' = Abandoned(S)
    PROVE  RowsOK'
<1>1. ASSUME NEW q \in Requests
      PROVE  RowOK(req'[q])
  BY <1>1, GivenUpOK DEF RowsOK, Abandoned
<1>2. req' \in [Requests -> RequestRows]
  BY <1>1 DEF Abandoned, RowOK
<1> QED
  BY <1>1, <1>2 DEF RowsOK

LEMMA RowsStep ==
    ASSUME TypeOK, RowsOK, [Next]_vars
    PROVE  RowsOK'
<1> USE DEF RowsOK
<1>1. ASSUME NEW r \in Requests, NEW t \in Tabs, NEW read \in BOOLEAN, Send(r, t, read)
      PROVE  RowsOK'
  <2> DEFINE new == Sent([req[r] EXCEPT !.tab = t, !.read = read], "first")
  <2>1. RowOK(req[r]) /\ req[r].pc = "idle" /\ access \in BOOLEAN
    BY <1>1 DEF Send, TypeOK
  <2>2. new \in RequestRows
    BY <2>1 DEF RowOK, RequestRows, Sent
  <2>3. new.pc = "sent" /\ new.runs = req[r].runs /\ new.try = "first"
    BY <2>1 DEF RowOK, RequestRows, Sent
  <2>4. req[r].runs = 0
    BY <2>1 DEF RowOK, RunsBounded
  <2>5. req' = [req EXCEPT ![r] = new]
    BY <1>1 DEF Send
  <2> HIDE DEF new
  <2>6. RowOK(new)
    BY <2>2, <2>3, <2>4 DEF RowOK, RunsBounded, Spare
  <2> QED
    BY <2>5, <2>6, RowStep
<1>2. ASSUME NEW r \in Requests, Serve(r)
      PROVE  RowsOK'
  <2> DEFINE new == IF req[r].cred THEN [req[r] EXCEPT !.pc = "answered", !.runs = req[r].runs + 1]
                    ELSE [req[r] EXCEPT !.pc = "denied"]
  <2>1. RowOK(req[r]) /\ req[r].pc = "sent" /\ req[r] \in RequestRows
    BY <1>2 DEF Serve, RowOK
  <2>2. req[r].runs \in 0..2 /\ req[r].runs <= Spare(req[r]) /\ Spare(req[r]) \in {0, 1}
    BY <2>1 DEF RowOK, RunsBounded, RequestRows, Spare
  <2>3. req' = [req EXCEPT ![r] = new]
    BY <1>2, <2>1 DEF Serve, RequestRows
  <2>4. new \in RequestRows
    <3>1. req[r].runs + 1 \in 0..2
      BY <2>2
    <3> QED
      BY <2>1, <3>1 DEF RequestRows
  <2>5. /\ new.read = req[r].read /\ new.try = req[r].try
        /\ new.pc = IF req[r].cred THEN "answered" ELSE "denied"
        /\ new.runs = IF req[r].cred THEN req[r].runs + 1 ELSE req[r].runs
    BY <2>1 DEF RequestRows
  <2> HIDE DEF new
  <2>6. Spare(new) = Spare(req[r])
    BY <2>5 DEF Spare
  <2>7. RowOK(new)
    BY <2>2, <2>4, <2>5, <2>6 DEF RowOK, RunsBounded
  <2> QED
    BY <2>3, <2>7, RowStep
<1>3. ASSUME NEW r \in Requests, Receive(r)
      PROVE  RowsOK'
  <2> DEFINE new == [req[r] EXCEPT !.pc = "done"]
  <2>1. RowOK(req[r]) /\ req[r].pc = "answered" /\ req[r] \in RequestRows
    BY <1>3 DEF Receive, RowOK
  <2>2. new \in RequestRows
    BY <2>1 DEF RequestRows
  <2>3. /\ new.read = req[r].read /\ new.try = req[r].try /\ new.runs = req[r].runs
        /\ new.pc = "done"
    BY <2>1 DEF RequestRows
  <2>4. req' = [req EXCEPT ![r] = new]
    BY <1>3 DEF Receive
  <2> HIDE DEF new
  <2>5. RowOK(new)
    BY <2>1, <2>2, <2>3 DEF RowOK, RunsBounded, Spare
  <2> QED
    BY <2>4, <2>5, RowStep
<1>4. ASSUME NEW r \in Requests, ReceiveDenied(r)
      PROVE  RowsOK'
  <2> DEFINE new == [req[r] EXCEPT !.pc = IF req[r].try = "replay" THEN "failed" ELSE "waiting"]
  <2>1. RowOK(req[r]) /\ req[r].pc = "denied" /\ req[r] \in RequestRows
    BY <1>4 DEF ReceiveDenied, RowOK
  <2>2. new \in RequestRows
    BY <2>1 DEF RequestRows
  <2>3. /\ new.read = req[r].read /\ new.try = req[r].try /\ new.runs = req[r].runs
        /\ new.pc \in {"failed", "waiting"}
    BY <2>1 DEF RequestRows
  <2>4. req' = [req EXCEPT ![r] = new]
    BY <1>4 DEF ReceiveDenied
  <2> HIDE DEF new
  <2>5. RowOK(new)
    BY <2>1, <2>2, <2>3 DEF RowOK, RunsBounded, Spare
  <2> QED
    BY <2>4, <2>5, RowStep
<1>5. ASSUME NEW r \in Requests, LoseRequest(r)
      PROVE  RowsOK'
  <2>1. RowOK(req[r]) /\ req[r].pc # "idle" /\ access \in BOOLEAN
    BY <1>5 DEF LoseRequest, UnderWay, TypeOK
  <2>2. CASE MayRetry(req[r])
    <3>1. req' = [req EXCEPT ![r] = Sent(req[r], "retry")]
      BY <1>5, <2>2 DEF LoseRequest
    <3>2. RowOK(Sent(req[r], "retry"))
      BY <2>1, <2>2, SentAgainOK DEF Sent
    <3> QED
      BY <3>1, <3>2, RowStep
  <2>3. CASE ~MayRetry(req[r])
    <3>1. req' = [req EXCEPT ![r] = [req[r] EXCEPT !.pc = "failed"]]
      BY <1>5, <2>3 DEF LoseRequest
    <3> QED
      BY <2>1, <3>1, GivenUpOK, RowStep
  <2> QED
    BY <2>2, <2>3
<1>6. ASSUME NEW t \in Tabs, RefreshReturns(t)
      PROVE  RowsOK'
  BY <1>6, ReplayedOK DEF RefreshReturns
<1>7. ASSUME NEW t \in Tabs, LoseRefresh(t)
      PROVE  RowsOK'
  BY <1>7, AbandonedOK DEF LoseRefresh
<1>8. ASSUME NEW t \in Tabs, NEW ok \in BOOLEAN, DialogCloses(t, ok)
      PROVE  RowsOK'
  BY <1>8, ReplayedOK DEF DialogCloses
<1>9. ASSUME NEW t \in Tabs, LoginReturns(t) \/ CheckReturns(t)
      PROVE  RowsOK'
  BY <1>8, <1>9 DEF LoginReturns, CheckReturns, TypeOK
<1>10. ASSUME NEW t \in Tabs, NEW stays \in BOOLEAN, LogOut(t, stays)
       PROVE  RowsOK'
  BY <1>10, AbandonedOK DEF LogOut
<1>11. CASE ExpireAccess
  <2>1. ASSUME NEW q \in Requests
        PROVE  RowOK(req'[q])
    BY <1>11, ExpiredOK DEF ExpireAccess
  <2>2. req' \in [Requests -> RequestRows]
    BY <1>11, <2>1 DEF ExpireAccess, RowOK
  <2> QED
    BY <2>1, <2>2
<1>12. CASE UNCHANGED req
  BY <1>12
<1> HIDE DEF RowsOK
<1>13. ASSUME NEW t \in Tabs,
              \/ CompareToken(t) \/ RotateToken(t) \/ RefusalReturns(t) \/ RefuseRefresh(t)
              \/ SubmitReauth(t) \/ AcceptLogin(t) \/ LoginFails(t) \/ CheckSession(t)
              \/ AnswerCheck(t)
       PROVE  RowsOK'
  BY <1>12, <1>13 DEF CompareToken, RotateToken, RefusalReturns, RefuseRefresh, SubmitReauth,
       AcceptLogin, LoginFails, CheckSession, AnswerCheck
<1>14. CASE EndSessions \/ UNCHANGED vars
  BY <1>12, <1>14 DEF EndSessions, vars
<1> QED
  BY <1>1, <1>2, <1>3, <1>4, <1>5, <1>6, <1>7, <1>9, <1>10, <1>11, <1>13, <1>14
     DEF Next, Progress, Refreshing, LoggingIn, Checking

-----------------------------------------------------------------------------
(* The types. *)

LEMMA NothingTyped ==
    /\ NoToken \in Tokens
    /\ NoRenewal \in Renewals
    /\ NoDialog \in Dialogs
    /\ NoToken.sess = 0 /\ NoToken.secret = 0
    /\ NoRenewal.pc = "none" /\ NoRenewal.token = NoToken
    /\ NoDialog.login = "none" /\ NoDialog.token = NoToken
BY BoundsAreNumbers DEF NoToken, Tokens, NoRenewal, Renewals, NoDialog, Dialogs

\* Only the renewal, or the dialog, of one tab changes.
RenewalOf(t) ==
    /\ renewal' \in [Tabs -> Renewals]
    /\ \A u \in Tabs \ {t} : renewal'[u] = renewal[u]
DialogOf(t) ==
    /\ dialog' \in [Tabs -> Dialogs]
    /\ \A u \in Tabs \ {t} : dialog'[u] = dialog[u]

LEMMA RenewalWrite ==
    ASSUME TypeOK, NEW t \in Tabs, NEW row \in Renewals, renewal' = [renewal EXCEPT ![t] = row]
    PROVE  RenewalOf(t) /\ renewal'[t] = row
BY DEF TypeOK, RenewalOf

LEMMA DialogWrite ==
    ASSUME TypeOK, NEW t \in Tabs, NEW row \in Dialogs, dialog' = [dialog EXCEPT ![t] = row]
    PROVE  DialogOf(t) /\ dialog'[t] = row
BY DEF TypeOK, DialogOf

LEMMA NewRenewal ==
    ASSUME TypeOK, NEW r \in Requests, ReceiveDenied(r), UNCHANGED renewal => FALSE
    PROVE  /\ req[r].tab \in Tabs
           /\ RenewalOf(req[r].tab)
           /\ renewal[req[r].tab].pc = "none"
           /\ renewal'[req[r].tab].pc = "sent" /\ renewal'[req[r].tab].token = cookie
           /\ excused' = (excused \/ OtherRefreshing(req[r].tab))
<1> DEFINE t == req[r].tab
           row == [NoRenewal EXCEPT !.pc = "sent", !.token = cookie]
<1>1. t \in Tabs
  BY DEF TypeOK, RequestRows
<1>2. /\ row \in Renewals /\ row.pc = "sent" /\ row.token = cookie
  BY NothingTyped DEF TypeOK, Renewals
<1>3. /\ renewal' = [renewal EXCEPT ![t] = row]
      /\ renewal[t].pc = "none"
      /\ excused' = (excused \/ OtherRefreshing(t))
  BY DEF ReceiveDenied, SharesRenewal
<1> HIDE DEF row, t
<1>4. RenewalOf(t) /\ renewal'[t] = row
  BY <1>1, <1>2, <1>3, RenewalWrite
<1> QED
  BY <1>1, <1>2, <1>3, <1>4 DEF t

LEMMA Compared ==
    ASSUME TypeOK, NEW t \in Tabs, CompareToken(t)
    PROVE  /\ RenewalOf(t)
           /\ renewal'[t].pc \in {"matched", "refused"}
           /\ renewal'[t].token = renewal[t].token
<1> DEFINE matched == [renewal[t] EXCEPT !.pc = "matched"]
           refused(c) == [renewal[t] EXCEPT !.pc = "refused", !.clears = c]
<1>1. renewal[t] \in Renewals
  BY DEF TypeOK
<1>2. matched \in Renewals /\ matched.pc = "matched" /\ matched.token = renewal[t].token
  BY <1>1 DEF Renewals
<1>3. ASSUME NEW c \in BOOLEAN
      PROVE  /\ refused(c) \in Renewals /\ refused(c).pc = "refused"
             /\ refused(c).token = renewal[t].token
  BY <1>1 DEF Renewals
<1>4. \/ renewal' = [renewal EXCEPT ![t] = matched]
      \/ renewal' = [renewal EXCEPT ![t] = refused(TRUE)]
      \/ renewal' = [renewal EXCEPT ![t] = refused(FALSE)]
  <2>1. CASE renewal[t].token.sess > 0
    BY <2>1 DEF CompareToken
  <2>2. CASE ~(renewal[t].token.sess > 0)
    <3>1. (renewal[t].token.sess > 0) = FALSE
      BY <2>2
    <3>2. \/ renewal' = [renewal EXCEPT ![t].pc = "matched"]
          \/ renewal' = [renewal EXCEPT ![t].pc = "refused", ![t].clears = TRUE]
          \/ renewal' = [renewal EXCEPT ![t].pc = "refused", ![t].clears = (renewal[t].token.sess > 0)]
      BY DEF CompareToken
    <3>3. \/ renewal' = [renewal EXCEPT ![t].pc = "matched"]
          \/ renewal' = [renewal EXCEPT ![t].pc = "refused", ![t].clears = TRUE]
          \/ renewal' = [renewal EXCEPT ![t].pc = "refused", ![t].clears = FALSE]
      BY <3>1, <3>2, Zenon
    <3> QED
      BY <3>3
  <2> QED
    BY <2>1, <2>2
<1>5. refused(TRUE) \in Renewals /\ refused(FALSE) \in Renewals
  BY <1>3
<1>6. /\ refused(TRUE).pc = "refused" /\ refused(TRUE).token = renewal[t].token
      /\ refused(FALSE).pc = "refused" /\ refused(FALSE).token = renewal[t].token
  BY <1>3
<1> HIDE DEF matched, refused
<1> QED
  BY <1>2, <1>4, <1>5, <1>6, RenewalWrite

LEMMA Rotated ==
    ASSUME TypeOK, NEW t \in Tabs, RotateToken(t)
    PROVE  LET s == renewal[t].token.sess IN
           /\ RenewalOf(t)
           /\ renewal'[t].token.sess = s
           /\ \/ /\ session[s] = 0 /\ UNCHANGED session
                 /\ renewal'[t].pc = "refused"
              \/ /\ session[s] # 0 /\ session[s] + 1 \in 1..MaxSecrets
                 /\ session' = [session EXCEPT ![s] = session[s] + 1]
                 /\ renewal'[t].pc = "rotated" /\ renewal'[t].token.secret = session[s] + 1
<1> DEFINE s == renewal[t].token.sess
           refused == [renewal[t] EXCEPT !.pc = "refused", !.clears = TRUE]
           rotated == [renewal[t] EXCEPT !.pc = "rotated", !.token.secret = session[s] + 1]
<1>1. renewal[t] \in Renewals /\ renewal[t].token \in Tokens /\ s \in 0..MaxSessions
  BY DEF TypeOK, Renewals, Tokens
<1>2. session[s] \in 0..MaxSecrets
  BY <1>1 DEF TypeOK
<1>3. CASE session[s] = 0
  <2>1. refused \in Renewals /\ refused.pc = "refused" /\ refused.token = renewal[t].token
    BY <1>1 DEF Renewals
  <2>2. renewal' = [renewal EXCEPT ![t] = refused] /\ UNCHANGED session
    BY <1>3 DEF RotateToken
  <2> HIDE DEF refused
  <2> QED
    BY <1>3, <2>1, <2>2, RenewalWrite
<1>4. CASE session[s] # 0
  <2>1. session[s] + 1 \in 0..MaxSecrets /\ session[s] + 1 \in 1..MaxSecrets
    BY <1>2, <1>4, BoundsAreNumbers DEF RotateToken
  <2>2. rotated \in Renewals
    BY <1>1, <2>1 DEF Renewals, Tokens
  <2>3. /\ rotated.pc = "rotated" /\ rotated.token.sess = s
        /\ rotated.token.secret = session[s] + 1
    BY <1>1 DEF Renewals, Tokens
  <2>4. /\ renewal' = [renewal EXCEPT ![t] = rotated]
        /\ session' = [session EXCEPT ![s] = session[s] + 1]
    BY <1>4 DEF RotateToken
  <2> HIDE DEF rotated
  <2>5. RenewalOf(t) /\ renewal'[t] = rotated
    BY <2>2, <2>4, RenewalWrite
  <2> QED
    BY <1>4, <2>1, <2>3, <2>4, <2>5
<1> QED
  BY <1>3, <1>4

LEMMA RenewalEnds ==
    ASSUME TypeOK, NEW t \in Tabs, renewal' = [renewal EXCEPT ![t] = NoRenewal]
    PROVE  RenewalOf(t) /\ renewal'[t] = NoRenewal
BY NothingTyped, RenewalWrite

LEMMA RenewalTurns ==
    ASSUME TypeOK, NEW t \in Tabs, NEW pc \in {"dialog", "left"},
           renewal' = [renewal EXCEPT ![t] = [NoRenewal EXCEPT !.pc = pc]]
    PROVE  RenewalOf(t) /\ renewal'[t].pc = pc /\ renewal'[t].token = NoToken
<1> DEFINE row == [NoRenewal EXCEPT !.pc = pc]
<1>1. row \in Renewals /\ row.pc = pc /\ row.token = NoToken
  BY NothingTyped DEF Renewals
<1> HIDE DEF row
<1>2. renewal' = [renewal EXCEPT ![t] = row]
  BY DEF row
<1> QED
  BY <1>1, <1>2, RenewalWrite

LEMMA LimitRefuses ==
    ASSUME TypeOK, NEW t \in Tabs, RefuseRefresh(t)
    PROVE  RenewalOf(t) /\ renewal'[t].pc = "refused" /\ renewal'[t].token = renewal[t].token
<1> DEFINE row == [renewal[t] EXCEPT !.pc = "refused"]
<1>1. row \in Renewals /\ row.pc = "refused" /\ row.token = renewal[t].token
  BY DEF TypeOK, Renewals
<1>2. renewal' = [renewal EXCEPT ![t] = row]
  BY DEF RefuseRefresh
<1> HIDE DEF row
<1> QED
  BY <1>1, <1>2, RenewalWrite

\* The logins of the dialogs, and the tokens they got, stay as they are.
LoginsKept ==
    /\ dialog' \in [Tabs -> Dialogs]
    /\ \A u \in Tabs : dialog'[u].login = dialog[u].login /\ dialog'[u].token = dialog[u].token

LEMMA Submitted ==
    ASSUME TypeOK, NEW t \in Tabs, SubmitReauth(t)
    PROVE  DialogOf(t) /\ dialog'[t].login = "sent" /\ dialog'[t].token = dialog[t].token
<1> DEFINE row == [dialog[t] EXCEPT !.login = "sent"]
<1>1. row \in Dialogs /\ row.login = "sent" /\ row.token = dialog[t].token
  BY DEF TypeOK, Dialogs
<1>2. dialog' = [dialog EXCEPT ![t] = row]
  BY DEF SubmitReauth
<1> HIDE DEF row
<1> QED
  BY <1>1, <1>2, DialogWrite

LEMMA Accepted ==
    ASSUME TypeOK, NEW t \in Tabs, AcceptLogin(t)
    PROVE  /\ DialogOf(t)
           /\ dialog'[t].token.sess = created + 1 /\ dialog'[t].token.secret = 1
           /\ created + 1 \in 1..MaxSessions
<1> DEFINE row == [dialog[t] EXCEPT !.login = "accepted", !.token = [sess |-> created + 1, secret |-> 1]]
<1>1. created + 1 \in 1..MaxSessions
  BY BoundsAreNumbers DEF AcceptLogin, TypeOK
<1>2. [sess |-> created + 1, secret |-> 1] \in Tokens
  BY <1>1, BoundsAreNumbers DEF Tokens
<1>3. row \in Dialogs /\ row.token = [sess |-> created + 1, secret |-> 1]
  BY <1>2 DEF TypeOK, Dialogs
<1>4. dialog' = [dialog EXCEPT ![t] = row]
  BY DEF AcceptLogin
<1> HIDE DEF row
<1>5. DialogOf(t) /\ dialog'[t] = row
  BY <1>3, <1>4, DialogWrite
<1> QED
  BY <1>1, <1>3, <1>5

LEMMA LoginEnds ==
    ASSUME TypeOK, NEW t \in Tabs, LoginReturns(t) \/ LoginFails(t)
    PROVE  DialogOf(t) /\ dialog'[t].login = "none" /\ dialog'[t].token = NoToken
<1> DEFINE row == [dialog[t] EXCEPT !.login = "none", !.token = NoToken]
<1>1. row \in Dialogs /\ row.login = "none" /\ row.token = NoToken
  BY NothingTyped DEF TypeOK, Dialogs
<1>2. dialog' = [dialog EXCEPT ![t] = row]
  BY DEF LoginReturns, LoginFails
<1> HIDE DEF row
<1> QED
  BY <1>1, <1>2, DialogWrite

\* A check of the session has nothing to do with the login.
LEMMA ChecksKeepLogins ==
    ASSUME TypeOK, NEW t \in Tabs, CheckSession(t) \/ AnswerCheck(t) \/ CheckReturns(t)
    PROVE  LoginsKept
<1>1. dialog[t] \in Dialogs /\ access \in BOOLEAN
  BY DEF TypeOK
<1>2. ASSUME NEW row \in Dialogs, row.login = dialog[t].login, row.token = dialog[t].token,
             dialog' = [dialog EXCEPT ![t] = row]
      PROVE  LoginsKept
  BY <1>2, DialogWrite DEF LoginsKept, DialogOf, TypeOK
<1> DEFINE asked == [dialog[t] EXCEPT !.check = "sent", !.cred = access]
           valid == [dialog[t] EXCEPT !.check = "valid", !.cred = FALSE]
           not == [dialog[t] EXCEPT !.check = "none", !.cred = FALSE]
           over == [dialog[t] EXCEPT !.check = "none"]
<1>3. /\ asked \in Dialogs /\ asked.login = dialog[t].login /\ asked.token = dialog[t].token
      /\ valid \in Dialogs /\ valid.login = dialog[t].login /\ valid.token = dialog[t].token
      /\ not \in Dialogs /\ not.login = dialog[t].login /\ not.token = dialog[t].token
      /\ over \in Dialogs /\ over.login = dialog[t].login /\ over.token = dialog[t].token
  BY <1>1 DEF Dialogs
<1>4. \/ dialog' = [dialog EXCEPT ![t] = asked] \/ dialog' = [dialog EXCEPT ![t] = valid]
      \/ dialog' = [dialog EXCEPT ![t] = not] \/ dialog' = [dialog EXCEPT ![t] = over]
  <2>1. CASE CheckSession(t)
    BY <2>1 DEF CheckSession
  <2>2. CASE AnswerCheck(t)
    <3>1. PICK reached \in BOOLEAN : dialog' =
            [dialog EXCEPT ![t].check = IF dialog[t].cred /\ reached THEN "valid" ELSE "none",
                           ![t].cred = FALSE]
      BY <2>2 DEF AnswerCheck
    <3>2. CASE dialog[t].cred /\ reached
      BY <3>1, <3>2
    <3>3. CASE ~(dialog[t].cred /\ reached)
      BY <3>1, <3>3
    <3> QED
      BY <3>2, <3>3
  <2>3. CASE CheckReturns(t)
    BY <2>3 DEF CheckReturns
  <2> QED
    BY <2>1, <2>2, <2>3
<1> HIDE DEF asked, valid, not, over
<1> QED
  BY <1>2, <1>3, <1>4

LEMMA ExpiryKeepsLogins ==
    ASSUME TypeOK, ExpireAccess
    PROVE  LoginsKept
<1>1. ASSUME NEW u \in Tabs
      PROVE  /\ dialog'[u] \in Dialogs
             /\ dialog'[u].login = dialog[u].login /\ dialog'[u].token = dialog[u].token
  BY DEF ExpireAccess, TypeOK, Dialogs
<1> QED
  BY <1>1 DEF ExpireAccess, LoginsKept

LEMMA LoggedOut ==
    ASSUME TypeOK, NEW t \in Tabs, NEW stays \in BOOLEAN, LogOut(t, stays)
    PROVE  /\ renewal[t].pc = "dialog"
           /\ \/ stays /\ UNCHANGED <<renewal, dialog, req>>
              \/ /\ RenewalOf(t) /\ renewal'[t].pc = "left" /\ renewal'[t].token = NoToken
                 /\ DialogOf(t) /\ dialog'[t] = NoDialog
                 /\ req' = Abandoned({r \in Requests : Open(r) /\ req[r].tab = t})
<1>1. CASE stays
  BY <1>1 DEF LogOut, InDialog
<1>2. CASE ~stays
  <2>1. /\ renewal' = [renewal EXCEPT ![t] = [NoRenewal EXCEPT !.pc = "left"]]
        /\ dialog' = [dialog EXCEPT ![t] = NoDialog]
        /\ req' = Abandoned({r \in Requests : Open(r) /\ req[r].tab = t})
        /\ renewal[t].pc = "dialog"
    BY <1>2 DEF LogOut, InDialog
  <2> QED
    BY <2>1, RenewalTurns, DialogWrite, NothingTyped
<1> QED
  BY <1>1, <1>2

\* The end of a dialog, if there still is one.
LEMMA Closed ==
    ASSUME TypeOK, NEW t \in Tabs, NEW ok \in BOOLEAN, DialogCloses(t, ok)
    PROVE  /\ RenewalOf(t)
           /\ \/ UNCHANGED <<renewal, req>>
              \/ /\ renewal[t].pc = "dialog" /\ renewal'[t] = NoRenewal
                 /\ req' = Replayed(t, ok)
<1>1. CASE InDialog(t)
  <2>1. renewal' = [renewal EXCEPT ![t] = NoRenewal]
    BY <1>1 DEF DialogCloses
  <2> QED
    BY <1>1, <2>1, RenewalEnds DEF DialogCloses, InDialog
<1>2. CASE ~InDialog(t)
  <2>1. renewal' = renewal /\ UNCHANGED req
    BY <1>2 DEF DialogCloses, TypeOK
  <2> QED
    BY <2>1 DEF RenewalOf, TypeOK
<1> QED
  BY <1>1, <1>2

LEMMA TypeStep ==
    ASSUME TypeOK, RowsOK', [Next]_vars
    PROVE  TypeOK'
<1> DEFINE Goal == TypeOK'
<1>1. req' \in [Requests -> RequestRows]
  BY DEF RowsOK
<1>2. CASE UNCHANGED <<Server, Browser, renewal, dialog, expiries, failures, excused>>
  BY <1>1, <1>2 DEF TypeOK, Server, Browser
<1>3. ASSUME NEW r \in Requests, ReceiveDenied(r)
      PROVE  Goal
  <2>1. renewal' \in [Tabs -> Renewals]
    BY <1>3, NewRenewal DEF RenewalOf, TypeOK
  <2>2. excused' \in BOOLEAN
    BY <1>3 DEF ReceiveDenied, TypeOK
  <2> QED
    BY <1>1, <1>3, <2>1, <2>2 DEF ReceiveDenied, TypeOK, Server, Browser
<1>4. ASSUME NEW r \in Requests, LoseRequest(r)
      PROVE  Goal
  BY <1>1, <1>4, BoundsAreNumbers DEF LoseRequest, TypeOK, Server, Browser
<1>5. ASSUME NEW t \in Tabs, CompareToken(t)
      PROVE  Goal
  <2>1. renewal' \in [Tabs -> Renewals]
    BY <1>5, Compared DEF RenewalOf
  <2>2. session' = [s \in 0..MaxSessions |-> 0] \/ session' = session
    BY <1>5 DEF CompareToken
  <2>3. session' \in [0..MaxSessions -> 0..MaxSecrets]
    BY <2>2, BoundsAreNumbers DEF TypeOK
  <2>4. reused' = reused \/ reused' = TRUE
    BY <1>5 DEF CompareToken
  <2> QED
    BY <1>1, <1>5, <2>1, <2>3, <2>4 DEF CompareToken, TypeOK, Browser
<1>6. ASSUME NEW t \in Tabs, RotateToken(t)
      PROVE  Goal
  <2> DEFINE s == renewal[t].token.sess
  <2>1. /\ renewal' \in [Tabs -> Renewals]
        /\ \/ session' = session
           \/ session[s] + 1 \in 1..MaxSecrets /\ session' = [session EXCEPT ![s] = session[s] + 1]
    BY <1>6, Rotated DEF RenewalOf
  <2>2. session' \in [0..MaxSessions -> 0..MaxSecrets]
    BY <2>1, BoundsAreNumbers DEF TypeOK
  <2> QED
    BY <1>1, <1>6, <2>1, <2>2 DEF RotateToken, TypeOK, Browser
<1>7. ASSUME NEW t \in Tabs, RefreshReturns(t)
      PROVE  Goal
  <2>1. renewal' \in [Tabs -> Renewals]
    BY <1>7, RenewalEnds DEF RefreshReturns, RenewalOf
  <2>2. cookie' \in Tokens /\ access' \in BOOLEAN
    BY <1>7 DEF RefreshReturns, TypeOK, Renewals
  <2> QED
    BY <1>1, <1>7, <2>1, <2>2 DEF RefreshReturns, TypeOK, Server
<1>8. ASSUME NEW t \in Tabs, RefusalReturns(t)
      PROVE  Goal
  <2>1. renewal' \in [Tabs -> Renewals]
    BY <1>8, RenewalTurns DEF RefusalReturns, RenewalOf
  <2>2. cookie' \in Tokens /\ access' \in BOOLEAN
    BY <1>8, NothingTyped DEF RefusalReturns, TypeOK
  <2> QED
    BY <1>1, <1>8, <2>1, <2>2 DEF RefusalReturns, TypeOK, Server
<1>9. ASSUME NEW t \in Tabs, RefuseRefresh(t) \/ LoseRefresh(t)
      PROVE  Goal
  <2>1. renewal' \in [Tabs -> Renewals]
    BY <1>9, LimitRefuses, RenewalEnds DEF LoseRefresh, RenewalOf
  <2>2. failures' \in 0..MaxFailures
    BY <1>9, BoundsAreNumbers DEF RefuseRefresh, LoseRefresh, TypeOK
  <2>3. excused' \in BOOLEAN
    BY <1>9 DEF RefuseRefresh, LoseRefresh, TypeOK
  <2> QED
    BY <1>1, <1>9, <2>1, <2>2, <2>3 DEF RefuseRefresh, LoseRefresh, TypeOK, Server, Browser
<1>10. ASSUME NEW t \in Tabs, SubmitReauth(t)
       PROVE  Goal
  BY <1>1, <1>10, Submitted DEF SubmitReauth, DialogOf, TypeOK, Server, Browser
<1>11. ASSUME NEW t \in Tabs, AcceptLogin(t)
       PROVE  Goal
  <2>1. dialog' \in [Tabs -> Dialogs] /\ created + 1 \in 1..MaxSessions
    BY <1>11, Accepted DEF DialogOf
  <2>2. session' \in [0..MaxSessions -> 0..MaxSecrets]
    BY <1>11, BoundsAreNumbers DEF AcceptLogin, TypeOK
  <2> QED
    BY <1>1, <1>11, <2>1, <2>2, BoundsAreNumbers DEF AcceptLogin, TypeOK, Browser
<1>12. ASSUME NEW t \in Tabs, LoginReturns(t)
       PROVE  Goal
  <2>1. renewal' \in [Tabs -> Renewals] /\ dialog' \in [Tabs -> Dialogs]
    BY <1>12, Closed, LoginEnds DEF LoginReturns, RenewalOf, DialogOf
  <2>2. cookie' \in Tokens /\ access' \in BOOLEAN
    BY <1>12 DEF LoginReturns, TypeOK, Dialogs
  <2> QED
    BY <1>1, <1>12, <2>1, <2>2 DEF LoginReturns, TypeOK, Server
<1>13. ASSUME NEW t \in Tabs, LoginFails(t)
       PROVE  Goal
  <2>1. dialog' \in [Tabs -> Dialogs]
    BY <1>13, LoginEnds DEF DialogOf
  <2>2. failures' \in 0..MaxFailures
    BY <1>13, BoundsAreNumbers DEF LoginFails, TypeOK
  <2> QED
    BY <1>1, <1>13, <2>1, <2>2 DEF LoginFails, TypeOK, Server, Browser
<1>14. ASSUME NEW t \in Tabs, CheckSession(t) \/ AnswerCheck(t)
       PROVE  Goal
  <2>1. dialog' \in [Tabs -> Dialogs]
    BY <1>14, ChecksKeepLogins DEF LoginsKept
  <2> QED
    BY <1>1, <1>14, <2>1 DEF CheckSession, AnswerCheck, TypeOK, Server, Browser
<1>15. ASSUME NEW t \in Tabs, CheckReturns(t)
       PROVE  Goal
  <2>1. dialog' \in [Tabs -> Dialogs] /\ access \in BOOLEAN
    BY <1>15, ChecksKeepLogins DEF LoginsKept, TypeOK
  <2>2. renewal' \in [Tabs -> Renewals]
    BY <1>15, <2>1, Closed DEF CheckReturns, RenewalOf
  <2> QED
    BY <1>1, <1>15, <2>1, <2>2 DEF CheckReturns, TypeOK, Server, Browser
<1>16. ASSUME NEW t \in Tabs, NEW stays \in BOOLEAN, LogOut(t, stays)
       PROVE  Goal
  <2>1. renewal' \in [Tabs -> Renewals] /\ dialog' \in [Tabs -> Dialogs]
    BY <1>16, LoggedOut DEF RenewalOf, DialogOf, TypeOK
  <2>2. session' \in [0..MaxSessions -> 0..MaxSecrets]
    <3>1. session' = [session EXCEPT ![cookie.sess] = 0]
      BY <1>16 DEF LogOut
    <3>2. 0 \in 0..MaxSecrets
      BY BoundsAreNumbers
    <3> QED
      BY <3>1, <3>2 DEF TypeOK
  <2>3. cookie' \in Tokens /\ access' \in BOOLEAN
    BY <1>16, NothingTyped DEF LogOut
  <2>4. failures' \in 0..MaxFailures
    BY <1>16, BoundsAreNumbers DEF LogOut, TypeOK
  <2> QED
    BY <1>1, <1>16, <2>1, <2>2, <2>3, <2>4 DEF LogOut, TypeOK
<1>17. CASE ExpireAccess
  <2>1. dialog' \in [Tabs -> Dialogs]
    BY <1>17, ExpiryKeepsLogins DEF LoginsKept
  <2>2. expiries' \in 0..MaxExpiries
    BY <1>17, BoundsAreNumbers DEF ExpireAccess, TypeOK
  <2>3. access' \in BOOLEAN
    BY <1>17 DEF ExpireAccess
  <2> QED
    BY <1>1, <1>17, <2>1, <2>2, <2>3 DEF ExpireAccess, TypeOK, Server
<1>18. CASE EndSessions
  <2>1. session' \in [0..MaxSessions -> 0..MaxSecrets] /\ expiries' \in 0..MaxExpiries
    BY <1>18, BoundsAreNumbers DEF EndSessions, TypeOK
  <2> QED
    BY <1>1, <1>18, <2>1 DEF EndSessions, TypeOK, Browser
<1>19. ASSUME NEW r \in Requests, \/ Serve(r) \/ Receive(r)
                                  \/ \E t \in Tabs, read \in BOOLEAN : Send(r, t, read)
       PROVE  Goal
  BY <1>2, <1>19 DEF Serve, Receive, Send
<1>20. CASE UNCHANGED vars
  BY <1>2, <1>20 DEF vars, Server, Browser
<1> QED
  BY <1>3, <1>4, <1>5, <1>6, <1>7, <1>8, <1>9, <1>10, <1>11, <1>12, <1>13, <1>14, <1>15, <1>16,
     <1>17, <1>18, <1>19, <1>20 DEF Next, Progress, Refreshing, LoggingIn, Checking

-----------------------------------------------------------------------------
(* Who waits for whom. *)

\* A tab that was left has no request open; one that has a request waiting has a renewal.
WaitersServed ==
    \A r \in Requests :
      /\ req[r].pc = "waiting" => renewal[req[r].tab].pc # "none"
      /\ Open(r) => renewal[req[r].tab].pc # "left"

\* The renewal of tab t ends and its waiting requests with it.
LEMMA WaitersLeave ==
    ASSUME TypeOK, WaitersServed, NEW t \in Tabs, RenewalOf(t), renewal'[t].pc # "left",
           renewal[t].pc # "left",
           req' = Abandoned(Waiting(t)) \/ \E ok \in BOOLEAN : req' = Replayed(t, ok)
    PROVE  WaitersServed'
<1> SUFFICES ASSUME NEW r \in Requests
             PROVE  /\ req'[r].pc = "waiting" => renewal'[req'[r].tab].pc # "none"
                    /\ Open(r)' => renewal'[req'[r].tab].pc # "left"
  BY DEF WaitersServed
<1>1. req[r].tab \in Tabs /\ req[r] \in RequestRows
  BY DEF TypeOK, RequestRows
<1>2. /\ req[r].pc = "waiting" => renewal[req[r].tab].pc # "none"
      /\ Open(r) => renewal[req[r].tab].pc # "left"
  BY DEF WaitersServed
<1>3. CASE r \in Waiting(t)
  <2>1. req[r].tab = t
    BY <1>3 DEF Waiting
  <2>2. req'[r].tab = t /\ req'[r].pc # "waiting"
    BY <1>1, <1>3, <2>1 DEF Abandoned, Replayed, RequestRows
  <2> QED
    BY <2>2
<1>4. CASE r \notin Waiting(t)
  <2>1. req'[r] = req[r]
    BY <1>4 DEF Abandoned, Replayed
  <2>2. Open(r)' <=> Open(r)
    BY <2>1 DEF Open, UnderWay
  <2>3. CASE req[r].tab = t
    <3>1. req[r].pc # "waiting"
      BY <1>4, <2>3 DEF Waiting
    <3> QED
      BY <2>1, <2>3, <3>1
  <2>4. CASE req[r].tab # t
    BY <1>1, <1>2, <2>1, <2>2, <2>4 DEF RenewalOf
  <2> QED
    BY <2>3, <2>4
<1> QED
  BY <1>3, <1>4

\* One request changes, no renewal does, and it does not come to wait.
LEMMA WaitersOfOne ==
    ASSUME TypeOK, WaitersServed, NEW r \in Requests, NEW row,
           req' = [req EXCEPT ![r] = row], UNCHANGED renewal,
           row.pc # "waiting", renewal[row.tab].pc # "left" \/ row.pc \in {"idle", "done", "failed"}
    PROVE  WaitersServed'
<1> SUFFICES ASSUME NEW q \in Requests
             PROVE  /\ req'[q].pc = "waiting" => renewal'[req'[q].tab].pc # "none"
                    /\ Open(q)' => renewal'[req'[q].tab].pc # "left"
  BY DEF WaitersServed
<1>1. CASE q = r
  <2>1. req'[q] = row
    BY <1>1 DEF TypeOK
  <2> QED
    BY <2>1 DEF Open, UnderWay
<1>2. CASE q # r
  <2>1. req'[q] = req[q]
    BY <1>2 DEF TypeOK
  <2> QED
    BY <2>1 DEF Open, UnderWay, WaitersServed
<1> QED
  BY <1>1, <1>2

\* Nothing but the renewal of one tab changes.
LEMMA WaitersOfRenewal ==
    ASSUME TypeOK, WaitersServed, NEW t \in Tabs, RenewalOf(t), UNCHANGED req,
           renewal'[t].pc \notin {"none", "left"}
    PROVE  WaitersServed'
<1>1. \A r \in Requests : req[r].tab \in Tabs
  BY DEF TypeOK, RequestRows
<1>2. \A r \in Requests : Open(r)' <=> Open(r)
  BY DEF Open, UnderWay
<1> QED
  BY <1>1, <1>2 DEF WaitersServed, RenewalOf

LEMMA WaitersKept ==
    ASSUME WaitersServed, UNCHANGED <<req, renewal>>
    PROVE  WaitersServed'
BY DEF WaitersServed, Open, UnderWay

LEMMA WaitersStep ==
    ASSUME TypeOK, WaitersServed, [Next]_vars
    PROVE  WaitersServed'
<1>1. ASSUME NEW r \in Requests, NEW t \in Tabs, NEW read \in BOOLEAN, Send(r, t, read)
      PROVE  WaitersServed'
  <2> DEFINE row == Sent([req[r] EXCEPT !.tab = t, !.read = read], "first")
  <2>1. req[r] \in RequestRows
    BY DEF TypeOK
  <2>2. row.pc = "sent" /\ row.tab = t
    BY <2>1 DEF Sent, RequestRows
  <2>3. /\ req' = [req EXCEPT ![r] = row]
        /\ renewal[t].pc # "left" /\ UNCHANGED renewal
    BY <1>1 DEF Send
  <2> HIDE DEF row
  <2> QED
    BY <2>2, <2>3, WaitersOfOne
<1>2. ASSUME NEW r \in Requests, Serve(r)
      PROVE  WaitersServed'
  <2> DEFINE row == IF req[r].cred THEN [req[r] EXCEPT !.pc = "answered", !.runs = req[r].runs + 1]
                    ELSE [req[r] EXCEPT !.pc = "denied"]
  <2>1. req[r] \in RequestRows /\ req[r].pc = "sent"
    BY <1>2 DEF TypeOK, Serve
  <2>2. row.pc # "waiting" /\ row.tab = req[r].tab
    BY <2>1 DEF RequestRows
  <2>3. req' = [req EXCEPT ![r] = row] /\ UNCHANGED renewal
    BY <1>2, <2>1 DEF Serve, RequestRows
  <2>4. renewal[req[r].tab].pc # "left"
    BY <2>1 DEF WaitersServed, Open, UnderWay
  <2> HIDE DEF row
  <2> QED
    BY <2>2, <2>3, <2>4, WaitersOfOne
<1>3. ASSUME NEW r \in Requests, Receive(r)
      PROVE  WaitersServed'
  <2> DEFINE row == [req[r] EXCEPT !.pc = "done"]
  <2>1. row.pc = "done"
    BY DEF TypeOK, RequestRows
  <2>2. req' = [req EXCEPT ![r] = row] /\ UNCHANGED renewal
    BY <1>3 DEF Receive
  <2> HIDE DEF row
  <2> QED
    BY <2>1, <2>2, WaitersOfOne
<1>4. ASSUME NEW r \in Requests, LoseRequest(r)
      PROVE  WaitersServed'
  <2> DEFINE again == Sent(req[r], "retry")
             failed == [req[r] EXCEPT !.pc = "failed"]
  <2>1. req[r] \in RequestRows /\ Open(r)
    BY <1>4 DEF TypeOK, LoseRequest, Open
  <2>2. again.pc = "sent" /\ again.tab = req[r].tab /\ failed.pc = "failed"
    BY <2>1 DEF Sent, RequestRows
  <2>3. /\ req' = [req EXCEPT ![r] = again] \/ req' = [req EXCEPT ![r] = failed]
        /\ UNCHANGED renewal
    BY <1>4 DEF LoseRequest
  <2>4. renewal[req[r].tab].pc # "left"
    BY <2>1 DEF WaitersServed
  <2> HIDE DEF again, failed
  <2> QED
    BY <2>2, <2>3, <2>4, WaitersOfOne
<1>5. ASSUME NEW r \in Requests, ReceiveDenied(r)
      PROVE  WaitersServed'
  <2> DEFINE t == req[r].tab
             failed == [req[r] EXCEPT !.pc = "failed"]
             waiting == [req[r] EXCEPT !.pc = "waiting"]
  <2>1. req[r] \in RequestRows /\ Open(r) /\ t \in Tabs
    BY <1>5 DEF TypeOK, ReceiveDenied, Open, UnderWay, RequestRows
  <2>2. renewal[t].pc # "left"
    BY <2>1 DEF WaitersServed
  <2>3. failed.pc = "failed" /\ waiting.pc = "waiting" /\ waiting.tab = t
    BY <2>1 DEF RequestRows
  <2>4. CASE req[r].try = "replay"
    <3>1. req' = [req EXCEPT ![r] = failed] /\ UNCHANGED renewal
      BY <1>5, <2>4 DEF ReceiveDenied
    <3> HIDE DEF failed
    <3> QED
      BY <2>3, <3>1, WaitersOfOne
  <2>5. CASE req[r].try # "replay"
    <3>1. req' = [req EXCEPT ![r] = waiting]
      BY <1>5, <2>5 DEF ReceiveDenied
    <3>2. /\ renewal'[t].pc \notin {"none", "left"}
          /\ \A u \in Tabs \ {t} : renewal'[u] = renewal[u]
      <4>1. CASE UNCHANGED renewal
        <5>1. SharesRenewal(t)
          <6>1. CASE SharesRenewal(t)
            BY <6>1
          <6>2. CASE ~SharesRenewal(t)
            <7>1. renewal' = [renewal EXCEPT ![t] = [NoRenewal EXCEPT !.pc = "sent", !.token = cookie]]
              BY <1>5, <2>5, <6>2 DEF ReceiveDenied
            <7>2. [NoRenewal EXCEPT !.pc = "sent", !.token = cookie].pc = "sent"
              BY NothingTyped DEF Renewals
            <7>3. renewal'[t].pc = "sent"
              BY <2>1, <7>1, <7>2 DEF TypeOK
            <7> QED
              BY <4>1, <7>3 DEF SharesRenewal
          <6> QED
            BY <6>1, <6>2
        <5> QED
          BY <2>2, <4>1, <5>1 DEF SharesRenewal
      <4>2. CASE ~(UNCHANGED renewal)
        BY <1>5, <4>2, NewRenewal DEF RenewalOf
      <4> QED
        BY <4>1, <4>2
    <3> HIDE DEF waiting
    <3> SUFFICES ASSUME NEW q \in Requests
                 PROVE  /\ req'[q].pc = "waiting" => renewal'[req'[q].tab].pc # "none"
                        /\ Open(q)' => renewal'[req'[q].tab].pc # "left"
      BY DEF WaitersServed
    <3>3. req'[q] = IF q = r THEN waiting ELSE req[q]
      BY <3>1 DEF TypeOK
    <3>4. req'[q].tab \in Tabs
      BY <2>1, <2>3, <3>3 DEF TypeOK, RequestRows
    <3>5. CASE req'[q].tab = t
      BY <3>2, <3>5
    <3>6. CASE req'[q].tab # t
      <4>1. req'[q] = req[q] /\ renewal'[req'[q].tab] = renewal[req[q].tab]
        BY <2>3, <3>2, <3>3, <3>4, <3>6
      <4> QED
        BY <4>1 DEF WaitersServed, Open, UnderWay
    <3> QED
      BY <3>5, <3>6
  <2> QED
    BY <2>4, <2>5
<1>6. ASSUME NEW t \in Tabs, CompareToken(t) \/ RotateToken(t) \/ RefuseRefresh(t) \/ RefusalReturns(t)
      PROVE  WaitersServed'
  <2>1. RenewalOf(t) /\ renewal'[t].pc \notin {"none", "left"} /\ UNCHANGED req
    BY <1>6, Compared, Rotated, LimitRefuses, RenewalTurns
       DEF CompareToken, RotateToken, RefuseRefresh, RefusalReturns
  <2> QED
    BY <2>1, WaitersOfRenewal
<1>7. ASSUME NEW t \in Tabs, RefreshReturns(t) \/ LoseRefresh(t)
      PROVE  WaitersServed'
  <2>1. renewal' = [renewal EXCEPT ![t] = NoRenewal] /\ renewal[t].pc # "left"
    BY <1>7 DEF RefreshReturns, LoseRefresh
  <2>2. RenewalOf(t) /\ renewal'[t].pc = "none"
    BY <2>1, RenewalEnds, NothingTyped
  <2>3. req' = Abandoned(Waiting(t)) \/ req' = Replayed(t, TRUE)
    BY <1>7 DEF RefreshReturns, LoseRefresh
  <2> QED
    BY <2>1, <2>2, <2>3, WaitersLeave
<1>8. ASSUME NEW t \in Tabs, NEW ok \in BOOLEAN, DialogCloses(t, ok)
      PROVE  WaitersServed'
  <2>1. CASE UNCHANGED <<renewal, req>>
    BY <2>1, WaitersKept
  <2>2. CASE renewal[t].pc = "dialog" /\ renewal'[t] = NoRenewal /\ req' = Replayed(t, ok)
    BY <1>8, <2>2, Closed, NothingTyped, WaitersLeave
  <2> QED
    BY <1>8, <2>1, <2>2, Closed
<1>9. ASSUME NEW t \in Tabs, LoginReturns(t) \/ CheckReturns(t)
      PROVE  WaitersServed'
  BY <1>8, <1>9 DEF LoginReturns, CheckReturns, TypeOK
<1>10. ASSUME NEW t \in Tabs, NEW stays \in BOOLEAN, LogOut(t, stays)
       PROVE  WaitersServed'
  <2>1. CASE UNCHANGED <<renewal, dialog, req>>
    BY <2>1, WaitersKept
  <2>2. CASE /\ RenewalOf(t) /\ renewal'[t].pc = "left"
             /\ req' = Abandoned({r \in Requests : Open(r) /\ req[r].tab = t})
    <3> SUFFICES ASSUME NEW q \in Requests
                 PROVE  /\ req'[q].pc = "waiting" => renewal'[req'[q].tab].pc # "none"
                        /\ Open(q)' => renewal'[req'[q].tab].pc # "left"
      BY DEF WaitersServed
    <3>1. req[q] \in RequestRows /\ req[q].tab \in Tabs
      BY DEF TypeOK, RequestRows
    <3>2. CASE Open(q) /\ req[q].tab = t
      <4>1. req'[q].pc = "failed"
        BY <2>2, <3>1, <3>2 DEF Abandoned, RequestRows
      <4> QED
        BY <4>1 DEF Open, UnderWay
    <3>3. CASE ~(Open(q) /\ req[q].tab = t)
      <4>1. req'[q] = req[q]
        BY <2>2, <3>3 DEF Abandoned
      <4>2. (Open(q)' <=> Open(q)) /\ (req[q].pc = "waiting" => Open(q))
        BY <4>1 DEF Open, UnderWay
      <4> QED
        BY <2>2, <3>1, <3>3, <4>1, <4>2 DEF WaitersServed, RenewalOf
    <3> QED
      BY <3>2, <3>3
  <2> QED
    BY <1>10, <2>1, <2>2, LoggedOut
<1>11. CASE ExpireAccess
  <2>1. ASSUME NEW q \in Requests
        PROVE  req'[q].pc = req[q].pc /\ req'[q].tab = req[q].tab
    BY <1>11 DEF ExpireAccess, TypeOK, RequestRows
  <2>2. UNCHANGED renewal
    BY <1>11 DEF ExpireAccess
  <2> QED
    BY <2>1, <2>2 DEF WaitersServed, Open, UnderWay
<1>12. ASSUME NEW t \in Tabs, \/ SubmitReauth(t) \/ AcceptLogin(t) \/ LoginFails(t) \/ CheckSession(t)
                              \/ AnswerCheck(t)
       PROVE  WaitersServed'
  BY <1>12, WaitersKept DEF SubmitReauth, AcceptLogin, LoginFails, CheckSession, AnswerCheck
<1>13. CASE EndSessions \/ UNCHANGED vars
  BY <1>13, WaitersKept DEF EndSessions, vars
<1> QED
  BY <1>1, <1>2, <1>3, <1>4, <1>5, <1>6, <1>7, <1>9, <1>10, <1>11, <1>12, <1>13
     DEF Next, Progress, Refreshing, LoggingIn, Checking

-----------------------------------------------------------------------------
(* The tokens. *)

InFlight(t) == renewal[t].pc \in {"sent", "matched", "rotated"}

\* The server would accept the token, or knows its session no more.
Current(token) == session[token.sess] \in {0, token.secret}

\* The session of an accepted login is known to its dialog only.
LoginIsNew(t) ==
    dialog[t].login = "accepted" =>
      /\ dialog[t].token.sess # 0
      /\ Current(dialog[t].token)
      /\ cookie.sess # dialog[t].token.sess
      /\ \A u \in Tabs : renewal[u].token.sess # dialog[t].token.sess
      /\ \A u \in Tabs \ {t} : dialog[u].token.sess # dialog[t].token.sess

TokensKnown ==
    /\ session[0] = 0
    /\ \A s \in 0..MaxSessions : s > created => session[s] = 0
    /\ cookie.sess <= created
    /\ \A t \in Tabs : renewal[t].token.sess <= created /\ dialog[t].token.sess <= created
    /\ \A t \in Tabs : LoginIsNew(t)

\* One tab renews at a time, with a token that is current, and what the browser holds is
\* current or about to be replaced.
OneRenews ==
    ~excused =>
      /\ ~reused
      /\ \A t, u \in Tabs : InFlight(t) /\ InFlight(u) => t = u
      /\ \A t \in Tabs : InFlight(t) => Current(renewal[t].token)
      /\ \/ Current(cookie)
         \/ \E t \in Tabs : renewal[t].pc = "rotated" /\ renewal[t].token.sess = cookie.sess

TokensOK == TokensKnown /\ OneRenews

LEMMA TokensTyped ==
    ASSUME TypeOK
    PROVE  /\ cookie \in Tokens /\ cookie.sess \in 0..MaxSessions
           /\ \A t \in Tabs : /\ renewal[t].token \in Tokens
                              /\ renewal[t].token.sess \in 0..MaxSessions
                              /\ dialog[t].token \in Tokens
                              /\ dialog[t].token.sess \in 0..MaxSessions
           /\ created \in Nat /\ 0 \in 0..MaxSessions
BY BoundsAreNumbers DEF TypeOK, Tokens, Renewals, Dialogs

\* A step after which nobody holds a token he did not hold before.
Quiet ==
    /\ \A s \in 0..MaxSessions : session'[s] \in {session[s], 0}
    /\ created' = created
    /\ ~excused' => ~excused /\ reused' = reused
    /\ cookie' \in {cookie, NoToken}
    /\ \A t \in Tabs :
         /\ renewal'[t].token.sess \in {renewal[t].token.sess, 0}
         /\ InFlight(t)' => InFlight(t) /\ renewal'[t].token = renewal[t].token
         /\ ~excused' /\ renewal[t].pc = "rotated" =>
              renewal'[t].pc = "rotated" /\ renewal'[t].token = renewal[t].token
         /\ dialog'[t].token.sess \in {dialog[t].token.sess, 0}
         /\ dialog'[t].login = "accepted" =>
              dialog[t].login = "accepted" /\ dialog'[t].token = dialog[t].token

LEMMA QuietStep ==
    ASSUME TypeOK, TokensOK, Quiet
    PROVE  TokensOK'
<1>1. /\ NoToken.sess = 0 /\ NoToken.secret = 0
      /\ cookie.sess \in 0..MaxSessions /\ created \in Nat
      /\ \A t \in Tabs : /\ renewal[t].token.sess \in 0..MaxSessions
                         /\ dialog[t].token.sess \in 0..MaxSessions
  BY TokensTyped, NothingTyped
<1>2. ASSUME NEW token, token.sess \in 0..MaxSessions, Current(token)
      PROVE  session'[token.sess] \in {0, token.secret}
  BY <1>2 DEF Quiet, Current
<1>3. TokensKnown'
  <2>1. session'[0] = 0 /\ \A s \in 0..MaxSessions : s > created' => session'[s] = 0
    BY <1>1, TokensTyped DEF Quiet, TokensOK, TokensKnown
  <2>2. /\ cookie'.sess <= created'
        /\ \A t \in Tabs : renewal'[t].token.sess <= created' /\ dialog'[t].token.sess <= created'
    BY <1>1 DEF Quiet, TokensOK, TokensKnown
  <2>3. ASSUME NEW t \in Tabs, dialog'[t].login = "accepted"
        PROVE  /\ dialog'[t].token.sess # 0
               /\ session'[dialog'[t].token.sess] \in {0, dialog'[t].token.secret}
               /\ cookie'.sess # dialog'[t].token.sess
               /\ \A u \in Tabs : renewal'[u].token.sess # dialog'[t].token.sess
               /\ \A u \in Tabs \ {t} : dialog'[u].token.sess # dialog'[t].token.sess
    <3>1. dialog[t].login = "accepted" /\ dialog'[t].token = dialog[t].token /\ LoginIsNew(t)
      BY <2>3 DEF Quiet, TokensOK, TokensKnown
    <3>2. session'[dialog[t].token.sess] \in {0, dialog[t].token.secret}
      BY <1>1, <1>2, <3>1 DEF LoginIsNew
    <3> QED
      BY <1>1, <3>1, <3>2 DEF Quiet, LoginIsNew
  <2> QED
    BY <2>1, <2>2, <2>3 DEF TokensKnown, LoginIsNew, Current
<1>4. OneRenews'
  <2> SUFFICES ASSUME ~excused'
               PROVE  /\ ~reused'
                      /\ \A t, u \in Tabs : InFlight(t)' /\ InFlight(u)' => t = u
                      /\ \A t \in Tabs : InFlight(t)' =>
                            session'[renewal'[t].token.sess] \in {0, renewal'[t].token.secret}
                      /\ \/ session'[cookie'.sess] \in {0, cookie'.secret}
                         \/ \E t \in Tabs : /\ renewal'[t].pc = "rotated"
                                            /\ renewal'[t].token.sess = cookie'.sess
    BY DEF OneRenews, Current
  <2>1. ~excused /\ ~reused' /\ OneRenews
    BY DEF Quiet, TokensOK, OneRenews
  <2>2. \A t, u \in Tabs : InFlight(t)' /\ InFlight(u)' => t = u
    BY <2>1 DEF Quiet, OneRenews
  <2>3. ASSUME NEW t \in Tabs, InFlight(t)'
        PROVE  session'[renewal'[t].token.sess] \in {0, renewal'[t].token.secret}
    BY <1>1, <1>2, <2>1, <2>3 DEF Quiet, OneRenews
  <2>4. CASE cookie' = NoToken
    BY <1>1, <1>3, <2>1, <2>2, <2>3, <2>4 DEF TokensKnown
  <2>5. CASE cookie' = cookie
    <3>1. CASE Current(cookie)
      BY <1>1, <1>2, <2>1, <2>2, <2>3, <2>5, <3>1
    <3>2. CASE \E t \in Tabs : renewal[t].pc = "rotated" /\ renewal[t].token.sess = cookie.sess
      BY <2>1, <2>2, <2>3, <2>5, <3>2 DEF Quiet
    <3> QED
      BY <2>1, <3>1, <3>2 DEF OneRenews
  <2> QED
    BY <2>4, <2>5 DEF Quiet
<1> QED
  BY <1>3, <1>4 DEF TokensOK

\* A 401 starts a renewal with the token of the browser.
LEMMA TokensStart ==
    ASSUME TypeOK, TokensOK, NEW r \in Requests, ReceiveDenied(r), ~(UNCHANGED renewal)
    PROVE  TokensOK'
<1> DEFINE t == req[r].tab
<1>1. /\ t \in Tabs /\ RenewalOf(t) /\ renewal[t].pc = "none"
      /\ renewal'[t].pc = "sent" /\ renewal'[t].token = cookie
      /\ excused' = (excused \/ OtherRefreshing(t))
  BY NewRenewal
<1>2. UNCHANGED <<session, created, reused, cookie, dialog>>
  BY DEF ReceiveDenied, Server, Browser
<1> HIDE DEF t
<1>3. \A u \in Tabs \ {t} : renewal'[u] = renewal[u]
  BY <1>1 DEF RenewalOf
<1>4. TokensKnown'
  BY <1>1, <1>2, <1>3 DEF TokensOK, TokensKnown, LoginIsNew, Current
<1>5. OneRenews'
  <2> SUFFICES ASSUME ~excused'
               PROVE  /\ ~reused'
                      /\ \A u, v \in Tabs : InFlight(u)' /\ InFlight(v)' => u = v
                      /\ \A u \in Tabs : InFlight(u)' =>
                            session[renewal'[u].token.sess] \in {0, renewal'[u].token.secret}
                      /\ session[cookie.sess] \in {0, cookie.secret}
    BY <1>2 DEF OneRenews, Current
  <2>1. ~excused /\ OneRenews
    BY <1>1 DEF TokensOK
  <2>2. \A u \in Tabs : ~InFlight(u)
    BY <1>1 DEF OtherRefreshing, InFlight
  <2>3. Current(cookie)
    BY <2>1, <2>2 DEF OneRenews, InFlight
  <2>4. \A u \in Tabs : InFlight(u)' => u = t
    BY <1>3, <2>2 DEF InFlight
  <2> QED
    BY <1>1, <1>2, <2>1, <2>3, <2>4 DEF OneRenews, Current
<1> QED
  BY <1>4, <1>5 DEF TokensOK

LEMMA TokensRotate ==
    ASSUME TypeOK, TokensOK, NEW t \in Tabs, RotateToken(t)
    PROVE  TokensOK'
<1> DEFINE s == renewal[t].token.sess
<1>1. UNCHANGED <<created, reused, cookie, dialog, excused>> /\ renewal[t].pc = "matched"
  BY DEF RotateToken, Browser
<1>2. s \in 0..MaxSessions /\ session \in [0..MaxSessions -> 0..MaxSecrets]
  BY TokensTyped DEF TypeOK
<1>3. /\ RenewalOf(t) /\ renewal'[t].token.sess = s
      /\ \/ /\ session[s] = 0 /\ UNCHANGED session
            /\ renewal'[t].pc = "refused"
         \/ /\ session[s] # 0
            /\ session' = [session EXCEPT ![s] = session[s] + 1]
            /\ renewal'[t].pc = "rotated" /\ renewal'[t].token.secret = session[s] + 1
  BY Rotated
<1> HIDE DEF s
<1>4. /\ \A u \in Tabs \ {t} : renewal'[u] = renewal[u]
      /\ \A x \in (0..MaxSessions) \ {s} : session'[x] = session[x]
  BY <1>2, <1>3 DEF RenewalOf
<1>5. \A u \in Tabs : renewal'[u].token.sess = renewal[u].token.sess
  BY <1>3, <1>4 DEF s
<1>6. s <= created /\ (session[s] # 0 => s # 0)
  BY DEF TokensOK, TokensKnown, s
<1>7. TokensKnown'
  <2>1. session'[0] = 0 /\ \A x \in 0..MaxSessions : x > created => session'[x] = 0
    BY <1>2, <1>3, <1>4, <1>6, TokensTyped DEF TokensOK, TokensKnown
  <2>2. ASSUME NEW u \in Tabs, dialog[u].login = "accepted"
        PROVE  session'[dialog[u].token.sess] = session[dialog[u].token.sess]
    <3>1. dialog[u].token.sess # s /\ dialog[u].token.sess \in 0..MaxSessions
      BY <2>2, TokensTyped DEF TokensOK, TokensKnown, LoginIsNew, s
    <3> QED
      BY <1>4, <3>1
  <2> QED
    BY <1>1, <1>5, <2>1, <2>2 DEF TokensOK, TokensKnown, LoginIsNew, Current
<1>8. OneRenews'
  <2> SUFFICES ASSUME ~excused
               PROVE  /\ ~reused
                      /\ \A u, v \in Tabs : InFlight(u)' /\ InFlight(v)' => u = v
                      /\ \A u \in Tabs : InFlight(u)' =>
                            session'[renewal'[u].token.sess] \in {0, renewal'[u].token.secret}
                      /\ \/ session'[cookie.sess] \in {0, cookie.secret}
                         \/ \E u \in Tabs : /\ renewal'[u].pc = "rotated"
                                            /\ renewal'[u].token.sess = cookie.sess
    BY <1>1 DEF OneRenews, Current
  <2>1. OneRenews /\ InFlight(t)
    BY <1>1 DEF TokensOK, InFlight
  <2>2. \A u \in Tabs : InFlight(u) => u = t
    BY <2>1 DEF OneRenews
  <2>3. \A u \in Tabs : InFlight(u)' => u = t
    BY <1>4, <2>2 DEF InFlight
  <2>4. InFlight(t)' => session'[renewal'[t].token.sess] \in {0, renewal'[t].token.secret}
    BY <1>2, <1>3 DEF InFlight
  <2>5. Current(cookie)
    BY <1>1, <2>1, <2>2 DEF OneRenews, InFlight
  <2>6. \/ session'[cookie.sess] \in {0, cookie.secret}
        \/ \E u \in Tabs : renewal'[u].pc = "rotated" /\ renewal'[u].token.sess = cookie.sess
    <3>1. CASE UNCHANGED session
      BY <2>5, <3>1 DEF Current
    <3>2. CASE ~(UNCHANGED session) /\ cookie.sess = s
      BY <1>3, <3>2
    <3>3. CASE cookie.sess # s
      BY <1>4, <2>5, <3>3, TokensTyped DEF Current
    <3> QED
      BY <3>1, <3>2, <3>3
  <2> QED
    BY <2>1, <2>3, <2>4, <2>6 DEF OneRenews
<1> QED
  BY <1>7, <1>8 DEF TokensOK

LEMMA TokensArrive ==
    ASSUME TypeOK, TokensOK, NEW t \in Tabs, RefreshReturns(t)
    PROVE  TokensOK'
<1>1. /\ UNCHANGED <<session, created, reused, dialog, excused>>
      /\ renewal[t].pc = "rotated" /\ cookie' = renewal[t].token
      /\ RenewalOf(t) /\ renewal'[t].pc = "none" /\ renewal'[t].token = NoToken
  BY RenewalEnds, NothingTyped DEF RefreshReturns, Server
<1>2. \A u \in Tabs \ {t} : renewal'[u] = renewal[u]
  BY <1>1 DEF RenewalOf
<1>3. NoToken.sess = 0 /\ created \in Nat
  BY NothingTyped, TokensTyped
<1>4. TokensKnown'
  BY <1>1, <1>2, <1>3 DEF TokensOK, TokensKnown, LoginIsNew, Current
<1>5. OneRenews'
  <2> SUFFICES ASSUME ~excused
               PROVE  /\ ~reused
                      /\ \A u, v \in Tabs : InFlight(u)' /\ InFlight(v)' => u = v
                      /\ \A u \in Tabs : InFlight(u)' =>
                            session[renewal'[u].token.sess] \in {0, renewal'[u].token.secret}
                      /\ session[cookie'.sess] \in {0, cookie'.secret}
    BY <1>1 DEF OneRenews, Current
  <2>1. OneRenews /\ InFlight(t)
    BY <1>1 DEF TokensOK, InFlight
  <2>2. \A u \in Tabs : ~InFlight(u)'
    BY <1>1, <1>2, <2>1 DEF OneRenews, InFlight
  <2> QED
    BY <1>1, <2>1, <2>2 DEF OneRenews, Current
<1> QED
  BY <1>4, <1>5 DEF TokensOK

LEMMA TokensLogin ==
    ASSUME TypeOK, TokensOK, NEW t \in Tabs, AcceptLogin(t)
    PROVE  TokensOK'
<1>1. /\ UNCHANGED <<reused, cookie, renewal, excused>>
      /\ created' = created + 1 /\ session' = [session EXCEPT ![created + 1] = 1]
      /\ DialogOf(t) /\ created + 1 \in 1..MaxSessions
      /\ dialog'[t].token.sess = created + 1 /\ dialog'[t].token.secret = 1
  BY Accepted DEF AcceptLogin, Browser
<1>2. /\ \A u \in Tabs \ {t} : dialog'[u] = dialog[u]
      /\ session \in [0..MaxSessions -> 0..MaxSecrets] /\ created \in Nat
  BY <1>1, TokensTyped DEF DialogOf, TypeOK
<1>3. \A x \in 0..MaxSessions : x <= created => session'[x] = session[x]
  BY <1>1, <1>2
<1>4. session'[created + 1] = 1
  BY <1>1, <1>2
<1>5. /\ cookie.sess \in 0..created
      /\ \A u \in Tabs : renewal[u].token.sess \in 0..created /\ dialog[u].token.sess \in 0..created
  BY <1>2, TokensTyped DEF TokensOK, TokensKnown
<1>6. \A x \in 0..created : x \in 0..MaxSessions /\ session'[x] = session[x] /\ x # created + 1
  BY <1>1, <1>2, <1>3, BoundsAreNumbers
<1>7. TokensKnown'
  <2>1. session'[0] = 0 /\ \A x \in 0..MaxSessions : x > created' => session'[x] = 0
    BY <1>1, <1>2, <1>6 DEF TokensOK, TokensKnown
  <2>2. /\ cookie.sess <= created'
        /\ \A u \in Tabs : renewal[u].token.sess <= created' /\ dialog'[u].token.sess <= created'
    BY <1>1, <1>2, <1>5
  <2>3. ASSUME NEW u \in Tabs, dialog'[u].login = "accepted"
        PROVE  /\ dialog'[u].token.sess # 0
               /\ session'[dialog'[u].token.sess] \in {0, dialog'[u].token.secret}
               /\ cookie.sess # dialog'[u].token.sess
               /\ \A v \in Tabs : renewal[v].token.sess # dialog'[u].token.sess
               /\ \A v \in Tabs \ {u} : dialog'[v].token.sess # dialog'[u].token.sess
    <3>1. CASE u = t
      BY <1>1, <1>2, <1>4, <1>5, <1>6, <3>1
    <3>2. CASE u # t
      <4>1. dialog'[u] = dialog[u] /\ LoginIsNew(u)
        BY <1>2, <3>2 DEF TokensOK, TokensKnown
      <4>2. session'[dialog[u].token.sess] = session[dialog[u].token.sess]
        BY <1>5, <1>6
      <4>3. dialog[u].token.sess # created + 1
        BY <1>5, <1>6
      <4> QED
        BY <1>1, <1>2, <2>3, <4>1, <4>2, <4>3 DEF LoginIsNew, Current
    <3> QED
      BY <3>1, <3>2
  <2> QED
    BY <1>1, <2>1, <2>2, <2>3 DEF TokensKnown, LoginIsNew, Current
<1>8. OneRenews'
  <2>1. \A u \in Tabs : session'[renewal[u].token.sess] = session[renewal[u].token.sess]
    BY <1>5, <1>6
  <2>2. session'[cookie.sess] = session[cookie.sess]
    BY <1>5, <1>6
  <2> QED
    BY <1>1, <2>1, <2>2 DEF TokensOK, OneRenews, InFlight, Current
<1> QED
  BY <1>7, <1>8 DEF TokensOK

\* The answer to a login: another token in the browser, and the dialog is over.
LEMMA TokensReplaced ==
    ASSUME TypeOK, TokensOK, NEW t \in Tabs, LoginReturns(t)
    PROVE  TokensOK'
<1>1. /\ UNCHANGED <<session, created, reused, excused>>
      /\ dialog[t].login = "accepted" /\ cookie' = dialog[t].token
      /\ DialogOf(t) /\ dialog'[t].login = "none" /\ dialog'[t].token = NoToken
      /\ DialogCloses(t, TRUE)
  BY LoginEnds DEF LoginReturns, Server
<1>2. \A u \in Tabs : renewal'[u] = renewal[u] \/ (renewal[u].pc = "dialog" /\ renewal'[u] = NoRenewal)
  <2>1. /\ RenewalOf(t)
        /\ renewal' = renewal \/ (renewal[t].pc = "dialog" /\ renewal'[t] = NoRenewal)
    BY <1>1, Closed
  <2> QED
    BY <2>1 DEF RenewalOf
<1>3. /\ NoToken.sess = 0 /\ created \in Nat
      /\ NoRenewal.token.sess = 0 /\ NoRenewal.pc = "none"
  BY NothingTyped, TokensTyped
<1>4. \A u \in Tabs \ {t} : dialog'[u] = dialog[u]
  BY <1>1 DEF DialogOf
<1>5. LoginIsNew(t) /\ TokensKnown
  BY DEF TokensOK, TokensKnown
<1>6. TokensKnown'
  <2>1. /\ cookie'.sess <= created
        /\ \A u \in Tabs : renewal'[u].token.sess <= created /\ dialog'[u].token.sess <= created
    BY <1>1, <1>2, <1>3, <1>4, <1>5 DEF TokensKnown
  <2>2. ASSUME NEW u \in Tabs, dialog'[u].login = "accepted"
        PROVE  /\ dialog'[u].token.sess # 0
               /\ session[dialog'[u].token.sess] \in {0, dialog'[u].token.secret}
               /\ cookie'.sess # dialog'[u].token.sess
               /\ \A v \in Tabs : renewal'[v].token.sess # dialog'[u].token.sess
               /\ \A v \in Tabs \ {u} : dialog'[v].token.sess # dialog'[u].token.sess
    <3>1. u # t /\ dialog'[u] = dialog[u] /\ LoginIsNew(u)
      BY <1>1, <1>4, <1>5, <2>2 DEF TokensKnown
    <3> QED
      BY <1>1, <1>2, <1>3, <1>4, <2>2, <3>1 DEF LoginIsNew, Current
  <2> QED
    BY <1>1, <1>5, <2>1, <2>2 DEF TokensKnown, LoginIsNew, Current
<1>7. OneRenews'
  <2>1. \A u \in Tabs : InFlight(u)' => InFlight(u) /\ renewal'[u] = renewal[u]
    BY <1>2, <1>3 DEF InFlight
  <2>2. session[cookie'.sess] \in {0, cookie'.secret}
    BY <1>1, <1>5 DEF LoginIsNew, Current
  <2> QED
    BY <1>1, <2>1, <2>2 DEF TokensOK, OneRenews, Current
<1> QED
  BY <1>6, <1>7 DEF TokensOK

\* What the other steps leave alone.
LEMMA LoginsKeptQuiet ==
    ASSUME LoginsKept \/ UNCHANGED dialog
    PROVE  \A u \in Tabs :
             /\ dialog'[u].token.sess \in {dialog[u].token.sess, 0}
             /\ dialog'[u].login = "accepted" =>
                  dialog[u].login = "accepted" /\ dialog'[u].token = dialog[u].token
BY DEF LoginsKept

LEMMA DialogOfQuiet ==
    ASSUME NEW t \in Tabs, DialogOf(t), dialog'[t].login # "accepted",
           dialog'[t].token.sess \in {dialog[t].token.sess, 0}
    PROVE  \A u \in Tabs :
             /\ dialog'[u].token.sess \in {dialog[u].token.sess, 0}
             /\ dialog'[u].login = "accepted" =>
                  dialog[u].login = "accepted" /\ dialog'[u].token = dialog[u].token
BY DEF DialogOf

RenewalsQuiet ==
    \A u \in Tabs :
      /\ renewal'[u].token.sess \in {renewal[u].token.sess, 0}
      /\ InFlight(u)' => InFlight(u) /\ renewal'[u].token = renewal[u].token
      /\ ~excused' /\ renewal[u].pc = "rotated" =>
           renewal'[u].pc = "rotated" /\ renewal'[u].token = renewal[u].token

LEMMA UnchangedQuiet ==
    ASSUME UNCHANGED renewal
    PROVE  RenewalsQuiet
BY DEF RenewalsQuiet, InFlight

LEMMA RenewalOfQuiet ==
    ASSUME NEW t \in Tabs, RenewalOf(t), renewal[t].pc = "rotated" => excused',
           renewal'[t].pc # "rotated",
           \/ renewal'[t].pc \notin {"sent", "matched"} /\ renewal'[t].token = NoToken
           \/ renewal[t].pc = "sent" /\ renewal'[t].token = renewal[t].token
    PROVE  RenewalsQuiet
BY NothingTyped DEF RenewalsQuiet, InFlight, RenewalOf

LEMMA TokensStep ==
    ASSUME TypeOK, TokensOK, [Next]_vars
    PROVE  TokensOK'
<1>1. ASSUME NEW r \in Requests, \/ Serve(r) \/ Receive(r) \/ LoseRequest(r)
                                 \/ \E t \in Tabs, read \in BOOLEAN : Send(r, t, read)
                                 \/ ReceiveDenied(r) /\ UNCHANGED renewal
      PROVE  TokensOK'
  <2>1. UNCHANGED <<session, created, reused, cookie, renewal, dialog>>
    BY <1>1 DEF Serve, Receive, LoseRequest, Send, ReceiveDenied, Server, Browser
  <2>2. ~excused' => ~excused
    BY <1>1 DEF Serve, Receive, LoseRequest, Send, ReceiveDenied
  <2> QED
    BY <2>1, <2>2, LoginsKeptQuiet, UnchangedQuiet, QuietStep DEF Quiet, RenewalsQuiet
<1>2. ASSUME NEW r \in Requests, ReceiveDenied(r)
      PROVE  TokensOK'
  BY <1>1, <1>2, TokensStart
<1>3. ASSUME NEW t \in Tabs, CompareToken(t)
      PROVE  TokensOK'
  <2>1. UNCHANGED <<created, cookie, dialog, excused>> /\ renewal[t].pc = "sent"
    BY <1>3 DEF CompareToken, Browser
  <2>2. RenewalsQuiet
    BY <1>3, <2>1, Compared, RenewalOfQuiet
  <2>3. session' = session \/ session' = [s \in 0..MaxSessions |-> 0]
    BY <1>3 DEF CompareToken
  <2>4. \A s \in 0..MaxSessions : session'[s] \in {session[s], 0}
    BY <2>3
  <2>5. ~excused' => reused' = reused
    <3> SUFFICES ASSUME ~excused
                 PROVE  reused' = reused
      BY <2>1
    <3>1. Current(renewal[t].token)
      BY <2>1 DEF TokensOK, OneRenews, InFlight
    <3>2. session[renewal[t].token.sess] \in Nat
      BY TokensTyped, BoundsAreNumbers DEF TypeOK
    <3> QED
      BY <1>3, <3>1, <3>2 DEF CompareToken, Current
  <2> QED
    BY <2>1, <2>2, <2>4, <2>5, LoginsKeptQuiet, QuietStep DEF Quiet, RenewalsQuiet
<1>4. ASSUME NEW t \in Tabs, RefuseRefresh(t)
      PROVE  TokensOK'
  <2>1. UNCHANGED <<session, created, reused, cookie, dialog, excused>> /\ renewal[t].pc = "sent"
    BY <1>4 DEF RefuseRefresh, Server, Browser
  <2>2. RenewalsQuiet
    BY <1>4, <2>1, LimitRefuses, RenewalOfQuiet
  <2> QED
    BY <2>1, <2>2, LoginsKeptQuiet, QuietStep DEF Quiet, RenewalsQuiet
<1>5. ASSUME NEW t \in Tabs, RefusalReturns(t)
      PROVE  TokensOK'
  <2>1. /\ UNCHANGED <<session, created, reused, dialog, excused>> /\ renewal[t].pc = "refused"
        /\ cookie' \in {cookie, NoToken}
        /\ renewal' = [renewal EXCEPT ![t] = [NoRenewal EXCEPT !.pc = "dialog"]]
    BY <1>5 DEF RefusalReturns, Server
  <2>2. RenewalsQuiet
    BY <2>1, RenewalTurns, RenewalOfQuiet
  <2> QED
    BY <2>1, <2>2, LoginsKeptQuiet, QuietStep DEF Quiet, RenewalsQuiet
<1>6. ASSUME NEW t \in Tabs, LoseRefresh(t)
      PROVE  TokensOK'
  <2>1. /\ UNCHANGED <<session, created, reused, cookie, dialog>>
        /\ excused' = (excused \/ renewal[t].pc = "rotated")
        /\ renewal' = [renewal EXCEPT ![t] = NoRenewal]
    BY <1>6 DEF LoseRefresh, Server, Browser
  <2>2. RenewalsQuiet
    BY <2>1, RenewalEnds, RenewalOfQuiet, NothingTyped
  <2> QED
    BY <2>1, <2>2, LoginsKeptQuiet, QuietStep DEF Quiet, RenewalsQuiet
<1>7. ASSUME NEW t \in Tabs, SubmitReauth(t) \/ LoginFails(t)
      PROVE  TokensOK'
  <2>1. UNCHANGED <<session, created, reused, cookie, renewal, excused>>
    BY <1>7 DEF SubmitReauth, LoginFails, Server, Browser
  <2>2. /\ DialogOf(t) /\ dialog'[t].login # "accepted"
        /\ dialog'[t].token.sess \in {dialog[t].token.sess, 0}
    BY <1>7, Submitted, LoginEnds, NothingTyped
  <2> QED
    BY <2>1, <2>2, DialogOfQuiet, UnchangedQuiet, QuietStep DEF Quiet, RenewalsQuiet
<1>8. ASSUME NEW t \in Tabs, CheckSession(t) \/ AnswerCheck(t)
      PROVE  TokensOK'
  <2>1. UNCHANGED <<session, created, reused, cookie, renewal, excused>>
    BY <1>8 DEF CheckSession, AnswerCheck, Server, Browser
  <2>2. LoginsKept
    BY <1>8, ChecksKeepLogins
  <2> QED
    BY <2>1, <2>2, LoginsKeptQuiet, UnchangedQuiet, QuietStep DEF Quiet, RenewalsQuiet
<1>9. ASSUME NEW t \in Tabs, CheckReturns(t)
      PROVE  TokensOK'
  <2>1. UNCHANGED <<session, created, reused, cookie, excused>> /\ DialogCloses(t, access)
    BY <1>9 DEF CheckReturns, Server, Browser
  <2>2. LoginsKept /\ access \in BOOLEAN
    BY <1>9, ChecksKeepLogins DEF TypeOK
  <2>3. \/ UNCHANGED renewal
        \/ RenewalOf(t) /\ renewal[t].pc = "dialog" /\ renewal'[t] = NoRenewal
    BY <2>1, <2>2, Closed
  <2>4. RenewalsQuiet
    BY <2>3, UnchangedQuiet, RenewalOfQuiet, NothingTyped
  <2> QED
    BY <2>1, <2>2, <2>4, LoginsKeptQuiet, QuietStep DEF Quiet, RenewalsQuiet
<1>10. ASSUME NEW t \in Tabs, NEW stays \in BOOLEAN, LogOut(t, stays)
       PROVE  TokensOK'
  <2>1. /\ UNCHANGED <<created, reused, excused>> /\ cookie' = NoToken
        /\ session' = [session EXCEPT ![cookie.sess] = 0]
    BY <1>10 DEF LogOut
  <2>2. \A s \in 0..MaxSessions : session'[s] \in {session[s], 0}
    BY <2>1 DEF TypeOK
  <2>3. CASE UNCHANGED <<renewal, dialog>>
    BY <2>1, <2>2, <2>3, LoginsKeptQuiet, UnchangedQuiet, QuietStep DEF Quiet, RenewalsQuiet
  <2>4. CASE /\ renewal[t].pc = "dialog" /\ RenewalOf(t)
             /\ renewal'[t].pc = "left" /\ renewal'[t].token = NoToken
             /\ DialogOf(t) /\ dialog'[t] = NoDialog
    <3>1. RenewalsQuiet
      BY <2>4, RenewalOfQuiet
    <3>2. dialog'[t].login # "accepted" /\ dialog'[t].token.sess = 0
      BY <2>4, NothingTyped
    <3> QED
      BY <2>1, <2>2, <2>4, <3>1, <3>2, DialogOfQuiet, QuietStep DEF Quiet, RenewalsQuiet
  <2> QED
    BY <1>10, <2>3, <2>4, LoggedOut
<1>11. CASE ExpireAccess
  <2>1. UNCHANGED <<session, created, reused, cookie, renewal, excused>>
    BY <1>11 DEF ExpireAccess, Server
  <2>2. LoginsKept
    BY <1>11, ExpiryKeepsLogins
  <2> QED
    BY <2>1, <2>2, LoginsKeptQuiet, UnchangedQuiet, QuietStep DEF Quiet, RenewalsQuiet
<1>12. CASE EndSessions
  <2>1. /\ UNCHANGED <<created, reused, cookie, renewal, dialog, excused>>
        /\ \A s \in 0..MaxSessions : session'[s] = 0
    BY <1>12 DEF EndSessions, Browser
  <2> QED
    BY <2>1, LoginsKeptQuiet, UnchangedQuiet, QuietStep DEF Quiet, RenewalsQuiet
<1>13. CASE UNCHANGED vars
  BY <1>13, LoginsKeptQuiet, UnchangedQuiet, QuietStep DEF Quiet, RenewalsQuiet, vars
<1> QED
  BY <1>1, <1>2, <1>3, <1>4, <1>5, <1>6, <1>7, <1>8, <1>9, <1>10, <1>11, <1>12, <1>13,
     TokensRotate, TokensArrive, TokensLogin, TokensReplaced
     DEF Next, Progress, Refreshing, LoggingIn, Checking

-----------------------------------------------------------------------------
(* The invariants. *)

Inv == TypeOK /\ RowsOK /\ WaitersServed /\ TokensOK

LEMMA InitInv == Init => Inv
<1> SUFFICES ASSUME Init
             PROVE  Inv
  OBVIOUS
<1> DEFINE idle == [pc |-> "idle", tab |-> CHOOSE t \in Tabs : TRUE, read |-> TRUE,
                    try |-> "first", cred |-> FALSE, runs |-> 0]
<1>1. (CHOOSE t \in Tabs : TRUE) \in Tabs
  BY Bounds
<1>2. idle \in RequestRows /\ RunsBounded(idle) /\ idle.pc = "idle"
  BY <1>1 DEF RequestRows, RunsBounded, Spare
<1>3. req = [r \in Requests |-> idle]
  BY DEF Init
<1> HIDE DEF idle
<1>4. RowsOK
  BY <1>2, <1>3 DEF RowsOK, RowOK
<1>5. session \in [0..MaxSessions -> 0..MaxSecrets] /\ cookie \in Tokens
  BY BoundsAreNumbers DEF Init, Tokens
<1>6. TypeOK
  <2>1. renewal \in [Tabs -> Renewals] /\ dialog \in [Tabs -> Dialogs]
    BY NothingTyped DEF Init
  <2>2. req \in [Requests -> RequestRows]
    BY <1>2, <1>3
  <2>3. created \in 0..MaxSessions /\ expiries \in 0..MaxExpiries /\ failures \in 0..MaxFailures
    BY BoundsAreNumbers DEF Init
  <2>4. access \in BOOLEAN /\ reused \in BOOLEAN /\ excused \in BOOLEAN
    BY DEF Init
  <2> QED
    BY <1>5, <2>1, <2>2, <2>3, <2>4 DEF TypeOK
<1>7. WaitersServed
  BY <1>2, <1>3 DEF WaitersServed, Open, UnderWay
<1>8. /\ \A t \in Tabs : renewal[t] = NoRenewal /\ dialog[t] = NoDialog
      /\ cookie.sess = 1 /\ cookie.secret = 1 /\ created = 1
      /\ session[1] = 1 /\ session[0] = 0 /\ \A s \in 0..MaxSessions : s > 1 => session[s] = 0
      /\ ~reused
  BY BoundsAreNumbers DEF Init
<1>9. TokensKnown
  BY <1>8, NothingTyped DEF TokensKnown, LoginIsNew
<1>10. OneRenews
  BY <1>8, NothingTyped DEF OneRenews, InFlight, Current
<1> QED
  BY <1>4, <1>6, <1>7, <1>9, <1>10 DEF Inv, TokensOK

LEMMA StepInv == Inv /\ [Next]_vars => Inv'
BY RowsStep, TypeStep, WaitersStep, TokensStep DEF Inv

\* In every reachable state rows, requests, waiters and tokens are as described above.
THEOREM Invariant == Spec => []Inv
BY InitInv, StepInv, PTL DEF Spec

\* The rows of the tables, the requests and the dialogs keep their types, and no request is
\* counted more often than twice.
THEOREM SessionTyped == Spec => []TypeOK
BY Invariant, PTL DEF Inv

\* authFetch: for every number of tabs, requests, expiries and failures, a request that
\* changes something runs once if its caller is told so, and never twice.
THEOREM NoWriteRunsTwice == Spec => []WritesRunOnce
<1>1. Inv => WritesRunOnce
  BY DEF Inv, RowsOK, RowOK, RunsBounded, Spare, WritesRunOnce, RequestRows
<1> QED
  BY <1>1, Invariant, PTL

\* singleFlight and pendingReauth: nobody waits for a renewal that has ended.
THEOREM WaitersAreServed == Spec => []NoWaiterIsForgotten
<1>1. Inv => NoWaiterIsForgotten
  BY DEF Inv, WaitersServed, NoWaiterIsForgotten, Open
<1> QED
  BY <1>1, Invariant, PTL

\* RefreshSession: without a lost answer and without two tabs renewing at once the server
\* sees no refresh token twice.
THEOREM TokensAreUsedOnce == Spec => []ReuseIsExcused
<1>1. Inv => ReuseIsExcused
  BY DEF Inv, TokensOK, OneRenews, ReuseIsExcused
<1> QED
  BY <1>1, Invariant, PTL

-----------------------------------------------------------------------------
(* The limits of the login: one is overshot at most by the logins that were  *)
(* past its check, and a block lasts until its window is over.  A login      *)
(* passes a check only while the counter is below the limit, when even all   *)
(* logins together do not exceed the bound, and a failure only turns a login *)
(* that passed into one that was counted.                                    *)

IPBounded(a) ==
    byIP[a].count + Cardinality(PassedIP(a)) <= MaxFailedIP + (Cardinality(Logins) - 1)
LoginBounded(k) ==
    byIPAndEmail[k].count + Cardinality(Admitted(k)) <= MaxFailed + (Cardinality(Logins) - 1)

LimitsInv ==
    /\ LimitsTypeOK
    /\ \A a \in Addresses : IPBounded(a)
    /\ \A k \in Addresses \X Emails : LoginBounded(k)

-----------------------------------------------------------------------------
(* Entries.                                                                *)

LEMMA Limits ==
    /\ MaxFailedIP \in Nat /\ MaxFailedIP >= 1
    /\ MaxFailed \in Nat /\ MaxFailed >= 1
    /\ MaxCalls \in Nat /\ Window \in Nat /\ Window >= 1
    /\ MaxAge \in Nat /\ MaxAge >= 1
    /\ CleanupEvery \in Nat /\ CleanupEvery >= 1
BY LimitsAssumption

LEMMA EntryType ==
    ASSUME NEW e \in Entries
    PROVE  e.count \in Nat /\ e.left \in Int /\ e.left >= -(MaxAge + 1) /\ e.left <= Window
BY Limits DEF Entries

LEMMA NoEntryType == NoEntry \in Entries /\ NoEntry.count = 0 /\ Over(NoEntry)
BY Limits DEF NoEntry, Entries, Over

LEMMA CheckedType ==
    ASSUME NEW e \in Entries
    PROVE  /\ Checked(e) \in Entries
           /\ Checked(e).count <= e.count
           /\ Over(e) => Checked(e).count = 0
           /\ ~Over(e) => Checked(e) = e
BY EntryType, NoEntryType DEF Checked

LEMMA RecordedType ==
    ASSUME NEW e \in Entries
    PROVE  /\ Recorded(e) \in Entries
           /\ Recorded(e).count <= e.count + 1
           /\ ~Over(e) => Recorded(e).left = e.left /\ Recorded(e).count = e.count + 1
<1>1. CASE Over(e)
  BY <1>1, Limits, EntryType DEF Recorded, Entries
<1>2. CASE ~Over(e)
  BY <1>2, EntryType DEF Recorded, Entries
<1> QED
  BY <1>1, <1>2

LEMMA CleanedType ==
    ASSUME NEW K, NEW f \in [K -> Entries], NEW n
    PROVE  /\ Cleaned(f, n) \in [K -> Entries]
           /\ \A k \in K : \/ Cleaned(f, n)[k] = f[k]
                           \/ Cleaned(f, n)[k] = NoEntry /\ f[k].left < -MaxAge
BY NoEntryType DEF Cleaned

LEMMA ElapsedType ==
    ASSUME NEW K, NEW f \in [K -> Entries]
    PROVE  /\ Elapsed(f) \in [K -> Entries]
           /\ \A k \in K :
                /\ Elapsed(f)[k].count = f[k].count
                /\ f[k].left >= 0 => Elapsed(f)[k].left = f[k].left - 1
<1> SUFFICES ASSUME NEW k \in K
             PROVE  /\ Elapsed(f)[k] \in Entries
                    /\ Elapsed(f)[k].count = f[k].count
                    /\ f[k].left >= 0 => Elapsed(f)[k].left = f[k].left - 1
  BY DEF Elapsed
<1> DEFINE e == f[k]
           l == IF e.left > -(MaxAge + 1) THEN e.left - 1 ELSE e.left
<1>1. Elapsed(f)[k] = [e EXCEPT !.left = l]
  BY DEF Elapsed
<1>2. l \in -(MaxAge + 1) .. Window /\ (e.left >= 0 => l = e.left - 1)
  BY EntryType, Limits
<1> HIDE DEF l
<1> QED
  BY <1>1, <1>2 DEF Entries

LEMMA NextCallType == ASSUME NEW n \in 0 .. CleanupEvery - 1
                      PROVE  NextCall(n) \in 0 .. CleanupEvery - 1
BY Limits DEF NextCall

-----------------------------------------------------------------------------
(* Logins.                                                                 *)

LEMMA NoLoginType == NoLogin \in LoginRows /\ NoLogin.pc = "idle"
<1>1. /\ (CHOOSE a \in Addresses : TRUE) \in Addresses
      /\ (CHOOSE m \in Emails : TRUE) \in Emails
  BY LimitsAssumption
<1> QED
  BY <1>1 DEF NoLogin, LoginRows

LEMMA FewerLogins ==
    ASSUME NEW T, IsFiniteSet(T), NEW S, S \subseteq T
    PROVE  /\ IsFiniteSet(S) /\ Cardinality(S) \in Nat /\ Cardinality(T) \in Nat
           /\ Cardinality(S) <= Cardinality(T)
BY FS_Subset, FS_CardinalityType

LEMMA OneLoginLess ==
    ASSUME NEW T, IsFiniteSet(T), NEW h \in T, NEW S, S \subseteq T \ {h}
    PROVE  Cardinality(S) + 1 <= Cardinality(T)
<1>1. IsFiniteSet(T \ {h}) /\ Cardinality(T \ {h}) = Cardinality(T) - 1
  BY FS_RemoveElement
<1>2. Cardinality(S) \in Nat /\ Cardinality(S) <= Cardinality(T \ {h})
  BY <1>1, FewerLogins
<1>3. Cardinality(T) \in Nat
  BY FS_CardinalityType
<1> QED
  BY <1>1, <1>2, <1>3

LEMMA LoginSets ==
    /\ \A a : /\ IsFiniteSet(PassedIP(a)) /\ Cardinality(PassedIP(a)) \in Nat
              /\ Cardinality(PassedIP(a)) <= Cardinality(Logins)
    /\ \A k : /\ IsFiniteSet(Admitted(k)) /\ Cardinality(Admitted(k)) \in Nat
              /\ Cardinality(Admitted(k)) <= Cardinality(Logins)
    /\ Cardinality(Logins) \in Nat
<1>1. IsFiniteSet(Logins) /\ Cardinality(Logins) \in Nat
  BY LimitsAssumption, FS_CardinalityType
<1>2. \A a : PassedIP(a) \subseteq Logins
  BY DEF PassedIP
<1>3. \A k : Admitted(k) \subseteq Logins
  BY DEF Admitted
<1> QED
  BY <1>1, <1>2, <1>3, FewerLogins

LEMMA LoginSetsPrimed ==
    /\ \A a : /\ Cardinality(PassedIP(a)') \in Nat
              /\ Cardinality(PassedIP(a)') <= Cardinality(Logins)
    /\ \A k : /\ Cardinality(Admitted(k)') \in Nat
              /\ Cardinality(Admitted(k)') <= Cardinality(Logins)
<1>1. IsFiniteSet(Logins)
  BY LimitsAssumption
<1>2. \A a : PassedIP(a)' \subseteq Logins
  BY DEF PassedIP
<1>3. \A k : Admitted(k)' \subseteq Logins
  BY DEF Admitted
<1> QED
  BY <1>1, <1>2, <1>3, FewerLogins

-----------------------------------------------------------------------------
(* The steps.                                                              *)

\* Nobody new gets past a check, and nothing is counted.
LEMMA IPFrame ==
    ASSUME LimitsInv, NEW a \in Addresses,
           byIP'[a].count \in Nat, byIP'[a].count <= byIP[a].count,
           PassedIP(a)' \subseteq PassedIP(a)
    PROVE  IPBounded(a)'
<1>1. byIP[a].count \in Nat
  BY EntryType DEF LimitsInv, LimitsTypeOK
<1>2. Cardinality(PassedIP(a)') <= Cardinality(PassedIP(a))
  BY LoginSets, FewerLogins
<1>3. Cardinality(PassedIP(a)) \in Nat /\ Cardinality(PassedIP(a)') \in Nat /\ Cardinality(Logins) \in Nat
  BY LoginSets, LoginSetsPrimed
<1> QED
  BY <1>1, <1>2, <1>3, Limits DEF LimitsInv, IPBounded

LEMMA LoginFrame ==
    ASSUME LimitsInv, NEW k \in Addresses \X Emails,
           byIPAndEmail'[k].count \in Nat, byIPAndEmail'[k].count <= byIPAndEmail[k].count,
           Admitted(k)' \subseteq Admitted(k)
    PROVE  LoginBounded(k)'
<1>1. byIPAndEmail[k].count \in Nat
  BY EntryType DEF LimitsInv, LimitsTypeOK
<1>2. Cardinality(Admitted(k)') <= Cardinality(Admitted(k))
  BY LoginSets, FewerLogins
<1>3. Cardinality(Admitted(k)) \in Nat /\ Cardinality(Admitted(k)') \in Nat /\ Cardinality(Logins) \in Nat
  BY LoginSets, LoginSetsPrimed
<1> QED
  BY <1>1, <1>2, <1>3, Limits DEF LimitsInv, LoginBounded

\* A login ends: it is in no set any more.
LEMMA LoginEndsKeeps ==
    ASSUME LimitsTypeOK, NEW h \in Logins, Ends(h)
    PROVE  /\ login' \in [Logins -> LoginRows]
           /\ \A a : PassedIP(a)' \subseteq PassedIP(a) \ {h}
           /\ \A k : Admitted(k)' \subseteq Admitted(k) \ {h}
<1>1. login' = [login EXCEPT ![h] = NoLogin] /\ login \in [Logins -> LoginRows]
  BY DEF Ends, LimitsTypeOK
<1>2. login' \in [Logins -> LoginRows]
  BY <1>1, NoLoginType
<1>3. /\ login'[h].pc = "idle"
      /\ \A g \in Logins : g # h => login'[g] = login[g]
  BY <1>1, NoLoginType
<1> QED
  BY <1>2, <1>3 DEF PassedIP, Admitted, Key

\* Nothing happens to the logins.
LEMMA LoginsStay ==
    ASSUME UNCHANGED login
    PROVE  /\ \A a : PassedIP(a)' = PassedIP(a)
           /\ \A k : Admitted(k)' = Admitted(k)
BY DEF PassedIP, Admitted, Key

LEMMA CheckIPStep ==
    ASSUME LimitsInv, NEW h \in Logins, NEW a \in Addresses, CheckIP(h, a)
    PROVE  LimitsInv'
<1> DEFINE row == [NoLogin EXCEPT !.pc = "address", !.addr = a]
<1>1. /\ login[h].pc = "idle" /\ ~Blocked(byIP[a], MaxFailedIP)
      /\ byIP' = [byIP EXCEPT ![a] = Checked(byIP[a])]
      /\ login' = [login EXCEPT ![h] = row]
      /\ UNCHANGED <<byIPAndEmail, counts, calls, keyedCalls>>
  BY DEF CheckIP
<1>2. byIP \in [Addresses -> Entries] /\ login \in [Logins -> LoginRows]
  BY DEF LimitsInv, LimitsTypeOK
<1>3. row \in LoginRows /\ row.pc = "address" /\ row.addr = a
  BY NoLoginType DEF LoginRows
<1> HIDE DEF row
<1>4. Checked(byIP[a]) \in Entries
  BY <1>2, CheckedType
<1>5. LimitsTypeOK'
  <2>1. byIP' \in [Addresses -> Entries]
    BY <1>1, <1>2, <1>4
  <2>2. login' \in [Logins -> LoginRows]
    BY <1>1, <1>2, <1>3
  <2> QED
    BY <1>1, <2>1, <2>2 DEF LimitsInv, LimitsTypeOK
<1>6. /\ \A g \in Logins \ {h} : login'[g] = login[g]
      /\ login'[h] = row
  BY <1>1, <1>2
<1>7. ASSUME NEW b \in Addresses PROVE IPBounded(b)'
  <2>1. CASE b = a
    <3>1. byIP'[a] = Checked(byIP[a]) /\ byIP[a] \in Entries
      BY <1>1, <1>2
    <3>2. byIP'[a].count \in Nat /\ byIP'[a].count <= MaxFailedIP - 1
      <4>1. CASE Over(byIP[a])
        BY <3>1, <4>1, CheckedType, Limits
      <4>2. CASE ~Over(byIP[a])
        <5>1. byIP'[a] = byIP[a]
          BY <3>1, <4>2, CheckedType
        <5> QED
          BY <1>1, <3>1, <4>2, <5>1, EntryType, Limits DEF Blocked
      <4> QED
        BY <4>1, <4>2
    <3>3. /\ Cardinality(PassedIP(a)') \in Nat /\ Cardinality(Logins) \in Nat
          /\ Cardinality(PassedIP(a)') <= Cardinality(Logins)
      BY LoginSets, LoginSetsPrimed
    <3> QED
      BY <2>1, <3>2, <3>3, Limits DEF IPBounded
  <2>2. CASE b # a
    <3>1. PassedIP(b)' \subseteq PassedIP(b)
      BY <1>3, <1>6, <2>2 DEF PassedIP
    <3>2. byIP'[b] = byIP[b]
      BY <1>1, <1>2, <2>2
    <3>3. byIP[b].count \in Nat
      BY <1>2, EntryType
    <3> QED
      BY <3>1, <3>2, <3>3, IPFrame
  <2> QED
    BY <2>1, <2>2
<1>8. ASSUME NEW k \in Addresses \X Emails PROVE LoginBounded(k)'
  <2>1. Admitted(k)' \subseteq Admitted(k)
    BY <1>3, <1>6 DEF Admitted, Key
  <2>2. byIPAndEmail'[k] = byIPAndEmail[k] /\ byIPAndEmail[k].count \in Nat
    BY <1>1, EntryType DEF LimitsInv, LimitsTypeOK
  <2> QED
    BY <2>1, <2>2, LoginFrame
<1> QED
  BY <1>5, <1>7, <1>8 DEF LimitsInv

LEMMA CheckIPAndEmailStep ==
    ASSUME LimitsInv, NEW h \in Logins, NEW m \in Emails, CheckIPAndEmail(h, m)
    PROVE  LimitsInv'
<1> DEFINE key == <<login[h].addr, m>>
<1>1. /\ login[h].pc = "address"
      /\ IF Blocked(byIPAndEmail[key], MaxFailed)
         THEN Ends(h) ELSE login' = [login EXCEPT ![h].pc = "admitted", ![h].email = m]
      /\ byIPAndEmail' = [byIPAndEmail EXCEPT ![key] = Checked(byIPAndEmail[key])]
      /\ UNCHANGED <<byIP, counts, calls, keyedCalls>>
  BY DEF CheckIPAndEmail
<1>2. /\ byIPAndEmail \in [Addresses \X Emails -> Entries] /\ login \in [Logins -> LoginRows]
      /\ byIP \in [Addresses -> Entries]
  BY DEF LimitsInv, LimitsTypeOK
<1>3. key \in Addresses \X Emails
  BY <1>2 DEF LoginRows
<1> HIDE DEF key
<1>4. byIPAndEmail' \in [Addresses \X Emails -> Entries]
  BY <1>1, <1>2, <1>3, CheckedType
<1>5. /\ login' \in [Logins -> LoginRows]
      /\ \A b : PassedIP(b)' \subseteq PassedIP(b)
      /\ \A k : k # key \/ Blocked(byIPAndEmail[key], MaxFailed)
                => Admitted(k)' \subseteq Admitted(k)
  <2>1. CASE Blocked(byIPAndEmail[key], MaxFailed)
    <3>1. Ends(h)
      BY <1>1, <2>1
    <3>2. LimitsTypeOK
      BY DEF LimitsInv
    <3>3. /\ login' \in [Logins -> LoginRows]
          /\ \A b : PassedIP(b)' \subseteq PassedIP(b) \ {h}
          /\ \A k : Admitted(k)' \subseteq Admitted(k) \ {h}
      BY <3>1, <3>2, LoginEndsKeeps
    <3>4. /\ \A b : PassedIP(b)' \subseteq PassedIP(b)
          /\ \A k : Admitted(k)' \subseteq Admitted(k)
      BY <3>3
    <3> QED
      BY <3>3, <3>4
  <2>2. CASE ~Blocked(byIPAndEmail[key], MaxFailed)
    <3>1. login' = [login EXCEPT ![h] = [login[h] EXCEPT !.pc = "admitted", !.email = m]]
      BY <1>1, <1>2, <2>2
    <3> DEFINE row == [login[h] EXCEPT !.pc = "admitted", !.email = m]
    <3>2. row \in LoginRows /\ row.pc = "admitted" /\ row.addr = login[h].addr /\ row.email = m
      BY <1>2 DEF LoginRows
    <3>3. login' = [login EXCEPT ![h] = row]
      BY <3>1
    <3> HIDE DEF row
    <3>4. login' \in [Logins -> LoginRows]
      BY <1>2, <3>2, <3>3
    <3>5. login'[h] = row /\ \A g \in Logins \ {h} : login'[g] = login[g]
      BY <1>2, <3>3
    <3>6. \A b : PassedIP(b)' \subseteq PassedIP(b)
      BY <1>1, <3>2, <3>5 DEF PassedIP
    <3>7. \A k : k # key => Admitted(k)' \subseteq Admitted(k)
      BY <3>2, <3>5 DEF Admitted, Key, key
    <3> QED
      BY <2>2, <3>4, <3>6, <3>7
  <2> QED
    BY <2>1, <2>2
<1>6. LimitsTypeOK'
  BY <1>1, <1>4, <1>5 DEF LimitsInv, LimitsTypeOK
<1>7. ASSUME NEW b \in Addresses PROVE IPBounded(b)'
  <2>1. byIP'[b] = byIP[b] /\ byIP[b].count \in Nat
    BY <1>1, <1>2, EntryType
  <2> QED
    BY <1>5, <2>1, IPFrame
<1>8. ASSUME NEW k \in Addresses \X Emails PROVE LoginBounded(k)'
  <2> DEFINE e == byIPAndEmail[k]
  <2>1. /\ e \in Entries /\ e.count \in Nat /\ Checked(e).count <= e.count
        /\ Checked(e).count \in Nat
    BY <1>2, CheckedType, EntryType
  <2>2. byIPAndEmail'[k] = IF k = key THEN Checked(e) ELSE e
    BY <1>1, <1>2, <1>3
  <2>3. CASE k # key \/ Blocked(e, MaxFailed)
    <3>1. Admitted(k)' \subseteq Admitted(k)
      <4>1. CASE k # key
        BY <1>5, <4>1
      <4>2. CASE k = key
        <5>1. Blocked(byIPAndEmail[key], MaxFailed)
          BY <2>3, <4>2
        <5> QED
          BY <1>5, <4>2, <5>1
      <4> QED
        BY <4>1, <4>2
    <3>2. byIPAndEmail'[k].count \in Nat /\ byIPAndEmail'[k].count <= byIPAndEmail[k].count
      BY <2>1, <2>2
    <3> QED
      BY <3>1, <3>2, LoginFrame
  <2>4. CASE k = key /\ ~Blocked(e, MaxFailed)
    <3>1. byIPAndEmail'[k].count \in Nat /\ byIPAndEmail'[k].count <= MaxFailed - 1
      <4>1. CASE Over(e)
        BY <2>1, <2>2, <2>4, <4>1, CheckedType, Limits
      <4>2. CASE ~Over(e)
        BY <2>1, <2>2, <2>4, <4>2, CheckedType, Limits DEF Blocked
      <4> QED
        BY <4>1, <4>2
    <3>2. /\ Cardinality(Admitted(k)') \in Nat /\ Cardinality(Logins) \in Nat
          /\ Cardinality(Admitted(k)') <= Cardinality(Logins)
      BY LoginSets, LoginSetsPrimed
    <3> QED
      BY <3>1, <3>2, Limits DEF LoginBounded
  <2> QED
    BY <2>3, <2>4
<1> QED
  BY <1>6, <1>7, <1>8 DEF LimitsInv

LEMMA RecordFailureStep ==
    ASSUME LimitsInv, NEW h \in Logins, RecordFailure(h) PROVE LimitsInv'
<1> DEFINE n == NextCall(calls)
           a == login[h].addr
           key == Key(h)
           ips == [byIP EXCEPT ![a] = Recorded(byIP[a])]
           pairs == [byIPAndEmail EXCEPT ![key] = Recorded(byIPAndEmail[key])]
<1>1. /\ login[h].pc = "admitted" /\ Ends(h)
      /\ calls' = n /\ byIP' = Cleaned(ips, n) /\ byIPAndEmail' = Cleaned(pairs, n)
      /\ UNCHANGED <<counts, keyedCalls>>
  BY DEF RecordFailure
<1>2. /\ byIP \in [Addresses -> Entries] /\ byIPAndEmail \in [Addresses \X Emails -> Entries]
      /\ login \in [Logins -> LoginRows] /\ calls \in 0 .. CleanupEvery - 1 /\ LimitsTypeOK
  BY DEF LimitsInv, LimitsTypeOK
<1>3. a \in Addresses /\ key \in Addresses \X Emails
  BY <1>2 DEF LoginRows, Key
<1>4. h \in PassedIP(a) /\ h \in Admitted(key)
  BY <1>1 DEF PassedIP, Admitted
<1>5. n \in 0 .. CleanupEvery - 1
  BY <1>2, NextCallType
<1> HIDE DEF n, a, key
<1>6. /\ ips \in [Addresses -> Entries]
      /\ \A b \in Addresses : ips[b] = IF b = a THEN Recorded(byIP[a]) ELSE byIP[b]
  BY <1>2, <1>3, RecordedType
<1>7. /\ pairs \in [Addresses \X Emails -> Entries]
      /\ \A k \in Addresses \X Emails :
           pairs[k] = IF k = key THEN Recorded(byIPAndEmail[key]) ELSE byIPAndEmail[k]
  BY <1>2, <1>3, RecordedType
<1> HIDE DEF ips, pairs
<1>8. /\ byIP' \in [Addresses -> Entries]
      /\ \A b \in Addresses : byIP'[b] = ips[b] \/ byIP'[b] = NoEntry
  BY <1>1, <1>6, CleanedType
<1>9. /\ byIPAndEmail' \in [Addresses \X Emails -> Entries]
      /\ \A k \in Addresses \X Emails : byIPAndEmail'[k] = pairs[k] \/ byIPAndEmail'[k] = NoEntry
  BY <1>1, <1>7, CleanedType
<1>10. /\ login' \in [Logins -> LoginRows]
       /\ \A b : PassedIP(b)' \subseteq PassedIP(b) \ {h}
       /\ \A k : Admitted(k)' \subseteq Admitted(k) \ {h}
  BY <1>1, <1>2, LoginEndsKeeps
<1>11. LimitsTypeOK'
  BY <1>1, <1>2, <1>5, <1>8, <1>9, <1>10 DEF LimitsTypeOK
<1>12. ASSUME NEW b \in Addresses PROVE IPBounded(b)'
  <2>1. byIP[b] \in Entries /\ byIP[b].count \in Nat /\ byIP'[b].count \in Nat
    BY <1>2, <1>8, EntryType
  <2>2. CASE b = a
    <3>1. byIP'[b].count <= byIP[b].count + 1
      BY <1>6, <1>8, <2>1, <2>2, RecordedType, NoEntryType
    <3>2. Cardinality(PassedIP(b)') + 1 <= Cardinality(PassedIP(b))
      BY <1>4, <1>10, <2>2, LoginSets, OneLoginLess
    <3>3. /\ Cardinality(PassedIP(b)) \in Nat /\ Cardinality(PassedIP(b)') \in Nat
          /\ Cardinality(Logins) \in Nat
      BY LoginSets, LoginSetsPrimed
    <3> QED
      BY <2>1, <3>1, <3>2, <3>3, Limits DEF LimitsInv, IPBounded
  <2>3. CASE b # a
    <3>1. byIP'[b].count <= byIP[b].count
      BY <1>6, <1>8, <2>1, <2>3, NoEntryType
    <3>2. PassedIP(b)' \subseteq PassedIP(b)
      BY <1>10
    <3> QED
      BY <2>1, <3>1, <3>2, IPFrame
  <2> QED
    BY <2>2, <2>3
<1>13. ASSUME NEW k \in Addresses \X Emails PROVE LoginBounded(k)'
  <2>1. /\ byIPAndEmail[k] \in Entries /\ byIPAndEmail[k].count \in Nat
        /\ byIPAndEmail'[k].count \in Nat
    BY <1>2, <1>9, EntryType
  <2>2. CASE k = key
    <3>1. byIPAndEmail'[k].count <= byIPAndEmail[k].count + 1
      BY <1>7, <1>9, <2>1, <2>2, RecordedType, NoEntryType
    <3>2. Cardinality(Admitted(k)') + 1 <= Cardinality(Admitted(k))
      BY <1>4, <1>10, <2>2, LoginSets, OneLoginLess
    <3>3. /\ Cardinality(Admitted(k)) \in Nat /\ Cardinality(Admitted(k)') \in Nat
          /\ Cardinality(Logins) \in Nat
      BY LoginSets, LoginSetsPrimed
    <3> QED
      BY <2>1, <3>1, <3>2, <3>3, Limits DEF LimitsInv, LoginBounded
  <2>3. CASE k # key
    <3>1. byIPAndEmail'[k].count <= byIPAndEmail[k].count
      BY <1>7, <1>9, <2>1, <2>3, NoEntryType
    <3>2. Admitted(k)' \subseteq Admitted(k)
      BY <1>10
    <3> QED
      BY <2>1, <3>1, <3>2, LoginFrame
  <2> QED
    BY <2>2, <2>3
<1> QED
  BY <1>11, <1>12, <1>13 DEF LimitsInv

\* A login that ends uncounted.
LEMMA UncountedEndSteps ==
    ASSUME LimitsInv, NEW h \in Logins, ResetOnSuccess(h) \/ LoginFailsUncounted(h)
    PROVE  LimitsInv'
<1>1. /\ Ends(h) /\ UNCHANGED <<byIP, counts, calls, keyedCalls>>
      /\ \/ byIPAndEmail' = byIPAndEmail
         \/ byIPAndEmail' = [byIPAndEmail EXCEPT ![Key(h)] = NoEntry]
  BY DEF ResetOnSuccess, LoginFailsUncounted
<1>2. /\ byIP \in [Addresses -> Entries] /\ byIPAndEmail \in [Addresses \X Emails -> Entries]
      /\ LimitsTypeOK
  BY DEF LimitsInv, LimitsTypeOK
<1>3. /\ byIPAndEmail' \in [Addresses \X Emails -> Entries]
      /\ \A k \in Addresses \X Emails :
           byIPAndEmail'[k] = byIPAndEmail[k] \/ byIPAndEmail'[k] = NoEntry
  BY <1>1, <1>2, NoEntryType
<1>4. /\ login' \in [Logins -> LoginRows]
      /\ \A b : PassedIP(b)' \subseteq PassedIP(b) \ {h}
      /\ \A k : Admitted(k)' \subseteq Admitted(k) \ {h}
  BY <1>1, <1>2, LoginEndsKeeps
<1>5. LimitsTypeOK'
  BY <1>1, <1>2, <1>3, <1>4 DEF LimitsTypeOK
<1>6. ASSUME NEW b \in Addresses PROVE IPBounded(b)'
  <2>1. byIP'[b] = byIP[b] /\ byIP[b].count \in Nat /\ PassedIP(b)' \subseteq PassedIP(b)
    BY <1>1, <1>2, <1>4, EntryType
  <2> QED
    BY <2>1, IPFrame
<1>7. ASSUME NEW k \in Addresses \X Emails PROVE LoginBounded(k)'
  <2>1. byIPAndEmail[k].count \in Nat /\ Admitted(k)' \subseteq Admitted(k)
    BY <1>2, <1>4, EntryType
  <2>2. byIPAndEmail'[k].count \in Nat /\ byIPAndEmail'[k].count <= byIPAndEmail[k].count
    BY <1>3, <2>1, NoEntryType
  <2> QED
    BY <2>1, <2>2, LoginFrame
<1> QED
  BY <1>5, <1>6, <1>7 DEF LimitsInv

\* The failed logins and the counts of a keyedLimiter have nothing to do with each other.
LEMMA CountsStep ==
    ASSUME LimitsInv, LimitsTypeOK', UNCHANGED login,
           \A a \in Addresses : byIP'[a].count = byIP[a].count,
           \A k \in Addresses \X Emails : byIPAndEmail'[k].count = byIPAndEmail[k].count
    PROVE  LimitsInv'
<1>1. ASSUME NEW a \in Addresses PROVE IPBounded(a)'
  <2>1. byIP[a].count \in Nat
    BY EntryType DEF LimitsInv, LimitsTypeOK
  <2>2. PassedIP(a)' \subseteq PassedIP(a)
    BY LoginsStay
  <2> QED
    BY <2>1, <2>2, IPFrame
<1>2. ASSUME NEW k \in Addresses \X Emails PROVE LoginBounded(k)'
  <2>1. byIPAndEmail[k].count \in Nat
    BY EntryType DEF LimitsInv, LimitsTypeOK
  <2>2. Admitted(k)' \subseteq Admitted(k)
    BY LoginsStay
  <2> QED
    BY <2>1, <2>2, LoginFrame
<1> QED
  BY <1>1, <1>2 DEF LimitsInv

LEMMA AllowStep ==
    ASSUME LimitsInv, NEW c \in Callers, Allow(c) PROVE LimitsInv'
<1> DEFINE n == NextCall(keyedCalls)
           r == Recorded(counts[c])
           e == [r EXCEPT !.count = IF r.count > MaxCalls THEN MaxCalls + 1 ELSE r.count]
<1>1. /\ keyedCalls' = n
      /\ counts' = Cleaned([counts EXCEPT ![c] = e], n)
      /\ UNCHANGED <<byIP, byIPAndEmail, calls, login>>
  BY DEF Allow
<1>2. LimitsTypeOK /\ counts \in [Callers -> Entries] /\ keyedCalls \in 0 .. CleanupEvery - 1
  BY DEF LimitsInv, LimitsTypeOK
<1>3. e \in Entries
  <2>1. r \in Entries
    BY <1>2, RecordedType
  <2>2. (IF r.count > MaxCalls THEN MaxCalls + 1 ELSE r.count) \in Nat
    BY <2>1, EntryType, Limits
  <2> HIDE DEF r
  <2> QED
    BY <2>1, <2>2 DEF Entries
<1>4. n \in 0 .. CleanupEvery - 1
  BY <1>2, NextCallType
<1> HIDE DEF e, n
<1>5. counts' \in [Callers -> Entries]
  BY <1>1, <1>2, <1>3, CleanedType
<1>6. LimitsTypeOK'
  BY <1>1, <1>2, <1>4, <1>5 DEF LimitsTypeOK
<1> QED
  BY <1>1, <1>6, CountsStep

LEMMA TickStep == ASSUME LimitsInv, Tick PROVE LimitsInv'
<1>1. /\ byIP' = Elapsed(byIP) /\ byIPAndEmail' = Elapsed(byIPAndEmail)
      /\ counts' = Elapsed(counts) /\ UNCHANGED <<calls, keyedCalls, login>>
  BY DEF Tick
<1>2. /\ byIP \in [Addresses -> Entries] /\ byIPAndEmail \in [Addresses \X Emails -> Entries]
      /\ counts \in [Callers -> Entries] /\ LimitsTypeOK
  BY DEF LimitsInv, LimitsTypeOK
<1>3. LimitsTypeOK'
  BY <1>1, <1>2, ElapsedType DEF LimitsTypeOK
<1>4. /\ \A a \in Addresses : byIP'[a].count = byIP[a].count
      /\ \A k \in Addresses \X Emails : byIPAndEmail'[k].count = byIPAndEmail[k].count
  BY <1>1, <1>2, ElapsedType
<1> QED
  BY <1>1, <1>3, <1>4, CountsStep

LEMMA LimitsInitHolds == LimitsInit => LimitsInv
<1> SUFFICES ASSUME LimitsInit PROVE LimitsInv
  OBVIOUS
<1>1. LimitsTypeOK
  <2>1. /\ byIP \in [Addresses -> Entries] /\ byIPAndEmail \in [Addresses \X Emails -> Entries]
        /\ counts \in [Callers -> Entries]
    BY NoEntryType DEF LimitsInit
  <2>2. login \in [Logins -> LoginRows]
    BY NoLoginType DEF LimitsInit
  <2>3. calls \in 0 .. CleanupEvery - 1 /\ keyedCalls \in 0 .. CleanupEvery - 1
    BY Limits DEF LimitsInit
  <2> QED
    BY <2>1, <2>2, <2>3 DEF LimitsTypeOK
<1>2. ASSUME NEW a \in Addresses PROVE IPBounded(a)
  <2>1. byIP[a].count = 0
    BY NoEntryType DEF LimitsInit
  <2> QED
    BY <2>1, LoginSets, Limits DEF IPBounded
<1>3. ASSUME NEW k \in Addresses \X Emails PROVE LoginBounded(k)
  <2>1. byIPAndEmail[k].count = 0
    BY NoEntryType DEF LimitsInit
  <2> QED
    BY <2>1, LoginSets, Limits DEF LoginBounded
<1> QED
  BY <1>1, <1>2, <1>3 DEF LimitsInv

LEMMA LimitsInductive == LimitsInv /\ [LimitsNext]_limitVars => LimitsInv'
<1> SUFFICES ASSUME LimitsInv, [LimitsNext]_limitVars PROVE LimitsInv'
  OBVIOUS
<1>1. CASE Tick
  BY <1>1, TickStep
<1>2. ASSUME NEW h \in Logins, LoginStep(h) PROVE LimitsInv'
  BY <1>2, CheckIPStep, CheckIPAndEmailStep, RecordFailureStep, UncountedEndSteps DEF LoginStep
<1>3. ASSUME NEW c \in Callers, Allow(c) PROVE LimitsInv'
  BY <1>3, AllowStep
<1>4. CASE UNCHANGED limitVars
  <2>1. /\ UNCHANGED <<byIP, byIPAndEmail, login>> /\ LimitsTypeOK'
    BY <1>4 DEF limitVars, LimitsInv, LimitsTypeOK
  <2> QED
    BY <2>1, CountsStep
<1> QED
  BY <1>1, <1>2, <1>3, <1>4 DEF LimitsNext

\* A limit is overshot at most by the logins that were already past its check, however
\* many run at the same time (checkIP, checkIPAndEmail, recordFailure).
THEOREM FailuresAlwaysBounded == LimitsSpec => []FailuresBounded
<1>1. LimitsInv => FailuresBounded
  BY DEF LimitsInv, FailuresBounded, IPBounded, LoginBounded
<1> QED
  BY <1>1, LimitsInitHolds, LimitsInductive, PTL DEF LimitsSpec

-----------------------------------------------------------------------------
(* Blocks.                                                                 *)

LEMMA EntryLasts ==
    ASSUME NEW e \in Entries, NEW limit
    PROVE  /\ Lasts(e, e, limit)
           /\ Lasts(e, Checked(e), limit)
<1>1. Lasts(e, e, limit)
  BY DEF Lasts
<1>2. CASE Over(e)
  BY <1>1, <1>2 DEF Lasts, Blocked
<1>3. CASE ~Over(e)
  BY <1>1, <1>3, CheckedType
<1> QED
  BY <1>1, <1>2, <1>3

\* An attempt that is counted, in an entry that is not cleaned up before its window ends.
LEMMA CountedLasts ==
    ASSUME NEW K, NEW f \in [K -> Entries], NEW g \in [K -> Entries], NEW n, NEW limit \in Nat,
           NEW k \in K,
           ~Over(f[k]) => /\ g[k].left = f[k].left
                          /\ g[k].count >= f[k].count \/ g[k].count >= limit
    PROVE  Lasts(f[k], Cleaned(g, n)[k], limit)
<1> SUFFICES ASSUME Blocked(f[k], limit) PROVE Blocked(Cleaned(g, n)[k], limit)
  BY DEF Lasts
<1>1. ~Over(f[k]) /\ f[k].count >= limit /\ f[k].left >= 0
  BY EntryType DEF Blocked, Over
<1>2. g[k].left = f[k].left /\ g[k].count >= limit
  BY <1>1, EntryType
<1>3. Cleaned(g, n)[k] = g[k]
  BY <1>1, <1>2, CleanedType, Limits, EntryType
<1> QED
  BY <1>1, <1>2, <1>3 DEF Blocked, Over

LEMMA ElapsedLasts ==
    ASSUME NEW K, NEW f \in [K -> Entries], NEW k \in K, NEW limit
    PROVE  Lasts(f[k], Elapsed(f)[k], limit)
<1> SUFFICES ASSUME Blocked(f[k], limit)
             PROVE  Blocked(Elapsed(f)[k], limit) \/ (f[k].left = 0 /\ Elapsed(f)[k].left = -1)
  BY DEF Lasts
<1>1. f[k].left \in Int /\ f[k].left >= 0
  BY EntryType DEF Blocked, Over
<1>2. Elapsed(f)[k].left = f[k].left - 1 /\ Elapsed(f)[k].count = f[k].count
  BY <1>1, ElapsedType
<1> QED
  BY <1>1, <1>2 DEF Blocked, Over

IPLasts(a) == Lasts(byIP[a], byIP'[a], MaxFailedIP)
LoginLasts(k) ==
    \/ Lasts(byIPAndEmail[k], byIPAndEmail'[k], MaxFailed)
    \/ \E h \in Admitted(k) : login'[h].pc = "idle"
CallerLasts(c) == Lasts(counts[c], counts'[c], MaxCalls)
AllLast ==
    /\ \A a \in Addresses : IPLasts(a)
    /\ \A k \in Addresses \X Emails : LoginLasts(k)
    /\ \A c \in Callers : CallerLasts(c)

LEMMA IPStay == ASSUME LimitsTypeOK, UNCHANGED byIP PROVE \A a \in Addresses : IPLasts(a)
BY EntryLasts DEF LimitsTypeOK, IPLasts

LEMMA LoginsLast ==
    ASSUME LimitsTypeOK, UNCHANGED byIPAndEmail PROVE \A k \in Addresses \X Emails : LoginLasts(k)
BY EntryLasts DEF LimitsTypeOK, LoginLasts

LEMMA CallersStay == ASSUME LimitsTypeOK, UNCHANGED counts PROVE \A c \in Callers : CallerLasts(c)
BY EntryLasts DEF LimitsTypeOK, CallerLasts

LEMMA ChecksLast ==
    ASSUME LimitsTypeOK, NEW h \in Logins,
           (\E a \in Addresses : CheckIP(h, a)) \/ \E m \in Emails : CheckIPAndEmail(h, m)
    PROVE  AllLast
<1>1. ASSUME NEW a \in Addresses, CheckIP(h, a) PROVE AllLast
  <2>1. byIP' = [byIP EXCEPT ![a] = Checked(byIP[a])] /\ UNCHANGED <<byIPAndEmail, counts>>
    BY <1>1 DEF CheckIP
  <2>2. ASSUME NEW b \in Addresses PROVE IPLasts(b)
    <3>1. byIP[b] \in Entries /\ (byIP'[b] = byIP[b] \/ byIP'[b] = Checked(byIP[b]))
      BY <2>1 DEF LimitsTypeOK
    <3> QED
      BY <3>1, EntryLasts DEF IPLasts
  <2> QED
    BY <2>1, <2>2, LoginsLast, CallersStay DEF AllLast
<1>2. ASSUME NEW m \in Emails, CheckIPAndEmail(h, m) PROVE AllLast
  <2> DEFINE key == <<login[h].addr, m>>
  <2>1. /\ byIPAndEmail' = [byIPAndEmail EXCEPT ![key] = Checked(byIPAndEmail[key])]
        /\ UNCHANGED <<byIP, counts>>
    BY <1>2 DEF CheckIPAndEmail
  <2> HIDE DEF key
  <2>2. ASSUME NEW k \in Addresses \X Emails PROVE LoginLasts(k)
    <3>1. /\ byIPAndEmail[k] \in Entries
          /\ byIPAndEmail'[k] = byIPAndEmail[k] \/ byIPAndEmail'[k] = Checked(byIPAndEmail[k])
      BY <2>1 DEF LimitsTypeOK
    <3> QED
      BY <3>1, EntryLasts DEF LoginLasts
  <2> QED
    BY <2>1, <2>2, IPStay, CallersStay DEF AllLast
<1> QED
  BY <1>1, <1>2

LEMMA FailureLasts ==
    ASSUME LimitsTypeOK, NEW h \in Logins, RecordFailure(h) PROVE AllLast
<1> DEFINE n == NextCall(calls)
           a == login[h].addr
           key == Key(h)
           ips == [byIP EXCEPT ![a] = Recorded(byIP[a])]
           pairs == [byIPAndEmail EXCEPT ![key] = Recorded(byIPAndEmail[key])]
<1>1. /\ byIP' = Cleaned(ips, n) /\ byIPAndEmail' = Cleaned(pairs, n) /\ UNCHANGED counts
  BY DEF RecordFailure
<1>2. /\ byIP \in [Addresses -> Entries] /\ byIPAndEmail \in [Addresses \X Emails -> Entries]
      /\ a \in Addresses /\ key \in Addresses \X Emails
  BY DEF LimitsTypeOK, LoginRows, Key
<1> HIDE DEF n, a, key
<1>3. /\ ips \in [Addresses -> Entries]
      /\ \A b \in Addresses : ips[b] = IF b = a THEN Recorded(byIP[b]) ELSE byIP[b]
  BY <1>2, RecordedType
<1>4. /\ pairs \in [Addresses \X Emails -> Entries]
      /\ \A k \in Addresses \X Emails :
           pairs[k] = IF k = key THEN Recorded(byIPAndEmail[k]) ELSE byIPAndEmail[k]
  BY <1>2, RecordedType
<1> HIDE DEF ips, pairs
<1>5. ASSUME NEW b \in Addresses PROVE IPLasts(b)
  <2>1. ~Over(byIP[b]) => ips[b].left = byIP[b].left /\ ips[b].count >= byIP[b].count
    BY <1>2, <1>3, RecordedType, EntryType
  <2>2. Lasts(byIP[b], Cleaned(ips, n)[b], MaxFailedIP)
    BY <1>2, <1>3, <2>1, CountedLasts, Limits
  <2> QED
    BY <1>1, <2>2 DEF IPLasts
<1>6. ASSUME NEW k \in Addresses \X Emails PROVE LoginLasts(k)
  <2>1. ~Over(byIPAndEmail[k]) => /\ pairs[k].left = byIPAndEmail[k].left
                                  /\ pairs[k].count >= byIPAndEmail[k].count
    BY <1>2, <1>4, RecordedType, EntryType
  <2>2. Lasts(byIPAndEmail[k], Cleaned(pairs, n)[k], MaxFailed)
    BY <1>2, <1>4, <2>1, CountedLasts, Limits
  <2> QED
    BY <1>1, <2>2 DEF LoginLasts
<1> QED
  BY <1>1, <1>5, <1>6, CallersStay DEF AllLast

LEMMA SuccessLasts ==
    ASSUME LimitsTypeOK, NEW h \in Logins, ResetOnSuccess(h) \/ LoginFailsUncounted(h)
    PROVE  AllLast
<1>1. CASE ResetOnSuccess(h)
  <2>1. /\ login[h].pc = "admitted" /\ Ends(h) /\ UNCHANGED <<byIP, counts>>
        /\ byIPAndEmail' = [byIPAndEmail EXCEPT ![Key(h)] = NoEntry]
    BY <1>1 DEF ResetOnSuccess
  <2>2. login'[h].pc = "idle"
    BY <2>1, NoLoginType DEF Ends, LimitsTypeOK
  <2>3. ASSUME NEW k \in Addresses \X Emails PROVE LoginLasts(k)
    <3>1. CASE k = Key(h)
      BY <2>1, <2>2, <3>1 DEF LoginLasts, Admitted
    <3>2. CASE k # Key(h)
      <4>1. byIPAndEmail[k] \in Entries /\ byIPAndEmail'[k] = byIPAndEmail[k]
        BY <2>1, <3>2 DEF LimitsTypeOK
      <4> QED
        BY <4>1, EntryLasts DEF LoginLasts
    <3> QED
      BY <3>1, <3>2
  <2> QED
    BY <2>1, <2>3, IPStay, CallersStay DEF AllLast
<1>2. CASE LoginFailsUncounted(h)
  BY <1>2, IPStay, LoginsLast, CallersStay DEF LoginFailsUncounted, AllLast
<1> QED
  BY <1>1, <1>2

LEMMA AllowLasts == ASSUME LimitsTypeOK, NEW c \in Callers, Allow(c) PROVE AllLast
<1> DEFINE n == NextCall(keyedCalls)
           r == Recorded(counts[c])
           e == [r EXCEPT !.count = IF r.count > MaxCalls THEN MaxCalls + 1 ELSE r.count]
           g == [counts EXCEPT ![c] = e]
<1>1. counts' = Cleaned(g, n) /\ UNCHANGED <<byIP, byIPAndEmail>>
  BY DEF Allow
<1>2. counts \in [Callers -> Entries] /\ counts[c] \in Entries
  BY DEF LimitsTypeOK
<1>3. /\ r \in Entries
      /\ ~Over(counts[c]) => r.left = counts[c].left /\ r.count = counts[c].count + 1
  BY <1>2, RecordedType
<1> HIDE DEF r
<1>4. /\ e \in Entries /\ e.left = r.left
      /\ e.count = IF r.count > MaxCalls THEN MaxCalls + 1 ELSE r.count
  <2>1. (IF r.count > MaxCalls THEN MaxCalls + 1 ELSE r.count) \in Nat
    BY <1>3, EntryType, Limits
  <2> QED
    BY <1>3, <2>1 DEF Entries
<1> HIDE DEF e
<1>5. /\ g \in [Callers -> Entries]
      /\ \A d \in Callers : g[d] = IF d = c THEN e ELSE counts[d]
  BY <1>2, <1>4
<1> HIDE DEF g, n
<1>6. ASSUME NEW d \in Callers PROVE CallerLasts(d)
  <2>1. /\ counts[d] \in Entries /\ counts[d].count \in Nat /\ r.count \in Nat
    BY <1>2, <1>3, EntryType
  <2>2. ~Over(counts[d]) => /\ g[d].left = counts[d].left
                            /\ g[d].count >= counts[d].count \/ g[d].count >= MaxCalls
    BY <1>3, <1>4, <1>5, <2>1, Limits
  <2>3. Lasts(counts[d], Cleaned(g, n)[d], MaxCalls)
    BY <1>2, <1>5, <2>2, CountedLasts, Limits
  <2> QED
    BY <1>1, <2>3 DEF CallerLasts
<1> QED
  BY <1>1, <1>6, IPStay, LoginsLast DEF AllLast

LEMMA TickLasts == ASSUME LimitsTypeOK, Tick PROVE AllLast
BY ElapsedLasts DEF LimitsTypeOK, Tick, AllLast, IPLasts, LoginLasts, CallerLasts

\* What is blocked stays blocked until its window is over, but for a login under way that
\* succeeds and lifts the block of its own address and email (resetOnSuccess, cleanup).
THEOREM BlocksAlwaysLast == LimitsSpec => BlocksLast
<1>1. ASSUME LimitsInv, [LimitsNext]_limitVars PROVE [AllLast]_limitVars
  <2>1. LimitsTypeOK
    BY <1>1 DEF LimitsInv
  <2>2. ASSUME NEW h \in Logins, LoginStep(h) PROVE AllLast
    BY <2>1, <2>2, ChecksLast, FailureLasts, SuccessLasts DEF LoginStep
  <2> QED
    BY <1>1, <2>1, <2>2, TickLasts, AllowLasts DEF LimitsNext
<1>2. [AllLast]_limitVars => [
         /\ \A a \in Addresses : Lasts(byIP[a], byIP'[a], MaxFailedIP)
         /\ \A k \in Addresses \X Emails :
               \/ Lasts(byIPAndEmail[k], byIPAndEmail'[k], MaxFailed)
               \/ \E h \in Admitted(k) : login'[h].pc = "idle"
         /\ \A c \in Callers : Lasts(counts[c], counts'[c], MaxCalls)]_limitVars
  BY DEF AllLast, IPLasts, LoginLasts, CallerLasts
<1> QED
  BY <1>1, <1>2, LimitsInitHolds, LimitsInductive, PTL DEF LimitsSpec, BlocksLast

=============================================================================
