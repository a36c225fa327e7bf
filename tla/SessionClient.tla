--------------------------- MODULE SessionClient ---------------------------
(* The session of one browser, as its tabs see it: authenticated requests,  *)
(* the renewal they share when the access token has expired, and the        *)
(* re-login dialog (static/js/api.js, static/js/session.js), against the    *)
(* rotation of refresh tokens on the server (backend/auth.go).  All tabs    *)
(* send the same cookies.                                                   *)
EXTENDS Integers, FiniteSets

CONSTANTS
    Tabs,
    Requests,        \* requests the tabs may send, each once
    MaxSessions,     \* bound: rows of the table sessions
    MaxSecrets,      \* bound: secrets a row may hold one after the other
    MaxExpiries,     \* bound: how often the access token expires
    MaxFailures      \* bound: how often the network fails

\* Every request is renewed once at most: with this many rows and secrets the bounds
\* are never met.
ASSUME Bounds ==
    /\ Tabs # {} /\ IsFiniteSet(Requests)
    /\ {MaxExpiries, MaxFailures} \subseteq Nat
    /\ MaxSessions \in Nat /\ MaxSessions > Cardinality(Requests) + MaxFailures
    /\ MaxSecrets \in Nat /\ MaxSecrets > Cardinality(Requests)

VARIABLES
    session,    \* the secret each row of sessions holds, 0: no row (there is no row 0)
    created,    \* rows created so far
    cookie,     \* the refresh token in the browser: the row and its secret
    access,     \* the browser's access token is there and has not expired
    req,        \* the requests
    renewal,    \* what each tab waits for to renew the session
    dialog,     \* the re-login dialog of each tab: its login and its check of the session
    expiries, failures,
    reused,     \* the server has seen a refresh token twice
    excused     \* an answer with a new token was lost, or two tabs renewed at once
vars == <<session, created, cookie, access, req, renewal, dialog, expiries, failures,
          reused, excused>>

Tokens == [sess : 0..MaxSessions, secret : 0..MaxSecrets]
NoToken == [sess |-> 0, secret |-> 0]

\* A request as authFetch follows it: which rawFetch is under way (try), where that
\* stands (pc), and how often the server has executed the request (runs).  cred: the
\* access token it was sent with has not expired.
RequestRows ==
    [pc : {"idle", "sent", "answered", "denied", "waiting", "done", "failed"},
     tab : Tabs, read : BOOLEAN, try : {"first", "retry", "replay"},
     cred : BOOLEAN, runs : 0..2]

Renewals == [pc : {"none", "sent", "matched", "rotated", "refused", "dialog", "left"},
             token : Tokens, clears : BOOLEAN]
NoRenewal == [pc |-> "none", token |-> NoToken, clears |-> FALSE]

Dialogs == [login : {"none", "sent", "accepted"}, check : {"none", "sent", "valid"},
            token : Tokens, cred : BOOLEAN]
NoDialog == [login |-> "none", check |-> "none", token |-> NoToken, cred |-> FALSE]

TypeOK ==
    /\ session \in [0..MaxSessions -> 0..MaxSecrets]
    /\ created \in 0..MaxSessions
    /\ cookie \in Tokens
    /\ access \in BOOLEAN
    /\ req \in [Requests -> RequestRows]
    /\ renewal \in [Tabs -> Renewals]
    /\ dialog \in [Tabs -> Dialogs]
    /\ expiries \in 0..MaxExpiries
    /\ failures \in 0..MaxFailures
    /\ reused \in BOOLEAN
    /\ excused \in BOOLEAN

\* Logged in, with one session.
Init ==
    /\ session = [s \in 0..MaxSessions |-> IF s = 1 THEN 1 ELSE 0]
    /\ created = 1
    /\ cookie = [sess |-> 1, secret |-> 1]
    /\ access = TRUE
    /\ req = [r \in Requests |-> [pc |-> "idle", tab |-> CHOOSE t \in Tabs : TRUE, read |-> TRUE,
                                  try |-> "first", cred |-> FALSE, runs |-> 0]]
    /\ renewal = [t \in Tabs |-> NoRenewal]
    /\ dialog = [t \in Tabs |-> NoDialog]
    /\ expiries = 0
    /\ failures = 0
    /\ reused = FALSE
    /\ excused = FALSE

InDialog(t) == renewal[t].pc = "dialog"
UnderWay(r) == req[r].pc \in {"sent", "answered", "denied"}
Open(r) == UnderWay(r) \/ req[r].pc = "waiting"
Server == <<session, created, reused>>
Browser == <<cookie, access>>

\* rawFetch with the cookies of the moment.
Sent(row, try) == [row EXCEPT !.pc = "sent", !.try = try, !.cred = access]

-----------------------------------------------------------------------------
\* A call of the API, or the check of the session on return to the tab.
Send(r, t, read) ==
    /\ req[r].pc = "idle" /\ renewal[t].pc # "left"
    /\ req' = [req EXCEPT ![r] = Sent([@ EXCEPT !.tab = t, !.read = read], "first")]
    /\ UNCHANGED <<Server, Browser, renewal, dialog, expiries, failures, excused>>

\* The server executes a request whose token is accepted, and only such a request.
Serve(r) ==
    /\ req[r].pc = "sent"
    /\ req' = [req EXCEPT ![r].pc = IF req[r].cred THEN "answered" ELSE "denied",
                          ![r].runs = IF req[r].cred THEN @ + 1 ELSE @]
    /\ UNCHANGED <<Server, Browser, renewal, dialog, expiries, failures, excused>>

Receive(r) ==
    /\ req[r].pc = "answered"
    /\ req' = [req EXCEPT ![r].pc = "done"]
    /\ UNCHANGED <<Server, Browser, renewal, dialog, expiries, failures, excused>>

\* Mutant: each 401 starts a refresh of its own.
RenewsAlone(t) == FALSE

\* Whether a 401 finds a renewal of its tab to share.
SharesRenewal(t) == renewal[t].pc # "none"

\* Another tab has a refresh in flight.
OtherRefreshing(t) ==
    \E u \in Tabs \ {t} : renewal[u].pc \in {"sent", "matched", "rotated"}

\* A 401 makes the request wait for a renewal; the first of a tab starts it.  A replay
\* is not renewed again.
ReceiveDenied(r) ==
    LET t == req[r].tab IN
    /\ req[r].pc = "denied"
    /\ req' = [req EXCEPT ![r].pc = IF req[r].try = "replay" THEN "failed" ELSE "waiting"]
    /\ IF req[r].try = "replay" \/ SharesRenewal(t)
       THEN UNCHANGED <<renewal, excused>>
       ELSE /\ renewal' = [renewal EXCEPT ![t] = [NoRenewal EXCEPT !.pc = "sent", !.token = cookie]]
            /\ excused' = (excused \/ OtherRefreshing(t))
    /\ UNCHANGED <<Server, Browser, dialog, expiries, failures>>

\* Mutant: every request is sent again after a failure.
RetriesWrites(row) == row.try = "first"

\* Only a read whose first attempt failed is sent again.
MayRetry(row) == row.read /\ row.try = "first"

\* The connection is lost, or 20 s are over: before or after the server has handled the
\* request.
LoseRequest(r) ==
    /\ UnderWay(r) /\ failures < MaxFailures
    /\ failures' = failures + 1
    /\ req' = [req EXCEPT ![r] = IF MayRetry(@) THEN Sent(@, "retry") ELSE [@ EXCEPT !.pc = "failed"]]
    /\ UNCHANGED <<Server, Browser, renewal, dialog, expiries, excused>>

-----------------------------------------------------------------------------
(* RefreshSession on the server. *)

\* The token is compared with the row it names: a token that was replaced ends every
\* session of the user.
CompareToken(t) ==
    LET token == renewal[t].token IN
    /\ renewal[t].pc = "sent"
    /\ \/ /\ session[token.sess] > 0
          /\ IF session[token.sess] = token.secret
             THEN /\ renewal' = [renewal EXCEPT ![t].pc = "matched"]
                  /\ UNCHANGED <<session, reused>>
             ELSE /\ session' = [s \in 0..MaxSessions |-> 0]
                  /\ reused' = TRUE
                  /\ renewal' = [renewal EXCEPT ![t].pc = "refused", ![t].clears = TRUE]
       \/ /\ session[token.sess] = 0
          /\ renewal' = [renewal EXCEPT ![t].pc = "refused", ![t].clears = token.sess > 0]
          /\ UNCHANGED <<session, reused>>
    /\ UNCHANGED <<created, Browser, req, dialog, expiries, failures, excused>>

\* The rate limit of the endpoint refuses without looking at the token.
RefuseRefresh(t) ==
    /\ renewal[t].pc = "sent" /\ failures < MaxFailures
    /\ failures' = failures + 1
    /\ renewal' = [renewal EXCEPT ![t].pc = "refused"]
    /\ UNCHANGED <<Server, Browser, req, dialog, expiries, excused>>

\* UpdateSession writes the row by its id, whatever secret it holds by now.
RotateToken(t) ==
    LET s == renewal[t].token.sess IN
    /\ renewal[t].pc = "matched"
    /\ IF session[s] = 0
       THEN /\ renewal' = [renewal EXCEPT ![t].pc = "refused", ![t].clears = TRUE]
            /\ UNCHANGED session
       ELSE /\ session[s] < MaxSecrets
            /\ session' = [session EXCEPT ![s] = @ + 1]
            /\ renewal' = [renewal EXCEPT ![t].pc = "rotated", ![t].token.secret = session[s] + 1]
    /\ UNCHANGED <<created, reused, Browser, req, dialog, expiries, failures, excused>>

-----------------------------------------------------------------------------
\* The requests of the tab that wait for its renewal.
Waiting(t) == {r \in Requests : req[r].pc = "waiting" /\ req[r].tab = t}
Replayed(t, ok) == [r \in Requests |->
    IF r \in Waiting(t) THEN [req[r] EXCEPT !.pc = "sent", !.try = "replay", !.cred = ok] ELSE req[r]]
\* Mutants: a lost refresh rejects nobody; a state nobody else knows of.
AbandonsNone(S) == req
AbandonsInto(S) == [r \in Requests |-> IF r \in S THEN [req[r] EXCEPT !.pc = "aborted"] ELSE req[r]]

Abandoned(S) == [r \in Requests |-> IF r \in S THEN [req[r] EXCEPT !.pc = "failed"] ELSE req[r]]

\* The answer sets the cookies, the waiting requests are replayed with them.
RefreshReturns(t) ==
    /\ renewal[t].pc = "rotated"
    /\ cookie' = renewal[t].token
    /\ access' = TRUE
    /\ req' = Replayed(t, TRUE)
    /\ renewal' = [renewal EXCEPT ![t] = NoRenewal]
    /\ UNCHANGED <<Server, dialog, expiries, failures, excused>>

\* A refusal takes the cookies away, those another tab got meanwhile included, and
\* opens the dialog (showReauthDialog).
RefusalReturns(t) ==
    /\ renewal[t].pc = "refused"
    /\ cookie' = IF renewal[t].clears THEN NoToken ELSE cookie
    /\ access' = (access /\ ~renewal[t].clears)
    /\ renewal' = [renewal EXCEPT ![t] = [NoRenewal EXCEPT !.pc = "dialog"]]
    /\ UNCHANGED <<Server, req, dialog, expiries, failures, excused>>

\* The refresh does not come through or its answer is lost: every waiting request fails.
LoseRefresh(t) ==
    /\ renewal[t].pc \in {"sent", "rotated", "refused"} /\ failures < MaxFailures
    /\ failures' = failures + 1
    /\ excused' = (excused \/ renewal[t].pc = "rotated")
    /\ req' = Abandoned(Waiting(t))
    /\ renewal' = [renewal EXCEPT ![t] = NoRenewal]
    /\ UNCHANGED <<Server, Browser, dialog, expiries>>

-----------------------------------------------------------------------------
(* The re-login dialog. *)

\* Mutant: the dialog is taken down without resolving its promise.
HidesDialog(t, ok) ==
    /\ renewal' = renewal
    /\ req' = req

\* finishReauth: the promise all waiting requests share is resolved.
DialogCloses(t, ok) ==
    /\ renewal' = [renewal EXCEPT ![t] = IF InDialog(t) THEN NoRenewal ELSE @]
    /\ req' = IF InDialog(t) THEN Replayed(t, ok) ELSE req

SubmitReauth(t) ==
    /\ InDialog(t) /\ dialog[t].login = "none"
    /\ dialog' = [dialog EXCEPT ![t].login = "sent"]
    /\ UNCHANGED <<Server, Browser, req, renewal, expiries, failures, excused>>

\* HandleLogin creates a session of its own.
AcceptLogin(t) ==
    /\ dialog[t].login = "sent" /\ created < MaxSessions
    /\ created' = created + 1
    /\ session' = [session EXCEPT ![created + 1] = 1]
    /\ dialog' = [dialog EXCEPT ![t].login = "accepted", ![t].token = [sess |-> created + 1, secret |-> 1]]
    /\ UNCHANGED <<reused, Browser, req, renewal, expiries, failures, excused>>

LoginReturns(t) ==
    /\ dialog[t].login = "accepted"
    /\ cookie' = dialog[t].token
    /\ access' = TRUE
    /\ dialog' = [dialog EXCEPT ![t].login = "none", ![t].token = NoToken]
    /\ DialogCloses(t, TRUE)
    /\ UNCHANGED <<Server, expiries, failures, excused>>

\* A wrong password, a limit or a lost connection leaves the dialog open.
LoginFails(t) ==
    /\ dialog[t].login \in {"sent", "accepted"} /\ failures < MaxFailures
    /\ failures' = failures + 1
    /\ dialog' = [dialog EXCEPT ![t].login = "none", ![t].token = NoToken]
    /\ UNCHANGED <<Server, Browser, req, renewal, expiries, excused>>

\* Back in the tab (onReturn): was there a login in another tab?
CheckSession(t) ==
    /\ InDialog(t) /\ dialog[t].check = "none"
    /\ dialog' = [dialog EXCEPT ![t].check = "sent", ![t].cred = access]
    /\ UNCHANGED <<Server, Browser, req, renewal, expiries, failures, excused>>

AnswerCheck(t) ==
    /\ dialog[t].check = "sent"
    /\ \E reached \in BOOLEAN : dialog' =
         [dialog EXCEPT ![t].check = IF dialog[t].cred /\ reached THEN "valid" ELSE "none",
                        ![t].cred = FALSE]
    /\ UNCHANGED <<Server, Browser, req, renewal, expiries, failures, excused>>

CheckReturns(t) ==
    /\ dialog[t].check = "valid"
    /\ dialog' = [dialog EXCEPT ![t].check = "none"]
    /\ DialogCloses(t, access)
    /\ UNCHANGED <<Server, Browser, expiries, failures, excused>>

\* "Log Out" in the dialog ends the session of the cookie, takes the cookies away and
\* leaves the page; the user may stay at the question of the browser.
LogOut(t, stays) ==
    /\ InDialog(t) /\ failures < MaxFailures
    /\ failures' = failures + 1
    /\ session' = [session EXCEPT ![cookie.sess] = 0]
    /\ cookie' = NoToken
    /\ access' = FALSE
    /\ req' = IF stays THEN req ELSE Abandoned({r \in Requests : Open(r) /\ req[r].tab = t})
    /\ renewal' = IF stays THEN renewal ELSE [renewal EXCEPT ![t] = [NoRenewal EXCEPT !.pc = "left"]]
    /\ dialog' = IF stays THEN dialog ELSE [dialog EXCEPT ![t] = NoDialog]
    /\ UNCHANGED <<created, reused, expiries, excused>>

\* 15 minutes are over, for every access token handed out so far.
ExpireAccess ==
    /\ access /\ expiries < MaxExpiries
    /\ expiries' = expiries + 1
    /\ access' = FALSE
    /\ req' = [r \in Requests |-> [req[r] EXCEPT !.cred = FALSE]]
    /\ dialog' = [t \in Tabs |-> [dialog[t] EXCEPT !.cred = FALSE]]
    /\ UNCHANGED <<Server, cookie, renewal, failures, excused>>

\* The session is revoked by an administrator, or its 24 hours are over.
EndSessions ==
    /\ expiries < MaxExpiries
    /\ expiries' = expiries + 1
    /\ session' = [s \in 0..MaxSessions |-> 0]
    /\ UNCHANGED <<created, reused, Browser, req, renewal, dialog, failures, excused>>

Progress(r) == Serve(r) \/ Receive(r) \/ ReceiveDenied(r)
Refreshing(t) == CompareToken(t) \/ RotateToken(t) \/ RefreshReturns(t) \/ RefusalReturns(t)
LoggingIn(t) == SubmitReauth(t) \/ AcceptLogin(t) \/ LoginReturns(t)
Checking(t) == AnswerCheck(t) \/ CheckReturns(t)

Next ==
    \/ \E r \in Requests, t \in Tabs, read \in BOOLEAN : Send(r, t, read)
    \/ \E r \in Requests : Progress(r) \/ LoseRequest(r)
    \/ \E t \in Tabs :
         \/ Refreshing(t) \/ RefuseRefresh(t) \/ LoseRefresh(t)
         \/ LoggingIn(t) \/ LoginFails(t)
         \/ CheckSession(t) \/ Checking(t)
         \/ \E stays \in BOOLEAN : LogOut(t, stays)
    \/ ExpireAccess
    \/ EndSessions

\* The network answers in the end, and so does the user whom a dialog asks to log in.
Fairness ==
    /\ \A r \in Requests : WF_vars(Progress(r))
    /\ \A t \in Tabs : WF_vars(Refreshing(t)) /\ WF_vars(LoggingIn(t)) /\ WF_vars(Checking(t))

Spec == Init /\ [][Next]_vars /\ Fairness
-----------------------------------------------------------------------------
\* A request that changes something is executed once when its caller is told so, and
\* never twice, whatever is retried, renewed, replayed or lost (authFetch).
WritesRunOnce ==
    \A r \in Requests :
      /\ ~req[r].read => req[r].runs <= 1
      /\ req[r].pc = "done" => req[r].runs >= 1

\* A request waits only as long as the renewal or the dialog it waits for is there: the
\* end of either reaches all who share it (singleFlight, pendingReauth).
NoWaiterIsForgotten ==
    \A r \in Requests : req[r].pc = "waiting" => renewal[req[r].tab].pc \notin {"none", "left"}

\* The browser does not show the server a token twice, which would end all sessions of
\* the user, unless an answer with a new token was lost or two tabs renewed at once
\* ("All concurrent 401s share one renewal (Token Reuse Protection)").
ReuseIsExcused == reused => excused

\* Every request settles: it is answered, fails, or its tab is left (authFetch).
RequestsSettle == \A r \in Requests : Open(r) ~> req[r].pc \in {"done", "failed"}

=============================================================================
