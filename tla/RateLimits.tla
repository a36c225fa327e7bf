----------------------------- MODULE RateLimits -----------------------------
(***************************************************************************)
(* The limits on logins, refreshes and writes (backend/ratelimit.go).      *)
(*                                                                         *)
(* Failed logins are counted per address and per address and email; a      *)
(* login looks at the two counters, then verifies the password, which is   *)
(* slow, and counts afterwards.  Each of these steps holds the limiter's   *)
(* mutex, the login as a whole does not.  Refreshes (per address) and      *)
(* writes (per user) are counted by a keyedLimiter, which looks and counts *)
(* in one step; one such limiter is modelled.                              *)
(*                                                                         *)
(* The clock is modelled by the time an entry has left: the window of an   *)
(* entry is over when left is negative, and nothing tells apart entries    *)
(* whose window ended more than MaxAge ago.  The counters are kept in      *)
(* memory only: a restart leads back to the initial state.                 *)
(***************************************************************************)
EXTENDS Integers, FiniteSets

CONSTANTS
    Logins,       \* the requests of HandleLogin that run at the same time
    Addresses, Emails,
    Callers,      \* the keys of the keyedLimiter
    MaxFailedIP,  \* ipMaxFailures
    MaxFailed,    \* emailMaxFailures
    MaxCalls,     \* keyedLimiter.max
    Window,       \* ipWindow = emailWindow, and the window of the keyedLimiter
    MaxAge,       \* rlMaxAge
    CleanupEvery  \* rlCleanupEvery

ASSUME LimitsAssumption ==
    /\ IsFiniteSet(Logins) /\ Addresses # {} /\ Emails # {}
    /\ {MaxFailedIP, MaxFailed, MaxCalls, Window, MaxAge, CleanupEvery} \subseteq Nat \ {0}

VARIABLES
    byIP, byIPAndEmail,  \* the entries of loginLimiter
    counts,              \* the entries of the keyedLimiter
    calls, keyedCalls,   \* the calls of each limiter, modulo CleanupEvery
    login                \* where each login is
limitVars == <<byIP, byIPAndEmail, counts, calls, keyedCalls, login>>

\* failEntry.  A key without an entry has one that ended long ago.
Entries == [count : Nat, left : -(MaxAge + 1) .. Window]
NoEntry == [count |-> 0, left |-> -(MaxAge + 1)]

\* A login is past the first check ("address") or past both ("admitted").
LoginRows == [pc : {"idle", "address", "admitted"}, addr : Addresses, email : Emails]
NoLogin == [pc |-> "idle", addr |-> CHOOSE a \in Addresses : TRUE,
            email |-> CHOOSE m \in Emails : TRUE]

LimitsTypeOK ==
    /\ byIP \in [Addresses -> Entries]
    /\ byIPAndEmail \in [Addresses \X Emails -> Entries]
    /\ counts \in [Callers -> Entries]
    /\ {calls, keyedCalls} \subseteq 0 .. CleanupEvery - 1
    /\ login \in [Logins -> LoginRows]

-----------------------------------------------------------------------------
Over(e) == e.left < 0

\* Mutant: the limit is off by one.
BlockedLate(e, limit) == ~Over(e) /\ e.count > limit

\* isBlocked, its answer and what it leaves of the entry.
Blocked(e, limit) == ~Over(e) /\ e.count >= limit
Checked(e) == IF Over(e) THEN NoEntry ELSE e

\* Mutant: every attempt starts the window anew.
ExtendsWindow(e) == [count |-> IF Over(e) THEN 1 ELSE e.count + 1, left |-> Window]

\* recordFailure, allow: an attempt is counted.
Recorded(e) == IF Over(e) THEN [count |-> 1, left |-> Window] ELSE [e EXCEPT !.count = @ + 1]

\* cleanup, in every CleanupEvery-th call.
Cleaned(entries, n) ==
    [k \in DOMAIN entries |-> IF n = 0 /\ entries[k].left < -MaxAge THEN NoEntry ELSE entries[k]]
NextCall(n) == (n + 1) % CleanupEvery

Ends(h) == login' = [login EXCEPT ![h] = NoLogin]
Key(h) == <<login[h].addr, login[h].email>>

-----------------------------------------------------------------------------
\* HandleLogin: checkIP.  A refusal changes nothing.
CheckIP(h, a) ==
    /\ login[h].pc = "idle"
    /\ ~Blocked(byIP[a], MaxFailedIP)
    /\ byIP' = [byIP EXCEPT ![a] = Checked(@)]
    /\ login' = [login EXCEPT ![h] = [NoLogin EXCEPT !.pc = "address", !.addr = a]]
    /\ UNCHANGED <<byIPAndEmail, counts, calls, keyedCalls>>

\* HandleLogin, the email decoded: checkIPAndEmail.
CheckIPAndEmail(h, m) ==
    LET k == <<login[h].addr, m>> IN
    /\ login[h].pc = "address"
    /\ IF Blocked(byIPAndEmail[k], MaxFailed)
       THEN Ends(h) ELSE login' = [login EXCEPT ![h].pc = "admitted", ![h].email = m]
    /\ byIPAndEmail' = [byIPAndEmail EXCEPT ![k] = Checked(@)]
    /\ UNCHANGED <<byIP, counts, calls, keyedCalls>>

\* HandleLogin: no such user, an inactive one or a wrong password.
RecordFailure(h) ==
    LET n == NextCall(calls)
        a == login[h].addr
        k == Key(h)
    IN
    /\ login[h].pc = "admitted"
    /\ calls' = n
    /\ byIP' = Cleaned([byIP EXCEPT ![a] = Recorded(@)], n)
    /\ byIPAndEmail' = Cleaned([byIPAndEmail EXCEPT ![k] = Recorded(@)], n)
    /\ Ends(h)
    /\ UNCHANGED <<counts, keyedCalls>>

\* Mutant: a success clears the counter of the address as well.
ResetsAll(h) ==
    /\ login[h].pc = "admitted"
    /\ byIP' = [byIP EXCEPT ![login[h].addr] = NoEntry]
    /\ byIPAndEmail' = [byIPAndEmail EXCEPT ![Key(h)] = NoEntry]
    /\ Ends(h)
    /\ UNCHANGED <<counts, calls, keyedCalls>>

\* HandleLogin: the session is created.
ResetOnSuccess(h) ==
    /\ login[h].pc = "admitted"
    /\ byIPAndEmail' = [byIPAndEmail EXCEPT ![Key(h)] = NoEntry]
    /\ Ends(h)
    /\ UNCHANGED <<byIP, counts, calls, keyedCalls>>

\* HandleLogin: a body that is refused, an error of the database; nothing is counted.
LoginFailsUncounted(h) ==
    /\ login[h].pc # "idle"
    /\ Ends(h)
    /\ UNCHANGED <<byIP, byIPAndEmail, counts, calls, keyedCalls>>

\* keyedLimiter.allow, whatever it answers.  Bound: counts above the limit are one.
Allow(c) ==
    LET n == NextCall(keyedCalls)
        e == Recorded(counts[c])
    IN
    /\ keyedCalls' = n
    /\ counts' = Cleaned([counts EXCEPT ![c] =
          [e EXCEPT !.count = IF @ > MaxCalls THEN MaxCalls + 1 ELSE @]], n)
    /\ UNCHANGED <<byIP, byIPAndEmail, calls, login>>

Elapsed(entries) ==
    [k \in DOMAIN entries |->
        [entries[k] EXCEPT !.left = IF @ > -(MaxAge + 1) THEN @ - 1 ELSE @]]

Tick ==
    /\ byIP' = Elapsed(byIP)
    /\ byIPAndEmail' = Elapsed(byIPAndEmail)
    /\ counts' = Elapsed(counts)
    /\ UNCHANGED <<calls, keyedCalls, login>>

-----------------------------------------------------------------------------
LimitsInit ==
    /\ byIP = [a \in Addresses |-> NoEntry]
    /\ byIPAndEmail = [k \in Addresses \X Emails |-> NoEntry]
    /\ counts = [c \in Callers |-> NoEntry]
    /\ calls = 0 /\ keyedCalls = 0
    /\ login = [h \in Logins |-> NoLogin]

LoginStep(h) ==
    \/ \E a \in Addresses : CheckIP(h, a)
    \/ \E m \in Emails : CheckIPAndEmail(h, m)
    \/ RecordFailure(h) \/ ResetOnSuccess(h) \/ LoginFailsUncounted(h)

LimitsNext == Tick \/ (\E h \in Logins : LoginStep(h)) \/ \E c \in Callers : Allow(c)

\* Time passes; nobody has to log in or to call.
LimitsSpec == LimitsInit /\ [][LimitsNext]_limitVars /\ WF_limitVars(Tick)

-----------------------------------------------------------------------------
(* Properties.                                                             *)

\* The logins that have passed the check of an address, or both, and may yet fail.
PassedIP(a) == {h \in Logins : login[h].pc # "idle" /\ login[h].addr = a}
Admitted(k) == {h \in Logins : login[h].pc = "admitted" /\ Key(h) = k}

\* The check and the record of a login are two critical sections, so a limit may be
\* overshot, but only by the logins that were already past it: with the failures still to
\* come a window never counts more than the limit and all other logins of that moment
\* (checkIP, checkIPAndEmail, recordFailure).
FailuresBounded ==
    LET others == Cardinality(Logins) - 1 IN
    /\ \A a \in Addresses : byIP[a].count + Cardinality(PassedIP(a)) <= MaxFailedIP + others
    /\ \A k \in Addresses \X Emails :
          byIPAndEmail[k].count + Cardinality(Admitted(k)) <= MaxFailed + others

\* What is blocked stays blocked until its window is over: no cleanup, no attempt, and no
\* other login ends it early.  Only a login that was under way when the block began and
\* succeeds lifts that of its own address and email, never that of the address
\* (resetOnSuccess, cleanup).
Lasts(e, f, limit) ==
    Blocked(e, limit) => Blocked(f, limit) \/ (e.left = 0 /\ f.left = -1)
BlocksLast == [][
    /\ \A a \in Addresses : Lasts(byIP[a], byIP'[a], MaxFailedIP)
    /\ \A k \in Addresses \X Emails :
          \/ Lasts(byIPAndEmail[k], byIPAndEmail'[k], MaxFailed)
          \/ \E h \in Admitted(k) : login'[h].pc = "idle"
    /\ \A c \in Callers : Lasts(counts[c], counts'[c], MaxCalls)]_limitVars

\* Nobody is locked out for good, however often he tries while he is refused: every block
\* ends (the window of an entry is set once, recordFailure and allow).
BlocksEnd ==
    /\ \A a \in Addresses : Blocked(byIP[a], MaxFailedIP) ~> ~Blocked(byIP[a], MaxFailedIP)
    /\ \A k \in Addresses \X Emails :
          Blocked(byIPAndEmail[k], MaxFailed) ~> ~Blocked(byIPAndEmail[k], MaxFailed)
    /\ \A c \in Callers : Blocked(counts[c], MaxCalls) ~> ~Blocked(counts[c], MaxCalls)
=============================================================================
