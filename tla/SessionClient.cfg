SPECIFICATION MCSpec
CONSTANTS
  Tabs = {t1, t2}
  Requests = {r1, r2}
  MaxSessions = 4
  MaxSecrets = 3
  MaxExpiries = 2
  MaxFailures = 1
  Logins = {l1, l2, l3}
  Addresses = {a1}
  Emails = {m1, m2}
  Callers = {c1}
  MaxFailedIP = 3
  MaxFailed = 2
  MaxCalls = 2
  Window = 1
  MaxAge = 1
  CleanupEvery = 2
CHECK_DEADLOCK FALSE
INVARIANTS TypeOK WritesRunOnce NoWaiterIsForgotten ReuseIsExcused FailuresBounded
PROPERTIES RequestsSettle BlocksLast BlocksEnd
