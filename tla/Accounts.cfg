SPECIFICATION MCSpec
CONSTANTS
  Handlers = {h1, h2}
  Users = {u1, u2}
  FirstUser = u1
  Sessions = {s1, s2}
  Emails = {e1, e2}
  Passwords = {p1}
  Roles = {"user", "sysadmin"}
  Secrets = {x1, x2}
  Ops = {"create", "put", "self", "delete", "login", "refresh", "logout", "expire", "abort", "restart"}
  MaxKey = 1
  Free = Free
  Gone = Gone
INVARIANTS TypeOK SysAdminRemains SessionHasUser
PROPERTIES ImplementsSysAdmins RevokedStaysRevoked TokensComeWithSession DeactivatedIsSignedOut
