SPECIFICATION IfMatchSpec
CONSTANTS
  Clients = {c1, c2}
  Projects = {p1}
  DefaultProject = p1
  Labels = {}
  Releases = {}
  Names = {n1}
  Users = {}
  Issues = {i1}
  Statuses = {"Open", "Done", "Archive"}
  Texts = {t1, t2}
  Ops = {"get", "put", "archive", "unarchive", "delete"}
  MaxClock = 3
  MaxPos = 0
  Null = Null
  Free = Free
  Gone = Gone
PROPERTIES IfMatchHoldsAtWrite
