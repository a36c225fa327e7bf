SPECIFICATION EditSpec
CONSTANTS
  Clients = {c1, c2}
  Projects = {p1}
  DefaultProject = p1
  Labels = {}
  Releases = {}
  Names = {n1}
  Users = {u1}
  Issues = {i1}
  Statuses = {"Open", "Done", "Archive"}
  Texts = {t1}
  Ops = {"create", "positions", "get", "put", "archive", "unarchive", "delete", "user"}
  MaxClock = 3
  MaxPos = 1
  Null = Null
  Free = Free
  Gone = Gone
SYMMETRY Symmetry
INVARIANTS TypeOK ReferencesHold ETagNamesVersion
PROPERTIES DeletedStaysDeleted
