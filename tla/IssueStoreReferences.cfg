SPECIFICATION ReferencesSpec
CONSTANTS
  Clients = {c1, c2}
  Projects = {p1, p2}
  DefaultProject = p1
  Labels = {l1}
  Releases = {r1}
  Names = {n1, n2}
  Users = {}
  Issues = {i1}
  Statuses = {"Open", "Done", "Archive"}
  Texts = {t1}
  Ops = {"get", "put", "archive", "unarchive", "move", "label", "project", "deleteProject",
         "release", "putRelease", "triggerRelease"}
  MaxClock = 3
  MaxPos = 0
  Null = Null
  Free = Free
  Gone = Gone
SYMMETRY Symmetry
CONSTRAINT OnePut
INVARIANTS ReferencesHold ETagNamesVersion
