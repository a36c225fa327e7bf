SPECIFICATION MCSpec
CONSTANTS
  Issues = {i1}
  Projects = {p1, p2}
  NoIssue = NoIssue
  MaxEdits = 3
  MaxOpens = 2
  MaxTimeouts = 1
CHECK_DEADLOCK FALSE
INVARIANTS TypeOK SaveCarriesETag
PROPERTIES EditsSurviveWhenCalm WritesFinish
