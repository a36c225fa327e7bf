SPECIFICATION Spec
CONSTANTS
  Issues = {i1}
  Projects = {p1}
  NoIssue = NoIssue
  MaxEdits = 3
  MaxOpens = 2
  MaxTimeouts = 0
CHECK_DEADLOCK FALSE
PROPERTIES EditsSurvive
