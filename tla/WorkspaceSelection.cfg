SPECIFICATION MCSpec
CONSTANTS
    Projects = {p1, p2}
    DefaultProject = p1
    Null = null
    Views <- MCViews
    MaxMoves = 2
CHECK_DEADLOCK FALSE
PROPERTIES RefreshReplacesSelection
