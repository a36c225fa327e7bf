SPECIFICATION MCSpec
CONSTANTS
    Issues = {1, 2}
    Columns <- MCColumns
    None = none
    MaxGestures = 2
    MaxFailures = 1
CHECK_DEADLOCK FALSE
INVARIANTS TypeOK LocalIsServer
PROPERTIES DropLands
