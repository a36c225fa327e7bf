SPECIFICATION MCSpec
CONSTANTS
    Issues = {i1, i2}
    Comments = {c1, c2}
    None = none
    New = new
    MaxActions = 4
    MaxFailures = 1
    TaskIds = {1, 2, 3, 4}
    MaxTaskSaves = 3
    MaxTaskFailures = 1
CHECK_DEADLOCK FALSE
INVARIANTS EditStaysOnPage
SYMMETRY Symmetry
