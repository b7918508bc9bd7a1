SPECIFICATION Spec
CONSTANTS
    None = None
    Rows = {1, 2, 3, 4, 5}
    Lists <- All
    Limit = 2
    MaxTime = 1
INVARIANTS
    PagesAreComplete
CHECK_DEADLOCK FALSE
