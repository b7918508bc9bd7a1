SPECIFICATION Spec
CONSTANTS
    o1 = o1
    None = None
    Operations = {o1}
    MaxSends = 2
    MaxLoads = 3
    MaxEdits = 0
INVARIANTS
    RetriesDoNotDuplicate
CHECK_DEADLOCK FALSE
