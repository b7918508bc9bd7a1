SPECIFICATION Spec
CONSTANTS
    o1 = o1
    None = None
    Operations = {o1}
    MaxSends = 3
    MaxLoads = 3
    MaxEdits = 1
INVARIANTS
    RetryIsOffered
CHECK_DEADLOCK FALSE
