SPECIFICATION SSpec
CONSTANTS
    r1 = r1  r2 = r2  r3 = r3  r4 = r4  r5 = r5
    Requests = {r1, r2, r3, r4, r5}
    Mixes <- Hours
    IdentityConnections = 2
    TenantConnections = 2
INVARIANTS
    SomebodyGoesOn
PROPERTIES
    EveryRequestEnds
CHECK_DEADLOCK FALSE
