SPECIFICATION Spec
CONSTANTS
    i1 = i1
    i2 = i2
    k1 = k1
    k2 = k2
    k3 = k3
    k4 = k4
    ann = ann
    bob = bob
    ea = ea
    kg = kg
    r1 = r1
    r2 = r2
    r3 = r3
    r4 = r4
    Items = {i1}
    Locations = {1, 2}
    Keys = {k1, k2, k3, k4}
    Actors = {ann, bob}
    Units = {ea, kg}
    NoUnit = NoUnit
    NoKey = NoKey
    Requests = {r1, r2, r3, r4}
    Loads <- MasterRaces
    StartItems <- AnyItem
    StartLocations <- AnyLocation
INVARIANTS
    ArchivedHoldsNothing
    DatabaseGuardsStaySilent
PROPERTIES
    LedgerFitsItsMasters
    NoLostUpdate
CHECK_DEADLOCK FALSE
