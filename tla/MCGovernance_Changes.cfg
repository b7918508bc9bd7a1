SPECIFICATION Spec
CONSTANTS
    ann = ann  bob = bob  cat = cat  dan = dan
    acme = acme  apex = apex
    r1 = r1  r2 = r2  r3 = r3  r4 = r4
    Users = {ann, bob, cat, dan}
    Names = {acme, apex}
    FirstName = acme
    Seed <- TwoAdmins
    Requests = {r1, r2, r3, r4}
    Loads <- Changes
    MaxTime = 1
    InvitationSeconds = 1
INVARIANTS
    AnAdminRemains
    InvitationsAreForOutsiders
    AuditExplainsState
    OnlyAddressRacesFail
    NoCircularWait
PROPERTIES
    ImplementsRoster
CHECK_DEADLOCK FALSE
