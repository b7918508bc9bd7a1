SPECIFICATION Spec
CONSTANTS
    mia = mia  max = max  ned = ned
    t1 = t1  t2 = t2
    r1 = r1  r2 = r2  r3 = r3  r4 = r4
    None = None
    Users = {mia, max, ned}
    Texts = {t1, t2}
    Seed <- Team
    Rows <- Unstable
    Leavers = {ned}
    Requests = {r1, r2, r3, r4}
    Loads <- All
    MaxTime = 1
    Skew = 1
INVARIANTS
    AuditExplainsRuns
    DeposedSaveNothing
    ArchivesSucceed
CHECK_DEADLOCK FALSE
