SPECIFICATION Spec
CONSTANTS
    f1 = f1  f2 = f2
    mia = mia  max = max  ned = ned
    d1 = d1  d2 = d2  n1 = n1  n2 = n2
    r1 = r1  r2 = r2  r3 = r3  r4 = r4
    None = None
    Findings = {f1, f2}
    Users = {mia, max, ned}
    Dates = {d1, d2}
    Notes = {n1, n2}
    Seed <- Team
    Rows <- Unstable
    Leavers = {ned}
    Requests = {r1, r2, r3, r4}
    Loads <- All
    DayLength = 2
    Windows = {1, 3}
    UserId <- Ids
    PageSize = 1
INVARIANTS
    HistoryExplainsState
    DeposedAreRefused
    DashboardAgrees
CHECK_DEADLOCK FALSE
