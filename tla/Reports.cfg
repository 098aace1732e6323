SPECIFICATION Spec
CONSTANTS
    Facebook = {f}
    Instagram = {i}
    LastDay = 3
    Followers <- FewFollowers
    ProcessInUTC = TRUE
    MaxRows = 3
    Earned <- FewEarnings
    RevenueTeams = {t}
    NoMapping = NoMapping
    RevenueUnassigned = RevenueUnassigned
    WindowDays = 1
INVARIANTS
    ReportsAgree
    RevenueIsTrue
    RevenueIsReported
CHECK_DEADLOCK FALSE
