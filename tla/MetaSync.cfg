SPECIFICATION Spec
CONSTANTS
    r1 = r1
    r2 = r2
    Cron = Cron
    Requests <- TwoRequests
    Depth = 5
    Cap = 6
    Chunk = 3
    Periods <- SomePeriods
    MaxDay = 7
    MaxFaults = 1
INVARIANTS
    TypeOK
    SyncingHasOwner
    CompletedHasHistory
    NoOrphans
SYMMETRY Symmetry
CHECK_DEADLOCK FALSE
