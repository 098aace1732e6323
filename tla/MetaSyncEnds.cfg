SPECIFICATION FairSpec
CONSTANTS
    r1 = r1
    r2 = r2
    Cron = Cron
    Requests <- OneRequest
    Depth = 5
    Cap = 6
    Chunk = 3
    Periods <- SomePeriods
    MaxDay = 7
    MaxFaults = 2
PROPERTIES
    SyncingEnds
CHECK_DEADLOCK FALSE
