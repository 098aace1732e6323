SPECIFICATION FairSpec
CONSTANTS
    r1 = r1
    r2 = r2
    f1 = f1
    f2 = f2
    Requests <- OneRequest
    Profiles <- TwoProfiles
    Ops <- RoutedOps
    EditableStatuses = {"draft"}
    BodyStatuses = {}
    PublishEnabled = TRUE
    MaxTime = 2
    MaxCalls = 6
    MaxCrashes = 1
    MaxFaults = 1
INVARIANTS
    ScheduledHasJob
    OneDecisionPerSubmission
PROPERTIES
    LifecycleSpec
    NeverEarly
    ScheduledIsResolved
CHECK_DEADLOCK FALSE
