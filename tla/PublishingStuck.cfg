SPECIFICATION FairSpec
CONSTANTS
    r1 = r1
    r2 = r2
    f1 = f1
    f2 = f2
    Requests <- OneRequest
    Profiles <- OneProfile
    Ops <- TransitionOps
    EditableStatuses = {}
    BodyStatuses = {}
    PublishEnabled = TRUE
    MaxTime = 1
    MaxCalls = 3
    MaxCrashes = 1
    MaxFaults = 0
PROPERTY PublishingIsIntermediate
CHECK_DEADLOCK FALSE
