SPECIFICATION Spec
CONSTANTS
    r1 = r1
    r2 = r2
    f1 = f1
    f2 = f2
    Requests <- TwoRequests
    Profiles <- OneProfile
    Ops <- RoutedOps
    EditableStatuses <- Statuses
    BodyStatuses = {"review", "approved", "scheduled", "published"}
    PublishEnabled = TRUE
    MaxTime = 1
    MaxCalls = 3
    MaxCrashes = 2
    MaxFaults = 1
SYMMETRY Symmetry
INVARIANTS
    TypeOK
    AtMostOncePerArm
    ApprovedBeforePosted
    PublishedWasPosted
CHECK_DEADLOCK FALSE
