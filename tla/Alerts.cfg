SPECIFICATION Spec
CONSTANTS
    a = a
    b = b
    Rules <- TwoRules
    e1 = e1
    e2 = e2
    Events <- TwoEvents
    Requests = {q}
    NoRule = NoRule
    Settings <- DropAndRise
    Values <- FewValues
    MaxFaults = 1
INVARIANTS
    FiringLeavesAll
    CardsTellTheTruth
    EveryEventIsHandled
SYMMETRY Symmetry
CHECK_DEADLOCK FALSE
