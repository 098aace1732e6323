SPECIFICATION Spec
CONSTANTS
    p1 = p1
    p2 = p2
    i1 = i1
    q1 = q1
    q2 = q2
    f1 = f1
    f2 = f2
    w1 = w1
    w2 = w2
    NoFlow = NoFlow
    NoWorkspace = NoWorkspace
    Workspaces <- TwoWorkspaces
    Selections <- FewSelections
    Pages <- TwoPages
    Account <- OneAccount
    NoAccount = NoAccount
    Members = {m}
    Configured <- ThreePlatforms
    Flows <- TwoFlows
    Requests <- TwoRequests
    MaxFaults = 1
INVARIANTS
    OnlyChosen
    ConfirmedIsComplete
PROPERTIES
    OfferSpec
SYMMETRY Symmetry
CHECK_DEADLOCK FALSE
