SPECIFICATION TrafficSpec
CONSTANTS
    a = a
    b = b
    P = P
    Q = Q
    t = t
    m = m
    n = n
    q1 = q1
    q2 = q2
    s1 = s1
    s2 = s2
    social = social
    direct = direct
    Sources <- TwoSources
    SheetSources <- OneSource
    Ids <- TwoIds
    Pages <- TwoPages
    Teams <- OneTeam
    Mediums <- TwoMediums
    MediumOf <- OneMediumEach
    Requests <- TwoRequests
    NoPage = NoPage
    Unassigned = Unassigned
    MaxFaults = 1
    SourceRows <- FourRows
    OldRows <- FirstRows
    KeyOf <- ThreeKeys
    Visits <- PowersOfTen
    VisitDays <- OneDay
    Syncs <- TwoSyncs
    BatchSize = 3
INVARIANTS
    TeamsAgree
    TrafficIsReported
SYMMETRY Symmetry
CHECK_DEADLOCK FALSE
