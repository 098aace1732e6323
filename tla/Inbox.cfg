SPECIFICATION FairSpec
CONSTANTS
    m1 = m1
    m2 = m2
    r1 = r1
    Inbound <- OneMessage
    Replies <- OneReply
    Lookback = 1
    WholeSecond <- OneSecond
    MaxTime = 2
    MaxEvents = 2
INVARIANTS
    TypeOK
    NoGap
    AnnouncedOnce
    
    ReplyKept
PROPERTIES
    EveryMessageArrives
CHECK_DEADLOCK FALSE
