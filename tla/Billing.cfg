SPECIFICATION FairSpec
CONSTANTS
    k1 = k1
    h1 = h1
    h2 = h2
    g1 = g1
    Checkouts <- OneCheckout
    Hooks <- TwoHooks
    Guards <- OneGuard
    TTL = 2
    MaxCustomers = 1
    MaxChanges = 2
    MaxLost = 1
INVARIANTS
    TypeOK
    MatchesStripe
    NoLateGrant
PROPERTIES
    CacheConverges
CHECK_DEADLOCK FALSE
