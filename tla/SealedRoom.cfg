CONSTANTS
    h1 = h1
    h2 = h2
    g1 = g1
    g2 = g2
    Arrivals <- MCArrivals
    Hosts <- MCHosts
    MaxUpsets = 1
    MaxInFlight = 1
SPECIFICATION FairSpec
INVARIANTS
    EditionsAgree
CHECK_DEADLOCK FALSE
PROPERTY EveryoneIsCommitted
