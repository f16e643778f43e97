CONSTANTS
    d1 = d1
    d2 = d2
    c1 = c1
    c2 = c2
    None = None
    Daemon <- TwoDaemons
    Client <- TwoClients
SPECIFICATION FairSpec
CONSTRAINT OneDelegates
INVARIANTS ServingIsReachable
PROPERTIES LedgerSpec ActsAsHolder EveryCommandEnds
