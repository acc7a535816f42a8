SPECIFICATION FairSpec
CONSTANTS
    Targets = {t1, t2}
    k1 = k1
    Tasks = {k1, k2}
    None = None
    MaxAsked = 2
    MaxDeleted = 1
    MayFail = TRUE
INVARIANTS TypeOK RouteOfHost NoRouteDuringWrite StoreConsistent NoCrossTalk CommandReachesItsHost
PROPERTIES AbandonedOnlyByStore FirstServed
CHECK_DEADLOCK FALSE
