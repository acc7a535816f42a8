SPECIFICATION Spec
CONSTANTS
    Targets = {t1, t2}
    k1 = k1
    Tasks = {k1, k2}
    None = None
    MaxAsked = 2
    MaxDeleted = 0
    MayFail = FALSE
INVARIANTS ExchangeReachesItsTarget
CHECK_DEADLOCK FALSE
