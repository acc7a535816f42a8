SPECIFICATION FairSpec
CONSTANTS
    r1 = r1
    r2 = r2
    r3 = r3
    o1 = o1
    o2 = o2
    Requests <- Pair
    Operations = {o1, o2}
    OpOf <- SameId
    KindOf <- LongPair
    Files = {}
    None = None
    Capacity = 1
    MayBreak = TRUE
INVARIANTS NothingLeftBehind
PROPERTIES KeepsPromise CallReturns AgentEnds
CHECK_DEADLOCK FALSE
