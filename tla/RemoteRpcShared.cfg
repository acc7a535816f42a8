SPECIFICATION Spec
CONSTANTS
    r1 = r1
    r2 = r2
    r3 = r3
    o1 = o1
    o2 = o2
    Requests <- Three
    Operations = {o1, o2}
    OpOf <- SharedId
    KindOf <- LongThree
    Files = {f1}
    None = None
    Capacity = 1
    MayBreak = FALSE
INVARIANTS TypeOK OwnCancel RebuildAlone NoneForgotten
CHECK_DEADLOCK FALSE
