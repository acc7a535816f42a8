SPECIFICATION Spec
CONSTANTS
    Requests = {r1, r2}
    Configs <- OneConfig
    CountCap = 1
    CounterMod = 8
    MayAbandon = TRUE
    SplitRefusal = FALSE
SYMMETRY Interchangeable
INVARIANTS PermitsCovered
