SPECIFICATION FairSpec
CONSTANTS
    Requests = {r1, r2}
    Configs <- MCConfigs
    CountCap = 2
    CounterMod = 8
    MayAbandon = TRUE
    SplitRefusal = TRUE
INVARIANTS TypeOK
PROPERTIES TrialOnlyFromOpen LeakOnlyByLoss SlotFreed OpenRecovers
