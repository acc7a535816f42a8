SPECIFICATION FairSpec
CONSTANTS
    NumFiles = 1
    Owners = {"a", "b"}
    UserParts = {"u", "v"}
    Targets <- TwoTargets
    Absent = Absent
    Corrupt = Corrupt
    None = None
    MaxReplans = 1
    Faults = {"stage", "intend", "backup", "mark", "rename", "settle", "rollforward", "clear"}
    MaxFaults = 1
    MaxCrashes = 1
PROPERTIES ClientPartSurvives KeepsPromise IntentSettles LockReleased
