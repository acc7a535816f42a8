SPECIFICATION Spec
CONSTANTS
    NumFiles = 2
    Owners = {"a", "b"}
    UserParts = {"u"}
    Targets <- DeletingTarget
    Absent = Absent
    Corrupt = Corrupt
    None = None
    MaxReplans = 1
    Faults = {"stage", "intend", "backup", "mark", "settle", "rollforward", "clear"}
    MaxFaults = 1
    MaxCrashes = 1
INVARIANTS TypeOK MarkBeforeSwap BackupBeforeSwap SettlesWhatItSwapped PublishesAll
PROPERTIES NeverForgotten
