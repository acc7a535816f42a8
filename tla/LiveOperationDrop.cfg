SPECIFICATION Spec
CONSTANTS
    NumFiles = 2
    Owners = {"a", "b"}
    UserParts = {"u"}
    Targets <- OneTarget
    Absent = Absent
    Corrupt = Corrupt
    None = None
    MaxReplans = 1
    Faults = {"rename"}
    MaxFaults = 1
    MaxCrashes = 1
INVARIANTS SettlesWhatItSwapped
