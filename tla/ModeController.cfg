SPECIFICATION Spec
CONSTANTS
    claude = claude
    gemini = gemini
    p1 = p1
    p2 = p2
    p3 = p3
    t1 = t1
    t2 = t2
    AppOrder <- Order
    StackOrder <- Stacked
    BareApps = {claude}
    Providers = {p1, p2, p3}
    Joinable = {p1, p2}
    Routable = {p1, p2}
    Tasks = {t1, t2}
    None = None
    FirstRows <- Rows
    Left <- Before
    MaxAsked = 2
    MaxFaults = 1
    MaxCrashes = 1
INVARIANTS TypeOK ContractOnFile DefaultIsMember NoIdleServer HoldersNeverWait
PROPERTIES KeepsModes CommandsGetOn
SYMMETRY TwoTasks
CHECK_DEADLOCK FALSE
