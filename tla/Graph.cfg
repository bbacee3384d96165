SPECIFICATION Spec
CONSTANTS
    pa = pa
    pb = pb
    None = None
    Idle = Idle
    Outside = Outside
    PointerDepth = 2
    InjectionBudget = 1
    Packs = {pa, pb}
    Contents = {"old", "new", "foreign", "broken"}
    Outcomes = {"x", "y"}
    MaxEdits = 1
    Tasks <- MCTasks
    RowBytes = 2
    CoverageBytes = 1
    EntryBytes = 1
    TestBytes = 2
    SuiteBytes = 2
    CoreBudget = 7
    Requirements = {"e"}
INVARIANTS
    PlanExact
    ReportTrue
CHECK_DEADLOCK FALSE
