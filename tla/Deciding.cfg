SPECIFICATION Spec
CONSTANTS
    r1 = r1
    r2 = r2
    c1 = c1
    c2 = c2
    NoConfig = NoConfig
    Absent = Absent
    Big = Big
    NoSet = NoSet
    NoDecision = NoDecision
    Procs <- MCProcs
    PackNames = {"p", "q"}
    GraphNames = {"gr"}
    Paths <- MCPaths
    Contents <- MCContents
    Configs <- MCConfigs
    GraphPath = "g"
    Nodes <- MCNodes
    Sorted <- MCSorted
    Tasks <- MCTasks
    InitDocs <- MCInitDocs
    InitLocks <- MCInitLocks
    MaxEdits = 1
SYMMETRY Runs
INVARIANTS
    UnlockedMeansAbsent
    VerifyCoversDeciding
PROPERTY DecisionsSpec
CHECK_DEADLOCK FALSE
