SPECIFICATION AdviceSpec
CONSTANTS
    Atom <- MCAtom
    Situation <- MCSituation
    Id <- MCId
    Outcome <- MCOutcome
    Cond <- MCCond
    NoCond = NoCond
    Verdict <- MCVerdict
    Steps <- MCSteps
    Scans <- MCScans
    ScanUnits <- MCScanUnits
    StepUnits <- MCStepUnits
    NoOutcome = NoOutcome
    NoEscalation = NoEscalation
    NoRoutes = NoRoutes
    NoFilter = NoFilter
    NoTarget = NoTarget
    NoDeclaration = NoDeclaration
    Packs <- MCPacks
    Budgets <- MCBudgets
    Considered <- MCConsidered
    Analyses <- MCAnalyses
    MaxSources = 2
INVARIANTS
    ResultDeclared
    LimitDeclared
    OutcomeSettled
    ContributorsDecide
    DomainAdviceTrue
CHECK_DEADLOCK FALSE
