SPECIFICATION AuthoringSpec
CONSTANTS
    Pointer <- MCPointer
    PathLen <- MCPathLen
    Tokens <- MCTokens
    TokenBytes <- MCTokenBytes
    NameLen <- MCNameLen
    NoPointer = NoPointer
    NoRequirement = NoRequirement
    NotDecimal <- MCNotDecimal
    Supply <- MCSupply
    Inputs <- MCInputs
    Budgets <- MCBudgets
    Outcome <- MCOutcome
    OverlapWork = 24
    ClauseLimit = 2
    NodeLimit = 24
    MaxDiagnostics = 1
    Document <- MCDocument
    Edited <- MCEdited
    Requests <- MCRequests
    Caller = {"suite", "other"}
    MaxAdmissions = 1
    ValuesExtension = "org.judgmentpack.outcome-values"
    NoCondition = NoCondition
    NoName = NoName
    Unset = Unset
    Projects <- MCProjects
    MaxMatrixCases = 4
    DispositionLength <- MCDispositionLength
    TargetLength <- MCTargetLength
    DispositionBudget = 45
    TargetBudget = 100
    ProfileBudget = 28
    Questions <- MCQuestions
    PointerTokens <- MCPointerTokens
    PointerBytes <- MCPointerBytes
    IndexOf <- MCIndexOf
    DigitsOf <- MCDigitsOf
    Spell <- MCSpell
    Unit = 4000
    MaxStepPrecision = 2
    MaxLiteralBytes = 12
    DefaultMaxCandidates = 20
    Written <- MCWritten
    OutputBudget = 130
    Checks <- MCChecks
INVARIANTS
    ChecksTrue
    SuggestionsTrue
    SuiteReportTrue
    AdmissionTrue
    ChargeDeclared
    VerdictStands
    CausesExact
    ElementOrderFree
    OverlapAdviceTrue
    ComparableDecides
CHECK_DEADLOCK FALSE
