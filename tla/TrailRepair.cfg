SPECIFICATION FairSpec
CONSTANTS
    wa = wa
    wb = wb
    wc = wc
    wr = wr
    ws = ws
    old = old
    f1 = f1
    f2 = f2
    f3 = f3
    Writer <- RepairWriter
    Author <- Authors
    Old = old
    Files = {f1, f2}
    NoFile = NoFile
    NoWriter = NoWriter
    NoTrail = NoTrail
    Body = 2
    Op <- RepairOp
    Size <- AllOne
    Chain <- AllTrue
    Big <- AllFalse
    Lockable <- AllTrue
    OpenAttempts = 2
    Legacy = 0
    DirMade = TRUE
    MaxMoves = 1
    MaxLosses = 1
INVARIANTS
    RepairExact
    AcknowledgedKept
CHECK_DEADLOCK FALSE
PROPERTY EveryCallEnds
