SPECIFICATION SignedSpec
CONSTANTS
    wa = wa
    wb = wb
    wk = wk
    wr = wr
    old = old
    f1 = f1
    k1 = k1
    k2 = k2
    NoKey = NoKey
    Key <- SignedKey
    NextKey <- SignedNextKey
    Writer <- SignedWriter
    Author <- Authors
    Old = old
    Files = {f1}
    NoFile = NoFile
    NoWriter = NoWriter
    NoTrail = NoTrail
    Body = 1
    Op <- SignedOp
    Size <- SignedSize
    Chain <- AllTrue
    Big <- AllFalse
    Lockable <- AllTrue
    OpenAttempts = 1
    Legacy = 0
    DirMade = TRUE
    MaxMoves = 0
    MaxLosses = 1
INVARIANTS
    SidecarVerifies
    RotationKept
PROPERTY TrailSpec
CHECK_DEADLOCK FALSE
