SPECIFICATION Spec
CONSTANTS
    wa = wa
    wb = wb
    wc = wc
    wr = wr
    ws = ws
    old = old
    f1 = f1
    f2 = f2
    f3 = f3
    Writer <- MixedWriter
    Author <- Authors
    Old = old
    Files = {f1}
    NoFile = NoFile
    NoWriter = NoWriter
    NoTrail = NoTrail
    Body = 2
    Op <- MixedOp
    Size <- MixedSize
    Chain <- MixedChain
    Big <- MixedBig
    Lockable <- MixedLockable
    OpenAttempts = 2
    Legacy = 0
    DirMade = TRUE
    MaxMoves = 0
    MaxLosses = 0
INVARIANTS
    NoSharedPredecessor
    LinksReadable
SYMMETRY MixedSymmetry
CHECK_DEADLOCK FALSE
