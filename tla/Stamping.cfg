SPECIFICATION Spec
CONSTANTS
    s1 = s1
    s2 = s2
    g1 = g1
    g2 = g2
    None = None
    NoTrail = NoTrail
    TrustedKeys = {}
    StatementBound = 0
    Writing = w
    Altering = x
    Author = {w, x}
    Body = 1
    Stamper = {s1, s2}
    StampsFile = {g1, g2}
    StampRoom = 2
    MaxClock = 4
    MaxLines = 2
    MaxChanges = 1
INVARIANTS
    StampsTrue
    OneStampEach
SYMMETRY Symmetry
CHECK_DEADLOCK FALSE
