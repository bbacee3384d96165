SPECIFICATION Spec
CONSTANTS
    v1 = v1
    v2 = v2
    None = None
    NoTrail = NoTrail
    Writing = w
    Altering = x
    Author = {w, x}
    Body = 1
    Reader <- MCReader
    WitnessKeys = {"k1","k2"}
    TrustedKeys = {"k1"}
    StatementBound = 3
    Page = 1
    MaxLines = 2
    MaxSigned = 3
    MaxChanges = 1
INVARIANTS
    AttestedLines
    EveryRecordDelivered
    SavedReadsWhole
CHECK_DEADLOCK FALSE
SYMMETRY Readers
