SPECIFICATION Spec
CONSTANTS
    None = None
    n1 = n1
    n2 = n2
    n3 = n3
    About <- AboutOf
    Window = 2
    HistoryRecords = 1
    FileCount = 2
    Inode = {n1, n2, n3}
    Authority = {"a", "b"}
    Block = 2
    RecordUnits = 1
    PageRecords = 1
    MaxExports = 1
    Limits = {1, 2}
    Definition = "pack"
    Forms = {"request", "garbled", "envelope", "params"}
    FirstNames <- Names
    FirstStores <- Stores
    MaxSent = 4
    MaxAhead = 2
    MaxChanges = 1
    Units <- Written
    MaxUnits = 4
INVARIANTS
    AnswersInOrder
    ExportExact
    RewrittenRefused
CHECK_DEADLOCK FALSE
