SPECIFICATION DaemonSpec
CONSTANTS
    Empty = Empty
    Absent = Absent
    FileOrder <- PathOrder
    MaxRetained = 3
    Key <- OneKey
    Value = {"int1"}
    TypeOf <- SmallTypes
    Zero = "int0"
    Client = {c1, c2}
    RollbackId = rollback
    Target <- Copies
    Config = {"NO_HOOKS"}
    MaxSize = 2
    MaxStorage = 1
    MaxItems = 1
    MaxCommitId = 2
SYMMETRY Clients
INVARIANTS
    HistoryMatchesFiles
    DiskIsCurrentOrReplayed
    HistoryIsAheadOfValues
PROPERTIES
    IdsAreNotReused
    HistorySurvives
CHECK_DEADLOCK FALSE
