SPECIFICATION DaemonSpec
CONSTANTS
    Empty = Empty
    Absent = Absent
    FileOrder <- PathOrder
    MaxRetained = 4
    Key <- OneKey
    Value = {"int1"}
    TypeOf <- SmallTypes
    Zero = "int0"
    Client = {c1}
    RollbackId = rollback
    Target <- Copies
    Config = {"NO_HOOKS"}
    MaxSize = 2
    MaxStorage = 2
    MaxItems = 1
    MaxCommitId = 3
INVARIANTS
    DiskMatchesCache
CHECK_DEADLOCK FALSE
