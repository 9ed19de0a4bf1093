SPECIFICATION FairSpec
CONSTANTS
    c1 = c1
    c2 = c2
    rollback = rollback
    Empty = Empty
    Key <- OneKey
    Value = {"int1", "text"}
    TypeOf <- SmallTypes
    Zero = "int0"
    Client = {c1, c2}
    RollbackId = rollback
    Target <- EraseAll
    Config = {"DEFAULT", "NO_HOOKS"}
    MaxSize = 2
    MaxStorage = 2
    MaxItems = 2
    MaxCommitId = 2
INVARIANTS
    TypeOK
    AgeOrderMatchesBuckets
    LockedHasRun
PROPERTIES
    LockIsReleased
CHECK_DEADLOCK FALSE
