SPECIFICATION Spec
CONSTANTS
    c1 = c1
    c2 = c2
    rollback = rollback
    Empty = Empty
    Key <- OneKey
    Value <- IntValues
    TypeOf <- SmallTypes
    Zero = "int0"
    Client = {c1}
    RollbackId = rollback
    Target <- EraseAll
    Config = {"NO_HOOKS"}
    MaxSize = 2
    MaxStorage = 2
    MaxItems = 1
    MaxCommitId = 2
INVARIANTS
    RollbackSeesEveryWrite
CHECK_DEADLOCK FALSE
