SPECIFICATION Spec
CONSTANTS
    c1 = c1
    c2 = c2
    rollback = rollback
    Empty = Empty
    Key <- KeyAndDefault
    Value = {"int0", "text"}
    TypeOf <- SmallTypes
    Zero = "int0"
    Client = {rollback}
    RollbackId = rollback
    Target <- EraseAll
    Config = {"TEMPLATE_ONLY"}
    MaxSize = 2
    MaxStorage = 2
    MaxItems = 2
    MaxCommitId = 3
INVARIANTS
    HistoryIsAChain
    HistoryExplainsValues
    BlameIsContinuous
    RollbackUndoesNoLaterChange
PROPERTIES
    ChangesAreLogged
    LastHoldsPrevious
    RollbackRestores
    ResetLeavesDefaults
CHECK_DEADLOCK FALSE
