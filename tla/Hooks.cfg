SPECIFICATION FairSpec
CONSTANTS
    Empty = Empty
    Key <- OneKey
    Value = {"int1"}
    TypeOf <- SmallTypes
    Zero = "int0"
    Hook <- Hooks
    HookType <- Types
    RunLevel <- Levels
    HookKeys <- Patterns
    RunOptions <- Options
    ParallelHooks = 3
    MaxRuns = 2
INVARIANTS
    OrderRespected
    SuccessRanEverything
    NoLostWait
PROPERTIES
    OverIsOver
    RunsEnd
CHECK_DEADLOCK FALSE
