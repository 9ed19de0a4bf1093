SPECIFICATION Spec
CONSTANTS
    Timeouts = {0, 5, 10}
    DefaultTimeout = 10
    MaxCalls = 4
INVARIANTS
    SocketHasTimeout
    NothingLeftBehind
PROPERTIES
    PromiseKept
    EveryCallReturns
CHECK_DEADLOCK FALSE
