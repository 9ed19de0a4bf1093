SPECIFICATION FairSpec
CONSTANTS
    SpawnOutcomes = {"started", "noexec", "nofork"}
    ReadMayFail = TRUE
    MaxChunks = 2
    MaxCalls = 2
INVARIANTS
    SubprocessTypeOK
    PendingHasHandler
    SettledTruthfully
PROPERTIES
    CallsSettle
CHECK_DEADLOCK FALSE
