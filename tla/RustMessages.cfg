SPECIFICATION Spec
CONSTANTS
    StrLen <- MCStrLen
    RefusedKeys <- MCRefused
    Commands <- MCCommands
    Xids <- MCNumbers
    Ids <- MCNumbers
    Connection = 7
    CommitIds <- MCNumbers
    Listings <- MCListings
    Histories <- MCHistories
    HookNames <- MCHookNames
INVARIANTS
    PanicsOnlyOnErasedBlame
    RequestArrives
    AnswerSurvives
