SPECIFICATION Spec
CONSTANTS
    Width = 2
    Base = 2
    Message <- Messages
    SizeError <- TooLarge
    MaxSent = 3
INVARIANTS
    StreamIsConserved
    AllDelivered
CHECK_DEADLOCK FALSE
