SPECIFICATION FairSpec
CONSTANTS
    python = python
    patient = patient
    rust = rust
    Client = {python, patient, rust}
    ChecksId = {python, patient}
    HasTimeout = {python, rust}
    Address = {1, 2}
    MaxConns = 2
    MaxRequests = 3
INVARIANTS
    ConnectionsTypeOK
    AnswersBelong
    AcceptedIsOwn
    InStep
PROPERTIES
    CallsReturn
CHECK_DEADLOCK FALSE
