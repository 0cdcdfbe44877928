SPECIFICATION Spec
CONSTANTS
    s1 = s1
    s2 = s2
    Sessions = {s1, s2}
    Steps = {1, 2, 3}
    Listed <- Three
    DependsOn <- Forward
    Locked = {1, 3}
    Outcomes <- AnyResult
    Schemas <- Either
    MaxRequests = 3
SYMMETRY Symm
INVARIANTS TypeOK EveryStepAnswered LockedStepMutex NoOrphanLock
PROPERTIES LedgerIsKept RetrySkipsDone
CHECK_DEADLOCK FALSE
