SPECIFICATION Spec
CONSTANTS
    s1 = s1
    s2 = s2
    j1 = j1
    j2 = j2
    Sessions = {s1, s2}
    Jobs <- TwoJobs
    Start <- FromOne
    End <- ToLast
    Size <- Sizes
    Singles <- FirstDay
    LastDay = 3
    Outcomes <- AnyResult
    Schemas <- Either
    NoJob = NoJob
    NoRow = NoRow
SYMMETRY Symm
INVARIANTS TypeOK ProgressIsBacked ChunkCountAgrees NoOrphanLock RangeMutex
