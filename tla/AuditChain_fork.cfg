SPECIFICATION Spec
CONSTANTS
    s1 = s1
    s2 = s2
    s3 = s3
    alice = alice
    bob = bob
    Sessions = {s1, s2}
    LockId <- OneReplica
    Actors = {alice}
    Redacted = Redacted
    MaxTime = 3
    Limit = 10
INVARIANTS NoFork
CHECK_DEADLOCK FALSE
