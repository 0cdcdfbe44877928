SPECIFICATION Spec
CONSTANTS
    s1 = s1
    s2 = s2
    s3 = s3
    alice = alice
    bob = bob
    Sessions = {s1, s2, s3}
    LockId <- TwoReplicas
    Actors = {alice, bob}
    Redacted = Redacted
    MaxTime = 4
    Limit = 3
INVARIANTS TypeOK LinksCommitted SingleRoot Verifies
CHECK_DEADLOCK FALSE
