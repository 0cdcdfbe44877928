SPECIFICATION FairSpec
CONSTANTS
    p1 = p1
    p2 = p2
    audit = audit
    metrics = metrics
    N = 2
    Pollers = {p1, p2}
    Handlers = {audit, metrics}
    MaxAttempts = 2
    Limit = 1
    MaxCrashes = 1
INVARIANTS TypeOK
PROPERTIES AtLeastOnce DeliveredStays EventuallySettled
CHECK_DEADLOCK FALSE
