SPECIFICATION Spec
CONSTANTS
    s1 = s1
    s2 = s2
    Sessions = {s1}
    Steps = {1, 2}
    Listed <- InOrder
    DependsOn <- Backward
    Locked = {}
    Outcomes <- Reported
    Schemas <- BeforeChecks
    MaxRequests = 1
PROPERTIES TopologicalOrder
CHECK_DEADLOCK FALSE
