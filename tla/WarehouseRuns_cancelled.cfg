SPECIFICATION Spec
CONSTANTS
    Calls = {c1}
    MaxErrors = 2
    Timeout = 3
INVARIANT SuccessIsSuccess
CHECK_DEADLOCK FALSE
