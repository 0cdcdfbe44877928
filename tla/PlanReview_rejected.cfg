SPECIFICATION Spec
CONSTANTS
    Users = {u1, u2}
    Reviews = {r1, r2}
    MaxEntries = 2
INVARIANT AppliedWasApproved
CHECK_DEADLOCK FALSE
