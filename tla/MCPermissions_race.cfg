SPECIFICATION Spec
CONSTANTS
    None = none
    Operators = {o1, o2}
    Requests = {r1, r2}
    MaxPermissionRequests = 2
    MaxFaults = 0
SYMMETRY Symmetry
INVARIANT DecisionOnRecord
CHECK_DEADLOCK FALSE
