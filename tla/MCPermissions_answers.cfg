SPECIFICATION Spec
CONSTANTS
    None = none
    Operators = {o1, o2}
    Requests = {r1, r2, r3}
    MaxPermissionRequests = 2
    MaxFaults = 1
SYMMETRY Symmetry
INVARIANT LoneDecisionOnRecord
INVARIANT RecordedWasDelivered
CHECK_DEADLOCK FALSE
