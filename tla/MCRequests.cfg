SPECIFICATION Spec
CONSTANTS
    Handlers = {h1, h2}
    Requests <- MCRequests
    Servers <- MCServers
    MaxFaults = 1
    MaxTurns = 2
    MaxTimeout = 2
    CallTimeout = 2
    MaxScope = 1
    MaxEntry = 2
SYMMETRY Symmetry
INVARIANTS OwnConfig IsolationSuffices SubmissionsCounted RepliesAreTrue
CHECK_DEADLOCK FALSE
