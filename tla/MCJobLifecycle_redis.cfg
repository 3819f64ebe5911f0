SPECIFICATION Spec
CONSTANTS
    Launcher = launcher
    Reaper = reaper
    None = none
    Streams = {s1}
    Cancellers = {c1}
    Store = "redis"
    MaxUpdateRetries = 2
    MaxFaults = 1
    MaxCrashes = 1
    LaunchMayTimeOut = TRUE
INVARIANT TypeOK
INVARIANT FinishedIffTerminal
PROPERTY RecordContract
PROPERTY TerminalIsFinal
PROPERTY CancelExplainsClosure
