SPECIFICATION Spec
CONSTANTS
    Launcher = launcher
    Reaper = reaper
    None = none
    Streams = {s1}
    Cancellers = {}
    Store = "redis"
    MaxUpdateRetries = 3
    MaxFaults = 0
    MaxCrashes = 0
    LaunchMayTimeOut = FALSE
INVARIANT TerminalEventIsTrue
