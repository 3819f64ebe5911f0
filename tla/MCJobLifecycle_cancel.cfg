SPECIFICATION Spec
CONSTANTS
    Launcher = launcher
    Reaper = reaper
    None = none
    Streams = {s1}
    Cancellers = {c1}
    Store = "redis"
    MaxUpdateRetries = 2
    MaxFaults = 0
    MaxCrashes = 0
    LaunchMayTimeOut = FALSE
INVARIANT CancelReachesHarness
