SPECIFICATION FairSpec
CONSTANTS
    Launcher = launcher
    Reaper = reaper
    None = none
    Streams = {s1, s2}
    Cancellers = {c1}
    Store = "mem"
    MaxUpdateRetries = 2
    MaxFaults = 0
    MaxCrashes = 0
    LaunchMayTimeOut = FALSE
INVARIANT RegistryOwnsStream
INVARIANT RunningIsOwned
INVARIANT OneRunPerJob
INVARIANT TerminalEventIsTrue
PROPERTY SettleIsAnnounced
PROPERTY EventuallySettles
