SPECIFICATION FairSpec
CONSTANTS
    Writers = {settler, w1, w2}
    Settler = settler
    Clients = {c1}
    MaxLen = 2
    Slack = 0
    PageSize = 1
    MaxClock = 1
    MaxResumes = 2
    MaxFaults = 1
    Retention = TRUE
INVARIANTS InOrder NoGap NoEarlyEof
PROPERTY WatchEnds
CHECK_DEADLOCK FALSE
