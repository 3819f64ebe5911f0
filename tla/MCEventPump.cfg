SPECIFICATION FairSpec
CONSTANTS
    Ids = {a, b, c}
    Other = other
    Oversized = big
    MaxEvents = 3
    MaxInFlight = 1
    MaxCalls = 2
    MaxTokens = 1
    MaxFaults = 1
INVARIANTS TimelineFollowsStream OneAnswer SlotPerCall OncePerId
PROPERTY EveryCallAnswered
CHECK_DEADLOCK FALSE
