SPECIFICATION FairSpec
CONSTANTS
    MaxInt32 = 7
    Flags <- MCFlags
    Streams = {s1, s2}
    Jobs = {j1, j2}
    Callers = {c1}
    Workers = {m1}
    Main = main
    None = none
INVARIANTS ValidatedBuilds SendsSerialized SessionsTally RunsToldToStop StoreClosedLast
PROPERTY SignalEndsProcess
CHECK_DEADLOCK FALSE
