SPECIFICATION FairSpec
CONSTANTS
    MaxJobs = 2
    Clients = {c}
    Reaper = reaper
    Updaters = {u}
    Writers = {w}
    Keys = {"perms"}
    Requested <- MCRequested
    DefaultListLimit = 1
    MaxListLimit = 1
    PageSize = 1
    MaxFaults = 1
    MaxClock = 3
    Retention = 1
INVARIANTS IndexMatchesRecords ListingComplete PagesDescend DeletedIsGone
PROPERTIES OnlyExpiredDeleted ExpiredIsDeleted
