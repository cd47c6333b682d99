SPECIFICATION FairSpec
CONSTANTS
    Cleaners = {c1, c2}
    Handlers = {h1, h2}
    NoOne = NoOne
    LockTtl = 2
    LockRefresh = 1
    SetTtl = 10
    SetRefresh = 2
    MaxFailures = 2
    MountDepth = 0
    DiesAt = {"check", "add", "recheck", "withdraw", "stat", "stream", "release"}
    HandlerFaults = 2
    CleanerFaults = 2
    RefreshFaults = 0
    Unreliable = {}
    Outages = 0
INVARIANT OneCleaner
PROPERTY DueJobsExpire
