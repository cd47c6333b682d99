SPECIFICATION Spec
CONSTANTS
    Cleaners = {c1, c2}
    Handlers = {h1, h2}
    NoOne = NoOne
    LockTtl = 2
    LockRefresh = 1
    SetTtl = 10
    SetRefresh = 2
    MaxFailures = 2
    MountDepth = 0
    DiesAt = {}
    HandlerFaults = 0
    CleanerFaults = 1
    RefreshFaults = 3
    Unreliable = {"worker"}
    Outages = 1
SYMMETRY Symmetry
INVARIANTS CleanupInv
PROPERTIES ImplementsLease LockIsNotStolen
