SPECIFICATION Spec
CONSTANTS
    Jobs = {j1}
    Calls = {c1}
    Slots = {w1}
    Deletes = {}
    Sweepers = {}
    NoJob = NoJob
    NoSlot = NoSlot
    MaxAttempts = 2
    MaxStalled = 1
    MountDepth = 1
    OneMount = TRUE
    LockMayLapse = FALSE
    ApiFaults = 1
    WorkerFaults = 0
    AllFaults = 1
INVARIANT RetryFindsUpload
CHECK_DEADLOCK FALSE
