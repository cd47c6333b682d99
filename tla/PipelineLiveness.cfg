SPECIFICATION FairSpec
CONSTANTS
    Jobs = {j1}
    Calls = {c1, c2}
    Slots = {w1}
    Deletes = {d1}
    Sweepers = {s1}
    NoJob = NoJob
    NoSlot = NoSlot
    MaxAttempts = 2
    MaxStalled = 1
    MountDepth = 1
    OneMount = FALSE
    LockMayLapse = FALSE
    ApiFaults = 1
    WorkerFaults = 1
    AllFaults = 1
INVARIANTS TypeOK InputInPlace QueueDoneMeansRowDone
PROPERTIES AcceptedJobsEnd UploadsSettle
CHECK_DEADLOCK FALSE
