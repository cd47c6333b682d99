SPECIFICATION Spec
CONSTANTS
    Jobs = {j1}
    Calls = {c1, c2}
    Slots = {w1, w2}
    Deletes = {d1}
    Sweepers = {s1}
    NoJob = NoJob
    NoSlot = NoSlot
    MaxAttempts = 3
    MaxStalled = 1
    MountDepth = 0
    OneMount = TRUE
    LockMayLapse = TRUE
    ApiFaults = 0
    WorkerFaults = 1
    AllFaults = 1
SYMMETRY Symmetry
INVARIANTS PipelineInv EntryOnlyIfAccepted ResultAnnouncedOnce SucceededHasOutput
PROPERTY ImplementsLifecycle
CHECK_DEADLOCK FALSE
