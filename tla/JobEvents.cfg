SPECIFICATION FairSpec
CONSTANTS
    MaxHandlers = 1
    MaxSources = 2
    MaxFetches = 2
    Faults = 1
INVARIANTS EventsInv
PROPERTIES PageLearnsEnd ShownNeverGoesBack
CHECK_DEADLOCK FALSE
