SPECIFICATION FairSpec
CONSTANTS
    Jobs = {j1}
    Replicas = {w1, w2}
    Faults = 1
INVARIANTS OrphanInv LiveJobsKeepTheirDirs
PROPERTIES OrphansGo
CHECK_DEADLOCK FALSE
