SPECIFICATION MCSpec
CONSTANTS
    Ids = {1, 2, 3}
    MaxTime = 1
    MaxRest = 1
    MaxLimit = 2
    MaxNesting = 3
    Drafts <- MCDrafts
INVARIANT ListingsInv
PROPERTIES
    RefusedForAReason
    ShownJobsSettle
CHECK_DEADLOCK FALSE
