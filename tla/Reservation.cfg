SPECIFICATION Spec
CONSTANTS
    u1 = u1
    x1 = x1
    x2 = x2
    x3 = x3
    small = small
    other = other
    large = large
    Users = {u1}
    Uploads = {x1, x2, x3}
    Calls = {c1, c2}
    Jobs = {j1, j2, j3}
    NoCall = NoCall
    NoUpload = NoUpload
    NoJob = NoJob
    Owner <- MCOwner
    Content <- MCContent
    Size <- MCSize
    Quotas <- MCQuotas
    InitialQuota <- MCInitialQuota
    Capacity = 5
    MinFree = 1
    MaxGrowth = 1
    Disturbances = 1
SYMMETRY Symmetry
INVARIANTS TypeOK CallsNeverCollide LockHeldInside
PROPERTIES ReservedWithinQuota RetryGetsSameJob
