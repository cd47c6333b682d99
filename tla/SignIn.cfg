SPECIFICATION Spec
CONSTANTS
    Logins = {l1, l2}
    Redeems = {r1, r2}
    Emails = {e1, e2}
    NoEmail = NoEmail
    MaxConcurrent = 1
    IpLimit = 1
    AccountLimit = 1
    Faults = 1
    MaxRequests = 2
INVARIANTS SignInInv GuessesBounded ClaimsComeBack
PROPERTIES ImplementsSemaphores
SYMMETRY Symmetry
CHECK_DEADLOCK FALSE
