SPECIFICATION Spec
CONSTANTS
    Replicas = {r1, r2}
    Peppers = {p1, p2}
    NoPepper = NoPepper
    Users = {admin, other}
    Admins = {admin}
    Sessions = {s1, s2}
    Keys = {k1}
    Nothing = Nothing
    Requests = {q1, q2}
    Disturbances = 1
INVARIANTS AccessInv AuditTrail
PROPERTIES NoStaleAuthority
SYMMETRY Symmetry
CHECK_DEADLOCK FALSE
