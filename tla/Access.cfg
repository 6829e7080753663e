SPECIFICATION Spec
CONSTANTS
    t1 = t1
    t2 = t2
    Tenants = {t1, t2}
    Claims <- MCClaims
    Routes <- MCRoutes
    Requests = {r1, r2}
    Unknown = Unknown
    MaxMishaps = 1
    Null = Null
INVARIANTS TypeOK HandledInGoodStanding TrailIsTrue BlockedLeavesTrace
SYMMETRY Symmetry
CHECK_DEADLOCK FALSE
