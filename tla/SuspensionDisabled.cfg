\* One update, one request that lifts the suspension, one user; nothing fails.
CONSTANTS
    Null = Null
    Tenants = {t1}
    Users = {u1}
    Updates = {a1}
    Readers = {r1}
    Days = {1}
    MaxUpdates = 1
    MaxTime = 1
    MaxFailures = 0
SPECIFICATION Spec
INVARIANT
    ActiveTenantsEnabled
CHECK_DEADLOCK FALSE
