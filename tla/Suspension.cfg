\* Two updates of one tenant, a request that lifts an expired suspension, a
\* user there and a user to come, one day and one failure.
CONSTANTS
    Null = Null
    Tenants = {t1}
    Users = {u1, u2}
    Updates = {a1, a2}
    Readers = {r1}
    Days = {1}
    MaxUpdates = 2
    MaxTime = 1
    MaxFailures = 1
SYMMETRY Symmetry
SPECIFICATION Spec
INVARIANTS
    TypeOK
    SuspensionHolds
    AccountsFollow
CHECK_DEADLOCK FALSE
