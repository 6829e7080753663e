\* One tenant, to be founded, two users, two updates at a time, one deletion
\* of users and one of the tenant, one failure.
CONSTANTS
    Null = Null
    Tenants = {t1}
    Users = {u1, u2}
    Updates = {a1, a2}
    Removals = {d1}
    MaxEdits = 2
    MaxFailures = 1
SYMMETRY Symmetry
SPECIFICATION Spec
INVARIANTS
    TypeOK
    OrphansAreExplained
    RowsHaveAccounts
    RolesAgree
    OneGroup
CHECK_DEADLOCK FALSE
