\* Two tenants, two clients of one name, a deletion of a client and one of a
\* tenant, a foundation, one failure.
CONSTANTS
    Null = Null
    Tenants = {t1, t2}
    Lapsed = {t1}
    Names = {"My client"}
    ClientIds = {"my-client"}
    ClientIdOf <- MCClientIdOf
    Clients = {c1, c2}
    Deleters = {x1}
    Dismissals = {d1}
    Founders = {f1}
    PoolSize = 2
    MaxFailures = 1
SPECIFICATION FairSpec
INVARIANTS
    TypeOK
    RowsWork
    ConflictsAreEarly
    UnlistedStayOut
PROPERTY
    DismissalsEnd
CHECK_DEADLOCK FALSE
