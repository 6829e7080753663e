SPECIFICATION FairSpec
CONSTANTS
    Procs = {p1, p2}
    Listeners = {"alerts", "audit"}
    MaxMishaps = 2
    Messages = {m1}
    t1 = t1
    Tenants = {t1}
    Published <- MCPublished
    MaxDeliver = 3
    Null = Null
INVARIANTS TypeOK DuplicatesArePaid
PROPERTIES IntakePromise EventsSettle
CHECK_DEADLOCK FALSE
