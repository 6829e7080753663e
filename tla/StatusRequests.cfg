SPECIFICATION RequestsSpec
SYMMETRY MCSymmetry
CONSTANTS
    Procs = {p1, p2}
    g1 = g1
    Gateways = {g1}
    Configs = {k1}
    Requests = {r1, r2}
    Contents <- MCContents
    MaxEvents = 1
    None = None
INVARIANTS RequestsTypeOK AnswersWereTrue UpdatesConverge
CHECK_DEADLOCK FALSE
