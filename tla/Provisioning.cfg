\* One gateway; a request on NATS that two processes handle and a request over
\* HTTP, two other handlers, one validation.
CONSTANTS
    Null = Null
    Gateways = {g1}
    Procs = {p1, p2}
    NatsRequests = {r1}
    HttpCalls = {h1}
    Validations = {v1}
    Editors = {e1, e2}
    Versions = {1}
SYMMETRY Symmetry
SPECIFICATION Spec
INVARIANTS
    TypeOK
    ProvisionedHasKey
    FactoryKeyIsSpent
    SecondKeyNeedsRace
    SuccessIsStored
CHECK_DEADLOCK FALSE
