\* A request on NATS and its retry, which two processes handle, one gateway,
\* one other handler.
CONSTANTS
    Null = Null
    Gateways = {g1}
    Procs = {p1, p2}
    NatsRequests = {r1, r2}
    HttpCalls = {}
    Validations = {}
    Editors = {e1}
    Versions = {1}
SYMMETRY Symmetry
SPECIFICATION Spec
PROPERTY
    OnboardingPromise
CHECK_DEADLOCK FALSE
