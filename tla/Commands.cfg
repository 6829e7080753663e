\* Two consumer processes handle two reports of one command while another
\* handler saves the gateway and the gateway is deleted.
CONSTANTS
    Null = Null
    Gateways = {g1}
    CommandIds = {c1}
    Requests <- MCEveryRequest
    Workers = {w1, w2}
    Editors = {e1}
    Freqs = {"default", "fast", "own"}
    DefaultFreq = "default"
    Firmwares = {"v1", "v2", "v0"}
    FactoryFw = "v1"
    Declarations <- MCDeclarations
    SeenStatuses = {"gateway_online"}
    RawStatuses = {"ack", "nack", "garbage"}
    MaxDeliver = 2
    MaxReports = 2
    MaxFailures = 1
SYMMETRY Symmetry
SPECIFICATION Spec
INVARIANTS
    TypeOK
    ConfigurationIsConfirmed
    AckedMeansApplied
    StatusIsReported
    NoOrphanCommand
CHECK_DEADLOCK FALSE
