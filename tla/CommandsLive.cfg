\* Two consumer processes whose loops may end, one command, no other handler.
CONSTANTS
    Null = Null
    Gateways = {g1}
    CommandIds = {c1}
    Requests <- MCRequests
    Workers = {w1, w2}
    Editors = {}
    Freqs = {"default", "fast", "own"}
    DefaultFreq = "default"
    Firmwares = {"v1", "v2"}
    FactoryFw = "v1"
    Declarations <- MCNoFirmware
    SeenStatuses = {"gateway_online"}
    RawStatuses = {"ack", "nack", "garbage"}
    MaxDeliver = 4
    MaxReports = 2
    MaxFailures = 1
SPECIFICATION FairSpec
PROPERTY
    UnderstoodReportsSettle
CHECK_DEADLOCK FALSE
