SPECIFICATION Spec
CONSTANTS
    Devices = {d1}
    Profiles = {p1}
    Commands = {"enable", "disable"}
    Clients = {c1}
    Handlers = {h1}
    Kinds = {"euicc-package"}
    AllowUnverified = FALSE
    Refusals = {}
    OmitEID = FALSE
    PollLimit = 2
    MatchLimit = 10
    MaxRequests = 2
    MaxSeqNumber = 2
PROPERTIES
    RedeliveryIdempotent
CHECK_DEADLOCK FALSE
