SPECIFICATION FairSpec
CONSTANTS
    Devices = {d1}
    Profiles = {p1}
    Commands = {"delete"}
    Clients = {c1}
    Handlers = {h1}
    Kinds = {"euicc-package", "profile-download-trigger"}
    AllowUnverified = FALSE
    Refusals = {"errorUnsigned"}
    OmitEID = FALSE
    PollLimit = 1
    MatchLimit = 10
    MaxRequests = 2
    MaxSeqNumber = 1
PROPERTIES
    EveryOperationCompletes
CHECK_DEADLOCK FALSE
