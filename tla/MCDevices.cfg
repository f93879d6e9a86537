SPECIFICATION Spec
CONSTANTS
    Devices = {d1, d2}
    Profiles = {p1}
    Commands = {"enable"}
    Clients = {c1}
    Handlers = {h1}
    Kinds = {"euicc-package", "profile-download-trigger"}
    AllowUnverified = FALSE
    Refusals = {"errorUnsigned", "responseError"}
    OmitEID = TRUE
    PollLimit = 2
    MatchLimit = 10
    MaxRequests = 2
    MaxSeqNumber = 1
INVARIANTS
    HandledForSender
SYMMETRY Symmetry
CHECK_DEADLOCK FALSE
