SPECIFICATION Spec
CONSTANTS
    Devices = {d1}
    Profiles = {p1}
    Commands = {"enable", "disable"}
    Clients = {c1}
    Handlers = {h1}
    Kinds = {"euicc-package", "profile-download-trigger"}
    AllowUnverified = TRUE
    Refusals = {"errorUnsigned", "responseError"}
    OmitEID = TRUE
    PollLimit = 1
    MatchLimit = 10
    MaxRequests = 2
    MaxSeqNumber = 2
INVARIANTS
    
    
    NeverOvertaken
    TriggerStaysMatchable
    ViewFromExecuted
CHECK_DEADLOCK FALSE
