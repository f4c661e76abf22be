\* Clients wait for a removed backend's goroutine; nothing is refused.
SPECIFICATION FairSpec
CONSTANTS
    Lookup <- MCLookup
    Endpoint <- MCEndpoint
    IPv6Addrs = {"fd00::1"}
    None = None
    VsIDs = {"v1"}
    RsIDs = {"r1", "r2"}
    s1 = s1
    s2 = s2
    s3 = s3
    p1 = p1
    p2 = p2
    SvcPtrs <- OneSvcPtr
    Pulses <- MCPulses
    ServiceRequests <- OneService
    ServicePatches <- NoPatches
    BackendRequests <- TwoBackends
    WeightPatches = {}
    HasStore = FALSE
    HasVip = FALSE
    ForeignAddrs = {}
    MayFail = {}
    Extensions = {}
    RecordLimit = 2
    PatientClients = TRUE
    MayClose = FALSE
INVARIANTS WeightRemembered DownIsReduced
PROPERTIES EventuallyRestored StoppedPulseReturns
