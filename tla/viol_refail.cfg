\* One backend that fails, begins to recover and fails again.
SPECIFICATION RuntimeSpec
CONSTANTS
    Lookup <- MCLookup
    Endpoint <- MCEndpoint
    IPv6Addrs = {"fd00::1"}
    None = None
    VsIDs = {"v1"}
    RsIDs = {"r1"}
    s1 = s1
    s2 = s2
    s3 = s3
    p1 = p1
    p2 = p2
    SvcPtrs <- OneSvcPtr
    Pulses <- MCPulses
    ServiceRequests <- OneService
    ServicePatches <- NoPatches
    BackendRequests <- OneBackend
    WeightPatches = {}
    HasStore = FALSE
    HasVip = FALSE
    ForeignAddrs = {}
    MayFail = {}
    Extensions = {}
    RecordLimit = 2
    PatientClients = TRUE
    MayClose = FALSE
INVARIANTS DownIsDrained
