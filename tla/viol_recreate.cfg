\* A backend is removed and created again at once.
SPECIFICATION FairSpec
CONSTANTS
    Lookup <- MCLookup
    Endpoint <- MCEndpoint
    IPv6Addrs = {"fd00::1"}
    None = None
    VsIDs = {"v1"}
    RsIDs = {"r1"}
    s1 = s1
    s2 = s2
    s3 = s3
    p1 = p1
    p2 = p2
    SvcPtrs <- TwoSvcPtrs
    Pulses <- MCPulses
    ServiceRequests <- OneService
    ServicePatches <- NoPatches
    BackendRequests <- OneBackend
    WeightPatches = {}
    HasStore = FALSE
    HasVip = FALSE
    ForeignAddrs = {}
    MayFail = {}
    Extensions = {}
    RecordLimit = 1
    PatientClients = FALSE
    MayClose = FALSE
PROPERTIES EventuallyRestored
