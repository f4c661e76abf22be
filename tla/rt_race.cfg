\* Impatient clients, PATCHes, a kernel that may refuse, and Close.
SPECIFICATION RuntimeSpec
CONSTANTS
    Lookup <- MCLookup
    Endpoint <- MCEndpoint
    IPv6Addrs = {"fd00::1"}
    None = None
    VsIDs = {"v1"}
    RsIDs = {"r1"}
    s1 = s1
    s2 = s2
    s3 = s3
    p1 = p1
    p2 = p2
    SvcPtrs <- TwoSvcPtrs
    Pulses <- MCPulses
    ServiceRequests <- OneService
    ServicePatches <- OnePatch
    BackendRequests <- OneBackend
    WeightPatches = {7}
    HasStore = FALSE
    HasVip = FALSE
    ForeignAddrs = {}
    MayFail = {"ipvs"}
    Extensions = {}
    RecordLimit = 1
    PatientClients = FALSE
    MayClose = TRUE
SYMMETRY Symmetry
INVARIANTS RuntimeTypeOK StashReclaimed MonitorRuns
