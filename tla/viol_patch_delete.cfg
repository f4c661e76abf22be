\* A service is patched, then deleted.
SPECIFICATION Spec
CONSTANTS
    Lookup <- MCLookup
    Endpoint <- MCEndpoint
    IPv6Addrs = {"fd00::1"}
    None = None
    VsIDs = {"v1", "v2"}
    RsIDs = {"r1", "r2"}
    s1 = s1
    s2 = s2
    s3 = s3
    p1 = p1
    p2 = p2
    SvcPtrs <- MCSvcPtrs
    Pulses <- MCPulses
    ServiceRequests <- MCServiceRequests
    ServicePatches <- MCServicePatches
    BackendRequests <- MCBackendRequests
    WeightPatches = {7}
    HasStore = FALSE
    HasVip = FALSE
    ForeignAddrs = {}
    MayFail = {}
    Extensions = {}
SYMMETRY Symmetry
PROPERTIES DeleteIsComplete
