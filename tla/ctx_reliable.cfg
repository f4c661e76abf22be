\* The kernel refuses nothing for reasons of its own, services are never patched; two
\* scrapes.
SPECIFICATION ExporterSpec
CONSTANTS
    Lookup <- MCLookup
    Endpoint <- MCEndpoint
    IPv6Addrs = {"fd00::1"}
    None = None
    VsIDs = {"v1", "v2"}
    RsIDs = {"r1", "r2"}
    s1 = s1
    s2 = s2
    s3 = s3
    p1 = p1
    p2 = p2
    SvcPtrs <- MCSvcPtrs
    Pulses <- MCPulses
    ServiceRequests <- MCServiceRequests
    ServicePatches <- NoPatches
    BackendRequests <- MCBackendRequests
    WeightPatches = {7}
    HasStore = FALSE
    HasVip = FALSE
    ForeignAddrs = {}
    MayFail = {"disco"}
    Extensions = {}
    Scrapes = {"g1", "g2"}
    Writers = {"w1"}
SYMMETRY Symmetry
INVARIANTS KernelOwned BackendsInKernel PulsesAlive NoneLeftOut
PROPERTIES DeleteIsComplete Implements
CHECK_DEADLOCK FALSE
