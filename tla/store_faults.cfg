\* Kernel and store may refuse any call; two names.
SPECIFICATION StoreSpec
CONSTANTS
    Lookup <- MCLookup
    Endpoint <- MCEndpoint
    IPv6Addrs = {"fd00::1"}
    None = None
    VsIDs = {"v1", "v2"}
    RsIDs = {"r1"}
    s1 = s1
    s2 = s2
    s3 = s3
    p1 = p1
    p2 = p2
    SvcPtrs <- MCSvcPtrs
    Pulses <- OnePulse
    ServiceRequests <- OneService
    ServicePatches <- NoPatches
    BackendRequests <- TwoForwardings
    WeightPatches = {}
    HasStore = TRUE
    HasVip = FALSE
    ForeignAddrs = {}
    MayFail = {"ipvs", "store"}
    Extensions = {}
    Flush = TRUE
    HasPeers = FALSE
    MayCrash = TRUE
SYMMETRY Symmetry
INVARIANTS StoreTypeOK RegisteredInKernel RegisteredIsStored
