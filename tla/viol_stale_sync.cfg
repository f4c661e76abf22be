\* A client creates a service while the instance lists the store.
SPECIFICATION StoreSpec
CONSTANTS
    Lookup <- MCLookup
    Endpoint <- MCEndpoint
    IPv6Addrs = {"fd00::1"}
    None = None
    VsIDs = {"v1", "v2"}
    RsIDs = {"r1"}
    s1 = s1
    s2 = s2
    s3 = s3
    p1 = p1
    p2 = p2
    SvcPtrs <- MCSvcPtrs
    Pulses <- MCPulses
    ServiceRequests <- OneService
    ServicePatches <- NoPatches
    BackendRequests <- OneBackend
    WeightPatches = {}
    HasStore = TRUE
    HasVip = FALSE
    ForeignAddrs = {}
    MayFail = {}
    Extensions = {}
    Flush = TRUE
    HasPeers = FALSE
    MayCrash = FALSE
PROPERTIES SyncFollowsStore
