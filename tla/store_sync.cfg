\* An instance, its clients and its peers on one store; nothing is refused.
SPECIFICATION FairStoreSpec
CONSTANTS
    Lookup <- MCLookup
    Endpoint <- MCEndpoint
    IPv6Addrs = {"fd00::1"}
    None = None
    VsIDs = {"v1", "v2"}
    RsIDs = {"r1"}
    s1 = s1
    s2 = s2
    s3 = s3
    p1 = p1
    p2 = p2
    SvcPtrs <- TwoSvcPtrs
    Pulses <- OnePulse
    ServiceRequests <- TwoMethods
    ServicePatches <- NoPatches
    BackendRequests <- OneBackend
    WeightPatches = {}
    HasStore = TRUE
    HasVip = FALSE
    ForeignAddrs = {}
    MayFail = {}
    Extensions = {}
    Flush = TRUE
    HasPeers = TRUE
    MayCrash = TRUE
INVARIANTS PulsesAlive
PROPERTIES OnlyStaleUndone SyncKeepsStore EventuallyConverged
