\* One scrape and one goroutine that runs operations.
SPECIFICATION FairExporterSpec
CONSTANTS
    Scrapes = {c1}
    Writers = {w1}
    Lookup <- MCLookup
    Endpoint <- MCEndpoint
    IPv6Addrs = {"fd00::1"}
    None = None
    VsIDs = {"v1"}
    RsIDs = {"r1"}
    s1 = s1
    s2 = s2
    s3 = s3
    p1 = p1
    p2 = p2
    SvcPtrs <- TwoSvcPtrs
    Pulses <- OnePulse
    ServiceRequests <- OneService
    ServicePatches <- OnePatch
    BackendRequests <- OneBackend
    WeightPatches = {}
    HasStore = FALSE
    HasVip = FALSE
    ForeignAddrs = {}
    MayFail = {}
    Extensions = {}
PROPERTIES CollectReturns
CHECK_DEADLOCK FALSE
