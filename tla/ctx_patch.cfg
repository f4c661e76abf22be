\* PATCH of services and of weights, VIPs on an interface that already has one of the
\* addresses; kernel and interface may refuse any call. A scrape runs next to the
\* operations, and can deadlock with one of them (see viol_scrape.cfg).
SPECIFICATION ExporterSpec
CONSTANTS
    Scrapes = {c1}
    Writers = {w1}
    Lookup <- MCLookup
    Endpoint <- MCEndpoint
    IPv6Addrs = {"fd00::1"}
    None = None
    VsIDs = {"v1", "v2"}
    RsIDs = {"r1", "r2"}
    s1 = s1
    s2 = s2
    s3 = s3
    p1 = p1
    p2 = p2
    SvcPtrs <- MCSvcPtrs
    Pulses <- MCPulses
    ServiceRequests <- TwoVips
    ServicePatches <- OnePatch
    BackendRequests <- OneBackend
    WeightPatches = {7}
    HasStore = FALSE
    HasVip = TRUE
    ForeignAddrs = {"10.0.0.1"}
    MayFail = {"ipvs", "vip"}
    Extensions = {}
SYMMETRY Symmetry
INVARIANTS TypeOK RegisteredInKernel WeightsAccounted ForeignAddrsKept RegisteredIsExposed
           ExporterTypeOK LookupsSucceed ScrapeComplete
CHECK_DEADLOCK FALSE
