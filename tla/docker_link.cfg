\* Two containers, ports that change and coincide, other clients, lost answers, restarts.
SPECIFICATION LinkSpec
CONSTANTS
    VsIDs <- MCVsIDs
    RsIDs <- MCRsIDs
    Keys <- MCKeys
    Scheds = {"wrr"}
    Dests <- MCDests
    Weights = {100}
    None = None
    Containers <- MCContainers
    Image <- MCImage
    Mangle <- MCMangle
    Mappings <- MCMappings
    HostIP <- MCHostIP
    DefaultSched = "wrr"
    DefaultWeight = 100
    MaxEvents = 2
    Unreliable = TRUE
INVARIANTS LinkTypeOK QuietInStep
PROPERTIES RemovedThenRestored
