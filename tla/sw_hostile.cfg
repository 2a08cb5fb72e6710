\* One handler, every fault: the network answers anything, the worker is killed at any step.
SPECIFICATION FairSpec
CONSTANTS
    g1 = g1
    g2 = g2
    gx = gx
    k1 = k1
    k2 = k2
    salt1 = salt1
    salt2 = salt2
    Roots <- MCRoots
    Generations <- MCGenerations
    Latest = latest
    Blank = blank
    None = None
    Garbage = garbage
    Keys = {k1, k2}
    Salts = {}
    StoreSalt = None
    LastWindow = 1
    LastChunk = 1
    Spread <- MCSpread
    Events = {e1}
    Registration = None
    ServedConfigs <- HostileConfigs
    CACHE_MAX = 1
    CONTENT_CACHE_MAX = 1
    ForgedMetas <- Metas
    Leftovers <- HostileLeftovers
    Asks <- HostileAsks
    Faults = {"config", "wasm", "get", "post", "storage", "kill", "commit", "forge"}
INVARIANTS TypeOK PinnedAuthentic PersistedAuthentic NothingTruncated PinnedStreamsHold
PROPERTIES ImplementsVerifiedRead RequestsSettle
