\* Two handlers and a truthful network whose GET path fails at will.
SPECIFICATION FairSpec
CONSTANTS
    g1 = g1
    g2 = g2
    gx = gx
    k1 = k1
    k2 = k2
    salt1 = salt1
    salt2 = salt2
    Roots <- MCRoots
    Generations <- MCGenerations
    Latest = latest
    Blank = blank
    None = None
    Garbage = garbage
    Keys = {k1}
    Salts = {salt1, salt2}
    StoreSalt = salt1
    LastWindow = 1
    LastChunk = 1
    Spread <- MCSpread
    Events = {e1, e2}
    Registration = None
    ServedConfigs <- PublishedConfigs
    CACHE_MAX = 1
    CONTENT_CACHE_MAX = 1
    ForgedMetas = {}
    Leftovers <- NoLeftovers
    Asks <- PublishedAsks
    Faults = {"get", "storage", "kill"}
INVARIANTS PublishedIsServed
PROPERTIES RequestsSettle
