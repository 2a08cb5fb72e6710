\* A commit between two latest reads of one worker life.
SPECIFICATION LatestSpec
CONSTANTS
    g1 = g1
    g2 = g2
    gx = gx
    k1 = k1
    k2 = k2
    salt1 = salt1
    salt2 = salt2
    Roots <- MCRoots
    Generations <- MCGenerations
    Latest = latest
    Blank = blank
    None = None
    Garbage = garbage
    Keys = {k1}
    Salts = {}
    StoreSalt = None
    LastWindow = 0
    LastChunk = 1
    Spread <- MCSpreadNarrow
    Events = {e1}
    Registration <- LatestConfig
    ServedConfigs = {}
    CACHE_MAX = 1
    CONTENT_CACHE_MAX = 1
    ForgedMetas = {}
    Leftovers <- NoLeftovers
    Asks <- LatestAsks
    Faults = {"commit"}
INVARIANTS LatestIsLive
