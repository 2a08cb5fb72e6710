SPECIFICATION FairSpec
CONSTANTS
    g1 = g1
    g2 = g2
    gx = gx
    k1 = k1
    k2 = k2
    salt1 = salt1
    Latest = latest
    Blank = blank
    None = none
    Garbage = garbage
    Keys = {k1, k2}
    Roots <- MCRoots
    Generations <- MCGenerations
    Salts = {salt1}
    StoreSalt = salt1
    LastWindow = 1
    LastChunk = 1
    Spread <- MCSpread
    Readers = {r1, r2}
    Exposed = {r1}
    Refs <- MCRefs
    Networks = {"honest", "flaky", "hostile"}
    CACHE_MAX = 2
    ForgedMetas <- MCForgedMetas
    WithCommits = TRUE
INVARIANTS PinnedAuthentic CacheOrderly PublishedIsRead
PROPERTIES ReadsSettle ImplementsVerifiedRead
