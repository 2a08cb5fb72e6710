\* Overlapping ticks that die and fail, over two stores that rest before each commit.
SPECIFICATION FairSpec
CONSTANTS
    d1 = d1
    d2 = d2
    Stores = {1, 2}
    Domains = {d1, d2}
    pinned_store_id <- TwoStores
    Leased = {d2}
    Busy = {1}
    Ticks = {t1, t2}
    MAX_LINEAGE_HOPS = 3
    MaxHeight = 2
    MELTED_SENTINEL = melted
    None = None
    Faults = {"first", "chain", "put", "invalidate", "kill", "scan"}
INVARIANTS LedgerNearTip
PROPERTIES ForgottenWithItsTick EveryMoveIsPurged
