\* A store with one commit that the watcher has never looked at.
SPECIFICATION Spec
CONSTANTS
    d1 = d1
    d2 = d2
    Stores = {1}
    Domains = {d1}
    pinned_store_id <- OneStore
    Leased = {}
    Busy = {}
    Ticks = {t1}
    MAX_LINEAGE_HOPS = 2
    MaxHeight = 2
    MELTED_SENTINEL = melted
    None = None
    Faults = {"history"}
INVARIANTS MeltIsReal
