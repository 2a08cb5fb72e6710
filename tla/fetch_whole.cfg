\* GET attempts that fail anywhere and bring other bytes, POST attempts that fail: the read is
\* whole and final, and does what ServiceWorker assumes.
SPECIFICATION FairSpec
CONSTANTS
    Lengths = {0, 1, 2, 3, 4, 5, 7}
    GET_WINDOW = 1
    RPC_CHUNK = 2
    MAX_PARALLEL_RANGES = 2
    Faults = {"get", "post", "foreign"}
INVARIANTS Reassembled SomeLaneIsOut
PROPERTIES ResultIsFinal FetchAdvances FetchSettles ImplementsWindowedRead
CHECK_DEADLOCK FALSE
