CONSTANTS
    KeySize = 2
    Bytes = {1, 3}
    Values = {u, v}
    NONE = NONE
    MAP_INITIAL_NUM_BUCKETS = 2
    BUCKET_CAPACITY = 1
    MaxBuckets = 8
    MaxLive = 3
    JUNK = JUNK
    NULL = NULL
    SplitBehind = FALSE
    Elements = {a, b}
    Capacities = {1, 2, 3}
    MaxCapacity = 4
    Nodes = {n1, n2, n3}
    EMPTY = EMPTY
    MayDrain = FALSE

SPECIFICATION Spec

INVARIANTS
    WellPlaced
    

PROPERTIES
    
    ImplementsSequence
    ImplementsFifo
