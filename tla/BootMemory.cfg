CONSTANTS
    PAGE_SIZE = 2
    NORMAL_OFFSET = 4
    mem_size = 17
    SIZE_MAX = 99
    Sizes = {1, 2, 3}
    MaxEntries = 4
    NULL = NULL
    NONE = NONE
    BITS = 4
    ALIGN = 2
    AREA = 4
    PML4 = 1
    NIDX = 16
    VA_HHDM = 16
    VA_END = 63
    pbase = 1
    vbase = 27
    KHEAP_INIT_PAGES = 1
    MaxGrowth = 2
    PMRS <- MCPmrs
    MemMaps <- MCMemMaps
SPECIFICATION MemorySpec
INVARIANTS
    HandsOver
    MarkInBounds
    
    
PROPERTY Boots
