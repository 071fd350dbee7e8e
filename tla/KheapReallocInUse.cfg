CONSTANTS
    PAGE_SIZE = 16
    ALIGN = 2
    HDR = 4
    KHEAP_MIN_FREE_SIZE = 1
    VA_END = 63
    kheap_max = 20
    KHEAP_INIT_PAGES = 1
    FRAMES = 3
    Requests = {1}
    Reallocs = {3}

SPECIFICATION Spec

INVARIANT
    OwnedInUse
