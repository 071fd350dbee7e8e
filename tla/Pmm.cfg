CONSTANTS
    PAGE_SIZE = 2
    NORMAL_OFFSET = 4
    mem_size = 15
    SIZE_MAX = 99
    Sizes = {1}
SPECIFICATION Spec
INVARIANTS
    HintSound
    PanicMeansNoRun
    GrantsFresh
    PagesConserved
    CountersMatchBitmap
PROPERTY ImplementsFrameAllocator
