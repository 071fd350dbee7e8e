CONSTANTS
    PML4 = 2
    NIDX = 2
    Frames = {f0, f1, f2}
    cr3 = f0
    Vaddrs = {0, 1}
    Paddrs = {1, 2}
    MaxNum = 2
    NONE = NONE
    Stale = {NONE, 1}

SPECIFICATION FairSpec

PROPERTY
    ImplementsVirtualMemory
