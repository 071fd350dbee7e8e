CONSTANTS
    PML4 = 2
    NIDX = 2
    Frames = {f0, f1, f2, f3, f4}
    cr3 = f0
    Vaddrs = {1, 2, 4}
    Paddrs = {1, 2}
    MaxNum = 2
    NONE = NONE
    Stale = {NONE}

SPECIFICATION FairSpec

INVARIANTS
    TablesTree
    

PROPERTIES
    ImplementsVirtualMemory
    WalkEnds
