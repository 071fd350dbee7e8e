CONSTANTS
    MAX_IOAPICS = 2
    Bases = {0, 2}
    Pins = {0, 1}
    Lapics = {0, 1, 2}
    BSP = 0
    NoGsi = NoGsi
    Procs <- MCProcs
    StackPages = {5, 6}
    NoPage = NoPage
    Gsis = {1, 2, 3}

SPECIFICATION Spec

INVARIANTS
    HaltsOnlyInPicWindow
    KeyNeverStuck
    DeliversOnlyStarted
    StacksReady

PROPERTIES
    HeardWhenIdle
    BootEnds
    KeysRead
