CONSTANTS
    BYTE = 8
    MaxLength = 7
    EntryLengths = {2, 3}
    ListTypes = {LAPIC, IOAPIC}
    OVERRIDE = OVERRIDE
    UNKNOWN = UNKNOWN
    Revisions = {0, 1, 2}
    Signatures = {"APIC", "FACP"}
    MaxTables = 3
    NULL = NULL
    JUNK = JUNK

SPECIFICATION AcpiSpec

INVARIANTS
    InfoExact
    PanicsOnSecondOverride
    MadtFound


    
