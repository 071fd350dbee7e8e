CONSTANTS
    BYTE = 8
    MaxLength = 4
    EntryLengths = {2}
    ListTypes = {LAPIC, IOAPIC}
    OVERRIDE = OVERRIDE
    UNKNOWN = UNKNOWN
    Revisions = {0, 2}
    Signatures = {"APIC", "FACP"}
    MaxTables = 3
    NULL = NULL
    JUNK = JUNK

SPECIFICATION AcpiSpec

PROPERTY
    MadtParsed
