CONSTANTS
    a = a
    b = b
    d = d
    None = None
    Records = {a, b, d}
    Size <- RecordSize
    DataSize = 2
    MaxSlots = 2
    CountRange = 1
    MaxPages = 2
    LoadHoles = FALSE
SPECIFICATION Spec
INVARIANT DiskIsCurrent
PROPERTIES IsRecordMap GrowsOnlyWhenFull
