CONSTANTS
    a = a
    b = b
    d = d
    None = None
    Records = {a, b, d}
    Size <- RecordSize
    DataSize = 5
    MaxSlots = 3
    CountRange = 2
SPECIFICATION Spec
INVARIANTS RecordsApart FreeListSound RefusesOnlyWhenFull
PROPERTY IsRecordMap
