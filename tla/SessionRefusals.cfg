SPECIFICATION FairSession
CONSTANTS
    Number = {"1", "2", "huge"}
    Huge = {"huge"}
    Timestamp = {"2026.01.01-00:00:00.000"}
    Mixed = {"Select"}
    Stray = {"?"}
    Defaulted = {"b"}
    Second = 1
    TenSeconds = 2
    Minute = 3
    TenMinutes = 4
    MaxTime = 6
    Scripts <- MCRefused
    Stored <- MCStored
INVARIANTS
    RefusalsCounted
CHECK_DEADLOCK FALSE
