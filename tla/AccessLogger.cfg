CONSTANTS
    a = a
    b = b
    Entries = {a, b}
    MaxLogged = 4
SPECIFICATION FairSpec
INVARIANTS TypeOK Accounted DrainedOnExit SleepsForAReason
PROPERTIES EntriesReachFile ShutdownEnds
CHECK_DEADLOCK FALSE
