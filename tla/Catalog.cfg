CONSTANTS
    d = d
    e = e
    t = t
    None = None
    Torn = Torn
    Dbs = {d, e}
    Tables = {t}
    Columns <- MCColumns
    MaxCreated = 2
SYMMETRY Exchange
SPECIFICATION Spec
INVARIANTS TypeOK OnlyOwnRows AcknowledgedSurvives
