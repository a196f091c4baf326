SPECIFICATION Spec
CONSTANTS
    a = a
    b = b
    NULL = NULL
    NoRow = NoRow
    Column <- MCColumn
    Value <- MCValue
    Typed <- MCTyped
    KeyOf <- MCKeyOf
    Default <- MCDefault
    Width <- MCWidth
    Indexed = {1, 2}
    NotNull = {}
    TooBig <- NoRows
    Inputs <- FewInputs
    Sets <- FewSets
    NSlot = 2
    MaxBatch = 2
    MaxLog = 3
    MaxTime = 1
    MaxCrash = 2
    Faults = {"crash"}
INVARIANTS
    IndexKeysUnique
    LossBounded
