SPECIFICATION Spec
CONSTANTS
    NULL = NULL
    NoRow = NoRow
    Column <- MCColumn
    Value <- MCValue
    Typed <- MCTyped
    KeyOf <- MCKeyOf
    Default <- MCDefault
    Width <- MCWidth
    Indexed = {1, 2}
    NotNull = {}
    TooBig <- MCTooBig
    Inputs <- MCInputs
    Sets <- MCSets
    NSlot = 1
    MaxBatch = 1
    MaxLog = 1
    MaxTime = 0
    MaxCrash = 0
    Faults = {}
    MinInt = 0
    MaxInt = 2
    KeyLen = 2
    MaxString <- MCMaxString
    Constant <- MCConstant
INVARIANTS
    GreaterAnswers
