SPECIFICATION FairSpec
CONSTANTS
    NULL = NULL
    NoRow = NoRow
    Column <- MCColumn
    Value <- MCValue
    Typed <- MCTyped
    KeyOf <- MCKeyOf
    Default <- MCDefault
    Width <- MCWidth
    Indexed = {1, 2}
    NotNull = {}
    TooBig <- MCTooBig
    Inputs <- MCInputs
    Sets <- MCSets
    NSlot = 3
    MaxBatch = 3
    MaxLog = 3
    MaxTime = 1
    MaxCrash = 0
    Faults = {"revert"}
    MinInt = 0
    MaxInt = 2
    KeyLen = 2
    MaxString <- MCMaxString
    Constant <- MCConstant
INVARIANTS
    TypeOK
    SlotsSound
    IndexAgrees
    InsertAtomic
    TimeTravel
    RevertRestores
    IntAnswers
    StringAnswers
    MismatchAnswers
PROPERTIES
    StatementEnds
