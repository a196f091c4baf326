CONSTANTS
    rid = rid
    KeyCount = 5
    Rids = {rid}
    MaxKeys = 2
    MaxPages = 8
    Again = {3}
    Ends <- MCEnds
SPECIFICATION Spec
INVARIANTS BalancedOrdered ChainFollowsTree FindAnswers RangeAnswers NoneTwice
CHECK_DEADLOCK FALSE
