SPECIFICATION Spec
CONSTANTS
    NoValue = NoValue
    Malformed = Malformed
    REVIEWER_CONTRACT_KEYS <- MCKeys
    Values <- MCValues
    NestedValues <- MCNestedValues
    MaxEdits = 1
INVARIANT ReuseAcrossAChangeIsRejected
CHECK_DEADLOCK FALSE
