SPECIFICATION Spec
CONSTANTS
    NoValue = NoValue
    Malformed = Malformed
    REVIEWER_CONTRACT_KEYS <- MCKeys
    Values <- MCValues
    NestedValues <- MCNestedValues
    MaxEdits = 3
INVARIANTS
    TypeOK
    AcceptMeansTheClaimHolds
    RejectMeansTheClaimFails
    OmittedKeysAbstain
CHECK_DEADLOCK FALSE
