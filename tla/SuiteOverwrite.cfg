\* Two runs that overlap in one output directory.
SPECIFICATION FairSpec
CONSTANTS
    NoValue = NoValue
    r1 = r1
    r2 = r2
    Runner = {r1, r2}
    NCases = 1
    GroundTruth <- MCGroundTruth
    Child <- MCChild
    AdapterOnly = {}
    Commanded = {1}
    MaxVersion = 2
    Reverting = TRUE
    Serial = FALSE
PROPERTY NeverOverwritten
CHECK_DEADLOCK FALSE
