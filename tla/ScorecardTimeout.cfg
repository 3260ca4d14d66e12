SPECIFICATION Spec
CONSTANTS
    NoValue = NoValue
    Truth <- MCTruth
    Child <- MCChild
    MaxCases = 1
INVARIANT TimedOutIsNeverReady
CHECK_DEADLOCK FALSE
