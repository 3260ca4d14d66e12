\* Every case, every set of product defects, up to two failing commands.
SPECIFICATION Spec
CONSTANTS
    NoValue = NoValue
    Truth <- MCTruth
    MaxFaults = 2
INVARIANTS
    TypeOK
    ScoredReadyIsAnAcceptance
    SoundProductIsCleared
    DefectIsCaught
    CreditIsEarned
    OnlyWholeScriptsAreScored
CHECK_DEADLOCK FALSE
