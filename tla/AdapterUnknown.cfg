\* The same, for what the adapter says of unknown output.
SPECIFICATION Spec
CONSTANTS
    NoValue = NoValue
    Truth <- MCTruth
    MaxFaults = 2
INVARIANT UnknownOutputIsNeverScored
CHECK_DEADLOCK FALSE
