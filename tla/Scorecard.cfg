SPECIFICATION Spec
CONSTANTS
    NoValue = NoValue
    Truth <- MCTruth
    Child <- MCChild
    MaxCases = 2
INVARIANTS
    TypeOK
    CleanExitMeansCleanPanels
    PanelsConserveCases
    OnlyEnvelopesAreScored
    CoverageListsPartition
    LabelsAreNotMeasurements
CHECK_DEADLOCK FALSE
