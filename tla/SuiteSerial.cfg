\* Runs into the same directory, one after the other, while the identity
\* files are being replaced.  Without symmetry, which is unsound for liveness.
SPECIFICATION FairSpec
CONSTANTS
    NoValue = NoValue
    r1 = r1
    r2 = r2
    Runner = {r1, r2}
    NCases = 2
    GroundTruth <- MCGroundTruth
    Child <- MCChild
    AdapterOnly = {}
    Commanded = {1, 2}
    MaxVersion = 2
    Reverting = FALSE
    Serial = TRUE
INVARIANTS
    TypeOK
    PublishedRunIsCoherent
    EarlierCasesRanRecordedBytes
    RecordedIdentityExisted
PROPERTIES
    ImplementsEvidenceDirectory
    EveryRunEnds
CHECK_DEADLOCK FALSE
