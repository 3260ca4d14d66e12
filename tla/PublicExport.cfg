SPECIFICATION Spec
CONSTANTS
    NoValue = NoValue
    Missing = Missing
    Torn = Torn
    Suites <- MCSuites
    Cases = 2
    Plans <- MCPlans
INVARIANTS
    TypeOK
    PublishedResultsAreDerived
    PublishedStreamsAreBound
    OneRunIsPublished
PROPERTIES
    GoodRunsAreExported
CHECK_DEADLOCK FALSE
