SPECIFICATION Spec
CONSTANTS
    NoValue = NoValue
    Torn = Torn
    Runner = {1}
    NDirs = 2
    Id = {"one", "two"}
    Content <- MCContent
    PlaceholderId <- FoldedId
    Args <- MCArgs
    MaxEdits = 1
INVARIANTS
    TypeOK
    
    
    DisplacementShows
    SummaryMatchesFiles
CHECK_DEADLOCK FALSE
