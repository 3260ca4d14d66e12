\* Two observations, one after the other, either of which may die anywhere.
SPECIFICATION Spec
CONSTANTS
    NoValue = NoValue
    Torn = Torn
    Runner = {1, 2}
    NDirs = 1
    Id = {"one"}
    Content <- MCContent
    PlaceholderId <- OneId
    Args <- MCArgs
    MaxEdits = 1
    Serial = TRUE
INVARIANT MeasuredOutcomesAreOwn
CHECK_DEADLOCK FALSE
