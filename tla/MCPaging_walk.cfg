\* Either kind of collection, on either database.
CONSTANTS
    PageSize = 2
    Times <- SmallTimes
    MaxRows = 5
SPECIFICATION Spec
INVARIANTS
    WalkIsComplete
    NeverLeftBehind
PROPERTY MissedOnlyByStaleTotal
