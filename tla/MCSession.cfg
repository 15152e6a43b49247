SPECIFICATION Spec
CONSTANTS
    Runs <- MCRuns
    NoRun = none
    NoFile = none
    Files <- MCFiles
    MayOverlap = FALSE
    Starts = 6
INVARIANTS
    EditsOwnCopy
    OnlyResultsDelivered
