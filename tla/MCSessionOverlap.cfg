SPECIFICATION Spec
CONSTANTS
    Runs <- MCRuns
    NoRun = none
    NoFile = none
    Files <- MCFiles
    MayOverlap = TRUE
    Starts = 2
INVARIANTS
    OnlyResultsDelivered
