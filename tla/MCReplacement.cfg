SPECIFICATION Spec
CONSTANTS
    Places <- MCPlaces
    Ids <- MCIds
    Expected <- MCExpected
    Jobs <- MCJobs
INVARIANTS
    
    Replaced
