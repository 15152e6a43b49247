SPECIFICATION Spec
CONSTANTS
    FileSize <- MCFileSize
    Jobs <- MCJobs
INVARIANTS
    OnlyVictimWritten
    NothingLeft
    HeaderInPlace
    SectionsInPlace
    ZeroFillIsZero
