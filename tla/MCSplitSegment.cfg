SPECIFICATION Spec
CONSTANTS
    Group <- MCGroup
    Width <- MCWidth
    Kinds <- MCKinds
    Jobs <- MCJobs
INVARIANTS
    ListsParsed
    RefusalsJustified
    NumbersExact
    ResultBounded
