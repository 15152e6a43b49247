SPECIFICATION Spec
CONSTANTS
    Places <- MCPlaces
    Segment <- MCSegment
    Shift <- MCShift
    VmBase <- MCVmBase
    PageWords <- MCPageWords
    Align <- MCAlign
    ChainOffset <- MCChainOffset
    PageCount <- MCPageCount
    None <- MCNone
    Jobs <- MCJobs
    Kernel <- MCKernel
    Kpi <- MCKpi
INVARIANTS
    PointersResolved
    CodeResolved
PROPERTIES
    LinksKext
