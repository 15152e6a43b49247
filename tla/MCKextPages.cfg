SPECIFICATION Spec
CONSTANTS
    Places <- MCPlaces
    Segment <- MCSegment
    Shift <- MCShift
    VmBase <- MCVmBase
    PageWords <- MCPageWords
    Align <- MCAlign
    ChainOffset <- MCChainOffset
    PageCount <- MCPageCount4
    None <- MCNone
    Jobs <- MCPagesJobs
    Kernel <- MCKernel
    Kpi <- MCKpi
INVARIANTS
    PointersResolved
