SPECIFICATION FairSpec
CONSTANTS
    Seg <- MCSeg
    SegOffset <- MCSegOffset
    PageCount <- MCPageCount
    PageSize <- MCPageSize
    NextLimit <- MCNextLimit
    FileSize <- MCFileSize
    Overrun <- MCOverrun
    KextNext <- MCKextNext
    Layouts <- MCLayouts
INVARIANTS
    VictimCleared
