SPECIFICATION FairSpec
CONSTANTS
    Words <- MCWords
    Names <- MCNames
    Kernel <- MCKernel
    Kpi <- MCKpi
    PageWords <- MCPageWords
    Reach <- MCReach
    KextText <- MCKextText
    FilesetText <- MCFilesetText
    Programs <- HooksPadPrograms
PROPERTIES
    HooksInvisible
