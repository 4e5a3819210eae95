CONSTANTS
    c0 = c0
    c1 = c1
    None = None
    CPU <- TwoCpus
    BSP = c0
    MAX_ORDER = 3
    Size <- Powers
    PAGE_SIZE = 2
    Regions <- ThreeRegions
    Requests <- UpTo3
SPECIFICATION Spec
INVARIANTS NoOverlap NoLeak Aligned Coalesced IInv
PROPERTIES RefinesPageAlloc
