CONSTANTS
    c0 = c0
    c1 = c1
    t1 = t1
    t2 = t2
    None = None
    CPU <- TwoCpus
    BSP = c0
    NSlots = 2
    NPages = 14
    MaxCalls = 4
    Image <- TextAndStack
    Heap <- OneHeap
    Walk <- Walks
SPECIFICATION Spec
INVARIANTS Cr3Intact
CHECK_DEADLOCK FALSE
