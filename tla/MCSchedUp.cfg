CONSTANTS
    c0 = c0
    c1 = c1
    None = None
    CPU <- OneCpu
    BSP = c0
    NSlots = 3
    MaxPid = 4
    MaxNest = 3
    Syscalls <- AllSyscalls
SPECIFICATION Spec
INVARIANTS TypeOK IInv NoPanic
PROPERTIES ReapedByParent
