CONSTANTS
    c0 = c0
    c1 = c1
    None = None
    CPU <- TwoCpus
    BSP = c0
    NSlots = 3
    MaxPid = 4
    MaxNest = 2
    Syscalls <- AllSyscalls
SPECIFICATION Spec
INVARIANTS CurrentProc
