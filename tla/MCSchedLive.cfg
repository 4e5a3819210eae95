CONSTANTS
    c0 = c0
    c1 = c1
    None = None
    CPU <- OneCpu
    BSP = c0
    NSlots = 2
    MaxPid = 3
    MaxNest = 2
    Syscalls <- AllSyscalls
SPECIFICATION FairSpec
PROPERTIES RunnableRuns WaitReturns
