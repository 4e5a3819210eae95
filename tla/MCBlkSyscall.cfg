CONSTANTS
    c0 = c0
    c1 = c1
    s0 = s0
    s1 = s1
    t1 = t1
    t2 = t2
    None = None
    Callers <- OneCpu
    BSP = c0
    Setups <- AhciMasked
    Slots <- TwoSlots
    MaxReqs = 2
    RingCpus <- OneCpu
    KbdCpu = c0
    Cap = 3
    U32 = 16
    MaxByte = 9
    MaxRune = 4
    OutCap <- SmallAndLarge
    Keys <- FiveKeys
    Packets <- TwoPackets
    ResetAnswers <- BothAnswers
    Burst = 2
    MaxKeys = 3
    MaxEarly = 1
    MaxPackets = 1
    MaxCtl = 1
    Cols = 2
    Rows = 2
    NParams = 3
    ParamWidth = 128
    Texts <- ManyTexts
    MaxTexts = 5
    Tasks <- TwoTasks
    FirstTask = t1
    Cores <- TwoCpus
    NoTask = None
    MaxValue = 2
    PAGE_SIZE = 16
    WordSize = 2
    FileSize = 30
    HeaderSize = 28
    Jobs <- ManyJobs
    StackBase = 96
    Machines <- ManyMachines
    MAX_CPUS = 3
    U8 = 4
    Parts = {"blk"}
SPECIFICATION FairSpec
PROPERTIES SubmitReturns
CHECK_DEADLOCK FALSE
