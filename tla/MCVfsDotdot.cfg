CONSTANTS
    p1 = p1
    p2 = p2
    f1 = f1
    f2 = f2
    f3 = f3
    None = None
    Procs <- TwoProcs
    InitProc = p1
    MAX_FDS = 3
    File <- ThreeFiles
    NCpu = 1
    MountCalls <- BootMounts
    Ext2Tree <- Tree
    Ext2Dirs = {2, 3, 4}
    DevNodes <- OneNode
    LongNames = {"long"}
    INITFS_MAX_DIRS = 1
    NPages = 27
    MaxSb = 3
    BlockSize = 4
    Ptrs = 2
    Size = 102
    Holes <- SomeHoles
    Dirents <- ADirectory
    DirentHeader = 2
    Unreadable <- SomeFail
    Counts = {1, 7, 110}
    Offsets = {0, 50, 252}
    U64 = 256
    BgdtBlocks = 2
    DEVFS_MAX_NODES = 3
    DevNames = {"null", "zero", "cons"}
    SectorSize = 2
    Sectors = 3
    FbSize = 5
    CtlLen = 3
    IoCounts = {1, 3}
    SeekArgs = {0, 3, 15}
    Word = 16
    U32 = 8
    MaxReg = 4
    MaxWrites = 2
    Paths <- OutsidePaths
    Parts = {"vfs"}
SPECIFICATION Spec
INVARIANTS MountRootsAlive
CHECK_DEADLOCK FALSE
