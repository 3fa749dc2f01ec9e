SPECIFICATION FairSpec
CONSTANTS
    Procs = {p1}
    Bufs = {b1, b2}
    None = None
    FreeList = FreeList
    NFrag = 2
    BlockFrags = 1
    BasePages = 1
    Residual = 0
    Calls = {"bread", "breada", "overwrite", "alloc", "free", "geteblk", "bflush", "blkflush", "cooked"}
    IOErrors = {FALSE, TRUE}
INVARIANTS
    ErrorsContained
PROPERTIES
    CallsReturn
