SPECIFICATION Spec
CONSTANTS
    Procs = {p1}
    Bufs = {b1, b2}
    None = None
    FreeList = FreeList
    NFrag = 3
    BlockFrags = 3
    BasePages = 3
    Residual = 0
    Calls = {"bread", "breada", "overwrite", "alloc", "extend", "move", "free", "geteblk", "bflush", "blkflush"}
    IOErrors = {FALSE}
SYMMETRY Symmetric
INVARIANTS
    ReadsLatest
PROPERTIES
    FlushReachesDisk
