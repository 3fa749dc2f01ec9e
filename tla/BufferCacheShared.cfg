SPECIFICATION Spec
CONSTANTS
    Procs = {p1, p2}
    Bufs = {b1, b2, b3}
    None = None
    FreeList = FreeList
    NFrag = 2
    BlockFrags = 2
    BasePages = 2
    Residual = 0
    Calls = {"bread", "breada", "overwrite", "alloc", "extend", "move", "free", "geteblk", "bflush"}
    IOErrors = {FALSE}
SYMMETRY Symmetric
INVARIANTS
    Ownership
    NoneStuck
    ContentsSafe
    OneBufferPerBlock
