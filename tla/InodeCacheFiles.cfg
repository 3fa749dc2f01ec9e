SPECIFICATION Spec
CHECK_DEADLOCK FALSE
CONSTANTS
    p1 = p1
    p2 = p2
    Procs = {p1, p2}
    Slots = {s1, s2}
    Dirs = {d1, d2}
    Names = {a}
    Files = {f1, f2}
    None = None
    Calls <- FilesCalls
    Failing = {"namei", "iread", "iupdat", "ifree", "ialloccg", "direnter", "dirremove"}
    MaxFail = 1
SYMMETRY Symmetric
INVARIANTS
    TypeOK
    TableExact
    LocksExact
    FoundAlive
    NamesSafe
    NoPanic
PROPERTIES
    FreedUnused
