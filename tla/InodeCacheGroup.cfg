SPECIFICATION Spec
CHECK_DEADLOCK FALSE
CONSTANTS
    p1 = p1
    p2 = p2
    Procs = {p1, p2}
    Slots = {s1, s2}
    Dirs = {d1, d2}
    Names = {a}
    Files = {f1}
    None = None
    Calls <- GroupCalls
    Failing = {}
    MaxFail = 0
INVARIANTS
    GroupReleased
