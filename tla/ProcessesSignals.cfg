SPECIFICATION Spec
CHECK_DEADLOCK FALSE
CONSTANTS
    Procs = {1, 2, 3}
    None = None
    Tty = Tty
    Disk = Disk
    Uarea = Uarea
    Programs <- JobPrograms
    Killed = {9, 18, 19}
    Group = {3}
    Typed <- InterruptKey
    Caught = {1}
    Blockable = {1, 9}
    MaxForks = 1
    MaxSignals = 2
INVARIANTS
    TypeOK
    QueuesExact
    SignalSeen
    StopExact
    KinExact
    StopsReported
