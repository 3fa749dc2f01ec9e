SPECIFICATION FairSpec
CHECK_DEADLOCK FALSE
CONSTANTS
    Procs = {1, 2, 3}
    None = None
    Tty = Tty
    Disk = Disk
    Uarea = Uarea
    Programs <- LivePrograms
    Killed = {9, 18}
    Group = {3}
    Typed = {}
    Caught = {}
    Blockable = {}
    MaxForks = 2
    MaxSignals = 2
PROPERTIES
    KillKills
    ZombiesBuried
