SPECIFICATION FairSpec
CONSTANTS
    a = a
    b = b
    Ends = {a, b}
    Client = a
    Uses <- ClientUses
    Bytes <- ServerBytes
    Writes = {1, 2}
    Reads = {2}
    Iss <- Numbers
    IssIncr = 4
    Old <- OldSyn
    Modulus = 32
    Hiwat = 2
    MaxSeg = 2
    MaxShift = 3
    MaxFaults = 1
INVARIANTS
    TypeOK
    InStep
    
PROPERTIES
    StreamKept
    Arrives
CHECK_DEADLOCK FALSE
