SPECIFICATION FairSpec
CONSTANTS
    Events = {e1, e2}
    MaxTime = 3
    NCallout = 3
    MaxLate = 2
INVARIANTS
    TypeOK
PROPERTIES
    OnTime
    TimeoutsRun
