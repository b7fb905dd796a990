SPECIFICATION FairSpec
CONSTANTS
    r1 = r1
    r2 = r2
    Requests <- MCRequests
    MaxEdits = 1
    MaxRestarts = 1
    MaxReadErrors = 1
    Absent = Absent
    NotLoaded = NotLoaded
    Other = Other
INVARIANTS AlarmTypeOK InForceAfterReloads
PROPERTIES EventuallyInForce
