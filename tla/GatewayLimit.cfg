SPECIFICATION Spec
CONSTANTS
    Tasks = {t1, t2}
    Sites = {s1, s2}
    Limit = 1
    MaxOld = 0
    MaxCancels = 0
    MaxFaults = 0
    NoTask = NoTask
    NoSite = NoSite
CHECK_DEADLOCK FALSE
INVARIANTS PermitsLimited
