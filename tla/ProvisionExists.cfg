SPECIFICATION Spec
CONSTANTS
    Tasks = {t1, t2}
    Sites = {s1}
    Limit = 2
    CleanModes = {FALSE}
    MaxOld = 0
    Events = {"cancel"}
    MaxEvents = 1
    NoTask = NoTask
    NoSite = NoSite
CHECK_DEADLOCK FALSE
PROPERTIES CreatedNotDowngraded
