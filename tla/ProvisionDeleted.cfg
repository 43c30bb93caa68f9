SPECIFICATION Spec
CONSTANTS
    Tasks = {t1, t2}
    Sites = {s1}
    Limit = 2
    CleanModes = {TRUE, FALSE}
    MaxOld = 0
    Events = {"delete"}
    MaxEvents = 1
    NoTask = NoTask
    NoSite = NoSite
CHECK_DEADLOCK FALSE
PROPERTIES DeletedStays
