SPECIFICATION FairSpec
ACTION_CONSTRAINT Within
CONSTANTS
    Tasks = {t1, t2}
    Sites = {s1}
    Limit = 2
    CleanModes = {TRUE, FALSE}
    MaxOld = 1
    Events = {"cancel", "delete", "fault"}
    MaxEvents = 1
    NoTask = NoTask
    NoSite = NoSite
CHECK_DEADLOCK FALSE
INVARIANTS TypeOK ExclusiveProvision RunningHasTask CreatedIsOnPanel
PROPERTIES SuccessMeansCreated AcceptedSettles
