SPECIFICATION FairSpec
ACTION_CONSTRAINT Within
CONSTANTS
    Tasks = {t1, t2}
    Sites = {s1}
    Limit = 1
    MaxOld = 1
    MaxCancels = 1
    MaxFaults = 2
    NoTask = NoTask
    NoSite = NoSite
CHECK_DEADLOCK FALSE
INVARIANTS TypeOK ExclusiveDeploy GatewaySiteRecorded RunningHasTask
PROPERTIES AcceptedSettles
