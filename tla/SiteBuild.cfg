SPECIFICATION FairSpec
CONSTANTS
    Modes = {"safe", "full_data"}
    RootItems = {"woo", "ctx"}
    OlderApps = {TRUE, FALSE}
    MaxFaults = 3
INVARIANT BuiltSiteWorks
PROPERTY BuildSettles
CHECK_DEADLOCK FALSE
