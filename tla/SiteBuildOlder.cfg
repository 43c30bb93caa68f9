SPECIFICATION Spec
CONSTANTS
    Modes = {"safe"}
    RootItems = {}
    OlderApps = {TRUE}
    MaxFaults = 1
INVARIANT MuPluginInstalled
CHECK_DEADLOCK FALSE
