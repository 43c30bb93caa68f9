SPECIFICATION Spec
SYMMETRY ProcSymmetry
CONSTANTS
    Procs = {p1, p2}
    NoOne = NoOne
    Gone = Gone
    Versions = {1, 2}
    Menus <- MCMenus
    Root = "root"
    Parent <- MCParent
    Declared <- MCDeclared
    Apis = {"claim", "site", "feeds"}
    Routes <- MCRoutes
    Prefixed <- MCPrefixed
    AgentApis = {"claim"}
    Columns = {"code"}
    Providers = {"woo"}
    Configs = {"theme"}
    Reset = FALSE
    MaxStarts = 3
    MaxFaults = 1
    MaxEdits = 1
INVARIANT MarkedIsSynchronised
CHECK_DEADLOCK FALSE
