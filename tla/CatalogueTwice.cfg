SPECIFICATION Spec
ACTION_CONSTRAINT Within
CONSTANTS
    Products = {p1}
    WooSites = {w1}
    ShopifySites = {f1}
    Unparsable = {}
    Importers = {1, 2}
    ImportCount = 1
    MaxConcurrent = 1
    MaxFaults = 0
    MaxCopies = 2
    Sources = {u1}
    Collectors = {1, 2}
    PageLimit = 1
    Limits = {1}
    MaxEdits = 0
    MaxRuns = 2
    NoSite = NoSite
CHECK_DEADLOCK FALSE
INVARIANT OncePerSite
