SPECIFICATION FairSpec
ACTION_CONSTRAINT Within
CONSTANTS
    Products = {p1, p2}
    WooSites = {w1}
    ShopifySites = {f1}
    Unparsable = {}
    Importers = {1, 2}
    ImportCount = 1
    MaxConcurrent = 1
    MaxFaults = 1
    MaxCopies = 2
    Sources = {u1}
    Collectors = {1, 2}
    PageLimit = 1
    Limits = {1}
    MaxEdits = 1
    MaxRuns = 2
    NoSite = NoSite
CHECK_DEADLOCK FALSE
INVARIANTS SuccessIsOnShop CountedOnce
PROPERTY JobsSettle
