SPECIFICATION MCFairSpec
ACTION_CONSTRAINT Within
CONSTANTS
    wp = wp
    shop = shop
    Domains = {wp, shop}
    Shopify = {shop}
    Addresses = {"old", "new"}
    Runs = {1, 2}
    JobKinds = {"dns", "ns", "redirect", "create", "delete"}
    MaxItems = 2
    MaxFaults = 1
    MaxEdits = 1
INVARIANT ResolvedIsReady
PROPERTY JobsSettle
CHECK_DEADLOCK FALSE
