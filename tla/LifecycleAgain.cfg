SPECIFICATION MCSpec
CONSTANTS
    wp = wp
    shop = shop
    Domains = {shop}
    Shopify = {shop}
    Addresses = {"old"}
    Runs = {1, 2}
    JobKinds = {"dns"}
    MaxItems = 2
    MaxFaults = 0
    MaxEdits = 0
INVARIANT FaultlessRunResolves
CHECK_DEADLOCK FALSE
