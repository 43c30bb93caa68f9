SPECIFICATION MCSpec
CONSTANTS
    wp = wp
    shop = shop
    Domains = {wp}
    Shopify = {}
    Addresses = {"old"}
    Runs = {1, 2}
    JobKinds = {"delete"}
    MaxItems = 2
    MaxFaults = 1
    MaxEdits = 0
INVARIANT NotFoundIsAbsent
CHECK_DEADLOCK FALSE
