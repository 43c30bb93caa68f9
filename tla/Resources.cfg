SPECIFICATION Spec
CONSTANTS
    Sites = {s1, s2}
    Requests = {r1, r2}
    Mixes <- MCMixes
    MaxBatch = 2
    MaxRequests = 3
    Proxies = {1, 2}
    Addresses = {d1, d2}
    CheckGroup = 1
    Accounts = {1}
    Outlooks = {1, 2}
    MaxNumbers = 3
    Nothing = Nothing
CHECK_DEADLOCK FALSE
INVARIANTS TypeOK CodeOfItsNumber IdentityOfItsOutlook ProxiesApart
SYMMETRY ResourceSymmetry
