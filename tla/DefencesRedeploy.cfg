SPECIFICATION DefencesSpec
CONSTANTS
    Runs = {r1, r2}
    ServerNameIsDomain = TRUE
    Workers = {w1, w2, w3}
    MaxRoutes = 3
CHECK_DEADLOCK FALSE
SYMMETRY Symmetry
INVARIANTS RedeployAccepted
