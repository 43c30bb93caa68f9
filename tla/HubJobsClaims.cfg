SPECIFICATION Spec
CONSTANTS
    Agents = {a1, a2}
    Handlers = {h1, h2, h3}
    Sites = {s1}
    JobTypes = {"create_env"}
    ExecuteNow = FALSE
    MaxJobs = 1
    MaxSends = 2
    MaxRetries = 1
    MaxCancels = 1
    MaxEdits = 0
    MaxFaults = 1
    NoAgent = NoAgent
    NoHandler = NoHandler
    NoSite = NoSite
SYMMETRY Symmetry
INVARIANTS TypeOK ClaimExclusive OutcomeOncePerQueueing RunningHasOwner
PROPERTIES SettledUntilRetried ImplementsLedger
