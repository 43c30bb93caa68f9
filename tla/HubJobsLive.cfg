SPECIFICATION FairSpec
ACTION_CONSTRAINT Within
CONSTANTS
    Agents = {a1}
    Handlers = {h1, h2}
    Sites = {s1}
    JobTypes = {"create_env", "create_account"}
    ExecuteNow = TRUE
    MaxJobs = 3
    MaxSends = 1
    MaxRetries = 1
    MaxCancels = 0
    MaxEdits = 1
    MaxFaults = 0
    NoAgent = NoAgent
    NoHandler = NoHandler
    NoSite = NoSite
INVARIANTS OpSuccessBacked SiteIdsBacked
PROPERTIES PendingIsTaken RunningIsSettled
