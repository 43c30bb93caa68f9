SPECIFICATION Spec
CONSTANTS
    Agents = {a1}
    Handlers = {h1, h2}
    Sites = {s1}
    JobTypes = {"create_env"}
    ExecuteNow = FALSE
    MaxJobs = 1
    MaxSends = 2
    MaxRetries = 0
    MaxCancels = 1
    MaxEdits = 0
    MaxFaults = 0
    NoAgent = NoAgent
    NoHandler = NoHandler
    NoSite = NoSite
PROPERTIES CancelOnlyOpen
