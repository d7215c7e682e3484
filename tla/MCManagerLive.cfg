SPECIFICATION FairSpec
CONSTANTS
    c1 = c1
    c2 = c2
    files = files
    web = web
    health = health
    None = None
    Servers <- TwoServers
    StdioServers <- Stdio
    Callers <- OneCaller
    Pinger = health
    MaxSessions = 3
INVARIANTS
    FailedNewManagerLeavesNothing
PROPERTIES
    CloseReleasesAll
    CallReturns
    DeadIsReplaced
CHECK_DEADLOCK FALSE
