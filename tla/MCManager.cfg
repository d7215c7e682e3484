SPECIFICATION Spec
CONSTANTS
    c1 = c1
    c2 = c2
    files = files
    web = web
    health = health
    None = None
    Servers <- OneServer
    StdioServers <- Stdio
    Callers <- TwoCallers
    Pinger = health
    MaxSessions = 4
SYMMETRY CallerSymmetry
INVARIANTS
    TypeOK
    SwapReplacesBad
    SessionsAccountedFor
    TreesAccountedFor
    RerunOnlyAfterLoss
PROPERTIES
    RetryUsesNewSession
    OnlyDeadReplaced
    ImplementsPool
CHECK_DEADLOCK FALSE
