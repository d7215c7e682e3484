SPECIFICATION Spec
CONSTANTS
    c1 = c1
    c2 = c2
    files = files
    web = web
    health = health
    None = None
    Servers <- OneServer
    StdioServers <- Stdio
    Callers <- OneCaller
    Pinger = health
    MaxSessions = 3
INVARIANT StaysClosed
CHECK_DEADLOCK FALSE
