SPECIFICATION FairSpec
CONSTANTS
    ide = ide
    ui = ui
    None = None
    Torn = Torn
    Failed = Failed
    Starters <- TwoStarters
    MaxDaemons = 5
    MaxCalls = 3
    MaxMishaps = 2
    Bounds <- TwoOfEach
INVARIANTS
    TypeOK
    SoleStarter
    OneDaemon
    InfoFindsDaemon
    AttachToTheSame
PROPERTY EnsureReturns
CHECK_DEADLOCK FALSE
