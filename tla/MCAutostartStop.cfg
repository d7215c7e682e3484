SPECIFICATION Spec
CONSTANTS
    ide = ide
    ui = ui
    None = None
    Torn = Torn
    Failed = Failed
    Starters <- TwoStarters
    MaxDaemons = 4
    MaxCalls = 3
    MaxMishaps = 2
    Bounds <- OneStop
INVARIANT ServingIsFindable
CHECK_DEADLOCK FALSE
