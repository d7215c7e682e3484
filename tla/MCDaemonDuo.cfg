SPECIFICATION Spec
CONSTANTS
    a1 = a1
    a2 = a2
    ide1 = ide1
    main = main
    x = x
    y = y
    None = None
    Torn = Torn
    Garbled = Garbled
    Names <- TwoNames
    InitialConfig <- OnlyX
    HandConfigs <- XBroken
    Main = main
    Ides <- NoIde
    Edits <- SomeEdits
    Admins <- TwoAdmins
    MaxGens = 3
    MaxRequests = 2
    MaxHandEdits = 1
    MaxCrashes = 0
SYMMETRY AdminSymmetry
INVARIANTS
    LiveManagerOpen
    ManagersAccountedFor
    LiveConfigConnects
CHECK_DEADLOCK FALSE
