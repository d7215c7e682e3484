SPECIFICATION Spec
CONSTANTS
    a1 = a1
    a2 = a2
    ide1 = ide1
    main = main
    x = x
    y = y
    None = None
    Torn = Torn
    Garbled = Garbled
    Names <- TwoNames
    InitialConfig <- OnlyX
    HandConfigs <- XBroken
    Main = main
    Ides <- OneIde
    Edits <- SomeEdits
    Admins <- TwoAdmins
    MaxGens = 3
    MaxRequests = 2
    MaxHandEdits = 0
    MaxCrashes = 0
PROPERTY AcknowledgedEditIsLive
CHECK_DEADLOCK FALSE
