INIT AdapterInit
NEXT AdapterNext
CONSTANTS
    Parts = {"tracking"}
    Client = {c1, c2}
    Options <- ThreeKinds
    Patient = FALSE
    DistanceSupported = TRUE
    Fails = {}
    MaxId = 2
    MaxUpdates = 1
    MaxEngineUps = 1
    MaxPower = 0
    MaxBacklog = 1
    Controller = {"c"}
    ConfLocks <- ConfChoices
    UpdateLocks <- UpdateChoices
    MaxCtrlCalls = 4
    MaxCtrlQueue = 2
    MaxModemStarts = 2
    MaskClient = {c1, c2}
    MaskCallbacks <- KindsOfCallbacks
    Devices <- SomeDevices
    MaxMaskCalls = 3
    MaxMaskStarts = 1
INVARIANTS NoGhostSession
SYMMETRY Symmetry
CHECK_DEADLOCK FALSE
