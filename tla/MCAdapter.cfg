INIT AdapterInit
NEXT AdapterNext
CONSTANTS
    Parts = {"tracking", "control", "mask"}
    Client = {c1, c2}
    Options <- ThreeKinds
    Patient = TRUE
    DistanceSupported = TRUE
    Fails = {"startDistance"}
    MaxId = 2
    MaxUpdates = 1
    MaxEngineUps = 2
    MaxPower = 2
    MaxBacklog = 1
    Controller = {"c"}
    ConfLocks <- ConfChoices
    UpdateLocks <- UpdateChoices
    MaxCtrlCalls = 4
    MaxCtrlQueue = 2
    MaxModemStarts = 2
    MaskClient = {c1, c2}
    MaskCallbacks <- KindsOfCallbacks
    Devices <- SomeDevices
    MaxMaskCalls = 3
    MaxMaskStarts = 1
INVARIANTS AdapterTypeOK EngineServesSessions SessionsAsTold EveryCallAnswered LockAgreed ModemReports
SYMMETRY Symmetry
CHECK_DEADLOCK FALSE
