INIT Init
NEXT Next
CONSTANTS
    Parts = {"client", "otherCalls", "batching", "geofence", "config", "observer", "hal"}
    SessionIds = {i1, i2}
    FenceIds = {f1, f2}
    NiIds = {101}
    MaxSession = 2
    Modes = {"onFix", "onFull"}
    MaxOwed = 2
    MayFail = {"startTracking", "startBatching", "stopBatching", "updateTracking", "updateBatching", "getBatched", "resumeFence"}
    BatchClient = {c1}
    BatchOptions <- FourKinds
    MaxBatch = 2
    MaxAsked = 2
    MaxUps = 2
    MaxBatchUpdates = 1
    BatchFails = {"start"}
    SuspendsBusy = FALSE
    Width = 16
    FenceClient = {c1}
    MaxFence = 2
    MaxFenceCalls = 2
    MaxPerCall = 2
    MaxFenceQueue = 2
    MaxFenceUps = 1
    MaxPower = 2
    FenceRefused = {"modify", "resume"}
    Constellation = {"glo"}
    SvNumber = {1, 2}
    Blacklists <- SomeBlacklists
    SvTypes <- OneType
    Setting = {"tunc"}
    SettingValue = {"a"}
    CfgMay = {"config", "svConfig", "conf", "svTypes", "resetTypes", "setting", "band"}
    MaxCfgCalls = 2
    MaxCfgQueue = 6
    MaxCfgStarts = 1
    DataItemObserver = {"agps", "xtra"}
    DataItemId = {"NETWORKINFO", "TAC"}
    RequestedItems = {"TAC"}
    MaxItemValue = 2
    HidlVersion = {"1.0", "2.1"}
    ConfItem = {"assistanceServer", "gpsLock"}
    MaxFrames = 2
    MaxHalCalls = 3
    MaxCapabilities = 2
INVARIANTS ClientsTypeOK
            SessionsInStep SessionsAreBatched
           FencesTracked FenceCallsAnswered FenceAnswersHold
           ConfigKept RestartRestores
           ObserversServed HalServesClient DeadClientReleased
CHECK_DEADLOCK FALSE
