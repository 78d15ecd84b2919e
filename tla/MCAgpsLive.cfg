SPECIFICATION FairModemSpec
CONSTANTS
    Handle = {h1, h2}
    ReqType = {"SUPL", "WWAN_ANY"}
    WdsQuery = FALSE
    BadApn = FALSE
    EarlyRelease = {FALSE, TRUE}
    MaxWds = 0
    MaxBacklog = 2
INVARIANTS OrderlyConnections
PROPERTIES HandlesAnswered
