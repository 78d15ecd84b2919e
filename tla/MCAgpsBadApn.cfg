SPECIFICATION FairModemSpec
CONSTANTS
    Handle = {h1, h2}
    ReqType = {"SUPL", "WWAN_ANY"}
    WdsQuery = FALSE
    BadApn = TRUE
    EarlyRelease = {FALSE}
    MaxWds = 0
    MaxBacklog = 2
PROPERTIES RequestAnswered
