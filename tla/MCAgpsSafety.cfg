SPECIFICATION SysSpec
CONSTANTS
    Handle = {h1, h2}
    ReqType = {"SUPL", "WWAN_ANY"}
    WdsQuery = TRUE
    BadApn = TRUE
    EarlyRelease = {TRUE}
    MaxWds = 1
    MaxBacklog = 2
INVARIANTS SysTypeOK IInv SessionsTracked
PROPERTIES NobodyForgotten DataConnSpec
