SPECIFICATION SysSpec
CONSTANTS
    Handle = {h1, h2}
    ReqType = {"SUPL", "WWAN_ANY"}
    WdsQuery = FALSE
    BadApn = FALSE
    EarlyRelease = {TRUE}
    MaxWds = 0
    MaxBacklog = 4
SYMMETRY HandleSymmetry
INVARIANTS GrantMeansConnection
