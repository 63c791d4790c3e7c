SPECIFICATION FairSpec
CONSTANTS
    ConnIds = {c1, c2}
    NoConn = NoConn
    NoKey = NoKey
    StreamIds = {0}
    MQVPN_ADDR_POOL_MAX = 3
    TotalHosts = 6
    Sources = {2}
    max_clients = 2
    MaxScope = 2
    Names = {u1, u2}
    Keys = {k1}
    auth_key = NoKey
    MQVPN_MAX_USERS = 2
    allow_client_scheduler = TRUE
    reorder_on = FALSE
    OtherRoles = {}
INVARIANTS
    AdmissionSound
PROPERTIES
    RevokedLeaves
CHECK_DEADLOCK FALSE
