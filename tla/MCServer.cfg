SPECIFICATION Spec
CONSTANTS
    ConnIds = {c1, c2}
    NoConn = NoConn
    NoKey = NoKey
    StreamIds = {0, 1}
    MQVPN_ADDR_POOL_MAX = 3
    TotalHosts = 3
    Sources = {2, 3}
    max_clients = 2
    MaxScope = 2
    Names = {}
    Keys = {k1}
    auth_key = k1
    MQVPN_MAX_USERS = 1
    allow_client_scheduler = FALSE
    reorder_on = TRUE
    OtherRoles = {"UNKNOWN"}
SYMMETRY ServerSymmetry
INVARIANTS
    SessionInvariants
    PoolMatchesSessions
PROPERTIES
    OnlyOwnerEndsTunnel
    GenerationFence
CHECK_DEADLOCK FALSE
