CONSTANTS
    PATH_RECREATE_DELAY = 1
    PATH_RECREATE_MAX_DELAY = 2
    PATH_RECREATE_MAX_RETRIES = 3
    PATH_STABLE_THRESHOLD = 2
    MaxPathId = 1
    MaxHandle = 2
    MQVPN_MAX_PATHS = 1
    Multipath = TRUE
    BackupFec = TRUE
    RequestServerScheduler = TRUE
    ReconnectEnable = TRUE
    RECONNECT_INTERVAL = 1
    RECONNECT_BACKOFF_MAX = 2
    HANDSHAKE_STALL_TIMEOUT = 1
    MaxAttempts = 1
SPECIFICATION LiveSpec
PROPERTIES HandshakeEnds ReconnectAttempted RetryConcludes FlappingIsBounded RotationReachesAll
