CONSTANTS
    PATH_RECREATE_DELAY = 1
    PATH_RECREATE_MAX_DELAY = 1
    PATH_RECREATE_MAX_RETRIES = 1
    PATH_STABLE_THRESHOLD = 1
    MaxPathId = 2
    MaxHandle = 3
    MQVPN_MAX_PATHS = 2
    Multipath = TRUE
    BackupFec = FALSE
    RequestServerScheduler = TRUE
    ReconnectEnable = TRUE
    RECONNECT_INTERVAL = 1
    RECONNECT_BACKOFF_MAX = 1
    HANDSHAKE_STALL_TIMEOUT = 1
    MaxAttempts = 0
SPECIFICATION Spec
INVARIANTS BindingMatchesXquic ClientSafe
PROPERTIES LegalTransitions KeepsTransportContract
