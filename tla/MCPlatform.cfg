CONSTANTS
    NmCases <- MCNmCases
    PATH_RECOVER_FAILURE_LIMIT = 2
    RESYNC_EVERY_N_TICKS = 2
    NmQueue = 2
    MaxSlots = 2
    HsCases <- MCHsCases
    HsRuns = 2
    HsTunnels = 2
    SlCases <- MCSlCases
    egress_idle_timeout = 1
    reset_mark_packets = 1
    RTX_CAP = 4
    RTX_LAG = 0
    RTX_ENTER_N = 2
    RTX_REENTER_N = 1
    MQVPN_PTB_RATE_LIMIT = 1
SPECIFICATION PlatformSpec
INVARIANTS NmSound HostRestored TunnelWhole DnsRecoverable StampedInOrder CopiesAccounted
PROPERTIES NmForCause NmSettles HsEnds
CHECK_DEADLOCK FALSE
