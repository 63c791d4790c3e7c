\* The instances of MCTcpLane, for what the lane's teardown says of itself.
SPECIFICATION LaneSpec
CONSTANTS
    Keys = {"k1"}
    Isns = {1}
    ReqIds = {1}
    tcp_max_flows = 1
    RAW_MARKER_CAP = 0
    CLOSING_CAP = 1
    tcp_idle_timeout = 0
    CLOSING_GRACE = 0
    BP_HIGH_WATER = 2
    BP_LOW_WATER = 0
    TCP_WND = 3
    TCP_SND_BUF = 1
    XqcBuffer = 3
    MaxUp = 2
    MaxDown = 2
INVARIANT
    TornDownOnce
