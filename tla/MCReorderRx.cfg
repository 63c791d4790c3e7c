\* One flow here; the second instance is in the module.
SPECIFICATION EngineSpec
CONSTANTS
    k1 = k1
    k2 = k2
    off = off
    Keys = {k1}
    W = 2
    C = 4
    Wait <- MCWait
    Cap <- MCCap
    MaxSeq = 5
    Lens = {1, 2}
    small_packet_threshold_bytes = 2
    max_buffer_bytes_per_flow = 4
    global_max_buffer_bytes = 9
    classify_window = 3
    ack_demote_max_large_packets = 0
    eval_force_no_demotion = FALSE
    reset_idle_grace = 1
    ingress_idle_timeout = 3
    max_flows = 0
    MaxAge = 5
CHECK_DEADLOCK FALSE
INVARIANTS
    EngineSound
    ResidenceBounded
PROPERTIES
    DeliversInOrder
    NothingLost
