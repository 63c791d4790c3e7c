SPECIFICATION EdgeSpec
CONSTANTS
    EgStreams = {"s1", "s2"}
    EgAddrs = {"f1", "f2"}
    eg_max_flows = 2
    eg_fd_budget = 2
    TCP_EGRESS_RELAY_CHUNK = 2
    TCP_EGRESS_RELAY_BUDGET = 2
    EgCases <- MCEgCases
    h2_max_connections = 1
    h2_max_streams_per_conn = 2
    h2_max_buffered_body = 2
    H2Window = 2
    H2Cases <- MCH2Cases
    SnPeers = {"p1", "p2"}
    SnSnis <- MCSnis
    sn_max_tracked_conns = 1
    sn_max_pending_packets = 2
    sn_conn_timeout_sec = 1
    SnFragments = {1, 2}
    SnClock = 2
    SnCases <- MCSnCases
CHECK_DEADLOCK FALSE
INVARIANTS
    EgressIntact
    EgressPolled
    ResponseIntact
    H2Books
    RouterSound
PROPERTIES
    AbortsTheFailedFlow
    EgressProgress
    H2Progress
