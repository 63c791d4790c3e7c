----------------------------- MODULE MCTcpLane -----------------------------
(***************************************************************************)
(* TcpLane for TLC, in four instances that share a run: the relay of one   *)
(* flow both ways and a longer uplink alone, under fairness; the table     *)
(* with two 5-tuples whose flows, each with a request, are evicted and     *)
(* torn down from every side; and two 5-tuples that share a request, with  *)
(* reused ports and idle timeouts.                                         *)
(***************************************************************************)
EXTENDS TcpLane

VARIABLE instance

U == INSTANCE TcpLane WITH MaxUp <- 3, MaxDown <- 0

T == INSTANCE TcpLane WITH
         Keys <- {"k1", "k2"}, ReqIds <- {1, 2}, tcp_max_flows <- 2,
         MaxUp <- 0, MaxDown <- 0

I == INSTANCE TcpLane WITH
         Keys <- {"k1", "k2"}, Isns <- {1, 2}, tcp_max_flows <- 2,
         RAW_MARKER_CAP <- 1, tcp_idle_timeout <- 1, CLOSING_GRACE <- 1, MaxUp <- 0,
         MaxDown <- 0

LaneInit ==
    \/ instance = "relay" /\ Init
    \/ instance = "uplink" /\ U!Init
    \/ instance = "table" /\ T!Init
    \/ instance = "idle" /\ I!Init

LaneNext ==
    /\ UNCHANGED instance
    /\ \/ instance = "relay" /\ Next
       \/ instance = "uplink" /\ U!Next
       \/ instance = "table" /\ T!Next
       \/ instance = "idle" /\ I!Next

relaying == instance \in {"relay", "uplink"}

\* Fairness of TcpLane, for the instances that relay: the clock moves on after a
\* sweep and a sweep that is due is done.
LaneSpec ==
    /\ LaneInit /\ [][LaneNext]_<<vars, instance>>
    /\ []<>~(relaying /\ unsent > 0) \/ []<><<xqc_sends>>_vars
    /\ []<>~(relaying /\ swept)
    /\ []<>~(relaying /\ sweep_due)
    /\ \A r \in ReqIds :
          []<>~(relaying /\ write_due(r)) \/ []<><<cb_request_write(r, "none")>>_vars
    /\ \A k \in Keys :
          []<>~(relaying /\ ack_due(k)) \/ []<><<mqvpn_tcp_lane_on_lwip_sent(k, 1, "none")>>_vars
    /\ <>[]~(relaying /\ low_memory)

\* No byte of a relayed flow is lost, repeated or reordered in either direction.
Relayed == CASE instance = "relay" -> RelayIntact
             [] instance = "uplink" -> U!RelayIntact
             [] instance = "table" -> T!RelayIntact
             [] instance = "idle" -> I!RelayIntact

\* Flows, pcbs and requests point at each other and are counted, in every instance,
\* as long as no close notify ran inside a teardown of its own flow (TornDownOnce).
LaneSound ==
    ~freed => CASE instance = "relay" -> NothingDangles
                [] instance = "uplink" -> U!NothingDangles
                [] instance = "table" -> T!NothingDangles
                [] instance = "idle" -> I!NothingDangles

\* Neither direction of the relayed flow stalls.
RelayGoesOn ==
    \A k \in Keys :
        LET up == relaying /\ flows[k].state = "ACTIVE"
        IN  /\ (up /\ flows[k].withheld) ~> ~(up /\ flows[k].withheld)
            /\ (up /\ flows[k].tcp_fin_seen) ~> (~up \/ flows[k].fin_sent)
            /\ (up /\ flows[k].paused) ~> ~flows[k].paused
            /\ (up /\ flows[k].req # 0 /\ reqs[flows[k].req].fin) ~> (~up \/ flows[k].fin_received)
=============================================================================
