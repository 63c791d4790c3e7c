----------------------------- MODULE MCPlatform -----------------------------
(***************************************************************************)
(* What surrounds the client core on its host, for TLC: the network        *)
(* monitors, the setup of the host, and the lanes a packet from the TUN    *)
(* device takes.  They share no state, so a behaviour drives one of them,  *)
(* over the cases below, and the other two stay in an initial state.       *)
(***************************************************************************)
EXTENDS NetMon, HostSetup, SenderLanes

VARIABLE part

MCNmCases ==
    {[platform |-> "linux", iface |-> <<"e">>, media |-> TRUE, changes |-> 3],
     [platform |-> "linux", iface |-> <<"e", "e">>, media |-> TRUE, changes |-> 2],
     [platform |-> "darwin", iface |-> <<"e">>, media |-> TRUE, changes |-> 3],
     [platform |-> "darwin", iface |-> <<"e">>, media |-> FALSE, changes |-> 2],
     [platform |-> "windows", iface |-> <<"e", "w">>, media |-> TRUE, changes |-> 2]}

\* Everything the client can be asked to manage.
HsAll == [platform |-> "linux", manage_routes |-> TRUE, kill_switch |-> TRUE, dns |-> TRUE,
          server_v6 |-> FALSE, gateway |-> TRUE, offload |-> TRUE, resolvectl |-> FALSE,
          n |-> 1, grows |-> FALSE, faults |-> 1]
HsDns == [HsAll EXCEPT !.manage_routes = FALSE, !.kill_switch = FALSE, !.offload = FALSE,
                       !.faults = 2]

MCHsCases ==
    {HsAll,
     [HsAll EXCEPT !.server_v6 = TRUE, !.gateway = FALSE, !.resolvectl = TRUE],
     [HsDns EXCEPT !.gateway = FALSE],
     [HsAll EXCEPT !.platform = "darwin", !.dns = FALSE, !.faults = 2],
     [HsDns EXCEPT !.platform = "darwin", !.n = 2],
     [HsDns EXCEPT !.platform = "darwin", !.grows = TRUE],
     [HsAll EXCEPT !.platform = "windows", !.faults = 2]}

\* Two flows that are reordered and one that is not, with room for one.
SlFlows == [side |-> "client", keys |-> {"f1", "f2", "g"}, plain |-> {"g"}, redundant |-> {},
            lens |-> 1..3, kinds |-> {"whole", "stray"}, max_flows |-> 1, udp_mss |-> 2,
            paths |-> 0, home |-> <<0, 1, 2, 3>>, sends |-> 3, time |-> 3,
            moves |-> 0, judged |-> FALSE]
\* Copies on two paths; the hash clusters around the end of the table.
SlCopies == [SlFlows EXCEPT !.keys = {}, !.plain = {}, !.redundant = {"r"}, !.lens = {1},
                            !.kinds = {"whole"}, !.paths = 2, !.home = <<7, 7, 0, 0, 6, 7>>,
                            !.time = 0]

MCSlCases ==
    {SlFlows,
     [SlFlows EXCEPT !.side = "server", !.keys = {"f1", "f2"}, !.plain = {}, !.lens = {1, 3},
                     !.kinds = {"whole", "stray", "ttl"}, !.time = 2],
     SlCopies,
     [SlCopies EXCEPT !.sends = 2, !.time = 1, !.judged = TRUE],
     [SlCopies EXCEPT !.sends = 2, !.udp_mss = 0, !.moves = 1]}

First(case, cases, p) == part # p => case = CHOOSE c \in cases : TRUE

PlatformInit ==
    /\ part \in {"monitor", "host", "lanes"}
    /\ NmInit /\ First(nm_case, NmCases, "monitor")
    /\ HsInit /\ First(hs_case, HsCases, "host")
    /\ SlInit /\ First(sl_case, SlCases, "lanes")

PlatformNext ==
    /\ UNCHANGED part
    /\ \/ part = "monitor" /\ NmNext /\ UNCHANGED <<hs_vars, sl_vars>>
       \/ part = "host" /\ HsNext /\ UNCHANGED <<nm_vars, sl_vars>>
       \/ part = "lanes" /\ SlNext /\ UNCHANGED <<nm_vars, hs_vars>>

\* The fairness holds of itself in the parts that are not driven: there is no
\* message, no tunnel and no process.
PlatformSpec ==
    /\ PlatformInit /\ [][PlatformNext]_<<part, nm_vars, hs_vars, sl_vars>>
    /\ NmFairness
    /\ HsFairness
=============================================================================
