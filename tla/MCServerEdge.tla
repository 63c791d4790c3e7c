---------------------------- MODULE MCServerEdge ----------------------------
(***************************************************************************)
(* The three parts of the server beside the tunnel, for TLC: TCP egress,   *)
(* the HTTP/2 proxy and the SNI router.  They share no state, so a         *)
(* behaviour drives one of them, over the cases below, and the other two   *)
(* stay in an initial state.                                               *)
(***************************************************************************)
EXTENDS TcpEgress, H2Proxy, SniRouter

VARIABLE part

\* One flow with data both ways; one with a unit each way that may idle out; two
\* flows that open and fail.
EgOne == [streams |-> {"s1"}, opened |-> 1, body |-> 3, target |-> 3, idle_evict |-> FALSE]
EgIdle == [EgOne EXCEPT !.body = 1, !.target = 1, !.idle_evict = TRUE]
EgTwo == [streams |-> {"s1", "s2"}, opened |-> 2, body |-> 0, target |-> 0, idle_evict |-> FALSE]
MCEgCases == {EgOne, EgIdle, EgTwo}

\* One response of every kind of frame; two requests that share a connection; three
\* of two downstream connections, more than the backend connection takes at a time.
H2One == [addrs |-> <<{"a1"}>>, slots |-> {"c1"}, keys |-> <<"k">>, request |-> 1, response |-> 3,
          proxy_protocol |-> FALSE, frames |-> {"103", "H", "D", "T", "bad"}, rooms |-> 0..2,
          faults |-> TRUE]
H2Two == [addrs |-> <<{"a1", "a2"}, {"a1", "a2"}>>, slots |-> {"c1"}, keys |-> <<"k", "k">>,
          request |-> 0, response |-> 0, proxy_protocol |-> TRUE, frames |-> {"H"},
          rooms |-> {0, 2}, faults |-> TRUE]
H2Three == [H2Two EXCEPT !.addrs = <<{"a1"}, {"a2"}, {"a1", "a3"}>>, !.keys = <<"j", "k", "k">>,
                         !.proxy_protocol = FALSE, !.rooms = {2}, !.faults = FALSE]
MCH2Cases == {H2One, H2Two, H2Three}

\* A fallback client that reconnects with an allowed name, behind a server that
\* sends a Retry; two clients that compete for the one entry; a client of the
\* engine that reconnects with a name that is not served.
MCSnis == {<<"vpn", "ex">>, <<"*", "in">>}
SnOne == [sni |-> "p1" :> <<<<"web", "ex">>, <<"a", "in">>>>, packets |-> 4, ids |-> "same",
          pp |-> TRUE, refused |-> {1}]
SnTwo == [sni |-> "p1" :> <<<<"b", "a", "in">>>> @@ "p2" :> <<<<"vpn", "ex">>>>, packets |-> 3,
          ids |-> "noretry", pp |-> FALSE, refused |-> {}]
SnBack == [SnOne EXCEPT !.sni = "p1" :> <<<<"a", "in">>, <<"web", "ex">>>>, !.packets = 3]
MCSnCases == {SnOne, SnTwo, SnBack}

\* The fallback server takes another id after its Retry.
SnRetry == [SnOne EXCEPT !.ids = "fresh"]
MCSnRetry == {SnRetry}

Idle(case, cases, p) == part # p => case = CHOOSE c \in cases : TRUE

EdgeInit ==
    /\ part \in {"egress", "h2", "sni"}
    /\ EgressInit /\ Idle(eg_case, EgCases, "egress")
    /\ H2Init /\ Idle(h2_case, H2Cases, "h2")
    /\ SniInit /\ Idle(sn_case, SnCases, "sni")

EdgeNext ==
    /\ UNCHANGED part
    /\ \/ part = "egress" /\ EgressNext /\ UNCHANGED <<h2_vars, sn_vars>>
       \/ part = "h2" /\ H2Next /\ UNCHANGED <<eg_vars, sn_vars>>
       \/ part = "sni" /\ SniNext /\ UNCHANGED <<eg_vars, h2_vars>>

EdgeSpec ==
    /\ EdgeInit /\ [][EdgeNext]_<<part, eg_vars, h2_vars, sn_vars>>
    /\ EgressFairness
    /\ H2Fairness
=============================================================================
