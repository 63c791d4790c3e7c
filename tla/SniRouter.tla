----------------------------- MODULE SniRouter -----------------------------
(***************************************************************************)
(* The SNI router in front of the server's QUIC engine                     *)
(* (src/src/sni_router.c): datagrams of a peer are held until the          *)
(* ClientHello of its QUIC connection is complete, then they and all later *)
(* ones go to the engine or, over a connected UDP socket, to the fallback  *)
(* server.  A datagram is a number of its peer; of its bytes the model     *)
(* keeps the packet type, the connection ids, the ClientHello fragments    *)
(* and whether the Initial keys derived from its DCID open it.  A server   *)
(* name is the sequence of its labels.  Time is a small clock.             *)
(***************************************************************************)
EXTENDS Integers, Sequences, FiniteSets

CONSTANTS
    SnPeers,                 \* client addresses
    SnSnis,                  \* allowed_snis: sequences of labels, "*" for a wildcard
    sn_max_tracked_conns,
    sn_max_pending_packets,
    sn_conn_timeout_sec,
    SnFragments,             \* fragments of a ClientHello
    SnClock,                 \* bound on the clock
    SnCases                  \* records of: the names a peer asks for, one for each of its
                             \* connections; the datagrams it sends; the ids the fallback
                             \* server takes; fallback_proxy_protocol; the datagrams whose
                             \* send fails

ASSUME SniAssumption ==
    /\ IsFiniteSet(SnPeers)
    /\ sn_max_tracked_conns \in Nat \ {0}
    /\ \A c \in SnCases : /\ DOMAIN c.sni \subseteq SnPeers /\ c.pp \in BOOLEAN
                          /\ c.ids \in {"same", "noretry", "fresh"}

VARIABLES
    sn_case,      \* the member of SnCases of this behaviour
    sn_conn,      \* conn_table: at most one entry for each peer
    sn_client,    \* the QUIC client at each peer, and its fallback server
    sn_out,       \* what left the router for each peer: [n, conn, to, pp]
    sn_now

sn_vars == <<sn_case, sn_conn, sn_client, sn_out, sn_now>>

NoEntry == [live |-> FALSE]

\* have_server_scid = 0
NoId == <<0, "none">>

\* `key` names the id the Initial keys come from, `dcid` the id in use.
NewClient(k) == [conns |-> k, key |-> "orig", dcid |-> "orig", sent |-> 0, lost |-> FALSE,
                 started |-> FALSE, server |-> "quiet"]

SniInit ==
    /\ sn_case \in SnCases
    /\ sn_conn = [p \in SnPeers |-> NoEntry]
    /\ sn_client = [p \in SnPeers |-> NewClient(1)]
    /\ sn_out = [p \in SnPeers |-> <<>>]
    /\ sn_now = 0

\* What the router and the network know of one peer.
Peer(p) == [conn |-> sn_conn[p], out |-> sn_out[p], client |-> sn_client[p]]

SnCur == [p \in SnPeers |-> Peer(p)]

SnCommit(at) ==
    /\ sn_conn' = [p \in SnPeers |-> at[p].conn]
    /\ sn_out' = [p \in SnPeers |-> at[p].out]
    /\ sn_client' = [p \in SnPeers |-> at[p].client]
    /\ UNCHANGED <<sn_case, sn_now>>

-----------------------------------------------------------------------------
(* Names *)

\* A wildcard stands for exactly one label.
sni_router_match(sni) ==
    \E pattern \in SnSnis :
        \/ pattern = sni
        \/ pattern[1] = "*" /\ Len(sni) = Len(pattern) /\ Tail(sni) = Tail(pattern)

Name(p, k) == sn_case.sni[p][k]

-----------------------------------------------------------------------------
(* Entries.  The router gives the entry of a client up at its limits and    *)
(* lets pass what it cannot read; `lost` remembers the client.              *)

Lost(s) == [s EXCEPT !.client.lost = TRUE]

Left(d, to, pp) == [n |-> d.n, conn |-> d.conn, to |-> to, pp |-> pp]

\* Sends datagrams, one after the other.  Opens the socket on the first use;
\* the first datagram that the socket takes carries the PROXY header.
fallback_send(s, ds) ==
    LET taken == {i \in DOMAIN ds : ds[i].n \notin sn_case.refused}
        pp(i) == sn_case.pp /\ ~s.conn.proxy_sent /\ \A j \in taken : i <= j
    IN [s EXCEPT !.out = @ \o [i \in DOMAIN ds |->
                                 IF i \in taken THEN Left(ds[i], "fallback", pp(i))
                                 ELSE Left(ds[i], "dropped", FALSE)],
                 !.conn.fd = @ \/ ds # <<>>,
                 !.conn.proxy_sent = @ \/ (sn_case.pp /\ taken # {})]

accept_packet(s, ds) ==
    [s EXCEPT !.out = @ \o [i \in DOMAIN ds |-> Left(ds[i], "engine", FALSE)]]

deliver_pending(s) ==
    LET sent == IF s.conn.decision = "ACCEPT" THEN accept_packet(s, s.conn.pending)
                ELSE fallback_send(s, s.conn.pending)
    IN [sent EXCEPT !.conn.pending = <<>>, !.conn.crypto = {}]

connection_remove(s) == [s EXCEPT !.conn = NoEntry]

\* A pending entry that is given up fails open: its datagrams go to the engine.
GiveUp(s) ==
    connection_remove(
        IF s.conn.decision = "PENDING"
        THEN deliver_pending([s EXCEPT !.conn.decision = "ACCEPT"]) ELSE s)

Entries(at) == {p \in SnPeers : at[p].conn.live}

\* The first entry of the smallest last_seen in table order: any of them here.
evict_oldest(s) == Lost(GiveUp(s))

Oldest(at) ==
    {p \in Entries(at) :
        \A o \in Entries(at) : at[p].conn.last_seen <= at[o].conn.last_seen}

connection_create(s, d) ==
    [s EXCEPT !.conn = [live |-> TRUE, decision |-> "PENDING", fd |-> FALSE,
                        proxy_sent |-> FALSE, last_seen |-> sn_now,
                        initial_dcid |-> d.dcid, server_scid |-> NoId,
                        crypto |-> {}, pending |-> <<>>]]

\* Too many datagrams, or one that does not open or parse: fail open.
accept_pending_and_current(s, d, current_is_pending) ==
    LET r == deliver_pending([s EXCEPT !.conn.decision = "ACCEPT"])
    IN IF current_is_pending THEN r ELSE accept_packet(r, <<d>>)

connection_matches_server_scid(c, d) ==
    c.decision = "FALLBACK" /\ c.server_scid # NoId /\ c.server_scid = d.dcid

-----------------------------------------------------------------------------
(* A datagram of a client *)

pending_append(s, d) ==
    [s EXCEPT !.conn.pending = Append(@, d), !.conn.last_seen = sn_now]

\* The other long header types, short headers and other versions do not parse.
parse_initial_header(d) == d.type = "initial"

\* An Initial opens with the keys of the id it carries iff that is the id its
\* sender took its own keys from.
decrypt_initial_with_state(d) == d.opens

\* Fragments come in any order and may overlap; each byte is marked.
collect_crypto_frames(s, d) == [s EXCEPT !.conn.crypto = @ \union d.frags]

\* The hello is there once its bytes are contiguous from the start.
client_hello_status(c) == c.crypto = SnFragments

\* The rest of sni_router_process for an Initial of an undecided connection:
\* hold it, open it, collect its fragments, decide once the hello is whole.
HoldAndDecide(s, p, d) ==
    LET held == pending_append(s, d)
        got == collect_crypto_frames(held, d)
        to == IF sni_router_match(Name(p, d.conn)) THEN "ACCEPT" ELSE "FALLBACK"
    IN IF Len(s.conn.pending) >= sn_max_pending_packets
       THEN accept_pending_and_current(Lost(s), d, FALSE)
       ELSE IF ~decrypt_initial_with_state(d) THEN accept_pending_and_current(held, d, TRUE)
       ELSE IF client_hello_status(got.conn) THEN deliver_pending([got EXCEPT !.conn.decision = to])
       ELSE got

starts_never(c, d) == FALSE

\* An Initial with another id is of another connection of this peer.
StartsAnew(c, d) ==
    c.live /\ parse_initial_header(d) /\ ~connection_matches_server_scid(c, d) /\ c.initial_dcid # d.dcid

\* The client sent d, and the router made s of what it knew of the peer.
Counted(s, d) ==
    [s EXCEPT !.client.sent = @ + 1, !.client.started = TRUE,
              !.client.server = IF @ = "retried" /\ parse_initial_header(d) THEN "tokened" ELSE @]

sni_router_process(p, d) ==
    LET c == sn_conn[p]
        initial == parse_initial_header(d)
        s == IF StartsAnew(c, d) THEN GiveUp(Peer(p)) ELSE Peer(p)
        seen == [s EXCEPT !.conn.last_seen = sn_now]
        at == [SnCur EXCEPT ![p] = s]
        commit(r) == SnCommit([at EXCEPT ![p] = Counted(r, d)])
        anew == HoldAndDecide(connection_create(s, d), p, d)
    IN CASE s.conn.live /\ c.decision = "ACCEPT" -> commit(accept_packet(seen, <<d>>))
         [] s.conn.live /\ c.decision = "FALLBACK" -> commit(fallback_send(seen, <<d>>))
         [] s.conn.live /\ c.decision = "PENDING" /\ ~initial ->
              commit(accept_pending_and_current(Lost(s), d, FALSE))
         [] s.conn.live /\ c.decision = "PENDING" /\ initial -> commit(HoldAndDecide(s, p, d))
         [] ~s.conn.live /\ ~initial -> commit(accept_packet(Lost(s), <<d>>))
         [] ~s.conn.live /\ initial ->
              IF Cardinality(Entries(at)) < sn_max_tracked_conns THEN commit(anew)
              ELSE \E o \in Oldest(at) :
                     SnCommit([at EXCEPT ![o] = evict_oldest(@), ![p] = Counted(anew, d)])

\* What a client may send: Initials with any part of its ClientHello and, after
\* the first one, packets of the other types.
ClientSends(p) ==
    LET cl == sn_client[p]
        Datagram(type, frags) == [n |-> cl.sent + 1, conn |-> cl.conns,
                                  dcid |-> <<cl.conns, cl.dcid>>, opens |-> cl.dcid = cl.key,
                                  type |-> type, frags |-> frags]
    IN /\ cl.sent < sn_case.packets
       /\ \/ \E frags \in SUBSET SnFragments : sni_router_process(p, Datagram("initial", frags))
          \/ cl.started /\ sni_router_process(p, Datagram("other", {}))

\* The peer opens a new connection from the same port.
ClientReopens(p) ==
    /\ sn_client[p].conns < Len(sn_case.sni[p])
    /\ SnCommit([SnCur EXCEPT ![p].client = [NewClient(@.conns + 1) EXCEPT !.sent = sn_client[p].sent]])

-----------------------------------------------------------------------------
(* The fallback server answers: a Retry first if it wants one, then an      *)
(* Initial.  The router learns the id the client will use from then on.     *)

\* The integrity tag of a Retry covers the first id the client used.
validate_retry(c, cl) == c.initial_dcid = <<cl.conns, "orig">>

sni_router_on_fd_readable(p, reply, arrives) ==
    LET cl == sn_client[p]
        scid == IF reply = "retry" \/ (cl.server = "tokened" /\ sn_case.ids = "same")
                THEN "retry" ELSE "server"
        learned == [Peer(p) EXCEPT
                      !.conn.last_seen = sn_now,
                      !.conn.server_scid =
                          IF @ = NoId /\ (reply = "initial" \/ validate_retry(sn_conn[p], cl))
                          THEN <<cl.conns, scid>> ELSE @]
        told == [learned EXCEPT !.client.dcid = scid,
                                !.client.key = IF reply = "retry" THEN scid ELSE @,
                                !.client.server = IF reply = "retry" THEN "retried"
                                                  ELSE "answered"]
    IN /\ sn_conn[p].live /\ sn_conn[p].fd /\ sn_conn[p].initial_dcid[1] = cl.conns
       /\ IF reply = "retry" THEN cl.server = "quiet" /\ sn_case.ids # "noretry"
          ELSE cl.server = (IF sn_case.ids = "noretry" THEN "quiet" ELSE "tokened")
       /\ SnCommit([SnCur EXCEPT ![p] = IF arrives THEN told ELSE learned])

\* An error on the socket ends the entry.
FallbackSocketFails(p) ==
    /\ sn_conn[p].live /\ sn_conn[p].fd
    /\ SnCommit([SnCur EXCEPT ![p] = Lost(connection_remove(@))])

\* The engine answers a connection that reached it.
EngineAnswers(p) ==
    LET cl == sn_client[p]
    IN /\ cl.server = "quiet"
       /\ \E i \in DOMAIN sn_out[p] : sn_out[p][i].conn = cl.conns /\ sn_out[p][i].to = "engine"
       /\ SnCommit([SnCur EXCEPT ![p].client.server = "answered", ![p].client.dcid = "server"])

sni_router_cleanup ==
    LET old == {p \in Entries(SnCur) : sn_conn[p].last_seen < sn_now - sn_conn_timeout_sec}
    IN /\ old # {}
       /\ SnCommit([p \in SnPeers |-> IF p \in old THEN Lost(GiveUp(Peer(p))) ELSE Peer(p)])

SnTimePasses ==
    /\ sn_now < SnClock
    /\ sn_now' = sn_now + 1
    /\ UNCHANGED <<sn_case, sn_conn, sn_client, sn_out>>

SniNext ==
    \/ \E p \in DOMAIN sn_case.sni :
         \/ ClientSends(p)
         \/ ClientReopens(p)
         \/ \E reply \in {"retry", "initial"}, arrives \in BOOLEAN :
               sni_router_on_fd_readable(p, reply, arrives)
         \/ FallbackSocketFails(p)
         \/ EngineAnswers(p)
    \/ sni_router_cleanup
    \/ SnTimePasses

SniSpec == SniInit /\ [][SniNext]_sn_vars

-----------------------------------------------------------------------------
(* Properties *)

\* Every datagram leaves the router (for the engine, for the fallback socket or
\* into a send that fails) exactly once and in the order it came, whatever
\* happens to the entry that holds it, and the table keeps its bound.
DeliveredOnce ==
    /\ Cardinality(Entries(SnCur)) <= sn_max_tracked_conns
    /\ \A p \in SnPeers :
         LET held == IF sn_conn[p].live THEN sn_conn[p].pending ELSE <<>>
             Numbers(s) == [i \in DOMAIN s |-> s[i].n]
         IN Numbers(sn_out[p]) \o Numbers(held) = [i \in 1..sn_client[p].sent |-> i]

\* The first datagram of a connection that reaches the fallback server carries
\* the PROXY header, and no other one does, as long as the router keeps the
\* connection's entry.
HeaderFirst ==
    \A p \in SnPeers : \A i \in DOMAIN sn_out[p] :
        LET o == sn_out[p][i]
            first == \A j \in 1..(i - 1) : sn_out[p][j].conn = o.conn => sn_out[p][j].to # "fallback"
        IN ~sn_client[p].lost /\ o.conn = sn_client[p].conns /\ o.to = "fallback" =>
              (o.pp <=> sn_case.pp /\ first)

\* A connection is routed as one, by its own server name: as long as the router
\* did not give its entry up at a limit, its datagrams go to the fallback server
\* when the name is not served and to the engine when it is.
RoutedAsOne ==
    \A p \in SnPeers : \A i \in DOMAIN sn_out[p] :
        LET o == sn_out[p][i]
        IN ~sn_client[p].lost /\ o.conn = sn_client[p].conns =>
              (o.to = "engine" <=> sni_router_match(Name(p, o.conn)))

\* The router loses, repeats and reorders nothing, and routes whole connections.
RouterSound == DeliveredOnce /\ HeaderFirst /\ RoutedAsOne

\* A connection that reached the fallback server stays on its socket when the
\* client changes the id it sends to.
FallbackSticks ==
    \A p \in SnPeers : \A i, j \in DOMAIN sn_out[p] :
        LET k == sn_client[p].conns
        IN ~sn_client[p].lost /\ i < j /\ sn_out[p][i].conn = k /\ sn_out[p][i].to = "fallback" =>
              sn_out[p][j].to # "engine"
=============================================================================
