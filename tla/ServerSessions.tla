--------------------------- MODULE ServerSessions ---------------------------
(***************************************************************************)
(* The server's connections, CONNECT-IP tunnels and session table          *)
(* (src/src/mqvpn_server.c).  Everything runs on the tick thread; an       *)
(* action is one callback of the QUIC engine, or one call of the public    *)
(* API, run to completion.                                                 *)
(*                                                                         *)
(* A failed request handler returns -1 into the engine, which closes the   *)
(* whole H3 connection; so do a peer's close, an idle timeout and          *)
(* mqvpn_server_remove_user.  A connection in "closing" may still see      *)
(* callbacks for its other streams until its streams and then itself are   *)
(* closed.                                                                 *)
(***************************************************************************)
EXTENDS AddrPool, FiniteSets, Sequences

CONSTANTS
    ConnIds,                \* connection contexts alive at the same time
    NoConn,
    StreamIds,              \* request streams of one connection, 0 first
    max_clients,
    Sources,                \* source addresses of clients' packets
    MaxScope,               \* stands for UINT64_MAX of the scope counter
    Names,                  \* user names
    Keys,                   \* keys a user or the server may have
    auth_key,               \* the global key, or NoKey
    NoKey,
    MQVPN_MAX_USERS,
    allow_client_scheduler,
    reorder_on,             \* config.reorder.mode # OFF
    OtherRoles              \* roles of requests other parts of the server take

ASSUME ServerAssumption ==
    /\ IsFiniteSet(ConnIds) /\ NoConn \notin ConnIds
    /\ StreamIds \subseteq Nat /\ 0 \in StreamIds
    /\ max_clients \in Nat \ {0} /\ MaxScope \in Nat /\ Sources \subseteq Offsets
    /\ NoKey \notin Keys /\ auth_key \in Keys \cup {NoKey}
    /\ MQVPN_MAX_USERS \in Nat
    /\ allow_client_scheduler \in BOOLEAN /\ reorder_on \in BOOLEAN
    /\ OtherRoles \subseteq {"UNKNOWN", "CONNECT_TCP", "H2_PROXY"}

VARIABLES
    conns,          \* svr_conn_t of every connection
    streams,        \* svr_stream_t of every request stream
    sessions,       \* sessions[]: which connection holds an offset
    n_sessions,
    pool,
    users,          \* the auth table, in order
    next_tx_scope,
    releases,       \* how often each transport scope was released
    clients,        \* connects less disconnects the platform saw, per offset
    tun,            \* packets the last step handed to the TUN
    transport       \* the shared transport: "installed", then "released"

vars == <<conns, streams, sessions, n_sessions, pool, users, next_tx_scope,
          releases, clients, tun, transport>>

tableVars == <<sessions, n_sessions, pool, clients>>

serverVars == <<users, next_tx_scope, releases, transport>>

----------------------------------------------------------------------------
(* Types *)

Scopes == 1 .. MaxScope

\* An inner packet: the stream its datagram names and its source address.
Packets == StreamIds \X Sources

\* A reorder receive engine and the packets it holds back.
reorder_rx_t == [on : BOOLEAN, held : SUBSET Packets]

NoEngine == [on |-> FALSE, held |-> {}]

\* assigned_ip and masque_stream_id use 0 for "none", as the code does, and 0 is
\* also the first stream.  checked and echoed are not in the code: whether this
\* tunnel was authenticated, and whether its response carried mqvpn-reorder.
svr_conn_t ==
    [phase : {"none", "accepted", "h3", "closing"}, tx_scope : 0 .. MaxScope,
     assigned_ip : {0} \cup Offsets, masque_stream_id : StreamIds,
     tunnel_established : BOOLEAN, username : Names \cup {"", "(global)"},
     reorder_rx : reorder_rx_t, peer_reorder_supported : BOOLEAN,
     sched_swapped : BOOLEAN, checked : BOOLEAN, echoed : BOOLEAN]

svr_conn_free ==
    [phase |-> "none", tx_scope |-> 0, assigned_ip |-> 0, masque_stream_id |-> 0,
     tunnel_established |-> FALSE, username |-> "", reorder_rx |-> NoEngine,
     peer_reorder_supported |-> FALSE, sched_swapped |-> FALSE,
     checked |-> FALSE, echoed |-> FALSE]

\* "open" has not delivered its headers yet; its role is still UNKNOWN.
svr_stream_role_t ==
    {"none", "open", "UNKNOWN", "CONNECT_IP", "CONNECT_TCP", "H2_PROXY", "closed"}

Init ==
    /\ conns = [c \in ConnIds |-> svr_conn_free]
    /\ streams = [c \in ConnIds |-> [q \in StreamIds |-> "none"]]
    /\ sessions = [o \in Offsets |-> NoConn]
    /\ n_sessions = 0
    /\ pool = mqvpn_addr_pool_init
    /\ users = << >>
    /\ next_tx_scope = 0
    /\ releases = [k \in Scopes |-> 0]
    /\ clients = [o \in Offsets |-> 0]
    /\ tun = {}
    /\ transport = "installed"

----------------------------------------------------------------------------
(* Ending a session *)

\* svr_session_release does nothing for a connection without an address.
releasing(c) == conns[c].assigned_ip # 0

deregisters(c) == releasing(c) /\ sessions[conns[c].assigned_ip] = c

sessions_released(c) ==
    IF deregisters(c) THEN [sessions EXCEPT ![conns[c].assigned_ip] = NoConn] ELSE sessions

\* Mutant: the session count only ever grows.
n_sessions_kept(c) == n_sessions

n_sessions_released(c) == IF deregisters(c) THEN n_sessions - 1 ELSE n_sessions

clients_released(c) ==
    IF deregisters(c) THEN [clients EXCEPT ![conns[c].assigned_ip] = @ - 1] ELSE clients

\* Mutant: the address is not given back.
pool_kept(c) == pool

pool_released(c) ==
    IF releasing(c) THEN mqvpn_addr_pool_release(pool, conns[c].assigned_ip) ELSE pool

\* Mutant: the reorder engine survives the session, with what it holds.
conn_keeps_engine(c) ==
    IF releasing(c)
    THEN [conns[c] EXCEPT !.assigned_ip = 0, !.masque_stream_id = 0,
                          !.tunnel_established = FALSE,
                          !.peer_reorder_supported = FALSE,
                          !.checked = FALSE, !.echoed = FALSE]
    ELSE conns[c]

conn_released(c) ==
    IF releasing(c)
    THEN [conns[c] EXCEPT !.assigned_ip = 0, !.masque_stream_id = 0,
                          !.tunnel_established = FALSE,
                          !.peer_reorder_supported = FALSE, !.reorder_rx = NoEngine,
                          !.checked = FALSE, !.echoed = FALSE]
    ELSE conns[c]

\* The table as svr_session_release leaves it.
svr_session_release(c) ==
    /\ sessions' = sessions_released(c)
    /\ n_sessions' = n_sessions_released(c)
    /\ pool' = pool_released(c)
    /\ clients' = clients_released(c)

----------------------------------------------------------------------------
(* Connections *)

\* A full scope counter refuses the connection and leaves no trace of it.
cb_accept(c) ==
    /\ conns[c].phase = "none" /\ next_tx_scope < MaxScope
    /\ next_tx_scope' = next_tx_scope + 1
    /\ conns' = [conns EXCEPT ![c] = [svr_conn_free EXCEPT !.phase = "accepted",
                                                         !.tx_scope = next_tx_scope']]
    /\ tun' = {}
    /\ UNCHANGED <<streams, tableVars, users, releases, transport>>

\* svr_conn_free gives the scope of a connection back to the transport.
scope_released(c) == [releases EXCEPT ![conns[c].tx_scope] = @ + 1]

\* Mutant: a connection that never reached H3 keeps its scope.
cb_refuse_keeps_scope(c) ==
    /\ conns[c].phase = "accepted"
    /\ conns' = [conns EXCEPT ![c] = svr_conn_free]
    /\ tun' = {}
    /\ UNCHANGED <<streams, tableVars, serverVars>>

\* The engine drops a connection that never reached H3.
cb_refuse(c) ==
    /\ conns[c].phase = "accepted"
    /\ releases' = scope_released(c)
    /\ conns' = [conns EXCEPT ![c] = svr_conn_free]
    /\ tun' = {}
    /\ UNCHANGED <<streams, tableVars, users, next_tx_scope, transport>>

\* The engine a connection may have after provisioning, whose allocation may fail;
\* one that is already there is kept.
svr_conn_reorder_engines_init(e) ==
    IF reorder_on /\ ~e.on THEN {e, [on |-> TRUE, held |-> {}]} ELSE {e}

cb_h3_conn_create(c) ==
    /\ conns[c].phase = "accepted"
    /\ \E e \in svr_conn_reorder_engines_init(conns[c].reorder_rx) :
           conns' = [conns EXCEPT ![c].phase = "h3", ![c].reorder_rx = e]
    /\ tun' = {}
    /\ UNCHANGED <<streams, tableVars, serverVars>>

\* The peer closes, or the engine gives the connection up.
xqc_conn_closing(c) ==
    /\ conns[c].phase = "h3"
    /\ conns' = [conns EXCEPT ![c].phase = "closing"]
    /\ tun' = {}
    /\ UNCHANGED <<streams, tableVars, serverVars>>

streams_gone(c) == \A q \in StreamIds : streams[c][q] \in {"none", "closed"}

\* The engine destroys the streams first.
cb_h3_conn_close(c) ==
    /\ conns[c].phase = "closing" /\ streams_gone(c)
    /\ svr_session_release(c)
    /\ releases' = scope_released(c)
    /\ conns' = [conns EXCEPT ![c] = svr_conn_free]
    /\ streams' = [streams EXCEPT ![c] = [q \in StreamIds |-> "none"]]
    /\ tun' = {}
    /\ UNCHANGED <<users, next_tx_scope, transport>>

----------------------------------------------------------------------------
(* Request streams *)

cb_request_create(c, q) ==
    /\ conns[c].phase = "h3" /\ streams[c][q] = "none"
    /\ \A p \in StreamIds : p < q => streams[c][p] # "none"
    /\ streams' = [streams EXCEPT ![c][q] = "open"]
    /\ tun' = {}
    /\ UNCHANGED <<conns, tableVars, serverVars>>

\* Mutant: any closing stream takes the tunnel down with it.
cb_request_close_any(c, q) ==
    /\ streams[c][q] \notin {"none", "closed"}
    /\ svr_session_release(c)
    /\ conns' = [conns EXCEPT ![c] = conn_released(c)]
    /\ streams' = [streams EXCEPT ![c][q] = "closed"]
    /\ tun' = {}
    /\ UNCHANGED serverVars

\* Only a CONNECT_IP stream ends the session.
cb_request_close(c, q) ==
    /\ streams[c][q] \notin {"none", "closed"}
    /\ IF streams[c][q] = "CONNECT_IP"
       THEN svr_session_release(c) /\ conns' = [conns EXCEPT ![c] = conn_released(c)]
       ELSE UNCHANGED <<tableVars, conns>>
    /\ streams' = [streams EXCEPT ![c][q] = "closed"]
    /\ tun' = {}
    /\ UNCHANGED serverVars

svr_auth_required == auth_key # NoKey \/ users # << >>

\* Who a token authenticates, or "" for nobody: the global key wins, then the
\* first user of the table with that key.
svr_auth_check(token) ==
    LET match == {i \in DOMAIN users : users[i].key = token}
    IN  IF token = NoKey THEN ""
        ELSE IF token = auth_key THEN "(global)"
        ELSE IF match = {} THEN ""
        ELSE users[CHOOSE i \in match : \A j \in match : i <= j].name

\* The response advertises mqvpn-reorder for an engine that exists.
mqvpn_reorder_should_advertise(e) == reorder_on /\ e.on

\* A request may ask for a scheduler; it is swapped at most once per connection,
\* if the server allows it and the engine does not refuse.
svr_negotiate_scheduler(conn) ==
    {conn.sched_swapped} \cup (IF allow_client_scheduler THEN {TRUE} ELSE {})

duplicate_request(c) == conns[c].tunnel_established

\* The tunnel is up on stream q with address o.
tunnel_up(conn, q, o) ==
    [conn EXCEPT !.masque_stream_id = q, !.assigned_ip = o, !.tunnel_established = TRUE,
                 !.checked = svr_auth_required,
                 !.echoed = /\ mqvpn_reorder_should_advertise(conn.reorder_rx)
                            /\ conn.peer_reorder_supported]

\* A capsule of the response could not be sent: the address goes back to the pool.
fail_release_ip(c, conn, p) ==
    /\ pool' = mqvpn_addr_pool_release(mqvpn_addr_pool_alloc(p), allocated(p))
    /\ conns' = [conns EXCEPT ![c] = [conn EXCEPT !.phase = "closing", !.masque_stream_id = 0]]
    /\ sessions' = sessions_released(c)
    /\ n_sessions' = n_sessions_released(c)
    /\ clients' = clients_released(c)

\* svr_masque_send_response, after svr_session_release(c).  `how` is where it
\* ends: the headers or a capsule could not be sent, or the tunnel is up.
svr_masque_send_response(c, q, conn, swapped, how) ==
    LET n  == n_sessions_released(c)
        p  == pool_released(c)
        o  == allocated(p)
        c1 == [conn EXCEPT !.sched_swapped = swapped]
    IN  \/ /\ n >= max_clients
           /\ svr_session_release(c)
           /\ conns' = [conns EXCEPT ![c] = [conn EXCEPT !.phase = "closing"]]
        \/ /\ n < max_clients /\ how = "headers_failed"
           /\ svr_session_release(c)
           /\ conns' = [conns EXCEPT ![c] = [c1 EXCEPT !.phase = "closing"]]
        \/ /\ n < max_clients /\ how # "headers_failed" /\ exhausted(p)
           /\ svr_session_release(c)
           /\ conns' = [conns EXCEPT ![c] = [c1 EXCEPT !.phase = "closing",
                                                       !.masque_stream_id = q]]
        \/ /\ n < max_clients /\ how = "capsule_failed" /\ ~exhausted(p)
           /\ fail_release_ip(c, c1, p)
        \/ /\ n < max_clients /\ how = "ok" /\ ~exhausted(p)
           /\ conns' = [conns EXCEPT ![c] = tunnel_up(c1, q, o)]
           /\ pool' = mqvpn_addr_pool_alloc(p)
           /\ sessions' = [sessions_released(c) EXCEPT ![o] = c]
           /\ n_sessions' = n + 1
           /\ clients' = [clients_released(c) EXCEPT ![o] = @ + 1]

\* svr_connect_ip_on_request, for a request that has the headers it needs.
svr_connect_ip_on_request(c, q, token, has_reorder_hdr) ==
    LET who  == svr_auth_check(token)
        name == IF svr_auth_required THEN who ELSE conns[c].username
        r    == conn_released(c)
        fresh(e) == [r EXCEPT !.username = name, !.reorder_rx = e,
                              !.peer_reorder_supported = has_reorder_hdr]
    IN  IF svr_auth_required /\ who = ""
        THEN /\ conns' = [conns EXCEPT ![c].phase = "closing"]
             /\ UNCHANGED tableVars
        ELSE \E e \in svr_conn_reorder_engines_init(r.reorder_rx),
                swapped \in svr_negotiate_scheduler(r),
                how \in {"headers_failed", "capsule_failed", "ok"} :
                 svr_masque_send_response(c, q, fresh(e), swapped, how)

\* A CONNECT-IP request: refused with 409 beside a live tunnel, otherwise it owns
\* the connection's tunnel from here on, established or not.
cb_request_read_connect_ip(c, q) ==
    /\ conns[c].phase \in {"h3", "closing"} /\ streams[c][q] = "open"
    /\ IF duplicate_request(c)
       THEN /\ streams' = [streams EXCEPT ![c][q] = "UNKNOWN"]
            /\ UNCHANGED <<conns, tableVars>>
       ELSE /\ streams' = [streams EXCEPT ![c][q] = "CONNECT_IP"]
            /\ \E token \in Keys \cup {NoKey}, reorder \in BOOLEAN :
                   svr_connect_ip_on_request(c, q, token, reorder)
    /\ tun' = {}
    /\ UNCHANGED serverVars

\* A CONNECT-IP request without the headers it needs, or unreadable headers.
cb_request_read_bad(c, q) ==
    /\ conns[c].phase \in {"h3", "closing"} /\ streams[c][q] = "open"
    /\ \/ ~duplicate_request(c) /\ streams' = [streams EXCEPT ![c][q] = "CONNECT_IP"]
       \/ streams' = [streams EXCEPT ![c][q] = "UNKNOWN"]
    /\ conns' = [conns EXCEPT ![c].phase = "closing"]
    /\ tun' = {}
    /\ UNCHANGED <<tableVars, serverVars>>

\* A request for another part of the server, or for none (501).
cb_request_read_other(c, q) ==
    /\ conns[c].phase \in {"h3", "closing"} /\ streams[c][q] = "open"
    /\ \E role \in OtherRoles : streams' = [streams EXCEPT ![c][q] = role]
    /\ tun' = {}
    /\ UNCHANGED <<conns, tableVars, serverVars>>

----------------------------------------------------------------------------
(* Packets from clients *)

\* forward_inner_ip drops a packet whose source is not the session's address.
forward_inner_ip(c, packets) ==
    {[conn |-> c, packet |-> p] : p \in {x \in packets : x[2] = conns[c].assigned_ip}}

current_stream(c, q) == q = conns[c].masque_stream_id

\* A datagram naming any stream and any source, late or not.  The reorder engine
\* holds it, or delivers it with whatever it unblocks.
cb_dgram_read(c, q, src) ==
    /\ conns[c].phase \in {"h3", "closing"} /\ conns[c].tunnel_established
    /\ current_stream(c, q)
    /\ \/ /\ tun' = forward_inner_ip(c, {<<q, src>>})
          /\ UNCHANGED conns
       \/ /\ conns[c].reorder_rx.on
          /\ LET held == conns[c].reorder_rx.held \cup {<<q, src>>}
             IN  \E out \in SUBSET held :
                     /\ tun' = forward_inner_ip(c, out)
                     /\ conns' = [conns EXCEPT ![c].reorder_rx.held = held \ out]
    /\ UNCHANGED <<streams, tableVars, serverVars>>

held_back == {c \in ConnIds : \E o \in Offsets : sessions[o] = c} \X Packets

\* Gap timeouts and idle eviction in the engines of the registered sessions.
mqvpn_server_tick ==
    \E out \in SUBSET {x \in held_back : x[2] \in conns[x[1]].reorder_rx.held} :
        LET of(c) == {p \in Packets : <<c, p>> \in out}
        IN  /\ out # {}
            /\ tun' = UNION {forward_inner_ip(c, of(c)) : c \in ConnIds}
            /\ conns' = [c \in ConnIds |->
                             [conns[c] EXCEPT !.reorder_rx.held = @ \ of(c)]]
            /\ UNCHANGED <<streams, tableVars, serverVars>>

----------------------------------------------------------------------------
(* The user table *)

named(name) == {i \in DOMAIN users : users[i].name = name}

\* An existing user gets the new key; a new one is appended while there is room.
mqvpn_server_add_user(name, key) ==
    /\ transport = "installed"
    /\ IF named(name) # {}
       THEN users' = [i \in DOMAIN users |->
                          IF i \in named(name) THEN [users[i] EXCEPT !.key = key] ELSE users[i]]
       ELSE /\ Len(users) < MQVPN_MAX_USERS
            /\ users' = Append(users, [name |-> name, key |-> key])
    /\ tun' = {}
    /\ UNCHANGED <<conns, streams, tableVars, next_tx_scope, releases, transport>>

\* Mutant: sessions of a removed user are left alone.
sessions_of_nobody(name) == {}

sessions_of(name) ==
    {c \in ConnIds : (\E o \in Offsets : sessions[o] = c) /\ conns[c].username = name}

\* The table without its first user of that name: those behind it move up.
without(name) ==
    LET first == CHOOSE i \in named(name) : \A j \in named(name) : i <= j
    IN  [k \in 1 .. Len(users) - 1 |-> users[IF k < first THEN k ELSE k + 1]]

\* Removes the user and closes the connections of its sessions.
mqvpn_server_remove_user(name) ==
    /\ transport = "installed"
    /\ named(name) # {}
    /\ users' = without(name)
    /\ conns' = [c \in ConnIds |-> IF c \in sessions_of(name)
                                   THEN [conns[c] EXCEPT !.phase = "closing"] ELSE conns[c]]
    /\ tun' = {}
    /\ UNCHANGED <<streams, tableVars, next_tx_scope, releases, transport>>

----------------------------------------------------------------------------
(* Shutdown *)

open_conns == {c \in ConnIds : conns[c].phase # "none"}

\* Destroying the engine closes every stream and connection; the transport is
\* released last.
mqvpn_server_destroy ==
    /\ transport = "installed"
    /\ conns' = [c \in ConnIds |-> svr_conn_free]
    /\ streams' = [c \in ConnIds |-> [q \in StreamIds |-> "none"]]
    /\ sessions' = [o \in Offsets |-> NoConn]
    /\ n_sessions' = n_sessions - Cardinality({o \in Offsets : sessions[o] # NoConn})
    /\ pool' = [pool EXCEPT !.used = @ \ {conns[c].assigned_ip : c \in open_conns}]
    /\ clients' = [o \in Offsets |-> IF sessions[o] # NoConn THEN clients[o] - 1 ELSE clients[o]]
    /\ releases' = [k \in Scopes |-> IF \E c \in open_conns : conns[c].tx_scope = k
                                     THEN releases[k] + 1 ELSE releases[k]]
    /\ transport' = "released"
    /\ tun' = {}
    /\ UNCHANGED <<users, next_tx_scope>>

----------------------------------------------------------------------------

Next ==
    \/ \E c \in ConnIds :
           \/ transport = "installed" /\ cb_accept(c)
           \/ cb_refuse(c) \/ cb_h3_conn_create(c)
           \/ xqc_conn_closing(c) \/ cb_h3_conn_close(c)
           \/ \E q \in StreamIds :
                  \/ cb_request_create(c, q) \/ cb_request_close(c, q)
                  \/ cb_request_read_connect_ip(c, q) \/ cb_request_read_bad(c, q)
                  \/ cb_request_read_other(c, q)
                  \/ \E src \in Sources : cb_dgram_read(c, q, src)
    \/ mqvpn_server_tick
    \/ \E name \in Names : \/ mqvpn_server_remove_user(name)
                           \/ \E key \in Keys : mqvpn_server_add_user(name, key)
    \/ mqvpn_server_destroy

Spec == Init /\ [][Next]_vars

\* The engine finishes closing what is being closed.
Fairness ==
    \A c \in ConnIds :
        /\ WF_vars(cb_h3_conn_close(c))
        /\ \A q \in StreamIds : WF_vars(conns[c].phase = "closing" /\ cb_request_close(c, q))

FairSpec == Spec /\ Fairness

----------------------------------------------------------------------------
(* Properties *)

TypeOK ==
    /\ conns \in [ConnIds -> svr_conn_t]
    /\ streams \in [ConnIds -> [StreamIds -> svr_stream_role_t]]
    /\ sessions \in [Offsets -> ConnIds \cup {NoConn}]
    /\ n_sessions \in Nat
    /\ pool \in mqvpn_addr_pool_t
    /\ users \in Seq([name : Names, key : Keys]) /\ Len(users) <= MQVPN_MAX_USERS
    /\ next_tx_scope \in 0 .. MaxScope
    /\ releases \in [Scopes -> Nat]
    /\ clients \in [Offsets -> Int]
    /\ tun \subseteq [conn : ConnIds, packet : Packets]
    /\ transport \in {"installed", "released"}

occupied == {o \in Offsets : sessions[o] # NoConn}

\* What svr_check_session_invariants asserts in debug builds, in every state: a
\* slot's connection holds that slot's address, and n_sessions counts the slots
\* and stays within max_clients.  A client that was told to stamp its packets has
\* an engine to unstamp them for as long as its tunnel lives.  The state has its
\* types; the server's own address is never in the pool's used set.
SessionInvariants ==
    /\ TypeOK
    /\ \A o \in occupied : conns[sessions[o]].assigned_ip = o
    /\ n_sessions = Cardinality(occupied)
    /\ n_sessions <= max_clients
    /\ \A c \in ConnIds :
           conns[c].echoed => conns[c].tunnel_established /\ conns[c].reorder_rx.on

\* No address leaks and none is handed out twice, whichever step of establishing
\* or ending a tunnel fails: the pool's used addresses are exactly those of the
\* connections with a live tunnel, each of which is registered under its own.
PoolMatchesSessions ==
    /\ pool.used = {conns[c].assigned_ip : c \in ConnIds} \ {0}
    /\ \A c \in ConnIds :
           /\ conns[c].tunnel_established <=> conns[c].assigned_ip # 0
           /\ conns[c].assigned_ip # 0 => sessions[conns[c].assigned_ip] = c

\* mqvpn_addr_pool_alloc reports exhaustion only when every client address is
\* taken, wherever its scan starts.
NoEarlyExhaustion == exhausted(pool) <=> pool.used = 2 .. pool_size

\* The platform hears of exactly one connect for each session and of exactly one
\* disconnect when it ends, on every release path.
PlatformInSync == \A o \in Offsets : clients[o] = IF o \in occupied THEN 1 ELSE 0

\* Every transport scope is released exactly once, when its connection is freed,
\* whether it was refused, closed or swept up at shutdown; the shared transport
\* goes after the last of them.
ScopesReleasedOnce ==
    /\ \A k \in Scopes :
           releases[k] = IF k <= next_tx_scope /\ \A c \in open_conns : conns[c].tx_scope # k
                         THEN 1 ELSE 0
    /\ \A c, d \in open_conns : conns[c].tx_scope = conns[d].tx_scope => c = d
    /\ transport = "released" => open_conns = {}

\* The pool, the platform and the transport keep step with the sessions while
\* connections are accepted, refused, closed and destroyed.
AdmissionSound == NoEarlyExhaustion /\ PlatformInSync /\ ScopesReleasedOnce

\* While a connection is healthy its tunnel ends only with the tunnel's own
\* stream: neither a refused duplicate, nor any other stream, nor another
\* connection's teardown ends it.
OnlyOwnerEndsTunnel ==
    [][\A c \in ConnIds :
          LET q == conns[c].masque_stream_id
          IN  /\ conns[c].phase = "h3" /\ conns[c].tunnel_established
              /\ ~conns'[c].tunnel_established /\ transport' = "installed"
              => streams[c][q] = "CONNECT_IP" /\ streams'[c][q] = "closed"]_vars

\* Tunnel-generation fence: what reaches the TUN was sent on the tunnel that is
\* live now, by the holder of the address it claims, however late the datagram
\* or however long the reorder engine held the packet.
GenerationFence ==
    [][\A d \in tun' :
          LET k == conns[d.conn]
          IN  /\ k.tunnel_established
              /\ d.packet = <<k.masque_stream_id, k.assigned_ip>>
              /\ sessions[k.assigned_ip] = d.conn]_vars

revoked(c) ==
    /\ conns[c].checked
    /\ conns[c].username \in Names /\ named(conns[c].username) = {}

\* Removing a user does end its sessions, at whatever step of theirs it comes:
\* each of them is eventually gone from the table.
RevokedLeaves ==
    \A c \in ConnIds, o \in Offsets : (sessions[o] = c /\ revoked(c)) ~> sessions[o] # c
=============================================================================
