---------------------------- MODULE ServerProofs ----------------------------
(***************************************************************************)
(* The sessions of the server are sound for any number of connections,     *)
(* streams, addresses and users: the steps that give and take addresses    *)
(* and scopes, and the properties of ServerSessions that follow.           *)
(***************************************************************************)
EXTENDS ServerTableProofs

-----------------------------------------------------------------------------
(* Connections come and go *)

\* A connection is accepted.
LEMMA StepAccept ==
    ASSUME ServerInv, NEW c \in ConnIds, transport = "installed", cb_accept(c)
    PROVE  ServerInv' /\ OwnerStep /\ FenceStep
  <1> DEFINE k == next_tx_scope + 1
             r == [svr_conn_free EXCEPT !.phase = "accepted", !.tx_scope = k]
  <1>1. /\ conns[c].phase = "none" /\ next_tx_scope < MaxScope /\ next_tx_scope' = k
        /\ conns' = [conns EXCEPT ![c] = r] /\ tun' = {}
        /\ UNCHANGED <<streams, tableVars, users, releases, transport>>
    BY DEF cb_accept
  <1>2. k \in 0 .. MaxScope
    BY <1>1, ServerAssumption DEF ServerInv, ScopesTypeOK
  <1>3. /\ r \in svr_conn_t /\ ConnSound(r)
        /\ r.phase = "accepted" /\ r.tx_scope = k /\ r.assigned_ip = 0
    BY <1>2, FreeConn, Zenon
  <1> HIDE DEF r
  <1>4. /\ ConnsTypeOK' /\ \A d \in ConnIds : ConnSound(conns'[d])
        /\ conns'[c] = r /\ \A d \in ConnIds \ {c} : conns'[d] = conns[d]
    BY <1>1, <1>3, OneConn, Zenon DEF ServerInv
  <1>5. conns[c].assigned_ip = 0
    BY <1>1 DEF ServerInv, ConnSound
  <1>6. \A d \in ConnIds : conns'[d].assigned_ip = conns[d].assigned_ip
    BY <1>3, <1>4, <1>5
  <1>7. TableTypeOK' /\ TableInv'
    BY <1>1, <1>6, TableKept DEF ServerInv, TableTypeOK, tableVars
  <1>8. ScopesTypeOK' /\ ScopeInv'
    BY <1>1, <1>3, <1>4, ScopeTaken DEF ServerInv
  <1>9. OwnerStep
    BY <1>4, <1>6, NoTunnelEnds DEF ServerInv
  <1>10. StreamInv'
    BY <1>1, <1>3, <1>4 DEF ServerInv, StreamInv
  <1>11. StreamsTypeOK' /\ UsersTypeOK' /\ TunTypeOK' /\ FenceStep
    BY <1>1 DEF ServerInv, StreamsTypeOK, UsersTypeOK, TunTypeOK, FenceStep
  <1>12. ServerInv'
    BY <1>4, <1>7, <1>8, <1>10, <1>11 DEF ServerInv
  <1> QED BY <1>9, <1>11, <1>12

\* A connection that never reached H3 is dropped.
LEMMA StepRefuse ==
    ASSUME ServerInv, NEW c \in ConnIds, cb_refuse(c)
    PROVE  ServerInv' /\ OwnerStep /\ FenceStep
  <1>1. /\ conns[c].phase = "accepted" /\ releases' = scope_released(c)
        /\ conns' = [conns EXCEPT ![c] = svr_conn_free] /\ tun' = {}
        /\ UNCHANGED <<streams, tableVars, users, next_tx_scope, transport>>
    BY DEF cb_refuse
  <1>2. svr_conn_free \in svr_conn_t /\ ConnSound(svr_conn_free)
    BY FreeConn, Zenon
  <1>3. svr_conn_free.phase = "none" /\ svr_conn_free.assigned_ip = 0
    BY DEF svr_conn_free
  <1>4. /\ ConnsTypeOK' /\ \A d \in ConnIds : ConnSound(conns'[d])
        /\ conns'[c] = svr_conn_free /\ \A d \in ConnIds \ {c} : conns'[d] = conns[d]
    BY <1>1, <1>2, OneConn, Zenon DEF ServerInv
  <1>5. conns[c].assigned_ip = 0
    BY <1>1 DEF ServerInv, ConnSound
  <1>6. \A d \in ConnIds : conns'[d].assigned_ip = conns[d].assigned_ip
    BY <1>3, <1>4, <1>5
  <1>7. TableTypeOK' /\ TableInv'
    BY <1>1, <1>6, TableKept DEF ServerInv, TableTypeOK, tableVars
  <1>8. ScopesTypeOK' /\ ScopeInv'
    BY <1>1, <1>3, <1>4, ScopeReleased DEF ServerInv
  <1>9. OwnerStep
    BY <1>4, <1>6, NoTunnelEnds DEF ServerInv
  <1>10. StreamInv'
    BY <1>1, <1>3, <1>4 DEF ServerInv, StreamInv
  <1>11. StreamsTypeOK' /\ UsersTypeOK' /\ TunTypeOK' /\ FenceStep
    BY <1>1 DEF ServerInv, StreamsTypeOK, UsersTypeOK, TunTypeOK, FenceStep
  <1>12. ServerInv'
    BY <1>4, <1>7, <1>8, <1>10, <1>11 DEF ServerInv
  <1> QED BY <1>9, <1>11, <1>12

\* The engine has closed a connection, and its session goes with it.
LEMMA StepConnClose ==
    ASSUME ServerInv, NEW c \in ConnIds, cb_h3_conn_close(c)
    PROVE  ServerInv' /\ OwnerStep /\ FenceStep
  <1>1. /\ conns[c].phase = "closing" /\ svr_session_release(c)
        /\ releases' = scope_released(c)
        /\ conns' = [conns EXCEPT ![c] = svr_conn_free] /\ tun' = {}
        /\ streams' = [streams EXCEPT ![c] = [q \in StreamIds |-> "none"]]
        /\ UNCHANGED <<users, next_tx_scope, transport>>
    BY DEF cb_h3_conn_close
  <1>2. svr_conn_free \in svr_conn_t /\ ConnSound(svr_conn_free)
    BY FreeConn, Zenon
  <1>3. svr_conn_free.phase = "none" /\ svr_conn_free.assigned_ip = 0
    BY DEF svr_conn_free
  <1>4. /\ ConnsTypeOK' /\ \A d \in ConnIds : ConnSound(conns'[d])
        /\ conns'[c] = svr_conn_free /\ \A d \in ConnIds \ {c} : conns'[d] = conns[d]
    BY <1>1, <1>2, OneConn, Zenon DEF ServerInv
  <1>5. TableTypeOK' /\ TableInv'
    BY <1>1, <1>3, <1>4, TableReleased DEF ServerInv
  <1>6. ScopesTypeOK' /\ ScopeInv'
    BY <1>1, <1>3, <1>4, ScopeReleased DEF ServerInv
  <1>7. OwnerStep
    BY <1>1, <1>4 DEF OwnerStep
  <1>8. StreamsTypeOK'
    BY <1>1 DEF ServerInv, StreamsTypeOK, svr_stream_role_t
  <1>9. /\ \A q \in StreamIds : streams'[c][q] = "none"
        /\ \A d \in ConnIds \ {c} : streams'[d] = streams[d]
    BY <1>1 DEF ServerInv, StreamsTypeOK
  <1>10. StreamInv'
    BY <1>3, <1>4, <1>9 DEF ServerInv, StreamInv
  <1>11. UsersTypeOK' /\ TunTypeOK' /\ FenceStep
    BY <1>1 DEF ServerInv, UsersTypeOK, TunTypeOK, FenceStep
  <1>12. ServerInv'
    BY <1>4, <1>5, <1>6, <1>8, <1>10, <1>11 DEF ServerInv
  <1> QED BY <1>7, <1>11, <1>12

\* What svr_session_release leaves of a connection.
LEMMA ReleasedConn ==
    ASSUME NEW c, conns[c] \in svr_conn_t, ConnSound(conns[c])
    PROVE  LET x == conn_released(c)
           IN  /\ x \in svr_conn_t /\ ConnSound(x)
               /\ x.phase = conns[c].phase /\ x.tx_scope = conns[c].tx_scope
               /\ x.assigned_ip = 0 /\ ~x.tunnel_established
  <1>1. CASE conns[c].assigned_ip = 0
    <2>1. conn_released(c) = conns[c]
      BY <1>1 DEF conn_released, releasing
    <2> QED BY <1>1, <2>1 DEF ConnSound
  <1>2. CASE conns[c].assigned_ip # 0
    <2> DEFINE x1 == [conns[c] EXCEPT !.assigned_ip = 0]
               x2 == [x1 EXCEPT !.masque_stream_id = 0]
               x3 == [x2 EXCEPT !.tunnel_established = FALSE]
               x4 == [x3 EXCEPT !.peer_reorder_supported = FALSE]
               x5 == [x4 EXCEPT !.reorder_rx = NoEngine]
               x6 == [x5 EXCEPT !.checked = FALSE]
               x  == [x6 EXCEPT !.echoed = FALSE]
    <2>1. conn_released(c) = x
      BY <1>2, Zenon DEF conn_released, releasing, svr_conn_t
    <2>2. 0 \in StreamIds /\ 0 \in {0} \cup Offsets /\ FALSE \in BOOLEAN
      BY ServerAssumption
    <2>3. /\ x.phase = conns[c].phase /\ x.tx_scope = conns[c].tx_scope
          /\ x.assigned_ip = 0 /\ x.tunnel_established = FALSE
          /\ x.reorder_rx = NoEngine /\ x.echoed = FALSE
      BY Zenon DEF svr_conn_t
    <2>4. x1 \in svr_conn_t
      BY <2>2, WriteConn, Zenon
    <2> HIDE DEF x1
    <2>5. x2 \in svr_conn_t
      BY <2>2, <2>4, WriteConn, Zenon
    <2> HIDE DEF x2
    <2>6. x3 \in svr_conn_t
      BY <2>2, <2>5, WriteConn, Zenon
    <2> HIDE DEF x3
    <2>7. x4 \in svr_conn_t
      BY <2>2, <2>6, WriteConn, Zenon
    <2> HIDE DEF x4
    <2>8. x5 \in svr_conn_t
      BY <2>7, WriteConn, EngineTypes, Zenon
    <2> HIDE DEF x5
    <2>9. x6 \in svr_conn_t
      BY <2>2, <2>8, WriteConn, Zenon
    <2> HIDE DEF x6
    <2>10. x \in svr_conn_t
      BY <2>2, <2>9, WriteConn, Zenon
    <2> HIDE DEF x
    <2>11. ConnSound(x)
      BY <2>3, EngineTypes DEF ConnSound
    <2> QED BY <2>1, <2>3, <2>10, <2>11
  <1> QED BY <1>1, <1>2

\* A stream closes; that of the tunnel takes the session with it.
LEMMA StepRequestClose ==
    ASSUME ServerInv, NEW c \in ConnIds, NEW q \in StreamIds, cb_request_close(c, q)
    PROVE  ServerInv' /\ OwnerStep /\ FenceStep
  <1>1. /\ streams[c][q] \notin {"none", "closed"} /\ tun' = {}
        /\ streams' = [streams EXCEPT ![c][q] = "closed"] /\ UNCHANGED serverVars
    BY DEF cb_request_close
  <1>2. conns[c] \in svr_conn_t /\ ConnSound(conns[c])
    BY DEF ServerInv, ConnsTypeOK
  <1>3. conns[c].phase \in {"h3", "closing"}
    BY <1>1, <1>2, Zenon DEF ServerInv, StreamInv, svr_conn_t
  <1>4. CASE streams[c][q] # "CONNECT_IP"
    <2>1. UNCHANGED <<conns, tableVars>>
      BY <1>4 DEF cb_request_close
    <2>2. "closed" \in svr_stream_role_t \ {"CONNECT_IP"}
      BY DEF svr_stream_role_t
    <2> QED BY <1>1, <1>3, <2>1, <2>2, TakesRole, Zenon
  <1>5. CASE streams[c][q] = "CONNECT_IP"
    <2> DEFINE r == conn_released(c)
    <2>1. svr_session_release(c) /\ conns' = [conns EXCEPT ![c] = r]
      BY <1>5 DEF cb_request_close
    <2>2. /\ r \in svr_conn_t /\ ConnSound(r)
          /\ r.phase = conns[c].phase /\ r.tx_scope = conns[c].tx_scope
          /\ r.assigned_ip = 0 /\ ~r.tunnel_established
      BY <1>2, ReleasedConn
    <2> HIDE DEF r
    <2>3. /\ ConnsTypeOK' /\ \A d \in ConnIds : ConnSound(conns'[d])
          /\ conns'[c] = r /\ \A d \in ConnIds \ {c} : conns'[d] = conns[d]
      BY <2>1, <2>2, OneConn, Zenon DEF ServerInv
    <2>4. TableTypeOK' /\ TableInv'
      BY <2>1, <2>2, <2>3, TableReleased DEF ServerInv
    <2>5. ScopeInv' /\ ScopesTypeOK'
      <3>1. \A d \in ConnIds : /\ conns'[d].tx_scope = conns[d].tx_scope
                               /\ conns'[d].phase = "none" <=> conns[d].phase = "none"
        BY <2>2, <2>3
      <3> QED BY <1>1, <3>1, ScopesKept DEF ServerInv, serverVars, ScopesTypeOK
    <2>6. StreamsTypeOK'
      BY <1>1 DEF ServerInv, StreamsTypeOK, svr_stream_role_t
    <2>7. /\ streams'[c][q] = "closed" /\ \A p \in StreamIds \ {q} : streams'[c][p] = streams[c][p]
          /\ \A d \in ConnIds \ {c} : streams'[d] = streams[d]
      BY <1>1 DEF ServerInv, StreamsTypeOK
    <2>8. conns[c].phase = "h3" => q = conns[c].masque_stream_id
                                   /\ \A p \in StreamIds \ {q} : streams[c][p] # "CONNECT_IP"
      BY <1>5 DEF ServerInv, StreamInv
    <2>9. StreamInv'
      BY <1>3, <2>2, <2>3, <2>7, <2>8 DEF ServerInv, StreamInv
    <2>10. OwnerStep
      BY <1>5, <2>3, <2>7, <2>8 DEF OwnerStep
    <2>11. UsersTypeOK' /\ TunTypeOK' /\ FenceStep
      BY <1>1 DEF ServerInv, UsersTypeOK, TunTypeOK, FenceStep, serverVars
    <2>12. ServerInv'
      BY <2>3, <2>4, <2>5, <2>6, <2>9, <2>11 DEF ServerInv
    <2> QED BY <2>10, <2>11, <2>12
  <1> QED BY <1>4, <1>5

\* Shutdown closes every session, gives every address and scope back, and the
\* transport last.
LEMMA StepDestroy ==
    ASSUME ServerInv, mqvpn_server_destroy
    PROVE  ServerInv' /\ OwnerStep /\ FenceStep
  <1>1. /\ conns' = [c \in ConnIds |-> svr_conn_free]
        /\ streams' = [c \in ConnIds |-> [q \in StreamIds |-> "none"]]
        /\ sessions' = [o \in Offsets |-> NoConn]
        /\ n_sessions' = n_sessions - Cardinality(occupied)
        /\ pool' = [pool EXCEPT !.used = @ \ {conns[c].assigned_ip : c \in open_conns}]
        /\ clients' = [o \in Offsets |-> IF sessions[o] # NoConn THEN clients[o] - 1 ELSE clients[o]]
        /\ releases' = [k \in Scopes |-> IF \E c \in open_conns : conns[c].tx_scope = k
                                         THEN releases[k] + 1 ELSE releases[k]]
        /\ transport' = "released" /\ tun' = {} /\ UNCHANGED <<users, next_tx_scope>>
    BY DEF mqvpn_server_destroy, occupied
  <1>2. svr_conn_free \in svr_conn_t /\ ConnSound(svr_conn_free)
    BY FreeConn, Zenon
  <1>3. svr_conn_free.phase = "none" /\ svr_conn_free.assigned_ip = 0
    BY DEF svr_conn_free
  <1>4. ConnsTypeOK' /\ \A d \in ConnIds : conns'[d] = svr_conn_free /\ ConnSound(conns'[d])
    BY <1>1, <1>2 DEF ConnsTypeOK
  <1>5. occupied' = {}
    BY <1>1 DEF occupied
  <1>6. n_sessions' = 0
    BY <1>1, OccupiedFinite DEF ServerInv, TableInv
  <1>7. pool' \in mqvpn_addr_pool_t /\ pool'.used = {}
    <2>1. \A o \in pool.used : \E c \in open_conns : conns[c].assigned_ip = o
      <3>1. SUFFICES ASSUME NEW o \in occupied
                     PROVE  \E c \in open_conns : conns[c].assigned_ip = o
        BY DEF ServerInv, TableInv
      <3>2. sessions[o] \in ConnIds /\ conns[sessions[o]].assigned_ip = o /\ o # 0
        BY DEF ServerInv, TableInv, TableTypeOK, occupied, Offsets
      <3>3. conns[sessions[o]].phase # "none"
        BY <3>2 DEF ServerInv, ConnSound
      <3> QED BY <3>2, <3>3 DEF open_conns
    <2>2. pool.used \ {conns[c].assigned_ip : c \in open_conns} = {}
      BY <2>1
    <2>3. pool \in mqvpn_addr_pool_t
      BY DEF ServerInv, TableTypeOK
    <2> QED BY <1>1, <2>2, <2>3 DEF mqvpn_addr_pool_t
  <1>8. \A o \in Offsets : clients'[o] = 0
    BY <1>1 DEF ServerInv, TableInv, PlatformInSync, occupied
  <1>9. TableTypeOK'
    BY <1>1, <1>6, <1>7 DEF TableTypeOK, ServerInv
  <1>10. TableInv'
    <2>1. Cardinality(occupied') = 0
      BY <1>5, FS_EmptySet
    <2>2. PlatformInSync'
      BY <1>5, <1>8 DEF PlatformInSync
    <2>3. \A c \in ConnIds : conns'[c].assigned_ip = 0
      BY <1>3, <1>4
    <2> QED BY <1>5, <1>6, <1>7, <2>1, <2>2, <2>3, ServerAssumption DEF TableInv
  <1>11. open_conns' = {}
    BY <1>3, <1>4 DEF open_conns
  <1>12. ScopesTypeOK'
    BY <1>1 DEF ServerInv, ScopesTypeOK
  <1>13. ASSUME NEW k \in Scopes
         PROVE  releases'[k] = IF k <= next_tx_scope THEN 1 ELSE 0
    <2>1. releases[k] = IF k <= next_tx_scope /\ \A c \in open_conns : conns[c].tx_scope # k
                        THEN 1 ELSE 0
      BY DEF ServerInv, ScopeInv, ScopesReleasedOnce
    <2>2. CASE \E c \in open_conns : conns[c].tx_scope = k
      <3>1. k <= next_tx_scope
        BY <2>2 DEF ServerInv, ScopeInv, ScopesTypeOK
      <3> QED BY <1>1, <2>1, <2>2, <3>1
    <2>3. CASE ~(\E c \in open_conns : conns[c].tx_scope = k)
      BY <1>1, <2>1, <2>3
    <2> QED BY <2>2, <2>3
  <1>14. ScopeInv'
    BY <1>1, <1>11, <1>13 DEF ScopeInv, ScopesReleasedOnce
  <1>15. StreamsTypeOK' /\ StreamInv'
    BY <1>1, <1>3, <1>4 DEF StreamsTypeOK, StreamInv, svr_stream_role_t
  <1>16. UsersTypeOK' /\ TunTypeOK' /\ FenceStep /\ OwnerStep
    BY <1>1 DEF ServerInv, UsersTypeOK, TunTypeOK, FenceStep, OwnerStep
  <1>17. ServerInv'
    BY <1>4, <1>9, <1>10, <1>12, <1>14, <1>15, <1>16 DEF ServerInv
  <1> QED BY <1>16, <1>17

-----------------------------------------------------------------------------
(* A CONNECT-IP request *)

\* A connection without a tunnel that is otherwise like r.
Idle(y, r) ==
    /\ y \in svr_conn_t /\ ConnSound(y) /\ ~y.tunnel_established /\ y.assigned_ip = 0
    /\ y.phase = r.phase /\ y.tx_scope = r.tx_scope

\* What the request's headers set, the choice of a scheduler included.
LEMMA NegotiatedConn ==
    ASSUME NEW r, Idle(r, r), NEW name \in Names \cup {"", "(global)"},
           NEW e \in reorder_rx_t, e.held = {}, NEW b \in BOOLEAN, NEW s \in BOOLEAN
    PROVE  LET y == [r EXCEPT !.username = name, !.reorder_rx = e, !.peer_reorder_supported = b]
           IN  Idle(y, r) /\ Idle([y EXCEPT !.sched_swapped = s], r)
  <1> DEFINE y1 == [r EXCEPT !.username = name]
             y2 == [y1 EXCEPT !.reorder_rx = e]
             y  == [y2 EXCEPT !.peer_reorder_supported = b]
             z  == [y EXCEPT !.sched_swapped = s]
  <1>1. r \in svr_conn_t /\ ConnSound(r) /\ ~r.tunnel_established /\ r.assigned_ip = 0
    BY Zenon DEF Idle
  <1>2. y = [r EXCEPT !.username = name, !.reorder_rx = e, !.peer_reorder_supported = b]
    BY <1>1, Zenon DEF svr_conn_t
  <1>3. /\ y.phase = r.phase /\ y.tx_scope = r.tx_scope /\ y.assigned_ip = 0
        /\ y.tunnel_established = r.tunnel_established /\ y.reorder_rx = e /\ y.echoed = r.echoed
    BY <1>1, Zenon DEF svr_conn_t
  <1>4. /\ z.phase = r.phase /\ z.tx_scope = r.tx_scope /\ z.assigned_ip = 0
        /\ z.tunnel_established = r.tunnel_established /\ z.reorder_rx = e /\ z.echoed = r.echoed
    BY <1>1, Zenon DEF svr_conn_t
  <1>5. y1 \in svr_conn_t
    BY <1>1, WriteConn, Zenon
  <1> HIDE DEF y1
  <1>6. y2 \in svr_conn_t
    BY <1>5, WriteConn, Zenon
  <1> HIDE DEF y2
  <1>7. y \in svr_conn_t
    BY <1>6, WriteConn, Zenon
  <1> HIDE DEF y
  <1>8. z \in svr_conn_t
    BY <1>7, WriteConn, Zenon
  <1> HIDE DEF z
  <1>9. ConnSound(y) /\ ConnSound(z)
    BY <1>1, <1>3, <1>4, Zenon DEF ConnSound
  <1>10. Idle(y, r) /\ Idle(z, r)
    BY <1>1, <1>3, <1>4, <1>7, <1>8, <1>9, Zenon DEF Idle
  <1> QED BY <1>2, <1>10, Zenon DEF z

\* A request that fails leaves a connection without a tunnel that is closing.
LEMMA FailedConn ==
    ASSUME NEW r, NEW y, Idle(y, r)
    PROVE  LET z == [y EXCEPT !.phase = "closing"]
           IN  /\ z \in svr_conn_t /\ ConnSound(z) /\ z.phase = "closing"
               /\ z.assigned_ip = 0 /\ z.tx_scope = r.tx_scope
  BY ClosingConn DEF Idle

\* The connection y as a request that fails after it has set the stream of the
\* tunnel to q leaves it.
FailedOn(y, q) == [y EXCEPT !.phase = "closing", !.masque_stream_id = q]

\* That connection, too, has no tunnel and is closing.
LEMMA FailedOnStream ==
    ASSUME NEW r, NEW y, Idle(y, r), NEW q \in StreamIds
    PROVE  LET z == FailedOn(y, q)
           IN  /\ z \in svr_conn_t /\ ConnSound(z) /\ z.phase = "closing"
               /\ z.assigned_ip = 0 /\ z.tx_scope = r.tx_scope
  <1> DEFINE x == [y EXCEPT !.phase = "closing"]
             z == [x EXCEPT !.masque_stream_id = q]
  <1>1. y \in svr_conn_t /\ ConnSound(y) /\ ~y.tunnel_established /\ y.assigned_ip = 0
        /\ y.tx_scope = r.tx_scope
    BY DEF Idle
  <1>2. x \in svr_conn_t
    BY <1>1, WriteConn, Zenon
  <1>3. z = FailedOn(y, q)
    BY <1>1, Zenon DEF svr_conn_t, FailedOn
  <1>4. /\ z.phase = "closing" /\ z.assigned_ip = 0 /\ z.tx_scope = y.tx_scope
        /\ z.tunnel_established = y.tunnel_established /\ z.reorder_rx = y.reorder_rx
        /\ z.echoed = y.echoed
    BY <1>1, Zenon DEF svr_conn_t
  <1>5. z \in svr_conn_t
    <2> HIDE DEF x
    <2> QED BY <1>2, WriteConn, Zenon
  <1> HIDE DEF z
  <1>6. ConnSound(z)
    BY <1>1, <1>4 DEF ConnSound
  <1> QED BY <1>1, <1>3, <1>4, <1>5, <1>6

\* A request that succeeds leaves one whose tunnel is up on its stream.
LEMMA TunnelUpConn ==
    ASSUME NEW r, NEW y, Idle(y, r), y.phase \in {"h3", "closing"},
           NEW q \in StreamIds, NEW o \in Offsets
    PROVE  LET z == tunnel_up(y, q, o)
           IN  /\ z \in svr_conn_t /\ ConnSound(z)
               /\ z.phase = r.phase /\ z.tx_scope = r.tx_scope
               /\ z.assigned_ip = o /\ z.tunnel_established /\ z.masque_stream_id = q
  <1> DEFINE a == svr_auth_required
             b == mqvpn_reorder_should_advertise(y.reorder_rx) /\ y.peer_reorder_supported
             z1 == [y EXCEPT !.masque_stream_id = q]
             z2 == [z1 EXCEPT !.assigned_ip = o]
             z3 == [z2 EXCEPT !.tunnel_established = TRUE]
             z4 == [z3 EXCEPT !.checked = a]
             z  == [z4 EXCEPT !.echoed = b]
  <1>1. /\ y \in svr_conn_t /\ ConnSound(y) /\ ~y.tunnel_established /\ y.assigned_ip = 0
        /\ y.phase = r.phase /\ y.tx_scope = r.tx_scope
    BY DEF Idle
  <1>2. a \in BOOLEAN
    BY Zenon DEF svr_auth_required
  <1>3. b \in BOOLEAN
    BY Zenon
  <1>4. b => y.reorder_rx.on
    BY DEF mqvpn_reorder_should_advertise
  <1> HIDE DEF a, b
  <1>5. tunnel_up(y, q, o) = z
    BY <1>1, Zenon DEF tunnel_up, svr_conn_t, a, b
  <1>6. /\ z.phase = y.phase /\ z.tx_scope = y.tx_scope /\ z.assigned_ip = o
        /\ z.tunnel_established = TRUE /\ z.masque_stream_id = q
        /\ z.reorder_rx = y.reorder_rx /\ z.echoed = b
    BY <1>1, Zenon DEF svr_conn_t
  <1>7. z1 \in svr_conn_t
    BY <1>1, WriteConn, Zenon
  <1> HIDE DEF z1
  <1>8. z2 \in svr_conn_t
    BY <1>7, WriteConn, Zenon
  <1> HIDE DEF z2
  <1>9. z3 \in svr_conn_t
    BY <1>8, WriteConn, Zenon
  <1> HIDE DEF z3
  <1>10. z4 \in svr_conn_t
    BY <1>2, <1>9, WriteConn, Zenon
  <1> HIDE DEF z4
  <1>11. z \in svr_conn_t
    BY <1>3, <1>10, WriteConn, Zenon
  <1> HIDE DEF z
  <1>12. y.reorder_rx.held = {} /\ o # 0
    BY <1>1 DEF ConnSound, Offsets
  <1>13. ConnSound(z)
    BY <1>1, <1>4, <1>6, <1>12 DEF ConnSound
  <1> QED BY <1>1, <1>5, <1>6, <1>11, <1>13

\* A request fails at any of its steps: no address is lost or left behind.
LEMMA RequestFails ==
    ASSUME ServerInv, NEW c \in ConnIds, NEW q \in StreamIds, conns[c].assigned_ip = 0,
           conns[c].phase \in {"h3", "closing"}, NEW z \in svr_conn_t, ConnSound(z),
           z.phase = "closing", z.assigned_ip = 0, z.tx_scope = conns[c].tx_scope,
           conns' = [conns EXCEPT ![c] = z],
           streams' = [streams EXCEPT ![c][q] = "CONNECT_IP"], tun' = {},
           UNCHANGED <<sessions, n_sessions, clients, serverVars>>,
           pool' \in mqvpn_addr_pool_t, pool'.used = pool.used
    PROVE  ServerInv' /\ OwnerStep /\ FenceStep
  <1>1. /\ ConnsTypeOK' /\ \A d \in ConnIds : ConnSound(conns'[d])
        /\ conns'[c] = z /\ \A d \in ConnIds \ {c} : conns'[d] = conns[d]
    BY OneConn, Zenon DEF ServerInv
  <1>2. \A d \in ConnIds : conns'[d].assigned_ip = conns[d].assigned_ip
    BY <1>1
  <1>3. TableTypeOK' /\ TableInv'
    BY <1>2, TableKept DEF ServerInv
  <1>4. ScopeInv' /\ ScopesTypeOK'
    <2>1. \A d \in ConnIds : /\ conns'[d].tx_scope = conns[d].tx_scope
                             /\ conns'[d].phase = "none" <=> conns[d].phase = "none"
      BY <1>1
    <2> QED BY <2>1, ScopesKept DEF ServerInv, serverVars, ScopesTypeOK
  <1>5. StreamsTypeOK' /\ \A d \in ConnIds \ {c} : streams'[d] = streams[d]
    BY DEF ServerInv, StreamsTypeOK, svr_stream_role_t
  <1>6. StreamInv'
    BY <1>1, <1>5 DEF ServerInv, StreamInv
  <1>7. OwnerStep
    BY <1>1, <1>2, NoTunnelEnds DEF ServerInv
  <1>8. UsersTypeOK' /\ TunTypeOK' /\ FenceStep
    BY DEF ServerInv, UsersTypeOK, TunTypeOK, FenceStep, serverVars
  <1>9. ServerInv'
    BY <1>1, <1>3, <1>4, <1>5, <1>6, <1>8 DEF ServerInv
  <1> QED BY <1>7, <1>8, <1>9

\* A request succeeds: the tunnel is up, with an address that was free.
LEMMA RequestSucceeds ==
    ASSUME ServerInv, NEW c \in ConnIds, NEW q \in StreamIds, conns[c].assigned_ip = 0,
           conns[c].phase \in {"h3", "closing"}, NEW z \in svr_conn_t, ConnSound(z),
           z.phase = conns[c].phase, z.tx_scope = conns[c].tx_scope,
           z.assigned_ip = allocated(pool), z.tunnel_established, z.masque_stream_id = q,
           conns' = [conns EXCEPT ![c] = z],
           streams' = [streams EXCEPT ![c][q] = "CONNECT_IP"], tun' = {}, UNCHANGED serverVars,
           ~exhausted(pool), n_sessions < max_clients,
           pool' = mqvpn_addr_pool_alloc(pool),
           sessions' = [sessions EXCEPT ![allocated(pool)] = c],
           n_sessions' = n_sessions + 1,
           clients' = [clients EXCEPT ![allocated(pool)] = @ + 1]
    PROVE  ServerInv' /\ OwnerStep /\ FenceStep
  <1>1. /\ ConnsTypeOK' /\ \A d \in ConnIds : ConnSound(conns'[d])
        /\ conns'[c] = z /\ \A d \in ConnIds \ {c} : conns'[d] = conns[d]
    BY OneConn, Zenon DEF ServerInv
  <1>2. TableTypeOK' /\ TableInv'
    <2>1. /\ ConnsTypeOK /\ TableTypeOK /\ TableInv
          /\ conns'[c].assigned_ip = allocated(pool)
          /\ \A d \in ConnIds \ {c} : conns'[d].assigned_ip = conns[d].assigned_ip
      BY <1>1 DEF ServerInv
    <2> QED BY <2>1, TableTaken, Zenon
  <1>3. ScopeInv' /\ ScopesTypeOK'
    <2>1. \A d \in ConnIds : /\ conns'[d].tx_scope = conns[d].tx_scope
                             /\ conns'[d].phase = "none" <=> conns[d].phase = "none"
      BY <1>1
    <2> QED BY <2>1, ScopesKept DEF ServerInv, serverVars, ScopesTypeOK
  <1>4. StreamsTypeOK'
    BY DEF ServerInv, StreamsTypeOK, svr_stream_role_t
  <1>5. /\ \A p \in StreamIds \ {q} : streams'[c][p] = streams[c][p]
        /\ \A d \in ConnIds \ {c} : streams'[d] = streams[d]
    BY DEF ServerInv, StreamsTypeOK
  <1>6. ~conns[c].tunnel_established
    BY DEF ServerInv, ConnSound
  <1>7. StreamInv'
    BY <1>1, <1>5, <1>6 DEF ServerInv, StreamInv
  <1>8. OwnerStep
    BY <1>1, <1>6 DEF OwnerStep
  <1>9. UsersTypeOK' /\ TunTypeOK' /\ FenceStep
    BY DEF ServerInv, UsersTypeOK, TunTypeOK, FenceStep, serverVars
  <1>10. ServerInv'
    BY <1>1, <1>2, <1>3, <1>4, <1>7, <1>9 DEF ServerInv
  <1> QED BY <1>8, <1>9, <1>10

\* A CONNECT-IP request is refused as a duplicate, fails or succeeds.
LEMMA StepConnectIp ==
    ASSUME ServerInv, NEW c \in ConnIds, NEW q \in StreamIds, cb_request_read_connect_ip(c, q)
    PROVE  ServerInv' /\ OwnerStep /\ FenceStep
  <1>1. conns[c].phase \in {"h3", "closing"} /\ tun' = {} /\ UNCHANGED serverVars
    BY DEF cb_request_read_connect_ip
  <1>2. conns[c] \in svr_conn_t /\ ConnSound(conns[c]) /\ UsersTypeOK
    BY DEF ServerInv, ConnsTypeOK
  <1>3. CASE duplicate_request(c)
    <2>1. streams' = [streams EXCEPT ![c][q] = "UNKNOWN"] /\ UNCHANGED <<conns, tableVars>>
      BY <1>3 DEF cb_request_read_connect_ip
    <2>2. "UNKNOWN" \in svr_stream_role_t \ {"CONNECT_IP"}
      BY DEF svr_stream_role_t
    <2> QED BY <1>1, <2>1, <2>2, TakesRole, Zenon
  <1>4. CASE ~duplicate_request(c)
    <2>1. streams' = [streams EXCEPT ![c][q] = "CONNECT_IP"]
      BY <1>4 DEF cb_request_read_connect_ip
    <2>2. PICK token \in Keys \cup {NoKey}, reorder \in BOOLEAN :
              svr_connect_ip_on_request(c, q, token, reorder)
      BY <1>4 DEF cb_request_read_connect_ip
    <2>3. conns[c].assigned_ip = 0 /\ ~conns[c].tunnel_established
      BY <1>2, <1>4 DEF duplicate_request, ConnSound
    <2>4. /\ sessions_released(c) = sessions /\ n_sessions_released(c) = n_sessions
          /\ pool_released(c) = pool /\ clients_released(c) = clients
          /\ conn_released(c) = conns[c]
      BY <2>3, NothingToRelease
    <2> DEFINE who  == svr_auth_check(token)
               name == IF svr_auth_required THEN who ELSE conns[c].username
               fresh(e) == [conns[c] EXCEPT !.username = name, !.reorder_rx = e,
                                            !.peer_reorder_supported = reorder]
    <2>5. CASE svr_auth_required /\ who = ""
      <3>1. conns' = [conns EXCEPT ![c].phase = "closing"] /\ UNCHANGED tableVars
        BY <2>2, <2>5, Zenon DEF svr_connect_ip_on_request
      <3>2. StreamsTypeOK' /\ \A d \in ConnIds \ {c} : streams'[d] = streams[d]
        BY <2>1 DEF ServerInv, StreamsTypeOK, svr_stream_role_t
      <3> QED BY <1>1, <3>1, <3>2, StartsClosing, Zenon
    <2>6. CASE ~(svr_auth_required /\ who = "")
      <3>1. PICK e \in svr_conn_reorder_engines_init(conns[c].reorder_rx),
                 swapped \in svr_negotiate_scheduler(conns[c]),
                 how \in {"headers_failed", "capsule_failed", "ok"} :
                     svr_masque_send_response(c, q, fresh(e), swapped, how)
        BY <2>2, <2>4, <2>6, Zenon DEF svr_connect_ip_on_request
      <3> DEFINE y == fresh(e)
                 c1 == [y EXCEPT !.sched_swapped = swapped]
                 o == allocated(pool)
      <3>2. name \in Names \cup {"", "(global)"}
        <4>1. who \in Names \cup {"", "(global)"}
          BY <1>2, AuthName, Zenon
        <4>2. conns[c].username \in Names \cup {"", "(global)"}
          BY <1>2, Zenon DEF svr_conn_t
        <4> HIDE DEF who
        <4> QED BY <4>1, <4>2, Zenon
      <3>3. e \in reorder_rx_t /\ e.held = {}
        <4>1. e = conns[c].reorder_rx \/ e = [on |-> TRUE, held |-> {}]
          BY <3>1 DEF svr_conn_reorder_engines_init
        <4>2. conns[c].reorder_rx \in reorder_rx_t /\ conns[c].reorder_rx.held = {}
          BY <1>2, <2>3, Zenon DEF svr_conn_t, ConnSound
        <4>3. [on |-> TRUE, held |-> {}] \in reorder_rx_t /\ [on |-> TRUE, held |-> {}].held = {}
          BY EngineTypes
        <4> QED BY <4>1, <4>2, <4>3, Zenon
      <3>4. swapped \in BOOLEAN
        BY <1>2, <3>1, Zenon DEF svr_negotiate_scheduler, svr_conn_t
      <3>5. Idle(y, conns[c]) /\ Idle(c1, conns[c])
        <4>1. Idle(conns[c], conns[c])
          BY <1>2, <2>3 DEF Idle
        <4> HIDE DEF name
        <4> QED BY <3>2, <3>3, <3>4, <4>1, NegotiatedConn, Zenon
      <3> HIDE DEF y, c1
      <3>6. svr_session_release(c) <=> UNCHANGED <<sessions, n_sessions, pool, clients>>
        BY <2>4 DEF svr_session_release
      <3>7. pool \in mqvpn_addr_pool_t
        BY DEF ServerInv, TableTypeOK
      <3>8. svr_masque_send_response(c, q, y, swapped, how)
        BY <3>1 DEF y
      <3>9. \/ /\ conns' = [conns EXCEPT ![c] = [y EXCEPT !.phase = "closing"]]
               /\ UNCHANGED <<sessions, n_sessions, pool, clients>>
            \/ /\ conns' = [conns EXCEPT ![c] = [c1 EXCEPT !.phase = "closing"]]
               /\ UNCHANGED <<sessions, n_sessions, pool, clients>>
            \/ /\ conns' = [conns EXCEPT ![c] = [c1 EXCEPT !.phase = "closing",
                                                           !.masque_stream_id = q]]
               /\ UNCHANGED <<sessions, n_sessions, pool, clients>>
            \/ /\ ~exhausted(pool) /\ UNCHANGED <<sessions, n_sessions, clients>>
               /\ pool' = mqvpn_addr_pool_release(mqvpn_addr_pool_alloc(pool), o)
               /\ conns' = [conns EXCEPT ![c] = [c1 EXCEPT !.phase = "closing",
                                                           !.masque_stream_id = 0]]
            \/ /\ n_sessions < max_clients /\ ~exhausted(pool)
               /\ conns' = [conns EXCEPT ![c] = tunnel_up(c1, q, o)]
               /\ pool' = mqvpn_addr_pool_alloc(pool)
               /\ sessions' = [sessions EXCEPT ![o] = c]
               /\ n_sessions' = n_sessions + 1
               /\ clients' = [clients EXCEPT ![o] = @ + 1]
        BY <2>4, <3>6, <3>8, Zenon DEF svr_masque_send_response, fail_release_ip, c1
      <3>10. CASE /\ conns' = [conns EXCEPT ![c] = [y EXCEPT !.phase = "closing"]]
                  /\ UNCHANGED <<sessions, n_sessions, pool, clients>>
        BY <1>1, <2>1, <2>3, <3>5, <3>7, <3>10, FailedConn, RequestFails, Zenon
      <3>11. CASE /\ conns' = [conns EXCEPT ![c] = [c1 EXCEPT !.phase = "closing"]]
                  /\ UNCHANGED <<sessions, n_sessions, pool, clients>>
        BY <1>1, <2>1, <2>3, <3>5, <3>7, <3>11, FailedConn, RequestFails, Zenon
      <3>12. CASE /\ conns' = [conns EXCEPT ![c] = [c1 EXCEPT !.phase = "closing",
                                                              !.masque_stream_id = q]]
                  /\ UNCHANGED <<sessions, n_sessions, pool, clients>>
        <4> DEFINE z == FailedOn(c1, q)
        <4>1. /\ z \in svr_conn_t /\ ConnSound(z) /\ z.phase = "closing"
              /\ z.assigned_ip = 0 /\ z.tx_scope = conns[c].tx_scope
          BY <3>5, FailedOnStream
        <4>2. conns' = [conns EXCEPT ![c] = z]
          BY <3>12 DEF FailedOn
        <4> HIDE DEF z
        <4> QED BY <1>1, <2>1, <2>3, <3>7, <3>12, <4>1, <4>2, RequestFails, Zenon
      <3>13. CASE /\ ~exhausted(pool) /\ UNCHANGED <<sessions, n_sessions, clients>>
                  /\ pool' = mqvpn_addr_pool_release(mqvpn_addr_pool_alloc(pool), o)
                  /\ conns' = [conns EXCEPT ![c] = [c1 EXCEPT !.phase = "closing",
                                                              !.masque_stream_id = 0]]
        <4>1. o \in 2 .. pool_size /\ o \notin pool.used
          BY <3>7, <3>13, AllocatedIsFree
        <4>2. mqvpn_addr_pool_alloc(pool) \in mqvpn_addr_pool_t
              /\ mqvpn_addr_pool_alloc(pool).used = pool.used \cup {o}
          BY <3>7, <3>13, PoolTypes DEF mqvpn_addr_pool_alloc
        <4> HIDE DEF o
        <4>3. pool' \in mqvpn_addr_pool_t /\ pool'.used = (pool.used \cup {o}) \ {o}
          BY <3>13, <4>1, <4>2, PoolTypes
        <4>4. pool'.used = pool.used
          BY <4>1, <4>3
        <4> DEFINE z == FailedOn(c1, 0)
        <4>5. 0 \in StreamIds
          BY ServerAssumption
        <4>6. /\ z \in svr_conn_t /\ ConnSound(z) /\ z.phase = "closing"
              /\ z.assigned_ip = 0 /\ z.tx_scope = conns[c].tx_scope
          BY <3>5, <4>5, FailedOnStream
        <4>7. conns' = [conns EXCEPT ![c] = z]
          BY <3>13 DEF FailedOn
        <4> HIDE DEF z
        <4> QED BY <1>1, <2>1, <2>3, <3>13, <4>3, <4>4, <4>6, <4>7, RequestFails, Zenon
      <3>14. CASE /\ n_sessions < max_clients /\ ~exhausted(pool)
                  /\ conns' = [conns EXCEPT ![c] = tunnel_up(c1, q, o)]
                  /\ pool' = mqvpn_addr_pool_alloc(pool)
                  /\ sessions' = [sessions EXCEPT ![o] = c]
                  /\ n_sessions' = n_sessions + 1
                  /\ clients' = [clients EXCEPT ![o] = @ + 1]
        <4> DEFINE z == tunnel_up(c1, q, o)
        <4>1. o \in Offsets
          <5>1. o \in 2 .. pool_size
            BY <3>7, <3>14, AllocatedIsFree
          <5> QED BY <5>1, PoolSize, PoolAssumption DEF Offsets
        <4>2. c1.phase \in {"h3", "closing"}
          BY <1>1, <3>5 DEF Idle
        <4>3. /\ z \in svr_conn_t /\ ConnSound(z)
              /\ z.phase = conns[c].phase /\ z.tx_scope = conns[c].tx_scope
              /\ z.assigned_ip = o /\ z.tunnel_established /\ z.masque_stream_id = q
          BY <3>5, <4>1, <4>2, TunnelUpConn
        <4>4. conns' = [conns EXCEPT ![c] = z]
          BY <3>14
        <4> HIDE DEF z
        <4> QED BY <1>1, <2>1, <2>3, <3>14, <4>3, <4>4, RequestSucceeds, Zenon
      <3> QED BY <3>9, <3>10, <3>11, <3>12, <3>13, <3>14, Zenon
    <2> QED BY <2>5, <2>6, Zenon
  <1> QED BY <1>3, <1>4

-----------------------------------------------------------------------------
(* The theorems *)

\* The invariant holds when mqvpn_server_new returns.
LEMMA InitSound == Init => ServerInv
  <1> SUFFICES ASSUME Init PROVE ServerInv
    OBVIOUS
  <1>1. svr_conn_free \in svr_conn_t /\ ConnSound(svr_conn_free)
    BY FreeConn, Zenon
  <1>2. svr_conn_free.phase = "none" /\ svr_conn_free.assigned_ip = 0
    BY DEF svr_conn_free
  <1>3. ConnsTypeOK /\ \A c \in ConnIds : conns[c] = svr_conn_free /\ ConnSound(conns[c])
    BY <1>1 DEF Init, ConnsTypeOK
  <1>4. StreamsTypeOK /\ StreamInv
    BY <1>3 DEF Init, StreamsTypeOK, StreamInv, svr_stream_role_t
  <1>5. occupied = {} /\ Cardinality(occupied) = 0
    BY FS_EmptySet, Zenon DEF Init, occupied
  <1>6. pool \in mqvpn_addr_pool_t /\ pool.used = {}
    BY PoolSize DEF Init, mqvpn_addr_pool_init, mqvpn_addr_pool_t
  <1>7. TableTypeOK
    BY <1>6 DEF Init, TableTypeOK
  <1>8. PlatformInSync
    BY <1>5 DEF Init, PlatformInSync
  <1>9. TableInv
    BY <1>2, <1>3, <1>5, <1>6, <1>8, ServerAssumption DEF Init, TableInv
  <1>10. open_conns = {}
    BY <1>2, <1>3 DEF open_conns
  <1>11. ScopesTypeOK
    BY ServerAssumption DEF Init, ScopesTypeOK
  <1>12. \A k \in Scopes : releases[k] = 0 /\ ~(k <= next_tx_scope)
    BY DEF Init, Scopes
  <1>13. ScopeInv
    BY <1>10, <1>12 DEF Init, ScopeInv, ScopesReleasedOnce
  <1>14. UsersTypeOK /\ TunTypeOK
    BY ServerAssumption DEF Init, UsersTypeOK, TunTypeOK
  <1> QED BY <1>3, <1>4, <1>7, <1>9, <1>11, <1>13, <1>14 DEF ServerInv

\* Every step keeps it, and is one that both action properties allow.
LEMMA NextSound == ServerInv /\ [Next]_vars => ServerInv' /\ [OwnerStep /\ FenceStep]_vars
  <1>1. SUFFICES ASSUME ServerInv, Next PROVE ServerInv' /\ OwnerStep /\ FenceStep
    <2>1. ASSUME ServerInv, UNCHANGED vars PROVE ServerInv'
      <3>1. \A c \in ConnIds : ConnSound(conns'[c]) /\ Keeps(c)
        BY <2>1 DEF vars, ServerInv, Keeps
      <3>2. ConnsTypeOK' /\ StreamsTypeOK' /\ UsersTypeOK' /\ TunTypeOK' /\ StreamInv'
        BY <2>1 DEF vars, ServerInv, ConnsTypeOK, StreamsTypeOK, UsersTypeOK, TunTypeOK, StreamInv
      <3>3. UNCHANGED <<tableVars, next_tx_scope, releases, transport>>
        BY <2>1 DEF vars, tableVars
      <3> QED BY <2>1, <3>1, <3>2, <3>3, QuietStep
    <2> QED BY <2>1
  <1>2. ASSUME NEW c \in ConnIds,
               \/ transport = "installed" /\ cb_accept(c)
               \/ cb_refuse(c) \/ cb_h3_conn_create(c)
               \/ xqc_conn_closing(c) \/ cb_h3_conn_close(c)
        PROVE  ServerInv' /\ OwnerStep /\ FenceStep
    BY <1>1, <1>2, StepAccept, StepRefuse, StepH3Create, StepConnClosing, StepConnClose
  <1>3. ASSUME NEW c \in ConnIds, NEW q \in StreamIds,
               \/ cb_request_create(c, q) \/ cb_request_close(c, q)
               \/ cb_request_read_connect_ip(c, q) \/ cb_request_read_bad(c, q)
               \/ cb_request_read_other(c, q)
               \/ \E src \in Sources : cb_dgram_read(c, q, src)
        PROVE  ServerInv' /\ OwnerStep /\ FenceStep
    BY <1>1, <1>3, StepRequestOther, StepRequestClose, StepConnectIp, StepRequestBad, StepDgram
  <1>4. CASE mqvpn_server_tick
    BY <1>1, <1>4, StepTick
  <1>5. ASSUME NEW name \in Names,
               mqvpn_server_remove_user(name) \/ \E key \in Keys : mqvpn_server_add_user(name, key)
        PROVE  ServerInv' /\ OwnerStep /\ FenceStep
    BY <1>1, <1>5, StepRemoveUser, StepAddUser
  <1>6. CASE mqvpn_server_destroy
    BY <1>1, <1>6, StepDestroy
  <1> QED BY <1>1, <1>2, <1>3, <1>4, <1>5, <1>6, Zenon DEF Next

\* The invariant of the server holds in every state.
THEOREM ServerInvariant == Spec => []ServerInv
  BY InitSound, NextSound, PTL DEF Spec

\* svr_check_session_invariants never fails, max_clients is never exceeded, and a
\* client that was told to stamp its packets keeps its reorder engine.
THEOREM SessionsAlwaysSound == Spec => []SessionInvariants
  <1>1. ServerInv => SessionInvariants
    <2> SUFFICES ASSUME ServerInv PROVE SessionInvariants
      OBVIOUS
    <2>1. TypeOK
      BY DEF ServerInv, TypeOK, ConnsTypeOK, StreamsTypeOK, TableTypeOK, UsersTypeOK,
         ScopesTypeOK, TunTypeOK
    <2>2. \A c \in ConnIds :
              conns[c].echoed => conns[c].tunnel_established /\ conns[c].reorder_rx.on
      BY DEF ServerInv, ConnSound
    <2> QED BY <2>1, <2>2 DEF ServerInv, TableInv, SessionInvariants
  <1> QED BY <1>1, ServerInvariant, PTL

\* The addresses in use are those of the live tunnels, whichever step of setting
\* one up or ending it fails.
THEOREM PoolAlwaysMatches == Spec => []PoolMatchesSessions
  <1>1. ServerInv => PoolMatchesSessions
    <2> SUFFICES ASSUME ServerInv PROVE PoolMatchesSessions
      OBVIOUS
    <2>1. \A c \in ConnIds : conns[c].assigned_ip \in {0} \cup Offsets
      BY Zenon DEF ServerInv, ConnsTypeOK, svr_conn_t
    <2>2. \A o \in occupied : sessions[o] \in ConnIds /\ conns[sessions[o]].assigned_ip = o /\ o # 0
      BY DEF ServerInv, TableInv, TableTypeOK, occupied, Offsets
    <2>3. \A c \in ConnIds : conns[c].assigned_ip # 0 => conns[c].assigned_ip \in occupied
      BY <2>1, ServerAssumption DEF ServerInv, TableInv, occupied
    <2>4. occupied = {conns[c].assigned_ip : c \in ConnIds} \ {0}
      BY <2>2, <2>3
    <2>5. \A c \in ConnIds :
              /\ conns[c].tunnel_established <=> conns[c].assigned_ip # 0
              /\ conns[c].assigned_ip # 0 => sessions[conns[c].assigned_ip] = c
      BY DEF ServerInv, ConnSound, TableInv
    <2> QED BY <2>4, <2>5 DEF ServerInv, TableInv, PoolMatchesSessions
  <1> QED BY <1>1, ServerInvariant, PTL

\* No address is refused while one is free, the platform hears of each session
\* once, and every transport scope is released exactly once.
THEOREM AdmissionAlwaysSound == Spec => []AdmissionSound
  <1>1. ServerInv => AdmissionSound
    BY ExhaustedMeansFull
    DEF ServerInv, TableTypeOK, TableInv, ScopeInv, AdmissionSound, NoEarlyExhaustion
  <1> QED BY <1>1, ServerInvariant, PTL

\* Only its own stream ends the tunnel of a healthy connection.
THEOREM OnlyOwnerEnds == Spec => OnlyOwnerEndsTunnel
  <1>1. ServerInv /\ [Next]_vars => [OwnerStep]_vars
    BY NextSound
  <1> QED BY <1>1, ServerInvariant, PTL DEF Spec, OnlyOwnerEndsTunnel, OwnerStep

\* No packet reaches the TUN device from another tunnel than the one it was sent on.
THEOREM FenceHolds == Spec => GenerationFence
  <1>1. ServerInv /\ [Next]_vars => [FenceStep]_vars
    BY NextSound
  <1> QED BY <1>1, ServerInvariant, PTL DEF Spec, GenerationFence, FenceStep
=============================================================================
