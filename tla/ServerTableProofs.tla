-------------------------- MODULE ServerTableProofs --------------------------
(***************************************************************************)
(* What the proofs about the server's sessions rest on: the scan of the    *)
(* address pool, the effect on the session table of giving a connection an *)
(* address and of taking it back, the inductive invariant, and the steps   *)
(* that leave the session table and the transport scopes alone (requests   *)
(* for other parts of the server, packets, users).                         *)
(***************************************************************************)
EXTENDS ServerSessions, FiniteSetTheorems, SequenceTheorems, WellFoundedInduction,
        NaturalsInduction, TLAPS

-----------------------------------------------------------------------------
(* The address pool *)

\* The pool has room for the server and at least one client.
LEMMA PoolSize == pool_size \in Nat /\ 2 <= pool_size /\ pool_size <= MQVPN_ADDR_POOL_MAX
  BY PoolAssumption DEF pool_size

\* A set of naturals that is not empty has a smallest element.
LEMMA LeastOf ==
    ASSUME NEW T \in SUBSET Nat, T # {}
    PROVE  \E x \in T : \A y \in T : x <= y
  <1>1. PICK x \in T : \A y \in T : ~(<<y, x>> \in OpToRel(<, Nat))
    BY NatLessThanWellFounded, WFMin, Zenon
  <1>2. \A y \in T : y < x => <<y, x>> \in OpToRel(<, Nat)
    BY Zenon DEF OpToRel
  <1>3. \A y \in T : ~(y < x)
    BY <1>1, <1>2, Zenon
  <1> QED BY <1>3

\* A remainder is below its divisor.
LEMMA RemainderBelow ==
    ASSUME NEW a \in Nat, NEW n \in Nat \ {0}
    PROVE  a % n \in 0 .. n - 1
  OBVIOUS

\* A number below the divisor is its own remainder, and one less than twice the
\* divisor leaves what is beyond it.
LEMMA SmallRemainder ==
    ASSUME NEW n \in Nat \ {0}, NEW a \in 0 .. n - 1
    PROVE  a % n = a /\ (a + n) % n = a
  OBVIOUS

\* Every offset the scan looks at is in the pool.
LEMMA ProbeInPool ==
    ASSUME NEW p \in mqvpn_addr_pool_t, NEW i \in 0 .. pool_size - 1
    PROVE  probe(p, i) \in 1 .. pool_size
  <1>1. p.next - 1 + i \in Nat
    BY PoolSize DEF mqvpn_addr_pool_t
  <1>2. pool_size \in Nat \ {0}
    BY PoolSize
  <1>3. (p.next - 1 + i) % pool_size \in 0 .. pool_size - 1
    BY <1>1, <1>2, RemainderBelow, Zenon
  <1> QED BY <1>2, <1>3 DEF probe

\* The scan looks at every offset, wherever it starts.
LEMMA ProbeReaches ==
    ASSUME NEW p \in mqvpn_addr_pool_t, NEW o \in 1 .. pool_size
    PROVE  \E i \in 0 .. pool_size - 1 : probe(p, i) = o
  <1>1. p.next \in 2 .. pool_size + 1 /\ pool_size \in Nat \ {0}
    BY PoolSize DEF mqvpn_addr_pool_t
  <1>2. CASE p.next <= o
    <2>1. o - p.next \in 0 .. pool_size - 1 /\ o - 1 \in 0 .. pool_size - 1
      BY <1>1, <1>2
    <2>2. p.next - 1 + (o - p.next) = o - 1
      BY <1>1
    <2>3. (o - 1) % pool_size = o - 1
      BY <1>1, <2>1, SmallRemainder, Zenon
    <2>4. probe(p, o - p.next) = o
      BY <2>2, <2>3 DEF probe
    <2> QED BY <2>1, <2>4
  <1>3. CASE o < p.next
    <2>1. o - p.next + pool_size \in Int /\ o - 1 \in 0 .. pool_size - 1
      BY <1>1
    <2>2. CASE o = 1 /\ p.next = pool_size + 1
      <3>1. p.next - 1 + 0 = 0 + pool_size
        BY <1>1, <2>2
      <3>2. (0 + pool_size) % pool_size = 0
        BY <1>1, SmallRemainder
      <3>3. probe(p, 0) = o
        BY <3>1, <3>2, <2>2 DEF probe
      <3> QED BY <3>3, <1>1
    <2>3. CASE ~(o = 1 /\ p.next = pool_size + 1)
      <3>1. o - p.next + pool_size \in 0 .. pool_size - 1
        BY <1>1, <1>3, <2>3
      <3>2. p.next - 1 + (o - p.next + pool_size) = (o - 1) + pool_size
        BY <1>1
      <3>3. ((o - 1) + pool_size) % pool_size = o - 1
        BY <1>1, <2>1, SmallRemainder
      <3>4. probe(p, o - p.next + pool_size) = o
        BY <3>2, <3>3 DEF probe
      <3> QED BY <3>1, <3>4
    <2> QED BY <2>2, <2>3
  <1> QED BY <1>1, <1>2, <1>3

\* mqvpn_addr_pool_alloc reports exhaustion exactly when every address but the
\* server's is taken.
LEMMA ExhaustedMeansFull ==
    ASSUME NEW p \in mqvpn_addr_pool_t
    PROVE  exhausted(p) <=> p.used = 2 .. pool_size
  <1>1. p.used \subseteq 2 .. pool_size
    BY DEF mqvpn_addr_pool_t
  <1>2. ASSUME exhausted(p) PROVE p.used = 2 .. pool_size
    <2>1. SUFFICES ASSUME NEW o \in 2 .. pool_size PROVE o \in p.used
      BY <1>1, Zenon
    <2>2. o \in 1 .. pool_size /\ o # 1
      BY PoolSize
    <2>3. PICK i \in 0 .. pool_size - 1 : probe(p, i) = o
      BY <2>2, ProbeReaches
    <2> QED BY <1>2, <2>2, <2>3 DEF exhausted, free, SERVER_OFFSET
  <1>3. ASSUME p.used = 2 .. pool_size PROVE exhausted(p)
    <2>1. SUFFICES ASSUME NEW i \in 0 .. pool_size - 1 PROVE ~free(p, i)
      BY DEF exhausted
    <2>2. probe(p, i) \in 1 .. pool_size
      BY ProbeInPool
    <2> QED BY <1>3, <2>2, PoolSize DEF free, SERVER_OFFSET
  <1> QED BY <1>2, <1>3

\* Otherwise it hands out an address that nobody has, and not the server's.
LEMMA AllocatedIsFree ==
    ASSUME NEW p \in mqvpn_addr_pool_t, ~exhausted(p)
    PROVE  allocated(p) \in 2 .. pool_size /\ allocated(p) \notin p.used
  <1> DEFINE Frees == {k \in 0 .. pool_size - 1 : free(p, k)}
             first(k) == free(p, k) /\ \A j \in 0 .. k - 1 : ~free(p, j)
             i == CHOOSE k \in 0 .. pool_size - 1 : first(k)
  <1>1. Frees \in SUBSET Nat /\ Frees # {}
    BY PoolSize DEF exhausted
  <1>2. PICK k \in Frees : \A j \in Frees : k <= j
    BY <1>1, LeastOf, Zenon
  <1>3. \A j \in 0 .. k - 1 : j \in 0 .. pool_size - 1 /\ ~(k <= j)
    BY PoolSize
  <1>4. first(k)
    BY <1>2, <1>3
  <1>5. i \in 0 .. pool_size - 1 /\ first(i)
    BY <1>4
  <1>6. allocated(p) = probe(p, i)
    BY DEF allocated
  <1> HIDE DEF i
  <1>7. probe(p, i) \in 1 .. pool_size
    BY <1>5, ProbeInPool
  <1> QED BY <1>5, <1>6, <1>7, PoolSize DEF free, SERVER_OFFSET

\* A pool stays a pool when an address is taken and when one is given back.
LEMMA PoolTypes ==
    ASSUME NEW p \in mqvpn_addr_pool_t
    PROVE  /\ ~exhausted(p) => mqvpn_addr_pool_alloc(p) \in mqvpn_addr_pool_t
           /\ \A o : /\ mqvpn_addr_pool_release(p, o) \in mqvpn_addr_pool_t
                     /\ o \in 2 .. pool_size =>
                           mqvpn_addr_pool_release(p, o).used = p.used \ {o}
  <1>1. ASSUME ~exhausted(p) PROVE mqvpn_addr_pool_alloc(p) \in mqvpn_addr_pool_t
    <2>1. allocated(p) \in 2 .. pool_size
      BY <1>1, AllocatedIsFree
    <2> HIDE DEF allocated
    <2> QED BY <2>1, PoolSize DEF mqvpn_addr_pool_alloc, mqvpn_addr_pool_t
  <1>2. \A o : /\ mqvpn_addr_pool_release(p, o) \in mqvpn_addr_pool_t
               /\ o \in 2 .. pool_size =>
                     mqvpn_addr_pool_release(p, o).used = p.used \ {o}
    BY PoolSize DEF mqvpn_addr_pool_release, mqvpn_addr_pool_t
  <1> QED BY <1>1, <1>2

-----------------------------------------------------------------------------
(* The session table *)

ConnsTypeOK == conns \in [ConnIds -> svr_conn_t]

TableTypeOK ==
    /\ sessions \in [Offsets -> ConnIds \cup {NoConn}]
    /\ n_sessions \in Nat
    /\ pool \in mqvpn_addr_pool_t
    /\ clients \in [Offsets -> Int]

\* Connections with an address and occupied slots match one to one, the pool has
\* the occupied slots in use, and both counts agree with them.
TableInv ==
    /\ \A c \in ConnIds : conns[c].assigned_ip # 0 => sessions[conns[c].assigned_ip] = c
    /\ \A o \in occupied : conns[sessions[o]].assigned_ip = o
    /\ pool.used = occupied
    /\ n_sessions = Cardinality(occupied)
    /\ n_sessions <= max_clients
    /\ PlatformInSync

\* Slots of the table are finitely many.
LEMMA OccupiedFinite == IsFiniteSet(occupied) /\ Cardinality(occupied) \in Nat
  <1>1. IsFiniteSet(Offsets)
    BY PoolAssumption, FS_Interval DEF Offsets
  <1>2. occupied \subseteq Offsets
    BY DEF occupied
  <1> QED BY <1>1, <1>2, FS_Subset, FS_CardinalityType

\* A step that changes no address and no slot keeps the table sound.
LEMMA TableKept ==
    ASSUME TableTypeOK, TableInv,
           \A c \in ConnIds : conns'[c].assigned_ip = conns[c].assigned_ip,
           UNCHANGED <<sessions, n_sessions, clients>>,
           pool' \in mqvpn_addr_pool_t, pool'.used = pool.used
    PROVE  TableTypeOK' /\ TableInv'
  <1>1. TableTypeOK'
    BY DEF TableTypeOK
  <1>2. occupied' = occupied
    BY DEF occupied
  <1>3. \A o \in occupied : sessions[o] \in ConnIds
    BY DEF occupied, TableTypeOK
  <1>4. TableInv'
    BY <1>2, <1>3 DEF TableInv, PlatformInSync
  <1> QED BY <1>1, <1>4

\* A connection without an address has nothing to release.
LEMMA NothingToRelease ==
    ASSUME NEW c \in ConnIds, conns[c].assigned_ip = 0
    PROVE  /\ sessions_released(c) = sessions /\ n_sessions_released(c) = n_sessions
           /\ pool_released(c) = pool /\ clients_released(c) = clients
           /\ conn_released(c) = conns[c]
  BY DEF sessions_released, n_sessions_released, pool_released, clients_released,
         conn_released, deregisters, releasing

\* svr_session_release takes the connection's address back and nothing else.
LEMMA TableReleased ==
    ASSUME ConnsTypeOK, TableTypeOK, TableInv, NEW c \in ConnIds,
           svr_session_release(c), conns'[c].assigned_ip = 0,
           \A d \in ConnIds \ {c} : conns'[d].assigned_ip = conns[d].assigned_ip
    PROVE  TableTypeOK' /\ TableInv'
  <1>1. CASE conns[c].assigned_ip = 0
    <2>1. UNCHANGED <<sessions, n_sessions, clients, pool>>
      BY <1>1, NothingToRelease DEF svr_session_release
    <2>2. \A d \in ConnIds : conns'[d].assigned_ip = conns[d].assigned_ip
      BY <1>1
    <2> QED BY <2>1, <2>2, TableKept DEF TableTypeOK
  <1>2. CASE conns[c].assigned_ip # 0
    <2> DEFINE o == conns[c].assigned_ip
    <2>1. o \in Offsets /\ sessions[o] = c /\ c # NoConn
      BY <1>2, ServerAssumption, Zenon DEF ConnsTypeOK, svr_conn_t, TableInv
    <2>2. o \in occupied
      BY <2>1 DEF occupied
    <2>3. o \in 2 .. pool_size
      BY <2>2 DEF TableInv, TableTypeOK, mqvpn_addr_pool_t
    <2>4. /\ sessions' = [sessions EXCEPT ![o] = NoConn]
          /\ n_sessions' = n_sessions - 1
          /\ clients' = [clients EXCEPT ![o] = @ - 1]
          /\ pool' = mqvpn_addr_pool_release(pool, o)
      BY <1>2, <2>1 DEF svr_session_release, sessions_released, n_sessions_released,
         clients_released, pool_released, deregisters, releasing
    <2>5. pool' \in mqvpn_addr_pool_t /\ pool'.used = pool.used \ {o}
      BY <2>3, <2>4, PoolTypes, Zenon DEF TableTypeOK
    <2>6. occupied' = occupied \ {o}
      BY <2>1, <2>4 DEF occupied, TableTypeOK
    <2>7. Cardinality(occupied') = Cardinality(occupied) - 1 /\ Cardinality(occupied') \in Nat
      BY <2>2, <2>6, OccupiedFinite, FS_RemoveElement, FS_CardinalityType, Zenon
    <2> HIDE DEF o
    <2>8. TableTypeOK'
      BY <2>1, <2>4, <2>5, <2>7 DEF TableTypeOK, TableInv
    <2>9. \A d \in ConnIds : conns'[d].assigned_ip # 0 =>
              conns'[d].assigned_ip # o /\ sessions'[conns'[d].assigned_ip] = d
      <3>1. SUFFICES ASSUME NEW d \in ConnIds, conns'[d].assigned_ip # 0
                     PROVE  conns'[d].assigned_ip # o /\ sessions'[conns'[d].assigned_ip] = d
        OBVIOUS
      <3>2. d # c /\ conns'[d].assigned_ip = conns[d].assigned_ip
        BY <3>1
      <3>3. conns[d].assigned_ip \in Offsets /\ sessions[conns[d].assigned_ip] = d
        BY <3>1, <3>2, Zenon DEF ConnsTypeOK, svr_conn_t, TableInv
      <3> QED BY <2>1, <2>4, <3>2, <3>3 DEF TableTypeOK
    <2>10. \A x \in occupied' : conns'[sessions'[x]].assigned_ip = x
      <3>1. SUFFICES ASSUME NEW x \in occupied, x # o
                     PROVE  conns'[sessions'[x]].assigned_ip = x
        BY <2>6
      <3>2. x \in Offsets /\ sessions[x] \in ConnIds /\ conns[sessions[x]].assigned_ip = x
        BY DEF occupied, TableTypeOK, TableInv
      <3>3. sessions[x] # c /\ sessions'[x] = sessions[x]
        BY <2>4, <3>1, <3>2 DEF TableTypeOK, o
      <3> QED BY <3>2, <3>3
    <2>11. PlatformInSync'
      BY <2>1, <2>2, <2>4, <2>6 DEF PlatformInSync, TableInv, TableTypeOK
    <2> QED BY <2>5, <2>6, <2>7, <2>8, <2>9, <2>10, <2>11, <2>4, ServerAssumption
            DEF TableInv, TableTypeOK
  <1> QED BY <1>1, <1>2

\* A connection without an address gets one that is free, with the slot to it.
LEMMA TableTaken ==
    ASSUME ConnsTypeOK, TableTypeOK, TableInv, NEW c \in ConnIds,
           conns[c].assigned_ip = 0, ~exhausted(pool), n_sessions < max_clients,
           pool' = mqvpn_addr_pool_alloc(pool),
           sessions' = [sessions EXCEPT ![allocated(pool)] = c],
           n_sessions' = n_sessions + 1,
           clients' = [clients EXCEPT ![allocated(pool)] = @ + 1],
           conns'[c].assigned_ip = allocated(pool),
           \A d \in ConnIds \ {c} : conns'[d].assigned_ip = conns[d].assigned_ip
    PROVE  TableTypeOK' /\ TableInv'
  <1> DEFINE o == allocated(pool)
  <1>1. o \in 2 .. pool_size /\ o \notin pool.used
    BY AllocatedIsFree DEF TableTypeOK
  <1>2. o \in Offsets /\ o \notin occupied /\ c # NoConn /\ o # 0
    BY <1>1, PoolSize, PoolAssumption, ServerAssumption DEF TableInv, Offsets
  <1>3. pool' \in mqvpn_addr_pool_t /\ pool'.used = pool.used \cup {o}
    BY PoolTypes DEF TableTypeOK, mqvpn_addr_pool_alloc
  <1> HIDE DEF o
  <1>4. /\ sessions' = [sessions EXCEPT ![o] = c]
        /\ clients' = [clients EXCEPT ![o] = @ + 1]
        /\ conns'[c].assigned_ip = o
    BY DEF o
  <1>5. occupied' = occupied \cup {o}
    BY <1>2, <1>4 DEF occupied, TableTypeOK
  <1>6. Cardinality(occupied') = Cardinality(occupied) + 1
    BY <1>2, <1>5, OccupiedFinite, FS_AddElement, Zenon
  <1>7. TableTypeOK'
    BY <1>2, <1>3, <1>4 DEF TableTypeOK
  <1>8. sessions[o] = NoConn
    BY <1>2 DEF occupied
  <1>9. \A d \in ConnIds : conns'[d].assigned_ip # 0 => sessions'[conns'[d].assigned_ip] = d
    <2>1. SUFFICES ASSUME NEW d \in ConnIds, conns'[d].assigned_ip # 0
                   PROVE  sessions'[conns'[d].assigned_ip] = d
      OBVIOUS
    <2>2. CASE d = c
      BY <1>2, <1>4, <2>2 DEF TableTypeOK
    <2>3. CASE d # c
      <3>1. conns'[d].assigned_ip = conns[d].assigned_ip
        BY <2>3
      <3>2. conns[d].assigned_ip \in Offsets /\ sessions[conns[d].assigned_ip] = d
        BY <2>1, <3>1, Zenon DEF ConnsTypeOK, svr_conn_t, TableInv
      <3> QED BY <1>4, <1>8, <3>1, <3>2, ServerAssumption DEF TableTypeOK
    <2> QED BY <2>2, <2>3
  <1>10. \A x \in occupied' : conns'[sessions'[x]].assigned_ip = x
    <2>1. SUFFICES ASSUME NEW x \in occupied' PROVE conns'[sessions'[x]].assigned_ip = x
      OBVIOUS
    <2>2. CASE x = o
      BY <1>2, <1>4, <2>2 DEF TableTypeOK
    <2>3. CASE x # o
      <3>1. x \in Offsets /\ sessions[x] \in ConnIds /\ conns[sessions[x]].assigned_ip = x
        BY <1>5, <2>1, <2>3 DEF occupied, TableTypeOK, TableInv
      <3>2. sessions'[x] = sessions[x]
        BY <1>4, <2>3, <3>1 DEF TableTypeOK
      <3>3. x # 0 /\ sessions[x] # c
        BY <3>1 DEF Offsets
      <3> QED BY <3>1, <3>2, <3>3
    <2> QED BY <2>2, <2>3
  <1>11. PlatformInSync'
    BY <1>2, <1>4, <1>5 DEF PlatformInSync, TableInv, TableTypeOK
  <1> QED BY <1>3, <1>5, <1>6, <1>7, <1>9, <1>10, <1>11, ServerAssumption
          DEF TableInv, TableTypeOK

-----------------------------------------------------------------------------
(* The inductive invariant *)

StreamsTypeOK == streams \in [ConnIds -> [StreamIds -> svr_stream_role_t]]

UsersTypeOK ==
    users \in Seq([name : Names, key : Keys]) /\ Len(users) <= MQVPN_MAX_USERS

ScopesTypeOK ==
    /\ next_tx_scope \in 0 .. MaxScope
    /\ releases \in [Scopes -> Nat]
    /\ transport \in {"installed", "released"}

TunTypeOK == tun \subseteq [conn : ConnIds, packet : Packets]

\* A connection has an address exactly while its tunnel is up, its engine holds
\* only packets of that tunnel, and it was promised an engine only if it has one.
ConnSound(r) ==
    /\ r.tunnel_established <=> r.assigned_ip # 0
    /\ \A p \in r.reorder_rx.held : r.tunnel_established /\ p[1] = r.masque_stream_id
    /\ r.echoed => r.tunnel_established /\ r.reorder_rx.on
    /\ r.phase \in {"none", "accepted"} => ~r.tunnel_established

\* Streams come with the H3 connection, and the only CONNECT-IP stream of a
\* healthy one is that of its tunnel.
StreamInv ==
    \A c \in ConnIds :
        /\ conns[c].phase \in {"none", "accepted"} =>
              \A q \in StreamIds : streams[c][q] = "none"
        /\ conns[c].phase = "h3" =>
              \A q \in StreamIds : streams[c][q] = "CONNECT_IP" =>
                  conns[c].tunnel_established /\ q = conns[c].masque_stream_id

ScopeInv ==
    /\ ScopesReleasedOnce
    /\ \A c \in open_conns : conns[c].tx_scope \in 1 .. next_tx_scope

ServerInv ==
    /\ ConnsTypeOK /\ StreamsTypeOK /\ TableTypeOK /\ UsersTypeOK /\ ScopesTypeOK /\ TunTypeOK
    /\ \A c \in ConnIds : ConnSound(conns[c])
    /\ TableInv
    /\ StreamInv
    /\ ScopeInv

\* The step that OnlyOwnerEndsTunnel allows.
OwnerStep ==
    \A c \in ConnIds :
        LET q == conns[c].masque_stream_id
        IN  /\ conns[c].phase = "h3" /\ conns[c].tunnel_established
            /\ ~conns'[c].tunnel_established /\ transport' = "installed"
            => streams[c][q] = "CONNECT_IP" /\ streams'[c][q] = "closed"

\* The step that GenerationFence allows.
FenceStep ==
    \A d \in tun' :
        LET k == conns[d.conn]
        IN  /\ k.tunnel_established
            /\ d.packet = <<k.masque_stream_id, k.assigned_ip>>
            /\ sessions[k.assigned_ip] = d.conn

-----------------------------------------------------------------------------
(* Connections *)

\* Writing one field of svr_conn_t keeps the connection well typed.
LEMMA WriteConn ==
    ASSUME NEW r \in svr_conn_t
    PROVE  /\ \A v \in {"none", "accepted", "h3", "closing"} :
                  [r EXCEPT !.phase = v] \in svr_conn_t
           /\ \A v \in 0 .. MaxScope       : [r EXCEPT !.tx_scope = v] \in svr_conn_t
           /\ \A v \in {0} \cup Offsets    : [r EXCEPT !.assigned_ip = v] \in svr_conn_t
           /\ \A v \in StreamIds           : [r EXCEPT !.masque_stream_id = v] \in svr_conn_t
           /\ \A v \in BOOLEAN             : [r EXCEPT !.tunnel_established = v] \in svr_conn_t
           /\ \A v \in Names \cup {"", "(global)"} : [r EXCEPT !.username = v] \in svr_conn_t
           /\ \A v \in reorder_rx_t        : [r EXCEPT !.reorder_rx = v] \in svr_conn_t
           /\ \A v \in BOOLEAN : [r EXCEPT !.peer_reorder_supported = v] \in svr_conn_t
           /\ \A v \in BOOLEAN             : [r EXCEPT !.sched_swapped = v] \in svr_conn_t
           /\ \A v \in BOOLEAN             : [r EXCEPT !.checked = v] \in svr_conn_t
           /\ \A v \in BOOLEAN             : [r EXCEPT !.echoed = v] \in svr_conn_t
  BY Zenon DEF svr_conn_t

\* Engines: none, an empty one, and what is left of one that delivered packets.
LEMMA EngineTypes ==
    /\ NoEngine \in reorder_rx_t /\ NoEngine.held = {}
    /\ [on |-> TRUE, held |-> {}] \in reorder_rx_t
  BY DEF NoEngine, reorder_rx_t

\* A connection context that is not in use is sound, and so is a new one.
LEMMA FreeConn ==
    /\ svr_conn_free \in svr_conn_t /\ ConnSound(svr_conn_free)
    /\ \A k \in 0 .. MaxScope :
          LET r == [svr_conn_free EXCEPT !.phase = "accepted", !.tx_scope = k]
          IN  /\ r \in svr_conn_t /\ ConnSound(r)
              /\ r.phase = "accepted" /\ r.tx_scope = k /\ r.assigned_ip = 0
  <1>1. svr_conn_free \in svr_conn_t
    BY EngineTypes, ServerAssumption DEF svr_conn_free, svr_conn_t
  <1>2. ConnSound(svr_conn_free)
    BY EngineTypes DEF svr_conn_free, ConnSound
  <1>3. ASSUME NEW k \in 0 .. MaxScope
        PROVE  LET r == [svr_conn_free EXCEPT !.phase = "accepted", !.tx_scope = k]
               IN  /\ r \in svr_conn_t /\ ConnSound(r)
                   /\ r.phase = "accepted" /\ r.tx_scope = k /\ r.assigned_ip = 0
    <2> DEFINE r1 == [svr_conn_free EXCEPT !.phase = "accepted"]
               r == [svr_conn_free EXCEPT !.phase = "accepted", !.tx_scope = k]
    <2>1. r1 \in svr_conn_t
      BY <1>1, WriteConn, Zenon
    <2>2. r = [r1 EXCEPT !.tx_scope = k]
      BY DEF svr_conn_free
    <2>3. r \in svr_conn_t
      <3> HIDE DEF r, r1
      <3> QED BY <2>1, <2>2, WriteConn, Zenon
    <2>4. ConnSound(r)
      BY EngineTypes DEF svr_conn_free, ConnSound
    <2>5. r.phase = "accepted" /\ r.tx_scope = k /\ r.assigned_ip = 0
      BY DEF svr_conn_free
    <2> QED BY <2>3, <2>4, <2>5
  <1> QED BY <1>1, <1>2, <1>3, Zenon

\* A sound connection that starts closing is sound.
LEMMA ClosingConn ==
    ASSUME NEW r \in svr_conn_t, ConnSound(r)
    PROVE  LET x == [r EXCEPT !.phase = "closing"]
           IN  /\ x \in svr_conn_t /\ ConnSound(x)
               /\ x.phase = "closing" /\ x.tx_scope = r.tx_scope
               /\ x.assigned_ip = r.assigned_ip
  <1>1. [r EXCEPT !.phase = "closing"] \in svr_conn_t
    BY WriteConn, Zenon
  <1> QED BY <1>1, Zenon DEF ConnSound, svr_conn_t

\* A step that changes one connection.
LEMMA OneConn ==
    ASSUME ConnsTypeOK, \A d \in ConnIds : ConnSound(conns[d]), NEW c \in ConnIds,
           NEW r \in svr_conn_t, ConnSound(r), conns' = [conns EXCEPT ![c] = r]
    PROVE  /\ ConnsTypeOK' /\ \A d \in ConnIds : ConnSound(conns'[d])
           /\ conns'[c] = r /\ \A d \in ConnIds \ {c} : conns'[d] = conns[d]
  <1>1. conns'[c] = r /\ \A d \in ConnIds \ {c} : conns'[d] = conns[d]
    BY DEF ConnsTypeOK
  <1>2. \A d \in ConnIds : conns'[d] = r \/ conns'[d] = conns[d]
    BY <1>1
  <1>3. \A d \in ConnIds : ConnSound(conns'[d])
    BY <1>2
  <1>4. ConnsTypeOK'
    BY DEF ConnsTypeOK
  <1> QED BY <1>1, <1>3, <1>4

-----------------------------------------------------------------------------
(* Transport scopes *)

\* What a step that opens and frees no connection leaves alone.
Keeps(c) ==
    /\ conns'[c].assigned_ip = conns[c].assigned_ip
    /\ conns'[c].tx_scope = conns[c].tx_scope
    /\ conns'[c].phase = "none" <=> conns[c].phase = "none"

\* The scopes stay accounted for while connections stay open.
LEMMA ScopesKept ==
    ASSUME ScopeInv, UNCHANGED <<next_tx_scope, releases, transport>>,
           \A c \in ConnIds : /\ conns'[c].tx_scope = conns[c].tx_scope
                              /\ conns'[c].phase = "none" <=> conns[c].phase = "none"
    PROVE  ScopeInv'
  <1>1. open_conns' = open_conns /\ open_conns \subseteq ConnIds
    BY DEF open_conns
  <1>2. \A c \in open_conns : conns'[c].tx_scope = conns[c].tx_scope
    BY <1>1
  <1>3. ScopesReleasedOnce'
    <2>1. \A k \in Scopes : (\A c \in open_conns : conns'[c].tx_scope # k)
                            <=> (\A c \in open_conns : conns[c].tx_scope # k)
      BY <1>2
    <2>2. \A k \in Scopes :
              releases[k] = IF k <= next_tx_scope /\ \A c \in open_conns : conns'[c].tx_scope # k
                            THEN 1 ELSE 0
      BY <2>1 DEF ScopeInv, ScopesReleasedOnce
    <2>3. \A c, d \in open_conns : conns'[c].tx_scope = conns'[d].tx_scope => c = d
      BY <1>2 DEF ScopeInv, ScopesReleasedOnce
    <2>4. transport = "released" => open_conns = {}
      BY DEF ScopeInv, ScopesReleasedOnce
    <2> QED BY <1>1, <2>2, <2>3, <2>4 DEF ScopesReleasedOnce
  <1> QED BY <1>1, <1>2, <1>3 DEF ScopeInv

\* A connection that is freed gives its scope back.
LEMMA ScopeReleased ==
    ASSUME ScopesTypeOK, ScopeInv, NEW c \in ConnIds, conns[c].phase # "none",
           conns'[c].phase = "none", \A d \in ConnIds \ {c} : conns'[d] = conns[d],
           releases' = scope_released(c), UNCHANGED <<next_tx_scope, transport>>
    PROVE  ScopesTypeOK' /\ ScopeInv'
  <1> DEFINE s == conns[c].tx_scope
  <1>1. c \in open_conns /\ open_conns' = open_conns \ {c}
    BY DEF open_conns
  <1>2. s \in Scopes /\ s <= next_tx_scope
    BY <1>1, ServerAssumption DEF ScopeInv, ScopesTypeOK, Scopes
  <1>3. releases[s] = 0
    BY <1>1, <1>2 DEF ScopeInv, ScopesReleasedOnce
  <1>4. releases' = [releases EXCEPT ![s] = 1]
    BY <1>2, <1>3 DEF scope_released, ScopesTypeOK
  <1>5. \A d \in open_conns' : d \in open_conns /\ conns'[d] = conns[d] /\ conns[d].tx_scope # s
    BY <1>1 DEF open_conns, ScopeInv, ScopesReleasedOnce
  <1> HIDE DEF s
  <1>6. ScopesTypeOK'
    BY <1>2, <1>4 DEF ScopesTypeOK
  <1>7. ASSUME NEW k \in Scopes
        PROVE  releases'[k] = IF k <= next_tx_scope /\ \A d \in open_conns' : conns'[d].tx_scope # k
                              THEN 1 ELSE 0
    <2>1. CASE k = s
      BY <1>2, <1>4, <1>5, <2>1 DEF ScopesTypeOK
    <2>2. CASE k # s
      <3>1. releases'[k] = releases[k]
        BY <1>4, <2>2 DEF ScopesTypeOK
      <3>2. (\A d \in open_conns' : conns'[d].tx_scope # k)
            <=> (\A d \in open_conns : conns[d].tx_scope # k)
        BY <1>1, <1>5, <2>2 DEF s
      <3> QED BY <3>1, <3>2 DEF ScopeInv, ScopesReleasedOnce
    <2> QED BY <2>1, <2>2
  <1>8. \A d, e \in open_conns' : conns'[d].tx_scope = conns'[e].tx_scope => d = e
    BY <1>5 DEF ScopeInv, ScopesReleasedOnce
  <1>9. transport = "released" => open_conns' = {}
    BY <1>1 DEF ScopeInv, ScopesReleasedOnce
  <1>10. \A d \in open_conns' : conns'[d].tx_scope \in 1 .. next_tx_scope
    BY <1>5 DEF ScopeInv
  <1> QED BY <1>6, <1>7, <1>8, <1>9, <1>10 DEF ScopeInv, ScopesReleasedOnce

\* A new connection gets a scope that no other had.
LEMMA ScopeTaken ==
    ASSUME ScopesTypeOK, ScopeInv, NEW c \in ConnIds, conns[c].phase = "none",
           transport = "installed", next_tx_scope < MaxScope,
           next_tx_scope' = next_tx_scope + 1, UNCHANGED <<releases, transport>>,
           conns'[c].phase = "accepted", conns'[c].tx_scope = next_tx_scope + 1,
           \A d \in ConnIds \ {c} : conns'[d] = conns[d]
    PROVE  ScopesTypeOK' /\ ScopeInv'
  <1> DEFINE s == next_tx_scope + 1
  <1>1. c \notin open_conns /\ open_conns' = open_conns \cup {c}
    BY DEF open_conns
  <1>2. s \in Scopes /\ next_tx_scope \in Nat
    BY ServerAssumption DEF ScopesTypeOK, Scopes
  <1>3. ScopesTypeOK'
    BY <1>2, ServerAssumption DEF ScopesTypeOK
  <1>4. \A d \in open_conns : conns'[d] = conns[d] /\ conns[d].tx_scope \in 1 .. next_tx_scope
    BY <1>1 DEF open_conns, ScopeInv
  <1>5. \A d \in open_conns : conns[d].tx_scope # s
    BY <1>2, <1>4
  <1>6. ASSUME NEW k \in Scopes
        PROVE  releases[k] = IF k <= s /\ \A d \in open_conns' : conns'[d].tx_scope # k
                             THEN 1 ELSE 0
    <2>1. releases[k] = IF k <= next_tx_scope /\ \A d \in open_conns : conns[d].tx_scope # k
                        THEN 1 ELSE 0
      BY DEF ScopeInv, ScopesReleasedOnce
    <2>2. CASE k = s
      BY <1>1, <1>2, <2>1, <2>2
    <2>3. CASE k # s
      <3>1. k <= s <=> k <= next_tx_scope
        BY <1>2, <2>3 DEF Scopes
      <3>2. (\A d \in open_conns' : conns'[d].tx_scope # k)
            <=> (\A d \in open_conns : conns[d].tx_scope # k)
        BY <1>1, <1>4, <2>3
      <3> QED BY <2>1, <3>1, <3>2
    <2> QED BY <2>2, <2>3
  <1>7. \A d, e \in open_conns' : conns'[d].tx_scope = conns'[e].tx_scope => d = e
    BY <1>1, <1>4, <1>5 DEF ScopeInv, ScopesReleasedOnce
  <1>8. \A d \in open_conns' : conns'[d].tx_scope \in 1 .. s
    BY <1>1, <1>2, <1>4
  <1> QED BY <1>3, <1>6, <1>7, <1>8 DEF ScopeInv, ScopesReleasedOnce

-----------------------------------------------------------------------------
(* Steps that leave addresses, scopes and the table alone *)

\* A tunnel that keeps its address is not ended.
LEMMA NoTunnelEnds ==
    ASSUME \A c \in ConnIds : ConnSound(conns[c]) /\ ConnSound(conns'[c]),
           \A c \in ConnIds : conns'[c].assigned_ip = conns[c].assigned_ip
    PROVE  OwnerStep
  BY DEF OwnerStep, ConnSound

\* Such a step only has to keep the connections sound and their streams in order.
LEMMA QuietStep ==
    ASSUME ServerInv, ConnsTypeOK', StreamsTypeOK', UsersTypeOK', TunTypeOK', StreamInv',
           \A c \in ConnIds : ConnSound(conns'[c]) /\ Keeps(c),
           UNCHANGED <<tableVars, next_tx_scope, releases, transport>>
    PROVE  ServerInv' /\ OwnerStep
  <1>1. UNCHANGED <<sessions, n_sessions, pool, clients>>
    BY DEF tableVars
  <1>2. TableTypeOK' /\ TableInv'
    <2>1. \A c \in ConnIds : conns'[c].assigned_ip = conns[c].assigned_ip
      BY DEF Keeps
    <2>2. pool' \in mqvpn_addr_pool_t /\ pool'.used = pool.used
      BY <1>1 DEF ServerInv, TableTypeOK
    <2>3. TableTypeOK /\ TableInv
      BY DEF ServerInv
    <2> QED BY <1>1, <2>1, <2>2, <2>3, TableKept
  <1>3. ScopeInv'
    <2>1. \A c \in ConnIds : /\ conns'[c].tx_scope = conns[c].tx_scope
                             /\ conns'[c].phase = "none" <=> conns[c].phase = "none"
      BY DEF Keeps
    <2>2. ScopeInv
      BY DEF ServerInv
    <2> QED BY <2>1, <2>2, ScopesKept
  <1>4. ScopesTypeOK'
    BY DEF ServerInv, ScopesTypeOK
  <1>5. OwnerStep
    <2>1. \A c \in ConnIds : ConnSound(conns[c]) /\ ConnSound(conns'[c])
      BY DEF ServerInv
    <2>2. \A c \in ConnIds : conns'[c].assigned_ip = conns[c].assigned_ip
      BY DEF Keeps
    <2> QED BY <2>1, <2>2, NoTunnelEnds
  <1>6. \A c \in ConnIds : ConnSound(conns'[c])
    OBVIOUS
  <1>7. ServerInv'
    BY <1>2, <1>3, <1>4, <1>6, Zenon DEF ServerInv
  <1> QED BY <1>5, <1>7

\* The H3 layer comes up, with an engine or without one.
LEMMA StepH3Create ==
    ASSUME ServerInv, NEW c \in ConnIds, cb_h3_conn_create(c)
    PROVE  ServerInv' /\ OwnerStep /\ FenceStep
  <1>1. PICK e \in svr_conn_reorder_engines_init(conns[c].reorder_rx) :
            conns' = [conns EXCEPT ![c].phase = "h3", ![c].reorder_rx = e]
    BY Zenon DEF cb_h3_conn_create
  <1>2. conns[c].phase = "accepted" /\ tun' = {} /\ UNCHANGED <<streams, tableVars, serverVars>>
    BY DEF cb_h3_conn_create
  <1> DEFINE x == [conns[c] EXCEPT !.phase = "h3"]
             r == [x EXCEPT !.reorder_rx = e]
  <1>3. conns[c] \in svr_conn_t /\ ConnSound(conns[c]) /\ ConnsTypeOK
    BY DEF ServerInv, ConnsTypeOK
  <1>4. ~conns[c].tunnel_established /\ conns[c].assigned_ip = 0 /\ conns[c].reorder_rx.held = {}
        /\ conns[c].echoed = FALSE
    BY <1>2, <1>3, Zenon DEF ConnSound, svr_conn_t
  <1>5. e \in reorder_rx_t /\ e.held = {}
    <2>1. e = conns[c].reorder_rx \/ e = [on |-> TRUE, held |-> {}]
      BY <1>1 DEF svr_conn_reorder_engines_init
    <2>2. conns[c].reorder_rx \in reorder_rx_t
      BY <1>3, Zenon DEF svr_conn_t
    <2>3. [on |-> TRUE, held |-> {}] \in reorder_rx_t /\ [on |-> TRUE, held |-> {}].held = {}
      BY EngineTypes
    <2> QED BY <1>4, <2>1, <2>2, <2>3, Zenon
  <1>6. x \in svr_conn_t
    BY <1>3, WriteConn, Zenon
  <1>7. r \in svr_conn_t
    <2> HIDE DEF x
    <2> QED BY <1>5, <1>6, WriteConn, Zenon
  <1>8. /\ r.phase = "h3" /\ r.tx_scope = conns[c].tx_scope /\ r.assigned_ip = 0
        /\ ~r.tunnel_established /\ r.reorder_rx = e /\ r.echoed = FALSE
    BY <1>3, <1>4, Zenon DEF svr_conn_t
  <1>9. conns' = [conns EXCEPT ![c] = r]
    BY <1>1, <1>3, Zenon DEF ConnsTypeOK
  <1> HIDE DEF r, x
  <1>10. ConnSound(r)
    BY <1>5, <1>8 DEF ConnSound
  <1>11. /\ ConnsTypeOK' /\ \A d \in ConnIds : ConnSound(conns'[d])
         /\ conns'[c] = r /\ \A d \in ConnIds \ {c} : conns'[d] = conns[d]
    BY <1>3, <1>7, <1>9, <1>10, OneConn, Zenon DEF ServerInv
  <1>12. \A d \in ConnIds : Keeps(d)
    BY <1>2, <1>4, <1>8, <1>11 DEF Keeps
  <1>13. StreamInv'
    BY <1>2, <1>8, <1>11 DEF ServerInv, StreamInv
  <1>14. StreamsTypeOK' /\ UsersTypeOK' /\ TunTypeOK'
    BY <1>2 DEF ServerInv, StreamsTypeOK, UsersTypeOK, TunTypeOK, serverVars
  <1>15. UNCHANGED <<tableVars, next_tx_scope, releases, transport>>
    BY <1>2 DEF serverVars
  <1>16. FenceStep
    BY <1>2 DEF FenceStep
  <1> QED BY <1>11, <1>12, <1>13, <1>14, <1>15, <1>16, QuietStep

\* A connection starts closing while its streams take any roles that are not the
\* first of their own: the peer closes, or a request is bad or not authentic.
LEMMA StartsClosing ==
    ASSUME ServerInv, NEW c \in ConnIds, conns[c].phase \in {"h3", "closing"},
           conns' = [conns EXCEPT ![c].phase = "closing"], tun' = {}, StreamsTypeOK',
           \A d \in ConnIds \ {c} : streams'[d] = streams[d],
           UNCHANGED <<tableVars, serverVars>>
    PROVE  ServerInv' /\ OwnerStep /\ FenceStep
  <1> DEFINE r == [conns[c] EXCEPT !.phase = "closing"]
  <1>1. conns[c] \in svr_conn_t /\ ConnSound(conns[c]) /\ ConnsTypeOK
    BY DEF ServerInv, ConnsTypeOK
  <1>2. /\ r \in svr_conn_t /\ ConnSound(r)
        /\ r.phase = "closing" /\ r.tx_scope = conns[c].tx_scope
        /\ r.assigned_ip = conns[c].assigned_ip
    BY <1>1, ClosingConn
  <1>3. conns' = [conns EXCEPT ![c] = r]
    BY <1>1 DEF ConnsTypeOK
  <1> HIDE DEF r
  <1>4. /\ ConnsTypeOK' /\ \A d \in ConnIds : ConnSound(conns'[d])
        /\ conns'[c] = r /\ \A d \in ConnIds \ {c} : conns'[d] = conns[d]
    BY <1>1, <1>2, <1>3, OneConn, Zenon DEF ServerInv
  <1>5. \A d \in ConnIds : Keeps(d)
    BY <1>2, <1>4 DEF Keeps
  <1>6. StreamInv'
    BY <1>2, <1>4 DEF ServerInv, StreamInv
  <1>7. UsersTypeOK' /\ TunTypeOK'
    BY DEF ServerInv, UsersTypeOK, TunTypeOK, serverVars
  <1>8. UNCHANGED <<tableVars, next_tx_scope, releases, transport>>
    BY DEF serverVars
  <1>9. FenceStep
    BY DEF FenceStep
  <1> QED BY <1>4, <1>5, <1>6, <1>7, <1>8, <1>9, QuietStep

\* The peer closes the connection, or the engine gives it up.
LEMMA StepConnClosing ==
    ASSUME ServerInv, NEW c \in ConnIds, xqc_conn_closing(c)
    PROVE  ServerInv' /\ OwnerStep /\ FenceStep
  <1>1. StreamsTypeOK' /\ \A d \in ConnIds \ {c} : streams'[d] = streams[d]
    BY DEF xqc_conn_closing, ServerInv, StreamsTypeOK
  <1>2. /\ conns[c].phase = "h3" /\ conns' = [conns EXCEPT ![c].phase = "closing"]
        /\ tun' = {} /\ UNCHANGED <<tableVars, serverVars>>
    BY DEF xqc_conn_closing
  <1> QED BY <1>1, <1>2, StartsClosing, Zenon

\* A request cannot be read, or lacks a header it needs.
LEMMA StepRequestBad ==
    ASSUME ServerInv, NEW c \in ConnIds, NEW q \in StreamIds, cb_request_read_bad(c, q)
    PROVE  ServerInv' /\ OwnerStep /\ FenceStep
  <1>1. PICK role \in {"CONNECT_IP", "UNKNOWN"} : streams' = [streams EXCEPT ![c][q] = role]
    BY DEF cb_request_read_bad
  <1>2. StreamsTypeOK' /\ \A d \in ConnIds \ {c} : streams'[d] = streams[d]
    BY <1>1 DEF ServerInv, StreamsTypeOK, svr_stream_role_t
  <1>3. /\ conns[c].phase \in {"h3", "closing"} /\ conns' = [conns EXCEPT ![c].phase = "closing"]
        /\ tun' = {} /\ UNCHANGED <<tableVars, serverVars>>
    BY DEF cb_request_read_bad
  <1> QED BY <1>2, <1>3, StartsClosing, Zenon

\* A request stream takes a role that does not make it the tunnel's.
LEMMA TakesRole ==
    ASSUME ServerInv, NEW c \in ConnIds, NEW q \in StreamIds,
           conns[c].phase \in {"h3", "closing"},
           NEW role \in svr_stream_role_t \ {"CONNECT_IP"},
           streams' = [streams EXCEPT ![c][q] = role], tun' = {},
           UNCHANGED <<conns, tableVars, serverVars>>
    PROVE  ServerInv' /\ OwnerStep /\ FenceStep
  <1>1. StreamsTypeOK'
    BY DEF ServerInv, StreamsTypeOK
  <1>2. \A d \in ConnIds \ {c} : streams'[d] = streams[d]
    BY DEF ServerInv, StreamsTypeOK
  <1>3. \A p \in StreamIds : streams'[c][p] = "CONNECT_IP" => streams[c][p] = "CONNECT_IP"
    BY DEF ServerInv, StreamsTypeOK
  <1>4. StreamInv'
    BY <1>2, <1>3 DEF ServerInv, StreamInv
  <1>5. \A d \in ConnIds : ConnSound(conns'[d]) /\ Keeps(d)
    BY DEF ServerInv, Keeps
  <1>6. ConnsTypeOK' /\ UsersTypeOK' /\ TunTypeOK'
    BY DEF ServerInv, ConnsTypeOK, UsersTypeOK, TunTypeOK, serverVars
  <1>7. UNCHANGED <<tableVars, next_tx_scope, releases, transport>>
    BY DEF serverVars
  <1>8. FenceStep
    BY DEF FenceStep
  <1> QED BY <1>1, <1>4, <1>5, <1>6, <1>7, <1>8, QuietStep

\* A request stream opens, or turns out to be for another part of the server.
LEMMA StepRequestOther ==
    ASSUME ServerInv, NEW c \in ConnIds, NEW q \in StreamIds,
           cb_request_create(c, q) \/ cb_request_read_other(c, q)
    PROVE  ServerInv' /\ OwnerStep /\ FenceStep
  <1>1. /\ conns[c].phase \in {"h3", "closing"} /\ tun' = {}
        /\ UNCHANGED <<conns, tableVars, serverVars>>
    BY DEF cb_request_create, cb_request_read_other
  <1>2. PICK role \in svr_stream_role_t \ {"CONNECT_IP"} :
            streams' = [streams EXCEPT ![c][q] = role]
    BY ServerAssumption DEF cb_request_create, cb_request_read_other, svr_stream_role_t
  <1> QED BY <1>1, <1>2, TakesRole, Zenon

-----------------------------------------------------------------------------
(* Packets *)

\* An engine may hold other packets of the same tunnel.
LEMMA HoldsOther ==
    ASSUME NEW r \in svr_conn_t, ConnSound(r), NEW H \in SUBSET Packets,
           \A p \in H : r.tunnel_established /\ p[1] = r.masque_stream_id
    PROVE  LET x == [r EXCEPT !.reorder_rx.held = H]
           IN  /\ x \in svr_conn_t /\ ConnSound(x)
               /\ x.phase = r.phase /\ x.tx_scope = r.tx_scope
               /\ x.assigned_ip = r.assigned_ip /\ x.masque_stream_id = r.masque_stream_id
               /\ x.tunnel_established = r.tunnel_established
  <1> DEFINE e == [r.reorder_rx EXCEPT !.held = H]
             x == [r EXCEPT !.reorder_rx = e]
  <1>1. e \in reorder_rx_t /\ e.held = H /\ e.on = r.reorder_rx.on
    BY Zenon DEF svr_conn_t, reorder_rx_t
  <1>2. [r EXCEPT !.reorder_rx.held = H] = x
    BY Zenon DEF svr_conn_t
  <1> HIDE DEF e
  <1>3. x \in svr_conn_t
    BY <1>1, WriteConn, Zenon
  <1>4. /\ x.reorder_rx = e /\ x.phase = r.phase /\ x.tx_scope = r.tx_scope
        /\ x.assigned_ip = r.assigned_ip /\ x.masque_stream_id = r.masque_stream_id
        /\ x.tunnel_established = r.tunnel_established /\ x.echoed = r.echoed
    BY Zenon DEF svr_conn_t
  <1> HIDE DEF x
  <1>5. ConnSound(x)
    BY <1>1, <1>4 DEF ConnSound
  <1> QED BY <1>2, <1>3, <1>4, <1>5

\* Packets of the live tunnel are forwarded with its stream and its address only.
LEMMA ForwardsOwn ==
    ASSUME ServerInv, NEW c \in ConnIds, NEW P \in SUBSET Packets,
           \A p \in P : conns[c].tunnel_established /\ p[1] = conns[c].masque_stream_id,
           NEW d \in forward_inner_ip(c, P)
    PROVE  /\ d \in [conn : ConnIds, packet : Packets] /\ d.conn = c
           /\ conns[c].tunnel_established
           /\ d.packet = <<conns[c].masque_stream_id, conns[c].assigned_ip>>
           /\ sessions[conns[c].assigned_ip] = c
  <1>1. PICK p \in P : p[2] = conns[c].assigned_ip /\ d = [conn |-> c, packet |-> p]
    BY DEF forward_inner_ip
  <1>2. p \in Packets /\ p = <<p[1], p[2]>>
    BY DEF Packets
  <1>3. conns[c].tunnel_established /\ p[1] = conns[c].masque_stream_id
    BY <1>1
  <1>4. sessions[conns[c].assigned_ip] = c
    BY <1>3 DEF ServerInv, ConnSound, TableInv
  <1> QED BY <1>1, <1>2, <1>3, <1>4

\* A datagram is forwarded, held back, or lets others go.
LEMMA StepDgram ==
    ASSUME ServerInv, NEW c \in ConnIds, NEW q \in StreamIds, NEW src \in Sources,
           cb_dgram_read(c, q, src)
    PROVE  ServerInv' /\ OwnerStep /\ FenceStep
  <1>1. /\ conns[c].phase \in {"h3", "closing"} /\ conns[c].tunnel_established
        /\ q = conns[c].masque_stream_id /\ UNCHANGED <<streams, tableVars, serverVars>>
    BY DEF cb_dgram_read, current_stream
  <1> DEFINE held == conns[c].reorder_rx.held \cup {<<q, src>>}
  <1>2. conns[c] \in svr_conn_t /\ ConnSound(conns[c]) /\ ConnsTypeOK
    BY DEF ServerInv, ConnsTypeOK
  <1>3. <<q, src>> \in Packets /\ <<q, src>>[1] = q
    BY DEF Packets
  <1>4. held \in SUBSET Packets
    BY <1>2, <1>3, Zenon DEF svr_conn_t, reorder_rx_t
  <1>5. \A p \in held : conns[c].tunnel_established /\ p[1] = conns[c].masque_stream_id
    BY <1>1, <1>2, <1>3 DEF ConnSound
  <1>6. PICK out \in SUBSET held :
            /\ tun' = forward_inner_ip(c, out)
            /\ \/ UNCHANGED conns
               \/ conns' = [conns EXCEPT ![c].reorder_rx.held = held \ out]
    <2>1. CASE UNCHANGED conns /\ tun' = forward_inner_ip(c, {<<q, src>>})
      BY <2>1
    <2>2. CASE \E out \in SUBSET held :
                   /\ tun' = forward_inner_ip(c, out)
                   /\ conns' = [conns EXCEPT ![c].reorder_rx.held = held \ out]
      BY <2>2, Zenon
    <2> QED BY <2>1, <2>2 DEF cb_dgram_read
  <1> HIDE DEF held
  <1>7. out \in SUBSET Packets
        /\ \A p \in out : conns[c].tunnel_established /\ p[1] = conns[c].masque_stream_id
    BY <1>4, <1>5
  <1>8. \A d \in tun' :
            /\ d \in [conn : ConnIds, packet : Packets] /\ d.conn = c
            /\ conns[c].tunnel_established
            /\ d.packet = <<conns[c].masque_stream_id, conns[c].assigned_ip>>
            /\ sessions[conns[c].assigned_ip] = c
    BY <1>6, <1>7, ForwardsOwn
  <1>9. FenceStep
    BY <1>8 DEF FenceStep
  <1>10. TunTypeOK'
    BY <1>8 DEF TunTypeOK
  <1>11. ConnsTypeOK' /\ \A d \in ConnIds :
            /\ ConnSound(conns'[d]) /\ Keeps(d) /\ conns'[d].phase = conns[d].phase
            /\ conns'[d].tunnel_established = conns[d].tunnel_established
            /\ conns'[d].masque_stream_id = conns[d].masque_stream_id
    <2>1. CASE UNCHANGED conns
      BY <2>1 DEF ServerInv, ConnsTypeOK, Keeps
    <2>2. CASE conns' = [conns EXCEPT ![c].reorder_rx.held = held \ out]
      <3> DEFINE r == [conns[c] EXCEPT !.reorder_rx.held = held \ out]
      <3>1. held \ out \in SUBSET Packets
            /\ \A p \in held \ out : conns[c].tunnel_established /\ p[1] = conns[c].masque_stream_id
        BY <1>4, <1>5
      <3>2. /\ r \in svr_conn_t /\ ConnSound(r)
            /\ r.phase = conns[c].phase /\ r.tx_scope = conns[c].tx_scope
            /\ r.assigned_ip = conns[c].assigned_ip
            /\ r.masque_stream_id = conns[c].masque_stream_id
            /\ r.tunnel_established = conns[c].tunnel_established
        BY <1>2, <3>1, HoldsOther, Zenon
      <3>3. conns' = [conns EXCEPT ![c] = r]
        BY <1>2, <2>2 DEF ConnsTypeOK
      <3> HIDE DEF r
      <3>4. /\ ConnsTypeOK' /\ \A d \in ConnIds : ConnSound(conns'[d])
            /\ conns'[c] = r /\ \A d \in ConnIds \ {c} : conns'[d] = conns[d]
        BY <1>2, <3>2, <3>3, OneConn, Zenon DEF ServerInv
      <3> QED BY <3>2, <3>4 DEF Keeps
    <2> QED BY <1>6, <2>1, <2>2
  <1>12. StreamInv'
    BY <1>1, <1>11 DEF ServerInv, StreamInv
  <1>13. StreamsTypeOK' /\ UsersTypeOK'
    BY <1>1 DEF ServerInv, StreamsTypeOK, UsersTypeOK, serverVars
  <1>14. UNCHANGED <<tableVars, next_tx_scope, releases, transport>>
    BY <1>1 DEF serverVars
  <1> QED BY <1>9, <1>10, <1>11, <1>12, <1>13, <1>14, QuietStep

\* The tick lets engines deliver what they held too long.
LEMMA StepTick ==
    ASSUME ServerInv, mqvpn_server_tick
    PROVE  ServerInv' /\ OwnerStep /\ FenceStep
  <1>1. PICK out \in SUBSET {x \in held_back : x[2] \in conns[x[1]].reorder_rx.held} :
            LET of(c) == {p \in Packets : <<c, p>> \in out}
            IN  /\ tun' = UNION {forward_inner_ip(c, of(c)) : c \in ConnIds}
                /\ conns' = [c \in ConnIds |->
                                 [conns[c] EXCEPT !.reorder_rx.held = @ \ of(c)]]
                /\ UNCHANGED <<streams, tableVars, serverVars>>
    BY Zenon DEF mqvpn_server_tick
  <1> DEFINE of(c) == {p \in Packets : <<c, p>> \in out}
  <1>2. \A c \in ConnIds : of(c) \subseteq conns[c].reorder_rx.held
    <2>1. SUFFICES ASSUME NEW c \in ConnIds, NEW p \in Packets, <<c, p>> \in out
                   PROVE  p \in conns[c].reorder_rx.held
      OBVIOUS
    <2>2. <<c, p>>[2] \in conns[<<c, p>>[1]].reorder_rx.held
      BY <2>1
    <2> QED BY <2>2
  <1>3. \A c \in ConnIds : conns[c] \in svr_conn_t /\ ConnSound(conns[c])
    BY DEF ServerInv, ConnsTypeOK
  <1>4. \A c \in ConnIds : \A p \in conns[c].reorder_rx.held :
            conns[c].tunnel_established /\ p[1] = conns[c].masque_stream_id
    BY <1>3 DEF ConnSound
  <1>5. \A c \in ConnIds : of(c) \in SUBSET Packets
    OBVIOUS
  <1>6. /\ tun' = UNION {forward_inner_ip(c, of(c)) : c \in ConnIds}
        /\ \A c \in ConnIds :
              conns'[c] = [conns[c] EXCEPT !.reorder_rx.held = conns[c].reorder_rx.held \ of(c)]
        /\ DOMAIN conns' = ConnIds /\ conns' = [c \in ConnIds |-> conns'[c]]
        /\ UNCHANGED <<streams, tableVars, serverVars>>
    BY <1>1
  <1> HIDE DEF of
  <1>7. \A d \in tun' :
            LET c == d.conn
            IN  /\ d \in [conn : ConnIds, packet : Packets]
                /\ conns[c].tunnel_established
                /\ d.packet = <<conns[c].masque_stream_id, conns[c].assigned_ip>>
                /\ sessions[conns[c].assigned_ip] = c
    <2>1. SUFFICES ASSUME NEW c \in ConnIds, NEW d \in forward_inner_ip(c, of(c))
                   PROVE  /\ d \in [conn : ConnIds, packet : Packets] /\ d.conn = c
                          /\ conns[c].tunnel_established
                          /\ d.packet = <<conns[c].masque_stream_id, conns[c].assigned_ip>>
                          /\ sessions[conns[c].assigned_ip] = c
      BY <1>6
    <2>2. \A p \in of(c) : conns[c].tunnel_established /\ p[1] = conns[c].masque_stream_id
      BY <1>2, <1>4
    <2> QED BY <1>5, <2>2, ForwardsOwn
  <1>8. FenceStep
    BY <1>7 DEF FenceStep
  <1>9. TunTypeOK'
    BY <1>7 DEF TunTypeOK
  <1>10. \A d \in ConnIds :
            /\ conns'[d] \in svr_conn_t
            /\ ConnSound(conns'[d]) /\ Keeps(d) /\ conns'[d].phase = conns[d].phase
            /\ conns'[d].tunnel_established = conns[d].tunnel_established
            /\ conns'[d].masque_stream_id = conns[d].masque_stream_id
    <2>1. SUFFICES ASSUME NEW d \in ConnIds
                   PROVE  /\ conns'[d] \in svr_conn_t
                          /\ ConnSound(conns'[d]) /\ Keeps(d) /\ conns'[d].phase = conns[d].phase
                          /\ conns'[d].tunnel_established = conns[d].tunnel_established
                          /\ conns'[d].masque_stream_id = conns[d].masque_stream_id
      OBVIOUS
    <2> DEFINE H == conns[d].reorder_rx.held \ of(d)
    <2>2. H \in SUBSET Packets
      BY <1>3, Zenon DEF svr_conn_t, reorder_rx_t
    <2>3. \A p \in H : conns[d].tunnel_established /\ p[1] = conns[d].masque_stream_id
      BY <1>4
    <2>4. conns'[d] = [conns[d] EXCEPT !.reorder_rx.held = H]
      BY <1>6
    <2> DEFINE x == [conns[d] EXCEPT !.reorder_rx.held = H]
    <2> HIDE DEF H
    <2>5. /\ x \in svr_conn_t /\ ConnSound(x)
          /\ x.phase = conns[d].phase /\ x.tx_scope = conns[d].tx_scope
          /\ x.assigned_ip = conns[d].assigned_ip
          /\ x.masque_stream_id = conns[d].masque_stream_id
          /\ x.tunnel_established = conns[d].tunnel_established
      BY <1>3, <2>2, <2>3, HoldsOther, Zenon
    <2>6. conns'[d] = x
      BY <2>4
    <2> HIDE DEF x
    <2> QED BY <2>5, <2>6 DEF Keeps
  <1>11. ConnsTypeOK'
    BY <1>6, <1>10 DEF ConnsTypeOK
  <1>12. StreamInv'
    BY <1>6, <1>10 DEF ServerInv, StreamInv
  <1>13. StreamsTypeOK' /\ UsersTypeOK'
    BY <1>6 DEF ServerInv, StreamsTypeOK, UsersTypeOK, serverVars
  <1>14. UNCHANGED <<tableVars, next_tx_scope, releases, transport>>
    BY <1>6 DEF serverVars
  <1> QED BY <1>8, <1>9, <1>10, <1>11, <1>12, <1>13, <1>14, QuietStep

-----------------------------------------------------------------------------
(* The user table *)

\* The table is a sequence of users.
LEMMA UsersSeq ==
    ASSUME UsersTypeOK
    PROVE  /\ users \in Seq([name : Names, key : Keys])
           /\ Len(users) \in Nat /\ Len(users) <= MQVPN_MAX_USERS
           /\ DOMAIN users = 1 .. Len(users)
           /\ \A i \in 1 .. Len(users) : users[i] \in [name : Names, key : Keys]
  <1> DEFINE User == [name : Names, key : Keys]
  <1>1. users \in Seq(User) /\ Len(users) <= MQVPN_MAX_USERS
    BY Zenon DEF UsersTypeOK
  <1> HIDE DEF User
  <1>2. /\ Len(users) \in Nat /\ DOMAIN users = 1 .. Len(users)
        /\ \A i \in 1 .. Len(users) : users[i] \in User
    BY <1>1
  <1> QED BY <1>1, <1>2, Zenon DEF User

\* A function on 1 .. n is a sequence of length n.
LEMMA FunctionIsSeq ==
    ASSUME NEW S, NEW n \in Nat, NEW f \in [1 .. n -> S]
    PROVE  f \in Seq(S) /\ Len(f) = n
  <1>1. f \in Seq(S)
    BY SeqDef
  <1>2. DOMAIN f = 1 .. n /\ DOMAIN f = 1 .. Len(f) /\ Len(f) \in Nat
    BY <1>1
  <1> QED BY <1>1, <1>2

\* The first of the users that match is a user.
LEMMA AuthName ==
    ASSUME UsersTypeOK, NEW token
    PROVE  svr_auth_check(token) \in Names \cup {"", "(global)"}
  <1> DEFINE match == {i \in DOMAIN users : users[i].key = token}
             least == CHOOSE i \in match : \A j \in match : i <= j
  <1>1. DOMAIN users = 1 .. Len(users) /\ Len(users) \in Nat
        /\ \A i \in 1 .. Len(users) : users[i] \in [name : Names, key : Keys]
    BY UsersSeq
  <1>2. ASSUME match # {} PROVE users[least].name \in Names
    <2>1. match \in SUBSET Nat
      BY <1>1
    <2>2. \E i \in match : \A j \in match : i <= j
      BY <1>2, <2>1, LeastOf, Zenon
    <2>3. least \in match
      BY <2>2
    <2> HIDE DEF least
    <2> QED BY <1>1, <2>3
  <1> HIDE DEF least
  <1>3. svr_auth_check(token) =
            IF token = NoKey THEN ""
            ELSE IF token = auth_key THEN "(global)"
            ELSE IF match = {} THEN "" ELSE users[least].name
    BY DEF svr_auth_check, least
  <1> HIDE DEF match
  <1> QED BY <1>2, <1>3, Zenon

\* A user is added or gets another key.
LEMMA StepAddUser ==
    ASSUME ServerInv, NEW name \in Names, NEW key \in Keys, mqvpn_server_add_user(name, key)
    PROVE  ServerInv' /\ OwnerStep /\ FenceStep
  <1> DEFINE User == [name : Names, key : Keys]
             n == Len(users)
  <1>1. users \in Seq(User) /\ n \in Nat /\ n <= MQVPN_MAX_USERS /\ DOMAIN users = 1 .. n
        /\ \A i \in 1 .. n : users[i] \in User
    BY UsersSeq DEF ServerInv
  <1>2. UsersTypeOK'
    <2>1. CASE named(name) # {}
      <3>1. users' = [i \in 1 .. n |->
                         IF i \in named(name) THEN [users[i] EXCEPT !.key = key] ELSE users[i]]
        BY <1>1, <2>1 DEF mqvpn_server_add_user
      <3>2. \A i \in 1 .. n : [users[i] EXCEPT !.key = key] \in User
        BY <1>1
      <3>3. users' \in [1 .. n -> User]
        BY <1>1, <3>1, <3>2
      <3>4. users' \in Seq(User) /\ Len(users') = n
        BY <1>1, <3>3, FunctionIsSeq
      <3> QED BY <1>1, <3>4 DEF UsersTypeOK
    <2>2. CASE named(name) = {}
      <3>1. n < MQVPN_MAX_USERS /\ users' = Append(users, [name |-> name, key |-> key])
        BY <2>2 DEF mqvpn_server_add_user
      <3>2. users' \in Seq(User) /\ Len(users') = n + 1
        BY <1>1, <3>1
      <3> QED BY <1>1, <3>1, <3>2, ServerAssumption DEF UsersTypeOK
    <2> QED BY <2>1, <2>2
  <1>3. tun' = {} /\ UNCHANGED <<conns, streams, tableVars, next_tx_scope, releases, transport>>
    BY DEF mqvpn_server_add_user
  <1>4. \A d \in ConnIds : ConnSound(conns'[d]) /\ Keeps(d)
    BY <1>3 DEF ServerInv, Keeps
  <1>5. ConnsTypeOK' /\ StreamsTypeOK' /\ TunTypeOK' /\ StreamInv'
    BY <1>3 DEF ServerInv, ConnsTypeOK, StreamsTypeOK, TunTypeOK, StreamInv
  <1>6. FenceStep
    BY <1>3 DEF FenceStep
  <1> QED BY <1>2, <1>3, <1>4, <1>5, <1>6, QuietStep

\* A user is removed and its sessions start closing.
LEMMA StepRemoveUser ==
    ASSUME ServerInv, NEW name \in Names, mqvpn_server_remove_user(name)
    PROVE  ServerInv' /\ OwnerStep /\ FenceStep
  <1> DEFINE User == [name : Names, key : Keys]
             n == Len(users)
             first == CHOOSE i \in named(name) : \A j \in named(name) : i <= j
  <1>1. users \in Seq(User) /\ n \in Nat /\ n <= MQVPN_MAX_USERS /\ DOMAIN users = 1 .. n
        /\ \A i \in 1 .. n : users[i] \in User
    BY UsersSeq DEF ServerInv
  <1>2. n - 1 \in Nat
    BY <1>1 DEF mqvpn_server_remove_user, named
  <1>3. first \in 1 .. n
    <2>1. named(name) \in SUBSET Nat /\ named(name) # {} /\ named(name) \subseteq 1 .. n
      BY <1>1 DEF mqvpn_server_remove_user, named
    <2>2. \E i \in named(name) : \A j \in named(name) : i <= j
      BY <2>1, LeastOf
    <2> QED BY <2>1, <2>2
  <1>4. users' = [k \in 1 .. n - 1 |-> users[IF k < first THEN k ELSE k + 1]]
    BY DEF mqvpn_server_remove_user, without
  <1> HIDE DEF first
  <1>5. \A k \in 1 .. n - 1 : users[IF k < first THEN k ELSE k + 1] \in User
    BY <1>1, <1>2, <1>3
  <1>6. users' \in [1 .. n - 1 -> User]
    BY <1>4, <1>5
  <1>7. users' \in Seq(User) /\ Len(users') = n - 1
    BY <1>2, <1>6, FunctionIsSeq, Zenon
  <1>8. UsersTypeOK'
    BY <1>1, <1>7, ServerAssumption DEF UsersTypeOK
  <1>9. tun' = {} /\ UNCHANGED <<streams, tableVars, next_tx_scope, releases, transport>>
    BY DEF mqvpn_server_remove_user
  <1>10. ASSUME NEW d \in ConnIds
         PROVE  /\ conns'[d] \in svr_conn_t /\ ConnSound(conns'[d]) /\ Keeps(d)
                /\ conns'[d] = conns[d] \/ conns'[d].phase = "closing"
    <2>1. conns[d] \in svr_conn_t /\ ConnSound(conns[d])
      BY DEF ServerInv, ConnsTypeOK
    <2>2. CASE d \in sessions_of(name)
      <3>1. PICK o \in Offsets : sessions[o] = d
        BY <2>2 DEF sessions_of
      <3>2. o \in occupied /\ o # 0
        BY <3>1, ServerAssumption DEF occupied, Offsets
      <3>3. conns[d].assigned_ip # 0
        BY <3>1, <3>2 DEF ServerInv, TableInv
      <3>4. conns[d].phase # "none"
        BY <2>1, <3>3 DEF ConnSound
      <3>5. conns'[d] = [conns[d] EXCEPT !.phase = "closing"]
        BY <2>2 DEF mqvpn_server_remove_user
      <3> QED BY <2>1, <3>4, <3>5, ClosingConn DEF Keeps
    <2>3. CASE d \notin sessions_of(name)
      <3>1. conns'[d] = conns[d]
        BY <2>3 DEF mqvpn_server_remove_user
      <3> QED BY <2>1, <3>1 DEF Keeps
    <2> QED BY <2>2, <2>3
  <1>11. ConnsTypeOK'
    <2>1. conns' = [c \in ConnIds |-> conns'[c]]
      BY DEF mqvpn_server_remove_user
    <2> QED BY <1>10, <2>1 DEF ConnsTypeOK
  <1>12. StreamInv'
    BY <1>9, <1>10 DEF ServerInv, StreamInv
  <1>13. StreamsTypeOK' /\ TunTypeOK' /\ FenceStep
    BY <1>9 DEF ServerInv, StreamsTypeOK, TunTypeOK, FenceStep
  <1> QED BY <1>8, <1>9, <1>10, <1>11, <1>12, <1>13, QuietStep
=============================================================================
