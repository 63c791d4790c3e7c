# A TLA+ verification of mqvpn

mqvpn is a VPN over MASQUE CONNECT-IP on Multipath QUIC. This directory holds
TLA+ models of the parts of it that are hard to get right and hard to test, the
TLC configurations that check them on small instances, and TLAPS proofs, for
instances of any size, of the safety properties of the client, the server's
sessions, the network monitor and the TCP egress. Every definition is
translated from the C source; `PROJECT.json` maps each one to its lines, and
lists for each property a mutation of the code that breaks it. (The repository's
own `formal/` directory holds an earlier model of a single path slot; the modules
here are independent of it.)

## 1. Inventory of the system

| Part | State | Operations | What makes it hard |
|---|---|---|---|
| Client connection (`mqvpn_client.c`) | `state`, `conn`, the CONNECT-IP stream, `tunnel_ok`, `tunnel_notified`, `in_connect`, reconnect and handshake clocks | `connect`, `disconnect`, `destroy`, xquic connection and stream callbacks, `tick` | failures reported by several callbacks in any order; application callbacks re-entering the library; retry timers |
| Client path table (`mqvpn_client.c`, `path_state_machine.c`) | up to `MQVPN_MAX_PATHS` slots with a lifecycle state, a binding to an xquic path, a transport, retry budget and clocks | `add_path`, `remove_path`, platform drop / release, `reactivate_path`, `cb_ready_to_create_path`, `cb_path_removed`, tick recovery | slots are recycled while xquic still drains their old path; drop, release and removal come in any order |
| Server sessions (`mqvpn_server.c`) | connections, request streams, `sessions[]` by address offset, `n_sessions`, user table, transport scopes | accept / refuse, request create / headers / close, tunnel setup, datagrams, release, destroy, add / remove user | tunnel setup fails half way; duplicate requests; late datagrams of an earlier tunnel; users removed under live sessions |
| Address pool (`addr_pool.c`) | bitmap, `next` | alloc, release | wrap of the scan, reserved server address |
| Reorder receiver (`reorder_rx.c`) | flow table, elastic ring, gap timer with a reordering mark, classifier, pool, cached deadlines | packet, tick, free | window moves under a growing ring, re-armed timers, overflow flush, demotion, resets, eviction |
| Reorder sender (`reorder_tx.c`, `reorder_gate.h`) | send-flow table, sequence numbers, reset marks | peek, commit, idle eviction | a number is consumed only after the send; restarted epochs |
| Redundant transmission (`redundant_tx.c`) | two hash tables of copies and originals, overload automaton | send, ack, loss, metrics, path bind / detach | backward-shift deletion; counters per path |
| Flow scheduler (`flow_sched.c`) | none | hash of a packet | both directions of a flow |
| Hybrid TCP lane (`hybrid/tcp_lane*.c`) | flows by 5-tuple, uplink queue and withheld window, downlink stash, FIN flags | SYN, accept, recv, H3 established / rejected / writable / body / closing, lwIP error, tick | backpressure in both directions, half-closes, teardown from five sides |
| Hybrid TCP egress (`hybrid/tcp_egress.c`) | egress flows, non-blocking sockets, stashes | request, body, fd ready, tick, destroy | connect result, EOF, errors and resets in one event |
| Fallback (`sni_router.c`, `h2_proxy.c`) | per-peer routing table with pending packets; backend connections and proxied streams | packet, fd readable, cleanup; request, body, writable, close, backend ready, tick | eviction with packets pending, pacing under send pressure |
| Network monitors (`platform/posix`, `platform/windows`) | platform path slots, failure counters | link and address events, re-add, rollback, recovery timer | notifications that are late, stale or lost; the library's slot recycled under the platform slot |
| Host setup (`platform/linux`, `platform/darwin`, `platform/windows`) | TUN device, routes, DNS, firewall, and what was saved of them | tunnel up, down, exit, signals | commands that fail half way; a crash between change and undo |
| Configuration, binds, ICMP, logging, GUI / SDK code | – | parsing, I/O, presentation | – |

The client and the server run single-threaded: an API call, an xquic callback
and a tick run to completion on one "tick thread". Concurrency is the arbitrary
order of calls, callbacks, ticks, network and peer behaviour, and re-entrance:
a callback out of the library may call back into it.

What must hold: slots match xquic's paths; a datagram never leaves through a
foreign transport; each transport is released exactly once; the application
hears of the end of a tunnel exactly once; a client never gets stuck; addresses
are neither leaked nor handed out twice; packets never cross tunnels; the
receiver delivers in order, loses nothing it holds, and holds nothing too long;
a relayed TCP connection loses no byte, never stalls, and leaves nothing behind;
a proxied response arrives whole; a peer's packets stay on one route; a path is
dropped only for a cause and comes back when its network does; the host is left
as it was found.

## 2. Modules

| Module | Models | Depends on |
|---|---|---|
| `PathStateMachine` | one path slot: each event handler of `path_state_machine.c` as an operator from slot to slot | – |
| `Client` | the client core: connection lifecycle, slot table, the xquic connection they are bound to | `PathStateMachine`, `TransportContract` |
| `TransportContract` | abstract: what `libmqvpn.h` promises of a transport (attached, detached, released once) | – |
| `AddrPool` | the pool's bitmap and rotating scan | – |
| `ServerSessions` | the server's connections, streams, sessions, users, scopes | `AddrPool` |
| `ReorderRx` | the reorder receiver | – |
| `SenderLanes` | the packet path from the TUN device: MTU gate, reorder sender, redundant copies | – |
| `TcpLane` | the client's TCP lane between lwIP and xquic | – |
| `TcpEgress` | the server's end of a relayed TCP connection: request, socket, stashes, descriptors | – |
| `H2Proxy` | H3 requests carried to an h2c backend | – |
| `SniRouter` | UDP packets routed to the server or to a fallback by the name in the ClientHello | – |
| `NetMon` | path slots of the platform layer against the library's path API | – |
| `HostSetup` | the client process on its host: TUN device, routes, DNS, kill switch, crashes | – |
| `MCClient`, `MCClientLive`, `MCServer`, `MCReorderRx`, `MCTcpLane`, `MCServerEdge`, `MCPlatform` | instances for TLC | |
| `ClientTableProofs`, `ClientProofs` | TLAPS proofs about `PathStateMachine` and `Client`, and that `Client` implements `TransportContract` | |
| `ServerTableProofs`, `ServerProofs` | TLAPS proofs about `AddrPool` and `ServerSessions` | |
| `PlatformProofs` | TLAPS proofs about `SenderLanes` and `NetMon` | |
| `TcpEgressFlowProofs`, `TcpEgressProofs` | TLAPS proofs about `TcpEgress` | |
| `SniRouterProofs` | TLAPS proofs about `SniRouter` | |

### Client

A slot is the record of `path_entry_t` reduced to what control depends on:
lifecycle `state`, `live` and `id` (the xquic binding), `attached`, `released`,
`handle`, `retries`, `after` (retry clock) and `stable` (service clock). The
handlers `path_on_...` keep the names of the C file. `xqc` is the part of
xquic the client can observe: whether each path id exists, is validating or is
active; it is external and chooses freely (creation may be refused temporarily
or for good, a path may be validated or removed at any time).

Each API call, each xquic callback and each phase of `mqvpn_client_tick` is an
action that includes everything the C function does. The exception is the
restart from RECONNECTING: `client_reset_paths_for_reconnect` fires `path_event`
synchronously, and an application may call back into the library there. It is
two steps, with `in_connect` set between them, so that every other action that
the fence does not forbid can happen in between.

Clocks count ticks: 0 is unset, 1 is due, k + 1 is due in k ticks. Both
`releases` and `closed_calls` are history variables.

### Server

A connection (`svr_conn_t`) has a phase (accepted, `h3`, `closing`), the tunnel
fields and its scope. `streams` gives each request stream its role. Tunnel
setup follows `svr_masque_send_response`: address, session slot, response,
capsules, platform callback, each of which may fail, in the order of the code,
with its own undo path. A handler that returns an error moves the connection to
`closing`, where callbacks of its other streams can still arrive before it is
freed. The generation fence is checked on packets labelled with the stream they
were sent on.

### Reorder receiver

The ring is modelled with its slots, its power-of-two size and growth, so that
index collisions would show. Times are relative and saturate; `next_gap` and
`next_idle` are the cached bounds of `mqvpn_reorder_rx_tick`, kept as the code
keeps them. `out` is what the last step delivered.

### TCP lane

`flows` is the table by 5-tuple; a flow has the relay fields of
`mqvpn_tcp_flow_t` and three history fields (`given`, `wire`, `written`) that
number the chunks of each direction, so that loss, duplication and reordering
show. The functions of `tcp_lane.c` and `tcp_lane_uplink.c` are operators with
their names, from a record of the whole world (lane, lwIP's pcbs, xquic's
requests) to the one they leave; its `st` is the `tcp_lane_flow_status_t` they
return. lwIP callbacks, xquic callbacks, a SYN from the TUN, the tick and the
end of the connection are the actions. `frame` keeps what the last lwIP callback
returned and whether its pcb was aborted.

External, and modelled from how the lane uses them: a pcb (half open,
established with our callbacks, lingering after a close; bytes in flight, bytes
not yet given back to its window), a request (open, reset; what has arrived and
what was read; the write-notify flag, which a full accept clears and a partial
one or EAGAIN sets) and xquic's connection-wide count of unsent bytes. Each
operation of theirs that can fail does so nondeterministically (`fault`).
The library may run the close notify of a request inside the call that closes it.
A lane that is still tearing down the flow then tears it down a second time: the
model records that (`freed`) and stops there, since what follows runs on freed
memory (section 6, run `reentry`). `LaneSound` speaks of the states before that.

### TCP egress

A flow is the record of `svr_tcp_egress_flow_t`: its connect state, the two
stashes, the FIN flags, what the descriptor is polled for. A request, body bytes,
a ready descriptor, a writable stream, the tick and the end of the connection are
actions; each runs the relay loops to the end, with the byte budget. The socket
and the target are external: a connect may succeed, fail or stay pending, a
`recv` or `send` may be partial, end or fail, and leaves an `errno` that later
code may read. The units of both directions are numbered as their sources send
them: `body` is what xquic still holds of the request, `target` what the target
has received, `inbox` what the socket holds of its answer and `up` what xquic has
taken, so that loss and repetition show. A handler is a chain of operators, one
per C function, on a record of the flow, its stream, the registration of its
descriptor and the shared counters; `Commit` makes the last one the next state.

### H2 proxy

Streams and backend connections are the two tables of `h2_proxy.c`. A backend
event runs as a round: it feeds frames to nghttp2, runs its callbacks, flushes
what xquic takes and updates the interest, as the C functions do in that order.
Header blocks are kinds (an informational block, a final one, trailers, one that
is refused) and bodies are numbered chunks. The flow-control credit of nghttp2 is
kept twice: that of a stream is given back as xquic accepts its bytes, that of
the session as soon as a chunk was received (`nghttp2_session_consume_connection`).
`H2Books` balances both; a chunk for a stream that was already forgotten is dropped
without either, and `lost` counts what the session never gets back.

xquic may close a request inside the call that resets it, and a loop over streams
may hold a pointer to one that its body has freed. Where that happens the step is
marked `stale` and has two outcomes: the freed memory still reads as it was, and
the handler goes on, or the process ends.

### SNI router

One entry per peer with its state, pending packets, server id and age. A packet
carries what decryption and parsing would find in it (a fragment of the
ClientHello, the ids in its header). The fallback's side sends Retry packets and
its first Initial; names are sequences of labels, so that the wildcard match of
the allow list is a computation. A handler computes on the record of each peer
(its connection entry, what was sent on its behalf, what its client did), and
`SnCommit` writes the records back.

### Network monitor

`nm_if` is the real state of each interface, `nm_msgs` the notifications the
monitor has not yet read, which therefore describe a state that may be over; a
queue that overflows loses messages. `nm_slot` are the platform's path slots, their
field `lib` what the library's path API would answer. Linux and Darwin share the code of
`netmon_common.c`; Windows reconciles from a timer. A probe of an interface and
each step of a recovery may fail.

On Darwin two sources tell of the carrier, and they may disagree. IFF_RUNNING,
which the re-add asks (`netmon_iface_is_up_and_running`), may stay set after the
carrier is gone: the link is then `stuck`. The media status, which the drop asks
(`iface_carrier_down`), answers up, down or unknown, and always unknown for a
driver without it (`media` FALSE). The model keeps what follows: a stuck link has
its path dropped and re-added in turn, and one without media status never loses
it for want of carrier. `NmForCause` and `NmSettles` promise no more than that. On
Windows every operational status other than up counts as down, dormant included.

### Host setup

The state is what the process knows (`run_client`'s flags and the fields of the
DNS, route and firewall structures) and what the host holds: addresses, routes,
rules, resolver settings and backup files. A command may fail, as often as
`faults` says, and a crash erases the former and keeps the latter; `HsRuns`
processes run one after another. The interface that carries the routes to the
server may go down while a tunnel is up; the kernel flushes them with it
(`InterfaceDown`), and on Darwin the return of the path re-adds the scoped one
(`PathReturns`). The three systems are three sets of operators
under one control loop, as the source has three `platform_*.c` over one library.

### Sender lanes

A packet read from the TUN device passes the MTU gate, gets a sequence number
of its flow (`peek`), is sent, and the number is used up only if the send
succeeded (`commit`). For a redundant flow a copy goes out on a second path and
is recorded in an open-addressed table with backward-shift deletion; the hash is
a constant chosen so that clusters wrap around the end of the table.

## 3. Runs

Components that share no state and that TLC explores one at a time share a run:
a variable (`part`, `instance`) fixed by the initial state says which one the
behaviour drives, and every property speaks of all of them.

| Run | Instance | Shows |
|---|---|---|
| `client` | 2 slots, 3 handles, path ids 0..2; 472,276 states | live slots and xquic's paths match; slot invariant, no sibling send, no forgotten path, connection, timer and state agree, one `tunnel_closed`, one release per transport, unique handles (`ClientSafe`); legal transitions; refinement of `TransportContract` |
| `live` | 1 slot with backup_fec and longer clocks; 3 slots on a single path | handshakes end, reconnects happen, retries conclude, flapping is bounded, the bootstrap rotation reaches every path |
| `sessions` | 2 connections, 2 streams each | session, pool and engine consistency, tunnel ownership, generation fence |
| `users` | 2 connections, 2 users that may share a key, refusals, shutdown, fair | no early exhaustion, platform in step, scopes released once; a removed user's session closes and leaves |
| `reorder` | 1 flow with a ring up to 4 and W = 2; 3 flows with one entry | order, no loss, ring, timer and pool accounting, residence at most 2W, a tick misses nothing |
| `lane` | 1 relayed flow both ways and a longer uplink, fair; 2 flows with 2 requests; 2 flows with reused ports; 115,492 states | both directions intact, FIN after data, window credit exact, ERR_ABRT exactly on an abort, nothing dangles, neither direction stalls |
| `edge` | egress with 1 flow (idle eviction off and on) and 2, proxy with 1, 2 and 3 requests, router with 1 and 2 peers and with a peer that comes back | relayed bytes and response intact, polled for what is due, credits of stream and session balance, entry and route agree, only the failed flow is aborted, no accepted byte of an egress flow or of a response waits for ever |
| `platform` | 5 monitor, 7 host and 5 sender cases; 229,871 states | slots match the library, drops have a cause, paths come back; host restored, tunnel complete or absent, DNS recoverable after a crash, a run ends; stamps in order, copies accounted for |
| `reentry`, `yield`, `credit`, `retry` | small | four disagreements between a comment or document and the code (section 6) |

**Bounds.** Two slots are enough for every pairwise interaction of slots (the
proofs cover any number); three handles let a slot be recycled twice; path id 0
is the bootstrap path and two more allow one to drain while its slot has a new
one. In the `client` run the clocks have length 1 (set, due), which keeps every
order of expiry and event; `live` uses longer ones so that backoff and the
stability clock take several ticks. Two server connections with two streams
reach every conflict on a slot, an address and a stream. The receiver's
sequence numbers go up to 5 with a ring of 4, so that a packet can be late, in
order, ahead, at the far edge and beyond it; epochs restart the numbers, so the
runs contain unboundedly many packets. Saturated counters (`MaxAttempts`,
`MaxAge`) are capped beyond the last value the code or a property tells apart.
In the TCP lane the order LOW < HIGH < TCP_WND <= what xquic buffers is kept
with 0, 2, 3, 3 chunks. Both ways together have two chunks each: the second one
down meets a send buffer of one that the first still fills, and is stashed; the
uplink alone has three, which reach the high-water mark and the window. Two
5-tuples with caps of 1 and 2 make the lane's refusals, replacements and evictions
happen. On the server two connections meet neither the refusal by `max_clients` nor an
exhausted pool; there the proofs, which hold for every size, say more than the runs.
In the egress a body of three chunks passes a budget of two, so a read can yield
with data left; the case with bytes has idle eviction off, so that a stalled flow
would stay stalled. The proxy's window of two chunks is smaller than its response
of three; its third case has requests of two downstream connections, so that a
backend connection fills and the next is chosen. The router has one entry for two peers, and a ClientHello of two
fragments. A monitor sees three changes of an interface (down, up, and one that
overtakes them) over a queue of two. A host run has one or two failing commands,
two processes and two tunnels, so that a crash can precede a clean run and a
reconnect. The tables of copies have 8 places for hashes 6, 7, 0 that cluster
over the end, and three packets fill them past one displacement.

**Symmetry** is used on the connections in `sessions`, whose constants are equal
and which checks no liveness.

**Fairness.** The client's assumes that time passes, that each phase of the tick
runs (the application calls `mqvpn_client_tick` when
`mqvpn_client_get_interest` says so), that a restart that began ends (it is one
C function), and that xquic reports the end of a connection that is closing.
Nothing is assumed of the peer, the network or the platform. The server's
`FairSpec` assumes that xquic ends a connection it was told to close, with the
close notifies of its streams before it. That of the TCP lane assumes that time
passes and the tick runs, that the network drains xquic, that xquic fires a write
notify that is armed, that the inner application acknowledges what it is sent,
and that lwIP's memory pressure is over at some time. Egress and proxy assume
that a polled descriptor that is ready is served, that xquic fires the notify it
owes, and that the tick runs while `needs_tick` asks for it. The monitor reads its
queue and its timer fires; the run loop of the host goes on, since it has a poll
with a timeout. Where ENABLED of a whole handler would be costly its guard is
written out.

**Deadlock** is checked for the client and the TCP lane; the server ends with
`mqvpn_server_destroy`, the reorder receiver with `mqvpn_reorder_rx_free`, a
client process with its exit, and the other cases with their last packet.

## 4. Proofs

### The client

`ClientProofs` proves, for every number of slots, path ids and handles, every
timer configuration and every combination of options, that the properties of the
run `client` hold. Assumptions
are the named ASSUMEs `PathTimersAssumption`, `PathBoundsAssumption` and
`ClientAssumption` (positive clocks, first delay within the ceiling).

The inductive invariant is

    ClientInv == FlagsTypeOK /\ ConnTypeOK /\ ConnInv /\ SignalInv /\ TableInv /\ TransportInv

- `ConnInv` relates state, connection, stream and timers. It is needed because
  `ReconnectNeverStranded` depends on which timers a draining connection keeps.
- `SignalInv` is the two signalling properties, and that a tunnel that is up has
  its stream and its connection.
- `TableInv` says that each slot is well formed (`GoodSlot`: its type and
  `path_invariant_check`), that slots beyond `n_paths` are unused, that live slots
  and xquic's paths are a matching while there is a connection, and that before a
  connection starts no slot is bound. `NoForgottenPath` needs its last part, that
  no slot is pending once multipath is ready and the hold is over.
- `TransportInv` says that the handles of used slots are distinct and below
  `next_path_handle`, and relates `releases` to the slots.

The argument is split by what an action can disturb. `ClientTableProofs` first
proves for each handler of `path_state_machine.c` that it maps good slots to good
slots and what it does to the binding, then the steps of the connection part,
which never look at the slots, then the events that move one slot. `ClientProofs`
proves the steps that move several, with one lemma for each group of actions; the
activation of several pending slots is the hardest, since xquic gives each a
fresh id. It then adds the transports and derives the theorems.

The refinement (`ImplementsTransportContract`) maps a handle to a phase: unborn
at or above `next_path_handle`, released when `releases` counts it, attached
while a used slot holds it attached, detached otherwise. `TransportInv` is what
makes the phase of every other handle stay put when a slot moves: two used slots
never share a handle, and a handle is released exactly when its slot says so.
Each action is then a step of the contract or changes no phase.

### The server

`ServerProofs` proves, for every finite set of connections, every set of stream
ids, users and keys, every pool size and every configuration, the four properties
of the run `sessions` and the invariant of the run `users`. Assumptions are the
named ASSUMEs `PoolAssumption` (a pool has at least two hosts) and
`ServerAssumption` (stream 0 exists, `max_clients` is positive, the types of the
other constants).

The inductive invariant is

    ServerInv == types /\ (\A c : ConnSound(conns[c])) /\ TableInv /\ StreamInv /\ ScopeInv

- `ConnSound` says that a connection has an address exactly while its tunnel is
  up, and that its reorder engine holds only packets of that tunnel. The fence
  needs the second part: a held packet is forwarded long after it was tested.
- `TableInv` relates the four records of a session: the table, `n_sessions`, the
  used addresses of the pool and what the platform was told.
- `StreamInv` says that the only CONNECT-IP stream of a healthy connection is
  that of its tunnel. `OnlyOwnerEndsTunnel` needs it, since the code ends a tunnel
  on the role of the closing stream.
- `ScopeInv` says that the scopes of open connections are distinct, were given
  out, and have not been released yet.

`ServerTableProofs` proves what the pool's allocation returns. The scan of
`mqvpn_addr_pool_alloc` starts anywhere and wraps around; `ProbeReaches` shows
that it visits every client address, so exhaustion means that none is free
(`ExhaustedMeansFull`) and the address it returns is a free one
(`AllocatedIsFree`). The module also proves how the table changes when a session
is taken or released, and the steps that leave table and scopes alone;
`ServerProofs` proves those that give and take addresses and scopes;
the longest is the CONNECT-IP request, which has four ways to fail half way.

### The network monitor

`PlatformProofs` proves `NmSound` and `NmForCause` for every set of configurations
(any number of slots, any assignment of slots to interfaces, each of the three
platforms), every failure limit, resync period and queue length. The assumption is
`NetMonAssumption`: a configuration is a sequence of interfaces on one of the three
platforms, and limit and period are positive.

The inductive invariant `NmInv` says of every slot that it is open (socket, armed
event, one transport held, a status in which the library may use it, no failures
counted) or shut (none of these, and the library reports the path closed or not at
all). A handler is shown to map tables of such slots (`Sane`) to tables of such slots
and to move only slots it has a cause to move (`Moves`), probe by probe and failure by
failure, so that both theorems follow from one pass over the code. Half-open slots
occur only inside a handler: the rollback of a re-add is shown to leave none. The
periodic scan is a recursive function over the slots; since what it computes
cannot be proved by induction here, its lemma (`ScanSane`) takes the least number
of slots for which it fails and derives a contradiction. The cause in `NmForCause`
is definite: the link is gone, down or without carrier, the address is gone, or
the message at the head of the queue says so. A probe that failed is none, nor is
a dormant link outside Windows; and a socket is opened only on an interface that
runs and has an address (`Fit`).

### The TCP egress

`TcpEgressProofs` proves `EgressIntact`, `EgressPolled` and `AbortsTheFailedFlow`
for every set of streams and flow addresses, every chunk size and byte budget,
every admission limit and every length of both directions. The assumption is
`EgressAssumption`: finitely many addresses, none of them the null pointer, and a
chunk and a budget of at least one unit.

The inductive invariant is

    EgInv == EgTypeOK /\ EgLinked /\ EgCounted

- `EgLinked` says that flow, stream and descriptor registration point at each
  other and at nobody else; that in each direction what the sink has, what is
  stashed and what is still to be read are together what the source sent, in this
  order (`Down`, `Up`); that a FIN was passed on only with nothing left before it;
  and that the descriptor is registered for exactly what the flow waits for
  (`Interest`).
- `EgCounted` says that both admission counters are the number of live flows. The
  facts about finite sets it needs are a conjunct of their own (`Counting`), which
  no step changes and which `CountingHolds` derives from the assumption.

`TcpEgressFlowProofs` follows the chain of operators of a handler: each one keeps
the record `Whole` (the two directions in order) and `Polled` (registered for what
it waits for), or leaves the flow `Gone` with its descriptor unregistered and the
counters lowered. That is where the relay loops, the partial writes and the stashes
are dealt with, for one flow. `TcpEgressProofs` shows once, for all handlers,
that committing such a record keeps the other flows linked and counted, and goes
through the actions: new flows get an address and the lowest free descriptor (there
is one while an address is free), the tick and the shutdown end any set of flows at
once. `AbortsTheFailedFlow` needs the serial number: while the flush of a failed
flow runs, its address may be given to another flow.

### The sender's stamps

`PlatformProofs` also proves `StampedInOrder`, for every size of the flow table,
any number of flows and paths, every idle timeout and number of RESET marks, and a
wall clock that may step back. `SenderAssumption` says that timeout and marks are
naturals.

The receiver relies on a sequence that crosses two lives of a flow: an entry may be
evicted and created again, and its numbers then start from 0. The inductive invariant
`SlInv` ties the table to the wire: an entry that has sent goes on from the last packet
of its flow (`Continues`), and an entry that is new, or missing, stands for a flow
whose last packet is older than the timeout, measured on the highest time the clock
has shown (`Restarts`). Marks left are a function of the next number. That a packet is
stamped only when xquic took it, that a copy lane never stamps, and that an idle entry
is evicted only by a clock that went forward are the steps of the proof. The same
property fails at once with the subtraction unguarded (the mutant `flow_idle_wraps`).

### The SNI router

`SniRouterProofs` proves two theorems for any finite set of peers, any names,
patterns and fragments, any table size of at least one entry and any limit on held
datagrams, with and without the PROXY header, and for any set of sends that fail:

- `RouterDeliversOnce`: `DeliveredOnce`, without a further hypothesis.
- `RouterRoutesSoundly`: `RouterSound`, where no case has a fallback server that
  takes a new id after its Retry. Such servers are the ones of the run `retry`, which
  violates `FallbackSticks` (section 6); their connections can be routed in two
  places, so the hypothesis cannot be dropped.

`SniAssumption` says that the peers are finitely many, that the table has room for
one entry (`sni_router_create` replaces 0 by a default), and what a case is.

The inductive invariant `SniInv` is one predicate on each peer's record (its entry,
what left for it, its client), and the bound of the table. `Placed` says that the
numbers of what left and of what is held are those sent, in order, and that no entry
is of a connection the client has not opened yet. For a client that has sent, and
that the router has not given up, `Routed` says that the entry is of the current
connection and either that its name is served and everything of it went to the
engine, or that it is not served, that nothing of it went to the engine, that the
header is on the first datagram the socket took (`Headed`), and that the client uses
an id the entry knows (`IdsKnown`). The last is what makes the property inductive: a
datagram with an id that the entry does not know would start a new entry.

A step changes the record of one peer, or of two when an entry is evicted for
another. Each function of `sni_router.c` is shown to keep the invariant of one peer
(`AcceptArrives`, `FallbackArrives`, `HoldArrives`, `LostArrives`, ...), and
`CommitKeeps` and `WriteKeeps` that committing such records keeps `SniInv`.

### Only model-checked

- The liveness properties, which are out of the prover's reach.
- `ReorderRx` (`EngineSound`, `ResidenceBounded`, `DeliversInOrder`,
  `NothingLost`): the ring, its growth and the flush are recursive computations
  over data, whose results the prover can only establish by induction.
- `CopiesAccounted` of `SenderLanes`: that a table of copies finds what was put into
  it after the backward shift of a removal is, again, a fact about a recursive
  computation over data.
- `TcpLane` (`Relayed`, `AbortReported`, `LaneSound`), `H2Proxy`
  (`ResponseIntact`, `H2Books`) and `HostSetup` (`HostRestored`, `TunnelWhole`,
  `DnsRecoverable`): no inductive invariant has been worked out for them.
- `FallbackSticks` is violated, see section 6.
- The operators of `svr_tcp_egress_on_relay_ready` and the other relay loops are
  closed forms of the C loops (what a loop moves until its sink is full or its
  budget used up); that the closed form is what the loop computes is by
  construction of the model, not a theorem.

## 5. What is not modelled

Left out of modelled parts:

- The data of packets: headers, checksums, offload layouts, encryption; statistics,
  histograms and logs; the clock stepping back, except in the sender.
- Allocation failures in `cb_accept` and `cb_request_create`, before any state
  exists, and a failing clock or allocation in `mqvpn_tcp_lane_new`.
- The classification of packets before the TCP lane, the inner workings of lwIP,
  xquic and nghttp2, and the parsing of target paths and access lists.
- The window arithmetic by which `redundant_tx.c` judges a path overloaded is a
  free choice; what follows from the judgement is modelled.
- In `HostSetup`, changes of the host by other programs, except that a network
  service may appear on Darwin.

Not modelled at all, because there is no state that a checker could drive wrong or
because it lies outside of the C library: the flow scheduler (a pure hash of packet
bytes), configuration (parsing and translation), the socket binds (byte layout of
GSO and GRO), ICMP, logging and utilities; the control socket (its commands are
the user actions of `ServerSessions`, the rest is JSON over a socket); the Android
reactor, the SDKs and the GUI. `PROJECT.json` lists each with its status.

Where the code is surprising the model keeps it:

- `cli_masque_start_tunnel`'s failure is ignored by its caller (the client stays
  AUTHENTICATING until xquic ends the connection).
- A client that was never connected does not rotate its bootstrap slot, so
  `connect` keeps failing while slot 0 is dropped.
- A slot whose path xquic refused to abandon stays CLOSED_DROPPED until the next
  reconnect.
- A refused 502 leaves a proxied request with a bare FIN, and a reset of one H3
  request fails the backend connection it shares.
- The router lets a packet that overtakes the Initial through to the server.
- The kill switch is removed while the client is reconnecting.
- A route to the server that the user already had is replaced and then deleted.
- `has_v6` stays set over reconnects; Windows keeps half of a failed pair of IPv6
  split routes until cleanup.

## 6. Disagreements between documents and code

Shown by a run:

1. `tcp_lane.c:1025` says that a flow is never torn down twice from the same event;
   `tcp_egress.c:557-563` says that `xqc_h3_request_close` may run the close notify
   at once. In `tcp_lane_close_h3` (line 985) that notify still finds the flow by
   its stream, tears it down and frees it, and the outer teardown goes on with it.
   The run shows it for a request whose transport stream is closed before it has
   been read to its end (run `reentry`).
2. `tcp_egress.c` says that a relay that yields at its byte budget reaches the
   interest update at its tail; the branch after the loop tests an `errno` that no
   call of this path has set, and may close a healthy flow (run `yield`).
3. `docs/server-fallback-proxy.md` says stream credit is returned once xquic
   accepts the bytes; credit given back outside a backend event is only queued in
   nghttp2, and is sent when the backend next becomes ready (run `credit`).
4. `docs/server-fallback-proxy.md` says that a Retry or a server's Initial keeps a
   fallback connection on its socket; the router keeps the first id it sees, so a
   server that takes another after its Retry loses its client (run `retry`).

Met while modelling, from reading, without a run of their own:

5. `reorder_rx.h:66-69` says the gap counters balance over all flows, evicted ones
   included; a flow evicted with a running period leaves its start uncounted on
   the other side (`reorder_rx.c:398`).
6. `reorder_rx.c:963` says a packet that is still ahead after a flush meets a fresh
   limit check; only the pool is checked, and the flow may exceed its byte limit.
7. `tcp_lane.h:284-287` calls TCP_WND the bound of a flow's uplink queue; bytes
   queued before the response are acknowledged to lwIP below the high-water mark,
   so the queue can hold almost a high-water mark more, as
   `docs/hybrid_h2_memory_budget.md` says (`RelayIntact` has the true bound).
8. `docs/control-api.md:140-142` says that removing a user does not disconnect an
   active session; `mqvpn_server_remove_user` closes it, and `RevokedLeaves` (run
   `users`) shows that it leaves.
9. `docs/h2-proxy-protocol.md:3` promises the address of the client in the PROXY
   header; a backend connection that several clients share has that of the first.
10. `linux/dns.c:249-253` describes `mqvpn_dns_restore_stale` as the recovery after
    a crash; nothing calls it, and the next apply saves the overridden file as
    the backup. Rules of a crashed process, tagged with its pid, stay too.
    `mqvpn_dns_apply` also goes on when it could not copy `/etc/resolv.conf`
    (lines 181-188): the original is then lost (`HostRestored` excepts it).
11. `linux/netlink_mon.c:95` has no periodic resync because netlink signals an
    overflow (ENOBUFS); the read loop ends on that error as on any other, and the
    lost messages are not made up for. `NmSettles` therefore promises the loss of
    a link on Linux only as long as no message is lost.
12. `tun_wintun.c:251-256` says that the pipe of the reader thread is framed by
    lengths; the `send` at line 287 counts a partial write as a whole one. The
    reader thread is not modelled.
