----------------------------- MODULE TcpEgress -----------------------------
(***************************************************************************)
(* The server side of the hybrid TCP lane (src/src/hybrid/tcp_egress.c):   *)
(* one egress TCP connection per connect-tcp request stream, relayed in    *)
(* both directions with one stashed chunk each way.  Flows are malloc'd    *)
(* objects named by their address, so an address may be used again; so are *)
(* descriptor numbers.  The relayed bytes are numbered units.  Time is     *)
(* kept as one bit per flow: its deadline (connect timeout while           *)
(* CONNECTING, idle timeout while ACTIVE) has passed.                      *)
(***************************************************************************)
EXTENDS Integers, Sequences, FiniteSets

CONSTANTS
    EgStreams,               \* request streams of one H3 connection
    EgAddrs,                 \* addresses calloc may return for a flow
    eg_max_flows,            \* tcp_max_flows, per connection
    eg_fd_budget,            \* tcp_egress_fd_budget, whole server
    TCP_EGRESS_RELAY_CHUNK,
    TCP_EGRESS_RELAY_BUDGET,
    EgCases                  \* what is explored: records of the streams used, the flows
                             \* admitted, the units a client and a target send, and whether
                             \* tcp_idle_timeout_sec # 0

\* A loop moves at least a unit per chunk and per pass, and the rooms of the
\* sinks are counts of units.
ASSUME EgressAssumption ==
    /\ IsFiniteSet(EgAddrs) /\ "none" \notin EgAddrs
    /\ TCP_EGRESS_RELAY_CHUNK \in Nat \ {0}
    /\ TCP_EGRESS_RELAY_BUDGET \in Nat \ {0}
    /\ \A c \in EgCases : c.body \in Nat /\ c.target \in Nat

VARIABLES
    eg_case,          \* the member of EgCases of this behaviour
    eg_stream,        \* the H3 request streams, as xquic and svr_stream_t have them
    eg_flow,          \* the flows, by address
    eg_fd,            \* the platform's registry: descriptor -> interest
    eg_conn_count,    \* svr_conn_t.tcp_flow_count
    eg_fd_count,      \* tcp_egress_global_fd_count
    eg_opened,        \* tcp_egress_flows_total_opened
    eg_erring,        \* the flow whose on_relay_error is inside its flush
    eg_errno          \* errno of the event loop thread

eg_vars == <<eg_case, eg_stream, eg_flow, eg_fd, eg_conn_count, eg_fd_count,
             eg_opened, eg_erring, eg_errno>>

NoEgFlow == [live |-> FALSE]
NoEgErr == [addr |-> "none", serial |-> 0]
NoStream == [open |-> FALSE, slot |-> "none", resp |-> 0, nsent |-> 0, body |-> <<>>,
             fin |-> FALSE, up |-> <<>>, up_fin |-> FALSE]

EgFds == 1..Cardinality(EgAddrs)
Unregistered == [ctx |-> "none", r |-> FALSE, w |-> FALSE]

EgLive == {a \in EgAddrs : eg_flow[a].live}

EgressInit ==
    /\ eg_case \in EgCases
    /\ eg_stream = [s \in EgStreams |-> NoStream]
    /\ eg_flow = [a \in EgAddrs |-> NoEgFlow]
    /\ eg_fd = [f \in EgFds |-> Unregistered]
    /\ eg_conn_count = 0
    /\ eg_fd_count = 0
    /\ eg_opened = 0
    /\ eg_erring = NoEgErr
    /\ eg_errno = "EAGAIN"

-----------------------------------------------------------------------------
(* The state of one handler run: a flow, its request stream and the         *)
(* registration of its descriptor, with what all flows share.  A handler is *)
(* a chain of functions from and to such a record; Commit makes the last    *)
(* one the next state.                                                      *)

At(a, s, f) ==
    [addr |-> a, sid |-> s, num |-> f, flow |-> eg_flow[a], stream |-> eg_stream[s],
     reg |-> eg_fd[f], conn |-> eg_conn_count, fds |-> eg_fd_count, opened |-> eg_opened,
     erring |-> eg_erring, errno |-> eg_errno]

Of(a) == At(a, eg_flow[a].stream, eg_flow[a].fd)

Commit(q) ==
    /\ eg_stream' = [eg_stream EXCEPT ![q.sid] = q.stream]
    /\ eg_flow' = [eg_flow EXCEPT ![q.addr] = q.flow]
    /\ eg_fd' = [eg_fd EXCEPT ![q.num] = q.reg]
    /\ eg_conn_count' = q.conn
    /\ eg_fd_count' = q.fds
    /\ eg_opened' = q.opened
    /\ eg_erring' = q.erring
    /\ eg_errno' = q.errno
    /\ UNCHANGED eg_case

\* A handler that meets no flow.
CommitStream(s, st) ==
    /\ eg_stream' = [eg_stream EXCEPT ![s] = st]
    /\ UNCHANGED <<eg_case, eg_flow, eg_fd, eg_conn_count, eg_fd_count, eg_opened,
                   eg_erring, eg_errno>>

svr_egress_fd_register(q, want_read, want_write) ==
    [q EXCEPT !.reg = [ctx |-> q.addr, r |-> want_read, w |-> want_write]]

svr_egress_fd_unregister(q) == [q EXCEPT !.reg = Unregistered]

svr_tcp_egress_flow_destroy(q) ==
    LET u == svr_egress_fd_unregister(q)
    IN [u EXCEPT !.flow = NoEgFlow, !.conn = @ - 1, !.fds = @ - 1, !.stream.slot = "none"]

svr_tcp_egress_respond(st, status) == [st EXCEPT !.resp = status]

\* xqc_h3_request_close: the stream takes and gives no more body; its close
\* notify is delivered later.
xqc_h3_request_close(q) == [q EXCEPT !.stream.resp = -1, !.stream.body = <<>>]

svr_tcp_egress_abort(q) == xqc_h3_request_close(svr_tcp_egress_flow_destroy(q))

\* Inside an engine callback the flush is refused, so the flow is aborted at
\* once; from the event loop the flush runs the engine (see FlushEnds).
svr_tcp_egress_on_relay_error(q, in_engine) ==
    IF in_engine
    THEN svr_tcp_egress_abort(q)
    ELSE [q EXCEPT !.erring = [addr |-> q.addr, serial |-> q.flow.serial]]

fd_interest_not_lowered(q) ==
    IF q.flow.state # "ACTIVE" THEN q
    ELSE svr_egress_fd_register(q, ~q.flow.uplink_withheld, q.flow.downlink_paused)

svr_tcp_egress_update_fd_interest(q) ==
    IF q.flow.state # "ACTIVE" THEN q
    ELSE svr_egress_fd_register(q, ~q.flow.uplink_withheld /\ ~q.flow.eof_seen,
                                q.flow.downlink_paused)

svr_tcp_egress_maybe_shutdown_downlink(q) ==
    IF ~q.flow.fin_received \/ q.flow.downlink_paused THEN q
    ELSE [q EXCEPT !.flow.shutdown_done = TRUE]

svr_tcp_egress_stash_downlink(q, rest) ==
    svr_tcp_egress_update_fd_interest(
        [q EXCEPT !.flow.downlink_stash = rest, !.flow.downlink_paused = TRUE])

svr_tcp_egress_stash_uplink(q, rest) ==
    svr_tcp_egress_update_fd_interest(
        [q EXCEPT !.flow.uplink_stash = rest, !.flow.uplink_withheld = TRUE])

\* Where a loop that moves chunks stops when its sink takes `room` units: the
\* chunk on which it stops has been read to here.
ChunkEnd(room, n) ==
    LET e == (room \div TCP_EGRESS_RELAY_CHUNK + 1) * TCP_EGRESS_RELAY_CHUNK
    IN IF e < n THEN e ELSE n

\* What a sink with room for `room` of n units takes.
Taken(room, n) == IF room < n THEN room ELSE n

\* The loop over recv_body and send: the socket takes `room` units, then it
\* would block.  The end of the body is reported again by every later call.
svr_tcp_egress_drain_body(q, room) ==
    LET body == q.stream.body
        n == Len(body)
        end == ChunkEnd(room, n)
        moved == Taken(room, n)
        sent == [q EXCEPT !.flow.target = @ \o SubSeq(body, 1, moved),
                          !.flow.expired = @ /\ moved = 0]
    IN IF q.flow.downlink_paused THEN q
       ELSE IF room < n
       THEN svr_tcp_egress_stash_downlink(
                [sent EXCEPT !.stream.body = SubSeq(body, end + 1, n), !.errno = "EAGAIN"],
                SubSeq(body, room + 1, end))
       ELSE svr_tcp_egress_maybe_shutdown_downlink(
                [sent EXCEPT !.stream.body = <<>>, !.flow.fin_received = q.stream.fin])

flush_repeats_partial(q, room) ==
    LET stash == q.flow.downlink_stash
        n == Len(stash)
        off == Taken(room, n)
        sent == [q EXCEPT !.flow.target = @ \o SubSeq(stash, 1, off),
                          !.errno = IF off < n THEN "EAGAIN" ELSE @]
        done == svr_tcp_egress_update_fd_interest(
                    svr_tcp_egress_maybe_shutdown_downlink(
                        [sent EXCEPT !.flow.downlink_stash = <<>>,
                                     !.flow.downlink_paused = FALSE]))
    IN IF off < n THEN sent ELSE svr_tcp_egress_drain_body(done, room - n)

svr_tcp_egress_flush_downlink_retry(q, room) ==
    LET stash == q.flow.downlink_stash
        n == Len(stash)
        off == Taken(room, n)
        sent == [q EXCEPT !.flow.target = @ \o SubSeq(stash, 1, off),
                          !.flow.expired = @ /\ off = 0,
                          !.flow.downlink_stash = SubSeq(stash, off + 1, n),
                          !.errno = IF off < n THEN "EAGAIN" ELSE @]
        done == svr_tcp_egress_update_fd_interest(
                    svr_tcp_egress_maybe_shutdown_downlink(
                        [sent EXCEPT !.flow.downlink_paused = FALSE]))
    IN IF off < n THEN sent ELSE svr_tcp_egress_drain_body(done, room - n)

\* A FIN that xquic refuses is not buffered: it is sent again on a write notify.
svr_tcp_egress_try_uplink_fin(q, accepted) ==
    IF q.flow.uplink_fin_sent THEN q
    ELSE [q EXCEPT !.flow.uplink_fin_sent = accepted, !.stream.up_fin = accepted]

\* The recv loop: xquic takes `room` units.  It ends on a chunk that was not
\* taken whole, on a spent budget, on an empty socket or at its end.  After a
\* spent budget errno is what some earlier call left there.
relay_uplink(q, room, fin_accepted) ==
    LET inbox == q.flow.inbox
        avail == Len(inbox)
        n == Taken(TCP_EGRESS_RELAY_BUDGET, avail)
        end == IF room < n THEN ChunkEnd(room, n) ELSE n
        read == [q EXCEPT !.flow.inbox = SubSeq(inbox, end + 1, avail),
                          !.flow.expired = @ /\ end = 0,
                          !.stream.up = @ \o SubSeq(inbox, 1, Taken(room, n))]
    IN IF room < n THEN svr_tcp_egress_stash_uplink(read, SubSeq(inbox, room + 1, end))
       ELSE IF n = TCP_EGRESS_RELAY_BUDGET
       THEN IF q.errno = "EAGAIN" THEN svr_tcp_egress_update_fd_interest(read)
            ELSE svr_tcp_egress_on_relay_error(read, FALSE)
       ELSE IF q.flow.target_eof
       THEN svr_tcp_egress_try_uplink_fin(
                svr_tcp_egress_update_fd_interest([read EXCEPT !.flow.eof_seen = TRUE]),
                fin_accepted)
       ELSE svr_tcp_egress_update_fd_interest([read EXCEPT !.errno = "EAGAIN"])

svr_tcp_egress_on_relay_ready(q, readable, writable, droom, uroom, fin_accepted) ==
    LET p == IF writable /\ q.flow.downlink_paused
             THEN svr_tcp_egress_flush_downlink_retry(q, droom) ELSE q
    IN IF readable /\ ~p.flow.uplink_withheld
       THEN relay_uplink(p, uroom, fin_accepted)
       ELSE svr_tcp_egress_update_fd_interest(p)

\* The flow is ACTIVE, its descriptor polled for reading, and the response out.
connected(q) ==
    LET p == svr_tcp_egress_update_fd_interest(
                 [q EXCEPT !.flow.state = "ACTIVE", !.flow.expired = FALSE])
    IN [p EXCEPT !.stream = svr_tcp_egress_respond(@, 200)]

on_connected_undrained(q, room) == connected(q)

svr_tcp_egress_on_connected(q, room) == svr_tcp_egress_drain_body(connected(q), room)

svr_tcp_egress_fail_connect(q, status) ==
    svr_tcp_egress_flow_destroy([q EXCEPT !.stream = svr_tcp_egress_respond(@, status)])

-----------------------------------------------------------------------------
(* Handlers *)

\* The descriptors no flow holds; the kernel gives the lowest.
FreeFds == EgFds \ {eg_flow[b].fd : b \in EgLive}

\* The part of start_connect that makes the flow: linked and counted before
\* connect is called.
flow_new(q) ==
    [q EXCEPT
       !.flow = [live |-> TRUE, stream |-> q.sid, fd |-> q.num, serial |-> q.opened + 1,
                 state |-> "CONNECTING", expired |-> FALSE,
                 target |-> <<>>, downlink_stash |-> <<>>, downlink_paused |-> FALSE,
                 fin_received |-> FALSE, shutdown_done |-> FALSE,
                 inbox |-> <<>>, nrecv |-> 0, target_eof |-> FALSE,
                 uplink_stash |-> <<>>, uplink_withheld |-> FALSE,
                 eof_seen |-> FALSE, uplink_fin_sent |-> FALSE],
       !.stream.slot = q.addr, !.conn = @ + 1, !.fds = @ + 1, !.opened = @ + 1]

\* socket, setsockopt, inet_pton or calloc may fail before there is a flow;
\* connect may succeed, fail or be in progress.
svr_tcp_egress_start_connect(s, st) ==
    IF eg_fd_count >= eg_fd_budget \/ eg_conn_count >= eg_max_flows
    THEN CommitStream(s, svr_tcp_egress_respond(st, 503))
    ELSE \/ CommitStream(s, svr_tcp_egress_respond(st, 500))
         \/ /\ eg_opened < eg_case.opened
            /\ \E a \in EgAddrs \ EgLive :
                 LET f == CHOOSE g \in FreeFds : \A h \in FreeFds : g <= h
                     p == flow_new([At(a, s, f) EXCEPT !.stream = st])
                 IN \/ Commit(svr_tcp_egress_on_connected(p, 0))
                    \/ Commit([svr_tcp_egress_fail_connect(p, 502) EXCEPT !.errno = "other"])
                    \/ Commit([svr_egress_fd_register(p, FALSE, TRUE) EXCEPT !.errno = "other"])

\* A request of the connect-tcp protocol: authentication (403), the path
\* (400), the access list (403), then the connection.
svr_tcp_egress_on_request(s) ==
    /\ ~eg_stream[s].open /\ s \in eg_case.streams
    /\ LET st == [eg_stream[s] EXCEPT !.open = TRUE]
       IN \/ \E status \in {400, 403} : CommitStream(s, svr_tcp_egress_respond(st, status))
          \/ svr_tcp_egress_start_connect(s, st)

\* Body or FIN of the client reaches xquic, which notifies at once.
svr_tcp_egress_on_body(s, fin) ==
    /\ eg_stream[s].open /\ eg_stream[s].resp # -1 /\ ~eg_stream[s].fin
    /\ fin \/ eg_stream[s].nsent < eg_case.body
    /\ LET st == IF fin THEN [eg_stream[s] EXCEPT !.fin = TRUE]
                 ELSE [eg_stream[s] EXCEPT !.nsent = @ + 1,
                                           !.body = Append(@, eg_stream[s].nsent + 1)]
           a == eg_stream[s].slot
           q == [Of(a) EXCEPT !.stream = st]
       IN IF a = "none" \/ eg_flow[a].state # "ACTIVE" THEN CommitStream(s, st)
          ELSE \/ \E room \in 0..eg_case.body : Commit(svr_tcp_egress_drain_body(q, room))
               \/ Commit([svr_tcp_egress_on_relay_error(q, TRUE) EXCEPT !.errno = "other"])

\* xquic has room for the stream again, for `room` units.
h3_writable(q, room, fin_accepted) ==
    LET stash == q.flow.uplink_stash
        n == Len(stash)
        off == Taken(room, n)
        sent == [q EXCEPT !.flow.uplink_stash = SubSeq(stash, off + 1, n),
                          !.flow.expired = @ /\ off = 0,
                          !.stream.up = @ \o SubSeq(stash, 1, off)]
        done == svr_tcp_egress_update_fd_interest([sent EXCEPT !.flow.uplink_withheld = FALSE])
        p == IF q.flow.uplink_withheld THEN done ELSE q
    IN IF off < n THEN sent
       ELSE IF q.flow.eof_seen THEN svr_tcp_egress_try_uplink_fin(p, fin_accepted)
       ELSE p

svr_tcp_egress_on_h3_writable(s, room, fin_accepted) ==
    /\ eg_stream[s].slot # "none"
    /\ Commit(h3_writable(Of(eg_stream[s].slot), room, fin_accepted))

\* send_body fails for good: the stream is gone in xquic.
H3SendFails(s) ==
    LET a == eg_stream[s].slot
    IN /\ a # "none"
       /\ eg_flow[a].uplink_withheld \/ (eg_flow[a].eof_seen /\ ~eg_flow[a].uplink_fin_sent)
       /\ Commit(svr_tcp_egress_on_relay_error(Of(a), TRUE))

\* The peer reset the stream.
cb_request_closing_notify(s) ==
    /\ eg_stream[s].slot # "none"
    /\ Commit([svr_tcp_egress_flow_destroy(Of(eg_stream[s].slot)) EXCEPT !.stream.resp = -1])

egress_cb_request_close(s) ==
    /\ eg_stream[s].open
    /\ IF eg_stream[s].slot = "none" THEN CommitStream(s, NoStream)
       ELSE Commit([svr_tcp_egress_flow_destroy(Of(eg_stream[s].slot)) EXCEPT !.stream = NoStream])

EngineCallback ==
    \E s \in EgStreams :
        \/ svr_tcp_egress_on_request(s)
        \/ \E fin \in BOOLEAN : svr_tcp_egress_on_body(s, fin)
        \/ \E room \in 0..TCP_EGRESS_RELAY_CHUNK, ok \in BOOLEAN :
              svr_tcp_egress_on_h3_writable(s, room, ok)
        \/ H3SendFails(s)
        \/ cb_request_closing_notify(s)
        \/ egress_cb_request_close(s)

\* The platform reports readiness of a registered descriptor.
svr_tcp_egress_fd_ready(f) ==
    LET a == eg_fd[f].ctx
        ef == eg_flow[a]
        q == Of(a)
        readable == eg_fd[f].r /\ (ef.inbox # <<>> \/ ef.target_eof)
    IN /\ a # "none"
       /\ IF ef.state = "CONNECTING"
          THEN \/ Commit(svr_tcp_egress_fail_connect(q, 502))
               \/ \E room \in 0..eg_case.body : Commit(svr_tcp_egress_on_connected(q, room))
               \/ Commit([svr_tcp_egress_on_relay_error(svr_tcp_egress_on_connected(q, 0), FALSE)
                            EXCEPT !.errno = "other"])
          ELSE \/ \E r \in {FALSE, readable}, w \in {FALSE, eg_fd[f].w},
                     droom \in 0..eg_case.body, uroom \in 0..eg_case.target, ok \in BOOLEAN :
                    /\ r \/ w
                    /\ Commit(svr_tcp_egress_on_relay_ready(q, r, w, droom, uroom, ok))
               \/ /\ eg_fd[f].r \/ eg_fd[f].w
                  /\ Commit([svr_tcp_egress_on_relay_error(q, FALSE) EXCEPT !.errno = "other"])

FlushEnds_by_address ==
    LET a == eg_erring.addr
    IN /\ eg_erring # NoEgErr
       /\ IF eg_flow[a].live
          THEN Commit([svr_tcp_egress_abort(Of(a)) EXCEPT !.erring = NoEgErr])
          ELSE /\ eg_erring' = NoEgErr
               /\ UNCHANGED <<eg_case, eg_stream, eg_flow, eg_fd, eg_conn_count, eg_fd_count,
                              eg_opened, eg_errno>>

\* The flush of on_relay_error has returned: abort the flow if it is still
\* the same one.
FlushEnds ==
    LET a == eg_erring.addr
    IN /\ eg_erring # NoEgErr
       /\ IF eg_flow[a].live /\ eg_flow[a].serial = eg_erring.serial
          THEN Commit([svr_tcp_egress_abort(Of(a)) EXCEPT !.erring = NoEgErr])
          ELSE /\ eg_erring' = NoEgErr
               /\ UNCHANGED <<eg_case, eg_stream, eg_flow, eg_fd, eg_conn_count, eg_fd_count,
                              eg_opened, eg_errno>>

\* A loop over the flow list that ends the flows in A, each as end says; they
\* share neither a stream nor a descriptor.
EndFlows(A, end) ==
    /\ eg_flow' = [a \in EgAddrs |-> IF a \in A THEN end[a].flow ELSE eg_flow[a]]
    /\ eg_fd' = [f \in EgFds |-> IF eg_fd[f].ctx \in A THEN end[eg_fd[f].ctx].reg ELSE eg_fd[f]]
    /\ eg_conn_count' = eg_conn_count - Cardinality(A)
    /\ eg_fd_count' = eg_fd_count - Cardinality(A)
    /\ UNCHANGED <<eg_case, eg_opened, eg_erring, eg_errno>>

\* One pass over the flow list.
svr_tcp_egress_tick ==
    LET Due == {a \in EgLive : eg_flow[a].expired /\ (eg_flow[a].state = "CONNECTING" \/ eg_case.idle_evict)}
        end == [a \in Due |-> IF eg_flow[a].state = "CONNECTING"
                             THEN svr_tcp_egress_fail_connect(Of(a), 504)
                             ELSE svr_tcp_egress_abort(Of(a))]
    IN /\ Due # {}
       /\ EndFlows(Due, end)
       /\ eg_stream' = [s \in EgStreams |-> IF eg_stream[s].slot \in Due
                                            THEN end[eg_stream[s].slot].stream ELSE eg_stream[s]]

\* mqvpn_server_destroy: xqc_engine_destroy closes the streams it still
\* notifies of, the sweep takes the flows that are left.
svr_tcp_egress_destroy_all ==
    LET end == [a \in EgLive |-> svr_tcp_egress_flow_destroy(Of(a))]
    IN /\ \E s \in EgStreams : eg_stream[s].open
       /\ EndFlows(EgLive, end)
       /\ eg_stream' = [s \in EgStreams |-> NoStream]

-----------------------------------------------------------------------------
(* The environment *)

TargetSends(a) ==
    /\ eg_flow[a].live /\ eg_flow[a].state = "ACTIVE"
    /\ ~eg_flow[a].target_eof /\ eg_flow[a].nrecv < eg_case.target
    /\ Commit([Of(a) EXCEPT !.flow.inbox = Append(@, eg_flow[a].nrecv + 1), !.flow.nrecv = @ + 1])

TargetCloses(a) ==
    /\ eg_flow[a].live /\ eg_flow[a].state = "ACTIVE" /\ ~eg_flow[a].target_eof
    /\ Commit([Of(a) EXCEPT !.flow.target_eof = TRUE])

TimePasses(a) ==
    /\ eg_flow[a].live /\ ~eg_flow[a].expired
    /\ Commit([Of(a) EXCEPT !.flow.expired = TRUE])

\* Any other call of the thread, on the UDP sockets for instance.
OtherSyscall ==
    /\ eg_errno # "EAGAIN" /\ eg_errno' = "EAGAIN"
    /\ UNCHANGED <<eg_case, eg_stream, eg_flow, eg_fd, eg_conn_count, eg_fd_count,
                   eg_opened, eg_erring>>

EgressNext ==
    \/ EngineCallback
    \/ FlushEnds
    \/ \E a \in EgAddrs : TargetSends(a) \/ TargetCloses(a) \/ TimePasses(a)
    \/ /\ eg_erring = NoEgErr
       /\ \/ \E f \in EgFds : svr_tcp_egress_fd_ready(f)
          \/ svr_tcp_egress_tick
          \/ svr_tcp_egress_destroy_all
          \/ OtherSyscall

-----------------------------------------------------------------------------
(* Fairness: the reactor reports a ready descriptor in the end with room    *)
(* for a byte, xquic notifies a stream it refused in the end with room for  *)
(* one, connects end or time out, and a flush returns.                      *)

FdDue(f) ==
    LET ef == eg_flow[eg_fd[f].ctx]
    IN /\ eg_erring = NoEgErr /\ eg_fd[f].ctx # "none"
       /\ \/ eg_fd[f].w
          \/ eg_fd[f].r /\ (ef.inbox # <<>> \/ ef.target_eof)

FdServed(f) ==
    LET a == eg_fd[f].ctx
        ef == eg_flow[a]
    IN /\ FdDue(f)
       /\ IF ef.state = "CONNECTING" THEN eg_flow'[a] # ef
          ELSE \E droom \in 1..eg_case.body + 1, uroom \in 1..eg_case.target + 1 :
                 Commit(svr_tcp_egress_on_relay_ready(Of(a),
                            eg_fd[f].r /\ (ef.inbox # <<>> \/ ef.target_eof), eg_fd[f].w,
                            droom, uroom, TRUE))

H3Due(s) ==
    /\ eg_stream[s].slot # "none"
    /\ LET ef == eg_flow[eg_stream[s].slot]
       IN ef.uplink_withheld \/ (ef.eof_seen /\ ~ef.uplink_fin_sent)

H3Served(s) ==
    /\ H3Due(s)
    /\ \E room \in 1..TCP_EGRESS_RELAY_CHUNK : svr_tcp_egress_on_h3_writable(s, room, TRUE)

\* Weak fairness, written out.
EgressFairness ==
    /\ []<>(eg_erring = NoEgErr)
    /\ \A f \in EgFds : []<>~FdDue(f) \/ []<><<FdServed(f)>>_eg_vars
    /\ \A s \in EgStreams : []<>~H3Due(s) \/ []<><<H3Served(s)>>_eg_vars

EgressSpec == EgressInit /\ [][EgressNext]_eg_vars /\ EgressFairness

-----------------------------------------------------------------------------
(* Properties *)

Numbered(n) == [i \in 1..n |-> i]

\* Both directions of a flow are one byte stream: what the target (the client)
\* has, the stash, and what is still to be read are the units sent, in order;
\* a FIN goes out only behind the last of them.
EgressIntact ==
    \A a \in EgLive :
        LET ef == eg_flow[a]
            st == eg_stream[ef.stream]
        IN (a # eg_erring.addr \/ ef.serial # eg_erring.serial) =>
           /\ ef.target \o ef.downlink_stash \o st.body = Numbered(st.nsent)
           /\ ef.shutdown_done => st.fin /\ Len(ef.target) = st.nsent
           /\ st.up \o ef.uplink_stash \o ef.inbox = Numbered(ef.nrecv)
           /\ st.up_fin => ef.target_eof /\ Len(st.up) = ef.nrecv

\* The reactor polls exactly the descriptors of the live flows, each for its
\* own flow and for what that flow waits for, and the admission counters are
\* exact: no descriptor is polled after its close, none spins at end of file.
EgressPolled ==
    /\ \A f \in EgFds : eg_fd[f].ctx # "none" =>
         /\ eg_flow[eg_fd[f].ctx].live
         /\ eg_flow[eg_fd[f].ctx].fd = f
    /\ \A a \in EgLive :
         LET ef == eg_flow[a]
         IN /\ eg_stream[ef.stream].slot = a
            /\ eg_fd[ef.fd] = IF ef.state = "CONNECTING"
                              THEN [ctx |-> a, r |-> FALSE, w |-> TRUE]
                              ELSE [ctx |-> a, r |-> ef.uplink_stash = <<>> /\ ~ef.eof_seen,
                                    w |-> ef.downlink_stash # <<>>]
    /\ eg_fd_count = Cardinality(EgLive)
    /\ eg_conn_count = Cardinality(EgLive)

\* on_relay_error never tears down another flow that was given the address of
\* the failed one while the flush ran.
AbortsTheFailedFlow ==
    [][\A a \in EgAddrs :
          (eg_erring # NoEgErr /\ eg_erring' = NoEgErr /\ eg_flow[a].live /\ ~eg_flow'[a].live)
             => eg_flow[a].serial = eg_erring.serial]_eg_vars

Pending(s) ==
    /\ eg_stream[s].slot # "none"
    /\ LET ef == eg_flow[eg_stream[s].slot]
       IN \/ eg_stream[s].body # <<>> \/ ef.downlink_stash # <<>>
          \/ eg_stream[s].fin /\ ~ef.shutdown_done
          \/ ef.inbox # <<>> \/ ef.uplink_stash # <<>>
          \/ ef.target_eof /\ ~ef.uplink_fin_sent

\* Without idle eviction a flow never sits on bytes or on a FIN for ever: not
\* on body that came before the connect was through, nor on a stash, nor on a
\* FIN that arrived during a pause.
EgressProgress == \A s \in EgStreams : ~eg_case.idle_evict /\ Pending(s) ~> ~Pending(s)

\* A relay pass that ends because its budget is spent leaves the flow alone.
YieldKeepsFlow ==
    [][\A a \in EgAddrs :
          (/\ eg_erring = NoEgErr /\ eg_flow[a].live
           /\ Len(eg_stream'[eg_flow[a].stream].up) =
                Len(eg_stream[eg_flow[a].stream].up) + TCP_EGRESS_RELAY_BUDGET)
             => eg_erring' = NoEgErr]_eg_vars
=============================================================================
