------------------------------ MODULE H2Proxy ------------------------------
(***************************************************************************)
(* The HTTP/3 to HTTP/2 fallback proxy of the server (src/src/h2_proxy.c): *)
(* requests of several downstream QUIC connections are carried as streams  *)
(* of a few shared backend connections.  Streams are malloc'd objects      *)
(* named by their address.  A response is the sequence of its header       *)
(* blocks and numbered body units; one unit stands for the bytes on which  *)
(* nghttp2 sends a WINDOW_UPDATE.  xquic takes `room` items of what a call *)
(* offers it, none once the request was reset; nghttp2 keeps the credit    *)
(* the backend has on a session and on each of its streams, the user data  *)
(* of a stream and what is still to be sent.                               *)
(***************************************************************************)
EXTENDS Integers, Sequences, SequencesExt, FiniteSets

CONSTANTS
    h2_max_connections,
    h2_max_streams_per_conn,
    h2_max_buffered_body,
    H2Window,              \* initial window of a stream and of a session, in units
    H2Cases                \* records of: the addresses calloc may return for the stream of
                           \* each request and for backend connections, the connection key
                           \* of each request, the units of request and of response body,
                           \* the frames a backend sends, what xquic may take, whether
                           \* clients and backends fail, and backend_proxy_protocol

VARIABLES
    h2_case,         \* the member of H2Cases of this behaviour
    h2_req,          \* the H3 requests, as xquic and svr_stream_t have them
    h2_stream,       \* h2_proxy_stream_t, by address
    h2_streams,      \* proxy->streams, head first
    h2_pressure,     \* h3_send_pressure_t, by connection key
    h2_conn,         \* h2_backend_conn_t, by address
    h2_connections   \* proxy->connections, head first

h2_vars == <<h2_case, h2_req, h2_stream, h2_streams, h2_pressure, h2_conn, h2_connections>>

H2Reqs == 1..Len(h2_case.keys)
H2Keys == Range(h2_case.keys)
H2Addrs == UNION Range(h2_case.addrs)
H2Slots == h2_case.slots

NoH2Stream == [live |-> FALSE]
NoH2Conn == [live |-> FALSE]
NoPressure == [stream_count |-> 0, rr_next |-> "none"]
Closed == [open |-> FALSE]

H2Init ==
    /\ h2_case \in H2Cases
    /\ h2_req = [r \in H2Reqs |-> [st |-> "new", ptr |-> "none", notify |-> FALSE,
                                   out |-> <<>>, refused |-> FALSE, nbody |-> 0, fin |-> FALSE,
                                   at_backend |-> <<>>, from_backend |-> <<>>]]
    /\ h2_stream = [a \in H2Addrs |-> NoH2Stream]
    /\ h2_streams = <<>>
    /\ h2_pressure = [k \in H2Keys |-> NoPressure]
    /\ h2_conn = [c \in H2Slots |-> NoH2Conn]
    /\ h2_connections = <<>>

H2Cur == [req |-> h2_req, stream |-> h2_stream, streams |-> h2_streams,
          pressure |-> h2_pressure, conn |-> h2_conn, connections |-> h2_connections,
          failed |-> FALSE, stale |-> FALSE]

\* The server has ended; xquic closes what requests there were.
Ended(q) ==
    [q EXCEPT !.req = [r \in H2Reqs |-> [q.req[r] EXCEPT !.st = "closed", !.ptr = "none",
                                                         !.notify = FALSE]],
              !.stream = [a \in H2Addrs |-> NoH2Stream], !.streams = <<>>,
              !.pressure = [k \in H2Keys |-> NoPressure],
              !.conn = [c \in H2Slots |-> NoH2Conn], !.connections = <<>>]

\* stale: memory was used after it was freed.  What it held is read or overwritten
\* without harm, as nothing else was allocated since; or the process ends.
H2Commit(q) ==
    \E o \in {q} \union (IF q.stale THEN {Ended(q)} ELSE {}) :
        /\ h2_req' = o.req
        /\ h2_stream' = o.stream
        /\ h2_streams' = o.streams
        /\ h2_pressure' = o.pressure
        /\ h2_conn' = o.conn
        /\ h2_connections' = o.connections
        /\ UNCHANGED h2_case

KeyOf(q, a) == h2_case.keys[q.stream[a].req]

-----------------------------------------------------------------------------
(* xquic and nghttp2, as the proxy uses them *)

xqc_h3_request_set_write_notify(q, r, on) == [q EXCEPT !.req[r].notify = on]

\* Output of a session: unsent requests, request body that is not deferred,
\* resets, WINDOW_UPDATEs of the session and of its streams.
nghttp2_session_want_write(q, c) ==
    \/ q.conn[c].rst # {} \/ q.conn[c].update > 0
    \/ \E r \in H2Reqs :
         LET n == q.conn[c].strm[r]
         IN n.open /\ (~n.sent \/ n.update > 0 \/ (~n.reqdone /\ n.ptr # "none" /\ ~n.deferred))

-----------------------------------------------------------------------------
(* Streams and their bookkeeping *)

stream_set_response_blocked(q, a, blocked) ==
    LET p == [q EXCEPT !.stream[a].response_blocked = blocked]
    IN IF blocked \/ q.stream[a].response_blocked
       THEN xqc_h3_request_set_write_notify(p, q.stream[a].req, blocked) ELSE p

stream_detach_backend(q, a) ==
    IF q.stream[a].backend_conn = "none" THEN q
    ELSE [stream_set_response_blocked(q, a, FALSE)
            EXCEPT !.conn[q.stream[a].backend_conn].stream_count = @ - 1,
                   !.stream[a].backend_conn = "none"]

stream_create(q, a, r) ==
    LET k == h2_case.keys[r]
    IN [q EXCEPT
          !.stream[a] = [live |-> TRUE, req |-> r, backend_conn |-> "none", submitted |-> FALSE,
                         request_body |-> <<>>, request_eof |-> FALSE,
                         response_body |-> <<>>, response_eof |-> FALSE,
                         response_fin_sent |-> FALSE, pending |-> "none",
                         response_started |-> FALSE, response_blocked |-> FALSE,
                         backend_stream_closed |-> FALSE, response_unconsumed |-> 0],
          !.streams = <<a>> \o @,
          !.pressure[k].stream_count = @ + 1,
          !.pressure[k].rr_next = IF @ = "none" THEN a ELSE @]

\* The element behind a in the list, or "none".
After(list, a) ==
    LET i == CHOOSE j \in DOMAIN list : list[j] = a
    IN IF i < Len(list) THEN list[i + 1] ELSE "none"

stream_destroy(q, a) ==
    LET s == q.stream[a]
        k == KeyOf(q, a)
        forget == IF s.backend_conn # "none" /\ s.submitted /\ ~s.backend_stream_closed
                  THEN [q EXCEPT !.conn[s.backend_conn].strm[s.req].ptr = "none"] ELSE q
        quiet == stream_set_response_blocked(stream_detach_backend(forget, a), a, FALSE)
        count == q.pressure[k].stream_count - 1
    IN [quiet EXCEPT
          !.streams = Remove(@, a),
          !.pressure[k] = IF count = 0 THEN NoPressure
                          ELSE [stream_count |-> count,
                                rr_next |-> IF @.rr_next = a THEN After(q.streams, a)
                                            ELSE @.rr_next],
          !.stream[a] = NoH2Stream]

backend_update_interest(q, c) ==
    [q EXCEPT !.conn[c].want_write = ~q.conn[c].connected \/ q.conn[c].pp = "prepared"
                                       \/ nghttp2_session_want_write(q, c)]

\* cb_request_close: the stream of the request is forgotten, at the backend too.
h2_proxy_on_h3_close(q, r) ==
    LET a == q.req[r].ptr
        s == q.stream[a]
        c == s.backend_conn
        cancelled == [q EXCEPT !.conn[c].strm[r].ptr = "none", !.conn[c].rst = @ \union {r}]
        p == IF a = "none" THEN q
             ELSE stream_destroy(IF c # "none" /\ s.submitted /\ ~s.backend_stream_closed
                                 THEN backend_update_interest(cancelled, c) ELSE q, a)
    IN [p EXCEPT !.req[r].st = "closed", !.req[r].ptr = "none", !.req[r].notify = FALSE]

\* xqc_h3_request_close: the close notify comes later, from the engine; or at once,
\* inside the call, when the transport stream of the request is shut already.
h2_request_close(q, r) ==
    IF q.req[r].st = "shut" THEN h2_proxy_on_h3_close(q, r)
    ELSE [q EXCEPT !.req[r].st = IF @ = "open" THEN "reset" ELSE @]

-----------------------------------------------------------------------------
(* The response path *)

Item(kind) == <<kind, 0>>
Unit(i) == <<"D", i>>

offered_unordered(s) ==
    (IF s.pending # "none" THEN <<Item(s.pending)>> ELSE <<>>) \o s.response_body

Offered(s) ==
    (IF s.pending \in {"103", "H"} THEN <<Item(s.pending)>> ELSE <<>>) \o s.response_body
      \o (IF s.pending = "T" THEN <<Item("T")>> ELSE <<>>)

Body(items) == Len(SelectSeq(items, LAMBDA x : x[1] = "D"))

consume_dropped(q, a, amount) == [q EXCEPT !.stream[a].response_unconsumed = @ - amount]

\* nghttp2_session_consume_stream queues a WINDOW_UPDATE.
stream_consume_response(q, a, amount) ==
    LET s == q.stream[a]
        p == [q EXCEPT !.stream[a].response_unconsumed = @ - amount]
    IN IF amount = 0 THEN q
       ELSE IF s.backend_conn = "none" \/ amount > s.response_unconsumed
       THEN [q EXCEPT !.failed = TRUE]
       ELSE IF s.backend_stream_closed THEN p
       ELSE [p EXCEPT !.conn[s.backend_conn].strm[s.req].update = @ + amount]

\* Headers, body, trailers, then the FIN, which rides on the last of them; the
\* first item xquic does not take ends the pass.  A write that is taken whole
\* drops the stream from xquic's writable scheduling.
stream_flush_response(q, a, room) ==
    LET s == q.stream[a]
        offered == Offered(s)
        n == Len(offered)
        k == IF room < n THEN room ELSE n
        all == k = n /\ (s.response_eof /\ n = 0 => room > 0)
        items == SubSeq(offered, 1, k)
        sent == [q EXCEPT
                   !.req[s.req].out = @ \o items \o (IF all /\ s.response_eof THEN <<Item("FIN")>>
                                                     ELSE <<>>),
                   !.req[s.req].notify = @ /\ k = 0,
                   !.stream[a].pending = IF Item(@) \in Range(items) THEN "none" ELSE @,
                   !.stream[a].response_started = @ \/ Item("H") \in Range(items),
                   !.stream[a].response_body = SubSeq(@, Body(items) + 1, Len(@)),
                   !.stream[a].response_fin_sent = all /\ s.response_eof]
        p == stream_consume_response(sent, a, Body(items))
        done == p.stream[a].backend_stream_closed /\ p.stream[a].response_unconsumed = 0
                  /\ p.stream[a].response_fin_sent
    IN IF ~s.live \/ s.response_fin_sent THEN q
       ELSE IF (q.req[s.req].st # "open" /\ (n > 0 \/ s.response_eof)) \/ p.failed
       THEN [q EXCEPT !.failed = TRUE]
       ELSE IF ~all THEN stream_set_response_blocked(p, a, TRUE)
       ELSE stream_set_response_blocked(IF done THEN stream_detach_backend(p, a) ELSE p, a, FALSE)

\* The streams of connection k in list order.
Rotation(q, k) == SelectSeq(q.streams, LAMBDA a : KeyOf(q, a) = k)

\* A cursor that was moved to the next stream of the list may have left the
\* connection, and its stream may be freed since.
Dangling(q, k) == q.pressure[k].rr_next # "none" /\ ~q.stream[q.pressure[k].rr_next].live

FirstStream(q, k) ==
    LET rr == q.pressure[k].rr_next
        rot == Rotation(q, k)
    IN IF rr \in Range(rot) THEN rr ELSE rot[1]

NextStream(q, k, a) ==
    LET rot == Rotation(q, k)
        i == CHOOSE j \in DOMAIN rot : rot[j] = a
    IN rot[(i % Len(rot)) + 1]

\* One turn for each stream from the cursor on; before turn number `valve` + 1
\* the unsent-byte valve is found shut.
send_pressure_run_round(q, k, room, valve) ==
    LET Serve(acc, i) ==
            LET a == acc.at
                next == NextStream(acc.q, k, a)
                f == stream_flush_response([acc.q EXCEPT !.pressure[k].rr_next = next], a, room[i])
            IN IF i > valve THEN acc
               ELSE IF i = valve
               THEN [acc EXCEPT !.q = stream_set_response_blocked(
                                          [@ EXCEPT !.pressure[k].rr_next = a], a, TRUE)]
               ELSE [at |-> next,
                     q |-> IF f.failed
                           THEN [h2_request_close(f, f.stream[a].req) EXCEPT !.failed = FALSE]
                           ELSE f]
        n == Len(Rotation(q, k))
    IN IF n = 0 THEN q
       ELSE FoldLeft(Serve, [at |-> FirstStream(q, k),
                             q |-> [q EXCEPT !.stale = @ \/ Dangling(q, k)]],
                     [i \in 1..n |-> i - 1]).q

-----------------------------------------------------------------------------
(* Callbacks of nghttp2 inside nghttp2_session_mem_recv *)

\* on_begin_headers, on_header and on_frame_recv of one HEADERS frame.
on_headers_callback(q, c, r, kind, end, room) ==
    LET a == q.conn[c].strm[r].ptr
    IN IF a = "none" THEN q
       ELSE IF q.stream[a].pending # "none" \/ kind = "bad" \/ (kind = "103" /\ end)
       THEN [q EXCEPT !.failed = TRUE]
       ELSE stream_flush_response(
                [q EXCEPT !.stream[a].pending = kind,
                          !.stream[a].response_eof = @ \/ end], a, room)

\* The credit of the session is given back at once (nghttp2_session_consume_connection).
data_appended(q, c, a, unit) ==
    [q EXCEPT !.stream[a].response_body = Append(@, unit), !.stream[a].response_unconsumed = @ + 1,
              !.conn[c].update = @ + 1]

\* on_data_chunk_recv, and on_frame_recv for the END_STREAM flag.  Data for a stream
\* that was forgotten is dropped, and the session's credit for it with it.
on_data_chunk_recv_callback(q, c, r, unit, end, room) ==
    LET a == q.conn[c].strm[r].ptr
        p == stream_flush_response(data_appended(q, c, a, unit), a, room)
        left == room - (Len(p.req[r].out) - Len(q.req[r].out))
    IN IF a = "none" THEN [q EXCEPT !.conn[c].lost = @ + 1]
       ELSE IF Len(q.stream[a].response_body) >= h2_max_buffered_body
       THEN [q EXCEPT !.failed = TRUE]
       ELSE IF p.failed \/ ~end THEN p
       ELSE stream_flush_response([p EXCEPT !.stream[a].response_eof = TRUE], a, left)

on_stream_close_callback(q, c, r, error) ==
    LET a == q.conn[c].strm[r].ptr
        s == q.stream[a]
        told == IF error /\ a # "none" /\ ~s.response_fin_sent THEN h2_request_close(q, r) ELSE q
        gone == [told EXCEPT !.conn[c].strm[r] = Closed]
        reset == [gone EXCEPT !.stream[a].response_unconsumed = 0,
                              !.stream[a].response_body = <<>>,
                              !.stream[a].backend_stream_closed = TRUE]
        ended == [gone EXCEPT !.stream[a].backend_stream_closed = TRUE]
    IN IF a = "none" THEN gone
       ELSE IF ~gone.stream[a].live THEN [gone EXCEPT !.stale = TRUE]
       ELSE IF error THEN stream_detach_backend(reset, a)
       ELSE IF s.response_unconsumed = 0 /\ s.response_fin_sent
       THEN stream_detach_backend(ended, a) ELSE ended

\* A stream that is finished both ways closes.
CloseIfDone(q, c, r) ==
    LET n == q.conn[c].strm[r]
    IN IF n.open /\ n.reqdone /\ n.respdone THEN on_stream_close_callback(q, c, r, FALSE) ELSE q

-----------------------------------------------------------------------------
(* Backend connections *)

\* A request that was not answered yet gets a 502, if xquic takes it.
send_bad_gateway(q, a, taken) ==
    IF q.stream[a].response_started THEN q
    ELSE IF ~taken \/ q.req[q.stream[a].req].st # "open"
    THEN [q EXCEPT !.req[q.stream[a].req].refused = TRUE]
    ELSE [q EXCEPT !.req[q.stream[a].req].out = @ \o <<Item("502"), Item("FIN")>>,
                   !.stream[a].response_started = TRUE, !.stream[a].response_fin_sent = TRUE]

backend_destroy(q, c, taken) ==
    LET Drop(p, a) ==
            LET s == p.stream[a]
                quiet == IF s.response_blocked THEN stream_set_response_blocked(p, a, FALSE) ELSE p
                empty == [quiet EXCEPT !.stream[a].response_unconsumed = 0,
                                       !.stream[a].response_body = <<>>,
                                       !.stream[a].pending = "none"]
                told == IF s.response_started /\ ~s.response_fin_sent
                        THEN h2_request_close(empty, s.req)
                        ELSE send_bad_gateway(empty, a, taken)
            IN IF s.backend_conn # c THEN p
               ELSE IF ~told.stream[a].live THEN [told EXCEPT !.stale = TRUE]
               ELSE [told EXCEPT !.stream[a].backend_stream_closed = TRUE,
                                 !.stream[a].backend_conn = "none"]
    IN [FoldLeft(Drop, q, q.streams)
          EXCEPT !.connections = Remove(@, c), !.conn[c] = NoH2Conn, !.failed = FALSE]

\* socket, connect or nghttp2 may fail (then there is no connection).
backend_create(q, c, connected) ==
    backend_update_interest(
        [q EXCEPT !.conn[c] = [live |-> TRUE, connected |-> connected, stream_count |-> 0,
                               idle |-> FALSE, pp |-> "none", pp_client |-> "none",
                               want_write |-> FALSE, rst |-> {},
                               credit |-> H2Window, update |-> 0, lost |-> 0,
                               strm |-> [r \in H2Reqs |-> Closed]],
                  !.connections = <<c>> \o @], c)

Available(q) == SelectSeq(q.connections, LAMBDA c : q.conn[c].stream_count < h2_max_streams_per_conn)

\* The PROXY header of a connection is made for its first request; what of it
\* the socket does not take is sent when the socket is writable.
submit_request(q, a, fin, flushed) ==
    LET s == q.stream[a]
        c == s.backend_conn
        prepare == h2_case.proxy_protocol /\ q.conn[c].pp = "none"
        pp == IF prepare THEN [q EXCEPT !.conn[c].pp = "prepared",
                                        !.conn[c].pp_client = h2_case.keys[s.req]] ELSE q
        flush == IF q.conn[c].connected /\ flushed /\ pp.conn[c].pp = "prepared"
                 THEN [pp EXCEPT !.conn[c].pp = "sent"] ELSE pp
    IN [flush EXCEPT
          !.stream[a].request_eof = fin, !.stream[a].submitted = TRUE,
          !.conn[c].strm[s.req] = [open |-> TRUE, ptr |-> a, sent |-> FALSE, deferred |-> FALSE,
                                   reqdone |-> FALSE, respdone |-> FALSE,
                                   credit |-> H2Window, update |-> 0]]

\* Everything a session has queued goes out: resets, requests with the body
\* that is there (its end if there is no more to come), WINDOW_UPDATEs.
nghttp2_session_send(q, c) ==
    LET Send(p, r) ==
            LET n == p.conn[c].strm[r]
                s == p.stream[n.ptr]
                end == n.ptr # "none" /\ s.request_eof
                hdr == [p EXCEPT !.conn[c].strm[r].sent = TRUE,
                                 !.conn[c].strm[r].credit = @ + n.update,
                                 !.conn[c].strm[r].update = 0]
                body == [hdr EXCEPT !.req[r].at_backend = @ \o s.request_body
                                        \o (IF end THEN <<Item("FIN")>> ELSE <<>>),
                                    !.stream[n.ptr].request_body = <<>>,
                                    !.conn[c].strm[r].deferred = ~end,
                                    !.conn[c].strm[r].reqdone = end]
            IN IF ~n.open THEN p
               ELSE IF r \in p.conn[c].rst THEN [p EXCEPT !.conn[c].strm[r] = Closed]
               ELSE IF n.reqdone \/ n.ptr = "none" THEN hdr
               ELSE CloseIfDone(body, c, r)
    IN [FoldLeft(Send, q, [r \in H2Reqs |-> r])
          EXCEPT !.conn[c].rst = {}, !.conn[c].credit = @ + q.conn[c].update, !.conn[c].update = 0]

-----------------------------------------------------------------------------
(* Entry points called by the server *)

\* cb_request_read with the headers of request r.  A failed request is
\* answered 502 and leaves no stream behind.
h2_proxy_handle_request(r, fin) ==
    /\ h2_req[r].st = "new" /\ (h2_case.request = 0 => fin)
    /\ \A o \in H2Reqs : o < r => h2_req[o].st # "new"
    /\ \E a \in {b \in h2_case.addrs[r] : ~h2_stream[b].live}, taken, flushed \in BOOLEAN :
         LET q == stream_create([H2Cur EXCEPT !.req[r].st = "open", !.req[r].fin = fin], a, r)
             reject(p) == H2Commit(stream_destroy(send_bad_gateway(p, a, taken), a))
             submit(p, c) ==
                 LET b == [p EXCEPT !.stream[a].backend_conn = c, !.conn[c].stream_count = @ + 1]
                 IN \/ H2Commit(backend_update_interest(
                          [submit_request(b, a, fin, flushed) EXCEPT !.req[r].ptr = a], c))
                    \/ reject(b)
         IN IF Available(q) # <<>> THEN submit(q, Available(q)[1])
            ELSE \/ reject(q)
                 \/ /\ Len(q.connections) < h2_max_connections
                    /\ \E c \in {d \in H2Slots : ~h2_conn[d].live}, connected \in BOOLEAN :
                          submit(backend_create(q, c, connected), c)

\* cb_request_read with body: one unit, or the end.  An error return resets
\* the request.
h2_proxy_on_h3_body(r, fin) ==
    LET a == h2_req[r].ptr
        s == h2_stream[a]
        got == IF fin THEN [H2Cur EXCEPT !.req[r].fin = TRUE]
               ELSE [H2Cur EXCEPT !.req[r].nbody = @ + 1]
        fed == [got EXCEPT !.stream[a].request_body =
                             IF fin THEN @ ELSE Append(@, Unit(h2_req[r].nbody + 1)),
                           !.stream[a].request_eof = fin]
        resumed == IF s.backend_stream_closed THEN fed
                   ELSE [fed EXCEPT !.conn[s.backend_conn].strm[r].deferred = FALSE]
    IN /\ h2_req[r].st = "open" /\ ~h2_req[r].fin
       /\ fin \/ h2_req[r].nbody < h2_case.request
       /\ IF a = "none" \/ s.response_fin_sent THEN H2Commit(got)
          ELSE IF s.backend_conn = "none" \/ Len(s.request_body) >= h2_max_buffered_body
          THEN H2Commit(h2_request_close(got, r))
          ELSE H2Commit(backend_update_interest(resumed, s.backend_conn))

Turns(k) == 0..Len(Rotation(H2Cur, k)) - 1
Rooms == h2_case.rooms

\* cb_request_write.
h2_proxy_on_h3_writable(r) ==
    /\ h2_req[r].st = "open" /\ h2_req[r].notify /\ h2_req[r].ptr # "none"
    /\ LET k == h2_case.keys[r]
       IN \E room \in [Turns(k) -> Rooms], valve \in Turns(k) \union {Len(Rotation(H2Cur, k))} :
            H2Commit(send_pressure_run_round(H2Cur, k, room, valve))

\* cb_request_close, from the engine.
H3RequestCloses(r) ==
    /\ h2_req[r].st \in {"open", "reset", "shut"}
    /\ H2Commit(h2_proxy_on_h3_close(H2Cur, r))

\* What a backend may send on an open stream: [kind, end].
Frames(r) ==
    LET seen == h2_req[r].from_backend
    IN {f \in [kind : h2_case.frames, end : BOOLEAN] :
          CASE f.kind = "bad" -> Item("H") \notin Range(seen) /\ ~f.end
            [] f.kind = "103" -> seen = <<>> /\ ~f.end
            [] f.kind = "H" -> Item("H") \notin Range(seen)
            [] f.kind = "D" -> Item("H") \in Range(seen) /\ Body(seen) < h2_case.response
            [] f.kind = "T" -> Item("H") \in Range(seen) /\ f.end}

recv_frame(q, c, r, f, room) ==
    LET item == IF f.kind = "D" THEN Unit(Body(q.req[r].from_backend) + 1) ELSE Item(f.kind)
        sent == [q EXCEPT !.req[r].from_backend = @ \o <<item>> \o
                                (IF f.end THEN <<Item("FIN")>> ELSE <<>>),
                          !.conn[c].strm[r].credit = IF f.kind = "D" THEN @ - 1 ELSE @,
                          !.conn[c].credit = IF f.kind = "D" THEN @ - 1 ELSE @,
                          !.conn[c].strm[r].respdone = f.end]
        p == IF f.kind = "D" THEN on_data_chunk_recv_callback(sent, c, r, item, f.end, room)
             ELSE on_headers_callback(sent, c, r, f.kind, f.end, room)
    IN IF p.failed THEN p ELSE CloseIfDone(p, c, r)

\* One report of a backend descriptor.  A connect, the PROXY header, reads up
\* to an empty socket, writes; an error in any of them ends the connection.
h2_proxy_on_backend_ready(c) ==
    LET q == [H2Cur EXCEPT !.conn[c].idle = FALSE, !.conn[c].connected = TRUE]
        fail(p) == \E taken \in BOOLEAN : H2Commit(backend_destroy(p, c, taken))
        finish(p) ==
            IF p.failed THEN fail(p)
            ELSE \/ H2Commit(backend_update_interest(nghttp2_session_send(p, c), c))
                 \/ H2Commit(backend_update_interest(p, c))
        ready == IF q.conn[c].pp = "prepared" THEN [q EXCEPT !.conn[c].pp = "sent"] ELSE q
    IN /\ h2_conn[c].live
       /\ \/ h2_case.faults /\ fail(q)
          \/ q.conn[c].pp = "prepared" /\ H2Commit(backend_update_interest(q, c))
          \/ h2_conn[c].want_write /\ finish(ready)
          \/ \E r \in H2Reqs, room \in Rooms :
               LET n == h2_conn[c].strm[r]
               IN /\ n.open /\ n.sent /\ ~n.respdone
                  /\ \/ \E f \in Frames(r) :
                          /\ f.kind = "D" => n.credit > 0 /\ h2_conn[c].credit > 0
                          /\ f.kind = "bad" => n.ptr # "none"
                          /\ finish(recv_frame(ready, c, r, f, room))
                     \/ h2_case.faults /\ finish(on_stream_close_callback(ready, c, r, TRUE))

\* The loop goes on from the connection it served, which is freed with its last stream.
h2_proxy_tick ==
    \E room \in [0..1 -> Rooms], shut \in BOOLEAN :
       LET Served(p, k) == send_pressure_run_round(p, k, [i \in 0..Len(p.streams) |-> room[i % 2]],
                                                   IF shut THEN 0 ELSE Len(p.streams))
           Freed(p, v, k) == Rotation(p, k) # <<>> /\ Rotation(v, k) = <<>>
           Round(p, k) == LET v == Served(p, k) IN [v EXCEPT !.stale = @ \/ Freed(p, v, k)]
           flushed == FoldSet(LAMBDA k, p : Round(p, k), H2Cur, H2Keys)
           Evict(p, c) == IF p.conn[c].stream_count = 0 /\ p.conn[c].idle
                          THEN backend_destroy(p, c, FALSE) ELSE p
       IN H2Commit(FoldLeft(Evict, flushed, h2_connections))

needs_tick_without_fin ==
    \E a \in Range(h2_streams) :
        LET s == h2_stream[a]
        IN ~s.response_fin_sent /\ (s.pending # "none" \/ s.response_body # <<>>)

h2_proxy_needs_tick ==
    \E a \in Range(h2_streams) :
        LET s == h2_stream[a]
        IN ~s.response_fin_sent /\ (s.pending # "none" \/ s.response_body # <<>> \/ s.response_eof)

\* RESET_STREAM or STOP_SENDING of the client; then the transport stream is shut.
PeerResets(r) ==
    \/ /\ h2_req[r].st = "open" /\ h2_case.faults
       /\ H2Commit([H2Cur EXCEPT !.req[r].st = "reset"])
    \/ /\ h2_req[r].st = "reset"
       /\ H2Commit([H2Cur EXCEPT !.req[r].st = "shut"])

IdlePasses(c) ==
    /\ h2_conn[c].live /\ ~h2_conn[c].idle /\ h2_conn[c].stream_count = 0
    /\ H2Commit([H2Cur EXCEPT !.conn[c].idle = TRUE])

\* mqvpn_server_destroy, after the engine.
h2_proxy_destroy ==
    LET free == FoldLeft(stream_destroy, H2Cur, h2_streams)
    IN /\ h2_connections # <<>>
       /\ H2Commit(Ended(FoldLeft(LAMBDA p, c : backend_destroy(p, c, FALSE), free, h2_connections)))

H2Next ==
    \/ \E r \in H2Reqs :
         \/ \E fin \in BOOLEAN : h2_proxy_handle_request(r, fin) \/ h2_proxy_on_h3_body(r, fin)
         \/ h2_proxy_on_h3_writable(r)
         \/ H3RequestCloses(r)
         \/ PeerResets(r)
    \/ \E c \in H2Slots : h2_proxy_on_backend_ready(c) \/ IdlePasses(c)
    \/ h2_proxy_tick
    \/ h2_proxy_destroy

-----------------------------------------------------------------------------
(* Fairness: the server tick, which the event loop runs at least every      *)
(* 50 ms while h2_proxy_needs_tick, in the end finds room in xquic, and     *)
(* xquic closes a request that was reset.  Write notifications may be lost. *)

TickServes ==
    LET Round(p, k) == send_pressure_run_round(p, k, [i \in 0..Len(p.streams) |-> 1],
                                               Len(p.streams))
    IN /\ h2_proxy_needs_tick
       /\ h2_stream' = FoldSet(LAMBDA k, p : Round(p, k), H2Cur, H2Keys).stream

H2Fairness ==
    /\ []<>~h2_proxy_needs_tick \/ []<><<TickServes>>_h2_vars
    /\ []<>(\A r \in H2Reqs : h2_req[r].st \notin {"reset", "shut"})

H2Spec == H2Init /\ [][H2Next]_h2_vars /\ H2Fairness

-----------------------------------------------------------------------------
(* Properties *)

H2Live == {a \in H2Addrs : h2_stream[a].live}

\* A response reaches the client as the backend sent it: what xquic took, what
\* is buffered, and nothing else, in the order headers, body, trailers, FIN; a
\* response that cannot be completed is a 502 or a reset, never a short one
\* (unless xquic refused the 502).
ResponseIntact ==
    \A r \in H2Reqs :
        LET out == h2_req[r].out
            from == h2_req[r].from_backend
            a == h2_req[r].ptr
            s == h2_stream[a]
        IN /\ \/ IsPrefix(out, from) \/ h2_req[r].refused
              \/ \E i \in 0..Len(out) :
                    out = SubSeq(from, 1, i) \o <<Item("502"), Item("FIN")>>
                      /\ Item("H") \notin Range(SubSeq(from, 1, i))
           /\ a # "none" /\ h2_req[r].st = "open" /\ s.backend_conn # "none" =>
                 out \o Offered(s) \o (IF s.response_eof /\ ~s.response_fin_sent
                                       THEN <<Item("FIN")>> ELSE <<>>) = from

\* Counts and pointers agree: streams of a connection and of a rotation, user
\* data of a session; the credit withheld from the backend is on a stream what is
\* buffered of it, and on a session what came for streams already forgotten, which
\* is never given back; whether closes notify at once or later.  A PROXY header is
\* complete before the first request; and a response that xquic pushed back on has
\* its write notification armed in xquic, whatever was accepted since it was armed.
H2Books ==
    /\ \A c \in Range(h2_connections) :
         /\ h2_conn[c].stream_count = Cardinality({a \in H2Live : h2_stream[a].backend_conn = c})
         /\ \A r \in H2Reqs : h2_conn[c].strm[r].open =>
              LET n == h2_conn[c].strm[r]
              IN /\ n.ptr = h2_req[r].ptr
                 /\ n.ptr # "none" =>
                      /\ h2_stream[n.ptr].backend_conn = c
                      /\ n.credit + n.update + Len(h2_stream[n.ptr].response_body) = H2Window
                 /\ n.sent /\ h2_case.proxy_protocol => h2_conn[c].pp = "sent"
         /\ h2_conn[c].credit + h2_conn[c].update + h2_conn[c].lost = H2Window
    /\ \A k \in H2Keys : h2_pressure[k].stream_count = Cardinality({a \in H2Live : KeyOf(H2Cur, a) = k})
    /\ \A a \in H2Live : h2_req[h2_stream[a].req].ptr = a /\ (h2_stream[a].backend_conn # "none" =>
                               h2_conn[h2_stream[a].backend_conn].live)
    /\ \A a \in H2Live : h2_stream[a].response_blocked => h2_req[h2_stream[a].req].notify

\* Buffered headers, body or FIN never wait for ever, even if xquic never
\* delivers a write notification.
H2Progress ==
    \A r \in 1..3 :
        LET Waiting == /\ r \in H2Reqs /\ h2_req[r].ptr # "none"
                       /\ LET s == h2_stream[h2_req[r].ptr]
                          IN ~s.response_fin_sent /\ (Offered(s) # <<>> \/ s.response_eof)
        IN Waiting ~> ~Waiting

\* The backend is refused credit only for bytes xquic has not accepted: credit
\* given back is on its way, in a session that is polled for writing.
CreditOnItsWay ==
    \A c \in Range(h2_connections) :
        (\E r \in H2Reqs : h2_conn[c].strm[r].open /\ h2_conn[c].strm[r].update > 0)
            => h2_conn[c].want_write
=============================================================================
